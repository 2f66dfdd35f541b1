---------------------------- MODULE ClientsProofs ----------------------------
(***************************************************************************)
(* What a user meets (Clients.tla), for any market, pools, accounts,       *)
(* errors, prices, limits and bounds: that what the board says of a token  *)
(* is real (Board.tla), that a tab counts once and shows the book it was   *)
(* asked for, that the API takes in no more than its limits and as many    *)
(* requests as were in it together (Visit.tla), that an exit that says it  *)
(* is done has sold, that an approval pays for one position, and that a    *)
(* request comes to bins between the ticks (WebFlow.tla, BinPlan.tla), and *)
(* that what an agent is handed goes through (Agent.tla).                  *)
(*                                                                         *)
(* A step is one of a component's own, so each component has an invariant  *)
(* of its own, whose lemmas come first; the theorems are at the end.       *)
(***************************************************************************)
EXTENDS Clients, Sums, SequenceTheorems

-----------------------------------------------------------------------------
(* What is listed.                                                         *)

(* A listing names pairs.                                                  *)
LEMMA ListedPairs ==
  ASSUME NEW pairs \in Listings, NEW k \in DOMAIN pairs
  PROVE  pairs[k] \in PairIds /\ k \in Nat /\ VenueAt[pairs[k]] \in Venue
  BY BoardAssumption

(* The fee that is believed is the venue's own, and never that of a pool   *)
(* of ours, indexed or not.                                                *)
LEMMA FeeOfAnother ==
  ASSUME NEW v \in PairIds, NEW ids, StaticFee(v, ids) # None
  PROVE  /\ VenueAt[v].ours = None /\ VenueAt[v].kind # "unknown"
         /\ StaticFee(v, ids) = VenueAt[v].fee /\ VenueAt[v].fee > 0
<1>1. VenueAt[v] \in Venue
  BY BoardAssumption
<1>2. VenueAt[v].kind \in {"v4", "v3", "v2"} /\ VenueAt[v].fee \in Nat /\ MostFee \in Nat
  BY <1>1, BoardAssumption DEF Venue, StaticFee
<1>3. CASE VenueAt[v].kind = "v4"
  <2>1. VenueAt[v].fee \in 1 .. MostFee /\ StaticFee(v, ids) = VenueAt[v].fee
    BY <1>3 DEF StaticFee
  <2> QED
    BY <1>2, <1>3, <2>1, BoardAssumption
<1>4. CASE VenueAt[v].kind \in {"v3", "v2"}
  <2>1. StaticFee(v, ids) = VenueAt[v].fee
    BY <1>4 DEF StaticFee
  <2>2. VenueAt[v].fee > 0
    BY <1>4, BoardAssumption
  <2>3. VenueAt[v].ours = None
    BY <1>2, <2>2, BoardAssumption
  <2> QED
    BY <1>4, <2>1, <2>2, <2>3
<1> QED
  BY <1>2, <1>3, <1>4

(* So it does not depend on which pools of ours are indexed.               *)
LEMMA FeeWhicheverIndexed ==
  ASSUME NEW v \in PairIds, NEW open1, NEW open2
  PROVE  StaticFee(v, Known(open1)) = StaticFee(v, Known(open2))
<1>1. VenueAt[v] \in Venue
  BY BoardAssumption
<1>2. CASE VenueAt[v].ours = None
  <2>1. None \notin Known(open1) /\ None \notin Known(open2)
    BY BoardAssumption DEF Known
  <2> QED
    BY <1>2, <2>1 DEF StaticFee
<1>3. CASE VenueAt[v].ours # None
  <2>1. VenueAt[v].fee \notin 1 .. MostFee
    BY <1>3, BoardAssumption
  <2> QED
    BY <2>1 DEF StaticFee
<1> QED
  BY <1>2, <1>3

(* The least of some naturals is among them.                               *)
LEMMA MinOf ==
  ASSUME NEW T \in SUBSET Nat, T # {}
  PROVE  Min(T) \in T /\ \A j \in T : Min(T) <= j
  BY Least DEF Min

Real(i) ==
  i.pool # None => /\ VenueAt[i.pool].ours = None
                   /\ VenueAt[i.pool].kind # "unknown"
                   /\ i.fee = VenueAt[i.pool].fee /\ i.fee > 0

(* What is resolved is real.                                               *)
LEMMA ResolvedIsReal ==
  ASSUME NEW pairs \in Listings, NEW name, NEW ids, NEW dark
  PROVE  Real(ResolveIncumbent(pairs, name, ids, dark))
<1> DEFINE probed == {k \in Answering(pairs, name, dark) : StaticFee(pairs[k], ids) # None}
<1>1. probed \in SUBSET Nat /\ probed \subseteq DOMAIN pairs
  BY ListedPairs DEF Answering, RailPairs
<1>2. CASE probed = {}
  BY <1>2 DEF ResolveIncumbent, NoIncumbent, Real
<1>3. CASE probed # {}
  <2> DEFINE v == pairs[Min(probed)]
  <2>1. Min(probed) \in probed
    <3> HIDE DEF probed
    <3> QED
      BY <1>1, <1>3, MinOf
  <2>2. v \in PairIds /\ StaticFee(v, ids) # None
    BY <1>1, <2>1, ListedPairs
  <2>3. /\ VenueAt[v].ours = None /\ VenueAt[v].kind # "unknown"
        /\ StaticFee(v, ids) = VenueAt[v].fee /\ VenueAt[v].fee > 0
    <3> HIDE DEF v
    <3> QED
      BY <2>2, FeeOfAnother
  <2>4. ResolveIncumbent(pairs, name, ids, dark) = [pool |-> v, fee |-> StaticFee(v, ids)]
    BY <1>3 DEF ResolveIncumbent
  <2> HIDE DEF v
  <2> QED
    BY <2>3, <2>4 DEF Real
<1> QED
  BY <1>2, <1>3

(* And whichever pools of ours are indexed.                                *)
LEMMA ResolvedWhicheverIndexed ==
  ASSUME NEW pairs \in Listings, NEW name, NEW open1, NEW open2, NEW dark
  PROVE  ResolveIncumbent(pairs, name, Known(open1), dark)
           = ResolveIncumbent(pairs, name, Known(open2), dark)
<1>1. \A k \in Answering(pairs, name, dark) :
        StaticFee(pairs[k], Known(open1)) = StaticFee(pairs[k], Known(open2))
  <2> TAKE k \in Answering(pairs, name, dark)
  <2>1. pairs[k] \in PairIds
    BY ListedPairs DEF Answering, RailPairs
  <2> QED
    BY <2>1, FeeWhicheverIndexed
<1> DEFINE P1 == {k \in Answering(pairs, name, dark) : StaticFee(pairs[k], Known(open1)) # None}
           P2 == {k \in Answering(pairs, name, dark) : StaticFee(pairs[k], Known(open2)) # None}
<1>2. P1 = P2
  BY <1>1
<1>3. CASE P1 = {}
  BY <1>2, <1>3 DEF ResolveIncumbent
<1>4. CASE P1 # {}
  <2>1. P1 \in SUBSET Nat
    BY ListedPairs DEF Answering, RailPairs
  <2>2. Min(P1) \in P1
    <3> HIDE DEF P1
    <3> QED
      BY <1>4, <2>1, MinOf
  <2>3. StaticFee(pairs[Min(P1)], Known(open1)) = StaticFee(pairs[Min(P2)], Known(open2))
    BY <1>1, <1>2, <2>2
  <2> QED
    BY <1>2, <1>4, <2>3 DEF ResolveIncumbent
<1> QED
  BY <1>3, <1>4

OwnOpens == [OwnPools -> 0 .. MaxOpen \cup {None}]

LEMMA OpenOfKnown ==
  ASSUME NEW open \in OwnOpens, NEW p \in Known(open)
  PROVE  p \in OwnPools /\ open[p] \in 0 .. MaxOpen /\ Score(open, p) \in 0 .. 3
         /\ open[p] \in Nat /\ (open[p] > 0 <=> Score(open, p) \in {2, 3})
<1>1. p \in OwnPools /\ open[p] \in 0 .. MaxOpen /\ MaxOpen \in Nat
  BY BoardAssumption DEF Known, OwnOpens
<1>2. OwnAt[p].tier \in BOOLEAN
  BY <1>1, BoardAssumption DEF OwnPool
<1> QED
  BY <1>1, <1>2 DEF Score

(* The pool that is chosen exists, and none is better.                     *)
LEMMA BestIsBest ==
  ASSUME NEW open \in OwnOpens, NEW rail, Best(open, rail) # None
  PROVE  /\ Best(open, rail) \in Known(open) /\ OwnAt[Best(open, rail)].rail = rail
         /\ \A q \in Known(open) : OwnAt[q].rail = rail => ~Better(open, q, Best(open, rail))
<1> DEFINE on == {p \in Known(open) : OwnAt[p].rail = rail}
           scores == {Score(open, p) : p \in on}
<1>1. on # {}
  BY DEF Best
<1>2. PICK k \in scores : \A j \in scores : j <= k
  <2>1. scores \in SUBSET (0 .. 3) /\ scores # {}
    BY <1>1, OpenOfKnown
  <2> HIDE DEF scores
  <2> QED
    BY <2>1, Greatest
<1> DEFINE top == {p \in on : Score(open, p) = k}
           opens == {open[p] : p \in top}
<1>3. PICK n \in opens : \A j \in opens : j <= n
  <2>1. opens \in SUBSET (0 .. MaxOpen) /\ opens # {}
    BY <1>2, OpenOfKnown
  <2>2. MaxOpen \in Nat
    BY BoardAssumption
  <2> HIDE DEF opens
  <2> QED
    BY <2>1, <2>2, Greatest
<1>4. PICK p \in top : open[p] = n
  BY <1>3
<1>5. \A q \in on : ~Better(open, q, p)
  <2> TAKE q \in on
  <2>1. Score(open, q) \in 0 .. 3 /\ Score(open, p) \in 0 .. 3 /\ open[q] \in Nat /\ open[p] \in Nat
    BY <1>4, OpenOfKnown
  <2>2. Score(open, q) <= Score(open, p)
    BY <1>2, <1>4
  <2>3. Score(open, q) = Score(open, p) => open[q] <= open[p]
    BY <1>3, <1>4
  <2> QED
    BY <2>1, <2>2, <2>3 DEF Better
<1>6. \E c \in on : \A q \in on : ~Better(open, q, c)
  BY <1>4, <1>5
<1>7. Best(open, rail) = CHOOSE c \in on : \A q \in on : ~Better(open, q, c)
  BY <1>1 DEF Best
<1>8. Best(open, rail) \in on /\ \A q \in on : ~Better(open, q, Best(open, rail))
  <2> HIDE DEF on
  <2> QED
    BY <1>6, <1>7
<1> QED
  BY <1>8

(* What is answered about a row.                                           *)
LEMMA Enriched ==
  ASSUME NEW row, NEW open \in OwnOpens
  PROVE  LET e == EnrichToken(row, open)
         IN /\ e.quote = row.quote /\ e.incumbent = row.incumbent
            /\ e.pool # None => e.pool \in Known(open)
            /\ e.pool # None => \A q \in Known(open) :
                 OwnAt[q].rail = OwnAt[e.pool].rail => ~Better(open, q, e.pool)
            /\ e.fee = IF e.pool = None THEN Floor ELSE OwnAt[e.pool].fee
            /\ e.undercuts <=> row.incumbent.fee # None /\ e.fee < row.incumbent.fee
            /\ e = [quote |-> e.quote, incumbent |-> e.incumbent, pool |-> e.pool, fee |-> e.fee,
                    undercuts |-> e.undercuts]
            /\ e.undercuts \in BOOLEAN
<1> DEFINE e == EnrichToken(row, open)
           rail == IF row.quote = "USDG" THEN "USDG" ELSE "WETH"
           other == IF rail = "USDG" THEN "WETH" ELSE "USDG"
           pick == IF Best(open, rail) # None THEN Best(open, rail) ELSE Best(open, other)
           fee == IF pick = None THEN Floor ELSE OwnAt[pick].fee
<1>1. e = [quote |-> row.quote, incumbent |-> row.incumbent, pool |-> pick, fee |-> fee,
           undercuts |-> row.incumbent.fee # None /\ fee < row.incumbent.fee]
  BY DEF EnrichToken
<1>2. pick # None =>
        /\ pick \in Known(open)
        /\ \A q \in Known(open) : OwnAt[q].rail = OwnAt[pick].rail => ~Better(open, q, pick)
  BY BestIsBest
<1>3. fee = IF pick = None THEN Floor ELSE OwnAt[pick].fee
  OBVIOUS
<1> HIDE DEF pick, fee, e
<1>4. /\ e.quote = row.quote /\ e.incumbent = row.incumbent /\ e.pool = pick /\ e.fee = fee
      /\ e.undercuts = (row.incumbent.fee # None /\ fee < row.incumbent.fee)
      /\ e = [quote |-> e.quote, incumbent |-> e.incumbent, pool |-> e.pool, fee |-> e.fee,
              undercuts |-> e.undercuts]
  BY <1>1
<1> QED
  BY <1>2, <1>3, <1>4 DEF e

-----------------------------------------------------------------------------
(* The board's invariant.                                                  *)

BoardTyped ==
  /\ BoardTypeOK
  /\ boardScan # None => boardScan.pairs \in Listings
  /\ lookup # None => lookup = [row |-> lookup.row, open |-> lookup.open] /\ lookup.open \in OwnOpens

LEMMA ResolvedType ==
  ASSUME NEW pairs \in Listings, NEW name, NEW ids, NEW dark
  PROVE  ResolveIncumbent(pairs, name, ids, dark) \in Incumbent
<1> DEFINE probed == {k \in Answering(pairs, name, dark) : StaticFee(pairs[k], ids) # None}
<1>1. probed \in SUBSET Nat /\ probed \subseteq DOMAIN pairs
  BY ListedPairs DEF Answering, RailPairs
<1>2. CASE probed = {}
  BY <1>2 DEF ResolveIncumbent, NoIncumbent, Incumbent
<1>3. CASE probed # {}
  <2> DEFINE v == pairs[Min(probed)]
  <2>1. Min(probed) \in probed
    <3> HIDE DEF probed
    <3> QED
      BY <1>1, <1>3, MinOf
  <2>2. v \in PairIds /\ StaticFee(v, ids) # None /\ VenueAt[v] \in Venue
    BY <1>1, <2>1, ListedPairs
  <2>3. StaticFee(v, ids) \in Nat
    <3> HIDE DEF v
    <3> QED
      BY <2>2, FeeOfAnother DEF Venue
  <2>4. ResolveIncumbent(pairs, name, ids, dark) = [pool |-> v, fee |-> StaticFee(v, ids)]
    BY <1>3 DEF ResolveIncumbent
  <2> HIDE DEF v
  <2> QED
    BY <2>2, <2>3, <2>4 DEF Incumbent
<1> QED
  BY <1>2, <1>3

LEMMA RailType ==
  ASSUME NEW pairs \in Listings, NEW name \in Names
  PROVE  RailFor(pairs, name) \in Units \cup {None}
<1>1. \A v : RailOf(v, name) \in Units \cup {None}
  BY DEF RailOf, Names, Units
<1> QED
  BY <1>1 DEF RailFor

LEMMA EnrichedType ==
  ASSUME NEW row \in BoardRow, NEW open \in OwnOpens
  PROVE  EnrichToken(row, open) \in BoardAnswer
<1> DEFINE e == EnrichToken(row, open)
<1>1. /\ e.quote = row.quote /\ e.incumbent = row.incumbent
      /\ e.pool # None => e.pool \in Known(open)
      /\ e.fee = IF e.pool = None THEN Floor ELSE OwnAt[e.pool].fee
      /\ e = [quote |-> e.quote, incumbent |-> e.incumbent, pool |-> e.pool, fee |-> e.fee,
              undercuts |-> e.undercuts]
      /\ e.undercuts \in BOOLEAN
  BY Enriched
<1> HIDE DEF e
<1>2. e.pool \in OwnPools \cup {None} /\ e.fee \in Nat
  BY <1>1, OpenOfKnown, BoardAssumption DEF OwnPool
<1>3. e.quote \in Units \cup {None} /\ e.incumbent \in Incumbent
  BY <1>1 DEF BoardRow
<1>4. e \in BoardAnswer
  BY <1>1, <1>2, <1>3 DEF BoardAnswer
<1> QED
  BY <1>4 DEF e

LEMMA BoardBounds == MaxOpen \in Nat \ {0} /\ MaxBoardTrouble \in Nat
  BY BoardAssumption

LEMMA BoardTypedInit == BoardInit => BoardTyped
<1> SUFFICES ASSUME BoardInit PROVE BoardTyped
  OBVIOUS
<1>1. listing \in Listings /\ stockName = None /\ ownOpen \in [OwnPools -> 0 .. MaxOpen \cup {None}]
  BY DEF BoardInit
<1>2. boardRow = None /\ boardScan = None /\ answers = None /\ lookup = None
  BY DEF BoardInit
<1>3. upToDate \in BOOLEAN
  BY DEF BoardInit
<1>4. boardTrouble \in 0 .. MaxBoardTrouble
  <2>1. boardTrouble = 0
    BY DEF BoardInit
  <2> QED
    BY <2>1, BoardBounds
<1> QED
  BY <1>1, <1>2, <1>3, <1>4 DEF BoardTyped, BoardTypeOK

(* The count of troubles keeps its bound.                                  *)
LEMMA TroubleBound ==
  ASSUME boardTrouble \in 0 .. MaxBoardTrouble, BoardTroubled \/ UNCHANGED boardTrouble
  PROVE  boardTrouble' \in 0 .. MaxBoardTrouble
  BY BoardBounds DEF BoardTroubled

LEMMA BoardTypedStep == ASSUME BoardTyped, [BoardNext]_boardVars PROVE BoardTyped'
<1> USE DEF BoardTyped, BoardTypeOK
<1>1. CASE Relist
  <2>1. boardScan' \in BoardScan \cup {None} /\ (boardScan' # None => boardScan'.pairs \in Listings)
    BY <1>1 DEF Relist, Overtaken, BoardScan
  <2>2. boardTrouble' \in 0 .. MaxBoardTrouble
    BY <1>1, TroubleBound DEF Relist
  <2>3. upToDate' \in BOOLEAN
    BY <1>1 DEF Relist, Overtaken
  <2>4. listing' \in Listings /\ UNCHANGED <<stockName, ownOpen, boardRow, lookup, answers>>
    BY <1>1 DEF Relist
  <2> QED
    BY <2>1, <2>2, <2>3, <2>4
<1>2. ASSUME NEW p \in OwnPools, OpenOwn(p) \/ CloseOwn(p) PROVE BoardTyped'
  <2>1. ownOpen' \in [OwnPools -> 0 .. MaxOpen \cup {None}]
    <3>1. CASE OpenOwn(p)
      <4>1. ownOpen[p] = None \/ ownOpen[p] \in 0 .. (MaxOpen - 1)
        BY <3>1, BoardBounds DEF OpenOwn
      <4>2. (IF ownOpen[p] = None THEN 1 ELSE ownOpen[p] + 1) \in 0 .. MaxOpen
        BY <4>1, BoardBounds
      <4> QED
        BY <3>1, <4>2 DEF OpenOwn
    <3>2. CASE CloseOwn(p)
      <4>1. ownOpen[p] - 1 \in 0 .. MaxOpen
        BY <3>2, BoardBounds DEF CloseOwn
      <4> QED
        BY <3>2, <4>1 DEF CloseOwn
    <3> QED
      BY <1>2, <3>1, <3>2
  <2>2. boardTrouble' \in 0 .. MaxBoardTrouble
    BY <1>2, TroubleBound DEF OpenOwn, CloseOwn
  <2>3. UNCHANGED <<listing, stockName, boardRow, boardScan, lookup, answers, upToDate>>
    BY <1>2 DEF OpenOwn, CloseOwn
  <2> QED
    BY <2>1, <2>2, <2>3
<1>3. ASSUME NEW registry \in BOOLEAN, NEW paired \in BOOLEAN, ScanReads(registry, paired)
      PROVE  BoardTyped'
  <2>1. NoIncumbent \in Incumbent
    BY DEF NoIncumbent, Incumbent
  <2>2. (IF boardRow = None THEN NoIncumbent ELSE boardRow.incumbent) \in Incumbent
    BY <2>1 DEF BoardRow
  <2>3. boardScan' \in BoardScan /\ boardScan'.pairs \in Listings
    BY <1>3, <2>1, <2>2, BoardAssumption DEF ScanReads, BoardScan, Names
  <2>4. boardTrouble' \in 0 .. MaxBoardTrouble
    BY <1>3, TroubleBound DEF ScanReads
  <2>5. UNCHANGED <<listing, stockName, ownOpen, boardRow, lookup, answers, upToDate>>
    BY <1>3 DEF ScanReads
  <2> QED
    BY <2>3, <2>4, <2>5
<1>4. ASSUME NEW dark \in SUBSET PairIds, NEW capped \in BOOLEAN, ScanResolves(dark, capped)
      PROVE  BoardTyped'
  <2>1. boardScan \in BoardScan /\ boardScan.pairs \in Listings
    BY <1>4 DEF ScanResolves
  <2>2. ResolveIncumbent(boardScan.pairs, boardScan.name, Known(ownOpen), dark) \in Incumbent
    BY <2>1, ResolvedType
  <2>3. PICK kept \in BOOLEAN : boardScan' =
          [boardScan EXCEPT !.stage = "save",
             !.found = IF kept THEN boardScan.before
                       ELSE ResolveIncumbent(boardScan.pairs, boardScan.name, Known(ownOpen), dark),
             !.clean = @ /\ ~kept /\ dark = {}]
    BY <1>4 DEF ScanResolves
  <2>4. boardScan' \in BoardScan /\ boardScan'.pairs = boardScan.pairs
    BY <2>1, <2>2, <2>3 DEF BoardScan
  <2>5. boardTrouble' \in 0 .. MaxBoardTrouble
    BY <1>4, TroubleBound DEF ScanResolves
  <2>6. UNCHANGED <<listing, stockName, ownOpen, boardRow, lookup, answers, upToDate>>
    BY <1>4 DEF ScanResolves
  <2> QED
    BY <2>1, <2>4, <2>5, <2>6
<1>5. ASSUME NEW falls \in BOOLEAN, ScanSaves(falls) PROVE BoardTyped'
  <2>1. boardScan \in BoardScan /\ boardScan.pairs \in Listings
    BY <1>5 DEF ScanSaves
  <2>2. RailFor(boardScan.pairs, boardScan.name) \in Units \cup {None} /\ boardScan.found \in Incumbent
    BY <2>1, RailType DEF BoardScan
  <2>3. boardRow' \in BoardRow \cup {None}
    BY <1>5, <2>2 DEF ScanSaves, BoardRow
  <2>4. stockName' \in Names \cup {None} /\ upToDate' \in BOOLEAN
    BY <1>5, <2>1 DEF ScanSaves, Names, BoardScan
  <2> QED
    BY <1>5, <2>3, <2>4 DEF ScanSaves
<1>6. CASE LookupReads
  BY <1>6 DEF LookupReads, OwnOpens
<1>7. ASSUME NEW dark \in SUBSET PairIds, LookupAnswers(dark) PROVE BoardTyped'
  <2>1. lookup # None /\ lookup.open \in OwnOpens
    BY <1>7 DEF LookupAnswers
  <2>2. LookupName \in Names
    BY DEF LookupName, Names
  <2>3. LiveRow(Known(lookup.open), dark) \in BoardRow
    BY <2>2, RailType, ResolvedType DEF LiveRow, BoardRow
  <2>4. answers' \in BoardAnswer \cup {None}
    <3>1. lookup.row # None => EnrichToken(lookup.row, lookup.open) \in BoardAnswer
      BY <2>1, EnrichedType
    <3>2. EnrichToken(LiveRow(Known(lookup.open), dark), lookup.open) \in BoardAnswer
      BY <2>1, <2>3, EnrichedType
    <3> QED
      BY <1>7, <3>1, <3>2 DEF LookupAnswers
  <2>5. boardTrouble' \in 0 .. MaxBoardTrouble
    BY <1>7, TroubleBound DEF LookupAnswers
  <2>6. lookup' = None /\ UNCHANGED <<listing, stockName, ownOpen, boardRow, boardScan, upToDate>>
    BY <1>7 DEF LookupAnswers
  <2> QED
    BY <2>4, <2>5, <2>6
<1>8. CASE UNCHANGED boardVars
  BY <1>8 DEF boardVars
<1> QED
  BY <1>1, <1>2, <1>3, <1>4, <1>5, <1>6, <1>7, <1>8 DEF BoardNext

-----------------------------------------------------------------------------
(* What is behind IncumbentIsReal.                                         *)

BoardReal ==
  /\ boardScan # None => Real(boardScan.before) /\ Real(boardScan.found)
  /\ boardRow # None => Real(boardRow.incumbent)
  /\ lookup # None /\ lookup.row # None => Real(lookup.row.incumbent)
  /\ answers # None =>
       /\ Real(answers.incumbent)
       /\ answers.undercuts =>
            (IF answers.pool = None THEN Floor ELSE OwnAt[answers.pool].fee) < answers.incumbent.fee

LEMMA BoardRealInit == BoardInit => BoardReal
  BY DEF BoardInit, BoardReal

LEMMA BoardRealIsIt == BoardReal => IncumbentIsReal
  BY DEF BoardReal, IncumbentIsReal, Real

LEMMA BoardRealStep ==
  ASSUME BoardTyped, BoardReal, [BoardNext]_boardVars
  PROVE  BoardReal'
<1> USE DEF BoardReal
<1>1. CASE Relist
  <2>1. boardScan' # None => boardScan # None /\ boardScan'.before = boardScan.before
                               /\ boardScan'.found = boardScan.found
    BY <1>1 DEF Relist, Overtaken, BoardTyped, BoardTypeOK, BoardScan
  <2>2. UNCHANGED <<boardRow, lookup, answers>>
    BY <1>1 DEF Relist
  <2> QED
    BY <2>1, <2>2
<1>2. ASSUME NEW p \in OwnPools, OpenOwn(p) \/ CloseOwn(p) PROVE BoardReal'
  BY <1>2 DEF OpenOwn, CloseOwn
<1>3. ASSUME NEW registry \in BOOLEAN, NEW paired \in BOOLEAN, ScanReads(registry, paired)
      PROVE  BoardReal'
  <2>1. Real(NoIncumbent)
    BY DEF NoIncumbent, Real
  <2>2. /\ boardScan'.before = IF boardRow = None THEN NoIncumbent ELSE boardRow.incumbent
        /\ boardScan'.found = NoIncumbent
        /\ UNCHANGED <<boardRow, lookup, answers>>
    BY <1>3 DEF ScanReads
  <2> QED
    BY <2>1, <2>2
<1>4. ASSUME NEW dark \in SUBSET PairIds, NEW capped \in BOOLEAN, ScanResolves(dark, capped)
      PROVE  BoardReal'
  <2>1. boardScan \in BoardScan /\ boardScan # None /\ boardScan.pairs \in Listings
    BY <1>4 DEF ScanResolves, BoardTyped, BoardTypeOK
  <2> DEFINE found == ResolveIncumbent(boardScan.pairs, boardScan.name, Known(ownOpen), dark)
  <2>2. Real(found)
    BY <2>1, ResolvedIsReal
  <2>3. boardScan'.before = boardScan.before /\ boardScan'.found \in {boardScan.before, found}
    BY <1>4, <2>1 DEF ScanResolves, BoardScan
  <2>4. UNCHANGED <<boardRow, lookup, answers>>
    BY <1>4 DEF ScanResolves
  <2> HIDE DEF found
  <2> QED
    BY <2>1, <2>2, <2>3, <2>4
<1>5. ASSUME NEW falls \in BOOLEAN, ScanSaves(falls) PROVE BoardReal'
  <2>1. boardScan # None /\ boardScan' = None /\ UNCHANGED <<lookup, answers>>
    BY <1>5 DEF ScanSaves
  <2>2. boardRow' # None => boardRow'.incumbent = boardScan.found
    BY <1>5 DEF ScanSaves
  <2> QED
    BY <2>1, <2>2
<1>6. CASE LookupReads
  <2>1. lookup'.row = boardRow /\ UNCHANGED <<boardRow, boardScan, answers>>
    BY <1>6 DEF LookupReads
  <2> QED
    BY <2>1
<1>7. ASSUME NEW dark \in SUBSET PairIds, LookupAnswers(dark) PROVE BoardReal'
  <2>1. lookup # None /\ lookup.open \in OwnOpens /\ listing \in Listings
    BY <1>7 DEF LookupAnswers, BoardTyped, BoardTypeOK
  <2> DEFINE row == IF lookup.row # None THEN lookup.row ELSE LiveRow(Known(lookup.open), dark)
  <2>2. Real(row.incumbent)
    <3>1. LiveRow(Known(lookup.open), dark).incumbent
            = ResolveIncumbent(listing, LookupName, Known(lookup.open), dark)
      BY DEF LiveRow
    <3>2. Real(LiveRow(Known(lookup.open), dark).incumbent)
      BY <2>1, <3>1, ResolvedIsReal
    <3> QED
      BY <2>1, <3>2
  <2>3. answers' \in {None, EnrichToken(row, lookup.open)}
    BY <1>7 DEF LookupAnswers
  <2>4. UNCHANGED <<boardRow, boardScan>> /\ lookup' = None
    BY <1>7 DEF LookupAnswers
  <2> DEFINE e == EnrichToken(row, lookup.open)
  <2>5. /\ e.incumbent = row.incumbent
        /\ e.fee = IF e.pool = None THEN Floor ELSE OwnAt[e.pool].fee
        /\ e.undercuts => e.fee < row.incumbent.fee
    <3> HIDE DEF row
    <3> QED
      BY <2>1, Enriched
  <2> HIDE DEF e, row
  <2>6. answers' \in {None, e}
    BY <2>3 DEF e
  <2> QED
    BY <2>2, <2>4, <2>5, <2>6
<1>8. CASE UNCHANGED boardVars
  BY <1>8 DEF boardVars
<1> QED
  BY <1>1, <1>2, <1>3, <1>4, <1>5, <1>6, <1>7, <1>8 DEF BoardNext

-----------------------------------------------------------------------------
(* What is behind AnswersAgree: a scan that is clean goes by what is there, *)
(* and so does a row that is up to date.                                   *)

Live(incumbent) ==
  \A open : incumbent = ResolveIncumbent(listing, "STOCK", Known(open), {})

BoardAgrees ==
  /\ boardScan # None /\ boardScan.clean =>
       /\ boardScan.pairs = listing /\ boardScan.registry /\ boardScan.name = "STOCK"
       /\ boardScan.stage = "save" => Live(boardScan.found)
  /\ upToDate /\ boardRow # None =>
       /\ stockName = "STOCK"
       /\ boardRow = [quote |-> RailFor(listing, "STOCK"), incumbent |-> boardRow.incumbent]
       /\ Live(boardRow.incumbent)

LEMMA BoardAgreesInit == BoardInit => BoardAgrees
  BY DEF BoardInit, BoardAgrees

LEMMA BoardAgreesStep ==
  ASSUME BoardTyped, BoardAgrees, [BoardNext]_boardVars
  PROVE  BoardAgrees'
<1> USE DEF BoardAgrees
<1>1. CASE Relist
  <2>1. boardScan' # None => ~boardScan'.clean
    BY <1>1 DEF Relist, Overtaken, BoardTyped, BoardTypeOK, BoardScan
  <2>2. ~upToDate'
    BY <1>1 DEF Relist, Overtaken
  <2> QED
    BY <2>1, <2>2
<1>2. ASSUME NEW p \in OwnPools, OpenOwn(p) \/ CloseOwn(p) PROVE BoardAgrees'
  BY <1>2 DEF OpenOwn, CloseOwn, Live
<1>3. ASSUME NEW registry \in BOOLEAN, NEW paired \in BOOLEAN, ScanReads(registry, paired)
      PROVE  BoardAgrees'
  <2>1. /\ boardScan'.pairs = listing /\ boardScan'.registry = registry /\ boardScan'.clean = registry
        /\ boardScan'.name = (IF registry THEN "STOCK" ELSE "") /\ boardScan'.stage = "resolve"
        /\ UNCHANGED <<listing, stockName, boardRow, upToDate>>
    BY <1>3 DEF ScanReads
  <2> QED
    BY <2>1 DEF Live
<1>4. ASSUME NEW dark \in SUBSET PairIds, NEW capped \in BOOLEAN, ScanResolves(dark, capped)
      PROVE  BoardAgrees'
  <2>1. boardScan \in BoardScan /\ boardScan # None /\ listing \in Listings
    BY <1>4 DEF ScanResolves, BoardTyped, BoardTypeOK
  <2>2. PICK kept \in BOOLEAN : boardScan' =
          [boardScan EXCEPT !.stage = "save",
             !.found = IF kept THEN boardScan.before
                       ELSE ResolveIncumbent(boardScan.pairs, boardScan.name, Known(ownOpen), dark),
             !.clean = @ /\ ~kept /\ dark = {}]
    BY <1>4 DEF ScanResolves
  <2>3. UNCHANGED <<listing, stockName, boardRow, upToDate>>
    BY <1>4 DEF ScanResolves
  <2>4. /\ boardScan'.pairs = boardScan.pairs /\ boardScan'.registry = boardScan.registry
        /\ boardScan'.name = boardScan.name
        /\ boardScan'.clean => /\ boardScan.clean /\ dark = {}
                               /\ boardScan'.found = ResolveIncumbent(boardScan.pairs, boardScan.name,
                                                                      Known(ownOpen), dark)
    BY <2>1, <2>2 DEF BoardScan
  <2>5. boardScan'.clean => Live(boardScan'.found)
    BY <2>1, <2>4, ResolvedWhicheverIndexed DEF Live
  <2>6. boardScan'.clean => Live(boardScan.found)'
    BY <2>3, <2>5 DEF Live
  <2>7. \A i : Live(i) => Live(i)'
    BY <2>3 DEF Live
  <2> QED
    BY <2>1, <2>3, <2>4, <2>6, <2>7
<1>5. ASSUME NEW falls \in BOOLEAN, ScanSaves(falls) PROVE BoardAgrees'
  <2>1. boardScan # None /\ boardScan.stage = "save" /\ boardScan' = None /\ upToDate' = boardScan.clean
    BY <1>5 DEF ScanSaves
  <2>2. boardScan.clean => boardScan.pairs = listing /\ boardScan.name = "STOCK" /\ stockName' = "STOCK"
                             /\ Live(boardScan.found)
    BY <1>5, <2>1 DEF ScanSaves
  <2>3. boardRow' # None => boardRow' = [quote |-> RailFor(boardScan.pairs, boardScan.name),
                                         incumbent |-> boardScan.found]
    BY <1>5 DEF ScanSaves
  <2>4. listing' = listing
    BY <1>5 DEF ScanSaves
  <2>5. \A i : Live(i) => Live(i)'
    BY <2>4 DEF Live
  <2>6. boardRow' # None => boardRow'.incumbent = boardScan.found
    BY <2>3
  <2> QED
    BY <2>1, <2>2, <2>3, <2>4, <2>5, <2>6
<1>6. CASE LookupReads
  BY <1>6 DEF LookupReads, Live
<1>7. ASSUME NEW dark \in SUBSET PairIds, LookupAnswers(dark) PROVE BoardAgrees'
  BY <1>7 DEF LookupAnswers, Live
<1>8. CASE UNCHANGED boardVars
  BY <1>8 DEF boardVars, Live
<1> QED
  BY <1>1, <1>2, <1>3, <1>4, <1>5, <1>6, <1>7, <1>8 DEF BoardNext

LEMMA BoardAgreesIsIt == ASSUME BoardTyped, BoardAgrees PROVE AnswersAgree
<1>1. ASSUME upToDate, boardRow # None
      PROVE  EnrichToken(LiveRow(Known(ownOpen), {}), ownOpen) = TokensPage
  <2>1. LookupName = "STOCK"
    BY <1>1, BoardAssumption DEF BoardAgrees, LookupName, Names
  <2>2. boardRow = LiveRow(Known(ownOpen), {})
    BY <1>1, <2>1 DEF BoardAgrees, Live, LiveRow
  <2> QED
    BY <2>2 DEF TokensPage
<1>2. ASSUME boardRow # None, TokensPage.pool # None, ownOpen[TokensPage.pool] = 0,
             NEW p \in Known(ownOpen), OwnAt[p].rail = OwnAt[TokensPage.pool].rail
      PROVE  ownOpen[p] = 0
  <2> DEFINE pool == TokensPage.pool
  <2>1. ownOpen \in OwnOpens
    BY DEF BoardTyped, BoardTypeOK, OwnOpens
  <2>2. pool \in Known(ownOpen) /\ ~Better(ownOpen, p, pool)
    BY <1>2, <2>1, Enriched DEF TokensPage
  <2>3. /\ ownOpen[p] \in Nat /\ (ownOpen[p] > 0 <=> Score(ownOpen, p) \in {2, 3})
        /\ Score(ownOpen, p) \in 0 .. 3
    BY <2>1, OpenOfKnown
  <2>4. /\ ownOpen[pool] > 0 <=> Score(ownOpen, pool) \in {2, 3}
        /\ Score(ownOpen, pool) \in 0 .. 3
    <3> HIDE DEF pool
    <3> QED
      BY <2>1, <2>2, OpenOfKnown
  <2>5. ownOpen[pool] = 0
    BY <1>2
  <2> HIDE DEF pool
  <2> QED
    BY <2>2, <2>3, <2>4, <2>5 DEF Better
<1> QED
  BY <1>1, <1>2 DEF AnswersAgree

Params == Watched \cup {NoOne, "off"}
What == Paths \cup Accounts \cup Failures

(* A tab never shows an account's address in its link.                     *)
VisitTyped ==
  /\ VisitTypeOK
  /\ done \in [Doings -> Nat]
  /\ IsFiniteSet(wire) /\ IsFiniteSet(rows)
  /\ \A r \in rows : r.at # NoOne
  /\ account.status = "connected" <=> account.address # NoOne
  /\ tab.here.param \in Params /\ \A k \in 1 .. Len(tab.past) : tab.past[k].param \in Params

(* Where a tab may go, and what a connection may become.                   *)
Going(place, past) ==
  /\ Go(place, past)
  /\ place \in Entry /\ place.param \in Params
  /\ past \in Seq(Entry) /\ \A k \in 1 .. Len(past) : past[k].param \in Params

Connecting(status, address, returning) ==
  /\ Connection(status, address, returning)
  /\ \/ status = "none" /\ address = NoOne /\ ~returning
     \/ status = "connected" /\ address \in Accounts
  /\ returning \in BOOLEAN
  /\ returning => account.status = "reconnecting" \/ (account.status = "connected" /\ tab.returning)

LEMMA VisitSteps ==
  ASSUME VisitTyped, [VisitNext]_visitVars
  PROVE  \/ \E place, past : Going(place, past)
         \/ \E status, address, returning : Connecting(status, address, returning)
         \/ Render
         \/ \E f \in Failures : Report(f)
         \/ \E kind \in Tables : OtherPage(kind)
         \/ \E m \in wire : CountRows(m) \/ InsertRow(m)
         \/ Tick
         \/ UNCHANGED visitVars
<1> USE DEF VisitTyped, VisitTypeOK
<1>1. tab \in Tab /\ tab.here \in Entry /\ tab.past \in Seq(Entry) /\ account \in Account
  BY DEF Tab
<1>2. ASSUME NEW path \in Paths, Navigate(path) PROVE \E place, past : Going(place, past)
  <2> DEFINE place == [path |-> path, param |-> tab.here.param]
             past == Append(tab.past, tab.here)
  <2>1. place \in Entry /\ place.param \in Params
    BY <1>1 DEF Entry
  <2>2. past \in Seq(Entry) /\ Len(past) = Len(tab.past) + 1 /\ past[Len(tab.past) + 1] = tab.here
        /\ \A k \in 1 .. Len(tab.past) : past[k] = tab.past[k]
    BY <1>1
  <2>3. \A k \in 1 .. Len(past) : past[k].param \in Params
    BY <1>1, <2>2
  <2>4. Go(place, past)
    BY <1>2 DEF Navigate
  <2> HIDE DEF place, past
  <2>5. Going(place, past)
    BY <2>1, <2>2, <2>3, <2>4 DEF Going
  <2> QED
    BY <2>5
<1>3. ASSUME NEW param \in Watched \cup {"off"}, FollowLink(param) PROVE \E place, past : Going(place, past)
  <2> DEFINE place == [path |-> tab.here.path, param |-> param]
             past == Append(tab.past, tab.here)
  <2>1. place \in Entry /\ place.param \in Params
    BY <1>1 DEF Entry, Params, Addresses
  <2>2. past \in Seq(Entry) /\ Len(past) = Len(tab.past) + 1 /\ past[Len(tab.past) + 1] = tab.here
        /\ \A k \in 1 .. Len(tab.past) : past[k] = tab.past[k]
    BY <1>1
  <2>3. \A k \in 1 .. Len(past) : past[k].param \in Params
    BY <1>1, <2>2
  <2>4. Go(place, past)
    BY <1>3 DEF FollowLink
  <2> HIDE DEF place, past
  <2>5. Going(place, past)
    BY <2>1, <2>2, <2>3, <2>4 DEF Going
  <2> QED
    BY <2>5
<1>4. ASSUME Back PROVE \E place, past : Going(place, past)
  <2>1. CASE tab.past # <<>>
    <3> DEFINE n == Len(tab.past)
               past == SubSeq(tab.past, 1, n - 1)
    <3>1. n \in Nat \ {0}
      BY <1>1, <2>1
    <3>2. past \in Seq(Entry) /\ Len(past) = n - 1 /\ \A k \in 1 .. Len(past) : past[k] = tab.past[k]
      BY <1>1, <3>1
    <3>3. tab.past[n] \in Entry /\ tab.past[n].param \in Params
      BY <1>1, <3>1
    <3>4. Go(tab.past[n], past)
      BY <1>4, <2>1 DEF Back
    <3>5. \A k \in 1 .. Len(past) : past[k].param \in Params
      BY <3>1, <3>2
    <3> HIDE DEF past
    <3>6. Going(tab.past[n], past)
      BY <3>2, <3>3, <3>4, <3>5 DEF Going
    <3> QED
      BY <3>6
  <2>2. CASE tab.past = <<>>
    <3> DEFINE place == [path |-> "/", param |-> tab.here.param]
               past == <<tab.here>>
    <3>1. place \in Entry /\ place.param \in Params
      BY <1>1 DEF Entry, Paths
    <3>2. past \in Seq(Entry) /\ Len(past) = 1 /\ past[1].param \in Params
      BY <1>1
    <3>3. Go(place, past)
      BY <1>4, <2>2 DEF Back
    <3>4. \A k \in 1 .. Len(past) : past[k].param \in Params
      BY <3>2
    <3> HIDE DEF place, past
    <3>5. Going(place, past)
      BY <3>1, <3>2, <3>3, <3>4 DEF Going
    <3> QED
      BY <3>5
  <2> QED
    BY <2>1, <2>2
<1>5. ASSUME Reconnect PROVE \E status, address, returning : Connecting(status, address, returning)
  BY <1>5 DEF Reconnect, Connecting
<1>6. ASSUME NEW a \in Accounts, Connect(a)
      PROVE  \E status, address, returning : Connecting(status, address, returning)
  BY <1>6 DEF Connect, Connecting
<1>7. ASSUME NEW a \in Accounts, SwitchAccount(a)
      PROVE  \E status, address, returning : Connecting(status, address, returning)
  <2>1. tab.returning \in BOOLEAN
    BY <1>1 DEF Tab
  <2> QED
    BY <1>7, <2>1 DEF SwitchAccount, Connecting
<1>8. ASSUME Disconnect PROVE \E status, address, returning : Connecting(status, address, returning)
  BY <1>8 DEF Disconnect, Connecting
<1> QED
  BY <1>2, <1>3, <1>4, <1>5, <1>6, <1>7, <1>8 DEF VisitNext

-----------------------------------------------------------------------------
(* Requests.                                                               *)

(* What a Fire does: the first few of what there is to send are sent, in   *)
(* order, and not all of them only if that is all that may be sent.        *)
Fired(kind, whats, own, few) ==
  /\ few \in 0 .. Len(whats)
  /\ done' = [done EXCEPT !["request"] = @ + few]
  /\ done["request"] + few <= budget["request"]
  /\ few < Len(whats) => done["request"] + few = budget["request"]
  /\ wire' = wire \cup {NewRequest(kind, whats[n], own, n) : n \in 1 .. few}

LEMMA FireFires ==
  ASSUME VisitTyped, NEW kind \in Tables, NEW whats \in Seq(What), NEW own \in BOOLEAN,
         Fire(kind, whats, own)
  PROVE  \E few : Fired(kind, whats, own, few)
<1> DEFINE room == budget["request"] - done["request"]
           few == IF Len(whats) < room THEN Len(whats) ELSE room
<1>1. Len(whats) \in Nat /\ budget["request"] \in Nat /\ done["request"] \in 0 .. budget["request"]
  BY DEF VisitTyped, VisitTypeOK, Doings
<1>2. done' = [done EXCEPT !["request"] = @ + few]
      /\ wire' = wire \cup {NewRequest(kind, whats[n], own, n) : n \in 1 .. few}
  BY DEF Fire
<1>3. /\ few \in 0 .. Len(whats) /\ done["request"] + few <= budget["request"]
      /\ few < Len(whats) => done["request"] + few = budget["request"]
  BY <1>1
<1> HIDE DEF few, room
<1> QED
  BY <1>2, <1>3 DEF Fired

LEMMA NewRequestType ==
  ASSUME VisitTyped, NEW kind \in Tables, NEW what \in What, NEW own \in BOOLEAN, NEW n \in Nat
  PROVE  /\ NewRequest(kind, what, own, n) \in Request
         /\ NewRequest(kind, what, own, n).id = done["request"] + n
         /\ NewRequest(kind, what, own, n).kind = kind
         /\ NewRequest(kind, what, own, n).what = what
         /\ NewRequest(kind, what, own, n).own = own
         /\ NewRequest(kind, what, own, n).born = Now
         /\ NewRequest(kind, what, own, n).at = NoOne
<1>1. done["request"] \in Nat /\ Now \in Nat
  BY DEF VisitTyped, Doings, Now
<1> QED
  BY <1>1 DEF NewRequest, Request, What

LEMMA FiredTyped ==
  ASSUME VisitTyped, NEW kind \in Tables, NEW whats \in Seq(What), NEW own \in BOOLEAN,
         NEW few, Fired(kind, whats, own, few), UNCHANGED budget
  PROVE  /\ wire' \subseteq Request /\ IsFiniteSet(wire')
         /\ done' \in [Doings -> Nat] /\ \A d \in Doings : done'[d] \in 0 .. budget'[d]
         /\ done'["request"] = done["request"] + few /\ done'["request"] \in Nat
         /\ few \in Nat /\ few <= Len(whats)
         /\ \A d \in Doings \ {"request"} : done'[d] = done[d]
<1> DEFINE new == {NewRequest(kind, whats[n], own, n) : n \in 1 .. few}
<1>1. few \in Nat /\ few <= Len(whats)
  BY DEF Fired
<1>2. \A n \in 1 .. few : n \in Nat /\ whats[n] \in What
  BY <1>1
<1>3. new \subseteq Request
  BY <1>2, NewRequestType
<1>4. IsFiniteSet(new)
  <2> DEFINE h == [n \in 1 .. few |-> NewRequest(kind, whats[n], own, n)]
  <2>1. h \in Surjection(1 .. few, new)
    BY DEF Surjection
  <2>2. IsFiniteSet(1 .. few)
    BY <1>1, FS_Interval
  <2> HIDE DEF h, new
  <2> QED
    BY <2>1, <2>2, FS_Surjection
<1>5. wire' = wire \cup new
  BY DEF Fired
<1>6. IsFiniteSet(wire')
  <2> HIDE DEF new
  <2> QED
    BY <1>4, <1>5, FS_Union DEF VisitTyped
<1>7. done' \in [Doings -> Nat] /\ done'["request"] = done["request"] + few
      /\ \A d \in Doings \ {"request"} : done'[d] = done[d]
  BY <1>1 DEF Fired, VisitTyped, Doings
<1>8. \A d \in Doings : done'[d] \in 0 .. budget'[d]
  <2> TAKE d \in Doings
  <2>1. CASE d = "request"
    BY <1>1, <1>7, <2>1 DEF Fired, VisitTyped, VisitTypeOK, Doings
  <2>2. CASE d # "request"
    BY <1>7, <2>2 DEF VisitTyped, VisitTypeOK
  <2> QED
    BY <2>1, <2>2
<1> QED
  BY <1>1, <1>3, <1>5, <1>6, <1>7, <1>8 DEF VisitTyped, VisitTypeOK, Doings

LEMMA DoesTyped ==
  ASSUME VisitTyped, NEW d \in Doings, Does(d), UNCHANGED budget
  PROVE  /\ done' \in [Doings -> Nat] /\ \A e \in Doings : done'[e] \in 0 .. budget'[e]
         /\ done'[d] = done[d] + 1 /\ \A e \in Doings \ {d} : done'[e] = done[e]
<1>1. done[d] \in Nat /\ budget[d] \in Nat /\ done[d] < budget[d] /\ done' = [done EXCEPT ![d] = @ + 1]
  BY DEF VisitTyped, VisitTypeOK, Does
<1>2. done' \in [Doings -> Nat] /\ done'[d] = done[d] + 1 /\ \A e \in Doings \ {d} : done'[e] = done[e]
  BY <1>1 DEF VisitTyped
<1>3. \A e \in Doings : done'[e] \in 0 .. budget'[e]
  <2> TAKE e \in Doings
  <2>1. CASE e = d
    BY <1>1, <1>2, <2>1
  <2>2. CASE e # d
    BY <1>2, <2>2 DEF VisitTyped, VisitTypeOK
  <2> QED
    BY <2>1, <2>2
<1> QED
  BY <1>2, <1>3

LEMMA VisitTypedInit == VisitInit => VisitTyped
<1> SUFFICES ASSUME VisitInit PROVE VisitTyped
  OBVIOUS
<1>1. PICK visit \in Visits :
        /\ tab = [here |-> [path |-> visit.start.path, param |-> visit.start.param], past |-> <<>>,
                  stale |-> TRUE, key |-> NoOne, storage |-> visit.start.storage, landed |-> FALSE,
                  lastPath |-> NoOne, seen |-> {}, book |-> NoOne, asked |-> NoOne, moved |-> FALSE,
                  returning |-> FALSE, entry |-> visit.start.path]
        /\ account = [status |-> visit.start.status, address |-> NoOne]
        /\ budget = visit.budget
  BY DEF VisitInit
<1>2. visit.start \in Start /\ visit.budget \in [Doings -> Nat]
  BY VisitAssumption
<1>3. tab \in Tab /\ tab.here.param \in Params /\ Len(tab.past) = 0
  <2>1. [path |-> visit.start.path, param |-> visit.start.param] \in Entry
    BY <1>2 DEF Start, Entry, Addresses
  <2>2. <<>> \in Seq(Entry)
    OBVIOUS
  <2> QED
    BY <1>1, <1>2, <2>1, <2>2 DEF Tab, Start, Params
<1>4. account \in Account /\ (account.status = "connected" <=> account.address # NoOne)
  BY <1>1, <1>2 DEF Account, Start
<1>5. /\ recent \in [Failures -> Nat \cup {NoOne}] /\ atOnce \in [Tables -> Nat]
      /\ flooded \in BOOLEAN /\ done \in [Doings -> Nat] /\ budget \in [Doings -> Nat]
  BY <1>1, <1>2 DEF VisitInit
<1>6. wire = {} /\ rows = {} /\ IsFiniteSet({})
  BY FS_EmptySet DEF VisitInit
<1>7. \A d \in Doings : done[d] \in 0 .. budget[d]
  BY <1>5 DEF VisitInit
<1> QED
  BY <1>3, <1>4, <1>5, <1>6, <1>7 DEF VisitTyped, VisitTypeOK

(* What a tab sends of a render.                                           *)
LEMMA RenderSends ==
  ASSUME VisitTyped
  PROVE  /\ Redirected \in Entry /\ Redirected.param \in Params
         /\ PageView(Redirected.path) \o WalletConnect \in Seq(What)
<1>1. tab \in Tab /\ account \in Account
  BY DEF VisitTyped, VisitTypeOK
<1>2. Redirected \in Entry /\ Redirected.param \in Params
  <2>1. [path |-> "/tokens", param |-> NoOne] \in Entry /\ NoOne \in Params
    BY DEF Entry, Paths, Params
  <2>2. tab.here \in Entry /\ tab.here.param \in Params
    BY <1>1 DEF Tab, VisitTyped
  <2> QED
    BY <2>1, <2>2 DEF Redirected
<1>3. PageView(Redirected.path) \in Seq(What)
  <2>1. Redirected.path \in What
    BY <1>2 DEF Entry, What
  <2>2. PageView(Redirected.path) \in {<<>>, <<Redirected.path>>}
    BY DEF PageView
  <2>3. \A e \in What : <<e>> \in Seq(What)
    OBVIOUS
  <2>4. <<>> \in Seq(What)
    OBVIOUS
  <2> QED
    BY <2>1, <2>2, <2>3, <2>4
<1>4. WalletConnect \in Seq(What)
  <2>1. account.address \in What \/ account.address = NoOne
    BY <1>1 DEF Account, What
  <2>2. WalletConnect = <<>> \/ (WalletConnect = <<account.address>> /\ account.address # NoOne)
    BY DEF WalletConnect
  <2>3. \A e \in What : <<e>> \in Seq(What)
    OBVIOUS
  <2>4. <<>> \in Seq(What)
    OBVIOUS
  <2> QED
    BY <2>1, <2>2, <2>3, <2>4
<1> QED
  BY <1>2, <1>3, <1>4

(* The sticky view is of another's book, or none.                          *)
LEMMA StickyType ==
  ASSUME VisitTyped
  PROVE  /\ StickyView(tab.here.param) \in Watched \cup {NoOne}
         /\ StickyKey(tab.here.param) \in Watched \cup {NoOne}
<1>1. tab.here.param \in Params /\ tab.key \in Watched \cup {NoOne}
  BY DEF VisitTyped, VisitTypeOK, Tab
<1>2. "off" \notin Watched /\ NoOne # "off"
  BY VisitAssumption
<1>3. CASE tab.here.param = "off"
  <2>1. StickyView("off") = NoOne
    BY DEF StickyView
  <2>2. StickyKey("off") = NoOne
    BY <1>2 DEF StickyKey
  <2> QED
    BY <1>3, <2>1, <2>2
<1>4. CASE tab.here.param = NoOne
  <2>1. NoOne \notin Watched
    BY VisitAssumption
  <2> QED
    BY <1>1, <1>2, <1>4, <2>1 DEF StickyView, StickyKey
<1>5. CASE tab.here.param \in Watched
  <2>1. NoOne \notin Watched
    BY VisitAssumption
  <2> QED
    BY <1>1, <1>2, <1>5, <2>1 DEF StickyView, StickyKey
<1> QED
  BY <1>1, <1>3, <1>4, <1>5 DEF Params

LEMMA RenderedTab ==
  ASSUME VisitTyped, Render
  PROVE  LET param == tab.here.param
             view == StickyView(param)
         IN /\ tab'.here = Redirected /\ tab'.past = tab.past
            /\ tab'.stale = (Redirected # tab.here)
            /\ tab'.key = StickyKey(param)
            /\ tab'.storage = tab.storage
            /\ tab'.lastPath = Redirected.path
            /\ tab'.seen = tab.seen \cup ({account.address} \ {NoOne})
            /\ tab'.book = (IF view # NoOne THEN view ELSE account.address)
            /\ tab'.asked = IF param \in Watched THEN param
                            ELSE IF param = "off" \/ account.status = "connected" THEN NoOne
                            ELSE tab.asked
            /\ tab'.moved = tab.moved /\ tab'.returning = tab.returning /\ tab'.entry = tab.entry
            /\ tab' \in Tab
<1> DEFINE param == tab.here.param
           view == StickyView(param)
           book == IF view # NoOne THEN view ELSE account.address
           wanted == IF param \in Watched THEN param
                     ELSE IF param = "off" \/ account.status = "connected" THEN NoOne
                     ELSE tab.asked
           key == StickyKey(param)
           there == Redirected
           away == there # tab.here
           met == tab.seen \cup ({account.address} \ {NoOne})
           landed == tab.landed \/ Lands
<1>1. tab \in Tab /\ account \in Account
  BY DEF VisitTyped, VisitTypeOK
<1>2. tab' = [tab EXCEPT !.key = key, !.book = book, !.here = there, !.stale = away,
                         !.landed = landed, !.lastPath = there.path, !.seen = met, !.asked = wanted]
  BY DEF Render
<1>3. key \in Watched \cup {NoOne} /\ there \in Entry /\ away \in BOOLEAN
  BY StickyType, RenderSends
<1>4. book \in Addresses \cup {NoOne}
  BY <1>1, StickyType DEF Addresses, Account
<1>5. wanted \in Watched \cup {NoOne} /\ met \in SUBSET Accounts
  BY <1>1 DEF Tab, Account
<1>6. landed \in BOOLEAN
  BY <1>1 DEF Tab, Lands
<1>7. there.path \in Paths
  BY <1>3 DEF Entry
<1> HIDE DEF key, book, there, away, met, wanted, landed
<1>8. /\ tab'.here = there /\ tab'.past = tab.past /\ tab'.stale = away /\ tab'.key = key
      /\ tab'.storage = tab.storage /\ tab'.lastPath = there.path /\ tab'.seen = met
      /\ tab'.book = book /\ tab'.asked = wanted
      /\ tab'.moved = tab.moved /\ tab'.returning = tab.returning /\ tab'.entry = tab.entry
  BY <1>1, <1>2 DEF Tab
<1>9. tab' \in Tab
  BY <1>1, <1>2, <1>3, <1>4, <1>5, <1>6, <1>7 DEF Tab
<1> QED
  BY <1>8, <1>9 DEF key, book, there, away, met, wanted

(* What the API does with a request.                                       *)
LEMMA CountedRequest ==
  ASSUME VisitTyped, NEW m \in wire, CountRows(m)
  PROVE  LET kept == [m EXCEPT !.at = Now]
         IN /\ m \in Request /\ m.at = NoOne /\ kept \in Request /\ Now \in Nat /\ kept.at = Now
            /\ kept.id = m.id /\ kept.kind = m.kind /\ kept.what = m.what /\ kept.own = m.own
            /\ kept.born = m.born
            /\ Full(m) => wire' = wire \ {m}
            /\ ~Full(m) => wire' = (wire \ {m}) \cup {kept}
            /\ IsFiniteSet(wire') /\ wire' \subseteq Request
<1>1. m \in Request /\ Now \in Nat
  BY DEF VisitTyped, VisitTypeOK, Doings, Now
<1> DEFINE kept == [m EXCEPT !.at = Now]
<1>2. /\ kept \in Request /\ kept.at = Now /\ kept.id = m.id /\ kept.kind = m.kind
      /\ kept.what = m.what /\ kept.own = m.own /\ kept.born = m.born
  BY <1>1 DEF Request
<1>3. /\ m.at = NoOne /\ Full(m) => wire' = wire \ {m}
      /\ ~Full(m) => wire' = (wire \ {m}) \cup {kept}
  BY DEF CountRows
<1>4. m.at = NoOne
  BY DEF CountRows
<1>5. Full(m) => wire' = wire \ {m}
  BY DEF CountRows
<1>6. IsFiniteSet(wire \ {m}) /\ IsFiniteSet((wire \ {m}) \cup {kept})
  BY FS_RemoveElement, FS_AddElement DEF VisitTyped
<1> HIDE DEF kept
<1>7. IsFiniteSet(wire')
  BY <1>3, <1>5, <1>6
<1>8. wire' \subseteq Request
  BY <1>2, <1>3, <1>5 DEF VisitTyped, VisitTypeOK
<1> QED
  BY <1>1, <1>2, <1>3, <1>4, <1>5, <1>7, <1>8 DEF kept

LEMMA VisitTypedStep == ASSUME VisitTyped, [VisitNext]_visitVars PROVE VisitTyped'
<1> USE DEF VisitTyped, VisitTypeOK
<1>1. ASSUME NEW place, NEW past, Going(place, past) PROVE VisitTyped'
  <2>1. Go(place, past) /\ "click" \in Doings
    BY <1>1 DEF Going, Doings
  <2>2. tab' \in Tab /\ tab'.here = place /\ tab'.past = past
    BY <1>1, <2>1 DEF Going, Go, Tab
  <2>3. UNCHANGED <<account, recent, wire, rows, atOnce, flooded, budget>> /\ Does("click")
    BY <2>1 DEF Go
  <2>4. done' \in [Doings -> Nat] /\ \A d \in Doings : done'[d] \in 0 .. budget'[d]
    BY <2>1, <2>3, DoesTyped
  <2> QED
    BY <1>1, <2>2, <2>3, <2>4 DEF Going
<1>2. ASSUME NEW status, NEW address, NEW returning, Connecting(status, address, returning)
      PROVE  VisitTyped'
  <2>1. Connection(status, address, returning) /\ "wallet" \in Doings /\ returning \in BOOLEAN
    BY <1>2 DEF Connecting, Doings
  <2>2. tab' \in Tab /\ tab'.here = tab.here /\ tab'.past = tab.past
    BY <2>1 DEF Connection, Tab
  <2>3. account' \in Account /\ (account'.status = "connected" <=> account'.address # NoOne)
    BY <1>2, VisitAssumption DEF Connecting, Connection, Account
  <2>4. UNCHANGED <<recent, wire, rows, atOnce, flooded, budget>> /\ Does("wallet")
    BY <2>1 DEF Connection
  <2>5. done' \in [Doings -> Nat] /\ \A d \in Doings : done'[d] \in 0 .. budget'[d]
    BY <2>1, <2>4, DoesTyped
  <2> QED
    BY <2>2, <2>3, <2>4, <2>5
<1>3. CASE Render
  <2>1. UNCHANGED <<account, recent, rows, atOnce, flooded, budget>>
        /\ Fire("event", PageView(Redirected.path) \o WalletConnect, TRUE)
    BY <1>3 DEF Render
  <2>2. PICK few : Fired("event", PageView(Redirected.path) \o WalletConnect, TRUE, few)
    BY <2>1, RenderSends, FireFires DEF Tables
  <2>3. /\ wire' \subseteq Request /\ IsFiniteSet(wire')
        /\ done' \in [Doings -> Nat] /\ \A d \in Doings : done'[d] \in 0 .. budget'[d]
    BY <2>1, <2>2, RenderSends, FiredTyped DEF Tables
  <2>4. tab' \in Tab /\ tab'.here.param \in Params /\ tab'.past = tab.past
    BY <1>3, RenderedTab, RenderSends
  <2> QED
    BY <2>1, <2>3, <2>4
<1>4. ASSUME NEW f \in Failures, Report(f) PROVE VisitTyped'
  <2> DEFINE told == [recent EXCEPT ![f] = Now]
             full == Cardinality({g \in Failures : told[g] # NoOne}) > MaxRecent
             send == ~Repeated(f) /\ done["request"] < budget["request"]
  <2>1. /\ done["error"] < budget["error"]
        /\ recent' = IF Repeated(f) THEN recent
                     ELSE IF full THEN [g \in Failures |-> NoOne] ELSE told
        /\ flooded' = (flooded \/ (~Repeated(f) /\ full))
        /\ wire' = IF send THEN wire \cup {NewRequest("log", f, TRUE, 1)} ELSE wire
        /\ done' = [done EXCEPT !["error"] = @ + 1, !["request"] = IF send THEN @ + 1 ELSE @]
        /\ UNCHANGED <<tab, account, rows, atOnce, budget>>
    BY <1>4 DEF Report
  <2>2. told \in [Failures -> Nat \cup {NoOne}] /\ [g \in Failures |-> NoOne] \in [Failures -> Nat \cup {NoOne}]
    BY DEF Now, Doings
  <2>3. NewRequest("log", f, TRUE, 1) \in Request
    BY NewRequestType DEF Tables, What
  <2>4. send => done["request"] < budget["request"]
    OBVIOUS
  <2> HIDE DEF told, full, send
  <2>5. recent' \in [Failures -> Nat \cup {NoOne}] /\ flooded' \in BOOLEAN
    BY <2>1, <2>2
  <2>6. wire' \subseteq Request /\ IsFiniteSet(wire')
    BY <2>1, <2>3, FS_AddElement
  <2>7. done' \in [Doings -> Nat] /\ \A d \in Doings : done'[d] \in 0 .. budget'[d]
    <3>1. done' \in [Doings -> Nat]
      BY <2>1 DEF Doings
    <3>2. done'["error"] = done["error"] + 1 /\ done'["request"] = IF send THEN done["request"] + 1 ELSE done["request"]
      BY <2>1 DEF Doings
    <3>3. \A d \in Doings \ {"error", "request"} : done'[d] = done[d]
      BY <2>1
    <3>4. done'["error"] \in 0 .. budget["error"]
      BY <2>1, <3>2 DEF Doings
    <3>5. done'["request"] \in 0 .. budget["request"]
      BY <2>4, <3>2 DEF Doings
    <3> QED
      BY <2>1, <3>1, <3>3, <3>4, <3>5
  <2> QED
    BY <2>1, <2>5, <2>6, <2>7
<1>5. ASSUME NEW kind \in Tables, OtherPage(kind) PROVE VisitTyped'
  <2> DEFINE whats == <<IF kind = "event" THEN "/" ELSE CHOOSE f \in Failures : TRUE>>
  <2>1. UNCHANGED <<tab, account, recent, rows, atOnce, flooded, budget>> /\ Fire(kind, whats, FALSE)
    BY <1>5 DEF OtherPage
  <2>2. whats \in Seq(What)
    BY VisitAssumption DEF What, Paths
  <2> HIDE DEF whats
  <2>3. PICK few : Fired(kind, whats, FALSE, few)
    BY <2>1, <2>2, FireFires
  <2>4. /\ wire' \subseteq Request /\ IsFiniteSet(wire')
        /\ done' \in [Doings -> Nat] /\ \A d \in Doings : done'[d] \in 0 .. budget'[d]
    BY <2>1, <2>2, <2>3, FiredTyped
  <2> QED
    BY <2>1, <2>4
<1>6. ASSUME NEW m \in wire, CountRows(m) PROVE VisitTyped'
  <2>1. wire' \subseteq Request /\ IsFiniteSet(wire')
    BY <1>6, CountedRequest
  <2>2. UNCHANGED <<tab, account, recent, rows, flooded, done, budget>>
    BY <1>6 DEF CountRows
  <2>3. atOnce' \in [Tables -> Nat]
    <3>1. \A k : Cardinality({r \in wire' : r.kind = k /\ r.at # NoOne}) \in Nat
      BY <2>1, FS_Subset, FS_CardinalityType
    <3> QED
      BY <1>6, <3>1 DEF CountRows
  <2> QED
    BY <2>1, <2>2, <2>3
<1>7. ASSUME NEW m \in wire, InsertRow(m) PROVE VisitTyped'
  <2>1. /\ m.at # NoOne /\ wire' = wire \ {m} /\ rows' = rows \cup {m}
        /\ UNCHANGED <<tab, account, recent, atOnce, flooded, done, budget>>
    BY <1>7 DEF InsertRow
  <2>2. IsFiniteSet(wire') /\ IsFiniteSet(rows')
    BY <2>1, FS_RemoveElement, FS_AddElement
  <2> QED
    BY <2>1, <2>2
<1>8. CASE Tick
  <2>1. Does("tick") /\ UNCHANGED <<tab, account, recent, wire, rows, atOnce, flooded, budget>>
    BY <1>8 DEF Tick
  <2>2. done' \in [Doings -> Nat] /\ \A d \in Doings : done'[d] \in 0 .. budget'[d]
    BY <2>1, DoesTyped DEF Doings
  <2> QED
    BY <2>1, <2>2
<1>9. CASE UNCHANGED visitVars
  BY <1>9 DEF visitVars
<1> HIDE DEF VisitTyped, VisitTypeOK
<1> QED
  BY <1>1, <1>2, <1>3, <1>4, <1>5, <1>6, <1>7, <1>8, <1>9, VisitSteps

-----------------------------------------------------------------------------
(* CountedOnce: what a tab remembers stands for what it sent.              *)

OwnOnes == {m \in wire \cup rows : m.own}

(* n comes after m, of the same.                                           *)
Apart(m, n) ==
  n.id > m.id /\ n.what = m.what =>
    /\ m.what \notin Accounts
    /\ m.what \in Failures => n.born - m.born >= Minute \/ flooded
    /\ m.what \in Paths => n.id > m.id + 1

Remembered(m) ==
  /\ m.id <= done["request"] /\ m.born <= Now
  /\ m.what \in Accounts => m.what \in tab.seen
  /\ m.what \in Failures /\ ~flooded => recent[m.what] # NoOne /\ m.born <= recent[m.what]
  /\ m.what \in Paths /\ m.what # tab.lastPath /\ done["request"] < budget["request"]
       => m.id < done["request"]

VisitCounted ==
  /\ \A m \in OwnOnes : Remembered(m)
  /\ \A m, n \in OwnOnes : Apart(m, n)

LEMMA Sorts ==
  /\ Accounts \cap Failures = {} /\ Accounts \cap Paths = {} /\ Failures \cap Paths = {}
  /\ NoOne \notin Accounts /\ NoOne \notin Paths /\ NoOne \notin Nat
  /\ Minute \in Nat /\ Minute > 0
  BY VisitAssumption

LEMMA VisitCountedIsIt == ASSUME VisitTyped, VisitCounted PROVE CountedOnce
<1> SUFFICES ASSUME NEW m \in OwnOnes, NEW n \in OwnOnes, n.id > m.id, n.what = m.what
             PROVE  CASE m.what \in Accounts -> FALSE
                      [] m.what \in Failures -> n.born - m.born >= Minute \/ flooded
                      [] OTHER -> n.id > m.id + 1
  BY DEF CountedOnce, OwnOnes
<1>1. Apart(m, n)
  BY DEF VisitCounted
<1>2. m.what \in What
  BY DEF VisitTyped, VisitTypeOK, OwnOnes, Request, What
<1>3. m.what \notin Accounts
  BY <1>1 DEF Apart
<1>4. CASE m.what \in Failures
  BY <1>1, <1>3, <1>4 DEF Apart
<1>5. CASE m.what \in Paths
  <2>1. m.what \notin Failures
    BY <1>5, Sorts
  <2> QED
    BY <1>1, <1>3, <1>5, <2>1 DEF Apart
<1> QED
  BY <1>2, <1>3, <1>4, <1>5 DEF What

LEMMA VisitCountedInit == VisitInit => VisitCounted
  BY DEF VisitInit, VisitCounted, OwnOnes

LEMMA MineType ==
  ASSUME VisitTyped, NEW m \in OwnOnes
  PROVE  m.id \in Nat /\ m.born \in Nat /\ m.what \in What
  BY DEF VisitTyped, VisitTypeOK, OwnOnes, Request, What

LEMMA Counters ==
  ASSUME VisitTyped
  PROVE  /\ done["request"] \in Nat /\ budget["request"] \in Nat /\ done["request"] <= budget["request"]
         /\ Now \in Nat
  BY DEF VisitTyped, VisitTypeOK, Doings, Now

(* Nothing of one's own is new, and what is remembered has not gone.       *)
LEMMA NothingOwn ==
  ASSUME VisitTyped, VisitTyped', VisitCounted,
         \A m \in OwnOnes' : \E o \in OwnOnes : m.id = o.id /\ m.what = o.what /\ m.born = o.born,
         done'["request"] >= done["request"], UNCHANGED budget, Now' >= Now,
         tab.seen \subseteq tab'.seen, UNCHANGED <<recent, flooded>>, tab'.lastPath = tab.lastPath
  PROVE  VisitCounted'
<1>1. ASSUME NEW m \in OwnOnes' PROVE Remembered(m)'
  <2>1. PICK o \in OwnOnes : m.id = o.id /\ m.what = o.what /\ m.born = o.born
    OBVIOUS
  <2>2. Remembered(o) /\ o.id \in Nat /\ o.born \in Nat
    BY MineType DEF VisitCounted
  <2>3. /\ done["request"] \in Nat /\ budget["request"] \in Nat /\ done["request"] <= budget["request"]
        /\ Now \in Nat
    BY Counters
  <2>4. done'["request"] \in Nat /\ Now' \in Nat
    BY DEF VisitTyped, Doings, Now
  <2> QED
    BY <2>1, <2>2, <2>3, <2>4 DEF Remembered
<1>2. ASSUME NEW m \in OwnOnes', NEW n \in OwnOnes' PROVE Apart(m, n)'
  <2>1. PICK o \in OwnOnes : m.id = o.id /\ m.what = o.what /\ m.born = o.born
    OBVIOUS
  <2>2. PICK p \in OwnOnes : n.id = p.id /\ n.what = p.what /\ n.born = p.born
    OBVIOUS
  <2>3. Apart(o, p)
    BY DEF VisitCounted
  <2> QED
    BY <2>1, <2>2, <2>3 DEF Apart
<1> QED
  BY <1>1, <1>2 DEF VisitCounted

LEMMA OneAndOne ==
  ASSUME NEW a, NEW b
  PROVE  /\ <<>> \o <<>> = <<>> /\ <<a>> \o <<>> = <<a>> /\ <<>> \o <<b>> = <<b>>
         /\ <<a>> \o <<b>> = <<a, b>>
<1> DEFINE s == <<a>> \o <<b>>
           t == <<a, b>>
<1>1. <<a>> \in Seq({a, b}) /\ <<b>> \in Seq({a, b}) /\ t \in Seq({a, b})
  OBVIOUS
<1>2. s \in Seq({a, b}) /\ Len(s) = 2 /\ Len(t) = 2
  BY <1>1
<1>3. s[1] = a /\ s[2] = b /\ t[1] = a /\ t[2] = b
  BY <1>1
<1>4. s = t
  <2> HIDE DEF s, t
  <2>1. \A i \in 1 .. Len(s) : s[i] = t[i]
    BY <1>2, <1>3
  <2> QED
    BY <1>1, <1>2, <2>1, SeqEqual
<1> QED
  BY <1>4

(* A render sends a view of another page, and an address not seen before.  *)
LEMMA RenderCounted ==
  ASSUME VisitTyped, VisitTyped', VisitCounted, Render
  PROVE  VisitCounted'
<1> DEFINE there == Redirected.path
           whats == PageView(there) \o WalletConnect
           d == done["request"]
<1>1. UNCHANGED <<account, recent, rows, atOnce, flooded, budget>> /\ Fire("event", whats, TRUE)
  BY DEF Render
<1>2. whats \in Seq(What) /\ there \in Paths
  BY RenderSends DEF Entry
<1>3. tab'.lastPath = there /\ tab'.seen = tab.seen \cup ({account.address} \ {NoOne})
  BY RenderedTab
<1>4. account.address \in Accounts \cup {NoOne} /\ tab.seen \subseteq Accounts
  BY DEF VisitTyped, VisitTypeOK, Account, Tab
<1>5. PICK few : Fired("event", whats, TRUE, few)
  <2> HIDE DEF whats
  <2> QED
    BY <1>1, <1>2, FireFires DEF Tables
<1>6. /\ few \in Nat /\ few <= Len(whats) /\ done'["request"] = d + few
      /\ few < Len(whats) => d + few = budget["request"]
      /\ wire' = wire \cup {NewRequest("event", whats[n], TRUE, n) : n \in 1 .. few}
      /\ \A e \in Doings \ {"request"} : done'[e] = done[e]
  <2> HIDE DEF whats
  <2> QED
    BY <1>1, <1>2, <1>5, FiredTyped DEF Fired, Tables
<1>7. d \in Nat /\ budget["request"] \in Nat /\ Now \in Nat /\ Now' = Now
  BY <1>6, Counters DEF Now, Doings
<1>8. PageView(there) \in {<<>>, <<there>>} /\ WalletConnect \in {<<>>, <<account.address>>}
  BY DEF PageView, WalletConnect
<1>9. /\ \A n \in 1 .. Len(whats) :
           \/ n = 1 /\ whats[n] = there /\ there # tab.lastPath
           \/ n = Len(whats) /\ whats[n] = account.address
              /\ account.address \in Accounts /\ account.address \notin tab.seen
      /\ there # tab.lastPath => Len(whats) >= 1 /\ whats[1] = there
  <2>1. CASE there = tab.lastPath
    <3>1. whats = WalletConnect
      <4>1. PageView(there) = <<>>
        BY <2>1 DEF PageView
      <4> QED
        BY <4>1, <1>8, OneAndOne
    <3>2. WalletConnect = <<>> \/ (WalletConnect = <<account.address>>
             /\ account.address \in Accounts /\ account.address \notin tab.seen)
      BY <1>4 DEF WalletConnect
    <3> QED
      BY <2>1, <3>1, <3>2
  <2>2. CASE there # tab.lastPath
    <3>1. whats = <<there>> \o WalletConnect
      BY <2>2 DEF PageView
    <3>2. CASE account.address \in tab.seen \cup {NoOne}
      <4>1. whats = <<there>>
        BY <3>1, <3>2, OneAndOne DEF WalletConnect
      <4> QED
        BY <2>2, <4>1
    <3>3. CASE account.address \notin tab.seen \cup {NoOne}
      <4>1. whats = <<there, account.address>>
        BY <3>1, <3>3, OneAndOne DEF WalletConnect
      <4> QED
        BY <2>2, <3>3, <4>1, <1>4
    <3> QED
      BY <3>2, <3>3
  <2> QED
    BY <2>1, <2>2
<1>10. ASSUME NEW m \in OwnOnes'
       PROVE  \/ m \in OwnOnes
              \/ \E n \in 1 .. few :
                   /\ m.id = d + n /\ m.what = whats[n] /\ m.born = Now
                   /\ \/ n = 1 /\ m.what = there /\ there # tab.lastPath
                      \/ n = Len(whats) /\ m.what = account.address
                         /\ account.address \in Accounts /\ account.address \notin tab.seen
  <2>1. m \in wire' \cup rows /\ m.own
    BY <1>1 DEF OwnOnes
  <2>2. CASE m \in wire \cup rows
    BY <2>1, <2>2 DEF OwnOnes
  <2>3. ASSUME NEW n \in 1 .. few, m = NewRequest("event", whats[n], TRUE, n)
        PROVE  m.id = d + n /\ m.what = whats[n] /\ m.born = Now
    BY <2>3 DEF NewRequest
  <2>4. \A n \in 1 .. few : n \in 1 .. Len(whats)
    BY <1>2, <1>6
  <2> HIDE DEF whats, there, d
  <2> QED
    BY <2>1, <2>2, <2>3, <2>4, <1>6, <1>9
<1> HIDE DEF whats, d, there
<1>11. Len(whats) \in Nat
  BY <1>2
<1>12. ASSUME NEW m \in OwnOnes' PROVE Remembered(m)'
  <2>1. CASE m \in OwnOnes
    <3>1. Remembered(m) /\ m.id \in Nat /\ m.born \in Nat
      BY <2>1, MineType DEF VisitCounted
    <3>2. m.id <= done'["request"] /\ m.born <= Now'
      BY <3>1, <1>6, <1>7 DEF Remembered, d
    <3>3. m.what \in Accounts => m.what \in tab'.seen
      BY <3>1, <1>3 DEF Remembered
    <3>4. m.what \in Failures /\ ~flooded' => recent'[m.what] # NoOne /\ m.born <= recent'[m.what]
      BY <3>1, <1>1 DEF Remembered
    <3>5. ASSUME m.what \in Paths, m.what # tab'.lastPath, done'["request"] < budget'["request"]
          PROVE  m.id < done'["request"]
      <4>1. d + few < budget["request"] /\ d < budget["request"] /\ few = Len(whats)
        BY <3>5, <1>1, <1>6, <1>7, <1>11
      <4>2. CASE m.what # tab.lastPath
        BY <3>1, <3>5, <4>1, <4>2, <1>6, <1>7 DEF Remembered, d
      <4>3. CASE m.what = tab.lastPath
        <5>1. few >= 1
          BY <3>5, <4>1, <4>3, <1>3, <1>9
        <5> QED
          BY <3>1, <5>1, <1>6, <1>7 DEF Remembered, d
      <4> QED
        BY <4>2, <4>3
    <3> QED
      BY <3>2, <3>3, <3>4, <3>5 DEF Remembered
  <2>2. ASSUME NEW n \in 1 .. few, m.id = d + n, m.what = whats[n], m.born = Now,
               \/ n = 1 /\ m.what = there /\ there # tab.lastPath
               \/ n = Len(whats) /\ m.what = account.address
                  /\ account.address \in Accounts /\ account.address \notin tab.seen
        PROVE  Remembered(m)'
    <3>1. m.id <= done'["request"] /\ m.born <= Now'
      BY <2>2, <1>6, <1>7
    <3>2. m.what \in Accounts => m.what \in tab'.seen
      BY <2>2, <1>2, <1>3, Sorts
    <3>3. m.what \notin Failures
      BY <2>2, <1>2, Sorts
    <3>4. m.what \in Paths => m.what = tab'.lastPath
      BY <2>2, <1>3, Sorts
    <3> QED
      BY <3>1, <3>2, <3>3, <3>4 DEF Remembered
  <2> QED
    BY <2>1, <2>2, <1>10
<1>13. ASSUME NEW m \in OwnOnes', NEW n \in OwnOnes' PROVE Apart(m, n)'
  <2>1. CASE m \in OwnOnes /\ n \in OwnOnes
    <3>1. Apart(m, n)
      BY <2>1 DEF VisitCounted
    <3> QED
      BY <3>1, <1>1 DEF Apart
  <2>2. ASSUME m \in OwnOnes, NEW k \in 1 .. few, n.id = d + k, n.what = whats[k], n.born = Now,
               \/ k = 1 /\ n.what = there /\ there # tab.lastPath
               \/ k = Len(whats) /\ n.what = account.address
                  /\ account.address \in Accounts /\ account.address \notin tab.seen
        PROVE  Apart(m, n)'
    <3>1. Remembered(m) /\ m.id \in Nat
      BY <2>2, MineType DEF VisitCounted
    <3>2. SUFFICES ASSUME n.what = m.what
                   PROVE  m.what \notin Accounts /\ m.what \notin Failures /\ (m.what \in Paths => n.id > m.id + 1)
      BY DEF Apart
    <3>3. CASE n.what = account.address /\ account.address \in Accounts /\ account.address \notin tab.seen
      BY <3>1, <3>2, <3>3 DEF Remembered
    <3>4. CASE k = 1 /\ n.what = there /\ there # tab.lastPath
      <4>1. m.what \in Paths /\ m.what # tab.lastPath
        BY <3>2, <3>4, <1>2
      <4>2. d < budget["request"]
        <5>1. few >= 1
          BY <2>2, <1>6
        <5> QED
          BY <5>1, <1>6, <1>7, <1>5, <1>1 DEF Fired, d
      <4>3. m.id < d
        BY <3>1, <4>1, <4>2 DEF Remembered, d
      <4> QED
        BY <2>2, <3>1, <3>4, <4>1, <4>3, <1>7, Sorts
    <3> QED
      BY <2>2, <3>3, <3>4
  <2>3. ASSUME NEW j \in 1 .. few, m.id = d + j, m.what = whats[j],
               \/ j = 1 /\ m.what = there
               \/ j = Len(whats) /\ m.what = account.address /\ account.address \in Accounts,
               n \in OwnOnes
        PROVE  Apart(m, n)'
    <3>1. n.id <= d /\ n.id \in Nat
      BY <2>3, MineType DEF VisitCounted, Remembered, d
    <3> QED
      BY <2>3, <3>1, <1>6, <1>7 DEF Apart
  <2>4. ASSUME NEW j \in 1 .. few, m.id = d + j, m.what = whats[j],
               \/ j = 1 /\ m.what = there
               \/ j = Len(whats) /\ m.what = account.address /\ account.address \in Accounts,
               NEW k \in 1 .. few, n.id = d + k, n.what = whats[k],
               \/ k = 1 /\ n.what = there
               \/ k = Len(whats) /\ n.what = account.address /\ account.address \in Accounts
        PROVE  Apart(m, n)'
    <3>1. SUFFICES ASSUME k > j, n.what = m.what PROVE FALSE
      BY <2>4, <1>6, <1>7 DEF Apart
    <3>2. k = Len(whats) /\ j # Len(whats)
      BY <2>4, <3>1, <1>6, <1>11
    <3>3. m.what = there /\ n.what \in Accounts
      BY <2>4, <3>1, <3>2, <1>6, <1>11
    <3> QED
      BY <3>1, <3>3, <1>2, Sorts
  <2> QED
    BY <2>1, <2>2, <2>3, <2>4, <1>10
<1> QED
  BY <1>12, <1>13 DEF VisitCounted

(* A report is of what was not told within the minute.                     *)
LEMMA ReportCounted ==
  ASSUME VisitTyped, VisitTyped', VisitCounted, NEW f \in Failures, Report(f)
  PROVE  VisitCounted'
<1> DEFINE told == [recent EXCEPT ![f] = Now]
           full == Cardinality({g \in Failures : told[g] # NoOne}) > MaxRecent
           send == ~Repeated(f) /\ done["request"] < budget["request"]
           d == done["request"]
           new == NewRequest("log", f, TRUE, 1)
<1>1. /\ recent' = IF Repeated(f) THEN recent
                   ELSE IF full THEN [g \in Failures |-> NoOne] ELSE told
      /\ flooded' = (flooded \/ (~Repeated(f) /\ full))
      /\ wire' = IF send THEN wire \cup {new} ELSE wire
      /\ done' = [done EXCEPT !["error"] = @ + 1, !["request"] = IF send THEN @ + 1 ELSE @]
      /\ UNCHANGED <<tab, account, rows, atOnce, budget>>
  BY DEF Report
<1>2. d \in Nat /\ budget["request"] \in Nat /\ Now \in Nat /\ d <= budget["request"]
  BY Counters
<1>3. done'["request"] = (IF send THEN d + 1 ELSE d) /\ Now' = Now
  <2> HIDE DEF send
  <2> QED
    BY <1>1 DEF VisitTyped, Doings, Now
<1>4. ~flooded' => flooded = FALSE /\ recent' = IF Repeated(f) THEN recent ELSE told
  BY <1>1 DEF VisitTyped, VisitTypeOK
<1>5. told[f] = Now /\ \A g \in Failures \ {f} : told[g] = recent[g]
  BY DEF VisitTyped, VisitTypeOK
<1>6. new.id = d + 1 /\ new.what = f /\ new.born = Now
  BY DEF NewRequest
<1>7. Repeated(f) => recent[f] # NoOne
  BY DEF Repeated
<1>8. \A m \in OwnOnes' : m \in OwnOnes \/ (send /\ m = new)
  <2> HIDE DEF new, send
  <2> QED
    BY <1>1 DEF OwnOnes
<1>9. send => ~Repeated(f) /\ d < budget["request"]
  OBVIOUS
<1> HIDE DEF told, full, send, new, d
<1>10. ASSUME NEW m \in OwnOnes' PROVE Remembered(m)'
  <2>1. CASE m \in OwnOnes
    <3>1. Remembered(m) /\ m.id \in Nat /\ m.born \in Nat
      BY <2>1, MineType DEF VisitCounted
    <3>2. m.id <= done'["request"] /\ m.born <= Now'
      BY <3>1, <1>2, <1>3 DEF Remembered, d
    <3>3. ASSUME m.what \in Failures, ~flooded'
          PROVE  recent'[m.what] # NoOne /\ m.born <= recent'[m.what]
      <4>1. recent[m.what] # NoOne /\ m.born <= recent[m.what]
        BY <3>1, <3>3, <1>4 DEF Remembered
      <4>2. CASE Repeated(f)
        BY <3>3, <4>1, <4>2, <1>4
      <4>3. CASE ~Repeated(f) /\ m.what = f
        <5>1. recent'[m.what] = Now
          BY <3>3, <4>3, <1>4, <1>5
        <5>2. Now # NoOne /\ m.born <= Now
          BY <3>1, <1>2, Sorts DEF Remembered
        <5> QED
          BY <5>1, <5>2
      <4>4. CASE ~Repeated(f) /\ m.what # f
        BY <3>3, <4>1, <4>4, <1>4, <1>5
      <4> QED
        BY <4>2, <4>3, <4>4
    <3>4. m.what \in Accounts => m.what \in tab'.seen
      BY <3>1, <1>1 DEF Remembered
    <3>5. m.what \in Paths /\ m.what # tab'.lastPath /\ done'["request"] < budget'["request"]
            => m.id < done'["request"]
      BY <3>1, <1>1, <1>2, <1>3 DEF Remembered, d
    <3> QED
      BY <3>2, <3>3, <3>4, <3>5 DEF Remembered
  <2>2. CASE send /\ m = new
    <3>1. m.what = f /\ m.id = d + 1 /\ m.born = Now
      BY <2>2, <1>6
    <3>2. f \notin Accounts /\ f \notin Paths
      BY Sorts
    <3>3. ~flooded' => recent'[f] = Now
      BY <2>2, <1>4, <1>5, <1>9
    <3>4. Now # NoOne
      BY <1>2, Sorts
    <3>5. m.id <= done'["request"] /\ m.born <= Now' /\ m.born <= Now
      BY <2>2, <3>1, <1>2, <1>3
    <3> QED
      BY <3>1, <3>2, <3>3, <3>4, <3>5 DEF Remembered
  <2> QED
    BY <2>1, <2>2, <1>8
<1>11. ASSUME NEW m \in OwnOnes', NEW n \in OwnOnes' PROVE Apart(m, n)'
  <2>1. CASE m \in OwnOnes /\ n \in OwnOnes
    <3>1. Apart(m, n)
      BY <2>1 DEF VisitCounted
    <3> QED
      BY <3>1, <1>1 DEF Apart
  <2>2. CASE m \in OwnOnes /\ send /\ n = new
    <3>1. Remembered(m) /\ m.id \in Nat /\ m.born \in Nat
      BY <2>2, MineType DEF VisitCounted
    <3>2. SUFFICES ASSUME m.what = f, ~flooded' PROVE n.born - m.born >= Minute
      <4>1. f \notin Accounts /\ f \notin Paths
        BY Sorts
      <4>2. n.what = f
        BY <2>2, <1>6
      <4> QED
        BY <4>1, <4>2 DEF Apart
    <3>3. recent[f] # NoOne /\ m.born <= recent[f] /\ recent[f] \in Nat
      BY <3>1, <3>2, <1>4 DEF Remembered, VisitTyped, VisitTypeOK
    <3>4. Now - recent[f] >= Minute
      <4>1. ~Repeated(f)
        BY <2>2, <1>9
      <4> QED
        BY <3>3, <4>1, <1>2, Sorts DEF Repeated
    <3>5. n.born = Now
      BY <2>2, <1>6
    <3> QED
      BY <3>1, <3>3, <3>4, <3>5, <1>2, Sorts
  <2>3. CASE send /\ m = new
    <3>1. n.id <= m.id /\ n.id \in Nat /\ m.id \in Nat
      <4>1. CASE n \in OwnOnes
        BY <2>3, <4>1, <1>2, <1>6, MineType DEF VisitCounted, Remembered, d
      <4>2. CASE n = new
        BY <2>3, <4>2, <1>2, <1>6
      <4> QED
        BY <4>1, <4>2, <1>8
    <3> QED
      BY <3>1 DEF Apart
  <2> QED
    BY <2>1, <2>2, <2>3, <1>8
<1> QED
  BY <1>10, <1>11 DEF VisitCounted

LEMMA VisitCountedStep ==
  ASSUME VisitTyped, VisitCounted, [VisitNext]_visitVars
  PROVE  VisitCounted'
<1>1. VisitTyped'
  BY VisitTypedStep
<1>2. done["request"] \in Nat /\ Now \in Nat
  BY Counters
<1>3. tab \in Tab
  BY DEF VisitTyped, VisitTypeOK
<1>4. ASSUME NEW place, NEW past, Going(place, past) PROVE VisitCounted'
  <2>1. Go(place, past)
    BY <1>4 DEF Going
  <2>2. UNCHANGED <<account, recent, wire, rows, atOnce, flooded, budget>> /\ Does("click")
    BY <2>1 DEF Go
  <2>3. tab'.seen = tab.seen /\ tab'.lastPath = tab.lastPath
    BY <2>1, <1>3 DEF Go, Tab
  <2>4. done'["request"] = done["request"] /\ Now' = Now
    BY <2>2, DoesTyped DEF Doings, Now
  <2> QED
    BY <1>1, <1>2, <2>2, <2>3, <2>4, NothingOwn DEF OwnOnes
<1>5. ASSUME NEW status, NEW address, NEW returning, Connecting(status, address, returning)
      PROVE  VisitCounted'
  <2>1. Connection(status, address, returning)
    BY <1>5 DEF Connecting
  <2>2. UNCHANGED <<recent, wire, rows, atOnce, flooded, budget>> /\ Does("wallet")
    BY <2>1 DEF Connection
  <2>3. tab'.seen = tab.seen /\ tab'.lastPath = tab.lastPath
    BY <2>1, <1>3 DEF Connection, Tab
  <2>4. done'["request"] = done["request"] /\ Now' = Now
    BY <2>2, DoesTyped DEF Doings, Now
  <2> QED
    BY <1>1, <1>2, <2>2, <2>3, <2>4, NothingOwn DEF OwnOnes
<1>6. ASSUME NEW kind \in Tables, OtherPage(kind) PROVE VisitCounted'
  <2> DEFINE whats == <<IF kind = "event" THEN "/" ELSE CHOOSE f \in Failures : TRUE>>
  <2>1. UNCHANGED <<tab, account, recent, rows, atOnce, flooded, budget>> /\ Fire(kind, whats, FALSE)
    BY <1>6 DEF OtherPage
  <2>2. whats \in Seq(What)
    BY VisitAssumption DEF What, Paths
  <2> HIDE DEF whats
  <2>3. PICK few : Fired(kind, whats, FALSE, few)
    BY <2>1, <2>2, FireFires
  <2>4. done'["request"] = done["request"] + few /\ few \in Nat /\ Now' = Now
    BY <2>1, <2>2, <2>3, FiredTyped DEF Doings, Now
  <2>5. OwnOnes' = OwnOnes
    <3>1. wire' = wire \cup {NewRequest(kind, whats[n], FALSE, n) : n \in 1 .. few} /\ rows' = rows
      BY <2>1, <2>3 DEF Fired
    <3>2. \A n \in 1 .. few : NewRequest(kind, whats[n], FALSE, n).own = FALSE
      BY DEF NewRequest
    <3> QED
      BY <3>1, <3>2 DEF OwnOnes
  <2> QED
    BY <1>1, <1>2, <2>1, <2>4, <2>5, NothingOwn
<1>7. ASSUME NEW m \in wire, CountRows(m) PROVE VisitCounted'
  <2> DEFINE kept == [m EXCEPT !.at = Now]
  <2>1. /\ kept.id = m.id /\ kept.what = m.what /\ kept.own = m.own /\ kept.born = m.born
        /\ wire' \subseteq (wire \ {m}) \cup {kept}
    BY <1>7, CountedRequest
  <2>2. UNCHANGED <<tab, account, recent, rows, flooded, done, budget>>
    BY <1>7 DEF CountRows
  <2> HIDE DEF kept
  <2>3. \A r \in OwnOnes' : \E o \in OwnOnes : r.id = o.id /\ r.what = o.what /\ r.born = o.born
    <3> TAKE r \in OwnOnes'
    <3>1. CASE r = kept
      <4>1. m \in OwnOnes
        BY <2>1, <3>1 DEF OwnOnes
      <4> QED
        BY <2>1, <3>1, <4>1
    <3>2. CASE r # kept
      BY <2>1, <2>2, <3>2 DEF OwnOnes
    <3> QED
      BY <3>1, <3>2
  <2>4. done'["request"] >= done["request"] /\ Now' >= Now
    BY <1>2, <2>2 DEF Now
  <2> QED
    BY <1>1, <2>2, <2>3, <2>4, NothingOwn
<1>8. ASSUME NEW m \in wire, InsertRow(m) PROVE VisitCounted'
  <2>1. wire' = wire \ {m} /\ rows' = rows \cup {m}
        /\ UNCHANGED <<tab, account, recent, atOnce, flooded, done, budget>>
    BY <1>8 DEF InsertRow
  <2>2. OwnOnes' = OwnOnes
    BY <2>1 DEF OwnOnes
  <2>3. done'["request"] >= done["request"] /\ Now' >= Now
    BY <1>2, <2>1 DEF Now
  <2> QED
    BY <1>1, <2>1, <2>2, <2>3, NothingOwn
<1>9. CASE Tick
  <2>1. Does("tick") /\ UNCHANGED <<tab, account, recent, wire, rows, atOnce, flooded, budget>>
    BY <1>9 DEF Tick
  <2>2. done'["request"] = done["request"] /\ Now' = Now + 1
    BY <2>1, DoesTyped DEF Doings, Now
  <2> QED
    BY <1>1, <1>2, <2>1, <2>2, NothingOwn DEF OwnOnes
<1>10. CASE UNCHANGED visitVars
  <2>1. done'["request"] >= done["request"] /\ Now' >= Now
    BY <1>2, <1>10 DEF visitVars, Now
  <2>2. UNCHANGED <<tab, recent, flooded, budget>> /\ OwnOnes' = OwnOnes
    BY <1>10 DEF visitVars, OwnOnes
  <2> QED
    BY <1>1, <2>1, <2>2, NothingOwn
<1> QED
  BY <1>1, <1>4, <1>5, <1>6, <1>7, <1>8, <1>9, <1>10, VisitSteps, RenderCounted, ReportCounted

-----------------------------------------------------------------------------
(* BookKept: the key holds what was asked for, and a visitor whose wallet  *)
(* may yet come back is where he came to.                                  *)

VisitKept ==
  /\ tab.asked # NoOne /\ tab.storage => tab.key = tab.asked
  /\ tab.returning => account.status = "connected"
  /\ (account.status = "reconnecting" \/ tab.returning) /\ ~tab.moved /\ tab.entry # "/access"
       => tab.here.path = tab.entry
  /\ ~tab.stale => /\ tab.asked # NoOne /\ tab.storage => tab.book = tab.asked
                   /\ tab.book \in Accounts => tab.book = account.address

LEMMA VisitKeptIsIt == VisitKept => BookKept
  BY DEF VisitKept, BookKept

LEMMA VisitKeptInit == VisitInit => VisitKept
  BY DEF VisitInit, VisitKept

LEMMA VisitKeptRender ==
  ASSUME VisitTyped, VisitKept, Render
  PROVE  VisitKept'
<1> USE DEF VisitKept
<1> DEFINE param == tab.here.param
           view == StickyView(param)
           key == StickyKey(param)
<1>1. tab \in Tab /\ account \in Account /\ param \in Params
  BY DEF VisitTyped, VisitTypeOK
<1>2. view \in Watched \cup {NoOne} /\ UNCHANGED account
  BY StickyType DEF Render
<1>3. /\ tab'.here = Redirected
      /\ tab'.key = key /\ tab'.storage = tab.storage
      /\ tab'.book = (IF view # NoOne THEN view ELSE account.address)
      /\ tab'.asked = IF param \in Watched THEN param
                      ELSE IF param = "off" \/ account.status = "connected" THEN NoOne
                      ELSE tab.asked
      /\ tab'.moved = tab.moved /\ tab'.returning = tab.returning /\ tab'.entry = tab.entry
  BY RenderedTab
<1>4. "off" \notin Watched /\ NoOne \notin Watched /\ NoOne # "off" /\ Watched \cap Accounts = {}
  BY VisitAssumption
<1>5. param \in Watched => view = param /\ (tab.storage => key = param)
  BY <1>4 DEF StickyView, StickyKey
<1>6. param = NoOne => key = tab.key /\ view = IF account.status = "connected" THEN NoOne ELSE tab.key
  BY <1>4 DEF StickyView, StickyKey
<1>7. param \in Watched \/ param = "off" \/ param = NoOne
  BY <1>1 DEF Params
<1> HIDE DEF view, key, param
<1>8. tab'.asked # NoOne /\ tab'.storage => tab'.key = tab'.asked /\ tab'.book = tab'.asked
  <2>1. CASE param \in Watched
    BY <2>1, <1>3, <1>4, <1>5
  <2>2. CASE param = "off"
    BY <2>2, <1>3, <1>4
  <2>3. CASE param = NoOne
    BY <2>3, <1>3, <1>4, <1>6
  <2> QED
    BY <1>7, <2>1, <2>2, <2>3
<1>9. tab'.book \in Accounts => tab'.book = account'.address
  BY <1>2, <1>3, <1>4
<1>10. tab'.returning => account'.status = "connected"
  BY <1>2, <1>3
<1>11. ASSUME account'.status = "reconnecting" \/ tab'.returning, ~tab'.moved, tab'.entry # "/access"
       PROVE  tab'.here.path = tab'.entry
  <2>1. tab.here.path = tab.entry /\ tab.here.path # "/access"
    BY <1>2, <1>3, <1>11
  <2>2. account.status = "reconnecting" \/ account.address # NoOne
    BY <1>2, <1>3, <1>11 DEF VisitTyped
  <2>3. Redirected = tab.here
    BY <2>1, <2>2 DEF Redirected, Lands
  <2> QED
    BY <1>3, <2>1, <2>3
<1> QED
  BY <1>8, <1>9, <1>10, <1>11

LEMMA VisitKeptStep ==
  ASSUME VisitTyped, VisitKept, [VisitNext]_visitVars
  PROVE  VisitKept'
<1> USE DEF VisitKept
<1>1. tab \in Tab /\ account \in Account
  BY DEF VisitTyped, VisitTypeOK
<1>2. ASSUME NEW place, NEW past, Going(place, past) PROVE VisitKept'
  <2>1. Go(place, past)
    BY <1>2 DEF Going
  <2>2. /\ UNCHANGED account /\ tab'.stale /\ tab'.moved
        /\ tab'.asked = tab.asked /\ tab'.storage = tab.storage /\ tab'.key = tab.key
        /\ tab'.returning = tab.returning
    BY <2>1, <1>1 DEF Go, Tab
  <2> QED
    BY <2>2
<1>3. ASSUME NEW status, NEW address, NEW returning, Connecting(status, address, returning)
      PROVE  VisitKept'
  <2>1. Connection(status, address, returning)
    BY <1>3 DEF Connecting
  <2>2. /\ tab'.stale /\ tab'.moved = tab.moved /\ tab'.entry = tab.entry /\ tab'.here = tab.here
        /\ tab'.asked = tab.asked /\ tab'.storage = tab.storage /\ tab'.key = tab.key
        /\ tab'.returning = returning /\ account'.status = status
    BY <2>1, <1>1 DEF Connection, Tab
  <2>3. returning => status = "connected"
    BY <1>3 DEF Connecting
  <2>4. status # "reconnecting"
    BY <1>3 DEF Connecting
  <2>5. returning => account.status = "reconnecting" \/ tab.returning
    BY <1>3 DEF Connecting
  <2> QED
    BY <2>2, <2>3, <2>4, <2>5
<1>4. UNCHANGED <<tab, account>> => VisitKept'
  OBVIOUS
<1>5. ASSUME NEW f \in Failures, Report(f) PROVE VisitKept'
  BY <1>4, <1>5 DEF Report
<1>6. ASSUME NEW kind \in Tables, OtherPage(kind) PROVE VisitKept'
  BY <1>4, <1>6 DEF OtherPage
<1>7. ASSUME NEW m \in wire, CountRows(m) \/ InsertRow(m) PROVE VisitKept'
  BY <1>4, <1>7 DEF CountRows, InsertRow
<1>8. CASE Tick
  BY <1>4, <1>8 DEF Tick
<1>9. CASE UNCHANGED visitVars
  BY <1>4, <1>9 DEF visitVars
<1> HIDE DEF VisitKept
<1> QED
  BY <1>2, <1>3, <1>5, <1>6, <1>7, <1>8, <1>9, VisitSteps, VisitKeptRender

-----------------------------------------------------------------------------
(* IntakeBounded: the rows of the last minute and the requests that have   *)
(* counted and are about to insert, of everybody or of one sender.         *)

Senders(kind) == IF kind = "event" THEN {BOOLEAN} ELSE {BOOLEAN, {TRUE}, {FALSE}}

Limit(kind, who) ==
  IF kind = "event" THEN EventCap ELSE IF who = BOOLEAN THEN LogCap ELSE IpCap

Beyond(kind) == IF atOnce[kind] = 0 THEN 0 ELSE atOnce[kind] - 1

Taken(kind, who) == {r \in LastMinute(kind) : r.own \in who}
Entering(kind, who) == {r \in wire : r.kind = kind /\ r.at # NoOne /\ r.own \in who}

VisitBounded ==
  \A kind \in Tables : \A who \in Senders(kind) :
    Cardinality(Taken(kind, who)) + Cardinality(Entering(kind, who)) <= Limit(kind, who) + Beyond(kind)

LEMMA IntakeFinite ==
  ASSUME VisitTyped, NEW kind \in Tables, NEW who
  PROVE  /\ IsFiniteSet(Taken(kind, who)) /\ IsFiniteSet(Entering(kind, who))
         /\ Cardinality(Taken(kind, who)) \in Nat /\ Cardinality(Entering(kind, who)) \in Nat
         /\ atOnce[kind] \in Nat /\ Beyond(kind) \in Nat /\ Limit(kind, who) \in Nat
<1>1. IsFiniteSet(Taken(kind, who)) /\ IsFiniteSet(Entering(kind, who))
  BY FS_Subset DEF VisitTyped, Taken, Entering, LastMinute
<1>2. atOnce[kind] \in Nat
  BY DEF VisitTyped, VisitTypeOK
<1>3. Limit(kind, who) \in Nat
  BY VisitAssumption DEF Limit
<1> QED
  BY <1>1, <1>2, <1>3, FS_CardinalityType DEF Beyond

LEMMA VisitBoundedIsIt == ASSUME VisitTyped, VisitBounded PROVE IntakeBounded
<1>1. ASSUME NEW k \in Tables
      PROVE  LET beyond == IF atOnce[k] = 0 THEN 0 ELSE atOnce[k] - 1
             IN /\ Cardinality(LastMinute(k)) <= (IF k = "event" THEN EventCap ELSE LogCap) + beyond
                /\ k = "log" => \A own \in BOOLEAN :
                     Cardinality({r \in LastMinute(k) : r.own = own}) <= IpCap + beyond
  <2>1. ASSUME NEW who \in Senders(k)
        PROVE  Cardinality(Taken(k, who)) <= Limit(k, who) + Beyond(k)
    BY IntakeFinite DEF VisitBounded
  <2>2. BOOLEAN \in Senders(k) /\ Limit(k, BOOLEAN) = IF k = "event" THEN EventCap ELSE LogCap
    BY DEF Senders, Limit
  <2>3. Taken(k, BOOLEAN) = LastMinute(k)
    BY DEF Taken, LastMinute, VisitTyped, VisitTypeOK, Request
  <2>4. Cardinality(LastMinute(k)) <= (IF k = "event" THEN EventCap ELSE LogCap) + Beyond(k)
    BY <2>1, <2>2, <2>3
  <2>5. ASSUME k = "log", NEW own \in BOOLEAN
        PROVE  Cardinality({r \in LastMinute(k) : r.own = own}) <= IpCap + Beyond(k)
    <3>1. {own} \in Senders(k) /\ {own} # BOOLEAN
      BY <2>5 DEF Senders
    <3>2. Limit(k, {own}) = IpCap
      BY <2>5, <3>1 DEF Limit
    <3>3. Taken(k, {own}) = {r \in LastMinute(k) : r.own = own}
      BY DEF Taken
    <3> QED
      BY <2>1, <3>1, <3>2, <3>3
  <2> QED
    BY <2>4, <2>5 DEF Beyond
<1> QED
  BY <1>1 DEF IntakeBounded

LEMMA VisitBoundedInit == ASSUME VisitInit PROVE VisitBounded
<1>1. VisitTyped
  BY VisitTypedInit
<1>2. ASSUME NEW kind \in Tables, NEW who
      PROVE  Cardinality(Taken(kind, who)) + Cardinality(Entering(kind, who)) <= Limit(kind, who) + Beyond(kind)
  <2>1. Taken(kind, who) = {} /\ Entering(kind, who) = {}
    BY DEF VisitInit, Taken, Entering, LastMinute
  <2>2. Cardinality(Taken(kind, who)) = 0 /\ Cardinality(Entering(kind, who)) = 0
    BY <2>1, FS_EmptySet, Zenon
  <2> QED
    BY <1>1, <2>2, IntakeFinite
<1> QED
  BY <1>2 DEF VisitBounded

(* Less, or as much, of both is within the same bound.                     *)
LEMMA IntakeNoMore ==
  ASSUME VisitTyped, VisitTyped', VisitBounded, UNCHANGED atOnce,
         \A kind \in Tables, who \in SUBSET BOOLEAN :
           /\ Taken(kind, who)' \subseteq Taken(kind, who)
           /\ Entering(kind, who)' \subseteq Entering(kind, who)
  PROVE  VisitBounded'
<1> SUFFICES ASSUME NEW kind \in Tables, NEW who \in Senders(kind)
             PROVE  Cardinality(Taken(kind, who)') + Cardinality(Entering(kind, who)')
                      <= Limit(kind, who) + Beyond(kind)'
  BY DEF VisitBounded, Limit, Senders
<1>1. who \in SUBSET BOOLEAN
  BY DEF Senders
<1>2. Cardinality(Taken(kind, who)) + Cardinality(Entering(kind, who)) <= Limit(kind, who) + Beyond(kind)
  BY DEF VisitBounded
<1>3. Beyond(kind)' = Beyond(kind)
  BY DEF Beyond
<1>4. /\ Cardinality(Taken(kind, who)') <= Cardinality(Taken(kind, who))
      /\ Cardinality(Taken(kind, who)') \in Nat
  BY <1>1, IntakeFinite, FS_Subset, FS_CardinalityType
<1>5. /\ Cardinality(Entering(kind, who)') <= Cardinality(Entering(kind, who))
      /\ Cardinality(Entering(kind, who)') \in Nat
  BY <1>1, IntakeFinite, FS_Subset, FS_CardinalityType
<1>6. /\ Cardinality(Taken(kind, who)) \in Nat /\ Cardinality(Entering(kind, who)) \in Nat
      /\ Beyond(kind) \in Nat /\ Limit(kind, who) \in Nat
  BY IntakeFinite
<1> QED
  BY <1>2, <1>3, <1>4, <1>5, <1>6

(* Requests that are not counted yet do not count.                         *)
LEMMA IntakeUncounted ==
  ASSUME VisitTyped, VisitTyped', VisitBounded, UNCHANGED <<atOnce, rows>>, Now' = Now,
         \A r \in wire' \ wire : r.at = NoOne
  PROVE  VisitBounded'
<1>1. \A kind \in Tables, who \in SUBSET BOOLEAN :
        /\ Taken(kind, who)' \subseteq Taken(kind, who)
        /\ Entering(kind, who)' \subseteq Entering(kind, who)
  BY DEF Taken, Entering, LastMinute
<1> QED
  BY <1>1, IntakeNoMore

LEMMA IntakeCounts ==
  ASSUME VisitTyped, VisitTyped', VisitBounded, NEW m \in wire, CountRows(m)
  PROVE  VisitBounded'
<1> DEFINE kept == [m EXCEPT !.at = Now]
<1>1. UNCHANGED <<tab, account, recent, rows, flooded, done, budget>> /\ Now' = Now
  BY DEF CountRows, Now
<1>2. /\ m \in Request /\ m.at = NoOne /\ kept \in Request /\ kept.at = Now /\ Now \in Nat
      /\ kept.kind = m.kind /\ kept.own = m.own
      /\ Full(m) => wire' = wire \ {m}
      /\ ~Full(m) => wire' = (wire \ {m}) \cup {kept}
  BY CountedRequest
<1>3. m.kind \in Tables /\ m.own \in BOOLEAN
  BY <1>2 DEF Request
<1> HIDE DEF kept
<1> SUFFICES ASSUME NEW kind \in Tables, NEW who \in Senders(kind)
             PROVE  Cardinality(Taken(kind, who)') + Cardinality(Entering(kind, who)')
                      <= Limit(kind, who) + Beyond(kind)'
  BY DEF VisitBounded, Limit, Senders
<1>4. Cardinality(Taken(kind, who)) + Cardinality(Entering(kind, who)) <= Limit(kind, who) + Beyond(kind)
  BY DEF VisitBounded
<1>5. /\ Cardinality(Taken(kind, who)) \in Nat /\ Cardinality(Entering(kind, who)) \in Nat
      /\ atOnce[kind] \in Nat /\ Beyond(kind) \in Nat /\ Limit(kind, who) \in Nat
  BY IntakeFinite
<1>6. Taken(kind, who)' = Taken(kind, who)
  BY <1>1 DEF Taken, LastMinute
<1> DEFINE in == {r \in wire' : r.kind = kind /\ r.at # NoOne}
<1>7. IsFiniteSet(in) /\ Cardinality(in) \in Nat
  BY FS_Subset, FS_CardinalityType DEF VisitTyped
<1>8. atOnce'[kind] = IF Cardinality(in) > atOnce[kind] THEN Cardinality(in) ELSE atOnce[kind]
  BY DEF CountRows
<1>9. Entering(kind, who)' \subseteq in
  BY DEF Entering
<1>10. Cardinality(Entering(kind, who)') \in Nat /\ Cardinality(Entering(kind, who)') <= Cardinality(in)
  BY <1>7, <1>9, FS_Subset, FS_CardinalityType
<1> HIDE DEF in
<1>11. /\ atOnce'[kind] \in Nat /\ atOnce'[kind] >= atOnce[kind]
       /\ atOnce'[kind] >= Cardinality(Entering(kind, who)')
  BY <1>5, <1>7, <1>8, <1>10
<1>12. Beyond(kind)' = IF atOnce'[kind] = 0 THEN 0 ELSE atOnce'[kind] - 1
  BY DEF Beyond
<1>13. CASE Entering(kind, who)' \subseteq Entering(kind, who)
  <2>1. Cardinality(Entering(kind, who)') <= Cardinality(Entering(kind, who))
    BY <1>13, IntakeFinite, FS_Subset
  <2> QED
    BY <2>1, <1>4, <1>5, <1>6, <1>10, <1>11, <1>12 DEF Beyond
<1>14. CASE ~(Entering(kind, who)' \subseteq Entering(kind, who))
  <2>1. ~Full(m) /\ kept \in Entering(kind, who)' /\ m.kind = kind /\ m.own \in who
    BY <1>2, <1>14 DEF Entering
  <2>2. Cardinality(Taken(kind, who)) < Limit(kind, who)
    <3>1. CASE who = BOOLEAN
      <4>1. Taken(kind, who) = LastMinute(kind)
        BY <3>1 DEF Taken, LastMinute, VisitTyped, VisitTypeOK, Request
      <4>2. CASE kind = "event"
        <5>1. ~(Cardinality(LastMinute("event")) >= EventCap)
          BY <2>1, <4>2 DEF Full
        <5> QED
          BY <1>5, <4>1, <4>2, <5>1 DEF Limit
      <4>3. CASE kind # "event"
        <5>1. kind = "log" /\ ~(Cardinality(LastMinute("log")) >= LogCap)
          BY <2>1, <4>3 DEF Full, Tables
        <5> QED
          BY <1>5, <3>1, <4>1, <4>3, <5>1 DEF Limit
      <4> QED
        BY <4>2, <4>3
    <3>2. CASE who # BOOLEAN
      <4>1. kind = "log" /\ who = {m.own}
        BY <2>1, <3>2, <1>3 DEF Senders, Tables
      <4>2. ~(Cardinality({r \in LastMinute("log") : r.own = m.own}) >= IpCap)
        BY <2>1, <4>1 DEF Full
      <4>3. Taken(kind, who) = {r \in LastMinute("log") : r.own = m.own}
        BY <4>1 DEF Taken
      <4>4. Limit(kind, who) = IpCap
        BY <3>2, <4>1 DEF Limit
      <4> QED
        BY <1>5, <4>2, <4>3, <4>4
    <3> QED
      BY <3>1, <3>2
  <2>3. Cardinality(Entering(kind, who)') >= 1
    <3>1. Entering(kind, who)' # {} /\ IsFiniteSet(Entering(kind, who)')
      BY <2>1, <1>7, <1>9, FS_Subset
    <3> QED
      BY <3>1, <1>10, FS_EmptySet
  <2> QED
    BY <2>2, <2>3, <1>5, <1>6, <1>10, <1>11, <1>12
<1> QED
  BY <1>13, <1>14

LEMMA IntakeInserts ==
  ASSUME VisitTyped, VisitTyped', VisitBounded, NEW m \in wire, InsertRow(m)
  PROVE  VisitBounded'
<1>1. /\ m.at # NoOne /\ wire' = wire \ {m} /\ rows' = rows \cup {m}
      /\ UNCHANGED <<tab, account, recent, atOnce, flooded, done, budget>> /\ Now' = Now
  BY DEF InsertRow, Now
<1> SUFFICES ASSUME NEW kind \in Tables, NEW who \in Senders(kind)
             PROVE  Cardinality(Taken(kind, who)') + Cardinality(Entering(kind, who)')
                      <= Limit(kind, who) + Beyond(kind)'
  BY DEF VisitBounded, Limit, Senders
<1>2. Cardinality(Taken(kind, who)) + Cardinality(Entering(kind, who)) <= Limit(kind, who) + Beyond(kind)
  BY DEF VisitBounded
<1>3. /\ IsFiniteSet(Taken(kind, who)) /\ IsFiniteSet(Entering(kind, who))
      /\ Cardinality(Taken(kind, who)) \in Nat /\ Cardinality(Entering(kind, who)) \in Nat
      /\ Beyond(kind) \in Nat /\ Limit(kind, who) \in Nat
  BY IntakeFinite
<1>4. Beyond(kind)' = Beyond(kind)
  BY <1>1 DEF Beyond
<1>5. CASE m \in Entering(kind, who)
  <2>1. Entering(kind, who)' = Entering(kind, who) \ {m}
    BY <1>1 DEF Entering
  <2>2. Cardinality(Entering(kind, who)') = Cardinality(Entering(kind, who)) - 1
    BY <1>3, <1>5, <2>1, FS_RemoveElement
  <2>3. Taken(kind, who)' \subseteq Taken(kind, who) \cup {m}
    BY <1>1 DEF Taken, LastMinute
  <2>4. /\ IsFiniteSet(Taken(kind, who) \cup {m})
        /\ Cardinality(Taken(kind, who) \cup {m}) \in Nat
        /\ Cardinality(Taken(kind, who) \cup {m}) <= Cardinality(Taken(kind, who)) + 1
    BY <1>3, FS_AddElement, FS_CardinalityType
  <2>5. /\ Cardinality(Taken(kind, who)') \in Nat
        /\ Cardinality(Taken(kind, who)') <= Cardinality(Taken(kind, who) \cup {m})
    BY <2>3, <2>4, FS_Subset, FS_CardinalityType
  <2> QED
    BY <1>2, <1>3, <1>4, <2>2, <2>4, <2>5
<1>6. CASE m \notin Entering(kind, who)
  <2>1. Entering(kind, who)' = Entering(kind, who)
    BY <1>1, <1>6 DEF Entering
  <2>2. Taken(kind, who)' = Taken(kind, who)
    BY <1>1, <1>6 DEF Taken, LastMinute, Entering
  <2> QED
    BY <1>2, <1>4, <2>1, <2>2
<1> QED
  BY <1>5, <1>6

LEMMA VisitBoundedStep ==
  ASSUME VisitTyped, VisitBounded, [VisitNext]_visitVars
  PROVE  VisitBounded'
<1>1. VisitTyped'
  BY VisitTypedStep
<1>2. ASSUME NEW place, NEW past, Going(place, past) PROVE VisitBounded'
  <2>1. UNCHANGED <<account, recent, wire, rows, atOnce, flooded, budget>> /\ Does("click")
    BY <1>2 DEF Going, Go
  <2>2. Now' = Now
    BY <2>1, DoesTyped DEF Doings, Now
  <2> QED
    BY <1>1, <2>1, <2>2, IntakeUncounted
<1>3. ASSUME NEW status, NEW address, NEW returning, Connecting(status, address, returning)
      PROVE  VisitBounded'
  <2>1. UNCHANGED <<recent, wire, rows, atOnce, flooded, budget>> /\ Does("wallet")
    BY <1>3 DEF Connecting, Connection
  <2>2. Now' = Now
    BY <2>1, DoesTyped DEF Doings, Now
  <2> QED
    BY <1>1, <2>1, <2>2, IntakeUncounted
<1>4. ASSUME NEW kind \in Tables, NEW whats \in Seq(What), NEW own \in BOOLEAN,
             Fire(kind, whats, own), UNCHANGED <<rows, atOnce, budget>>
      PROVE  VisitBounded'
  <2>1. PICK few : Fired(kind, whats, own, few)
    BY <1>4, FireFires
  <2>2. Now' = Now
    BY <1>4, <2>1, FiredTyped DEF Doings, Now
  <2>3. \A r \in wire' \ wire : r.at = NoOne
    BY <2>1 DEF Fired, NewRequest
  <2> QED
    BY <1>1, <1>4, <2>2, <2>3, IntakeUncounted
<1>5. CASE Render
  <2>1. /\ UNCHANGED <<account, recent, rows, atOnce, flooded, budget>>
        /\ Fire("event", PageView(Redirected.path) \o WalletConnect, TRUE)
    BY <1>5 DEF Render
  <2> QED
    BY <1>4, <2>1, RenderSends DEF Tables
<1>6. ASSUME NEW kind \in Tables, OtherPage(kind) PROVE VisitBounded'
  <2> DEFINE whats == <<IF kind = "event" THEN "/" ELSE CHOOSE f \in Failures : TRUE>>
  <2>1. UNCHANGED <<tab, account, recent, rows, atOnce, flooded, budget>> /\ Fire(kind, whats, FALSE)
    BY <1>6 DEF OtherPage
  <2>2. whats \in Seq(What)
    BY VisitAssumption DEF What, Paths
  <2> HIDE DEF whats
  <2> QED
    BY <1>4, <2>1, <2>2
<1>7. ASSUME NEW f \in Failures, Report(f) PROVE VisitBounded'
  <2>1. UNCHANGED <<tab, account, rows, atOnce, budget>>
        /\ wire' \subseteq wire \cup {NewRequest("log", f, TRUE, 1)}
    BY <1>7 DEF Report
  <2>2. Now' = Now
    BY <1>7 DEF Report, VisitTyped, Doings, Now
  <2>3. NewRequest("log", f, TRUE, 1).at = NoOne
    BY DEF NewRequest
  <2> QED
    BY <1>1, <2>1, <2>2, <2>3, IntakeUncounted
<1>8. CASE Tick
  <2>1. UNCHANGED <<wire, rows, atOnce>> /\ Now' = Now + 1 /\ Now \in Nat
    BY <1>8, DoesTyped, Counters DEF Tick, Doings, Now
  <2>2. Minute \in Nat
    BY Sorts
  <2>3. ASSUME NEW kind \in Tables, NEW who \in SUBSET BOOLEAN
        PROVE  /\ Taken(kind, who)' \subseteq Taken(kind, who)
               /\ Entering(kind, who)' \subseteq Entering(kind, who)
    <3>1. \A r \in rows : Now' - r.at < Minute => Now - r.at < Minute
      <4> TAKE r \in rows
      <4>1. r.at \in Nat
        BY DEF VisitTyped, VisitTypeOK, Request
      <4> QED
        BY <2>1, <2>2, <4>1
    <3> QED
      BY <2>1, <3>1 DEF Taken, Entering, LastMinute
  <2> QED
    BY <1>1, <2>1, <2>3, IntakeNoMore
<1>9. CASE UNCHANGED visitVars
  <2>1. UNCHANGED <<wire, rows, atOnce>> /\ Now' = Now
    BY <1>9 DEF visitVars, Now
  <2> QED
    BY <1>1, <2>1, IntakeUncounted
<1> QED
  BY <1>1, <1>2, <1>3, <1>5, <1>6, <1>7, <1>8, <1>9, VisitSteps, IntakeCounts, IntakeInserts

-----------------------------------------------------------------------------
(* ExitSells.  An exit or a sale signs one transaction at a time, and the  *)
(* chain mines them in the order they were signed.                         *)

Itineraries ==
  {<<"closeZap">>, <<"close">>, <<"close", "approveRouter", "swap">>, <<"approveRouter", "swap">>}

Stages == {"wallet", "mining", "failed", "done", "stopped"}

ExitRun ==
  [steps : Itineraries, atomic : {FALSE}, of : {None}, terms : {NoPlan}, wrap : {0},
   at : Nat, stage : Stages, try : Nat, mined : BOOLEAN, cancelled : BOOLEAN]

Signed == [run : Runs, try : Nat, amount : Nat]

Doing(r) == runs[r].steps[runs[r].at]
Confirmed(r) == runs[r].stage = "mining" /\ runs[r].mined

(* What waits to be mined and sells, or lets the router sell.              *)
Selling == {k \in DOMAIN mempool : Doing(mempool[k].run) \in {"approveRouter", "swap"}}

Covered(r) == Doing(r) = "swap" \/ (Doing(r) = "approveRouter" /\ Confirmed(r))

(* A stepper that nothing was refused has closed the position before it    *)
(* sells.  What others signed before that may be about less than is there  *)
(* now, but all of it is mined before this one's approval is; from there   *)
(* on whatever waits is about all of the base, or about more and reverts.  *)
Unrefused(r) ==
  /\ Doing(r) \in {"approveRouter", "swap"} => chain.closed
  /\ Doing(r) = "close" /\ Confirmed(r) => chain.closed
  /\ Doing(r) = "approveRouter" =>
       \A j \in DOMAIN mempool : mempool[j].run = r =>
         \A k \in Selling : j <= k => mempool[k].amount >= chain.base
  /\ Covered(r) => /\ chain.toRouter >= chain.base
                   /\ \A k \in Selling : mempool[k].amount >= chain.base
  /\ Doing(r) = "swap" => \A k \in DOMAIN mempool :
       mempool[k].run = r /\ chain.base # 0 => mempool[k].amount = chain.base
  /\ Doing(r) = "swap" /\ (Confirmed(r) \/ runs[r].stage = "done") => chain.base = 0

(* What is known of a stepper: where it is, that what it has signed is     *)
(* older than its next try, and what the step it waits for has done.       *)
OnTheWay(r) ==
  /\ runs[r].at \in 1 .. Len(runs[r].steps)
  /\ runs[r].stage = "done" => runs[r].at = Len(runs[r].steps)
  /\ \A k \in DOMAIN mempool : mempool[k].run = r =>
       /\ ~runs[r].mined
       /\ mempool[k].try <= runs[r].try
       /\ runs[r].stage = "wallet" => mempool[k].try < runs[r].try
  /\ r \notin chain.refused => Unrefused(r)

Exiting ==
  /\ runs \in [Runs -> ExitRun \cup {None}]
  /\ hosted # None => hosted \in Runs /\ runs[hosted] # None
  /\ mempool \in Seq(Signed)
  /\ \A k \in DOMAIN mempool : runs[mempool[k].run] # None
  /\ \A j, k \in DOMAIN mempool : j < k /\ mempool[j].run = mempool[k].run
       => mempool[j].try < mempool[k].try
  /\ chain \in Chain
  /\ \A r \in Runs : runs[r] # None => OnTheWay(r)

(* On the other screens every stepper ends with an open.                   *)
RunFields ==
  {"steps", "atomic", "of", "terms", "wrap", "at", "stage", "try", "mined", "cancelled"}

OpenRun(run) ==
  /\ DOMAIN run = RunFields
  /\ run.steps \in Seq(Kinds) /\ run.steps # <<>> /\ run.steps[Len(run.steps)] = "open"
  /\ run.of \in Ask /\ run.try \in Nat

Opening ==
  /\ looking = 0
  /\ DOMAIN runs = Runs /\ \A r \in Runs : runs[r] = None \/ OpenRun(runs[r])
  /\ hosted # None => hosted \in Runs /\ OpenRun(runs[hosted])
  /\ mempool \in Seq(Signed)
  /\ \A k \in DOMAIN mempool : OpenRun(runs[mempool[k].run])

ExitTold ==
  /\ screen = "position" => Exiting
  /\ screen # "position" => Opening

LEMMA ExitToldIsIt == ExitTold => ExitSells
<1> SUFFICES ASSUME ExitTold, NEW r \in Runs, runs[r] # None, runs[r].stage = "done",
                    runs[r].steps[Len(runs[r].steps)] = "swap", r \notin chain.refused
             PROVE  chain.closed /\ chain.base = 0
  BY DEF ExitSells
<1>1. CASE screen = "position"
  <2>1. OnTheWay(r)
    BY <1>1 DEF ExitTold, Exiting
  <2> QED
    BY <2>1 DEF OnTheWay, Unrefused, Doing
<1>2. CASE screen # "position"
  BY <1>2 DEF ExitTold, Opening, OpenRun
<1> QED
  BY <1>1, <1>2

LEMMA ItineraryIs ==
  ASSUME NEW s \in Itineraries, NEW k \in 1 .. Len(s)
  PROVE  /\ s \in Seq(Kinds) /\ Len(s) \in Nat /\ 1 \in 1 .. Len(s) /\ s # <<>>
         /\ s[k] \in {"close", "closeZap", "approveRouter", "swap"}
         /\ s[k] = "close" /\ k # Len(s) => s[k + 1] = "approveRouter"
         /\ s[k] = "approveRouter" => k # Len(s) /\ s[k + 1] = "swap"
         /\ s[k] = "closeZap" => k = Len(s)
         /\ s[k] = "swap" => k = Len(s)
<1>1. CASE s = <<"closeZap">>
  BY <1>1 DEF Kinds
<1>2. CASE s = <<"close">>
  BY <1>2 DEF Kinds
<1>3. CASE s = <<"close", "approveRouter", "swap">>
  BY <1>3 DEF Kinds
<1>4. CASE s = <<"approveRouter", "swap">>
  BY <1>4 DEF Kinds
<1> QED
  BY <1>1, <1>2, <1>3, <1>4 DEF Itineraries

LEMMA ItineraryHas ==
  ASSUME NEW s \in Itineraries
  PROVE  s \in Seq(Kinds) /\ Len(s) \in Nat /\ 1 \in 1 .. Len(s)
<1>1. 1 \in 1 .. Len(s)
  BY DEF Itineraries
<1> QED
  BY <1>1, ItineraryIs

LEMMA NoPlanTyped == NoPlan \in Terms
<1>1. <<>> \in Seq([lower : Int, upper : Int, liquidity : Nat])
  OBVIOUS
<1> QED
  BY <1>1 DEF NoPlan, Terms

LEMMA ExitRunIs ==
  ASSUME NEW run \in ExitRun
  PROVE  run # None /\ DOMAIN run = RunFields
<1>1. run.steps \in Seq(Kinds)
  BY ItineraryHas DEF ExitRun
<1>2. run \in Run
  <2>1. /\ run.atomic \in BOOLEAN /\ run.mined \in BOOLEAN
        /\ run.cancelled \in BOOLEAN
    BY DEF ExitRun
  <2>2. run.of \in Ask \cup {None} /\ run.terms \in Terms /\ run.stage \in Stages
    BY NoPlanTyped DEF ExitRun
  <2>3. run.wrap \in Nat /\ run.at \in Nat /\ run.try \in Nat
    BY DEF ExitRun
  <2>4. run = [steps |-> run.steps, atomic |-> run.atomic, of |-> run.of, terms |-> run.terms,
               wrap |-> run.wrap, at |-> run.at, stage |-> run.stage,
               try |-> run.try, mined |-> run.mined, cancelled |-> run.cancelled]
    BY DEF ExitRun
  <2> QED
    BY <1>1, <2>1, <2>2, <2>3, <2>4, Zenon DEF Run, Stages
<1>3. DOMAIN run = RunFields
  BY DEF ExitRun, RunFields
<1> QED
  BY <1>2, <1>3, WebAssumption

(* A stepper that is stopped or fails has done what it has done.           *)
Alike(run, before) ==
  /\ run.steps = before.steps /\ run.at = before.at /\ run.try = before.try
  /\ run.mined = before.mined /\ run.stage \in {before.stage, "failed", "stopped"}

LEMMA OnTheWayKept ==
  ASSUME NEW r \in Runs, OnTheWay(r), runs'[r] \in ExitRun, Alike(runs'[r], runs[r]),
         UNCHANGED <<mempool, chain>>, Selling' = Selling
  PROVE  OnTheWay(r)'
<1>1. Doing(r)' = Doing(r) /\ (Confirmed(r)' => Confirmed(r)) /\ (Covered(r)' => Covered(r))
  BY DEF Alike, Doing, Confirmed, Covered
<1>2. r \notin chain.refused => Unrefused(r)'
  BY <1>1 DEF OnTheWay, Unrefused, Alike
<1> QED
  BY <1>1, <1>2 DEF OnTheWay, Alike

(* What waits is of the same steps.                                        *)
SellingKept == UNCHANGED mempool /\ \A k \in DOMAIN mempool : Doing(mempool[k].run)' = Doing(mempool[k].run)

LEMMA SellingSame == ASSUME SellingKept PROVE Selling' = Selling
  BY DEF SellingKept, Selling, Doing

LEMMA HiddenExit ==
  ASSUME runs \in [Runs -> ExitRun \cup {None}], NEW h, h # None => h \in Runs /\ runs[h] # None
  PROVE  /\ Hidden(runs, h) \in [Runs -> ExitRun \cup {None}]
         /\ \A q \in Runs : IF runs[q] = None THEN Hidden(runs, h)[q] = None
                            ELSE Hidden(runs, h)[q] \in ExitRun /\ Alike(Hidden(runs, h)[q], runs[q])
<1>1. CASE h = None
  BY <1>1 DEF Hidden, Alike
<1>2. CASE h # None
  <2> DEFINE run == runs[h]
             after == [run EXCEPT !.cancelled = TRUE,
                                  !.stage = IF @ = "failed" THEN "stopped" ELSE @]
  <2>1. run \in ExitRun
    BY <1>2
  <2>2. after \in ExitRun
    BY <2>1 DEF ExitRun, Stages
  <2>3. Alike(after, run)
    BY <2>1 DEF ExitRun, Alike
  <2>4. Hidden(runs, h) = [runs EXCEPT ![h] = after]
    BY <1>2, <2>1 DEF Hidden, ExitRun
  <2> HIDE DEF after
  <2>5. \A q \in Runs \ {h} : Hidden(runs, h)[q] = runs[q]
    BY <2>4
  <2>6. \A q \in Runs \ {h} : Alike(runs[q], runs[q])
    BY DEF Alike
  <2> QED
    BY <1>2, <2>2, <2>3, <2>4, <2>5, <2>6
<1> QED
  BY <1>1, <1>2

LEMMA SignedHas ==
  ASSUME NEW txs \in Seq(Signed), NEW k \in DOMAIN txs
  PROVE  /\ txs[k] \in Signed /\ txs[k].run \in Runs /\ txs[k].try \in Nat /\ txs[k].amount \in Nat
         /\ DOMAIN txs = 1 .. Len(txs) /\ Len(txs) \in Nat /\ k \in 1 .. Len(txs)
<1>1. DOMAIN txs = 1 .. Len(txs) /\ Len(txs) \in Nat
  OBVIOUS
<1>2. txs[k] \in Signed
  BY <1>1, ElementOfSeq
<1> QED
  BY <1>1, <1>2 DEF Signed

(* Nothing is signed for a stepper that has not begun.                     *)
LEMMA FreshExit ==
  ASSUME Exiting, NEW r \in Fresh
  PROVE  r \in Runs /\ runs[r] = None /\ \A k \in DOMAIN mempool : mempool[k].run # r
  BY DEF Exiting, Fresh

(* A step of the screen that leaves the wallet and the chain alone: what   *)
(* it starts is at its beginning, and the rest is as it was.               *)
LEMMA ExitingQuiet ==
  ASSUME Exiting, UNCHANGED <<mempool, chain>>, runs' \in [Runs -> ExitRun \cup {None}],
         hosted' # None => hosted' \in Runs /\ runs'[hosted'] # None, SellingKept,
         \A r \in Runs : runs[r] # None =>
           runs'[r] # None /\ (Alike(runs'[r], runs[r]) \/ OnTheWay(r)'),
         \A r \in Runs : runs[r] = None /\ runs'[r] # None => OnTheWay(r)'
  PROVE  Exiting'
<1>1. \A k \in DOMAIN mempool : mempool[k].run \in Runs
  BY SignedHas DEF Exiting
<1>2. \A k \in DOMAIN mempool' : runs'[mempool'[k].run] # None
  BY <1>1 DEF Exiting
<1>3. ASSUME NEW r \in Runs, runs'[r] # None PROVE OnTheWay(r)'
  <2>1. CASE runs[r] = None
    BY <1>3, <2>1
  <2>2. CASE runs[r] # None
    <3>1. OnTheWay(r) /\ runs'[r] \in ExitRun
      BY <1>3, <2>2 DEF Exiting
    <3> QED
      BY <2>2, <3>1, OnTheWayKept, SellingSame
  <2> QED
    BY <2>1, <2>2
<1> QED
  BY <1>2, <1>3 DEF Exiting

LEMMA NewExit ==
  ASSUME NEW steps \in Itineraries
  PROVE  NewRun(steps, FALSE, None, 0) \in ExitRun
  BY DEF NewRun, ExitRun, Stages

(* Where an exit starts nothing is approved or sold yet, and a sale starts *)
(* when the position is closed.                                            *)
LEMMA NewOnTheWay ==
  ASSUME Exiting, NEW r \in Fresh, NEW steps \in Itineraries, UNCHANGED <<mempool, chain>>,
         runs'[r] = NewRun(steps, FALSE, None, 0),
         steps[1] = "approveRouter" => chain.closed
  PROVE  OnTheWay(r)'
<1>1. /\ runs'[r].steps = steps /\ runs'[r].at = 1 /\ runs'[r].stage = "wallet" /\ ~runs'[r].mined
  BY DEF NewRun
<1>2. 1 \in 1 .. Len(steps) /\ steps[1] # "swap"
  BY DEF Itineraries
<1>3. \A k \in DOMAIN mempool : mempool[k].run # r
  BY FreshExit
<1> QED
  BY <1>1, <1>2, <1>3 DEF OnTheWay, Unrefused, Covered, Doing, Confirmed

(* What has signed goes on with the same step.                             *)
LEMMA SellingGoesOn ==
  ASSUME Exiting, UNCHANGED mempool, \A q \in Runs : runs[q] # None => Alike(runs'[q], runs[q])
  PROVE  SellingKept
<1>1. ASSUME NEW k \in DOMAIN mempool PROVE Doing(mempool[k].run)' = Doing(mempool[k].run)
  <2>1. mempool[k].run \in Runs /\ runs[mempool[k].run] # None
    BY SignedHas DEF Exiting
  <2> QED
    BY <2>1 DEF Alike, Doing
<1> QED
  BY <1>1 DEF SellingKept

LEMMA ExitingStarts ==
  ASSUME Exiting, NEW r \in Fresh, NEW steps \in Itineraries, UNCHANGED <<mempool, chain>>,
         steps[1] = "approveRouter" => chain.closed,
         \/ Show(r, NewRun(steps, FALSE, None, 0))
         \/ runs' = [runs EXCEPT ![r] = NewRun(steps, FALSE, None, 0)] /\ UNCHANGED hosted
  PROVE  Exiting'
<1> DEFINE run == NewRun(steps, FALSE, None, 0)
<1>1. r \in Runs /\ runs[r] = None
  BY FreshExit
<1>2. run \in ExitRun /\ run # None
  BY NewExit, ExitRunIs
<1>3. runs \in [Runs -> ExitRun \cup {None}]
  BY DEF Exiting
<1> HIDE DEF run
<1>4. CASE Show(r, run)
  <2>1. /\ Hidden(runs, hosted) \in [Runs -> ExitRun \cup {None}]
        /\ \A q \in Runs : IF runs[q] = None THEN Hidden(runs, hosted)[q] = None
                           ELSE Hidden(runs, hosted)[q] \in ExitRun /\ Alike(Hidden(runs, hosted)[q], runs[q])
    <3>1. hosted # None => hosted \in Runs /\ runs[hosted] # None
      BY DEF Exiting
    <3> QED
      BY <1>3, <3>1, HiddenExit
  <2>2. runs' = [Hidden(runs, hosted) EXCEPT ![r] = run] /\ hosted' = r
    BY <1>4 DEF Show
  <2>3. runs' \in [Runs -> ExitRun \cup {None}] /\ runs'[r] = run
    BY <1>1, <1>2, <2>1, <2>2
  <2>4. OnTheWay(r)'
    BY <2>3, NewOnTheWay DEF run
  <2>5. \A q \in Runs : runs[q] # None => runs'[q] # None /\ Alike(runs'[q], runs[q])
    BY <1>1, <2>1, <2>2, ExitRunIs
  <2>6. \A q \in Runs : runs[q] = None /\ runs'[q] # None => q = r
    BY <1>1, <2>1, <2>2
  <2> QED
    BY <1>1, <1>2, <2>2, <2>3, <2>4, <2>5, <2>6, SellingGoesOn, ExitingQuiet
<1>5. CASE runs' = [runs EXCEPT ![r] = run] /\ UNCHANGED hosted
  <2>1. runs' \in [Runs -> ExitRun \cup {None}] /\ runs'[r] = run
    BY <1>1, <1>2, <1>3, <1>5
  <2>2. OnTheWay(r)'
    BY <2>1, NewOnTheWay DEF run
  <2>3. \A q \in Runs : runs[q] # None => runs'[q] # None /\ Alike(runs'[q], runs[q])
    BY <1>1, <1>3, <1>5 DEF Alike
  <2>4. \A q \in Runs : runs[q] = None /\ runs'[q] # None => q = r
    BY <1>1, <1>3, <1>5
  <2>5. hosted' # None => hosted' \in Runs /\ runs'[hosted'] # None
    BY <1>5, <2>3 DEF Exiting
  <2> QED
    BY <1>5, <2>1, <2>2, <2>3, <2>4, <2>5, SellingGoesOn, ExitingQuiet
<1> QED
  BY <1>4, <1>5 DEF run

(* What changes is the stage of one stepper, or nothing.                   *)
LEMMA ExitingOne ==
  ASSUME Exiting, NEW r \in Runs, runs[r] # None, UNCHANGED <<mempool, chain, hosted>>,
         NEW after \in ExitRun, runs' = [runs EXCEPT ![r] = after],
         Alike(after, runs[r]) \/ (OnTheWay(r)' /\ SellingKept)
  PROVE  Exiting'
<1>1. runs \in [Runs -> ExitRun \cup {None}]
  BY DEF Exiting
<1>2. runs' \in [Runs -> ExitRun \cup {None}] /\ runs'[r] = after
  BY <1>1
<1>3. after # None
  BY ExitRunIs
<1>4. \A q \in Runs : runs[q] # None => runs'[q] # None /\ (Alike(runs'[q], runs[q]) \/ OnTheWay(q)')
  BY <1>1, <1>2, <1>3 DEF Alike
<1>5. \A q \in Runs : runs[q] = None /\ runs'[q] # None => OnTheWay(q)'
  BY <1>1, <1>2
<1>6. hosted' # None => hosted' \in Runs /\ runs'[hosted'] # None
  BY <1>4 DEF Exiting
<1>7. SellingKept
  <2>1. ASSUME Alike(after, runs[r]), NEW q \in Runs, runs[q] # None PROVE Alike(runs'[q], runs[q])
    BY <1>1, <1>2, <2>1 DEF Alike
  <2> QED
    BY <2>1, SellingGoesOn
<1> QED
  BY <1>2, <1>4, <1>5, <1>6, <1>7, ExitingQuiet

LEMMA ExitingStops ==
  ASSUME Exiting, NEW r \in Runs, Reject(r) \/ GiveUp(r)
  PROVE  Exiting'
<1>1. runs[r] # None /\ runs[r] \in ExitRun /\ UNCHANGED <<mempool, chain, hosted>>
  BY DEF Exiting, Reject, GiveUp
<1>2. PICK stage \in {"failed", "stopped"} : runs' = [runs EXCEPT ![r].stage = stage]
  BY DEF Reject, GiveUp
<1> DEFINE after == [runs[r] EXCEPT !.stage = stage]
<1>3. after \in ExitRun /\ Alike(after, runs[r])
  BY <1>1 DEF ExitRun, Stages, Alike
<1>4. runs' = [runs EXCEPT ![r] = after]
  BY <1>2
<1> HIDE DEF after
<1> QED
  BY <1>1, <1>3, <1>4, ExitingOne

LEMMA ExitingRetry ==
  ASSUME Exiting, NEW r \in Runs, Retry(r)
  PROVE  Exiting'
<1>1. /\ runs[r] # None /\ runs[r] \in ExitRun /\ UNCHANGED <<mempool, chain, hosted>>
      /\ OnTheWay(r) /\ mempool \in Seq(Signed)
  <2>1. hosted # None
    BY WebAssumption DEF Retry
  <2> QED
    BY <2>1 DEF Exiting, Retry
<1> DEFINE next == runs[r].try + 1
           after == [runs[r] EXCEPT !.stage = "wallet", !.try = next]
<1>2. runs' = [runs EXCEPT ![r] = after]
  BY <1>1 DEF Retry, ExitRun
<1>3. runs[r].try \in Nat /\ next \in Nat
  <2>1. runs[r].try \in Nat
    BY <1>1 DEF ExitRun
  <2> QED
    BY <2>1
<1>4. /\ after.steps = runs[r].steps /\ after.at = runs[r].at /\ after.mined = runs[r].mined
      /\ after.stage = "wallet" /\ after.try = runs[r].try + 1
  <2> HIDE DEF next
  <2>1. /\ after.steps = runs[r].steps /\ after.at = runs[r].at /\ after.mined = runs[r].mined
        /\ after.stage = "wallet" /\ after.try = next
    BY <1>1 DEF ExitRun
  <2> QED
    BY <2>1 DEF next
<1>5. after \in ExitRun
  <2> HIDE DEF next
  <2> QED
    BY <1>1, <1>3 DEF ExitRun, Stages
<1> HIDE DEF after
<1>6. runs'[r] = after
  BY <1>2 DEF Exiting
<1>7. \A k \in DOMAIN mempool : mempool[k].try \in Nat
  BY <1>1, SignedHas
<1>8. Doing(r)' = Doing(r) /\ ~Confirmed(r)' /\ (Covered(r)' => Covered(r))
  BY <1>4, <1>6 DEF Doing, Confirmed, Covered
<1>9. SellingKept
  <2>1. \A q \in Runs \ {r} : runs'[q] = runs[q]
    BY <1>2 DEF Exiting
  <2>2. \A k \in DOMAIN mempool : mempool[k].run \in Runs
    BY <1>1, SignedHas
  <2> QED
    BY <1>1, <1>8, <2>1, <2>2 DEF SellingKept, Doing
<1>10. r \notin chain.refused => Unrefused(r)'
  BY <1>1, <1>4, <1>6, <1>8, <1>9, SellingSame DEF OnTheWay, Unrefused
<1>11. OnTheWay(r)'
  BY <1>1, <1>3, <1>4, <1>6, <1>7, <1>10 DEF OnTheWay
<1> QED
  BY <1>1, <1>2, <1>5, <1>9, <1>11, ExitingOne

LEMMA ExitingCancel ==
  ASSUME Exiting, NEW r \in Runs, Cancel(r)
  PROVE  Exiting'
<1>1. runs \in [Runs -> ExitRun \cup {None}] /\ runs[r] # None
  BY WebAssumption DEF Exiting, Cancel
<1>2. /\ runs' \in [Runs -> ExitRun \cup {None}]
      /\ \A q \in Runs : IF runs[q] = None THEN runs'[q] = None
                         ELSE runs'[q] \in ExitRun /\ Alike(runs'[q], runs[q])
  BY <1>1, HiddenExit DEF Cancel
<1>3. UNCHANGED <<mempool, chain>> /\ hosted' = None
  BY DEF Cancel
<1> QED
  BY <1>2, <1>3, ExitRunIs, SellingGoesOn, ExitingQuiet

(* The wallet signs the next try of the step, which no older one of this   *)
(* stepper waits behind.                                                   *)
LEMMA ExitingSign ==
  ASSUME Exiting, NEW r \in Runs, Sign(r)
  PROVE  Exiting'
<1>1. /\ runs[r] # None /\ runs[r] \in ExitRun /\ runs[r].stage = "wallet"
      /\ OnTheWay(r) /\ mempool \in Seq(Signed) /\ UNCHANGED <<chain, hosted>>
      /\ runs \in [Runs -> ExitRun \cup {None}] /\ chain \in Chain
  BY DEF Exiting, Sign
<1> DEFINE after == [runs[r] EXCEPT !.stage = "mining", !.mined = FALSE]
           amount == AmountOf(runs[r])
           tx == [run |-> r, try |-> runs[r].try, amount |-> amount]
<1>2. runs' = [runs EXCEPT ![r] = after]
  BY <1>1 DEF Sign, ExitRun
<1>3. /\ after \in ExitRun /\ after.steps = runs[r].steps /\ after.at = runs[r].at /\ ~after.mined
      /\ after.stage = "mining" /\ after.try = runs[r].try
  BY <1>1 DEF ExitRun, Stages
<1>4. Doing(r) \in {"approveRouter", "swap"} => amount = chain.base
  BY <1>1 DEF AmountOf, Doing, ExitRun
<1>5. amount \in Nat
  <2>1. chain.base \in Nat
    BY <1>1 DEF Chain
  <2> QED
    BY <2>1 DEF AmountOf
<1>6. tx \in Signed
  <2>1. runs[r].try \in Nat
    BY <1>1 DEF ExitRun
  <2> QED
    BY <1>5, <2>1 DEF Signed
<1>7. mempool' = Append(mempool, tx) \/ mempool' = mempool
  BY DEF Sign
<1>8. tx.run = r /\ tx.try = runs[r].try /\ tx.amount = amount
  OBVIOUS
<1> HIDE DEF after, tx, amount
<1>9. runs'[r] = after /\ runs' \in [Runs -> ExitRun \cup {None}] /\ after # None
  BY <1>1, <1>2, <1>3, ExitRunIs
<1>10. \A q \in Runs \ {r} : runs'[q] = runs[q]
  BY <1>2, <1>1
<1>11. \A k \in DOMAIN mempool : /\ mempool[k].run \in Runs /\ mempool[k].try \in Nat
                                 /\ runs[mempool[k].run] # None
  BY <1>1, SignedHas DEF Exiting
<1>12. \A k \in DOMAIN mempool' : \/ k \in DOMAIN mempool /\ mempool'[k] = mempool[k]
                                  \/ k = Len(mempool) + 1 /\ mempool'[k] = tx
  BY <1>1, <1>6, <1>7
<1>13. mempool' \in Seq(Signed)
  BY <1>1, <1>6, <1>7
<1>14. \A k \in DOMAIN mempool : mempool[k].run = r => mempool[k].try < runs[r].try
  BY <1>1 DEF OnTheWay
<1>15. Len(mempool) \in Nat /\ DOMAIN mempool = 1 .. Len(mempool)
  BY <1>1
<1> DEFINE new == Len(mempool) + 1
<1>22. /\ \A q \in Runs : Doing(q)' = Doing(q)
       /\ \A k \in Selling' : \/ k \in Selling /\ mempool'[k] = mempool[k]
                              \/ k = new /\ mempool'[k] = tx /\ amount = chain.base
  <2>1. Doing(r)' = Doing(r)
    BY <1>3, <1>9 DEF Doing
  <2>2. \A q \in Runs : Doing(q)' = Doing(q)
    BY <1>10, <2>1 DEF Doing
  <2>3. ASSUME NEW k \in Selling'
        PROVE  \/ k \in Selling /\ mempool'[k] = mempool[k]
               \/ k = new /\ mempool'[k] = tx /\ amount = chain.base
    <3>1. k \in DOMAIN mempool' /\ Doing(mempool[k].run)' \in {"approveRouter", "swap"}
      BY <2>3 DEF Selling
    <3>2. CASE k \in DOMAIN mempool /\ mempool'[k] = mempool[k]
      BY <1>11, <2>2, <3>1, <3>2 DEF Selling
    <3>3. CASE k = new /\ mempool'[k] = tx
      BY <1>4, <1>8, <2>2, <3>1, <3>3
    <3> QED
      BY <1>12, <3>1, <3>2, <3>3
  <2> QED
    BY <2>2, <2>3
<1>23. chain.base \in Nat /\ chain.toRouter \in Nat
  BY <1>1 DEF Chain
(* A clause that what waits is about all of the base stays.               *)
<1>24. ASSUME NEW q \in Runs, q \notin chain.refused, Unrefused(q), Covered(q)' => Covered(q),
              Doing(q) = "swap" => (\A k \in DOMAIN mempool' :
                mempool'[k].run = q /\ chain.base # 0 => mempool'[k].amount = chain.base),
              Doing(q) = "swap" /\ (Confirmed(q)' \/ runs'[q].stage = "done") => chain.base = 0,
              Confirmed(q)' => Confirmed(q)
       PROVE  Unrefused(q)'
  <2>1. Doing(q)' = Doing(q) /\ UNCHANGED chain
    BY <1>1, <1>22
  <2>2. Doing(q) = "approveRouter" =>
          \A j \in DOMAIN mempool' : mempool'[j].run = q =>
            \A k \in Selling' : j <= k => mempool'[k].amount >= chain.base
    <3> SUFFICES ASSUME Doing(q) = "approveRouter", NEW j \in DOMAIN mempool', mempool'[j].run = q,
                        NEW k \in Selling', j <= k
                 PROVE  mempool'[k].amount >= chain.base
      OBVIOUS
    <3>1. CASE k = new /\ mempool'[k] = tx /\ amount = chain.base
      BY <1>8, <1>23, <3>1
    <3>2. CASE k \in Selling /\ mempool'[k] = mempool[k]
      <4>1. k \in 1 .. Len(mempool)
        BY <1>15, <3>2 DEF Selling
      <4>2. j \in DOMAIN mempool /\ mempool'[j] = mempool[j]
        BY <1>12, <1>15, <4>1
      <4> QED
        BY <1>24, <3>2, <4>2 DEF Unrefused
    <3> QED
      BY <1>22, <3>1, <3>2
  <2>3. Covered(q)' => /\ chain.toRouter >= chain.base
                       /\ \A k \in Selling' : mempool'[k].amount >= chain.base
    <3> SUFFICES ASSUME Covered(q)
                 PROVE  /\ chain.toRouter >= chain.base
                        /\ \A k \in Selling' : mempool'[k].amount >= chain.base
      BY <1>24
    <3>1. chain.toRouter >= chain.base /\ \A k \in Selling : mempool[k].amount >= chain.base
      BY <1>24 DEF Unrefused
    <3> QED
      BY <1>8, <1>22, <1>23, <3>1
  <2>4. /\ Doing(q) \in {"approveRouter", "swap"} => chain.closed
        /\ Doing(q) = "close" /\ Confirmed(q)' => chain.closed
    BY <1>24 DEF Unrefused
  <2> QED
    BY <1>24, <2>1, <2>2, <2>3, <2>4 DEF Unrefused
<1>16. OnTheWay(r)'
  <2>1. Doing(r)' = Doing(r) /\ ~Confirmed(r)' /\ runs'[r].stage = "mining"
    BY <1>3, <1>9 DEF Doing, Confirmed
  <2>2. runs[r].try \in Nat
    BY <1>1 DEF ExitRun
  <2>3. ASSUME NEW k \in DOMAIN mempool', mempool'[k].run = r
        PROVE  /\ mempool'[k].try <= runs[r].try
               /\ r \notin chain.refused /\ Doing(r) = "swap" /\ chain.base # 0
                    => mempool'[k].amount = chain.base
    <3>1. CASE k \in DOMAIN mempool /\ mempool'[k] = mempool[k]
      BY <1>1, <2>2, <2>3, <3>1 DEF OnTheWay, Unrefused
    <3>2. CASE mempool'[k] = tx
      BY <1>4, <1>8, <2>2, <3>2
    <3> QED
      BY <1>12, <3>1, <3>2
  <2>4. runs'[r].at \in 1 .. Len(runs'[r].steps)
    BY <1>1, <1>3, <1>9 DEF OnTheWay
  <2>5. r \notin chain.refused => Unrefused(r)'
    <3>1. Covered(r)' => Covered(r)
      BY <2>1 DEF Covered
    <3> QED
      BY <1>1, <1>24, <2>1, <2>3, <3>1 DEF OnTheWay
  <2> QED
    BY <1>1, <1>3, <1>9, <2>1, <2>3, <2>4, <2>5 DEF OnTheWay
<1>17. ASSUME NEW q \in Runs, q # r, runs'[q] # None PROVE OnTheWay(q)'
  <2>1. OnTheWay(q) /\ runs'[q] = runs[q]
    BY <1>10, <1>17 DEF Exiting
  <2>2. \A k \in DOMAIN mempool' : mempool'[k].run = q => k \in DOMAIN mempool /\ mempool'[k] = mempool[k]
    BY <1>8, <1>12, <1>17
  <2>3. Confirmed(q)' = Confirmed(q) /\ (Covered(q)' => Covered(q))
    BY <1>22, <2>1 DEF Confirmed, Covered
  <2>4. q \notin chain.refused => Unrefused(q)'
    <3> SUFFICES ASSUME q \notin chain.refused PROVE Unrefused(q)'
      OBVIOUS
    <3>1. Unrefused(q)
      BY <2>1 DEF OnTheWay
    <3>2. /\ Doing(q) = "swap" => (\A k \in DOMAIN mempool' :
               mempool'[k].run = q /\ chain.base # 0 => mempool'[k].amount = chain.base)
          /\ Doing(q) = "swap" /\ (Confirmed(q)' \/ runs'[q].stage = "done") => chain.base = 0
      BY <2>1, <2>2, <2>3, <3>1 DEF Unrefused
    <3> QED
      BY <1>24, <2>3, <3>1, <3>2
  <2> QED
    BY <1>1, <2>1, <2>2, <2>4 DEF OnTheWay
<1>18. ASSUME NEW j \in DOMAIN mempool', NEW k \in DOMAIN mempool', j < k,
              mempool'[j].run = mempool'[k].run
       PROVE  mempool'[j].try < mempool'[k].try
  <2>1. j \in DOMAIN mempool /\ mempool'[j] = mempool[j]
    <3>1. DOMAIN mempool' = 1 .. Len(mempool) \/ DOMAIN mempool' = 1 .. Len(mempool) + 1
      BY <1>1, <1>6, <1>7
    <3> QED
      BY <1>12, <1>15, <1>18, <3>1
  <2>2. CASE k \in DOMAIN mempool /\ mempool'[k] = mempool[k]
    BY <1>18, <2>1, <2>2 DEF Exiting
  <2>3. CASE mempool'[k] = tx
    BY <1>8, <1>14, <1>18, <2>1, <2>3
  <2> QED
    BY <1>12, <2>2, <2>3
<1>19. \A k \in DOMAIN mempool' : runs'[mempool'[k].run] # None
  BY <1>8, <1>9, <1>10, <1>11, <1>12
<1>20. hosted' # None => hosted' \in Runs /\ runs'[hosted'] # None
  BY <1>1, <1>9, <1>10 DEF Exiting
<1>21. \A q \in Runs : runs'[q] # None => OnTheWay(q)'
  BY <1>16, <1>17
<1> QED
  BY <1>1, <1>9, <1>13, <1>18, <1>19, <1>20, <1>21 DEF Exiting

(* A receipt is of the last try, so that nothing of this stepper is still  *)
(* to be mined.                                                            *)
LEMMA ExitingReceipt ==
  ASSUME Exiting, NEW r \in Runs, Receipt(r)
  PROVE  Exiting' /\ UNCHANGED screen
<1> DEFINE last == runs[r].at = Len(runs[r].steps)
           over == hosted # None /\ ~Alone(runs[r]) /\ Place(runs[hosted]) = Place(runs[r])
           off == IF over THEN hosted ELSE None
<1>1. /\ runs[r] # None /\ runs[r] \in ExitRun /\ runs[r].stage = "mining" /\ runs[r].mined
      /\ OnTheWay(r) /\ UNCHANGED <<mempool, chain>> /\ runs \in [Runs -> ExitRun \cup {None}]
  BY DEF Exiting, Receipt
<1>2. runs[r].of = None /\ runs[r].atomic = FALSE /\ runs[r].steps \in Itineraries /\ runs[r].at \in Nat
  BY <1>1 DEF ExitRun
<1>3. IF last
      THEN /\ hosted' = IF over THEN None ELSE hosted
           /\ runs' = [Hidden(runs, off) EXCEPT ![r].stage = "done"]
           /\ UNCHANGED screen
      ELSE /\ runs' = [runs EXCEPT ![r] =
                IF runs[r].cancelled THEN [runs[r] EXCEPT !.stage = "stopped"]
                ELSE [runs[r] EXCEPT !.stage = "wallet", !.at = @ + 1, !.try = 1]]
           /\ UNCHANGED <<screen, hosted>>
  BY <1>2, Zenon DEF Receipt
<1>4. \A k \in DOMAIN mempool : mempool[k].run # r
  BY <1>1 DEF OnTheWay
<1> HIDE DEF last, over
<1>8. ASSUME \A q \in Runs \ {r} : runs[q] # None => Alike(runs'[q], runs[q])
      PROVE  SellingKept
  <2>1. \A k \in DOMAIN mempool : mempool[k].run \in Runs \ {r} /\ runs[mempool[k].run] # None
    BY <1>4, SignedHas DEF Exiting
  <2> QED
    BY <1>1, <1>8, <2>1 DEF SellingKept, Alike, Doing
<1>5. CASE last
  <2> DEFINE rs == Hidden(runs, off)
             after == [rs[r] EXCEPT !.stage = "done"]
  <2>1. /\ rs \in [Runs -> ExitRun \cup {None}]
        /\ \A q \in Runs : IF runs[q] = None THEN rs[q] = None
                           ELSE rs[q] \in ExitRun /\ Alike(rs[q], runs[q])
    <3>1. off # None => off \in Runs /\ runs[off] # None
      BY DEF Exiting
    <3> QED
      BY <1>1, <3>1, HiddenExit
  <2>2. runs' = [rs EXCEPT ![r].stage = "done"] /\ (hosted' # None => hosted' = hosted)
    BY <1>3, <1>5
  <2> HIDE DEF rs, off
  <2>3. rs[r] \in ExitRun /\ Alike(rs[r], runs[r])
    BY <1>1, <2>1
  <2>4. runs' = [rs EXCEPT ![r] = after]
    BY <2>2
  <2>5. after \in ExitRun
    BY <2>3 DEF ExitRun, Stages
  <2>6. /\ after.steps = runs[r].steps /\ after.at = runs[r].at /\ after.mined = runs[r].mined
        /\ after.stage = "done" /\ after.try = runs[r].try
    BY <2>3 DEF ExitRun, Alike
  <2> HIDE DEF after
  <2>7. runs' \in [Runs -> ExitRun \cup {None}] /\ runs'[r] = after /\ after # None
    BY <2>1, <2>4, <2>5, ExitRunIs
  <2>9. \A q \in Runs \ {r} : runs'[q] = rs[q]
    BY <2>1, <2>4
  <2>14. SellingKept
    BY <1>8, <2>1, <2>9
  <2>15. Doing(r)' = Doing(r) /\ ~Confirmed(r)' /\ Confirmed(r) /\ (Covered(r)' => Covered(r))
    BY <1>1, <2>6, <2>7 DEF Doing, Confirmed, Covered
  <2>16. r \notin chain.refused => Unrefused(r)'
    BY <1>1, <1>4, <2>6, <2>7, <2>14, <2>15, SellingSame DEF OnTheWay, Unrefused
  <2>8. OnTheWay(r)'
    BY <1>1, <1>4, <1>5, <2>6, <2>7, <2>16 DEF OnTheWay, last
  <2>10. \A q \in Runs : runs[q] # None => runs'[q] # None /\ (Alike(runs'[q], runs[q]) \/ OnTheWay(q)')
    BY <2>1, <2>7, <2>8, <2>9, ExitRunIs
  <2>11. \A q \in Runs : runs[q] = None /\ runs'[q] # None => OnTheWay(q)'
    BY <2>1, <2>8, <2>9
  <2>12. hosted' # None => hosted' \in Runs /\ runs'[hosted'] # None
    BY <2>2, <2>10 DEF Exiting
  <2>13. UNCHANGED screen
    BY <1>3, <1>5
  <2> QED
    BY <1>1, <2>7, <2>10, <2>11, <2>12, <2>13, <2>14, ExitingQuiet
<1>6. CASE ~last /\ runs[r].cancelled
  <2> DEFINE after == [runs[r] EXCEPT !.stage = "stopped"]
  <2>1. after \in ExitRun /\ Alike(after, runs[r])
    BY <1>1 DEF ExitRun, Stages, Alike
  <2>2. runs' = [runs EXCEPT ![r] = after] /\ UNCHANGED <<hosted, screen>>
    BY <1>3, <1>6
  <2> HIDE DEF after
  <2> QED
    BY <1>1, <2>1, <2>2, ExitingOne
<1>7. CASE ~last /\ ~runs[r].cancelled
  <2> DEFINE next == runs[r].at + 1
             after == [runs[r] EXCEPT !.stage = "wallet", !.at = next, !.try = 1]
  <2>1. runs' = [runs EXCEPT ![r] = after] /\ UNCHANGED <<hosted, screen>>
    BY <1>3, <1>7
  <2>2. next \in Nat
    BY <1>2
  <2>3. after \in ExitRun
    <3> HIDE DEF next
    <3> QED
      BY <1>1, <2>2 DEF ExitRun, Stages
  <2>4. /\ after.steps = runs[r].steps /\ after.at = next /\ after.stage = "wallet"
    <3> HIDE DEF next
    <3> QED
      BY <1>1 DEF ExitRun
  <2> HIDE DEF after
  <2>5. runs'[r] = after
    BY <1>1, <2>1
  <2>6. runs[r].at \in 1 .. Len(runs[r].steps) /\ runs[r].at # Len(runs[r].steps)
    BY <1>1, <1>7 DEF OnTheWay, last
  <2>7. next \in 1 .. Len(runs[r].steps)
    BY <1>2, <2>6, ItineraryHas
  <2>8. \/ Doing(r) = "close" /\ Doing(r)' = "approveRouter"
        \/ Doing(r) = "approveRouter" /\ Doing(r)' = "swap"
    BY <1>2, <2>4, <2>5, <2>6, ItineraryIs DEF Doing
  <2>9. SellingKept
    <3>1. \A q \in Runs \ {r} : runs'[q] = runs[q]
      BY <1>1, <2>1
    <3> QED
      BY <1>8, <3>1 DEF Alike
  <2>11. ASSUME r \notin chain.refused PROVE Unrefused(r)'
    <3>1. chain.closed /\ (Doing(r)' = "swap" => /\ chain.toRouter >= chain.base
                                                 /\ \A k \in Selling : mempool[k].amount >= chain.base)
      BY <1>1, <2>8, <2>11 DEF OnTheWay, Unrefused, Covered, Confirmed
    <3>2. ~Confirmed(r)' /\ runs'[r].stage # "done" /\ (Covered(r)' => Doing(r)' = "swap")
      BY <2>4, <2>5 DEF Confirmed, Covered
    <3> QED
      BY <1>1, <1>4, <2>8, <2>9, <3>1, <3>2, SellingSame DEF Unrefused
  <2>10. OnTheWay(r)'
    BY <1>1, <1>4, <2>4, <2>5, <2>7, <2>11 DEF OnTheWay
  <2> QED
    BY <1>1, <2>1, <2>3, <2>9, <2>10, ExitingOne
<1> QED
  BY <1>5, <1>6, <1>7

-----------------------------------------------------------------------------
(* What the chain does to an exit.                                         *)

LEMMA AtMostBoth ==
  ASSUME NEW m \in Nat, NEW n \in Nat, NEW amount \in Nat
  PROVE  amount > Min({m, n}) <=> amount > m \/ amount > n
<1> DEFINE T == {m, n}
<1>1. T \in SUBSET Nat /\ T # {} /\ m \in T /\ n \in T
  OBVIOUS
<1>2. PICK least \in T : \A j \in T : least <= j
  BY <1>1, Least
<1>3. Min(T) \in T /\ \A j \in T : Min(T) <= j
  BY <1>2 DEF Min
<1>4. Min(T) = m \/ Min(T) = n
  BY <1>3
<1> HIDE DEF T
<1>5. Min(T) <= m /\ Min(T) <= n
  BY <1>1, <1>3
<1> QED
  BY <1>4, <1>5 DEF T

ChainFields == {"native", "quote", "base", "toQuote", "toBase", "toRouter", "granted", "opened",
                "closed", "refused"}

(* A transaction of an exit keeps the rest of the chain as it was.         *)
Moved(base, toRouter) == [chain EXCEPT !.base = base, !.toRouter = toRouter]
MovedAndClosed(base, toRouter) ==
  [chain EXCEPT !.base = base, !.toRouter = toRouter, !.closed = TRUE]

LEMMA ChainMoves ==
  ASSUME chain \in Chain, NEW base \in Nat, NEW toRouter \in Nat,
         NEW c, c = Moved(base, toRouter) \/ c = MovedAndClosed(base, toRouter)
  PROVE  /\ c \in Chain /\ c # None
         /\ c.base = base /\ c.toRouter = toRouter /\ c.refused = chain.refused
         /\ c = Moved(base, toRouter) => c.closed = chain.closed
         /\ c = MovedAndClosed(base, toRouter) => c.closed
<1>1. CASE c = Moved(base, toRouter)
  <2>1. c \in Chain
    BY <1>1 DEF Chain, Moved
  <2>2. c.base = base /\ c.toRouter = toRouter /\ c.refused = chain.refused /\ c.closed = chain.closed
    BY <1>1 DEF Chain, Moved
  <2>3. c = MovedAndClosed(base, toRouter) => c.closed
    BY DEF Chain, MovedAndClosed
  <2> QED
    BY <2>1, <2>2, <2>3, WebAssumption
<1>2. CASE c = MovedAndClosed(base, toRouter)
  <2>1. c \in Chain
    BY <1>2 DEF Chain, MovedAndClosed
  <2>2. c.base = base /\ c.toRouter = toRouter /\ c.refused = chain.refused /\ c.closed
    BY <1>2 DEF Chain, MovedAndClosed
  <2>3. c = Moved(base, toRouter) => c.closed = chain.closed
    BY DEF Chain, Moved
  <2> QED
    BY <2>1, <2>2, <2>3, WebAssumption
<1> QED
  BY <1>1, <1>2

(* What a transaction of an exit comes to.  None of them reverts but a     *)
(* second close and a sale without cover.                                  *)
LEMMA ExitDoes ==
  ASSUME chain \in Chain, NEW r \in Runs, runs[r] \in ExitRun, NEW amount \in Nat, NEW tick,
         runs[r].at \in 1 .. Len(runs[r].steps),
         NEW c, c = DoRun(chain, r, amount, tick)
  PROVE  /\ c # None => c \in Chain /\ c.refused = chain.refused
         /\ Doing(r) \in {"close", "closeZap"} =>
              IF chain.closed THEN c = None
              ELSE c # None /\ c.closed
         /\ Doing(r) = "approveRouter" =>
              /\ c # None
              /\ c.closed = chain.closed /\ c.base = chain.base /\ c.toRouter = amount
         /\ Doing(r) = "swap" =>
              IF amount > chain.toRouter \/ amount > chain.base THEN c = None
              ELSE /\ c # None /\ c.closed = chain.closed /\ c.base = chain.base - amount
                   /\ c.toRouter = chain.toRouter - amount
<1>1. c = Do(chain, r, Doing(r), amount, tick)
  BY DEF DoRun, Doing, ExitRun
<1>2. Doing(r) \in {"close", "closeZap", "approveRouter", "swap"}
  BY ItineraryIs DEF Doing, ExitRun
<1>3. /\ chain.base \in Nat /\ chain.toRouter \in Nat /\ Payout \in Nat
  BY WebAssumption DEF Chain
<1>4. chain.closed \in BOOLEAN /\ chain.refused \in SUBSET Runs
  BY DEF Chain
<1>5. CASE Doing(r) = "close"
  <2> DEFINE d == MovedAndClosed(chain.base + Payout, chain.toRouter)
  <2>1. c = IF chain.closed THEN None ELSE [chain EXCEPT !.closed = TRUE, !.base = @ + Payout]
    BY <1>1, <1>5 DEF Do
  <2>2. [chain EXCEPT !.closed = TRUE, !.base = @ + Payout] = d
    BY DEF Chain, MovedAndClosed
  <2>3. chain.base + Payout \in Nat
    BY <1>3
  <2>4. d \in Chain /\ d # None /\ d.closed /\ d.refused = chain.refused
    BY <1>3, <2>3, ChainMoves
  <2> HIDE DEF d
  <2> QED
    BY <1>5, <2>1, <2>2, <2>4
<1>6. CASE Doing(r) = "closeZap"
  <2> DEFINE d == MovedAndClosed(chain.base, chain.toRouter)
  <2>1. c = IF chain.closed THEN None ELSE [chain EXCEPT !.closed = TRUE]
    BY <1>1, <1>6 DEF Do
  <2>2. [chain EXCEPT !.closed = TRUE] = d
    BY DEF Chain, MovedAndClosed
  <2>3. d \in Chain /\ d # None /\ d.closed /\ d.refused = chain.refused
    BY <1>3, ChainMoves
  <2> HIDE DEF d
  <2> QED
    BY <1>6, <2>1, <2>2, <2>3
<1>7. CASE Doing(r) = "approveRouter"
  <2> DEFINE d == Moved(chain.base, amount)
  <2>1. c = [chain EXCEPT !.toRouter = amount]
    BY <1>1, <1>7 DEF Do
  <2>2. c = d
    BY <2>1 DEF Chain, Moved
  <2>3. /\ d \in Chain /\ d # None /\ d.closed = chain.closed /\ d.refused = chain.refused
        /\ d.base = chain.base /\ d.toRouter = amount
    BY <1>3, ChainMoves
  <2> HIDE DEF d
  <2> QED
    BY <1>7, <2>2, <2>3
<1>8. CASE Doing(r) = "swap"
  <2> DEFINE d == Moved(chain.base - amount, chain.toRouter - amount)
  <2>1. c = IF amount > Min({chain.toRouter, chain.base}) THEN None
            ELSE [chain EXCEPT !.toRouter = @ - amount, !.base = @ - amount]
    BY <1>1, <1>8 DEF Do
  <2>2. CASE amount > chain.toRouter \/ amount > chain.base
    BY <1>3, <1>8, <2>1, <2>2, AtMostBoth
  <2>3. CASE ~(amount > chain.toRouter \/ amount > chain.base)
    <3>1. chain.base - amount \in Nat /\ chain.toRouter - amount \in Nat
      BY <1>3, <2>3
    <3>2. c = [chain EXCEPT !.toRouter = @ - amount, !.base = @ - amount]
      BY <1>3, <2>1, <2>3, AtMostBoth
    <3>3. c = d
      BY <3>2 DEF Chain, Moved
    <3>4. /\ d \in Chain /\ d # None /\ d.closed = chain.closed /\ d.refused = chain.refused
          /\ d.base = chain.base - amount /\ d.toRouter = chain.toRouter - amount
      BY <3>1, ChainMoves
    <3> HIDE DEF d
    <3> QED
      BY <1>8, <2>3, <3>3, <3>4
  <2> QED
    BY <2>2, <2>3
<1> QED
  BY <1>2, <1>5, <1>6, <1>7, <1>8

(* Once the position is closed no base comes in, and a sale of it, or of   *)
(* more, that the router is covered for sells all of it or nothing.        *)
LEMMA ExitMined ==
  ASSUME chain \in Chain, NEW r \in Runs, runs[r] \in ExitRun, OnTheWay(r), NEW amount \in Nat,
         NEW refused \in BOOLEAN, refused => MayRevert(runs[r]), NEW tick,
         NEW c, c = IF refused THEN None ELSE DoRun(chain, r, amount, tick),
         chain' = IF c # None THEN c
                  ELSE [chain EXCEPT !.refused =
                          @ \cup (IF refused /\ runs[r].of = None THEN {r} ELSE {})]
  PROVE  /\ chain' \in Chain
         /\ chain.refused \subseteq chain'.refused
         /\ chain.closed => chain'.closed /\ chain'.base <= chain.base
         /\ Doing(r) = "close" => chain'.closed \/ r \in chain'.refused
         /\ chain.closed /\ Doing(r) \notin {"approveRouter", "swap"} =>
              chain'.base = chain.base /\ chain'.toRouter = chain.toRouter
         /\ Doing(r) = "approveRouter" => chain'.base = chain.base /\ chain'.toRouter = amount
         /\ Doing(r) = "swap" /\ amount >= chain.base =>
              chain'.base = 0 \/ (chain'.base = chain.base /\ chain'.toRouter = chain.toRouter)
         /\ Doing(r) = "swap" /\ amount = chain.base /\ chain.toRouter >= chain.base =>
              chain'.base = 0 \/ r \in chain'.refused
<1>1. runs[r].at \in 1 .. Len(runs[r].steps) /\ runs[r].of = None /\ runs[r].atomic = FALSE
  BY DEF OnTheWay, ExitRun
<1>2. Doing(r) \in {"close", "closeZap", "approveRouter", "swap"}
  BY <1>1, ItineraryIs DEF Doing, ExitRun
<1>3. refused => Doing(r) \in {"close", "closeZap", "swap"}
  BY <1>1, <1>2 DEF MayRevert, Doing
<1>4. chain.base \in Nat /\ chain.toRouter \in Nat /\ chain.refused \in SUBSET Runs
  BY DEF Chain
<1>7. CASE c = None
  <2>1. /\ chain' \in Chain /\ chain'.closed = chain.closed /\ chain'.base = chain.base
        /\ chain'.toRouter = chain.toRouter
        /\ chain'.refused = chain.refused \cup (IF refused THEN {r} ELSE {})
    <3> DEFINE told == chain.refused \cup (IF refused THEN {r} ELSE {})
    <3>1. told \in SUBSET Runs
      BY <1>4
    <3>2. chain' = [chain EXCEPT !.refused = told]
      BY <1>1, <1>7
    <3> HIDE DEF told
    <3>3. /\ chain' \in Chain /\ chain'.closed = chain.closed /\ chain'.base = chain.base
          /\ chain'.toRouter = chain.toRouter /\ chain'.refused = told
      BY <3>1, <3>2 DEF Chain
    <3> QED
      BY <3>3 DEF told
  <2>3. CASE refused
    BY <1>3, <1>4, <2>1, <2>3
  <2>4. CASE ~refused
    <3>1. DoRun(chain, r, amount, tick) = None
      BY <1>7, <2>4
    <3>2. /\ Doing(r) \in {"close", "closeZap"} => chain.closed
          /\ Doing(r) # "approveRouter"
          /\ Doing(r) = "swap" => amount > chain.toRouter \/ amount > chain.base
      BY <1>1, <1>2, <3>1, ExitDoes
    <3> QED
      BY <1>4, <2>1, <3>2
  <2> QED
    BY <2>3, <2>4
<1>8. CASE c # None
  <2>1. c = DoRun(chain, r, amount, tick) /\ chain' = c
    BY <1>8
  <2>2. chain' \in Chain /\ chain'.refused = chain.refused
    BY <1>1, <1>8, <2>1, ExitDoes
  <2>3. CASE Doing(r) \in {"close", "closeZap"}
    <3>1. ~chain.closed /\ chain'.closed
      BY <1>1, <1>8, <2>1, <2>3, ExitDoes
    <3> QED
      BY <2>2, <2>3, <3>1
  <2>4. CASE Doing(r) = "approveRouter"
    <3>1. chain'.closed = chain.closed /\ chain'.base = chain.base /\ chain'.toRouter = amount
      BY <1>1, <1>8, <2>1, <2>4, ExitDoes
    <3> QED
      BY <1>4, <2>2, <2>4, <3>1
  <2>5. CASE Doing(r) = "swap"
    <3>1. /\ chain'.closed = chain.closed /\ chain'.base = chain.base - amount
          /\ ~(amount > chain.base)
      BY <1>1, <1>8, <2>1, <2>5, ExitDoes
    <3>2. chain'.base <= chain.base /\ (amount >= chain.base => chain'.base = 0)
      BY <1>4, <3>1
    <3> QED
      BY <2>2, <2>5, <3>1, <3>2
  <2> QED
    BY <1>2, <2>3, <2>4, <2>5
<1> QED
  BY <1>7, <1>8

LEMMA ExitingMine ==
  ASSUME Exiting, Mine
  PROVE  Exiting' /\ UNCHANGED screen
<1> DEFINE tx == Head(mempool)
           r == tx.run
<1>1. /\ mempool \in Seq(Signed) /\ mempool # <<>> /\ chain \in Chain
      /\ runs \in [Runs -> ExitRun \cup {None}] /\ mempool' = Tail(mempool)
      /\ UNCHANGED <<screen, hosted>>
  BY DEF Exiting, Mine
<1>2. 1 \in DOMAIN mempool /\ tx = mempool[1] /\ Len(mempool) \in Nat /\ DOMAIN mempool = 1 .. Len(mempool)
  BY <1>1
<1>3. /\ r \in Runs /\ tx.try \in Nat /\ tx.amount \in Nat
  BY <1>1, <1>2, SignedHas
<1>4. runs[r] # None /\ runs[r] \in ExitRun /\ OnTheWay(r)
  BY <1>1, <1>2, <1>3 DEF Exiting
<1>5. ~runs[r].mined /\ tx.try <= runs[r].try
  BY <1>2, <1>4 DEF OnTheWay
<1>6. PICK tick \in runs[r].terms.anchor - 1 .. runs[r].terms.anchor + 1,
           refused \in IF MayRevert(runs[r]) THEN BOOLEAN ELSE {FALSE} :
        Mined(tx, runs[r], refused, IF refused THEN None ELSE DoRun(chain, r, tx.amount, tick))
  BY DEF Mine
<1> DEFINE c == IF refused THEN None ELSE DoRun(chain, r, tx.amount, tick)
           after == [runs[r] EXCEPT !.mined = tx.try = runs[r].try]
<1>7. refused \in BOOLEAN /\ (refused => MayRevert(runs[r]))
  OBVIOUS
<1>8. chain' = IF c # None THEN c
               ELSE [chain EXCEPT !.refused =
                       @ \cup (IF refused /\ runs[r].of = None THEN {r} ELSE {})]
  BY <1>6 DEF Mined
<1>9. runs' = [runs EXCEPT ![r] = after]
  BY <1>4, <1>5, <1>6 DEF Mined, ExitRun
<1>10. /\ after \in ExitRun /\ after.steps = runs[r].steps /\ after.at = runs[r].at
       /\ after.stage = runs[r].stage /\ after.try = runs[r].try
       /\ after.mined <=> tx.try = runs[r].try
  BY <1>4 DEF ExitRun
<1> HIDE DEF c
<1>11. /\ chain' \in Chain
       /\ chain.refused \subseteq chain'.refused
       /\ chain.closed => chain'.closed /\ chain'.base <= chain.base
       /\ Doing(r) = "close" => chain'.closed \/ r \in chain'.refused
       /\ chain.closed /\ Doing(r) \notin {"approveRouter", "swap"} =>
            chain'.base = chain.base /\ chain'.toRouter = chain.toRouter
       /\ Doing(r) = "approveRouter" => chain'.base = chain.base /\ chain'.toRouter = tx.amount
       /\ Doing(r) = "swap" /\ tx.amount >= chain.base =>
            chain'.base = 0 \/ (chain'.base = chain.base /\ chain'.toRouter = chain.toRouter)
       /\ Doing(r) = "swap" /\ tx.amount = chain.base /\ chain.toRouter >= chain.base =>
            chain'.base = 0 \/ r \in chain'.refused
  <2>1. c = IF refused THEN None ELSE DoRun(chain, r, tx.amount, tick)
    BY DEF c
  <2> HIDE DEF tx, r, after
  <2> QED
    BY <1>1, <1>3, <1>4, <1>7, <1>8, <2>1, ExitMined
<1>12. mempool' \in Seq(Signed) /\ \A k \in DOMAIN mempool' :
         k \in Nat /\ k + 1 \in DOMAIN mempool /\ k + 1 > 1 /\ mempool'[k] = mempool[k + 1]
  BY <1>1
<1>13. \A k \in DOMAIN mempool' : mempool'[k].run = r => mempool'[k].try > tx.try
  <2>1. \A j \in DOMAIN mempool : 1 < j /\ mempool[1].run = mempool[j].run
          => mempool[1].try < mempool[j].try
    BY <1>2 DEF Exiting
  <2>2. \A k \in DOMAIN mempool : mempool[k].try \in Nat
    BY <1>1, SignedHas
  <2> QED
    BY <1>2, <1>3, <1>12, <2>1, <2>2
<1>20. tx = mempool[1] /\ r = mempool[1].run /\ tx.amount = mempool[1].amount
  BY <1>2
<1> HIDE DEF tx, r, after
<1>14. /\ runs' \in [Runs -> ExitRun \cup {None}] /\ runs'[r] = after /\ after # None
       /\ \A q \in Runs \ {r} : runs'[q] = runs[q]
  BY <1>1, <1>3, <1>9, <1>10, ExitRunIs
<1>15. \A k \in DOMAIN mempool' : mempool'[k].run \in Runs /\ runs[mempool'[k].run] # None /\ mempool'[k].try \in Nat
  BY <1>1, <1>12, SignedHas DEF Exiting
<1>16. \A k \in DOMAIN mempool' : runs'[mempool'[k].run] # None
  BY <1>14, <1>15
<1>17. ASSUME NEW j \in DOMAIN mempool', NEW k \in DOMAIN mempool', j < k,
              mempool'[j].run = mempool'[k].run
       PROVE  mempool'[j].try < mempool'[k].try
  <2>1. j + 1 < k + 1
    BY <1>12, <1>17
  <2> QED
    BY <1>12, <1>17, <2>1 DEF Exiting
<1>21. \A q \in Runs : runs[q] # None => Doing(q)' = Doing(q)
  BY <1>10, <1>14 DEF Doing
<1>22. \A k \in Selling' : k + 1 \in Selling /\ mempool'[k].amount = mempool[k + 1].amount
  BY <1>12, <1>15, <1>21 DEF Selling
<1>23. Doing(r) \in {"approveRouter", "swap"} => 1 \in Selling
  BY <1>2, <1>20 DEF Selling
<1>24. /\ chain.base \in Nat /\ chain.toRouter \in Nat /\ chain'.base \in Nat /\ chain'.toRouter \in Nat
       /\ \A k \in DOMAIN mempool : mempool[k].amount \in Nat
  BY <1>1, <1>11, SignedHas DEF Chain
<1>25. ASSUME NEW q \in Runs, Unrefused(q), Covered(q)
       PROVE  /\ chain.closed /\ chain'.base \in {0, chain.base} /\ chain'.toRouter >= chain'.base
              /\ \A k \in Selling' : mempool'[k].amount >= chain'.base
  <2>1. /\ chain.closed /\ chain.toRouter >= chain.base
        /\ \A k \in Selling : mempool[k].amount >= chain.base
    BY <1>25 DEF Unrefused, Covered
  <2>2. chain'.base \in {0, chain.base} /\ chain'.toRouter >= chain'.base
    <3>1. Doing(r) \in {"approveRouter", "swap"} => tx.amount >= chain.base
      BY <1>20, <1>23, <2>1
    <3> QED
      BY <1>11, <1>24, <2>1, <3>1
  <2>3. ASSUME NEW k \in Selling' PROVE mempool'[k].amount >= chain'.base
    <3>1. mempool'[k].amount \in Nat /\ mempool'[k].amount >= chain.base
      BY <1>22, <1>24, <2>1 DEF Selling
    <3> QED
      BY <1>24, <2>2, <3>1
  <2> QED
    BY <2>1, <2>2, <2>3
<1>18. ASSUME NEW q \in Runs, runs'[q] # None PROVE OnTheWay(q)'
  <2>1. /\ runs[q] # None /\ runs'[q].steps = runs[q].steps /\ runs'[q].at = runs[q].at
        /\ runs'[q].stage = runs[q].stage /\ runs'[q].try = runs[q].try
        /\ q # r => runs'[q] = runs[q]
        /\ q = r => (runs'[q].mined <=> tx.try = runs[r].try)
    BY <1>4, <1>10, <1>14, <1>18
  <2>2. OnTheWay(q) /\ Doing(q)' = Doing(q)
    BY <2>1 DEF Exiting, Doing
  <2>4. ASSUME NEW k \in DOMAIN mempool', mempool'[k].run = q
        PROVE  /\ ~runs'[q].mined
               /\ mempool'[k].try <= runs[q].try
               /\ runs[q].stage = "wallet" => mempool'[k].try < runs[q].try
    <3>1. /\ ~runs[q].mined
          /\ mempool'[k].try <= runs[q].try
          /\ runs[q].stage = "wallet" => mempool'[k].try < runs[q].try
      BY <1>12, <2>2, <2>4 DEF OnTheWay
    <3>3. CASE q = r
      <4>1. mempool'[k].try > tx.try /\ mempool'[k].try \in Nat
        BY <1>13, <1>15, <2>4, <3>3
      <4>2. runs[r].try \in Nat
        BY <1>4 DEF ExitRun
      <4>3. tx.try # runs[r].try
        BY <1>3, <3>1, <3>3, <4>1, <4>2
      <4> QED
        BY <2>1, <3>1, <3>3, <4>3
    <3>4. CASE q # r
      BY <2>1, <3>1, <3>4
    <3> QED
      BY <3>3, <3>4
  <2>5. ASSUME q \notin chain'.refused PROVE Unrefused(q)'
    <3>1. Unrefused(q)
      BY <1>11, <2>2, <2>5 DEF OnTheWay
    <3>2. Confirmed(q)' => Confirmed(q) \/ q = r
      BY <2>1 DEF Confirmed
    <3>3. Doing(q) \in {"approveRouter", "swap"} => chain.closed /\ chain'.closed /\ chain'.base <= chain.base
      BY <1>11, <3>1 DEF Unrefused
    <3>4. Doing(q) = "close" /\ Confirmed(q)' => chain'.closed
      BY <1>11, <2>5, <3>1, <3>2 DEF Unrefused
    <3>5. ASSUME Doing(q) = "approveRouter", NEW j \in DOMAIN mempool', mempool'[j].run = q,
                 NEW k \in Selling', j <= k
          PROVE  mempool'[k].amount >= chain'.base
      <4>1. /\ j + 1 \in DOMAIN mempool /\ mempool[j + 1].run = q
            /\ k + 1 \in Selling /\ mempool'[k].amount = mempool[k + 1].amount /\ j + 1 <= k + 1
        BY <1>12, <1>22, <3>5 DEF Selling
      <4>2. mempool[k + 1].amount >= chain.base /\ mempool[k + 1].amount \in Nat
        BY <1>24, <3>1, <3>5, <4>1 DEF Unrefused, Selling
      <4> QED
        BY <1>24, <3>3, <3>5, <4>1, <4>2
    <3>6. ASSUME Covered(q)'
          PROVE  /\ chain'.toRouter >= chain'.base
                 /\ \A k \in Selling' : mempool'[k].amount >= chain'.base
      <4>1. CASE Covered(q)
        BY <1>25, <3>1, <4>1
      <4>2. CASE ~Covered(q)
        <5>1. Doing(q) = "approveRouter" /\ q = r
          BY <2>2, <3>2, <3>6, <4>2 DEF Covered
        <5>2. \A k \in Selling : 1 <= k => mempool[k].amount >= chain.base
          BY <1>2, <1>20, <3>1, <5>1 DEF Unrefused
        <5>3. \A k \in Selling : k \in 1 .. Len(mempool)
          BY <1>2 DEF Selling
        <5>4. \A k \in Selling : mempool[k].amount >= chain.base
          BY <1>2, <5>2, <5>3
        <5>5. chain'.base = chain.base /\ chain'.toRouter = tx.amount
          BY <1>11, <5>1
        <5> QED
          BY <1>20, <1>22, <1>23, <5>1, <5>4, <5>5
      <4> QED
        BY <4>1, <4>2
    <3>7. ASSUME Doing(q) = "swap"
          PROVE  /\ \A k \in DOMAIN mempool' :
                      mempool'[k].run = q /\ chain'.base # 0 => mempool'[k].amount = chain'.base
                 /\ Confirmed(q)' \/ runs[q].stage = "done" => chain'.base = 0
      <4>1. chain'.base \in {0, chain.base} /\ chain.toRouter >= chain.base
        BY <1>25, <3>1, <3>7 DEF Covered, Unrefused
      <4>2. \A k \in DOMAIN mempool : mempool[k].run = q /\ chain.base # 0 => mempool[k].amount = chain.base
        BY <3>1, <3>7 DEF Unrefused
      <4>3. Confirmed(q) \/ runs[q].stage = "done" => chain'.base = 0
        BY <3>1, <3>7, <4>1 DEF Unrefused
      <4>4. CASE q = r
        BY <1>2, <1>11, <1>12, <1>20, <2>5, <3>7, <4>1, <4>2, <4>4
      <4>5. CASE q # r
        BY <1>12, <3>2, <4>1, <4>2, <4>3, <4>5
      <4> QED
        BY <4>4, <4>5
    <3> QED
      BY <2>1, <2>2, <3>3, <3>4, <3>5, <3>6, <3>7 DEF Unrefused
  <2>6. /\ runs[q].at \in 1 .. Len(runs[q].steps)
        /\ runs[q].stage = "done" => runs[q].at = Len(runs[q].steps)
    BY <2>2 DEF OnTheWay
  <2> QED
    BY <2>1, <2>4, <2>5, <2>6 DEF OnTheWay
<1>19. hosted' # None => hosted' \in Runs /\ runs'[hosted'] # None
  BY <1>1, <1>14 DEF Exiting
<1> QED
  BY <1>1, <1>11, <1>12, <1>14, <1>16, <1>17, <1>18, <1>19 DEF Exiting

LEMMA ExitingStep ==
  ASSUME screen = "position", Exiting, [Next]_vars
  PROVE  Exiting' /\ UNCHANGED screen
<1>1. CASE UNCHANGED vars
  BY <1>1 DEF vars, Exiting, OnTheWay, Unrefused, Covered, Selling, Doing, Confirmed
<1>2. ASSUME NEW r \in Runs, Runs # {}, StartExit(r) PROVE Exiting' /\ UNCHANGED screen
  <2>1. r \in Fresh /\ UNCHANGED <<mempool, chain, screen>>
    BY <1>2 DEF StartExit
  <2>2. CASE UNCHANGED <<runs, hosted>>
    BY <2>1, <2>2 DEF Exiting, OnTheWay, Unrefused, Covered, Selling, Doing, Confirmed
  <2>3. CASE /\ runs' = [runs EXCEPT ![r] = NewRun(<<"closeZap">>, FALSE, None, 0)]
             /\ UNCHANGED hosted
    <3>1. <<"closeZap">> \in Itineraries /\ <<"closeZap">>[1] # "approveRouter"
      BY DEF Itineraries
    <3> QED
      BY <2>1, <2>3, <3>1, ExitingStarts
  <2>4. CASE Show(r, NewRun(<<"close", "approveRouter", "swap">>, FALSE, None, 0))
    <3>1. /\ <<"close", "approveRouter", "swap">> \in Itineraries
          /\ <<"close", "approveRouter", "swap">>[1] # "approveRouter"
      BY DEF Itineraries
    <3> QED
      BY <2>1, <2>4, <3>1, ExitingStarts
  <2> QED
    BY <1>2, <2>2, <2>3, <2>4 DEF StartExit
<1>3. ASSUME NEW r \in Runs, StartClose(r) PROVE Exiting' /\ UNCHANGED screen
  <2>1. <<"close">> \in Itineraries /\ <<"close">>[1] # "approveRouter"
    BY DEF Itineraries
  <2> QED
    BY <1>3, <2>1, ExitingStarts DEF StartClose
<1>4. ASSUME NEW r \in Runs, StartSell(r) PROVE Exiting' /\ UNCHANGED screen
  <2>1. <<"approveRouter", "swap">> \in Itineraries
    BY DEF Itineraries
  <2> QED
    BY <1>4, <2>1, ExitingStarts DEF StartSell
<1>5. CASE Click
  BY <1>5 DEF Click, Exiting, OnTheWay, Unrefused, Covered, Selling, Doing, Confirmed
<1>6. ASSUME NEW r \in Runs, Sign(r) \/ Reject(r) \/ GiveUp(r) \/ Retry(r) \/ Cancel(r)
      PROVE  Exiting' /\ UNCHANGED screen
  <2>1. UNCHANGED screen
    BY <1>6 DEF Sign, Reject, GiveUp, Retry, Cancel
  <2> QED
    BY <1>6, <2>1, ExitingSign, ExitingStops, ExitingRetry, ExitingCancel
<1>7. ASSUME NEW r \in Runs, Receipt(r) PROVE Exiting' /\ UNCHANGED screen
  BY <1>7, ExitingReceipt
<1>8. CASE Mine
  BY <1>8, ExitingMine
<1>9. ASSUME FormStep PROVE Exiting' /\ UNCHANGED screen
  <2>1. ASSUME NEW i \in tracked, ReplanFails(i) \/ Replanned(i) PROVE FALSE
    BY <2>1 DEF ReplanFails, Replanned, ShownAgain
  <2>2. ASSUME NEW i \in asked, Answered(i) PROVE FALSE
    BY <2>2 DEF Answered, Arrives
  <2>3. ASSUME NEW f \in Forms, Edit(f) PROVE FALSE
    BY <2>3 DEF Edit
  <2> QED
    BY <1>9, <2>1, <2>2, <2>3 DEF FormStep, Debounced, Replan, Read
<1>10. ASSUME NEW r \in Runs, StartOpen(r) \/ StartAgent(r) PROVE FALSE
  BY <1>10 DEF StartOpen, StartAgent
<1> QED
  BY <1>1, <1>2, <1>3, <1>4, <1>5, <1>6, <1>7, <1>8, <1>9, <1>10 DEF Next, StepperStep

-----------------------------------------------------------------------------
(* The other screens.                                                      *)

LEMMA EndsOpen ==
  ASSUME NEW s \in Seq(Kinds)
  PROVE  /\ s \o <<"open">> \in Seq(Kinds) /\ s \o <<"open">> # <<>>
         /\ (s \o <<"open">>)[Len(s \o <<"open">>)] = "open"
<1> DEFINE t == <<"open">>
<1>1. t \in Seq(Kinds) /\ Len(t) = 1 /\ t[1] = "open"
  BY DEF Kinds
<1> HIDE DEF t
<1>2. Len(s) \in Nat
  OBVIOUS
<1>3. s \o t \in Seq(Kinds) /\ Len(s \o t) = Len(s) + 1 /\ (s \o t)[Len(s) + 1] = t[1]
  <2>1. /\ s \o t \in Seq(Kinds) /\ Len(s \o t) = Len(s) + Len(t)
        /\ \A k \in 1 .. Len(s) + Len(t) :
             (s \o t)[k] = IF k <= Len(s) THEN s[k] ELSE t[k - Len(s)]
    BY <1>1, ConcatProperties
  <2>2. Len(s) + 1 \in 1 .. Len(s) + Len(t)
    BY <1>1, <1>2
  <2>3. (s \o t)[Len(s) + 1] = t[(Len(s) + 1) - Len(s)]
    BY <1>2, <2>1, <2>2
  <2>4. (Len(s) + 1) - Len(s) = 1
    BY <1>2
  <2> QED
    BY <1>1, <2>1, <2>3, <2>4
<1>4. s \o t # <<>>
  BY <1>2, <1>3
<1> QED
  BY <1>1, <1>3, <1>4 DEF t

LEMMA Optional ==
  ASSUME NEW step \in Kinds, NEW condition
  PROVE  If(condition, step) \in Seq(Kinds)
<1>1. <<step>> \in Seq(Kinds) /\ <<>> \in Seq(Kinds)
  OBVIOUS
<1> QED
  BY <1>1 DEF If

LEMMA OpenStepsEnd ==
  ASSUME NEW i, NEW p
  PROVE  /\ OpenSteps(i, p) \in Seq(Kinds) /\ OpenSteps(i, p) # <<>>
         /\ OpenSteps(i, p)[Len(OpenSteps(i, p))] = "open"
<1> DEFINE a == If(WrapAmount(i) > 0, "wrap")
           b == If(p.route = "router", "wing")
           d == If(p.route = "router", "approveBase")
           e == If(NeedQuoteApproval(p), "approveQuote")
           g == If(NeedBaseApproval(i, p), "approveBase")
<1>1. {"wrap", "wing", "approveBase", "approveQuote"} \subseteq Kinds
  BY DEF Kinds
<1>2. a \in Seq(Kinds) /\ b \in Seq(Kinds) /\ d \in Seq(Kinds) /\ e \in Seq(Kinds) /\ g \in Seq(Kinds)
  BY <1>1, Optional
<1>3. OpenSteps(i, p) = (a \o b \o d \o e \o g) \o <<"open">>
  BY DEF OpenSteps
<1> HIDE DEF a, b, d, e, g
<1>4. a \o b \o d \o e \o g \in Seq(Kinds)
  BY <1>2
<1> QED
  BY <1>3, <1>4, EndsOpen

LEMMA AgentStepsEnd ==
  ASSUME NEW p
  PROVE  /\ AgentSteps(p) \in Seq(Kinds) /\ AgentSteps(p) # <<>>
         /\ AgentSteps(p)[Len(AgentSteps(p))] = "open"
<1> DEFINE a == If(p.needsQuote > 0 /\ chain.toQuote < p.needsQuote, "approveQuote")
           b == If(p.needsBase > 0 /\ chain.toBase < p.needsBase, "approveBase")
           s == IF p.quoteIs0 THEN a \o b ELSE b \o a
<1>1. {"approveBase", "approveQuote"} \subseteq Kinds
  BY DEF Kinds
<1>2. a \in Seq(Kinds) /\ b \in Seq(Kinds)
  BY <1>1, Optional
<1>3. AgentSteps(p) = s \o <<"open">>
  BY DEF AgentSteps
<1>4. s \in Seq(Kinds)
  <2> HIDE DEF a, b
  <2>1. a \o b \in Seq(Kinds) /\ b \o a \in Seq(Kinds)
    BY <1>2
  <2> QED
    BY <2>1
<1> HIDE DEF s
<1> QED
  BY <1>3, <1>4, EndsOpen

LEMMA OpenRunKept ==
  ASSUME NEW run, OpenRun(run), NEW after, DOMAIN after = DOMAIN run, after.steps = run.steps,
         after.of = run.of, after.try \in Nat
  PROVE  OpenRun(after)
  BY DEF OpenRun

LEMMA NewOpen ==
  ASSUME NEW steps \in Seq(Kinds), steps # <<>>, steps[Len(steps)] = "open", NEW i \in Ask,
         NEW atomic, NEW wrap
  PROVE  OpenRun(NewRun(steps, atomic, i, wrap))
<1> DEFINE run == NewRun(steps, atomic, i, wrap)
<1>1. DOMAIN run = RunFields /\ run.steps = steps /\ run.of = i /\ run.try = 1
  BY DEF NewRun, RunFields
<1> HIDE DEF run
<1>2. OpenRun(run)
  BY <1>1 DEF OpenRun
<1> QED
  BY <1>2 DEF run

LEMMA HiddenOpen ==
  ASSUME DOMAIN runs = Runs, \A r \in Runs : runs[r] = None \/ OpenRun(runs[r]),
         NEW h, h # None => h \in Runs /\ OpenRun(runs[h])
  PROVE  /\ DOMAIN Hidden(runs, h) = Runs
         /\ \A r \in Runs : Hidden(runs, h)[r] = None \/ OpenRun(Hidden(runs, h)[r])
         /\ \A r \in Runs : OpenRun(runs[r]) => OpenRun(Hidden(runs, h)[r])
<1>1. CASE h = None
  BY <1>1 DEF Hidden
<1>2. CASE h # None
  <2> DEFINE run == runs[h]
             after == [run EXCEPT !.cancelled = TRUE,
                                  !.stage = IF @ = "failed" THEN "stopped" ELSE @]
  <2>1. OpenRun(run)
    BY <1>2
  <2>2. /\ DOMAIN after = DOMAIN run /\ after.steps = run.steps /\ after.of = run.of
        /\ after.try = run.try
    BY <2>1 DEF OpenRun, RunFields
  <2>3. Hidden(runs, h) = [runs EXCEPT ![h] = after]
    BY <1>2, <2>1 DEF Hidden, OpenRun, RunFields
  <2>4. run.try \in Nat
    BY <2>1 DEF OpenRun
  <2> HIDE DEF after, run
  <2>5. OpenRun(after)
    BY <2>1, <2>2, <2>4, OpenRunKept
  <2> QED
    BY <1>2, <2>3, <2>5
<1> QED
  BY <1>1, <1>2

LEMMA OpeningQuiet ==
  ASSUME Opening, UNCHANGED <<mempool, looking>>, DOMAIN runs' = Runs,
         \A r \in Runs : runs'[r] = None \/ OpenRun(runs'[r]),
         \A r \in Runs : OpenRun(runs[r]) => OpenRun(runs'[r]),
         hosted' # None => hosted' \in Runs /\ OpenRun(runs'[hosted'])
  PROVE  Opening'
<1>1. \A k \in DOMAIN mempool : mempool[k].run \in Runs /\ OpenRun(runs[mempool[k].run])
  BY SignedHas DEF Opening
<1> QED
  BY <1>1 DEF Opening

(* One stepper moves.                                                      *)
LEMMA OpeningOne ==
  ASSUME Opening, UNCHANGED <<mempool, looking>>, NEW r \in Runs, NEW after, OpenRun(after),
         runs' = [runs EXCEPT ![r] = after], hosted' \in {None, r, hosted}
  PROVE  Opening'
<1>1. DOMAIN runs' = Runs /\ runs'[r] = after /\ \A q \in Runs \ {r} : runs'[q] = runs[q]
  BY DEF Opening
<1>2. \A q \in Runs : runs'[q] = None \/ OpenRun(runs'[q])
  BY <1>1 DEF Opening
<1>3. \A q \in Runs : OpenRun(runs[q]) => OpenRun(runs'[q])
  BY <1>1
<1>4. hosted' # None => hosted' \in Runs /\ OpenRun(runs'[hosted'])
  BY <1>1, <1>3 DEF Opening
<1> QED
  BY <1>1, <1>2, <1>3, <1>4, OpeningQuiet

LEMMA OpeningShow ==
  ASSUME Opening, UNCHANGED <<mempool, looking>>, NEW r \in Runs, NEW run, OpenRun(run), Show(r, run)
  PROVE  Opening'
<1> DEFINE rs == Hidden(runs, hosted)
<1>1. /\ DOMAIN rs = Runs
      /\ \A q \in Runs : rs[q] = None \/ OpenRun(rs[q])
      /\ \A q \in Runs : OpenRun(runs[q]) => OpenRun(rs[q])
  BY HiddenOpen DEF Opening
<1>2. runs' = [rs EXCEPT ![r] = run] /\ hosted' = r
  BY DEF Show
<1> HIDE DEF rs
<1>3. DOMAIN runs' = Runs /\ runs'[r] = run /\ \A q \in Runs \ {r} : runs'[q] = rs[q]
  BY <1>1, <1>2
<1>4. \A q \in Runs : runs'[q] = None \/ OpenRun(runs'[q])
  BY <1>1, <1>3
<1>5. \A q \in Runs : OpenRun(runs[q]) => OpenRun(runs'[q])
  BY <1>1, <1>3
<1> QED
  BY <1>2, <1>3, <1>4, <1>5, OpeningQuiet

LEMMA OpeningStarts ==
  ASSUME Opening, NEW r \in Runs, StartOpen(r) \/ StartAgent(r)
  PROVE  Opening'
<1>1. plan \in Ask /\ UNCHANGED <<mempool, looking>>
  BY WebAssumption DEF StartOpen, StartAgent
<1>2. CASE StartOpen(r)
  <2> DEFINE steps == OpenSteps(form, terms)
             run(atomic) == NewRun(steps, atomic, plan, WrapAmount(form))
  <2>1. \/ Show(r, run(FALSE))
        \/ runs' = [runs EXCEPT ![r] = run(TRUE)] /\ UNCHANGED hosted
    BY <1>2 DEF StartOpen, StartWith
  <2>2. OpenRun(run(FALSE)) /\ OpenRun(run(TRUE))
    BY <1>1, OpenStepsEnd, NewOpen
  <2> HIDE DEF run
  <2> QED
    BY <1>1, <2>1, <2>2, OpeningShow, OpeningOne
<1>3. CASE StartAgent(r)
  <2> DEFINE steps == AgentSteps(terms)
             run == NewRun(steps, FALSE, plan, 0)
  <2>1. Show(r, run)
    BY <1>3 DEF StartAgent
  <2>2. OpenRun(run)
    BY <1>1, AgentStepsEnd, NewOpen
  <2> HIDE DEF run
  <2> QED
    BY <1>1, <2>1, <2>2, OpeningShow
<1> QED
  BY <1>2, <1>3

LEMMA OpeningSign ==
  ASSUME Opening, NEW r \in Runs, Sign(r)
  PROVE  Opening'
<1>1. OpenRun(runs[r]) /\ DOMAIN runs = Runs /\ mempool \in Seq(Signed) /\ UNCHANGED <<looking, hosted>>
  BY DEF Opening, Sign
<1> DEFINE after == [runs[r] EXCEPT !.stage = "mining", !.mined = FALSE]
           tx == [run |-> r, try |-> runs[r].try, amount |-> AmountOf(runs[r])]
<1>2. runs' = [runs EXCEPT ![r] = after]
  BY <1>1 DEF Sign, OpenRun, RunFields
<1>3. OpenRun(after)
  <2>1. /\ DOMAIN after = DOMAIN runs[r] /\ after.steps = runs[r].steps /\ after.of = runs[r].of
        /\ after.try = runs[r].try
    BY <1>1 DEF OpenRun, RunFields
  <2>2. runs[r].try \in Nat
    BY <1>1 DEF OpenRun
  <2> HIDE DEF after
  <2> QED
    BY <1>1, <2>1, <2>2, OpenRunKept
<1>4. tx \in Signed /\ tx.run = r
  <2>1. AmountOf(runs[r]) = 0
    BY <1>1, WebAssumption DEF AmountOf, OpenRun
  <2>2. runs[r].try \in Nat
    BY <1>1 DEF OpenRun
  <2> QED
    BY <2>1, <2>2 DEF Signed
<1>5. mempool' = Append(mempool, tx) \/ mempool' = mempool
  BY DEF Sign
<1> HIDE DEF after, tx
<1>6. /\ mempool' \in Seq(Signed)
      /\ \A k \in DOMAIN mempool' : mempool'[k] = tx \/ (k \in DOMAIN mempool /\ mempool'[k] = mempool[k])
  BY <1>1, <1>4, <1>5
<1>7. DOMAIN runs' = Runs /\ runs'[r] = after /\ \A q \in Runs \ {r} : runs'[q] = runs[q]
  BY <1>1, <1>2
<1>8. \A q \in Runs : /\ runs'[q] = None \/ OpenRun(runs'[q])
                      /\ OpenRun(runs[q]) => OpenRun(runs'[q])
  BY <1>3, <1>7 DEF Opening
<1>9. ASSUME NEW k \in DOMAIN mempool' PROVE OpenRun(runs'[mempool'[k].run])
  <2>1. CASE mempool'[k] = tx
    BY <1>3, <1>4, <1>7, <2>1
  <2>2. CASE k \in DOMAIN mempool /\ mempool'[k] = mempool[k]
    <3>1. mempool[k].run \in Runs /\ OpenRun(runs[mempool[k].run])
      BY <1>1, <2>2, SignedHas DEF Opening
    <3> QED
      BY <1>8, <2>2, <3>1
  <2> QED
    BY <1>6, <2>1, <2>2
<1>10. hosted' # None => hosted' \in Runs /\ OpenRun(runs'[hosted'])
  BY <1>1, <1>8 DEF Opening
<1> QED
  BY <1>1, <1>6, <1>7, <1>8, <1>9, <1>10 DEF Opening

LEMMA OpeningMoves ==
  ASSUME Opening, NEW r \in Runs, Reject(r) \/ GiveUp(r) \/ Retry(r)
  PROVE  Opening'
<1>1. OpenRun(runs[r]) /\ UNCHANGED <<mempool, looking, hosted>>
  <2>1. CASE Retry(r)
    BY <2>1, WebAssumption DEF Opening, Retry
  <2> QED
    BY <2>1 DEF Opening, Reject, GiveUp
<1>2. runs[r].try \in Nat /\ runs[r].try + 1 \in Nat
  BY <1>1 DEF OpenRun
<1>3. CASE Retry(r)
  <2> DEFINE next == runs[r].try + 1
             after == [runs[r] EXCEPT !.stage = "wallet", !.try = next]
  <2>1. runs' = [runs EXCEPT ![r] = after]
    BY <1>1, <1>3 DEF Retry, OpenRun, RunFields
  <2> HIDE DEF next
  <2>2. /\ DOMAIN after = DOMAIN runs[r] /\ after.steps = runs[r].steps /\ after.of = runs[r].of
        /\ after.try = next
    BY <1>1 DEF OpenRun, RunFields
  <2>3. next \in Nat
    BY <1>2 DEF next
  <2> HIDE DEF after
  <2>4. OpenRun(after)
    BY <1>1, <2>2, <2>3, OpenRunKept
  <2> QED
    BY <1>1, <2>1, <2>4, OpeningOne
<1>4. CASE Reject(r) \/ GiveUp(r)
  <2>1. PICK stage \in {"failed", "stopped"} : runs' = [runs EXCEPT ![r].stage = stage]
    BY <1>4 DEF Reject, GiveUp
  <2> DEFINE after == [runs[r] EXCEPT !.stage = stage]
  <2>2. /\ DOMAIN after = DOMAIN runs[r] /\ after.steps = runs[r].steps /\ after.of = runs[r].of
        /\ after.try = runs[r].try
    BY <1>1 DEF OpenRun, RunFields
  <2>3. runs' = [runs EXCEPT ![r] = after]
    BY <2>1
  <2> HIDE DEF after
  <2>4. OpenRun(after)
    BY <1>1, <1>2, <2>2, OpenRunKept
  <2> QED
    BY <1>1, <2>3, <2>4, OpeningOne
<1> QED
  BY <1>3, <1>4

LEMMA OpeningCancel ==
  ASSUME Opening, NEW r \in Runs, Cancel(r)
  PROVE  Opening'
<1>1. r # None
  BY WebAssumption
<1>2. /\ DOMAIN runs' = Runs
      /\ \A q \in Runs : runs'[q] = None \/ OpenRun(runs'[q])
      /\ \A q \in Runs : OpenRun(runs[q]) => OpenRun(runs'[q])
  <2>1. hosted = r /\ OpenRun(runs[r]) /\ runs' = Hidden(runs, r)
    BY <1>1 DEF Opening, Cancel
  <2>2. DOMAIN runs = Runs /\ \A q \in Runs : runs[q] = None \/ OpenRun(runs[q])
    BY DEF Opening
  <2> QED
    BY <2>1, <2>2, HiddenOpen
<1> QED
  BY <1>2, OpeningQuiet DEF Cancel

LEMMA OpeningReceipt ==
  ASSUME Opening, NEW r \in Runs, Receipt(r)
  PROVE  Opening'
<1> DEFINE last == runs[r].atomic \/ runs[r].at = Len(runs[r].steps)
           opens == runs[r].of # None
           over == hosted # None /\ (opens \/ (~Alone(runs[r]) /\ Place(runs[hosted]) = Place(runs[r])))
           off == IF over THEN hosted ELSE None
           rs == Hidden(runs, off)
<1>1. OpenRun(runs[r]) /\ UNCHANGED <<mempool, looking>> /\ DOMAIN runs = Runs
  BY DEF Opening, Receipt
<1>2. IF last
      THEN /\ hosted' = IF over THEN None ELSE hosted
           /\ runs' = [rs EXCEPT ![r].stage = "done"]
      ELSE /\ runs' = [runs EXCEPT ![r] =
                IF runs[r].cancelled THEN [runs[r] EXCEPT !.stage = "stopped"]
                ELSE [runs[r] EXCEPT !.stage = "wallet", !.at = @ + 1, !.try = 1]]
           /\ UNCHANGED hosted
  BY Zenon DEF Receipt
<1> HIDE DEF last, over
<1>3. CASE last
  <2>1. /\ DOMAIN rs = Runs
        /\ \A q \in Runs : rs[q] = None \/ OpenRun(rs[q])
        /\ \A q \in Runs : OpenRun(runs[q]) => OpenRun(rs[q])
    <3>1. off # None => off \in Runs /\ OpenRun(runs[off])
      BY DEF Opening
    <3>2. \A q \in Runs : runs[q] = None \/ OpenRun(runs[q])
      BY DEF Opening
    <3> HIDE DEF off
    <3> QED
      BY <1>1, <3>1, <3>2, HiddenOpen
  <2> HIDE DEF rs
  <2> DEFINE after == [rs[r] EXCEPT !.stage = "done"]
  <2>2. OpenRun(rs[r])
    BY <1>1, <2>1
  <2>3. runs' = [rs EXCEPT ![r] = after] /\ (hosted' # None => hosted' = hosted)
    BY <1>2, <1>3
  <2>4. OpenRun(after)
    <3>1. /\ DOMAIN after = DOMAIN rs[r] /\ after.steps = rs[r].steps /\ after.of = rs[r].of
          /\ after.try = rs[r].try
      BY <2>2 DEF OpenRun, RunFields
    <3>2. rs[r].try \in Nat
      BY <2>2 DEF OpenRun
    <3> HIDE DEF after
    <3> QED
      BY <2>2, <3>1, <3>2, OpenRunKept
  <2> HIDE DEF after
  <2>5. DOMAIN runs' = Runs /\ runs'[r] = after /\ \A q \in Runs \ {r} : runs'[q] = rs[q]
    BY <2>1, <2>3
  <2>6. \A q \in Runs : /\ runs'[q] = None \/ OpenRun(runs'[q])
                        /\ OpenRun(runs[q]) => OpenRun(runs'[q])
    BY <2>1, <2>4, <2>5
  <2>7. hosted' # None => hosted' \in Runs /\ OpenRun(runs'[hosted'])
    BY <2>3, <2>6 DEF Opening
  <2> QED
    BY <1>1, <2>5, <2>6, <2>7, OpeningQuiet
<1>4. CASE ~last
  <2> DEFINE next == runs[r].at + 1
             after == IF runs[r].cancelled THEN [runs[r] EXCEPT !.stage = "stopped"]
                      ELSE [runs[r] EXCEPT !.stage = "wallet", !.at = next, !.try = 1]
  <2>1. runs' = [runs EXCEPT ![r] = after] /\ UNCHANGED hosted
    BY <1>2, <1>4
  <2>2. OpenRun(after)
    <3> HIDE DEF next
    <3>1. runs[r].try \in Nat
      BY <1>1 DEF OpenRun
    <3>2. CASE runs[r].cancelled
      <4>1. /\ DOMAIN after = DOMAIN runs[r] /\ after.steps = runs[r].steps /\ after.of = runs[r].of
            /\ after.try = runs[r].try
        BY <1>1, <3>2 DEF OpenRun, RunFields
      <4> HIDE DEF after
      <4> QED
        BY <1>1, <3>1, <4>1, OpenRunKept
    <3>3. CASE ~runs[r].cancelled
      <4>1. /\ DOMAIN after = DOMAIN runs[r] /\ after.steps = runs[r].steps /\ after.of = runs[r].of
            /\ after.try = 1
        BY <1>1, <3>3 DEF OpenRun, RunFields
      <4> HIDE DEF after
      <4> QED
        BY <1>1, <4>1, OpenRunKept
    <3> QED
      BY <3>2, <3>3
  <2> HIDE DEF after
  <2> QED
    BY <1>1, <2>1, <2>2, OpeningOne
<1> QED
  BY <1>3, <1>4

LEMMA OpeningMine ==
  ASSUME Opening, Mine
  PROVE  Opening'
<1> DEFINE tx == Head(mempool)
           r == tx.run
<1>1. /\ mempool \in Seq(Signed) /\ mempool # <<>> /\ mempool' = Tail(mempool)
      /\ UNCHANGED <<looking, hosted>> /\ DOMAIN runs = Runs
  BY DEF Opening, Mine
<1>2. 1 \in DOMAIN mempool /\ tx = mempool[1]
  BY <1>1
<1>3. r \in Runs /\ OpenRun(runs[r])
  BY <1>1, <1>2, SignedHas DEF Opening
<1>4. PICK mined : runs' = [runs EXCEPT ![r].mined = mined]
  BY DEF Mine, Mined
<1> DEFINE after == [runs[r] EXCEPT !.mined = mined]
<1>5. runs' = [runs EXCEPT ![r] = after]
  BY <1>4
<1>6. OpenRun(after)
  <2>1. /\ DOMAIN after = DOMAIN runs[r] /\ after.steps = runs[r].steps /\ after.of = runs[r].of
        /\ after.try = runs[r].try
    BY <1>3 DEF OpenRun, RunFields
  <2>2. runs[r].try \in Nat
    BY <1>3 DEF OpenRun
  <2> HIDE DEF after
  <2> QED
    BY <1>3, <2>1, <2>2, OpenRunKept
<1>7. mempool' \in Seq(Signed) /\ \A k \in DOMAIN mempool' :
        k + 1 \in DOMAIN mempool /\ mempool'[k] = mempool[k + 1]
  BY <1>1
<1> HIDE DEF after, tx, r
<1>8. DOMAIN runs' = Runs /\ runs'[r] = after /\ \A q \in Runs \ {r} : runs'[q] = runs[q]
  BY <1>1, <1>3, <1>5
<1>9. \A q \in Runs : /\ runs'[q] = None \/ OpenRun(runs'[q])
                      /\ OpenRun(runs[q]) => OpenRun(runs'[q])
  BY <1>6, <1>8 DEF Opening
<1>10. ASSUME NEW k \in DOMAIN mempool' PROVE OpenRun(runs'[mempool'[k].run])
  <2>1. k + 1 \in DOMAIN mempool /\ mempool'[k] = mempool[k + 1]
    BY <1>7
  <2>2. mempool[k + 1].run \in Runs /\ OpenRun(runs[mempool[k + 1].run])
    BY <1>1, <2>1, SignedHas DEF Opening
  <2> QED
    BY <1>9, <2>1, <2>2
<1>11. hosted' # None => hosted' \in Runs /\ OpenRun(runs'[hosted'])
  BY <1>1, <1>9 DEF Opening
<1> QED
  BY <1>1, <1>7, <1>8, <1>9, <1>10, <1>11 DEF Opening

LEMMA OpeningStep ==
  ASSUME screen # "position", Opening, [Next]_vars
  PROVE  Opening' /\ screen' # "position"
<1>1. CASE UNCHANGED vars
  BY <1>1 DEF vars, Opening
<1>2. CASE FormStep
  <2>1. UNCHANGED <<screen, looking, runs, hosted, mempool>>
    BY <1>2 DEF FormStep, Edit, Debounced, Answered, Arrives, Replan, Replanned, ShownAgain, ReplanFails, Read
  <2> QED
    BY <2>1 DEF Opening
<1>3. ASSUME NEW r \in Runs, StartOpen(r) \/ StartAgent(r) PROVE Opening' /\ screen' # "position"
  BY <1>3, OpeningStarts DEF StartOpen, StartAgent
<1>4. ASSUME NEW r \in Runs, StartExit(r) \/ StartClose(r) \/ StartSell(r) PROVE FALSE
  <2>1. CASE StartExit(r)
    BY <2>1 DEF StartExit, Opening
  <2> QED
    BY <1>4, <2>1 DEF StartClose, StartSell
<1>5. ASSUME NEW r \in Runs, Sign(r) \/ Reject(r) \/ GiveUp(r) \/ Retry(r) \/ Cancel(r)
      PROVE  Opening' /\ screen' # "position"
  <2>1. UNCHANGED screen
    BY <1>5 DEF Sign, Reject, GiveUp, Retry, Cancel
  <2> QED
    BY <1>5, <2>1, OpeningSign, OpeningMoves, OpeningCancel
<1>6. ASSUME NEW r \in Runs, Receipt(r) PROVE Opening' /\ screen' # "position"
  BY <1>6, OpeningReceipt DEF Receipt
<1>7. CASE Mine
  BY <1>7, OpeningMine DEF Mine
<1>8. CASE Click
  BY <1>8 DEF Click
<1> QED
  BY <1>1, <1>2, <1>3, <1>4, <1>5, <1>6, <1>7, <1>8 DEF Next, StepperStep

LEMMA ExitToldStep ==
  ASSUME ExitTold, [Next]_vars
  PROVE  ExitTold'
  BY ExitingStep, OpeningStep DEF ExitTold

LEMMA ExitToldInit == Init => ExitTold
<1> SUFFICES ASSUME Init PROVE ExitTold
  OBVIOUS
<1>1. mempool \in Seq(Signed) /\ mempool = <<>> /\ DOMAIN mempool = {}
  BY DEF Init
<1>2. runs = [r \in Runs |-> None] /\ hosted = None /\ looking = 0
  BY DEF Init
<1>3. ASSUME screen = "position" PROVE chain \in Chain
  <2>1. PICK w \in Wallets :
          chain = [native |-> w.native, quote |-> w.quote, base |-> w.base,
                   toQuote |-> 0, toBase |-> 0, toRouter |-> 0, granted |-> 0,
                   opened |-> [r \in Runs |-> 0], closed |-> FALSE, refused |-> {}]
    BY <1>3 DEF Init
  <2>2. w \in [native : Nat, quote : Nat, base : Nat]
    BY WebAssumption
  <2> QED
    BY <2>1, <2>2 DEF Chain
<1> QED
  BY <1>1, <1>2, <1>3 DEF ExitTold, Exiting, Opening

-----------------------------------------------------------------------------
(* BuiltGoesThrough.  What the server hands out fits the position as it is *)
(* until somebody else touches it.                                         *)

(* Two currencies back liquidity with natural amounts.                     *)
LEMMA QuotientNat ==
  ASSUME NEW a \in Nat, NEW b \in Nat, NEW d \in Nat \ {0}
  PROVE  (a * b) \div d \in Nat
<1>1. a * b \in Nat
  OBVIOUS
<1> DEFINE x == a * b
<1> HIDE DEF x
<1>2. x \in Nat
  BY <1>1 DEF x
<1>3. x \div d \in Nat
  BY <1>2
<1> QED
  BY <1>3 DEF x

LEMMA BetweenPrices ==
  ASSUME NEW a \in Nat, NEW b \in Nat, NEW s \in Nat, a < b
  PROVE  Max({a, Min({s, b})}) \in a .. b
<1>1. Min({s, b}) = IF s <= b THEN s ELSE b
  BY DEF Min
<1> DEFINE m == Min({s, b})
<1>2. m \in Nat /\ m <= b
  BY <1>1
<1> HIDE DEF m
<1>3. Max({a, m}) = IF a >= m THEN a ELSE m
  BY <1>2 DEF Max
<1> QED
  BY <1>2, <1>3 DEF m

LEMMA AmountsNat ==
  ASSUME NEW t \in DOMAIN SqrtPrice, NEW lower \in DOMAIN SqrtPrice, NEW upper \in DOMAIN SqrtPrice,
         lower < upper, NEW l \in Nat
  PROVE  /\ AmountsForLiquidity(SqrtPrice[t], lower, upper, l).amount0 \in Nat
         /\ AmountsForLiquidity(SqrtPrice[t], lower, upper, l).amount1 \in Nat
<1> DEFINE a == SqrtPrice[lower]
           b == SqrtPrice[upper]
           p == Max({a, Min({SqrtPrice[t], b})})
<1>1. /\ a \in Nat \ {0} /\ b \in Nat \ {0} /\ SqrtPrice[t] \in Nat /\ a < b
      /\ Scale \in Nat \ {0}
  BY PriceAssumption
<1>2. p \in a .. b
  BY <1>1, BetweenPrices
<1>3. /\ AmountsForLiquidity(SqrtPrice[t], lower, upper, l).amount0 = ((l * Scale * (b - p)) \div b) \div p
      /\ AmountsForLiquidity(SqrtPrice[t], lower, upper, l).amount1 = (l * (p - a)) \div Scale
  BY DEF AmountsForLiquidity
<1> HIDE DEF a, b, p
<1>4. b - p \in Nat /\ p - a \in Nat /\ p \in Nat \ {0}
  BY <1>1, <1>2
<1>5. l * Scale \in Nat
  BY <1>1
<1>6. (l * Scale * (b - p)) \div b \in Nat
  BY <1>1, <1>4, <1>5, QuotientNat
<1>7. ((l * Scale * (b - p)) \div b) \div p \in Nat
  BY <1>4, <1>6
<1>8. (l * (p - a)) \div Scale \in Nat
  BY <1>1, <1>4, QuotientNat
<1> QED
  BY <1>3, <1>7, <1>8

(* What a quotient is, and the same rounded up: at most one more, however  *)
(* often it was truncated on the way.                                      *)
LEMMA DivisionIs ==
  ASSUME NEW x \in Int, NEW d \in Nat \ {0}
  PROVE  x \div d \in Int /\ (x \div d) * d <= x /\ x < (x \div d) * d + d
  OBVIOUS

LEMMA SmallerFactor ==
  ASSUME NEW a \in Int, NEW b \in Int, NEW d \in Nat \ {0}, a * d < b * d
  PROVE  a < b
<1> SUFFICES ASSUME b <= a PROVE FALSE
  OBVIOUS
<1>1. (a - b) * d >= 0
  OBVIOUS
<1>2. (a - b) * d = a * d - b * d
  OBVIOUS
<1> QED
  BY <1>1, <1>2

LEMMA RoundedUp ==
  ASSUME NEW x \in Nat, NEW d \in Nat \ {0}, NEW r \in Nat, x <= (r + 1) * d
  PROVE  Ceiling(x, d) \in Nat /\ Ceiling(x, d) <= r + 1
<1> DEFINE y == -x
           q == y \div d
<1>1. y \in Int /\ q \in Int /\ q * d <= y /\ y < q * d + d
  BY DivisionIs
<1>2. Ceiling(x, d) = -q
  BY DEF Ceiling
<1> HIDE DEF q
<1>3. q <= 0
  <2>1. q * d <= 0
    BY <1>1
  <2>2. q * d < 1 * d
    BY <1>1, <2>1
  <2> QED
    BY <1>1, <2>2, SmallerFactor
<1>4. -(r + 2) < q
  <2>1. (-(r + 2)) * d = -((r + 1) * d) - d
    OBVIOUS
  <2>2. (-(r + 2)) * d < q * d
    BY <1>1, <2>1
  <2> QED
    BY <1>1, <2>2, SmallerFactor
<1> QED
  BY <1>1, <1>2, <1>3, <1>4

LEMMA RoundedTwice ==
  ASSUME NEW x \in Nat, NEW b \in Nat \ {0}, NEW p \in Nat \ {0}
  PROVE  /\ (x \div b) \div p \in Nat
         /\ x <= ((x \div b) \div p + 1) * (b * p)
<1> DEFINE q == x \div b
           r == q \div p
<1>1. q \in Int /\ q * b <= x /\ x < q * b + b
  BY DivisionIs
<1>2. r \in Int /\ r * p <= q /\ q < r * p + p
  BY <1>1, DivisionIs
<1>3. q \in Nat /\ r \in Nat
  OBVIOUS
<1> HIDE DEF r, q
<1>4. q + 1 <= (r + 1) * p
  BY <1>2, <1>3
<1>5. (q + 1) * b <= ((r + 1) * p) * b
  <2> DEFINE u == q + 1
             v == (r + 1) * p
  <2>1. u \in Nat /\ v \in Nat /\ u <= v
    BY <1>3, <1>4
  <2> HIDE DEF u, v
  <2>2. (v - u) * b >= 0 /\ (v - u) * b = v * b - u * b
    BY <2>1
  <2>3. u * b <= v * b
    BY <2>1, <2>2
  <2> QED
    BY <2>3 DEF u, v
<1>6. ((r + 1) * p) * b = (r + 1) * (b * p)
  BY <1>3
<1>7. x < (q + 1) * b
  BY <1>1, <1>3
<1> QED
  BY <1>1, <1>2, <1>3, <1>5, <1>6, <1>7 DEF r, q

LEMMA ChargedIs ==
  ASSUME NEW t \in DOMAIN SqrtPrice, NEW lower \in DOMAIN SqrtPrice, NEW upper \in DOMAIN SqrtPrice,
         lower < upper, NEW l \in Nat,
         NEW of, of = AmountsForLiquidity(SqrtPrice[t], lower, upper, l),
         NEW cost, cost = ChargedForLiquidity(SqrtPrice[t], lower, upper, l)
  PROVE  /\ cost.amount0 \in Nat /\ cost.amount1 \in Nat
         /\ cost.amount0 <= of.amount0 + 1 /\ cost.amount1 <= of.amount1 + 1
<1> DEFINE a == SqrtPrice[lower]
           b == SqrtPrice[upper]
           p == Max({a, Min({SqrtPrice[t], b})})
           x == l * Scale * (b - p)
           y == l * (p - a)
<1>1. /\ a \in Nat \ {0} /\ b \in Nat \ {0} /\ SqrtPrice[t] \in Nat /\ a < b
      /\ Scale \in Nat \ {0}
  BY PriceAssumption
<1>2. p \in a .. b
  BY <1>1, BetweenPrices
<1>3. /\ of.amount0 = (x \div b) \div p /\ of.amount1 = y \div Scale
      /\ cost.amount0 = Ceiling(x, b * p) /\ cost.amount1 = Ceiling(y, Scale)
  BY DEF AmountsForLiquidity, ChargedForLiquidity
<1> HIDE DEF p
<1>4. b - p \in Nat /\ p - a \in Nat /\ p \in Nat \ {0}
  BY <1>1, <1>2
<1>5. x \in Nat /\ y \in Nat
  BY <1>1, <1>4
<1>6. b * p \in Nat \ {0}
  BY <1>1, <1>4
<1> HIDE DEF x, y, a, b
<1>7. (x \div b) \div p \in Nat /\ x <= ((x \div b) \div p + 1) * (b * p)
  BY <1>1, <1>4, <1>5, RoundedTwice
<1>8. y \div Scale \in Nat /\ y <= (y \div Scale + 1) * Scale
  BY <1>1, <1>5, DivisionIs
<1>9. Ceiling(x, b * p) \in Nat /\ Ceiling(x, b * p) <= (x \div b) \div p + 1
  <2> DEFINE d == b * p
             r == (x \div b) \div p
  <2>1. d \in Nat \ {0} /\ r \in Nat /\ x <= (r + 1) * d
    BY <1>6, <1>7
  <2> HIDE DEF d, r
  <2>2. Ceiling(x, d) \in Nat /\ Ceiling(x, d) <= r + 1
    BY <1>5, <2>1, RoundedUp
  <2> QED
    BY <2>2 DEF d, r
<1>10. Ceiling(y, Scale) \in Nat /\ Ceiling(y, Scale) <= y \div Scale + 1
  <2> DEFINE r == y \div Scale
  <2>1. r \in Nat /\ y <= (r + 1) * Scale
    BY <1>8
  <2> HIDE DEF r
  <2>2. Ceiling(y, Scale) \in Nat /\ Ceiling(y, Scale) <= r + 1
    BY <1>1, <1>5, <2>1, RoundedUp
  <2> QED
    BY <2>2 DEF r
<1> QED
  BY <1>3, <1>9, <1>10

(* Bins of a position, with what of each is meant.                         *)
BinsOK(bins) ==
  bins \in Seq(Bin) /\ \A k \in DOMAIN bins : bins[k].lower < bins[k].upper

LEMMA FiniteDomain == ASSUME NEW S, NEW s \in Seq(S) PROVE IsFiniteSet(DOMAIN s)
<1>1. Len(s) \in Nat /\ DOMAIN s = 1 .. Len(s)
  OBVIOUS
<1>2. IsFiniteSet(1 .. Len(s))
  BY <1>1, FS_Interval
<1> QED
  BY <1>1, <1>2

LEMMA WorthNat ==
  ASSUME NEW bins, BinsOK(bins), NEW deltas \in Seq(Nat), DOMAIN deltas = DOMAIN bins,
         NEW t \in DOMAIN SqrtPrice
  PROVE  Worth(bins, deltas, t) \in [Slots -> Nat]
<1> DEFINE meant == [k \in DOMAIN bins |-> [bins[k] EXCEPT !.liquidity = deltas[k]]]
           Of(k) == AmountsForLiquidity(SqrtPrice[t], meant[k].lower, meant[k].upper, meant[k].liquidity)
           f0 == [k \in DOMAIN meant |-> Of(k).amount0]
           f1 == [k \in DOMAIN meant |-> Of(k).amount1]
<1>1. DOMAIN meant = DOMAIN bins /\ IsFiniteSet(DOMAIN bins)
  BY FiniteDomain DEF BinsOK
<1>2. ASSUME NEW k \in DOMAIN bins PROVE Of(k).amount0 \in Nat /\ Of(k).amount1 \in Nat
  <2>1. /\ bins[k] \in Bin /\ bins[k].lower < bins[k].upper /\ deltas[k] \in Nat
    <3>1. bins \in Seq(Bin) /\ bins[k] \in Bin
      BY <1>2, ElementOfSeq DEF BinsOK
    <3>2. deltas[k] \in Nat
      BY <1>2, ElementOfSeq
    <3> QED
      BY <1>2, <3>1, <3>2 DEF BinsOK
  <2>2. meant[k].lower = bins[k].lower /\ meant[k].upper = bins[k].upper /\ meant[k].liquidity = deltas[k]
    BY <1>2, <2>1 DEF Bin
  <2>3. bins[k].lower \in DOMAIN SqrtPrice /\ bins[k].upper \in DOMAIN SqrtPrice
    BY <2>1 DEF Bin
  <2> HIDE DEF meant
  <2> QED
    BY <2>1, <2>2, <2>3, AmountsNat
<1>3. ValuePosition(meant, SqrtPrice[t])
        = [amount0 |-> SumFunctionOnSet(f0, DOMAIN f0), amount1 |-> SumFunctionOnSet(f1, DOMAIN f1)]
  BY DEF ValuePosition, SumFunction
<1>4. SumFunctionOnSet(f0, DOMAIN f0) \in Nat /\ SumFunctionOnSet(f1, DOMAIN f1) \in Nat
  <2>1. DOMAIN f0 = DOMAIN bins /\ DOMAIN f1 = DOMAIN bins
    BY <1>1
  <2>2. \A k \in DOMAIN bins : f0[k] \in Nat /\ f1[k] \in Nat
    BY <1>1, <1>2
  <2> HIDE DEF f0, f1
  <2>3. SumFunctionOnSet(f0, DOMAIN bins) \in Nat /\ SumFunctionOnSet(f1, DOMAIN bins) \in Nat
    BY <1>1, <2>2, SumNat
  <2> QED
    BY <2>1, <2>3
<1> HIDE DEF f0, f1
<1>5. Worth(bins, deltas, t) =
        [c \in Slots |-> IF c = 0 THEN ValuePosition(meant, SqrtPrice[t]).amount0
                         ELSE ValuePosition(meant, SqrtPrice[t]).amount1]
  BY DEF Worth
<1> HIDE DEF meant
<1> QED
  BY <1>3, <1>4, <1>5

(* v4 charges at most a unit for each bin more.                            *)
LEMMA ChargeIs ==
  ASSUME NEW bins, BinsOK(bins), NEW deltas \in Seq(Nat), DOMAIN deltas = DOMAIN bins,
         NEW t \in DOMAIN SqrtPrice
  PROVE  /\ Charge(bins, deltas, t) \in [Slots -> Nat]
         /\ \A c \in Slots : Charge(bins, deltas, t)[c] <= Worth(bins, deltas, t)[c] + Len(bins)
<1> DEFINE meant == [k \in DOMAIN bins |-> [bins[k] EXCEPT !.liquidity = deltas[k]]]
           Of(k) == AmountsForLiquidity(SqrtPrice[t], meant[k].lower, meant[k].upper, meant[k].liquidity)
           For(k) == ChargedForLiquidity(SqrtPrice[t], meant[k].lower, meant[k].upper, meant[k].liquidity)
           f0 == [k \in DOMAIN meant |-> Of(k).amount0]
           f1 == [k \in DOMAIN meant |-> Of(k).amount1]
           g0 == [k \in DOMAIN meant |-> For(k).amount0]
           g1 == [k \in DOMAIN meant |-> For(k).amount1]
<1>1. DOMAIN meant = DOMAIN bins /\ IsFiniteSet(DOMAIN bins)
  BY FiniteDomain DEF BinsOK
<1>2. ASSUME NEW k \in DOMAIN bins
      PROVE  /\ Of(k).amount0 \in Nat /\ Of(k).amount1 \in Nat
             /\ For(k).amount0 \in Nat /\ For(k).amount1 \in Nat
             /\ For(k).amount0 <= Of(k).amount0 + 1 /\ For(k).amount1 <= Of(k).amount1 + 1
  <2>1. /\ bins[k] \in Bin /\ bins[k].lower < bins[k].upper /\ deltas[k] \in Nat
    <3>1. bins \in Seq(Bin) /\ bins[k] \in Bin
      BY <1>2, ElementOfSeq DEF BinsOK
    <3>2. deltas[k] \in Nat
      BY <1>2, ElementOfSeq
    <3> QED
      BY <1>2, <3>1, <3>2 DEF BinsOK
  <2>2. meant[k].lower = bins[k].lower /\ meant[k].upper = bins[k].upper /\ meant[k].liquidity = deltas[k]
    BY <1>2, <2>1 DEF Bin
  <2>3. bins[k].lower \in DOMAIN SqrtPrice /\ bins[k].upper \in DOMAIN SqrtPrice
    BY <2>1 DEF Bin
  <2> HIDE DEF meant
  <2> QED
    BY <2>1, <2>2, <2>3, AmountsNat, ChargedIs
<1>3. /\ Worth(bins, deltas, t)
           = [c \in Slots |-> IF c = 0 THEN SumFunctionOnSet(f0, DOMAIN bins)
                              ELSE SumFunctionOnSet(f1, DOMAIN bins)]
      /\ Charge(bins, deltas, t)
           = [c \in Slots |-> IF c = 0 THEN SumFunctionOnSet(g0, DOMAIN bins)
                              ELSE SumFunctionOnSet(g1, DOMAIN bins)]
  <2>1. /\ ValuePosition(meant, SqrtPrice[t])
             = [amount0 |-> SumFunctionOnSet(f0, DOMAIN f0), amount1 |-> SumFunctionOnSet(f1, DOMAIN f1)]
        /\ CostPosition(meant, SqrtPrice[t])
             = [amount0 |-> SumFunctionOnSet(g0, DOMAIN g0), amount1 |-> SumFunctionOnSet(g1, DOMAIN g1)]
    BY DEF ValuePosition, CostPosition, SumFunction
  <2>2. DOMAIN f0 = DOMAIN bins /\ DOMAIN f1 = DOMAIN bins /\ DOMAIN g0 = DOMAIN bins /\ DOMAIN g1 = DOMAIN bins
    BY <1>1
  <2>3. /\ Worth(bins, deltas, t)
             = [c \in Slots |-> IF c = 0 THEN ValuePosition(meant, SqrtPrice[t]).amount0
                                ELSE ValuePosition(meant, SqrtPrice[t]).amount1]
        /\ Charge(bins, deltas, t)
             = [c \in Slots |-> IF c = 0 THEN CostPosition(meant, SqrtPrice[t]).amount0
                                ELSE CostPosition(meant, SqrtPrice[t]).amount1]
    BY DEF Worth, Charge
  <2> HIDE DEF f0, f1, g0, g1, meant
  <2> QED
    BY <2>1, <2>2, <2>3
<1>4. \A k \in DOMAIN bins : /\ f0[k] \in Nat /\ g0[k] \in Nat /\ g0[k] <= f0[k] + 1
                             /\ f1[k] \in Nat /\ g1[k] \in Nat /\ g1[k] <= f1[k] + 1
  <2> TAKE k \in DOMAIN bins
  <2>1. /\ f0[k] = Of(k).amount0 /\ f1[k] = Of(k).amount1
        /\ g0[k] = For(k).amount0 /\ g1[k] = For(k).amount1
    <3>1. k \in DOMAIN meant
      BY <1>1
    <3> HIDE DEF Of, For, meant
    <3> QED
      BY <3>1
  <2> HIDE DEF f0, f1, g0, g1, Of, For
  <2> QED
    BY <1>2, <2>1
<1>5. Len(bins) \in Nat /\ DOMAIN bins = 1 .. Len(bins)
  BY DEF BinsOK
<1> HIDE DEF f0, f1, g0, g1, meant, Of, For
<1>6. ASSUME NEW f, NEW g,
             \A k \in DOMAIN bins : f[k] \in Nat /\ g[k] \in Nat /\ g[k] <= f[k] + 1
      PROVE  /\ SumFunctionOnSet(f, DOMAIN bins) \in Nat /\ SumFunctionOnSet(g, DOMAIN bins) \in Nat
             /\ SumFunctionOnSet(g, DOMAIN bins) <= SumFunctionOnSet(f, DOMAIN bins) + Len(bins)
  <2> DEFINE one == [k \in DOMAIN bins |-> 1]
             h == [k \in DOMAIN bins |-> f[k] + 1]
  <2>1. /\ Integral(f, DOMAIN bins) /\ Integral(g, DOMAIN bins)
        /\ Integral(one, DOMAIN bins) /\ Integral(h, DOMAIN bins)
    BY <1>1, <1>6 DEF Integral
  <2>2. /\ \A k \in DOMAIN bins : g[k] <= h[k]
        /\ \A k \in DOMAIN bins : h[k] = f[k] + one[k]
        /\ \A k \in DOMAIN bins : one[k] = 1
    BY <1>6
  <2> HIDE DEF one, h
  <2>3. SumFunctionOnSet(one, DOMAIN bins) = Cardinality(DOMAIN bins)
    BY <1>1, <2>2, SumOnes
  <2>4. Cardinality(DOMAIN bins) = Len(bins)
    <3>1. ASSUME NEW n \in Nat PROVE Cardinality(1 .. n) = n
      <4>1. Cardinality(1 .. n) = IF 1 > n THEN 0 ELSE n - 1 + 1
        BY FS_Interval
      <4> QED
        BY <4>1
    <3> QED
      BY <1>5, <3>1
  <2>5. /\ SumFunctionOnSet(h, DOMAIN bins)
             = SumFunctionOnSet(f, DOMAIN bins) + SumFunctionOnSet(one, DOMAIN bins)
        /\ SumFunctionOnSet(g, DOMAIN bins) <= SumFunctionOnSet(h, DOMAIN bins)
    BY <2>1, <2>2, SumPlus, SumAtMost
  <2>6. SumFunctionOnSet(f, DOMAIN bins) \in Nat /\ SumFunctionOnSet(g, DOMAIN bins) \in Nat
    BY <1>1, <1>6, SumNat
  <2> QED
    BY <1>5, <2>3, <2>4, <2>5, <2>6
<1>7. /\ SumFunctionOnSet(f0, DOMAIN bins) \in Nat /\ SumFunctionOnSet(g0, DOMAIN bins) \in Nat
      /\ SumFunctionOnSet(g0, DOMAIN bins) <= SumFunctionOnSet(f0, DOMAIN bins) + Len(bins)
  BY <1>4, <1>6
<1>8. /\ SumFunctionOnSet(f1, DOMAIN bins) \in Nat /\ SumFunctionOnSet(g1, DOMAIN bins) \in Nat
      /\ SumFunctionOnSet(g1, DOMAIN bins) <= SumFunctionOnSet(f1, DOMAIN bins) + Len(bins)
  BY <1>4, <1>6
<1> QED
  BY <1>3, <1>7, <1>8

LEMMA HeadroomAbove == ASSUME NEW n \in Nat PROVE Headroom(n) \in Nat /\ n <= Headroom(n)
  BY DEF Headroom

(* One percent of a hundred units for each bin is a unit for each bin.     *)
LEMMA RoomForEach ==
  ASSUME NEW n \in Nat, NEW bins \in Nat, n >= 100 * bins
  PROVE  n + bins <= Headroom(n)
  BY DEF Headroom

Part(l, bps) == (l * bps) \div 10000

LEMMA PartOf ==
  ASSUME NEW l \in Nat, NEW bps \in Nat, bps <= 10000
  PROVE  Part(l, bps) \in Nat /\ Part(l, bps) <= l
<1>1. l * bps \in Nat /\ l * bps <= l * 10000
  OBVIOUS
<1> DEFINE x == l * bps
<1> HIDE DEF x
<1>2. x \in Nat /\ x <= l * 10000
  BY <1>1 DEF x
<1>3. x \div 10000 \in Nat /\ x \div 10000 <= l
  BY <1>2
<1> QED
  BY <1>3 DEF x, Part

LEMMA SequenceIs ==
  ASSUME NEW S, NEW n \in Nat, NEW f, f = [k \in 1 .. n |-> f[k]], \A k \in 1 .. n : f[k] \in S
  PROVE  f \in Seq(S)
  OBVIOUS

LEMMA DeltasFit ==
  ASSUME NEW bins, BinsOK(bins), NEW bps \in Nat, bps <= 10000
  PROVE  /\ ProportionalDeltas(bins, bps) \in Seq(Nat)
         /\ DOMAIN ProportionalDeltas(bins, bps) = DOMAIN bins
         /\ \A k \in DOMAIN bins : ProportionalDeltas(bins, bps)[k] <= bins[k].liquidity
<1>1. ASSUME NEW k \in DOMAIN bins PROVE bins[k].liquidity \in Nat
  <2>1. bins[k] \in Bin
    BY <1>1, ElementOfSeq DEF BinsOK
  <2> QED
    BY <2>1 DEF Bin
<1>2. Len(bins) \in Nat /\ DOMAIN bins = 1 .. Len(bins)
  BY DEF BinsOK
<1>3. ASSUME NEW k \in DOMAIN bins
      PROVE  /\ ProportionalDeltas(bins, bps)[k] \in Nat
             /\ ProportionalDeltas(bins, bps)[k] <= bins[k].liquidity
  <2>1. ProportionalDeltas(bins, bps)[k] = Part(bins[k].liquidity, bps)
    BY <1>3 DEF ProportionalDeltas, Part
  <2>2. bins[k].liquidity \in Nat
    BY <1>1, <1>3
  <2>3. \A l \in Nat : Part(l, bps) \in Nat /\ Part(l, bps) <= l
    BY PartOf
  <2> QED
    BY <2>1, <2>2, <2>3
<1>4. ProportionalDeltas(bins, bps) = [k \in 1 .. Len(bins) |-> (bins[k].liquidity * bps) \div 10000]
  BY <1>2 DEF ProportionalDeltas
<1>5. ProportionalDeltas(bins, bps) \in Seq(Nat)
  BY <1>2, <1>3, <1>4
<1> QED
  BY <1>2, <1>3, <1>4, <1>5

(* A position with its liquidity moved is a position of the same ranges.   *)
LEMMA HoldingBins ==
  ASSUME NEW h \in Holding
  PROVE  BinsOK(h.bins) /\ h.manager \in ManagerSet /\ h # None
  BY AgentAssumption DEF BinsOK, Holding

LEMMA AllFit ==
  ASSUME NEW h \in Holding
  PROVE  /\ All(h) \in Seq(Nat) /\ DOMAIN All(h) = DOMAIN h.bins
         /\ \A k \in DOMAIN h.bins : All(h)[k] <= h.bins[k].liquidity
<1>1. BinsOK(h.bins)
  BY HoldingBins
<1>2. ASSUME NEW k \in DOMAIN h.bins PROVE h.bins[k].liquidity \in Nat
  <2>1. h.bins[k] \in Bin
    BY <1>1, <1>2, ElementOfSeq DEF BinsOK
  <2> QED
    BY <2>1 DEF Bin
<1>3. Len(h.bins) \in Nat /\ DOMAIN h.bins = 1 .. Len(h.bins)
  BY <1>1 DEF BinsOK
<1>4. All(h) = [k \in 1 .. Len(h.bins) |-> h.bins[k].liquidity]
  BY <1>3 DEF All
<1> QED
  BY <1>2, <1>3, <1>4

LEMMA RebinnedIs ==
  ASSUME NEW h \in Holding, NEW bins \in Seq(Bin), DOMAIN bins = DOMAIN h.bins,
         \A k \in DOMAIN h.bins : bins[k].lower = h.bins[k].lower /\ bins[k].upper = h.bins[k].upper
  PROVE  /\ [h EXCEPT !.bins = bins] \in Holding
         /\ [h EXCEPT !.bins = bins].bins = bins
         /\ [h EXCEPT !.bins = bins].manager = h.manager
<1> DEFINE new == [h EXCEPT !.bins = bins]
<1>1. new \in [manager : ManagerSet, bins : Seq(Bin)] /\ new.bins = bins /\ new.manager = h.manager
  BY DEF Holding
<1> HIDE DEF new
<1>2. \A k \in DOMAIN new.bins : new.bins[k].lower < new.bins[k].upper
  BY <1>1, HoldingBins DEF BinsOK
<1>3. new \in Holding
  BY <1>1, <1>2 DEF Holding
<1> QED
  BY <1>1, <1>3 DEF new

LEMMA GrownIs ==
  ASSUME NEW h \in Holding, NEW deltas \in Seq(Nat), DOMAIN deltas = DOMAIN h.bins
  PROVE  /\ Grown(h, deltas) \in Holding
         /\ DOMAIN Grown(h, deltas).bins = DOMAIN h.bins
<1> DEFINE bins == [k \in DOMAIN h.bins |-> [h.bins[k] EXCEPT !.liquidity = @ + deltas[k]]]
<1>1. BinsOK(h.bins)
  BY HoldingBins
<1>2. ASSUME NEW k \in DOMAIN h.bins
      PROVE  bins[k] \in Bin /\ bins[k].lower = h.bins[k].lower /\ bins[k].upper = h.bins[k].upper
  <2>1. h.bins[k] \in Bin /\ deltas[k] \in Nat
    BY <1>1, <1>2, ElementOfSeq DEF BinsOK
  <2> DEFINE n == h.bins[k].liquidity + deltas[k]
  <2>2. n \in Nat
    BY <2>1 DEF Bin
  <2>3. bins[k] = [h.bins[k] EXCEPT !.liquidity = n]
    BY <1>2
  <2> HIDE DEF n
  <2> QED
    BY <2>1, <2>2, <2>3 DEF Bin
<1>3. Len(h.bins) \in Nat /\ DOMAIN h.bins = 1 .. Len(h.bins)
  BY <1>1 DEF BinsOK
<1>4. Grown(h, deltas) = [h EXCEPT !.bins = bins]
  BY DEF Grown
<1>5. DOMAIN bins = DOMAIN h.bins
  OBVIOUS
<1> HIDE DEF bins
<1>6. bins \in Seq(Bin)
  <2>1. bins = [k \in 1 .. Len(h.bins) |-> bins[k]]
    BY <1>3, <1>5 DEF bins
  <2>2. \A k \in 1 .. Len(h.bins) : bins[k] \in Bin
    BY <1>2, <1>3
  <2> QED
    BY <1>3, <2>1, <2>2, SequenceIs
<1> DEFINE new == [h EXCEPT !.bins = bins]
<1>7. new \in Holding /\ new.bins = bins
  BY <1>2, <1>5, <1>6, RebinnedIs
<1> HIDE DEF new
<1> QED
  BY <1>4, <1>5, <1>7 DEF new

LEMMA WithoutIs ==
  ASSUME NEW h \in Holding, NEW deltas \in Seq(Nat), DOMAIN deltas = DOMAIN h.bins,
         \A k \in DOMAIN h.bins : deltas[k] <= h.bins[k].liquidity
  PROVE  Without(h, deltas) # None =>
           /\ Without(h, deltas) \in Holding
           /\ DOMAIN Without(h, deltas).bins = DOMAIN h.bins
<1> DEFINE bins == [k \in DOMAIN h.bins |-> [h.bins[k] EXCEPT !.liquidity = @ - deltas[k]]]
<1>1. BinsOK(h.bins)
  BY HoldingBins
<1>2. ASSUME NEW k \in DOMAIN h.bins
      PROVE  bins[k] \in Bin /\ bins[k].lower = h.bins[k].lower /\ bins[k].upper = h.bins[k].upper
  <2>1. h.bins[k] \in Bin /\ deltas[k] \in Nat
    BY <1>1, <1>2, ElementOfSeq DEF BinsOK
  <2> DEFINE n == h.bins[k].liquidity - deltas[k]
  <2>2. n \in Nat
    BY <1>2, <2>1 DEF Bin
  <2>3. bins[k] = [h.bins[k] EXCEPT !.liquidity = n]
    BY <1>2
  <2> HIDE DEF n
  <2> QED
    BY <2>1, <2>2, <2>3 DEF Bin
<1>3. Len(h.bins) \in Nat /\ DOMAIN h.bins = 1 .. Len(h.bins)
  BY <1>1 DEF BinsOK
<1>4. Without(h, deltas) \in {None, [h EXCEPT !.bins = bins]}
  BY DEF Without
<1>5. DOMAIN bins = DOMAIN h.bins
  OBVIOUS
<1> HIDE DEF bins
<1>6. bins \in Seq(Bin)
  <2>1. bins = [k \in 1 .. Len(h.bins) |-> bins[k]]
    BY <1>3, <1>5 DEF bins
  <2>2. \A k \in 1 .. Len(h.bins) : bins[k] \in Bin
    BY <1>2, <1>3
  <2> QED
    BY <1>3, <2>1, <2>2, SequenceIs
<1> DEFINE new == [h EXCEPT !.bins = bins]
<1>7. new \in Holding /\ new.bins = bins
  BY <1>2, <1>5, <1>6, RebinnedIs
<1> HIDE DEF new
<1> QED
  BY <1>4, <1>5, <1>7 DEF new

LEMMA Catenated ==
  ASSUME NEW S, NEW a \in Seq(S), NEW b \in Seq(S), NEW m \in S, NEW s, s = a \o b \o <<m>>
  PROVE  /\ s \in Seq(S) /\ Len(s) = Len(a) + Len(b) + 1 /\ DOMAIN s = 1 .. Len(s)
         /\ \A k \in 1 .. Len(a) : s[k] = a[k]
         /\ \A k \in 1 .. Len(b) : s[Len(a) + k] = b[k]
         /\ s[Len(s)] = m
<1> DEFINE ab == a \o b
           last == <<m>>
<1>1. last \in Seq(S) /\ Len(last) = 1 /\ last[1] = m
  OBVIOUS
<1>2. /\ ab \in Seq(S) /\ Len(ab) = Len(a) + Len(b) /\ Len(a) \in Nat /\ Len(b) \in Nat
      /\ \A k \in 1 .. Len(ab) : ab[k] = IF k <= Len(a) THEN a[k] ELSE b[k - Len(a)]
  BY ConcatProperties
<1>3. s = ab \o last
  OBVIOUS
<1> HIDE DEF ab, last
<1>4. /\ s \in Seq(S) /\ Len(s) = Len(ab) + 1 /\ DOMAIN s = 1 .. Len(s)
      /\ \A k \in 1 .. Len(s) : s[k] = IF k <= Len(ab) THEN ab[k] ELSE last[k - Len(ab)]
  <2>1. /\ ab \o last \in Seq(S) /\ Len(ab \o last) = Len(ab) + Len(last)
        /\ \A k \in 1 .. Len(ab) + Len(last) :
             (ab \o last)[k] = IF k <= Len(ab) THEN ab[k] ELSE last[k - Len(ab)]
    <3>1. ab \in Seq(S) /\ last \in Seq(S)
      BY <1>1, <1>2
    <3> QED
      BY <3>1, ConcatProperties, Zenon
  <2>2. /\ s \in Seq(S) /\ Len(s) = Len(ab) + 1
        /\ \A k \in 1 .. Len(ab) + 1 : s[k] = IF k <= Len(ab) THEN ab[k] ELSE last[k - Len(ab)]
    BY <1>1, <1>3, <2>1
  <2> QED
    BY <2>2
<1>5. \A k \in 1 .. Len(a) : s[k] = a[k]
  BY <1>2, <1>4
<1>6. ASSUME NEW k \in 1 .. Len(b) PROVE s[Len(a) + k] = b[k]
  <2>1. Len(a) + k \in 1 .. Len(ab) /\ Len(a) + k \in 1 .. Len(s) /\ ~(Len(a) + k <= Len(a))
        /\ (Len(a) + k) - Len(a) = k
    BY <1>2, <1>4
  <2> QED
    BY <1>2, <1>4, <2>1
<1>7. s[Len(s)] = m
  <2>1. Len(s) \in 1 .. Len(s) /\ ~(Len(s) <= Len(ab)) /\ Len(s) - Len(ab) = 1
    BY <1>2, <1>4
  <2> QED
    BY <1>1, <1>4, <2>1
<1> QED
  BY <1>2, <1>4, <1>5, <1>6, <1>7

LEMMA OneIs ==
  ASSUME NEW S, NEW x \in S
  PROVE  <<x>> \in Seq(S) /\ Len(<<x>>) = 1 /\ <<x>>[1] = x /\ <<>> \in Seq(S) /\ Len(<<>>) = 0
  OBVIOUS

(* A transaction for a position speaks of all of its ranges.               *)
Meant(tx) == tx.kind \in {"increase", "decrease"} /\ held # None => DOMAIN tx.deltas = DOMAIN held.bins

(* What is left to accept it are the allowances and the balances.          *)
Suits(tx) ==
  /\ held # None /\ held.manager = tx.to
  /\ tx.kind # "increase" => tx.capped = (tx.to \in Capped)
  /\ tx.kind = "decrease" => \A k \in DOMAIN held.bins : tx.deltas[k] <= held.bins[k].liquidity
  /\ tx.kind = "increase" =>
       \A c \in Slots : tx.pay[c] = Headroom(Worth(held.bins, tx.deltas, poolTick)[c])

(* The last of a series fits, and those before it grant what it may pull   *)
(* and is not granted yet.                                                 *)
Ready(txs) ==
  LET main == txs[Len(txs)]
  IN /\ main.kind # "approve" /\ Suits(main)
     /\ \A k \in 1 .. Len(txs) - 1 :
          /\ txs[k].kind = "approve" /\ txs[k].to = main.to
          /\ \A c \in Slots : txs[k].pay[c] \in {0, main.pay[c]}
     /\ main.kind = "increase" =>
          \A c \in Slots : \/ main.pay[c] <= allowed[main.to][c]
                           \/ \E k \in 1 .. Len(txs) - 1 : txs[k].pay[c] = main.pay[c]

AllMeant == \A k \in DOMAIN todo : Meant(todo[k])

AllReady == undisturbed /\ todo # <<>> => Ready(todo)

AgentInv ==
  /\ AgentTypeOK
  /\ call # None => todo = <<>>
  /\ call # None /\ call.found # None =>
       /\ held # None => DOMAIN call.found.bins = DOMAIN held.bins
       /\ undisturbed => held = call.found
  /\ AllMeant /\ AllReady
  /\ ~failed

LEMMA NothingType == Nothing \in [Slots -> Nat]
  BY DEF Nothing

LEMMA ExitType ==
  ASSUME NEW kind \in {"decrease", "close", "collect"}, NEW h \in Holding, NEW deltas \in Seq(Nat)
  PROVE  /\ Exit(kind, h, deltas) \in Tx
         /\ Exit(kind, h, deltas).kind = kind /\ Exit(kind, h, deltas).to = h.manager
         /\ Exit(kind, h, deltas).capped = (h.manager \in Capped)
         /\ Exit(kind, h, deltas).deltas = deltas
<1>1. h.manager \in ManagerSet
  BY HoldingBins
<1> DEFINE b == h.manager \in Capped
<1>2. b \in BOOLEAN
  OBVIOUS
<1>3. Exit(kind, h, deltas) = [kind |-> kind, to |-> h.manager, capped |-> b, deltas |-> deltas, pay |-> Nothing]
  BY DEF Exit
<1> HIDE DEF b
<1>4. [kind |-> kind, to |-> h.manager, capped |-> b, deltas |-> deltas, pay |-> Nothing] \in Tx
  BY <1>1, <1>2, NothingType DEF Tx
<1>5. Exit(kind, h, deltas).capped = b
  BY <1>3
<1> QED
  BY <1>3, <1>4, <1>5 DEF b

LEMMA EmptyDeltas == <<>> \in Seq(Nat)
  OBVIOUS

(* An approval, if one is needed.                                          *)
Grants(tx, m, c, pay) ==
  /\ tx \in Tx /\ tx.kind = "approve" /\ tx.to = m
  /\ \A d \in Slots : tx.pay[d] = IF d = c THEN pay[c] ELSE 0

LEMMA ApprovalIs ==
  ASSUME NEW m \in ManagerSet, NEW c \in Slots, NEW pay \in [Slots -> Nat],
         allowed \in [ManagerSet -> [Slots -> Nat]]
  PROVE  \/ Approval(m, c, pay) = <<>> /\ pay[c] <= allowed[m][c]
         \/ \E tx : Grants(tx, m, c, pay) /\ Approval(m, c, pay) = <<tx>>
<1> DEFINE p == [Nothing EXCEPT ![c] = pay[c]]
           tx == [kind |-> "approve", to |-> m, capped |-> FALSE, deltas |-> <<>>, pay |-> p]
<1>1. allowed[m][c] \in Nat /\ pay[c] \in Nat
  OBVIOUS
<1>2. p \in [Slots -> Nat] /\ \A d \in Slots : p[d] = IF d = c THEN pay[c] ELSE 0
  BY DEF Nothing
<1>3. CASE pay[c] > 0 /\ allowed[m][c] < pay[c]
  <2>1. Approval(m, c, pay) = <<tx>>
    BY <1>3 DEF Approval
  <2> HIDE DEF p
  <2>2. Grants(tx, m, c, pay)
    BY <1>2, EmptyDeltas DEF Grants, Tx
  <2> QED
    BY <2>1, <2>2
<1>4. CASE ~(pay[c] > 0 /\ allowed[m][c] < pay[c])
  BY <1>1, <1>4 DEF Approval
<1> QED
  BY <1>3, <1>4

LEMMA CallIs ==
  ASSUME AgentInv, call # None, call.found # None
  PROVE  call.found \in Holding /\ call.bps \in Nat /\ call.bps <= 10000
<1>1. call \in Call
  BY DEF AgentInv, AgentTypeOK
<1>2. call.bps \in Percents /\ call.found \in Holding
  BY <1>1 DEF Call
<1> QED
  BY <1>2, AgentAssumption

LEMMA BuiltExit ==
  ASSUME AgentInv, call # None, call.found # None, call.tool \in {"decrease", "close", "collect"}
  PROVE  /\ Built \in Seq(Tx) /\ \A k \in DOMAIN Built : Meant(Built[k])
         /\ undisturbed => Ready(Built)
<1> DEFINE h == call.found
           deltas == IF call.tool = "decrease" THEN ProportionalDeltas(h.bins, call.bps) ELSE <<>>
           tx == Exit(call.tool, h, deltas)
<1>1. h \in Holding /\ call.bps \in Nat /\ call.bps <= 10000
  BY CallIs
<1>2. /\ deltas \in Seq(Nat)
      /\ call.tool = "decrease" =>
           DOMAIN deltas = DOMAIN h.bins /\ \A k \in DOMAIN h.bins : deltas[k] <= h.bins[k].liquidity
  <2>1. CASE call.tool = "decrease"
    <3>1. BinsOK(h.bins)
      BY <1>1, HoldingBins
    <3>2. deltas = ProportionalDeltas(h.bins, call.bps)
      BY <2>1
    <3> HIDE DEF deltas, h
    <3> QED
      BY <1>1, <3>1, <3>2, DeltasFit
  <2>2. CASE call.tool # "decrease"
    BY <2>2, EmptyDeltas
  <2> QED
    BY <2>1, <2>2
<1>3. Built = <<tx>>
  BY DEF Built
<1> HIDE DEF deltas
<1>4. /\ tx \in Tx /\ tx.kind = call.tool /\ tx.to = h.manager
      /\ tx.capped = (h.manager \in Capped) /\ tx.deltas = deltas
  BY <1>1, <1>2, ExitType
<1> HIDE DEF tx
<1>5. Meant(tx)
  BY <1>2, <1>4 DEF Meant, AgentInv
<1>6. ASSUME undisturbed PROVE Suits(tx) /\ tx.kind # "approve" /\ tx.kind # "increase"
  <2>1. held = h /\ held # None
    BY <1>6 DEF AgentInv
  <2> QED
    BY <1>2, <1>4, <2>1 DEF Suits
<1>7. Built \in Seq(Tx) /\ Len(Built) = 1 /\ Built[1] = tx /\ DOMAIN Built = 1 .. 1
  BY <1>3, <1>4
<1> QED
  BY <1>5, <1>6, <1>7 DEF Ready

LEMMA BuiltIncrease ==
  ASSUME AgentInv, call # None, call.found # None, call.tool = "increase"
  PROVE  /\ Built \in Seq(Tx) /\ \A k \in DOMAIN Built : Meant(Built[k])
         /\ undisturbed => Ready(Built)
<1> DEFINE h == call.found
           deltas == ProportionalDeltas(h.bins, call.bps)
           needs == Worth(h.bins, deltas, poolTick)
           pay == [c \in Slots |-> Headroom(needs[c])]
           m == h.manager
           tx == [kind |-> "increase", to |-> m, capped |-> TRUE, deltas |-> deltas, pay |-> pay]
<1>1. h \in Holding /\ call.bps \in Nat /\ call.bps <= 10000 /\ poolTick \in DOMAIN SqrtPrice
  BY CallIs DEF AgentInv, AgentTypeOK
<1>2. deltas \in Seq(Nat) /\ DOMAIN deltas = DOMAIN h.bins /\ m \in ManagerSet /\ BinsOK(h.bins)
  BY <1>1, DeltasFit, HoldingBins
<1>3. Built = Approval(m, 0, pay) \o Approval(m, 1, pay) \o <<tx>>
  BY DEF Built, IncreaseTxs
<1> HIDE DEF deltas
<1>4. needs \in [Slots -> Nat]
  BY <1>1, <1>2, WorthNat
<1>5. ASSUME undisturbed PROVE h = held /\ held # None /\ needs = Worth(held.bins, deltas, poolTick)
  BY <1>5 DEF AgentInv
<1> HIDE DEF needs
<1>6. pay \in [Slots -> Nat] /\ \A c \in Slots : pay[c] = Headroom(needs[c])
  BY <1>4, HeadroomAbove
<1> HIDE DEF pay
<1>7. tx \in Tx /\ tx.kind = "increase" /\ tx.to = m /\ tx.deltas = deltas /\ tx.pay = pay
  BY <1>2, <1>6 DEF Tx
<1> HIDE DEF tx
<1>8. Meant(tx)
  BY <1>2, <1>7 DEF Meant, AgentInv
<1>9. ASSUME undisturbed PROVE Suits(tx)
  BY <1>5, <1>6, <1>7, <1>9 DEF Suits
<1>10. allowed \in [ManagerSet -> [Slots -> Nat]]
  BY DEF AgentInv, AgentTypeOK
<1> HIDE DEF m, h
<1> DEFINE Granted(c) == pay[c] <= allowed[m][c]
           Good(x, c) == Grants(x, m, c, pay)
<1>11. ASSUME NEW c \in Slots
       PROVE  (Approval(m, c, pay) = <<>> /\ Granted(c)) \/ \E x : Good(x, c) /\ Approval(m, c, pay) = <<x>>
  BY <1>2, <1>6, <1>10, <1>11, ApprovalIs
<1>12. ASSUME NEW x, NEW c \in Slots, Good(x, c)
       PROVE  /\ x \in Tx /\ x.kind = "approve" /\ x.to = tx.to /\ Meant(x)
              /\ x.pay[c] = tx.pay[c]
              /\ \A d \in Slots : x.pay[d] \in {0, tx.pay[d]}
  BY <1>7, <1>12 DEF Grants, Meant
<1>13. 0 \in Slots /\ 1 \in Slots /\ \A c \in Slots : c = 0 \/ c = 1
  BY DEF Slots
<1> HIDE DEF Good
<1>14. CASE Approval(m, 0, pay) = <<>> /\ Approval(m, 1, pay) = <<>> /\ Granted(0) /\ Granted(1)
  <2>1. Built \in Seq(Tx) /\ Len(Built) = 1 /\ Built[1] = tx /\ DOMAIN Built = 1 .. 1
    <3>1. Built = <<>> \o <<>> \o <<tx>>
      BY <1>3, <1>14
    <3> QED
      BY <1>7, <3>1, Catenated, OneIs
  <2> QED
    BY <1>7, <1>8, <1>9, <1>13, <1>14, <2>1 DEF Ready
<1>15. ASSUME Approval(m, 0, pay) = <<>>, Granted(0), NEW y, Good(y, 1), Approval(m, 1, pay) = <<y>>
       PROVE  /\ Built \in Seq(Tx) /\ \A k \in DOMAIN Built : Meant(Built[k])
              /\ undisturbed => Ready(Built)
  <2>1. /\ y \in Tx /\ y.kind = "approve" /\ y.to = tx.to /\ Meant(y) /\ y.pay[1] = tx.pay[1]
        /\ \A d \in Slots : y.pay[d] \in {0, tx.pay[d]}
    BY <1>12, <1>13, <1>15
  <2>2. /\ Built \in Seq(Tx) /\ Len(Built) = 2 /\ Built[1] = y /\ Built[2] = tx /\ DOMAIN Built = 1 .. 2
    <3>1. Built = <<>> \o <<y>> \o <<tx>>
      BY <1>3, <1>15
    <3>2. <<y>> \in Seq(Tx) /\ Len(<<y>>) = 1 /\ <<y>>[1] = y /\ <<>> \in Seq(Tx) /\ Len(<<>>) = 0
      BY <2>1, OneIs
    <3> QED
      BY <1>7, <3>1, <3>2, Catenated
  <2> QED
    BY <1>7, <1>8, <1>9, <1>13, <1>15, <2>1, <2>2 DEF Ready
<1>16. ASSUME Approval(m, 1, pay) = <<>>, Granted(1), NEW y, Good(y, 0), Approval(m, 0, pay) = <<y>>
       PROVE  /\ Built \in Seq(Tx) /\ \A k \in DOMAIN Built : Meant(Built[k])
              /\ undisturbed => Ready(Built)
  <2>1. /\ y \in Tx /\ y.kind = "approve" /\ y.to = tx.to /\ Meant(y) /\ y.pay[0] = tx.pay[0]
        /\ \A d \in Slots : y.pay[d] \in {0, tx.pay[d]}
    BY <1>12, <1>13, <1>16
  <2>2. /\ Built \in Seq(Tx) /\ Len(Built) = 2 /\ Built[1] = y /\ Built[2] = tx /\ DOMAIN Built = 1 .. 2
    <3>1. Built = <<y>> \o <<>> \o <<tx>>
      BY <1>3, <1>16
    <3>2. <<y>> \in Seq(Tx) /\ Len(<<y>>) = 1 /\ <<y>>[1] = y /\ <<>> \in Seq(Tx) /\ Len(<<>>) = 0
      BY <2>1, OneIs
    <3> QED
      BY <1>7, <3>1, <3>2, Catenated
  <2> QED
    BY <1>7, <1>8, <1>9, <1>13, <1>16, <2>1, <2>2 DEF Ready
<1>17. ASSUME NEW x, Good(x, 0), Approval(m, 0, pay) = <<x>>, NEW y, Good(y, 1), Approval(m, 1, pay) = <<y>>
       PROVE  /\ Built \in Seq(Tx) /\ \A k \in DOMAIN Built : Meant(Built[k])
              /\ undisturbed => Ready(Built)
  <2>1. /\ x \in Tx /\ x.kind = "approve" /\ x.to = tx.to /\ Meant(x) /\ x.pay[0] = tx.pay[0]
        /\ \A d \in Slots : x.pay[d] \in {0, tx.pay[d]}
    BY <1>12, <1>13, <1>17
  <2>2. /\ y \in Tx /\ y.kind = "approve" /\ y.to = tx.to /\ Meant(y) /\ y.pay[1] = tx.pay[1]
        /\ \A d \in Slots : y.pay[d] \in {0, tx.pay[d]}
    BY <1>12, <1>13, <1>17
  <2>3. /\ Built \in Seq(Tx) /\ Len(Built) = 3 /\ DOMAIN Built = 1 .. 3
        /\ Built[1] = x /\ Built[2] = y /\ Built[3] = tx
    <3>1. Built = <<x>> \o <<y>> \o <<tx>>
      BY <1>3, <1>17
    <3>2. /\ <<x>> \in Seq(Tx) /\ Len(<<x>>) = 1 /\ <<x>>[1] = x
          /\ <<y>> \in Seq(Tx) /\ Len(<<y>>) = 1 /\ <<y>>[1] = y
      BY <2>1, <2>2, OneIs
    <3> QED
      BY <1>7, <3>1, <3>2, Catenated
  <2> QED
    BY <1>7, <1>8, <1>9, <1>13, <1>17, <2>1, <2>2, <2>3 DEF Ready
<1> QED
  BY <1>11, <1>13, <1>14, <1>15, <1>16, <1>17

LEMMA LeastOfThree ==
  ASSUME NEW x \in Nat, NEW y \in Nat, NEW z \in Nat
  PROVE  /\ Min({x, y, z}) \in {x, y, z}
         /\ Min({x, y, z}) <= x /\ Min({x, y, z}) <= y /\ Min({x, y, z}) <= z
<1> DEFINE T == {x, y, z}
<1>1. T \in SUBSET Nat /\ T # {}
  OBVIOUS
<1>2. \E k \in T : \A j \in T : k <= j
  <2> HIDE DEF T
  <2> QED
    BY <1>1, Least
<1>3. Min(T) \in T /\ \A j \in T : Min(T) <= j
  <2> HIDE DEF T
  <2> QED
    BY <1>2 DEF Min
<1> QED
  BY <1>3

(* What another position of the same ranges leaves of the invariant.       *)
SameRanges ==
  /\ held' \in Holding \cup {None}
  /\ held' # None => held # None /\ DOMAIN held'.bins = DOMAIN held.bins

LEMMA StillHeld ==
  ASSUME AgentInv, UNCHANGED held
  PROVE  SameRanges
  BY DEF AgentInv, AgentTypeOK, SameRanges

LEMMA StillMeant == ASSUME AgentInv, UNCHANGED todo, SameRanges PROVE AllMeant'
  BY DEF AgentInv, AllMeant, Meant, SameRanges

(* A step that changes neither what is handed out nor what it depends on.  *)
LEMMA StillReady ==
  ASSUME AgentInv, UNCHANGED <<held, poolTick, allowed, todo, undisturbed>>
  PROVE  AllReady'
  BY DEF AgentInv, AllReady, Ready, Suits

LEMMA ImpatientNat == ASSUME AgentInv, Impatient \/ UNCHANGED patience PROVE patience' \in Nat
  BY DEF AgentInv, AgentTypeOK, Impatient

LEMMA FindInv == ASSUME AgentInv, Find PROVE AgentInv'
<1>1. known' \in BOOLEAN /\ patience' \in Nat
  <2>1. patience' \in Nat
    BY ImpatientNat DEF Find
  <2>2. known' \in BOOLEAN
    BY Zenon DEF Find, Listed
  <2> QED
    BY <2>1, <2>2
<1>2. UNCHANGED <<held, poolTick, call, todo, allowed, purse, undisturbed, failed>>
  BY DEF Find
<1>3. AgentTypeOK'
  BY <1>1, <1>2 DEF AgentInv, AgentTypeOK
<1>4. AllMeant' /\ AllReady'
  BY <1>2, StillHeld, StillMeant, StillReady
<1> QED
  BY <1>2, <1>3, <1>4 DEF AgentInv

LEMMA ReverseIs == Reverse(Managers) \in Seq(ManagerSet) \ {<<>>}
<1>1. Managers \in Seq(ManagerSet) /\ Len(Managers) \in Nat /\ Len(Managers) > 0
  BY AgentAssumption
<1>2. \A i \in 1 .. Len(Managers) : Managers[(Len(Managers) - i) + 1] \in ManagerSet
  BY <1>1, ElementOfSeq
<1>3. Reverse(Managers) = [i \in 1 .. Len(Managers) |-> Managers[(Len(Managers) - i) + 1]]
  BY DEF Reverse
<1> DEFINE r == Reverse(Managers)
<1>4. r = [i \in 1 .. Len(Managers) |-> r[i]] /\ \A i \in 1 .. Len(Managers) : r[i] \in ManagerSet
  BY <1>2, <1>3
<1>5. DOMAIN r = 1 .. Len(Managers)
  BY <1>3
<1> HIDE DEF r
<1>6. r \in Seq(ManagerSet)
  BY <1>1, <1>4, SequenceIs
<1>7. r # <<>>
  BY <1>1, <1>5, <1>6
<1> QED
  BY <1>6, <1>7 DEF r

LEMMA CallToolInv ==
  ASSUME AgentInv, NEW tool \in {"increase", "decrease", "close", "collect", "status"},
         NEW bps \in Percents, CallTool(tool, bps)
  PROVE  AgentInv'
<1>1. patience' \in Nat
  BY ImpatientNat DEF CallTool
<1>2. /\ call' = [tool |-> tool, bps |-> bps, left |-> Reverse(Managers), found |-> None]
      /\ todo = <<>> /\ undisturbed' = TRUE
      /\ UNCHANGED <<held, poolTick, known, todo, allowed, purse, failed>>
  BY DEF CallTool
<1>3. call' \in Call /\ call'.found = None
  BY <1>2, ReverseIs DEF Call
<1>4. AgentTypeOK'
  BY <1>1, <1>2, <1>3 DEF AgentInv, AgentTypeOK
<1> QED
  BY <1>2, <1>3, <1>4 DEF AgentInv, AllMeant, AllReady

LEMMA CallFields ==
  ASSUME NEW c \in Call, NEW l \in Seq(ManagerSet) \ {<<>>}, NEW f \in Holding
  PROVE  /\ [c EXCEPT !.left = l] \in Call /\ [c EXCEPT !.left = l].found = c.found
         /\ [c EXCEPT !.found = f] \in Call /\ [c EXCEPT !.found = f].found = f
  BY DEF Call

LEMMA ProbeInv == ASSUME AgentInv, Probe PROVE AgentInv'
<1>1. patience' \in Nat
  BY ImpatientNat DEF Probe
<1>2. /\ call # None /\ call.found = None
      /\ UNCHANGED <<held, poolTick, known, todo, allowed, purse, undisturbed, failed>>
  BY DEF Probe
<1>3. call \in Call /\ todo = <<>>
  BY <1>2 DEF AgentInv, AgentTypeOK
<1>4. \/ call' = None
      \/ call' \in Call /\ call'.found = None
      \/ call' \in Call /\ call'.found = held /\ held # None
  <2>1. CASE held # None /\ call' = [call EXCEPT !.found = held]
    <3>1. held \in Holding /\ call.left \in Seq(ManagerSet) \ {<<>>}
      BY <1>3, <2>1 DEF AgentInv, AgentTypeOK, Call
    <3> QED
      BY <1>3, <2>1, <3>1, CallFields
  <2>2. CASE Len(call.left) = 1 /\ call' = None
    BY <2>2
  <2>3. CASE Len(call.left) # 1 /\ call' = [call EXCEPT !.left = Tail(call.left)]
    <3>1. call.left \in Seq(ManagerSet) /\ call.left # <<>>
      BY <1>3 DEF Call
    <3>2. Tail(call.left) \in Seq(ManagerSet) /\ Len(Tail(call.left)) = Len(call.left) - 1
      BY <3>1, HeadTailProperties
    <3>3. Tail(call.left) # <<>>
      <4>1. Len(call.left) \in Nat /\ Len(call.left) # 0
        BY <3>1
      <4>2. Len(Tail(call.left)) # 0
        BY <2>3, <3>2, <4>1
      <4>3. Len(<<>>) = 0
        OBVIOUS
      <4> QED
        BY <4>2, <4>3
    <3> DEFINE l == Tail(call.left)
    <3>4. l \in Seq(ManagerSet) \ {<<>>}
      BY <3>2, <3>3
    <3> HIDE DEF l
    <3>5. call' = [call EXCEPT !.left = l]
      BY <2>3 DEF l
    <3>6. [call EXCEPT !.left = l] \in Call /\ [call EXCEPT !.left = l].found = call.found
      BY <1>3, <3>4 DEF Call
    <3> QED
      BY <1>2, <3>5, <3>6
  <2> QED
    BY <1>2, <2>1, <2>2, <2>3 DEF Probe
<1>5. AgentTypeOK'
  BY <1>1, <1>2, <1>4 DEF AgentInv, AgentTypeOK
<1> QED
  BY <1>2, <1>3, <1>4, <1>5 DEF AgentInv, AllMeant, AllReady

LEMMA BuildInv == ASSUME AgentInv, Build PROVE AgentInv'
<1>1. patience' \in Nat
  BY ImpatientNat DEF Build
<1>2. /\ call # None /\ call.found # None /\ call' = None /\ (todo' = Built \/ todo' = todo)
      /\ UNCHANGED <<held, poolTick, known, allowed, purse, undisturbed, failed>>
  BY DEF Build
<1>3. call \in Call /\ todo = <<>>
  BY <1>2 DEF AgentInv, AgentTypeOK
<1>4. CASE todo' = <<>>
  <2>1. AgentTypeOK'
    BY <1>1, <1>2, <1>4 DEF AgentInv, AgentTypeOK
  <2> QED
    BY <1>2, <1>4, <2>1 DEF AgentInv, AllMeant, AllReady
<1>5. CASE todo' = Built /\ call.tool # "status"
  <2>1. /\ Built \in Seq(Tx) /\ \A k \in DOMAIN Built : Meant(Built[k])
        /\ undisturbed => Ready(Built)
    BY <1>2, <1>3, <1>5, BuiltExit, BuiltIncrease DEF Call
  <2>2. AgentTypeOK'
    BY <1>1, <1>2, <1>5, <2>1 DEF AgentInv, AgentTypeOK
  <2> DEFINE new == Built
  <2>4. /\ todo' = new /\ \A k \in DOMAIN new : Meant(new[k])
        /\ undisturbed => Ready(new)
    BY <1>5, <2>1
  <2> HIDE DEF new
  <2>5. AllMeant'
    BY <1>2, <2>4 DEF AllMeant, Meant
  <2>6. AllReady'
    BY <1>2, <2>4 DEF AllReady, Ready, Suits
  <2> QED
    BY <1>2, <2>2, <2>5, <2>6 DEF AgentInv
<1>6. call.tool = "status" => Built = <<>>
  BY DEF Built
<1> QED
  BY <1>2, <1>3, <1>4, <1>5, <1>6

LEMMA ElsewhereInv == ASSUME AgentInv, Elsewhere PROVE AgentInv'
<1>1. patience' \in Nat
  BY ImpatientNat DEF Elsewhere
<1>2. /\ held # None /\ undisturbed' = FALSE
      /\ UNCHANGED <<known, call, todo, allowed, purse, failed>>
  BY DEF Elsewhere
<1>3. held \in Holding /\ BinsOK(held.bins)
  BY <1>2, HoldingBins DEF AgentInv, AgentTypeOK
<1>4. SameRanges /\ poolTick' \in DOMAIN SqrtPrice
  <2> DEFINE half == ProportionalDeltas(held.bins, 5000)
  <2>1. /\ half \in Seq(Nat) /\ DOMAIN half = DOMAIN held.bins
        /\ \A k \in DOMAIN held.bins : half[k] <= held.bins[k].liquidity
    BY <1>3, DeltasFit
  <2>2. poolTick \in DOMAIN SqrtPrice
    BY DEF AgentInv, AgentTypeOK
  <2> HIDE DEF half
  <2>3. CASE held' = Grown(held, All(held)) /\ poolTick' = poolTick
    BY <1>2, <1>3, <2>2, <2>3, AllFit, GrownIs DEF SameRanges
  <2>4. CASE held' = Without(held, half) /\ poolTick' = poolTick
    BY <1>2, <1>3, <2>1, <2>2, <2>4, WithoutIs DEF SameRanges
  <2>5. CASE held' = None /\ poolTick' = poolTick
    BY <2>2, <2>5 DEF SameRanges
  <2>6. CASE poolTick' \in DOMAIN SqrtPrice /\ held' = held
    BY <1>2, <1>3, <2>6 DEF SameRanges
  <2> QED
    BY <2>3, <2>4, <2>5, <2>6 DEF Elsewhere, half
<1>5. AgentTypeOK'
  BY <1>1, <1>2, <1>4 DEF AgentInv, AgentTypeOK, SameRanges
<1>6. AllMeant' /\ AllReady'
  BY <1>2, <1>4, StillMeant DEF AllReady
<1>7. call # None /\ call.found # None /\ held' # None => DOMAIN call.found.bins = DOMAIN held'.bins
  BY <1>4 DEF AgentInv, SameRanges
<1> QED
  BY <1>2, <1>5, <1>6, <1>7 DEF AgentInv

(* What a transaction that is accepted changes.                            *)
LEMMA CarriedTyped ==
  ASSUME AgentInv, NEW tx \in Tx, Meant(tx), Accepted(tx), Carried(tx)
  PROVE  /\ SameRanges /\ allowed' \in [ManagerSet -> [Slots -> Nat]]
         /\ purse' \in [Slots -> Nat]
<1>1. /\ held \in Holding \cup {None} /\ poolTick \in DOMAIN SqrtPrice
      /\ allowed \in [ManagerSet -> [Slots -> Nat]] /\ purse \in [Slots -> Nat]
  BY DEF AgentInv, AgentTypeOK
<1>2. /\ tx.to \in ManagerSet /\ tx.pay \in [Slots -> Nat] /\ tx.deltas \in Seq(Nat)
      /\ tx.kind \in {"approve", "increase", "decrease", "close", "collect"}
  BY DEF Tx
<1>3. CASE tx.kind = "approve"
  <2> DEFINE row == [c \in Slots |-> IF tx.pay[c] > 0 THEN tx.pay[c] ELSE allowed[tx.to][c]]
  <2>1. UNCHANGED <<held, purse>> /\ allowed' = [allowed EXCEPT ![tx.to] = row]
    BY <1>3 DEF Carried
  <2>2. row \in [Slots -> Nat]
    BY <1>1, <1>2
  <2> HIDE DEF row
  <2> QED
    BY <1>1, <1>2, <2>1, <2>2 DEF SameRanges
<1>4. CASE tx.kind = "increase"
  <2>1. held # None /\ held \in Holding /\ BinsOK(held.bins) /\ DOMAIN tx.deltas = DOMAIN held.bins
    BY <1>1, <1>4, HoldingBins DEF Accepted, Meant
  <2> DEFINE pulled == Charge(held.bins, tx.deltas, poolTick)
             row == [c \in Slots |-> allowed[tx.to][c] - pulled[c]]
  <2>2. pulled \in [Slots -> Nat]
    BY <1>1, <1>2, <2>1, ChargeIs
  <2>3. \A c \in Slots : pulled[c] <= Min({tx.pay[c], allowed[tx.to][c], purse[c]})
    BY <1>4 DEF Accepted
  <2>4. /\ held' = Grown(held, tx.deltas)
        /\ allowed' = [allowed EXCEPT ![tx.to] = row]
        /\ purse' = [c \in Slots |-> purse[c] - pulled[c]]
    BY <1>4 DEF Carried
  <2> HIDE DEF pulled
  <2>5. ASSUME NEW c \in Slots
        PROVE  allowed[tx.to][c] - pulled[c] \in Nat /\ purse[c] - pulled[c] \in Nat
    <3>1. tx.pay[c] \in Nat /\ allowed[tx.to][c] \in Nat /\ purse[c] \in Nat /\ pulled[c] \in Nat
      BY <1>1, <1>2, <2>2, <2>5
    <3> DEFINE x == tx.pay[c]
               y == allowed[tx.to][c]
               z == purse[c]
    <3>2. Min({x, y, z}) \in {x, y, z} /\ Min({x, y, z}) <= y /\ Min({x, y, z}) <= z
      <4>1. x \in Nat /\ y \in Nat /\ z \in Nat
        BY <3>1
      <4> HIDE DEF x, y, z
      <4> QED
        BY <4>1, LeastOfThree
    <3>3. pulled[c] <= Min({x, y, z})
      BY <2>3, <2>5
    <3> DEFINE m == Min({x, y, z})
    <3> HIDE DEF m
    <3>4. m \in {x, y, z} /\ m <= y /\ m <= z /\ pulled[c] <= m
      BY <3>2, <3>3 DEF m
    <3> QED
      BY <3>1, <3>4
  <2>6. row \in [Slots -> Nat] /\ purse' \in [Slots -> Nat]
    BY <2>4, <2>5
  <2> HIDE DEF row
  <2>7. Grown(held, tx.deltas) \in Holding /\ DOMAIN Grown(held, tx.deltas).bins = DOMAIN held.bins
    BY <1>2, <2>1, GrownIs
  <2> QED
    BY <1>1, <1>2, <2>1, <2>4, <2>6, <2>7 DEF SameRanges
<1>5. CASE tx.kind \in {"decrease", "close"}
  <2>1. held # None /\ held \in Holding /\ BinsOK(held.bins)
    BY <1>1, <1>5, HoldingBins DEF Accepted
  <2> DEFINE deltas == IF tx.kind = "close" THEN All(held) ELSE tx.deltas
             paid == Worth(held.bins, deltas, poolTick)
  <2>2. /\ deltas \in Seq(Nat) /\ DOMAIN deltas = DOMAIN held.bins
        /\ \A k \in DOMAIN held.bins : deltas[k] <= held.bins[k].liquidity
    <3>1. CASE tx.kind = "close"
      BY <2>1, <3>1, AllFit
    <3>2. CASE tx.kind = "decrease"
      BY <1>2, <2>1, <3>2 DEF Accepted, Meant
    <3> QED
      BY <1>5, <3>1, <3>2
  <2>3. /\ held' = Without(held, deltas) /\ allowed' = allowed
        /\ purse' = [c \in Slots |-> purse[c] + paid[c]]
    BY <1>5 DEF Carried
  <2> HIDE DEF deltas
  <2>4. paid \in [Slots -> Nat]
    BY <1>1, <2>1, <2>2, WorthNat
  <2> HIDE DEF paid
  <2>5. purse' \in [Slots -> Nat]
    BY <1>1, <2>3, <2>4
  <2> QED
    BY <1>1, <2>1, <2>2, <2>3, <2>5, WithoutIs DEF SameRanges
<1>6. CASE tx.kind = "collect"
  BY <1>1, <1>6 DEF Carried, SameRanges
<1> QED
  BY <1>2, <1>3, <1>4, <1>5, <1>6

(* The grants of a series carried out, it is ready as before.              *)
LEMMA GrantedReady ==
  ASSUME AgentInv, undisturbed, todo # <<>>, Carried(Head(todo)), todo' = Tail(todo), Tail(todo) # <<>>,
         UNCHANGED <<poolTick, undisturbed>>
  PROVE  AllReady'
<1> DEFINE n == Len(todo)
           main == todo[n]
           tx == todo[1]
           row == [c \in Slots |-> IF tx.pay[c] > 0 THEN tx.pay[c] ELSE allowed[tx.to][c]]
<1>1. todo \in Seq(Tx) /\ Ready(todo) /\ allowed \in [ManagerSet -> [Slots -> Nat]]
  BY DEF AgentInv, AgentTypeOK, AllReady
<1>2. n \in Nat /\ n > 1 /\ Head(todo) = tx
  <2>1. n \in Nat /\ n # 0
    BY <1>1
  <2>2. n # 1
    <3>1. CASE n = 1
      <4>1. Len(Tail(todo)) = 0 /\ Tail(todo) \in Seq(Tx)
        BY <1>1, <3>1, HeadTailProperties
      <4> QED
        BY <4>1, EmptySeq
    <3> QED
      BY <3>1
  <2> QED
    BY <1>1, <2>1, <2>2
<1>3. /\ todo' \in Seq(Tx) /\ Len(todo') = n - 1
      /\ \A k \in 1 .. n - 1 : todo'[k] = todo[k + 1]
  BY <1>1, <1>2, HeadTailProperties
<1>4. /\ main.kind # "approve" /\ Suits(main)
      /\ \A k \in 1 .. n - 1 :
           /\ todo[k].kind = "approve" /\ todo[k].to = main.to
           /\ \A c \in Slots : todo[k].pay[c] \in {0, main.pay[c]}
      /\ main.kind = "increase" =>
           \A c \in Slots : \/ main.pay[c] <= allowed[main.to][c]
                            \/ \E k \in 1 .. n - 1 : todo[k].pay[c] = main.pay[c]
  BY <1>1 DEF Ready
<1>5. /\ tx \in Tx /\ main \in Tx /\ tx.kind = "approve" /\ tx.to = main.to
      /\ tx.to \in ManagerSet /\ tx.pay \in [Slots -> Nat] /\ main.pay \in [Slots -> Nat]
  <2>1. 1 \in 1 .. n - 1 /\ 1 \in 1 .. n /\ n \in 1 .. n
    BY <1>2
  <2>2. tx \in Tx /\ main \in Tx
    BY <1>1, <2>1, ElementOfSeq
  <2> HIDE DEF tx, main
  <2> QED
    BY <1>4, <2>1, <2>2 DEF Tx, tx
<1>6. UNCHANGED held /\ allowed' = [allowed EXCEPT ![tx.to] = row]
  BY <1>2, <1>5 DEF Carried
<1>7. \A c \in Slots : allowed'[main.to][c] = row[c]
  BY <1>1, <1>5, <1>6
<1>8. todo'[Len(todo')] = main /\ Len(todo') - 1 = n - 2
  BY <1>2, <1>3
<1>9. /\ main.kind # "approve" /\ held' # None /\ held'.manager = main.to
      /\ main.kind # "increase" => main.capped = (main.to \in Capped)
      /\ main.kind = "decrease" => \A k \in DOMAIN held'.bins : main.deltas[k] <= held'.bins[k].liquidity
      /\ main.kind = "increase" =>
           \A c \in Slots : main.pay[c] = Headroom(Worth(held'.bins, main.deltas, poolTick')[c])
  BY <1>4, <1>6 DEF Suits
<1>10. ASSUME NEW k \in 1 .. n - 2
       PROVE  /\ todo'[k].kind = "approve" /\ todo'[k].to = main.to
              /\ \A c \in Slots : todo'[k].pay[c] \in {0, main.pay[c]}
  <2>1. k + 1 \in 1 .. n - 1 /\ k \in 1 .. n - 1
    BY <1>2, <1>10
  <2> HIDE DEF main
  <2> QED
    BY <1>3, <1>4, <2>1
<1>11. ASSUME main.kind = "increase", NEW c \in Slots
       PROVE  \/ main.pay[c] <= allowed'[main.to][c]
              \/ \E k \in 1 .. n - 2 : todo'[k].pay[c] = main.pay[c]
  <2> DEFINE x == main.pay[c]
             old == allowed[main.to][c]
             own == tx.pay[c]
  <2>1. /\ own \in {0, x} /\ own \in Nat /\ x \in Nat /\ old \in Nat
        /\ allowed'[main.to][c] = IF own > 0 THEN own ELSE old
    <3>1. 1 \in 1 .. n - 1
      BY <1>2
    <3> QED
      BY <1>1, <1>4, <1>5, <1>7, <1>11, <3>1
  <2>2. x <= old \/ \E k \in 1 .. n - 1 : todo[k].pay[c] = x
    BY <1>4, <1>11
  <2> HIDE DEF old, x, own
  <2>3. CASE own = x \/ x <= old
    BY <2>1, <2>3 DEF x
  <2>4. CASE own # x /\ ~(x <= old)
    <3>1. PICK k \in 1 .. n - 1 : todo[k].pay[c] = x
      BY <2>2, <2>4
    <3>2. k # 1
      BY <2>4, <3>1 DEF own
    <3>3. k - 1 \in 1 .. n - 2 /\ k - 1 \in 1 .. n - 1 /\ (k - 1) + 1 = k
      BY <1>2, <3>2
    <3>4. todo'[k - 1] = todo[k]
      BY <1>3, <3>3
    <3> QED
      BY <3>1, <3>3, <3>4 DEF x
  <2> QED
    BY <2>3, <2>4
<1> HIDE DEF main, n, tx, row
<1> QED
  BY <1>8, <1>9, <1>10, <1>11 DEF AllReady, Ready, Suits

(* What is ready is accepted, if it is sizable and the wallet holds what   *)
(* it may cost.                                                            *)
LEMMA ReadyAccepted ==
  ASSUME AgentInv, undisturbed, todo # <<>>, Sizable(Head(todo)),
         \A c \in Slots : Head(todo).pay[c] <= purse[c]
  PROVE  Accepted(Head(todo))
<1> DEFINE n == Len(todo)
           tx == todo[1]
<1>1. /\ todo \in Seq(Tx) /\ Ready(todo) /\ allowed \in [ManagerSet -> [Slots -> Nat]]
      /\ purse \in [Slots -> Nat] /\ poolTick \in DOMAIN SqrtPrice /\ AllMeant
      /\ held \in Holding \cup {None}
  BY DEF AgentInv, AgentTypeOK, AllReady
<1>2. n \in Nat /\ n > 0 /\ Head(todo) = tx /\ tx \in Tx /\ 1 \in DOMAIN todo
  <2>1. n \in Nat /\ n # 0 /\ Head(todo) = todo[1]
    BY <1>1
  <2>2. 1 \in 1 .. n /\ 1 \in DOMAIN todo
    BY <1>1, <2>1
  <2> QED
    BY <1>1, <2>1, <2>2, ElementOfSeq
<1>3. CASE n > 1
  <2>1. 1 \in 1 .. n - 1
    BY <1>2, <1>3
  <2>2. tx.kind = "approve"
    BY <1>1, <2>1 DEF Ready
  <2> QED
    BY <1>2, <2>2 DEF Accepted
<1>4. CASE n = 1
  <2>1. Suits(tx) /\ (tx.kind = "increase" => \A c \in Slots : tx.pay[c] <= allowed[tx.to][c])
    BY <1>1, <1>4 DEF Ready
  <2>2. tx.to \in ManagerSet /\ tx.pay \in [Slots -> Nat] /\ tx.deltas \in Seq(Nat)
    BY <1>2 DEF Tx
  <2> HIDE DEF tx
  <2>3. ASSUME tx.kind = "increase", NEW c \in Slots
        PROVE  Charge(held.bins, tx.deltas, poolTick)[c] <= Min({tx.pay[c], allowed[tx.to][c], purse[c]})
    <3> DEFINE x == tx.pay[c]
               y == allowed[tx.to][c]
               z == purse[c]
               w == Charge(held.bins, tx.deltas, poolTick)
               v == Worth(held.bins, tx.deltas, poolTick)
               len == Len(held.bins)
    <3>1. x \in Nat /\ y \in Nat /\ z \in Nat /\ x <= y /\ x <= z
      BY <1>1, <1>2, <2>1, <2>2, <2>3
    <3>2. x = Headroom(v[c]) /\ (v[c] >= 100 * len \/ w[c] = 0)
      BY <1>2, <2>1, <2>3 DEF Suits, Sizable
    <3>3. /\ w \in [Slots -> Nat] /\ v \in [Slots -> Nat] /\ len \in Nat
          /\ \A d \in Slots : w[d] <= v[d] + len
      <4>1. held # None /\ DOMAIN tx.deltas = DOMAIN held.bins
        BY <1>1, <1>2, <2>1, <2>3 DEF Suits, AllMeant, Meant, tx
      <4>2. held \in Holding /\ BinsOK(held.bins)
        BY <1>1, <4>1, HoldingBins
      <4> QED
        <5>1. Len(held.bins) \in Nat
          BY <4>2 DEF BinsOK
        <5> QED
          BY <1>1, <2>2, <4>1, <4>2, <5>1, WorthNat, ChargeIs
    <3> HIDE DEF w, v, len, x, y, z
    <3>4. w[c] \in Nat /\ w[c] <= x
      <4>1. w[c] \in Nat /\ v[c] \in Nat /\ w[c] <= v[c] + len
        BY <2>3, <3>3
      <4>2. CASE v[c] >= 100 * len
        <5>1. v[c] + len <= Headroom(v[c])
          BY <3>3, <4>1, <4>2, RoomForEach
        <5> QED
          BY <3>1, <3>2, <3>3, <4>1, <5>1
      <4> QED
        BY <3>1, <3>2, <4>1, <4>2
    <3>5. Min({x, y, z}) \in {x, y, z}
      BY <3>1, LeastOfThree
    <3> DEFINE m == Min({x, y, z})
    <3> HIDE DEF m
    <3>6. m \in {x, y, z}
      BY <3>5 DEF m
    <3>7. w[c] <= m
      BY <3>1, <3>4, <3>6
    <3> QED
      BY <3>7 DEF m, w, x, y, z
  <2> QED
    BY <1>2, <2>1, <2>3 DEF Accepted, Suits
<1>5. n > 1 \/ n = 1
  <2> HIDE DEF n
  <2> QED
    BY <1>2
<1> QED
  BY <1>3, <1>4, <1>5

LEMMA SendInv == ASSUME AgentInv, Send PROVE AgentInv'
<1> DEFINE tx == Head(todo)
<1>1. todo # <<>> /\ call = None /\ UNCHANGED <<poolTick, known, call, undisturbed>>
  BY DEF Send, AgentInv
<1>2. todo \in Seq(Tx) /\ tx \in Tx /\ Tail(todo) \in Seq(Tx) /\ Meant(tx) /\ patience \in Nat
  <2>1. todo \in Seq(Tx) /\ AllMeant /\ patience \in Nat
    BY DEF AgentInv, AgentTypeOK
  <2>2. tx \in Tx /\ Tail(todo) \in Seq(Tx) /\ tx = todo[1] /\ 1 \in DOMAIN todo
    BY <1>1, <2>1, HeadTailProperties
  <2>3. Meant(todo[1])
    BY <2>1, <2>2 DEF AllMeant
  <2> QED
    BY <2>1, <2>2, <2>3
<1>3. failed = FALSE
  BY DEF AgentInv, AgentTypeOK
<1>4. CASE /\ todo' = <<>> /\ UNCHANGED <<held, allowed, purse>> /\ failed' = FALSE /\ patience' \in Nat
  <2>1. todo' \in Seq(Tx)
    BY <1>4, EmptySeq
  <2>2. AgentTypeOK'
    BY <1>1, <1>4, <2>1 DEF AgentInv, AgentTypeOK
  <2> QED
    BY <1>1, <1>4, <2>2 DEF AgentInv, AllMeant, AllReady
<1>5. CASE /\ Accepted(tx) /\ Carried(tx) /\ todo' = Tail(todo) /\ UNCHANGED <<failed, patience>>
  <2>1. SameRanges /\ allowed' \in [ManagerSet -> [Slots -> Nat]] /\ purse' \in [Slots -> Nat]
    BY <1>2, <1>5, CarriedTyped
  <2>2. AgentTypeOK'
    BY <1>1, <1>2, <1>5, <2>1 DEF AgentInv, AgentTypeOK, SameRanges
  <2>3. AllMeant'
    <3>1. \A k \in DOMAIN todo' : k + 1 \in DOMAIN todo /\ todo'[k] = todo[k + 1]
      <4>1. /\ Tail(todo) \in Seq(Tx) /\ Len(Tail(todo)) = Len(todo) - 1 /\ Len(todo) \in Nat
            /\ \A k \in 1 .. Len(Tail(todo)) : Tail(todo)[k] = todo[k + 1]
        BY <1>1, <1>2, HeadTailProperties
      <4> QED
        BY <1>2, <1>5, <4>1
    <3> QED
      BY <2>1, <3>1 DEF AgentInv, AllMeant, Meant, SameRanges
  <2>4. AllReady'
    <3>1. CASE undisturbed /\ Tail(todo) # <<>>
      BY <1>1, <1>5, <3>1, GrantedReady
    <3>2. CASE ~(undisturbed /\ Tail(todo) # <<>>)
      BY <1>1, <1>5, <3>2 DEF AllReady
    <3> QED
      BY <3>1, <3>2
  <2> QED
    BY <1>1, <1>5, <2>2, <2>3, <2>4 DEF AgentInv
<1>6. CASE /\ ~Accepted(tx) /\ todo' = <<>> /\ UNCHANGED <<held, allowed, purse, patience>>
           /\ failed' = (failed \/ (undisturbed /\ Sizable(tx) /\ \A c \in Slots : tx.pay[c] <= purse[c]))
  <2>1. ~(undisturbed /\ Sizable(tx) /\ \A c \in Slots : tx.pay[c] <= purse[c])
    BY <1>1, <1>6, ReadyAccepted
  <2>2. failed' = FALSE
    BY <1>3, <1>6, <2>1
  <2> QED
    BY <1>2, <1>4, <1>6, <2>2
<1>7. ASSUME Impatient PROVE patience' \in Nat
  BY <1>7, ImpatientNat
<1> QED
  BY <1>1, <1>2, <1>3, <1>4, <1>5, <1>6, <1>7 DEF Send

LEMMA AgentInvInit == AgentInit => AgentInv
<1> SUFFICES ASSUME AgentInit PROVE AgentInv
  OBVIOUS
<1>1. /\ held \in Holding \cup {None} /\ poolTick \in DOMAIN SqrtPrice /\ purse \in [Slots -> Nat]
      /\ patience \in Nat
  BY PriceAssumption, AgentAssumption DEF AgentInit
<1>2. known = FALSE /\ call = None /\ todo = <<>> /\ undisturbed = TRUE /\ failed = FALSE
  BY DEF AgentInit
<1>3. allowed \in [ManagerSet -> [Slots -> Nat]] /\ todo \in Seq(Tx)
  BY <1>2 DEF AgentInit
<1>4. AgentTypeOK
  BY <1>1, <1>2, <1>3 DEF AgentTypeOK
<1> QED
  BY <1>2, <1>4 DEF AgentInv, AllMeant, AllReady

LEMMA AgentInvStep ==
  ASSUME AgentInv, [AgentNext]_agentVars
  PROVE  AgentInv'
<1>1. CASE UNCHANGED agentVars
  <2>1. /\ UNCHANGED <<held, poolTick, known, call, todo, allowed, purse, undisturbed, failed>>
        /\ patience' = patience
    BY <1>1 DEF agentVars
  <2>2. AgentTypeOK'
    BY <2>1 DEF AgentInv, AgentTypeOK
  <2>3. AllMeant' /\ AllReady'
    BY <2>1, StillHeld, StillMeant, StillReady
  <2> QED
    BY <2>1, <2>2, <2>3 DEF AgentInv
<1> QED
  BY <1>1, FindInv, CallToolInv, ProbeInv, BuildInv, SendInv, ElsewhereInv DEF AgentNext

-----------------------------------------------------------------------------
(* Where a plan puts its bins.                                             *)

(* The part of PlanFits that takes no arithmetic of amounts.               *)
PlacedAtMarket == plan # None /\ ~terms.error => AtMarket(plan, terms)

(* The deepest of some pairs is one of them.                               *)
LEMMA DeepestIs ==
  ASSUME NEW i \in Ask, IsFiniteSet(i.listed), NEW S \in SUBSET i.listed, S # {}
  PROVE  First(S) \in S
<1> DEFINE Deeper(p) == {q \in S : q.depth > p.depth}
           T == {Deeper(p) : p \in S}
<1>1. \A p \in S : p.depth \in Nat
  BY DEF Ask, Pair
<1>2. T \in SUBSET SUBSET S /\ T # {}
  OBVIOUS
<1>3. IsFiniteSet(S)
  BY FS_Subset
<1>4. PICK X \in T : \A Y \in T : Y \subseteq X => Y = X
  <2> HIDE DEF T
  <2> QED
    BY <1>2, <1>3, FiniteLeast
<1>5. PICK p \in S : X = Deeper(p)
  OBVIOUS
<1>6. \A q \in S : p.depth >= q.depth
  <2> SUFFICES ASSUME NEW q \in S, q.depth > p.depth PROVE FALSE
    BY <1>1
  <2>1. Deeper(q) \in T /\ q \in Deeper(p) /\ q \notin Deeper(q)
    BY <1>1
  <2>2. Deeper(q) \subseteq Deeper(p)
    BY <1>1
  <2> QED
    BY <2>1, <2>2, <1>4, <1>5
<1> QED
  BY <1>6 DEF First

(* Where honest pairs say that the market is, is where the planner finds   *)
(* it.                                                                     *)
LEMMA ReferenceIsMarket ==
  ASSUME NEW i \in Ask, IsFiniteSet(i.listed), Honest(i), QuoteSide(i) \in Rails
  PROVE  LET usd == First(i.listed).usd
         IN  /\ ReferenceTick(i) = OfPool(i, IF QuoteSide(i) = "WETH" THEN usd - i.rate ELSE usd)
             /\ ReferenceTick(i) \in Int
<1> DEFINE usd == First(i.listed).usd
           ether == {p \in i.listed : p.quote \in {"WETH", "NATIVE"}}
<1>1. First(i.listed) \in i.listed
  BY DeepestIs DEF Honest
<1>2. i.listed \subseteq Pair /\ i.rate \in Int \cup {None}
  BY DEF Ask
<1>3. usd \in Int \cup {None}
  BY <1>1, <1>2 DEF Pair
<1>4. usd \in Int /\ i.rate \in Int
  BY <1>2, <1>3 DEF Honest
<1>5. ether # {} => First(ether).price = usd - i.rate
  <2>1. SUFFICES ASSUME ether # {} PROVE First(ether).price = usd - i.rate
    OBVIOUS
  <2>2. First(ether) \in ether
    BY <2>1, DeepestIs
  <2> QED
    BY <2>2 DEF Honest
<1>6. usd - i.rate \in Int /\ usd - i.rate # None /\ usd # None
  BY <1>4, PriceAssumption
<1>7. i.listed # {} /\ i.api /\ i.rate # None
  BY DEF Honest
<1>8. ReferenceTick(i) = OfPool(i, IF QuoteSide(i) = "WETH" THEN usd - i.rate ELSE usd)
  BY <1>5, <1>6, <1>7 DEF ReferenceTick, Rails
<1> QED
  BY <1>4, <1>8 DEF OfPool

(* What the form shows is the plan of the request it shows.                *)
Planned ==
  /\ form \in Requests /\ asked \subseteq Requests /\ tracked \subseteq Requests
  /\ plan # None => plan \in Requests /\ terms = PlanOf(plan)

LEMMA PlannedInit == Init => Planned
  BY DEF Init, Planned

LEMMA PlannedStep == ASSUME Planned, [Next]_vars PROVE Planned'
<1>1. ASSUME UNCHANGED planned PROVE Planned'
  BY <1>1 DEF Planned, planned, shown
<1>2. ASSUME NEW f \in Forms, Edit(f) PROVE Planned'
  BY <1>2, WebAssumption DEF Edit, Planned, shown
<1>3. ASSUME Debounced PROVE Planned'
  BY <1>3 DEF Debounced, Planned, shown
<1>4. ASSUME NEW i \in asked, Answered(i) PROVE Planned'
  BY <1>4 DEF Answered, Arrives, Planned
<1>5. ASSUME Replan PROVE Planned'
  BY <1>5 DEF Replan, Planned, shown
<1>6. ASSUME NEW i \in tracked, Replanned(i) PROVE Planned'
  BY <1>6 DEF Replanned, ShownAgain, Planned
<1>7. ASSUME NEW i \in tracked, ReplanFails(i) PROVE Planned'
  BY <1>7 DEF ReplanFails, Planned, shown
<1>8. ASSUME Read PROVE Planned'
  BY <1>8, <1>1 DEF Read
<1>9. ASSUME StepperStep PROVE Planned'
  BY <1>9, <1>1 DEF StepperStep, Click, StartOpen, StartAgent, StartExit, StartClose, StartSell,
       Sign, Reject, GiveUp, Retry, Cancel, Receipt
<1>10. ASSUME Mine PROVE Planned'
  BY <1>10, <1>1 DEF Mine
<1>11. ASSUME UNCHANGED vars PROVE Planned'
  BY <1>11, <1>1 DEF vars
<1> QED
  BY <1>2, <1>3, <1>4, <1>5, <1>6, <1>7, <1>8, <1>9, <1>10, <1>11 DEF Next, FormStep

(* A live pool within StaleTicks of the market is where it is; the bins of *)
(* any other plan are put at the market itself.                            *)
LEMMA PlacedAtMarketIs ==
  ASSUME NEW i \in Requests, ~WebPlan(Resolve(i)).error
  PROVE  AtMarket(i, WebPlan(Resolve(i)))
<1> DEFINE r == Resolve(i)
           p == WebPlan(r)
           usd == First(i.listed).usd
           market == OfPool(i, IF QuoteSide(i) = "WETH" THEN usd - i.rate ELSE usd)
<1> SUFFICES ASSUME i.caller = "web", i.choice # "bring", QuoteSide(i) \in Rails, Honest(i)
             PROVE  p.anchor - market <= StaleTicks /\ market - p.anchor <= StaleTicks
  BY DEF AtMarket
<1>1. i \in Ask /\ IsFiniteSet(i.listed) /\ StaleTicks \in Nat /\ None \notin Int
  BY WebAssumption, PriceAssumption
<1>2. ReferenceTick(i) = market /\ market \in Int /\ market # None
  BY <1>1, ReferenceIsMarket
<1>3. /\ r.caller = "web" /\ r.brought = FALSE /\ r.market = market
      /\ r.live = (PoolOf(i) # None)
      /\ r.tick = IF PoolOf(i) = None THEN 0 ELSE PoolOf(i).tick
  BY <1>2 DEF Resolve
<1>4. r.tick \in Int
  <2>1. i.pools \subseteq Pool
    BY <1>1 DEF Ask
  <2>2. PoolOf(i) # None => PoolOf(i) \in i.pools
    BY DEF PoolOf
  <2> QED
    BY <1>3, <2>1, <2>2 DEF Pool
<1>5. NoPlan.error
  BY DEF NoPlan
<1>6. ~Refused(r)
  BY <1>5 DEF WebPlan
<1>7. p.anchor = AnchorOf(r)
  <2> DEFINE wing == WingQuote(r)
             base == IF BuysWing(r) THEN WingOut(r, wing) ELSE r.base
             bins == Bins(r, r.quote - wing, base)
  <2>1. p = WebTerms(r, wing, base, bins)
    BY <1>6 DEF WebPlan
  <2> HIDE DEF wing, base, bins, p, r
  <2>2. ~WebTerms(r, wing, base, bins).error
    BY <2>1 DEF p, r
  <2>3. WebTerms(r, wing, base, bins).anchor = AnchorOf(r)
    BY <2>2, <1>5 DEF WebTerms
  <2> QED
    BY <2>1, <2>3
<1> HIDE DEF r, p, market
<1>8. CASE ~r.live \/ NeedsSync(r)
  <2>1. p.anchor = market
    BY <1>7, <1>8, <1>3 DEF AnchorOf
  <2> QED
    BY <2>1, <1>1, <1>2
<1>9. CASE r.live /\ ~NeedsSync(r)
  <2>1. p.anchor = r.tick
    BY <1>7, <1>9 DEF AnchorOf
  <2>2. ~(r.tick - market > StaleTicks \/ market - r.tick > StaleTicks)
    BY <1>9, <1>2, <1>3 DEF NeedsSync
  <2> QED
    BY <2>1, <2>2, <1>1, <1>2, <1>4
<1> QED
  BY <1>8, <1>9

-----------------------------------------------------------------------------
(* What a request comes to.                                                *)

(* One of some pools is the deepest.                                       *)
LEMMA DeepestPool ==
  ASSUME NEW S, IsFiniteSet(S), S # {}, \A p \in S : p.liquidity \in Nat
  PROVE  \E p \in S : \A q \in S : p.liquidity >= q.liquidity
<1> DEFINE Deeper(p) == {q \in S : q.liquidity > p.liquidity}
           T == {Deeper(p) : p \in S}
<1>1. T \in SUBSET SUBSET S /\ T # {}
  OBVIOUS
<1>2. PICK X \in T : \A Y \in T : Y \subseteq X => Y = X
  <2> HIDE DEF T
  <2> QED
    BY <1>1, FiniteLeast
<1>3. PICK p \in S : X = Deeper(p)
  OBVIOUS
<1>4. \A q \in S : p.liquidity >= q.liquidity
  <2> SUFFICES ASSUME NEW q \in S, q.liquidity > p.liquidity PROVE FALSE
    OBVIOUS
  <2>1. Deeper(q) \in T /\ q \in Deeper(p) /\ q \notin Deeper(q)
    OBVIOUS
  <2>2. Deeper(q) \subseteq Deeper(p)
    OBVIOUS
  <2> QED
    BY <2>1, <2>2, <1>2, <1>3
<1> QED
  BY <1>4

LEMMA KeyTyped == ASSUME NEW i \in Requests PROVE KeyOf(i) \in PoolKey
<1>1. i \in Ask /\ IsFiniteSet(i.pools)
  BY WebAssumption
<1>2. i.pools \subseteq Pool /\ i.key \in PoolKey /\ i.sides \in Currencies \X Currencies
  BY <1>1 DEF Ask
<1>3. QuoteSide(i) \in Currencies
  BY <1>2 DEF QuoteSide
<1>4. [hook |-> Standard, spacing |-> DefaultSpacing[QuoteSide(i)]] \in PoolKey
  <2>1. DefaultSpacing[QuoteSide(i)] \in Nat \ {0}
    BY <1>3, WebAssumption
  <2>2. Standard \in Hook
    BY DEF Standard, Hook
  <2> QED
    BY <2>1, <2>2 DEF PoolKey
<1> DEFINE S == DiscoverFriarPools(i)
           other == Deepest(S)
<1>5. S \subseteq i.pools
  BY DEF DiscoverFriarPools, DiscoverV4Pools
<1>6. S # {} => other \in S
  <2>1. SUFFICES ASSUME S # {} PROVE other \in S
    OBVIOUS
  <2>2. IsFiniteSet(S)
    BY <1>1, <1>5, FS_Subset
  <2>3. \A p \in S : p.liquidity \in Nat
    BY <1>2, <1>5 DEF Pool
  <2>4. \E p \in S : \A q \in S : p.liquidity >= q.liquidity
    <3> HIDE DEF S
    <3> QED
      BY <2>1, <2>2, <2>3, DeepestPool
  <2> HIDE DEF S
  <2> QED
    BY <2>1, <2>4 DEF Deepest
<1>7. other # None => other.key \in PoolKey
  <2>1. S = {} => other = None
    BY DEF Deepest
  <2> QED
    BY <1>2, <1>5, <1>6, <2>1 DEF Pool
<1> HIDE DEF S
<1> QED
  BY <1>2, <1>4, <1>7 DEF KeyOf, S

(* A request as the planners take it.                                      *)
ResolvedTo(i, r) ==
  /\ r.caller = i.caller /\ r.style \in {"shaped", "simple"} /\ r.shape \in {"spot", "curve", "bidask"}
  /\ r.below \in Nat /\ r.above \in Nat /\ r.mode \in {"both", "zap"}
  /\ r.quote \in Nat /\ r.base \in Nat /\ r.wingPct \in 0 .. 100
  /\ r.quoteIs0 \in BOOLEAN /\ r.spacing \in Nat \ {0}
  /\ r.pools \in SUBSET Pool /\ IsFiniteSet(r.pools)
  /\ r.router # None => r.router.fee \in 0 .. 100

LEMMA ResolvedIs == ASSUME NEW i \in Requests PROVE ResolvedTo(i, Resolve(i))
<1>1. i \in Ask /\ IsFiniteSet(i.pools) /\ KeyOf(i) \in PoolKey
  BY WebAssumption, KeyTyped
<1>2. i.orientation \in BOOLEAN /\ i.pools \in SUBSET Pool
  BY <1>1 DEF Ask
<1>3. QuoteIs0(i) \in BOOLEAN
  BY <1>2 DEF QuoteIs0, BroughtQuoteIs0
<1>4. Venues(i) \in SUBSET i.pools
  BY DEF Venues, DiscoverV4Pools
<1>5. Venues(i) \in SUBSET Pool /\ IsFiniteSet(Venues(i))
  BY <1>1, <1>2, <1>4, FS_Subset
<1>6. KeyOf(i).spacing \in Nat \ {0}
  BY <1>1 DEF PoolKey
<1>7. FindRouterPool(i) # None => FindRouterPool(i).fee \in 0 .. 100
  <2> DEFINE priced == {p \in i.listed : p.price # None /\ p.quote = QuoteSide(i)}
             routed == {p \in Top(priced, RouterRows) : p.venue \in {"v3", "v2"}}
  <2> SUFFICES ASSUME FindRouterPool(i) # None PROVE FindRouterPool(i).fee \in 0 .. 100
    OBVIOUS
  <2>1. /\ routed # {}
        /\ FindRouterPool(i) = [tick |-> OfPool(i, First(routed).price), fee |-> First(routed).fee]
    BY DEF FindRouterPool
  <2>2. routed \subseteq i.listed /\ i.listed \in SUBSET Pair /\ IsFiniteSet(i.listed)
    BY <1>1, WebAssumption DEF Ask, Top
  <2> HIDE DEF routed
  <2>3. First(routed) \in routed
    BY <1>1, <2>1, <2>2, DeepestIs
  <2>4. First(routed) \in Pair
    BY <2>2, <2>3
  <2> QED
    BY <2>1, <2>4 DEF Pair
<1> QED
  BY <1>1, <1>3, <1>5, <1>6, <1>7 DEF Resolve, ResolvedTo, Ask

-----------------------------------------------------------------------------
(* Bins between ticks that there are.                                      *)

LaidBin ==
  {b \in [lower : DOMAIN SqrtPrice, upper : DOMAIN SqrtPrice, liquidity : Int] : b.lower < b.upper}

FilledBin == {b \in LaidBin : b.liquidity > 0}

LEMMA TickBetween ==
  ASSUME NEW t \in DOMAIN SqrtPrice, NEW u \in DOMAIN SqrtPrice, NEW v \in Int, t <= v, v <= u
  PROVE  v \in DOMAIN SqrtPrice
<1>1. v \in t .. u
  BY PriceAssumption
<1> QED
  BY <1>1, PriceAssumption

LEMMA TimesAtMost ==
  ASSUME NEW x \in Int, NEW y \in Int, x <= y, NEW m \in Nat
  PROVE  x * m <= y * m /\ x * m \in Int /\ y * m \in Int
  OBVIOUS

LEMMA QuotientInt ==
  ASSUME NEW a \in Int, NEW b \in Int, NEW d \in Nat \ {0}
  PROVE  (a * b) \div d \in Int
<1>1. a * b \in Int
  OBVIOUS
<1> DEFINE x == a * b
<1> HIDE DEF x
<1>2. x \in Int
  BY <1>1 DEF x
<1>3. x \div d \in Int
  BY <1>2
<1> QED
  BY <1>3 DEF x

(* Where a ladder of n bins reaches.                                       *)
LadderFits(side, spacing, tick, n) ==
  LET bucket == BucketOf(tick, spacing)
  IN /\ bucket * spacing \in DOMAIN SqrtPrice
     /\ side = "bid" => (bucket - n) * spacing \in DOMAIN SqrtPrice
     /\ side = "ask" => (bucket + 1 + n) * spacing \in DOMAIN SqrtPrice

LEMMA LadderLays ==
  ASSUME NEW side \in {"bid", "ask"}, NEW spacing \in Nat \ {0}, NEW tick \in Int, NEW n \in Nat,
         NEW shape \in {"spot", "curve", "bidask"}, NEW total \in Int,
         LadderFits(side, spacing, tick, n)
  PROVE  Ladder(side, spacing, tick, n, shape, total) \in Seq(LaidBin)
<1> DEFINE bucket == BucketOf(tick, spacing)
           lower(k) == IF side = "bid" THEN (bucket - k) * spacing ELSE (bucket + k) * spacing
           Deposit(k, l) ==
             IF side = "bid"
             THEN AmountsForLiquidity(SqrtPrice[lower(k) + spacing], lower(k), lower(k) + spacing, l).amount1
             ELSE AmountsForLiquidity(SqrtPrice[lower(k)], lower(k), lower(k) + spacing, l).amount0
           f == [k \in 1 .. n |-> Weight(shape, n, k) * Deposit(k, LRef)]
           denom == SumFunctionOnSet(f, 1 .. n)
           bin(k) == [lower |-> lower(k), upper |-> lower(k) + spacing,
                      liquidity |-> IF denom = 0 THEN 0
                                    ELSE (LRef * total * Weight(shape, n, k)) \div denom]
<1>1. bucket \in Int /\ LRef \in Nat
  BY PriceAssumption DEF BucketOf
<1>2. ASSUME NEW k \in 1 .. n
      PROVE  /\ lower(k) \in DOMAIN SqrtPrice /\ lower(k) + spacing \in DOMAIN SqrtPrice
             /\ lower(k) < lower(k) + spacing /\ lower(k) \in Int
  <2>0. bucket * spacing \in DOMAIN SqrtPrice /\ bucket * spacing \in Int
    BY <1>1 DEF LadderFits
  <2>1. CASE side = "bid"
    <3>1. (bucket - n) * spacing \in DOMAIN SqrtPrice
      BY <2>1 DEF LadderFits
    <3>2. /\ bucket - n <= bucket - k /\ bucket - k <= bucket - k + 1 /\ bucket - k + 1 <= bucket
          /\ bucket - n \in Int /\ bucket - k \in Int /\ bucket - k + 1 \in Int
      BY <1>1
    <3>3. lower(k) = (bucket - k) * spacing
      BY <2>1
    <3>4. (bucket - k + 1) * spacing = (bucket - k) * spacing + spacing
      BY <3>2
    <3> HIDE DEF bucket, lower
    <3>5. /\ (bucket - n) * spacing <= (bucket - k) * spacing
          /\ (bucket - k) * spacing <= (bucket - k + 1) * spacing
          /\ (bucket - k + 1) * spacing <= bucket * spacing
          /\ (bucket - n) * spacing \in Int /\ (bucket - k) * spacing \in Int
          /\ (bucket - k + 1) * spacing \in Int
      BY <1>1, <3>2, TimesAtMost
    <3> DEFINE a == (bucket - n) * spacing
               b == (bucket - k) * spacing
               c == (bucket - k + 1) * spacing
               d == bucket * spacing
    <3>6. a \in DOMAIN SqrtPrice /\ d \in DOMAIN SqrtPrice /\ a <= b /\ b <= c /\ c <= d
          /\ a \in Int /\ b \in Int /\ c \in Int /\ d \in Int /\ c = b + spacing /\ lower(k) = b
      BY <2>0, <3>1, <3>3, <3>4, <3>5
    <3> HIDE DEF a, b, c, d
    <3>7. b \in DOMAIN SqrtPrice /\ c \in DOMAIN SqrtPrice
      <4>1. b <= d /\ a <= c
        BY <3>6
      <4> QED
        BY <3>6, <4>1, TickBetween
    <3> QED
      BY <3>6, <3>7
  <2>2. CASE side = "ask"
    <3>1. (bucket + 1 + n) * spacing \in DOMAIN SqrtPrice
      BY <2>2 DEF LadderFits
    <3>2. /\ bucket <= bucket + k /\ bucket + k <= bucket + k + 1 /\ bucket + k + 1 <= bucket + 1 + n
          /\ bucket + k \in Int /\ bucket + k + 1 \in Int /\ bucket + 1 + n \in Int
      BY <1>1
    <3>3. lower(k) = (bucket + k) * spacing
      BY <2>2
    <3>4. (bucket + k + 1) * spacing = (bucket + k) * spacing + spacing
      BY <3>2
    <3> HIDE DEF bucket, lower
    <3>5. /\ bucket * spacing <= (bucket + k) * spacing
          /\ (bucket + k) * spacing <= (bucket + k + 1) * spacing
          /\ (bucket + k + 1) * spacing <= (bucket + 1 + n) * spacing
          /\ (bucket + 1 + n) * spacing \in Int /\ (bucket + k) * spacing \in Int
          /\ (bucket + k + 1) * spacing \in Int
      BY <1>1, <3>2, TimesAtMost
    <3> DEFINE a == bucket * spacing
               b == (bucket + k) * spacing
               c == (bucket + k + 1) * spacing
               d == (bucket + 1 + n) * spacing
    <3>6. a \in DOMAIN SqrtPrice /\ d \in DOMAIN SqrtPrice /\ a <= b /\ b <= c /\ c <= d
          /\ a \in Int /\ b \in Int /\ c \in Int /\ d \in Int /\ c = b + spacing /\ lower(k) = b
      BY <2>0, <3>1, <3>3, <3>4, <3>5
    <3> HIDE DEF a, b, c, d
    <3>7. b \in DOMAIN SqrtPrice /\ c \in DOMAIN SqrtPrice
      <4>1. b <= d /\ a <= c
        BY <3>6
      <4> QED
        BY <3>6, <4>1, TickBetween
    <3> QED
      BY <3>6, <3>7
  <2> QED
    BY <2>1, <2>2
<1> HIDE DEF bucket, lower
<1>3. ASSUME NEW k \in 1 .. n PROVE Weight(shape, n, k) \in Nat /\ Deposit(k, LRef) \in Nat
  <2>1. Weight(shape, n, k) \in Nat
    <3>1. n - k + 1 \in Nat /\ k \in Nat
      OBVIOUS
    <3> QED
      BY <3>1 DEF Weight
  <2>2. Deposit(k, LRef) \in Nat
    BY <1>1, <1>2, AmountsNat
  <2> QED
    BY <2>1, <2>2
<1> HIDE DEF Deposit
<1>4. denom \in Nat
  <2>1. \A k \in 1 .. n : f[k] \in Nat
    <3> SUFFICES ASSUME NEW k \in 1 .. n PROVE Weight(shape, n, k) * Deposit(k, LRef) \in Nat
      OBVIOUS
    <3> QED
      BY <1>3
  <2>2. IsFiniteSet(1 .. n)
    BY FS_Interval
  <2> HIDE DEF f
  <2> QED
    BY <2>1, <2>2, SumNat
<1> HIDE DEF denom
<1>5. ASSUME NEW k \in 1 .. n PROVE bin(k) \in LaidBin
  <2>1. LRef * total \in Int
    BY <1>1
  <2>2. denom # 0 => (LRef * total * Weight(shape, n, k)) \div denom \in Int
    <3> SUFFICES ASSUME denom # 0 PROVE (LRef * total * Weight(shape, n, k)) \div denom \in Int
      OBVIOUS
    <3>1. denom \in Nat \ {0} /\ Weight(shape, n, k) \in Int
      BY <1>3, <1>4
    <3> QED
      BY <2>1, <3>1, QuotientInt
  <2>3. bin(k).liquidity \in Int
    BY <2>2
  <2> QED
    BY <1>2, <2>3 DEF LaidBin
<1>6. Ladder(side, spacing, tick, n, shape, total) = [k \in 1 .. n |-> bin(k)]
  BY DEF Ladder, SumFunction, denom, f, Deposit, lower, bucket
<1> HIDE DEF bin
<1> QED
  BY <1>5, <1>6

-----------------------------------------------------------------------------
(* The bins of a plan.                                                     *)

LEMMA DepthNat ==
  ASSUME NEW ticks \in Nat, NEW spacing \in Nat \ {0}
  PROVE  BinsForDepth(ticks, spacing) \in Nat
<1>1. ticks > 0 => -((-ticks) \div spacing) \in Nat
  <2>1. SUFFICES ASSUME ticks > 0 PROVE (-ticks) \div spacing <= 0 /\ (-ticks) \div spacing \in Int
    OBVIOUS
  <2> DEFINE m == -ticks
  <2>2. m \in Int /\ m < 0
    BY <2>1
  <2> HIDE DEF m
  <2>3. m \div spacing <= 0 /\ m \div spacing \in Int
    BY <2>2
  <2> QED
    BY <2>3 DEF m
<1> QED
  BY <1>1 DEF BinsForDepth, Ceiling

(* Requests that are planned, and the ticks they need are there.           *)
Plannable(i0, i) ==
  /\ ResolvedTo(i0, i) /\ ~Refused(i)
  /\ Edges(i) \cup Priced(i) \subseteq DOMAIN SqrtPrice

LEMMA PlannableIs ==
  ASSUME NEW i \in Requests, ~Refused(Resolve(i))
  PROVE  Plannable(i, Resolve(i))
  BY ResolvedIs, TicksAssumption DEF Plannable

LEMMA AnchorIs ==
  ASSUME NEW i0, NEW i, Plannable(i0, i)
  PROVE  AnchorOf(i) \in DOMAIN SqrtPrice /\ AnchorOf(i) \in Int
<1>1. AnchorOf(i) \in DOMAIN SqrtPrice
  BY DEF Plannable, Priced
<1> QED
  BY <1>1, PriceAssumption

LEMMA SimpleRangeIs ==
  ASSUME NEW i0, NEW i, Plannable(i0, i), i.style = "simple"
  PROVE  LET r == SimpleRange(AnchorOf(i), i.spacing, i.below, i.above, i.quoteIs0)
         IN r.lower \in DOMAIN SqrtPrice /\ r.upper \in DOMAIN SqrtPrice /\ r.lower < r.upper
<1> DEFINE r == SimpleRange(AnchorOf(i), i.spacing, i.below, i.above, i.quoteIs0)
<1>1. r.lower \in DOMAIN SqrtPrice /\ r.upper \in DOMAIN SqrtPrice
  BY DEF Plannable, Edges
<1>2. r.lower \in Int /\ r.upper \in Int /\ i.spacing \in Nat \ {0}
  BY <1>1, PriceAssumption DEF Plannable, ResolvedTo
<1>3. \E lower, upper, up : r = NotEmpty(lower, upper, up, i.spacing)
  BY DEF SimpleRange
<1>4. PICK lower, upper, up : r = NotEmpty(lower, upper, up, i.spacing)
  BY <1>3
<1> SUFFICES r.lower < r.upper
  BY <1>1
<1> HIDE DEF r
<1>5. CASE upper > lower
  BY <1>4, <1>5 DEF NotEmpty
<1>6. CASE ~(upper > lower) /\ up = 0
  <2>1. r.lower = upper - i.spacing /\ r.upper = upper
    BY <1>4, <1>6 DEF NotEmpty
  <2> QED
    BY <1>2, <2>1
<1>7. CASE ~(upper > lower) /\ up # 0
  <2>1. r.lower = lower /\ r.upper = lower + i.spacing
    BY <1>4, <1>7 DEF NotEmpty
  <2> QED
    BY <1>2, <2>1
<1> QED
  BY <1>5, <1>6, <1>7

(* Between the edges lie the bucket of the anchor and both ladders.        *)
LEMMA BucketFits ==
  ASSUME NEW bucket \in Int, NEW spacing \in Nat \ {0}, NEW down \in Nat, NEW up \in Nat,
         (bucket - down) * spacing \in DOMAIN SqrtPrice,
         (bucket + 1 + up) * spacing \in DOMAIN SqrtPrice
  PROVE  /\ bucket * spacing \in DOMAIN SqrtPrice
         /\ bucket * spacing + spacing \in DOMAIN SqrtPrice
         /\ bucket * spacing < bucket * spacing + spacing
<1>1. /\ bucket - down <= bucket /\ bucket + 1 <= bucket + 1 + up
      /\ bucket - down \in Int /\ bucket + 1 \in Int /\ bucket + 1 + up \in Int
  OBVIOUS
<1>2. (bucket + 1) * spacing = bucket * spacing + spacing
  OBVIOUS
<1>3. /\ (bucket - down) * spacing <= bucket * spacing
      /\ (bucket + 1) * spacing <= (bucket + 1 + up) * spacing
      /\ (bucket - down) * spacing \in Int /\ bucket * spacing \in Int
      /\ (bucket + 1) * spacing \in Int /\ (bucket + 1 + up) * spacing \in Int
  BY <1>1, TimesAtMost
<1> DEFINE a == (bucket - down) * spacing
           b == bucket * spacing
           c == (bucket + 1) * spacing
           d == (bucket + 1 + up) * spacing
<1>4. /\ a \in DOMAIN SqrtPrice /\ d \in DOMAIN SqrtPrice /\ a <= b /\ c = b + spacing /\ c <= d
      /\ a \in Int /\ b \in Int /\ c \in Int /\ d \in Int
  BY <1>2, <1>3
<1> SUFFICES b \in DOMAIN SqrtPrice /\ c \in DOMAIN SqrtPrice /\ b < b + spacing
  BY <1>2
<1> HIDE DEF a, b, c, d
<1>5. b <= d /\ a <= c /\ b < b + spacing
  BY <1>4
<1> QED
  BY <1>4, <1>5, TickBetween

LEMMA ShapedFits ==
  ASSUME NEW i0, NEW i, Plannable(i0, i), i.style = "shaped"
  PROVE  LET nBid == BinsForDepth(i.below, i.spacing)
             nAsk == BinsForDepth(i.above, i.spacing)
             lower == BucketOf(AnchorOf(i), i.spacing) * i.spacing
         IN /\ nBid \in Nat /\ nAsk \in Nat
            /\ LadderFits(IF i.quoteIs0 THEN "ask" ELSE "bid", i.spacing, AnchorOf(i), nBid)
            /\ LadderFits(IF i.quoteIs0 THEN "bid" ELSE "ask", i.spacing, AnchorOf(i), nAsk)
            /\ lower \in DOMAIN SqrtPrice /\ lower + i.spacing \in DOMAIN SqrtPrice
            /\ lower < lower + i.spacing
<1> DEFINE nBid == BinsForDepth(i.below, i.spacing)
           nAsk == BinsForDepth(i.above, i.spacing)
           bucket == BucketOf(AnchorOf(i), i.spacing)
           down == BinsForDepth(IF i.quoteIs0 THEN i.above ELSE i.below, i.spacing)
           up == BinsForDepth(IF i.quoteIs0 THEN i.below ELSE i.above, i.spacing)
<1>1. /\ i.spacing \in Nat \ {0} /\ i.below \in Nat /\ i.above \in Nat /\ i.quoteIs0 \in BOOLEAN
      /\ AnchorOf(i) \in Int
  BY AnchorIs DEF Plannable, ResolvedTo
<1>2. nBid \in Nat /\ nAsk \in Nat
  BY <1>1, DepthNat
<1>3. /\ down = IF i.quoteIs0 THEN nAsk ELSE nBid
      /\ up = IF i.quoteIs0 THEN nBid ELSE nAsk
  OBVIOUS
<1>4. bucket \in Int
  BY <1>1 DEF BucketOf
<1>5. (bucket - down) * i.spacing \in DOMAIN SqrtPrice /\ (bucket + 1 + up) * i.spacing \in DOMAIN SqrtPrice
  BY DEF Plannable, Edges
<1>6. down \in Nat /\ up \in Nat
  BY <1>2, <1>3
<1> HIDE DEF down, up, nBid, nAsk
<1>7. /\ bucket * i.spacing \in DOMAIN SqrtPrice
      /\ bucket * i.spacing + i.spacing \in DOMAIN SqrtPrice
      /\ bucket * i.spacing < bucket * i.spacing + i.spacing
  <2> HIDE DEF bucket
  <2> QED
    BY <1>1, <1>4, <1>5, <1>6, BucketFits
<1>8. /\ LadderFits("bid", i.spacing, AnchorOf(i), down)
      /\ LadderFits("ask", i.spacing, AnchorOf(i), up)
  BY <1>5, <1>7 DEF LadderFits
<1>9. /\ LadderFits(IF i.quoteIs0 THEN "ask" ELSE "bid", i.spacing, AnchorOf(i), nBid)
      /\ LadderFits(IF i.quoteIs0 THEN "bid" ELSE "ask", i.spacing, AnchorOf(i), nAsk)
  BY <1>3, <1>8
<1> QED
  BY <1>2, <1>7, <1>9 DEF nBid, nAsk

LEMMA Joins ==
  ASSUME NEW S, NEW s \in Seq(S), NEW t \in Seq(S)
  PROVE  s \o t \in Seq(S)
  OBVIOUS

LEMMA InnerInt ==
  ASSUME NEW wings, wings.bids \in Seq(LaidBin), wings.asks \in Seq(LaidBin),
         wings.bids # <<>>, wings.asks # <<>>
  PROVE  /\ Inner(wings) \in Int
         /\ wings.bids[1].liquidity > 0 /\ wings.asks[1].liquidity > 0 => Inner(wings) > 0
<1>1. wings.bids[1] \in LaidBin /\ wings.asks[1] \in LaidBin
  OBVIOUS
<1> DEFINE m == wings.bids[1].liquidity
           n == wings.asks[1].liquidity
<1>2. m \in Int /\ n \in Int
  BY <1>1 DEF LaidBin
<1> HIDE DEF m, n
<1>3. Min({m, n}) = IF m <= n THEN m ELSE n
  BY <1>2 DEF Min
<1> QED
  BY <1>2, <1>3 DEF Inner, m, n

LEMMA JoinedIs ==
  ASSUME NEW wings, wings.bids \in Seq(LaidBin), wings.asks \in Seq(LaidBin), NEW fill \in BOOLEAN,
         NEW lower \in DOMAIN SqrtPrice, NEW upper \in DOMAIN SqrtPrice, lower < upper,
         fill => wings.bids # <<>> /\ wings.asks # <<>>
  PROVE  Joined(wings, fill, lower, upper) \in Seq(LaidBin)
<1> DEFINE inner == IF fill THEN Inner(wings) ELSE 0
           active == IF inner > 0 THEN <<[lower |-> lower, upper |-> upper, liquidity |-> inner]>> ELSE <<>>
<1>1. inner \in Int
  BY InnerInt
<1>2. active \in Seq(LaidBin)
  <2> HIDE DEF inner
  <2>1. [lower |-> lower, upper |-> upper, liquidity |-> inner] \in LaidBin
    BY <1>1 DEF LaidBin
  <2> QED
    BY <2>1
<1>3. Joined(wings, fill, lower, upper) = wings.bids \o active \o wings.asks
  BY DEF Joined
<1> HIDE DEF active
<1> QED
  BY <1>2, <1>3, Joins

LEMMA AmountsInt ==
  ASSUME NEW t \in DOMAIN SqrtPrice, NEW lower \in DOMAIN SqrtPrice, NEW upper \in DOMAIN SqrtPrice,
         lower < upper, NEW l \in Int
  PROVE  /\ AmountsForLiquidity(SqrtPrice[t], lower, upper, l).amount0 \in Int
         /\ AmountsForLiquidity(SqrtPrice[t], lower, upper, l).amount1 \in Int
<1> DEFINE a == SqrtPrice[lower]
           b == SqrtPrice[upper]
           p == Max({a, Min({SqrtPrice[t], b})})
<1>1. /\ a \in Nat \ {0} /\ b \in Nat \ {0} /\ SqrtPrice[t] \in Nat /\ a < b
      /\ Scale \in Nat \ {0}
  BY PriceAssumption
<1>2. p \in a .. b
  BY <1>1, BetweenPrices
<1>3. /\ AmountsForLiquidity(SqrtPrice[t], lower, upper, l).amount0 = ((l * Scale * (b - p)) \div b) \div p
      /\ AmountsForLiquidity(SqrtPrice[t], lower, upper, l).amount1 = (l * (p - a)) \div Scale
  BY DEF AmountsForLiquidity
<1> HIDE DEF a, b, p
<1>4. b - p \in Int /\ p - a \in Int /\ p \in Nat \ {0}
  BY <1>1, <1>2
<1>5. l * Scale \in Int
  BY <1>1
<1>6. (l * Scale * (b - p)) \div b \in Int
  BY <1>1, <1>4, <1>5, QuotientInt
<1>7. ((l * Scale * (b - p)) \div b) \div p \in Int
  BY <1>4, <1>6
<1>8. (l * (p - a)) \div Scale \in Int
  BY <1>1, <1>4, QuotientInt
<1> QED
  BY <1>3, <1>7, <1>8

LEMMA LiquidityInt ==
  ASSUME NEW t \in DOMAIN SqrtPrice, NEW lower \in DOMAIN SqrtPrice, NEW upper \in DOMAIN SqrtPrice,
         lower < upper, NEW x \in Int, NEW y \in Int
  PROVE  LiquidityForBoth(SqrtPrice[t], lower, upper, x, y) \in Int
<1> DEFINE s == SqrtPrice[t]
           a == SqrtPrice[lower]
           b == SqrtPrice[upper]
<1>1. /\ a \in Nat \ {0} /\ b \in Nat \ {0} /\ s \in Nat \ {0} /\ a < b /\ Scale \in Nat \ {0}
  BY PriceAssumption
<1>2. LiquidityForBoth(s, lower, upper, x, y)
        = IF s <= a THEN LiquidityForAmount0(a, b, x)
          ELSE IF s >= b THEN LiquidityForAmount1(a, b, y)
          ELSE Min({LiquidityForAmount0(s, b, x), LiquidityForAmount1(a, s, y)})
  BY DEF LiquidityForBoth
<1> HIDE DEF s, a, b
<1>3. ASSUME NEW c \in Nat \ {0}, NEW d \in Nat \ {0}, c < d
      PROVE  LiquidityForAmount0(c, d, x) \in Int /\ LiquidityForAmount1(c, d, y) \in Int
  <2>1. (c * d) \div Scale \in Int /\ d - c \in Nat \ {0} /\ Scale \in Int
    <3>1. c \in Int /\ d \in Int
      OBVIOUS
    <3>2. (c * d) \div Scale \in Int
      BY <1>1, <3>1, QuotientInt
    <3> QED
      BY <1>1, <1>3, <3>2
  <2> DEFINE e == (c * d) \div Scale
             w == d - c
  <2>2. e \in Int /\ w \in Nat \ {0}
    BY <2>1
  <2> HIDE DEF e, w
  <2>3. (x * e) \div w \in Int /\ (y * Scale) \div w \in Int
    BY <2>1, <2>2, QuotientInt
  <2> QED
    BY <2>3 DEF e, w, LiquidityForAmount0, LiquidityForAmount1
<1>4. CASE s <= a
  BY <1>1, <1>2, <1>3, <1>4 DEF s
<1>5. CASE ~(s <= a) /\ s >= b
  BY <1>1, <1>2, <1>3, <1>5 DEF s
<1>6. CASE ~(s <= a) /\ ~(s >= b)
  <2>1. a < s /\ s < b
    BY <1>1, <1>6
  <2> DEFINE m == LiquidityForAmount0(s, b, x)
             n == LiquidityForAmount1(a, s, y)
  <2>2. m \in Int /\ n \in Int
    BY <1>1, <1>3, <2>1
  <2> HIDE DEF m, n
  <2>3. Min({m, n}) = IF m <= n THEN m ELSE n
    BY <2>2 DEF Min
  <2> QED
    BY <1>2, <1>6, <2>2, <2>3 DEF m, n, s
<1> QED
  BY <1>4, <1>5, <1>6

LEMMA SimpleBinsLaid ==
  ASSUME NEW i0, NEW i, Plannable(i0, i), i.style = "simple", NEW quote \in Int, NEW base \in Int
  PROVE  SimpleBins(i, quote, base) \in Seq(LaidBin)
<1> DEFINE r == SimpleRange(AnchorOf(i), i.spacing, i.below, i.above, i.quoteIs0)
           x == IF i.quoteIs0 THEN quote ELSE base
           y == IF i.quoteIs0 THEN base ELSE quote
           l == LiquidityForBoth(SqrtPrice[AnchorOf(i)], r.lower, r.upper, x, y)
<1>1. r.lower \in DOMAIN SqrtPrice /\ r.upper \in DOMAIN SqrtPrice /\ r.lower < r.upper
  BY SimpleRangeIs
<1>2. x \in Int /\ y \in Int /\ AnchorOf(i) \in DOMAIN SqrtPrice
  BY AnchorIs
<1>3. SimpleBins(i, quote, base) = <<[lower |-> r.lower, upper |-> r.upper, liquidity |-> l]>>
  BY DEF SimpleBins
<1>4. l \in Int
  <2> HIDE DEF r, x, y
  <2> QED
    BY <1>1, <1>2, LiquidityInt
<1> HIDE DEF r, l
<1>5. [lower |-> r.lower, upper |-> r.upper, liquidity |-> l] \in LaidBin
  BY <1>1, <1>4 DEF LaidBin
<1> QED
  BY <1>3, <1>5

(* A bin of one bucket.                                                    *)
BinOn(b, m, spacing) == b.lower = m * spacing /\ b.upper = m * spacing + spacing

(* Where the k-th bin of a ladder lies.                                    *)
Rung(side, bucket, k) == IF side = "bid" THEN bucket - k ELSE bucket + k

LEMMA LadderIs ==
  ASSUME NEW side \in {"bid", "ask"}, NEW spacing \in Nat \ {0}, NEW tick \in Int, NEW n \in Nat,
         NEW shape, NEW total
  PROVE  LET ladder == Ladder(side, spacing, tick, n, shape, total)
         IN  /\ DOMAIN ladder = 1 .. n
             /\ \A k \in 1 .. n : BinOn(ladder[k], Rung(side, BucketOf(tick, spacing), k), spacing)
  BY DEF Ladder, BinOn, Rung

(* computeShape, once the reserve is set aside.                            *)
LowerOf(i) == BucketOf(AnchorOf(i), i.spacing) * i.spacing

Filling(i) ==
  /\ SqrtPrice[LowerOf(i)] < SqrtPrice[AnchorOf(i)] /\ SqrtPrice[AnchorOf(i)] < SqrtPrice[LowerOf(i) + i.spacing]
  /\ BinsForDepth(i.below, i.spacing) > 0 /\ BinsForDepth(i.above, i.spacing) > 0

BidSide(i) == IF i.quoteIs0 THEN "ask" ELSE "bid"
AskSide(i) == IF i.quoteIs0 THEN "bid" ELSE "ask"

WingsOf(i, q, b) ==
  [bids |-> Ladder(BidSide(i), i.spacing, AnchorOf(i), BinsForDepth(i.below, i.spacing), i.shape, q),
   asks |-> Ladder(AskSide(i), i.spacing, AnchorOf(i), BinsForDepth(i.above, i.spacing), i.shape, b)]

LEMMA WingsLaid ==
  ASSUME NEW i0, NEW i, Plannable(i0, i), i.style = "shaped", NEW q \in Int, NEW b \in Int
  PROVE  LET bids == WingsOf(i, q, b).bids
             asks == WingsOf(i, q, b).asks
             bucket == BucketOf(AnchorOf(i), i.spacing)
         IN  /\ bids \in Seq(LaidBin) /\ Len(bids) = BinsForDepth(i.below, i.spacing)
             /\ asks \in Seq(LaidBin) /\ Len(asks) = BinsForDepth(i.above, i.spacing)
             /\ \A k \in 1 .. Len(bids) : BinOn(bids[k], Rung(BidSide(i), bucket, k), i.spacing)
             /\ \A k \in 1 .. Len(asks) : BinOn(asks[k], Rung(AskSide(i), bucket, k), i.spacing)
<1> DEFINE nBid == BinsForDepth(i.below, i.spacing)
           nAsk == BinsForDepth(i.above, i.spacing)
           bids == Ladder(BidSide(i), i.spacing, AnchorOf(i), nBid, i.shape, q)
           asks == Ladder(AskSide(i), i.spacing, AnchorOf(i), nAsk, i.shape, b)
<1>1. /\ i.spacing \in Nat \ {0} /\ i.quoteIs0 \in BOOLEAN /\ i.shape \in {"spot", "curve", "bidask"}
      /\ AnchorOf(i) \in Int /\ AnchorOf(i) \in DOMAIN SqrtPrice
  BY AnchorIs DEF Plannable, ResolvedTo
<1>2. /\ nBid \in Nat /\ nAsk \in Nat
      /\ LadderFits(BidSide(i), i.spacing, AnchorOf(i), nBid)
      /\ LadderFits(AskSide(i), i.spacing, AnchorOf(i), nAsk)
  BY ShapedFits DEF BidSide, AskSide
<1>3. BidSide(i) \in {"bid", "ask"} /\ AskSide(i) \in {"bid", "ask"}
  BY DEF BidSide, AskSide
<1>4. WingsOf(i, q, b).bids = bids /\ WingsOf(i, q, b).asks = asks
  BY DEF WingsOf
<1> HIDE DEF nBid, nAsk
<1>5. bids \in Seq(LaidBin) /\ asks \in Seq(LaidBin)
  BY <1>1, <1>2, <1>3, LadderLays
<1>6. DOMAIN bids = 1 .. nBid /\ DOMAIN asks = 1 .. nAsk
  BY <1>1, <1>2, <1>3, LadderIs
<1>7. /\ \A k \in 1 .. nBid : BinOn(bids[k], Rung(BidSide(i), BucketOf(AnchorOf(i), i.spacing), k), i.spacing)
      /\ \A k \in 1 .. nAsk : BinOn(asks[k], Rung(AskSide(i), BucketOf(AnchorOf(i), i.spacing), k), i.spacing)
  BY <1>1, <1>2, <1>3, LadderIs
<1> HIDE DEF bids, asks
<1>8. Len(bids) = nBid /\ Len(asks) = nAsk
  BY <1>2, <1>5, <1>6
<1> QED
  BY <1>4, <1>5, <1>7, <1>8 DEF nBid, nAsk

LEMMA ShapedBinsAre ==
  ASSUME NEW i0, NEW i, Plannable(i0, i), i.style = "shaped", NEW quote \in Int, NEW base \in Int
  PROVE  \E q, b \in Int :
           ShapedBins(i, quote, base)
             = Joined(WingsOf(i, q, b), Filling(i), LowerOf(i), LowerOf(i) + i.spacing)
<1> DEFINE s == SqrtPrice[AnchorOf(i)]
           lower == LowerOf(i)
           upper == lower + i.spacing
           whole == WingsOf(i, quote, base)
           reserve == Reserve(s, lower, upper, Inner(whole))
           q == quote - (IF i.quoteIs0 THEN reserve.amount0 ELSE reserve.amount1)
           b == base - (IF i.quoteIs0 THEN reserve.amount1 ELSE reserve.amount0)
<1>1. ShapedBins(i, quote, base) = Joined(IF Filling(i) THEN WingsOf(i, q, b) ELSE whole, Filling(i), lower, upper)
  BY DEF ShapedBins, ComputeShape, Filling, LowerOf, WingsOf, BidSide, AskSide
<1>2. CASE ~Filling(i)
  BY <1>1, <1>2
<1>3. CASE Filling(i)
  <2>1. BinsForDepth(i.below, i.spacing) > 0 /\ BinsForDepth(i.above, i.spacing) > 0
    BY <1>3 DEF Filling
  <2>2. /\ whole.bids \in Seq(LaidBin) /\ Len(whole.bids) = BinsForDepth(i.below, i.spacing)
        /\ whole.asks \in Seq(LaidBin) /\ Len(whole.asks) = BinsForDepth(i.above, i.spacing)
    BY WingsLaid
  <2> HIDE DEF whole
  <2>3. whole.bids # <<>> /\ whole.asks # <<>>
    BY <2>1, <2>2
  <2>4. Inner(whole) \in Int
    BY <2>2, <2>3, InnerInt
  <2>5. /\ AnchorOf(i) \in DOMAIN SqrtPrice
        /\ lower \in DOMAIN SqrtPrice /\ upper \in DOMAIN SqrtPrice /\ lower < upper
    BY AnchorIs, ShapedFits DEF LowerOf
  <2> HIDE DEF lower, upper
  <2>6. reserve.amount0 \in Int /\ reserve.amount1 \in Int
    BY <2>4, <2>5, AmountsInt DEF Reserve
  <2> HIDE DEF reserve
  <2>7. q \in Int /\ b \in Int
    BY <2>6
  <2> QED
    BY <1>1, <1>3, <2>7 DEF lower, upper
<1> QED
  BY <1>2, <1>3

LEMMA ShapedBinsLaid ==
  ASSUME NEW i0, NEW i, Plannable(i0, i), i.style = "shaped", NEW quote \in Int, NEW base \in Int
  PROVE  ShapedBins(i, quote, base) \in Seq(LaidBin)
<1>1. PICK q \in Int, b \in Int :
        ShapedBins(i, quote, base)
          = Joined(WingsOf(i, q, b), Filling(i), LowerOf(i), LowerOf(i) + i.spacing)
  BY ShapedBinsAre
<1> DEFINE wings == WingsOf(i, q, b)
<1>2. /\ wings.bids \in Seq(LaidBin) /\ Len(wings.bids) = BinsForDepth(i.below, i.spacing)
      /\ wings.asks \in Seq(LaidBin) /\ Len(wings.asks) = BinsForDepth(i.above, i.spacing)
  BY WingsLaid
<1>3. /\ LowerOf(i) \in DOMAIN SqrtPrice /\ LowerOf(i) + i.spacing \in DOMAIN SqrtPrice
      /\ LowerOf(i) < LowerOf(i) + i.spacing
  BY ShapedFits DEF LowerOf
<1> HIDE DEF wings
<1>4. Filling(i) \in BOOLEAN /\ (Filling(i) => wings.bids # <<>> /\ wings.asks # <<>>)
  BY <1>2 DEF Filling
<1> QED
  BY <1>1, <1>2, <1>3, <1>4, JoinedIs DEF wings

LEMMA BinsLaid ==
  ASSUME NEW i0, NEW i, Plannable(i0, i), NEW quote \in Int, NEW base \in Int
  PROVE  Bins(i, quote, base) \in Seq(LaidBin)
<1>1. i.style \in {"shaped", "simple"}
  BY DEF Plannable, ResolvedTo
<1> QED
  BY <1>1, SimpleBinsLaid, ShapedBinsLaid DEF Bins

(* What the SDK leaves is a fold.                                          *)
Picks(g, bins) ==
  g = [u \in SUBSET DOMAIN bins |->
         IF u = {} THEN <<>> ELSE WithBin(g[u \ {Max(u)}], bins[Max(u)])]

LEMMA PickFold ==
  ASSUME NEW bins \in Seq(LaidBin)
  PROVE  \E g : /\ FoldLeft(WithBin, <<>>, bins) = g[DOMAIN bins] /\ Picks(g, bins)
                /\ \A u \in SUBSET DOMAIN bins : g[u] \in Seq(FilledBin)
<1> DEFINE A == Seq(FilledBin)
           f == [x \in A \X LaidBin |-> WithBin(x[1], x[2])]
           g == CHOOSE g : Picks(g, bins)
<1>1. f \in [A \X LaidBin -> A]
  <2> SUFFICES ASSUME NEW s \in A, NEW b \in LaidBin PROVE WithBin(s, b) \in A
    OBVIOUS
  <2>1. b.liquidity > 0 => b \in FilledBin
    BY DEF FilledBin
  <2> QED
    BY <2>1 DEF WithBin
<1>2. PICK h : FoldsWith(h, f, <<>>, bins) /\ \A u \in SUBSET DOMAIN bins : h[u] \in A
  <2>1. <<>> \in A
    OBVIOUS
  <2> HIDE DEF A, f
  <2> QED
    BY <1>1, <2>1, FoldExists
<1>3. ASSUME NEW u \in SUBSET DOMAIN bins, u # {}
      PROVE  /\ u \ {Max(u)} \in SUBSET DOMAIN bins /\ Max(u) \in u
             /\ bins[Max(u)] \in LaidBin
  <2>1. DOMAIN bins = 1 .. Len(bins) /\ Len(bins) \in Nat
    OBVIOUS
  <2>2. Max(u) \in u
    BY <1>3, <2>1, LastPosition
  <2> QED
    BY <2>2
<1>4. Picks(h, bins)
  <2>1. h = [u \in SUBSET DOMAIN bins |->
               IF u = {} THEN <<>> ELSE f[<<h[u \ {Max(u)}], bins[Max(u)]>>]]
    BY <1>2 DEF FoldsWith
  <2>2. ASSUME NEW u \in SUBSET DOMAIN bins, u # {}
        PROVE  f[<<h[u \ {Max(u)}], bins[Max(u)]>>] = WithBin(h[u \ {Max(u)}], bins[Max(u)])
    <3>1. h[u \ {Max(u)}] \in A /\ bins[Max(u)] \in LaidBin
      BY <1>2, <1>3, <2>2
    <3> QED
      BY <3>1
  <2> HIDE DEF f
  <2> QED
    BY <2>1, <2>2 DEF Picks
<1>5. Picks(g, bins)
  BY <1>4
<1>6. FoldLeft(WithBin, <<>>, bins) = g[DOMAIN bins]
  BY Zenon DEF FoldLeft, MapThenFoldSet, Picks
<1> HIDE DEF g
<1>7. FoldsAmong(g, f, <<>>, bins, A)
  <2>1. g = [u \in SUBSET DOMAIN bins |->
               IF u = {} THEN <<>> ELSE WithBin(g[u \ {Max(u)}], bins[Max(u)])]
    BY <1>5 DEF Picks
  <2>2. g[{}] = <<>>
    BY <2>1
  <2>3. ASSUME NEW u \in SUBSET DOMAIN bins, u # {}, g[u \ {Max(u)}] \in A
        PROVE  g[u] = f[<<g[u \ {Max(u)}], bins[Max(u)]>>]
    <3>1. g[u] = WithBin(g[u \ {Max(u)}], bins[Max(u)])
      BY <2>1, <2>3
    <3>2. bins[Max(u)] \in LaidBin
      BY <1>3, <2>3
    <3> QED
      BY <2>3, <3>1, <3>2
  <2> HIDE DEF f
  <2> QED
    BY <2>2, <2>3 DEF FoldsAmong
<1>8. \A u \in SUBSET DOMAIN bins : g[u] \in A
  <2>1. <<>> \in A
    OBVIOUS
  <2> HIDE DEF A, f
  <2> QED
    BY <1>1, <1>7, <2>1, FoldKeeps
<1> QED
  BY <1>5, <1>6, <1>8

LEMMA FilledBins ==
  ASSUME NEW bins \in Seq(LaidBin)
  PROVE  FoldLeft(WithBin, <<>>, bins) \in Seq(FilledBin)
  BY PickFold

-----------------------------------------------------------------------------
(* What a planner makes of a request is of the type of its terms.          *)

LEMMA ValueNat ==
  ASSUME NEW bins \in Seq(FilledBin), NEW t, bins # <<>> => t \in DOMAIN SqrtPrice
  PROVE  /\ ValuePosition(bins, SqrtPrice[t]).amount0 \in Nat
         /\ ValuePosition(bins, SqrtPrice[t]).amount1 \in Nat
<1> DEFINE Of(k) == AmountsForLiquidity(SqrtPrice[t], bins[k].lower, bins[k].upper, bins[k].liquidity)
           f0 == [k \in DOMAIN bins |-> Of(k).amount0]
           f1 == [k \in DOMAIN bins |-> Of(k).amount1]
<1>1. IsFiniteSet(DOMAIN bins)
  BY FiniteDomain
<1>2. ASSUME NEW k \in DOMAIN bins PROVE Of(k).amount0 \in Nat /\ Of(k).amount1 \in Nat
  <2>1. bins[k] \in FilledBin /\ bins # <<>>
    BY <1>2, ElementOfSeq
  <2>2. /\ bins[k].lower \in DOMAIN SqrtPrice /\ bins[k].upper \in DOMAIN SqrtPrice
        /\ bins[k].lower < bins[k].upper /\ bins[k].liquidity \in Int /\ bins[k].liquidity > 0
    BY <2>1 DEF FilledBin, LaidBin
  <2>3. bins[k].liquidity \in Nat /\ t \in DOMAIN SqrtPrice
    BY <2>1, <2>2
  <2> QED
    BY <2>2, <2>3, AmountsNat
<1>3. ValuePosition(bins, SqrtPrice[t])
        = [amount0 |-> SumFunctionOnSet(f0, DOMAIN f0), amount1 |-> SumFunctionOnSet(f1, DOMAIN f1)]
  BY DEF ValuePosition, SumFunction
<1>4. SumFunctionOnSet(f0, DOMAIN f0) \in Nat /\ SumFunctionOnSet(f1, DOMAIN f1) \in Nat
  <2>1. DOMAIN f0 = DOMAIN bins /\ DOMAIN f1 = DOMAIN bins
    OBVIOUS
  <2>2. \A k \in DOMAIN bins : f0[k] \in Nat /\ f1[k] \in Nat
    BY <1>2
  <2> HIDE DEF f0, f1
  <2>3. SumFunctionOnSet(f0, DOMAIN bins) \in Nat /\ SumFunctionOnSet(f1, DOMAIN bins) \in Nat
    BY <1>1, <2>2, SumNat
  <2> QED
    BY <2>1, <2>3
<1> HIDE DEF f0, f1
<1> QED
  BY <1>3, <1>4

LEMMA CostNat ==
  ASSUME NEW bins \in Seq(FilledBin), NEW t, bins # <<>> => t \in DOMAIN SqrtPrice
  PROVE  /\ CostPosition(bins, SqrtPrice[t]).amount0 \in Nat
         /\ CostPosition(bins, SqrtPrice[t]).amount1 \in Nat
<1> DEFINE Of(k) == ChargedForLiquidity(SqrtPrice[t], bins[k].lower, bins[k].upper, bins[k].liquidity)
           f0 == [k \in DOMAIN bins |-> Of(k).amount0]
           f1 == [k \in DOMAIN bins |-> Of(k).amount1]
<1>1. IsFiniteSet(DOMAIN bins)
  BY FiniteDomain
<1>2. ASSUME NEW k \in DOMAIN bins PROVE Of(k).amount0 \in Nat /\ Of(k).amount1 \in Nat
  <2>1. bins[k] \in FilledBin /\ bins # <<>>
    BY <1>2, ElementOfSeq
  <2>2. /\ bins[k].lower \in DOMAIN SqrtPrice /\ bins[k].upper \in DOMAIN SqrtPrice
        /\ bins[k].lower < bins[k].upper /\ bins[k].liquidity \in Int /\ bins[k].liquidity > 0
    BY <2>1 DEF FilledBin, LaidBin
  <2>3. bins[k].liquidity \in Nat /\ t \in DOMAIN SqrtPrice
    BY <2>1, <2>2
  <2> QED
    BY <2>2, <2>3, ChargedIs
<1>3. CostPosition(bins, SqrtPrice[t])
        = [amount0 |-> SumFunctionOnSet(f0, DOMAIN f0), amount1 |-> SumFunctionOnSet(f1, DOMAIN f1)]
  BY DEF CostPosition, SumFunction
<1>4. SumFunctionOnSet(f0, DOMAIN f0) \in Nat /\ SumFunctionOnSet(f1, DOMAIN f1) \in Nat
  <2>1. DOMAIN f0 = DOMAIN bins /\ DOMAIN f1 = DOMAIN bins
    OBVIOUS
  <2>2. \A k \in DOMAIN bins : f0[k] \in Nat /\ f1[k] \in Nat
    BY <1>2
  <2> HIDE DEF f0, f1
  <2>3. SumFunctionOnSet(f0, DOMAIN bins) \in Nat /\ SumFunctionOnSet(f1, DOMAIN bins) \in Nat
    BY <1>1, <2>2, SumNat
  <2> QED
    BY <2>1, <2>3
<1> HIDE DEF f0, f1
<1> QED
  BY <1>3, <1>4

(* A value at a price, in the other currency.                              *)
LEMMA AcrossNat ==
  ASSUME NEW q \in Nat, NEW m \in Nat \ {0}, NEW n \in Nat \ {0}
  PROVE  (q * m * m) \div (n * n) \in Nat
<1>1. n * n \in Nat \ {0} /\ q * m \in Nat
  OBVIOUS
<1> QED
  BY <1>1, QuotientNat

LEMMA VenueIs ==
  ASSUME NEW i0, NEW i, Plannable(i0, i), NEW reference, FindSwapVenue(i.pools, reference) # None
  PROVE  FindSwapVenue(i.pools, reference) \in i.pools
<1> DEFINE live == {p \in i.pools : p.liquidity > 0 /\ PriceBandOk(reference, p.tick)}
           venue == CHOOSE p \in live : \A q \in live : p.liquidity >= q.liquidity
<1>1. live # {} /\ FindSwapVenue(i.pools, reference) = venue
  BY DEF FindSwapVenue
<1>2. live \subseteq i.pools
  OBVIOUS
<1>3. IsFiniteSet(live) /\ \A p \in live : p.liquidity \in Nat
  BY <1>2, FS_Subset DEF Plannable, ResolvedTo, Pool
<1> HIDE DEF live
<1>4. \E p \in live : \A q \in live : p.liquidity >= q.liquidity
  BY <1>1, <1>3, DeepestPool
<1>5. venue \in live
  BY <1>4
<1> QED
  BY <1>1, <1>2, <1>5

LEMMA WingOutNat ==
  ASSUME NEW i0, NEW i, Plannable(i0, i), Route(i) # None, NEW quote \in Nat
  PROVE  WingOut(i, quote) \in Nat
<1> DEFINE s == SqrtPrice[VenueOf(i).tick]
           net == 100 - VenueOf(i).fee
           gives == IF i.quoteIs0 THEN quote * s * s ELSE quote * Scale * Scale
           takes == IF i.quoteIs0 THEN Scale * Scale ELSE s * s
<1>1. VenueOf(i).tick \in DOMAIN SqrtPrice /\ VenueOf(i).fee \in 0 .. 100
  <2>1. CASE Route(i) = "v4"
    <3>1. FindSwapVenue(i.pools, AnchorOf(i)) # None
      BY <2>1 DEF Route
    <3>2. FindSwapVenue(i.pools, AnchorOf(i)) \in i.pools
      BY <3>1, VenueIs
    <3>3. VenueOf(i) \in i.pools
      BY <2>1, <3>2 DEF VenueOf
    <3> QED
      BY <3>3 DEF Plannable, ResolvedTo, Priced, Pool
  <2>2. CASE Route(i) # "v4"
    <3>1. i.router # None /\ VenueOf(i) = i.router
      BY <2>2 DEF Route, VenueOf
    <3> QED
      BY <3>1 DEF Plannable, ResolvedTo, Priced
  <2> QED
    BY <2>1, <2>2
<1>2. s \in Nat \ {0} /\ Scale \in Nat \ {0} /\ net \in Nat
  BY <1>1, PriceAssumption
<1>3. WingOut(i, quote) = IF Route(i) = "v4" THEN ((((gives \div takes) * net) \div 100) * 95) \div 100
                          ELSE (gives * net * 95) \div (takes * 10000)
  BY DEF WingOut
<1> HIDE DEF s, net
<1>4. gives \in Nat /\ takes \in Nat \ {0}
  BY <1>2
<1> HIDE DEF gives, takes
<1>5. gives * net * 95 \in Nat /\ takes * 10000 \in Nat \ {0}
  BY <1>2, <1>4
<1> DEFINE x == gives * net * 95
           y == takes * 10000
<1>6. x \div y \in Nat
  <2>1. x \in Nat /\ y \in Nat \ {0}
    BY <1>5
  <2> HIDE DEF x, y
  <2> QED
    BY <2>1
<1>7. gives \div takes \in Nat
  BY <1>4
<1> DEFINE out == gives \div takes
<1> HIDE DEF out
<1>8. (((out * net) \div 100) * 95) \div 100 \in Nat
  <2>1. (out * net) \div 100 \in Nat
    BY <1>2, <1>7, QuotientNat DEF out
  <2> QED
    BY <2>1, QuotientNat
<1> QED
  BY <1>3, <1>6, <1>8 DEF out

LEMMA WingQuoteNat ==
  ASSUME NEW i0, NEW i, Plannable(i0, i)
  PROVE  WingQuote(i) \in Nat
<1> DEFINE s == SqrtPrice[AnchorOf(i)]
           r == SimpleRange(AnchorOf(i), i.spacing, i.below, i.above, i.quoteIs0)
           inside == AmountsForLiquidity(s, r.lower, r.upper, LRef)
<1>1. /\ i.quote \in Nat /\ i.wingPct \in 0 .. 100 /\ i.quoteIs0 \in BOOLEAN
      /\ i.style \in {"shaped", "simple"}
  BY DEF Plannable, ResolvedTo
<1>2. CASE i.mode = "both"
  BY <1>2 DEF WingQuote
<1>3. CASE i.mode # "both" /\ i.style = "shaped"
  <2>1. WingQuote(i) = IF i.above > 0 THEN (i.quote * i.wingPct) \div 100 ELSE 0
    BY <1>3 DEF WingQuote
  <2>2. (i.quote * i.wingPct) \div 100 \in Nat
    <3>1. i.wingPct \in Nat /\ 100 \in Nat \ {0}
      BY <1>1
    <3> QED
      BY <1>1, <3>1, QuotientNat
  <2> QED
    BY <2>1, <2>2
<1>4. CASE i.mode # "both" /\ i.style = "simple"
  <2>1. WingQuote(i) = ShareOfBase(i, s, inside)
    BY <1>4 DEF WingQuote
  <2>2. /\ r.lower \in DOMAIN SqrtPrice /\ r.upper \in DOMAIN SqrtPrice /\ r.lower < r.upper
        /\ AnchorOf(i) \in DOMAIN SqrtPrice /\ LRef \in Nat
    BY <1>4, SimpleRangeIs, AnchorIs, PriceAssumption
  <2> HIDE DEF r
  <2>3. inside.amount0 \in Nat /\ inside.amount1 \in Nat
    BY <2>2, AmountsNat
  <2>4. s \in Nat \ {0} /\ Scale \in Nat \ {0}
    BY <2>2, PriceAssumption
  <2> HIDE DEF inside, s
  <2> DEFINE q == IF i.quoteIs0 THEN inside.amount0 ELSE inside.amount1
             b == IF i.quoteIs0 THEN (inside.amount1 * Scale * Scale) \div (s * s)
                  ELSE (inside.amount0 * s * s) \div (Scale * Scale)
  <2>5. q \in Nat /\ b \in Nat
    BY <2>3, <2>4, AcrossNat
  <2>6. ShareOfBase(i, s, inside) = IF q + b = 0 THEN 0 ELSE (i.quote * b) \div (q + b)
    BY DEF ShareOfBase
  <2> HIDE DEF q, b
  <2>7. q + b # 0 => (i.quote * b) \div (q + b) \in Nat
    <3>1. SUFFICES ASSUME q + b # 0 PROVE (i.quote * b) \div (q + b) \in Nat
      OBVIOUS
    <3>2. q + b \in Nat \ {0}
      BY <2>5, <3>1
    <3> QED
      BY <1>1, <2>5, <3>2, QuotientNat
  <2> QED
    BY <2>1, <2>6, <2>7
<1> QED
  BY <1>1, <1>2, <1>3, <1>4

(* Terms whose bins are all filled.                                        *)
Stated(p) == p \in Terms /\ p.bins \in Seq(FilledBin)

LEMMA FilledTyped ==
  ASSUME NEW bins \in Seq(FilledBin)
  PROVE  bins \in Seq([lower : Int, upper : Int, liquidity : Nat])
<1>1. FilledBin \subseteq [lower : Int, upper : Int, liquidity : Nat]
  BY PriceAssumption DEF FilledBin, LaidBin
<1> DEFINE B == [lower : Int, upper : Int, liquidity : Nat]
<1> HIDE DEF B
<1>2. FilledBin \subseteq B
  BY <1>1 DEF B
<1>3. bins \in Seq(B)
  BY <1>2
<1> QED
  BY <1>3 DEF B

LEMMA StatedWeb ==
  ASSUME NEW i0, NEW i, Plannable(i0, i), NEW wing \in Nat, NEW base,
         ~BuysWing(i) \/ Route(i) # None => base \in Nat, NEW bins,
         base \in Nat => bins \in Seq(LaidBin)
  PROVE  Stated(WebTerms(i, wing, base, bins))
<1> DEFINE fails == \/ BuysWing(i) /\ (Route(i) = None \/ (Route(i) = "router" /\ base = 0))
                    \/ bins = <<>>
                    \/ \E k \in DOMAIN bins : bins[k].liquidity <= 0
           route == IF BuysWing(i) THEN Route(i) ELSE None
           p == [error |-> FALSE, quoteIs0 |-> i.quoteIs0, spacing |-> i.spacing, bins |-> bins,
                 anchor |-> AnchorOf(i), sync |-> NeedsSync(i), route |-> route, wing |-> wing, base |-> base,
                 needsQuote |-> Headroom(i.quote),
                 needsBase |-> IF i.mode = "both" \/ route = "router" THEN Headroom(base) ELSE 0]
<1>1. CASE fails
  <2>1. WebTerms(i, wing, base, bins) = NoPlan
    BY <1>1 DEF WebTerms
  <2>2. NoPlan.bins = <<>>
    BY DEF NoPlan
  <2> QED
    BY <2>1, <2>2, NoPlanTyped DEF Stated
<1>2. CASE ~fails
  <2>1. WebTerms(i, wing, base, bins) = p
    BY <1>2 DEF WebTerms
  <2>2. base \in Nat
    BY <1>2
  <2>3. bins \in Seq(FilledBin)
    <3>1. bins \in Seq(LaidBin)
      BY <2>2
    <3>2. \A k \in DOMAIN bins : bins[k] \in FilledBin
      <4> SUFFICES ASSUME NEW k \in DOMAIN bins PROVE bins[k] \in FilledBin
        OBVIOUS
      <4>1. bins[k] \in LaidBin
        BY <3>1, ElementOfSeq
      <4>2. ~(bins[k].liquidity <= 0)
        BY <1>2
      <4> QED
        BY <4>1, <4>2 DEF FilledBin, LaidBin
    <3> QED
      BY <3>1, <3>2
  <2>4. bins \in Seq([lower : Int, upper : Int, liquidity : Nat])
    BY <2>3, FilledTyped
  <2>5. /\ i.quote \in Nat /\ i.quoteIs0 \in BOOLEAN /\ i.spacing \in Nat /\ AnchorOf(i) \in Int
    BY AnchorIs DEF Plannable, ResolvedTo
  <2>6. NeedsSync(i) \in BOOLEAN
    BY DEF NeedsSync
  <2>7. route \in {"v4", "router", None}
    BY DEF Route
  <2>8. Headroom(i.quote) \in Nat /\ Headroom(base) \in Nat
    BY <2>2, <2>5, HeadroomAbove
  <2> DEFINE needsBase == IF i.mode = "both" \/ route = "router" THEN Headroom(base) ELSE 0
  <2>9. needsBase \in Nat
    BY <2>8
  <2>10. p \in Terms
    <3> HIDE DEF route, needsBase
    <3>1. [error |-> FALSE, quoteIs0 |-> i.quoteIs0, spacing |-> i.spacing, bins |-> bins,
           anchor |-> AnchorOf(i), sync |-> NeedsSync(i), route |-> route, wing |-> wing, base |-> base,
           needsQuote |-> Headroom(i.quote), needsBase |-> needsBase] \in Terms
      BY <2>2, <2>4, <2>5, <2>6, <2>7, <2>8, <2>9 DEF Terms
    <3> QED
      BY <3>1 DEF route, needsBase
  <2>11. p.bins = bins
    OBVIOUS
  <2> HIDE DEF p
  <2> QED
    BY <2>1, <2>3, <2>10, <2>11 DEF Stated
<1> QED
  BY <1>1, <1>2

LEMMA StatedSdk ==
  ASSUME NEW i0, NEW i, Plannable(i0, i), NEW bins \in Seq(FilledBin)
  PROVE  Stated(SdkTerms(i, bins))
<1> DEFINE needs == ValuePosition(bins, SqrtPrice[AnchorOf(i)])
           q == Headroom(IF i.quoteIs0 THEN needs.amount0 ELSE needs.amount1)
           b == Headroom(IF i.quoteIs0 THEN needs.amount1 ELSE needs.amount0)
           p == [error |-> FALSE, quoteIs0 |-> i.quoteIs0, spacing |-> i.spacing, bins |-> bins,
                 anchor |-> AnchorOf(i), sync |-> FALSE, route |-> None, wing |-> 0, base |-> i.base,
                 needsQuote |-> q, needsBase |-> b]
<1>1. CASE bins = <<>>
  <2>1. SdkTerms(i, bins) = NoPlan
    BY <1>1 DEF SdkTerms
  <2>2. NoPlan.bins = <<>>
    BY DEF NoPlan
  <2> QED
    BY <2>1, <2>2, NoPlanTyped DEF Stated
<1>2. CASE bins # <<>>
  <2>1. SdkTerms(i, bins) = p
    BY <1>2 DEF SdkTerms
  <2>2. bins \in Seq([lower : Int, upper : Int, liquidity : Nat])
    BY FilledTyped
  <2>3. /\ i.quoteIs0 \in BOOLEAN /\ i.spacing \in Nat /\ i.base \in Nat
        /\ AnchorOf(i) \in Int /\ AnchorOf(i) \in DOMAIN SqrtPrice
    BY AnchorIs DEF Plannable, ResolvedTo
  <2>4. needs.amount0 \in Nat /\ needs.amount1 \in Nat
    BY <2>3, ValueNat
  <2> HIDE DEF needs
  <2>5. q \in Nat /\ b \in Nat
    BY <2>3, <2>4, HeadroomAbove
  <2> HIDE DEF q, b
  <2>6. p \in Terms /\ p.bins = bins
    BY <2>2, <2>3, <2>5 DEF Terms
  <2> HIDE DEF p
  <2> QED
    BY <2>1, <2>6 DEF Stated
<1> QED
  BY <1>1, <1>2

LEMMA PlanStated == ASSUME NEW i \in Requests PROVE Stated(PlanOf(i))
<1> DEFINE r == Resolve(i)
<1>0. Stated(NoPlan)
  <2>1. NoPlan.bins = <<>>
    BY DEF NoPlan
  <2> QED
    BY <2>1, NoPlanTyped DEF Stated
<1>1. CASE Refused(r)
  BY <1>0, <1>1 DEF PlanOf, SdkPlan, WebPlan
<1>2. CASE ~Refused(r)
  <2>1. Plannable(i, r)
    BY <1>2, PlannableIs
  <2> HIDE DEF r
  <2>2. r.quote \in Nat /\ r.base \in Nat
    BY <2>1 DEF Plannable, ResolvedTo
  <2>3. Stated(SdkPlan(r))
    <3> DEFINE bins == Bins(r, r.quote, r.base)
               filled == FoldLeft(WithBin, <<>>, bins)
    <3>1. bins \in Seq(LaidBin)
      BY <2>1, <2>2, BinsLaid
    <3>2. filled \in Seq(FilledBin)
      <4> HIDE DEF bins
      <4> QED
        BY <3>1, FilledBins
    <3>3. SdkPlan(r) = NoPlan \/ SdkPlan(r) = SdkTerms(r, filled)
      BY DEF SdkPlan
    <3> HIDE DEF filled
    <3> QED
      BY <1>0, <2>1, <3>2, <3>3, StatedSdk
  <2>4. Stated(WebPlan(r))
    <3> DEFINE wing == WingQuote(r)
               base == IF BuysWing(r) THEN WingOut(r, wing) ELSE r.base
               bins == Bins(r, r.quote - wing, base)
    <3>1. wing \in Nat
      BY <2>1, WingQuoteNat
    <3> HIDE DEF wing
    <3>2. ~BuysWing(r) \/ Route(r) # None => base \in Nat
      BY <2>1, <2>2, <3>1, WingOutNat
    <3> HIDE DEF base
    <3>3. base \in Nat => bins \in Seq(LaidBin)
      <4>1. r.quote - wing \in Int
        BY <2>2, <3>1
      <4> QED
        BY <2>1, <4>1, BinsLaid
    <3> HIDE DEF bins
    <3>4. WebPlan(r) = NoPlan \/ WebPlan(r) = WebTerms(r, wing, base, bins)
      BY DEF WebPlan, wing, base, bins
    <3> QED
      BY <1>0, <2>1, <3>1, <3>2, <3>3, <3>4, StatedWeb
  <2> QED
    BY <2>3, <2>4 DEF PlanOf, r
<1> QED
  BY <1>1, <1>2

-----------------------------------------------------------------------------
(* Which of the bins a fold has seen are among those it has picked.        *)
Kept(s, bins, u) ==
  /\ \A j \in DOMAIN s : \E q \in u : s[j] = bins[q]
  /\ \A j, l \in DOMAIN s : j # l => s[j].lower # s[l].lower
  /\ \A q \in u : bins[q].liquidity > 0 => \E j \in DOMAIN s : s[j] = bins[q]

DistinctLowers(bins) == \A k, l \in DOMAIN bins : k # l => bins[k].lower # bins[l].lower

LEMMA WithBinKeeps ==
  ASSUME NEW bins \in Seq(LaidBin), DistinctLowers(bins), NEW u \in SUBSET DOMAIN bins, NEW q \in DOMAIN bins,
         q \notin u, NEW s \in Seq(FilledBin), Kept(s, bins, u)
  PROVE  Kept(WithBin(s, bins[q]), bins, u \cup {q})
<1> DEFINE b == bins[q]
<1>1. b \in LaidBin
  BY ElementOfSeq
<1>2. CASE ~(b.liquidity > 0)
  <2>1. WithBin(s, b) = s
    BY <1>2 DEF WithBin
  <2> HIDE DEF b
  <2> QED
    BY <1>2, <2>1 DEF Kept, b
<1>3. CASE b.liquidity > 0
  <2>1. WithBin(s, b) = Append(s, b)
    BY <1>3 DEF WithBin
  <2> DEFINE t == Append(s, b)
             n == Len(s)
  <2>2. /\ n \in Nat /\ DOMAIN s = 1 .. n /\ DOMAIN t = 1 .. n + 1
        /\ \A j \in 1 .. n : t[j] = s[j]
        /\ t[n + 1] = b
    <3>1. n \in Nat /\ DOMAIN s = 1 .. n
      BY LenProperties
    <3>2. b \in FilledBin
      BY <1>1, <1>3 DEF FilledBin
    <3> HIDE DEF b
    <3>3. DOMAIN t = 1 .. n + 1
      BY <3>1
    <3> QED
      BY <3>1, <3>2, <3>3, AppendProperties
  <2> HIDE DEF t, n
  <2>3. \A j \in DOMAIN s : s[j].lower # b.lower
    <3> SUFFICES ASSUME NEW j \in DOMAIN s PROVE s[j].lower # b.lower
      OBVIOUS
    <3>1. PICK k \in u : s[j] = bins[k]
      BY DEF Kept
    <3>2. k # q /\ k \in DOMAIN bins
      OBVIOUS
    <3> QED
      BY <3>1, <3>2 DEF DistinctLowers
  <2> HIDE DEF b
  <2>4. \A j \in DOMAIN t : \E k \in u \cup {q} : t[j] = bins[k]
    <3> SUFFICES ASSUME NEW j \in DOMAIN t PROVE \E k \in u \cup {q} : t[j] = bins[k]
      OBVIOUS
    <3>1. CASE j = n + 1
      BY <2>2, <3>1 DEF b
    <3>2. CASE j # n + 1
      <4>1. j \in DOMAIN s /\ t[j] = s[j]
        BY <2>2, <3>2
      <4> QED
        BY <4>1 DEF Kept
    <3> QED
      BY <3>1, <3>2
  <2>5. \A j, l \in DOMAIN t : j # l => t[j].lower # t[l].lower
    <3> SUFFICES ASSUME NEW j \in DOMAIN t, NEW l \in DOMAIN t, j # l PROVE t[j].lower # t[l].lower
      OBVIOUS
    <3>1. \A k \in DOMAIN t : k # n + 1 => k \in DOMAIN s /\ t[k] = s[k]
      BY <2>2
    <3>2. CASE j # n + 1 /\ l # n + 1
      BY <3>1, <3>2 DEF Kept
    <3>3. CASE j = n + 1
      BY <2>2, <2>3, <3>1, <3>3
    <3>4. CASE l = n + 1
      BY <2>2, <2>3, <3>1, <3>4
    <3> QED
      BY <3>2, <3>3, <3>4
  <2>6. \A k \in u \cup {q} : bins[k].liquidity > 0 => \E j \in DOMAIN t : t[j] = bins[k]
    <3> SUFFICES ASSUME NEW k \in u \cup {q}, bins[k].liquidity > 0 PROVE \E j \in DOMAIN t : t[j] = bins[k]
      OBVIOUS
    <3>1. CASE k = q
      <4>1. n + 1 \in DOMAIN t /\ t[n + 1] = bins[k]
        BY <2>2, <3>1 DEF b
      <4> QED
        BY <4>1
    <3>2. CASE k # q
      <4>1. PICK j \in DOMAIN s : s[j] = bins[k]
        BY <3>2 DEF Kept
      <4>2. j \in DOMAIN t /\ t[j] = s[j]
        BY <2>2
      <4> QED
        BY <4>1, <4>2
    <3> QED
      BY <3>1, <3>2
  <2> QED
    BY <2>1, <2>4, <2>5, <2>6 DEF Kept, t, b
<1> QED
  BY <1>2, <1>3

LEMMA FilteredKept ==
  ASSUME NEW bins \in Seq(LaidBin), DistinctLowers(bins)
  PROVE  Kept(FoldLeft(WithBin, <<>>, bins), bins, DOMAIN bins)
<1>1. PICK g : /\ FoldLeft(WithBin, <<>>, bins) = g[DOMAIN bins] /\ Picks(g, bins)
               /\ \A u \in SUBSET DOMAIN bins : g[u] \in Seq(FilledBin)
  BY PickFold
<1> DEFINE Bad == {u \in SUBSET DOMAIN bins : ~Kept(g[u], bins, u)}
<1> SUFFICES ASSUME Bad # {} PROVE FALSE
  BY <1>1
<1>2. DOMAIN bins = 1 .. Len(bins) /\ Len(bins) \in Nat /\ IsFiniteSet(1 .. Len(bins))
  BY FS_Interval
<1>3. PICK X \in Bad : \A Y \in Bad : Y \subseteq X => Y = X
  <2>1. Bad \in SUBSET SUBSET DOMAIN bins
    OBVIOUS
  <2> HIDE DEF Bad
  <2> QED
    BY <1>2, <2>1, FiniteLeast
<1>4. X # {}
  <2>1. g[{}] = <<>>
    BY <1>1 DEF Picks
  <2>2. Kept(g[{}], bins, {})
    BY <2>1 DEF Kept
  <2> QED
    BY <2>2, <1>3
<1>5. Max(X) \in X /\ X \in SUBSET DOMAIN bins
  BY <1>2, <1>3, <1>4, LastPosition
<1>6. Kept(g[X \ {Max(X)}], bins, X \ {Max(X)})
  <2>1. X \ {Max(X)} \in SUBSET DOMAIN bins /\ X \ {Max(X)} # X /\ X \ {Max(X)} \subseteq X
    BY <1>5
  <2> QED
    BY <1>3, <2>1
<1>7. g[X] = WithBin(g[X \ {Max(X)}], bins[Max(X)])
  BY <1>1, <1>4, <1>5 DEF Picks
<1>8. Kept(WithBin(g[X \ {Max(X)}], bins[Max(X)]), bins, (X \ {Max(X)}) \cup {Max(X)})
  <2>1. g[X \ {Max(X)}] \in Seq(FilledBin)
    BY <1>1, <1>5
  <2> DEFINE q == Max(X)
             u == X \ {Max(X)}
             s == g[u]
  <2>2. u \in SUBSET DOMAIN bins /\ q \in DOMAIN bins /\ q \notin u /\ s \in Seq(FilledBin) /\ Kept(s, bins, u)
    BY <1>5, <1>6, <2>1
  <2> HIDE DEF q, u, s
  <2>3. Kept(WithBin(s, bins[q]), bins, u \cup {q})
    BY <2>2, WithBinKeeps
  <2> QED
    BY <2>3 DEF q, u, s
<1>9. (X \ {Max(X)}) \cup {Max(X)} = X
  BY <1>5
<1> QED
  BY <1>3, <1>7, <1>8, <1>9

-----------------------------------------------------------------------------
(* On the grid.                                                            *)

LEMMA GridDiv ==
  ASSUME NEW m \in Int, NEW spacing \in Nat \ {0}
  PROVE  (m * spacing) % spacing = 0
  OBVIOUS

LEMMA GridStep ==
  ASSUME NEW m \in Int, NEW n \in Int, m < n, NEW spacing \in Nat \ {0}
  PROVE  /\ m * spacing + spacing <= n * spacing
         /\ m * spacing \in Int /\ n * spacing \in Int
<1>1. n - m - 1 \in Nat
  OBVIOUS
<1>2. (n - m - 1) * spacing >= 0
  BY <1>1
<1>3. (n - m - 1) * spacing = n * spacing - m * spacing - spacing
  OBVIOUS
<1>4. m * spacing \in Int /\ n * spacing \in Int
  OBVIOUS
<1> DEFINE x == m * spacing
           y == n * spacing
<1>5. x \in Int /\ y \in Int /\ y - x - spacing >= 0
  BY <1>2, <1>3, <1>4
<1> HIDE DEF x, y
<1>6. x + spacing <= y
  BY <1>5
<1> QED
  BY <1>4, <1>6 DEF x, y

LEMMA FloorOf ==
  ASSUME NEW x \in Int, NEW spacing \in Nat \ {0}
  PROVE  /\ BucketOf(x, spacing) \in Int
         /\ BucketOf(x, spacing) * spacing <= x /\ x < BucketOf(x, spacing) * spacing + spacing
<1>1. /\ x \div spacing \in Int
      /\ (x \div spacing) * spacing <= x /\ x < (x \div spacing) * spacing + spacing
  OBVIOUS
<1> QED
  BY <1>1 DEF BucketOf

LEMMA CeilingOf ==
  ASSUME NEW x \in Int, NEW spacing \in Nat \ {0}
  PROVE  /\ Ceiling(x, spacing) \in Int
         /\ x <= Ceiling(x, spacing) * spacing /\ Ceiling(x, spacing) * spacing < x + spacing
<1> DEFINE y == -x
           q == y \div spacing
<1>1. y \in Int
  OBVIOUS
<1> HIDE DEF y
<1>2. q \in Int /\ q * spacing <= y /\ y < q * spacing + spacing
  BY <1>1
<1>3. Ceiling(x, spacing) = -q
  BY DEF Ceiling, y
<1> HIDE DEF q
<1>4. (-q) * spacing = -(q * spacing) /\ q * spacing \in Int
  BY <1>2
<1> DEFINE z == q * spacing
<1>5. z \in Int /\ (-q) * spacing = -z /\ z <= y /\ y < z + spacing
  BY <1>2, <1>4
<1> HIDE DEF z
<1>6. x <= -z /\ -z < x + spacing
  BY <1>5 DEF y
<1> QED
  BY <1>2, <1>3, <1>5, <1>6

(* The lowest grid tick that is not below x.                               *)
LEMMA CeilingLeast ==
  ASSUME NEW x \in Int, NEW m \in Int, NEW spacing \in Nat \ {0}, x <= m * spacing
  PROVE  Ceiling(x, spacing) * spacing <= m * spacing
<1> DEFINE c == Ceiling(x, spacing)
<1>1. c \in Int /\ x <= c * spacing /\ c * spacing < x + spacing
  BY CeilingOf
<1> HIDE DEF c
<1>2. CASE c <= m
  BY <1>1, <1>2, TimesAtMost DEF c
<1>3. CASE m < c
  <2>1. m * spacing + spacing <= c * spacing /\ m * spacing \in Int /\ c * spacing \in Int
    BY <1>1, <1>3, GridStep
  <2> DEFINE y == m * spacing
             z == c * spacing
  <2>2. y \in Int /\ z \in Int /\ y + spacing <= z /\ x <= y /\ z < x + spacing
    BY <1>1, <2>1
  <2> HIDE DEF y, z
  <2> QED
    BY <2>2
<1> QED
  BY <1>1, <1>2, <1>3

LEMMA FloorMost ==
  ASSUME NEW x \in Int, NEW m \in Int, NEW spacing \in Nat \ {0}, m * spacing <= x
  PROVE  m * spacing <= (x \div spacing) * spacing
<1> DEFINE c == x \div spacing
<1>1. c \in Int /\ c * spacing <= x /\ x < c * spacing + spacing
  BY FloorOf DEF BucketOf
<1> HIDE DEF c
<1>2. CASE m <= c
  BY <1>1, <1>2, TimesAtMost DEF c
<1>3. CASE c < m
  <2>1. c * spacing + spacing <= m * spacing /\ m * spacing \in Int /\ c * spacing \in Int
    BY <1>1, <1>3, GridStep
  <2> DEFINE y == m * spacing
             z == c * spacing
  <2>2. y \in Int /\ z \in Int /\ z + spacing <= y /\ y <= x /\ x < z + spacing
    BY <1>1, <2>1
  <2> HIDE DEF y, z
  <2> QED
    BY <2>2
<1> QED
  BY <1>1, <1>2, <1>3
-----------------------------------------------------------------------------
(* Bins of one bucket each.                                                *)

(* Every bin is one of these buckets, and no bucket has two bins.          *)
LaidOn(bins, spacing, M) ==
  /\ \A k \in DOMAIN bins : \E m \in M : BinOn(bins[k], m, spacing)
  /\ DistinctLowers(bins)

(* Every bucket of these has its bin.                                      *)
AllOf(bins, spacing, M) == \A m \in M : \E k \in DOMAIN bins : BinOn(bins[k], m, spacing)

LEMMA LaidOnGrid ==
  ASSUME NEW p, NEW M \in SUBSET Int, p.spacing \in Nat \ {0}, LaidOn(p.bins, p.spacing, M)
  PROVE  OnGrid(p)
<1> DEFINE d == p.spacing
<1>1. ASSUME NEW k \in DOMAIN p.bins, NEW m \in M, BinOn(p.bins[k], m, d)
      PROVE  /\ p.bins[k].lower < p.bins[k].upper
             /\ p.bins[k].lower % d = 0 /\ p.bins[k].upper % d = 0
  <2>1. p.bins[k].lower = m * d /\ p.bins[k].upper = m * d + d /\ m \in Int
    BY <1>1 DEF BinOn
  <2>2. m * d + d = (m + 1) * d /\ m * d \in Int /\ m + 1 \in Int
    BY <2>1
  <2>3. (m * d) % d = 0 /\ ((m + 1) * d) % d = 0
    BY <2>1, <2>2, GridDiv
  <2>4. m * d < m * d + d
    BY <2>2
  <2> QED
    BY <2>1, <2>2, <2>3, <2>4
<1>2. ASSUME NEW k \in DOMAIN p.bins, NEW l \in DOMAIN p.bins, k # l,
             NEW m \in M, NEW n \in M, BinOn(p.bins[k], m, d), BinOn(p.bins[l], n, d)
      PROVE  p.bins[k].upper <= p.bins[l].lower \/ p.bins[l].upper <= p.bins[k].lower
  <2>1. p.bins[k].lower # p.bins[l].lower
    BY <1>2 DEF LaidOn, DistinctLowers
  <2>2. m # n /\ m \in Int /\ n \in Int
    BY <2>1, <1>2 DEF BinOn
  <2>3. CASE m < n
    <3>1. m * d + d <= n * d
      BY <2>2, <2>3, GridStep
    <3> QED
      BY <3>1, <1>2 DEF BinOn
  <2>4. CASE n < m
    <3>1. n * d + d <= m * d
      BY <2>2, <2>4, GridStep
    <3> QED
      BY <3>1, <1>2 DEF BinOn
  <2> QED
    BY <2>2, <2>3, <2>4
<1>3. \A k \in DOMAIN p.bins : \E m \in M : BinOn(p.bins[k], m, d)
  BY DEF LaidOn
<1> QED
  BY <1>1, <1>2, <1>3 DEF OnGrid

(* The buckets of a ladder of n below, one of u above and the one between. *)
Buckets(bucket, n, u, fill) == {m \in bucket - n .. bucket + u : m # bucket \/ fill}

LEMMA LaidReaches ==
  ASSUME NEW i, NEW p, NEW fill \in BOOLEAN,
         p.spacing \in Nat \ {0}, p.anchor \in Int,
         p.quoteIs0 \in BOOLEAN, i.below \in Nat, i.above \in Nat,
         NEW n, NEW u,
         n = BinsForDepth(IF p.quoteIs0 THEN i.above ELSE i.below, p.spacing),
         u = BinsForDepth(IF p.quoteIs0 THEN i.below ELSE i.above, p.spacing),
         n > 0 /\ u > 0 /\ ~fill => p.anchor = BucketOf(p.anchor, p.spacing) * p.spacing,
         LaidOn(p.bins, p.spacing, Buckets(BucketOf(p.anchor, p.spacing), n, u, TRUE)),
         AllOf(p.bins, p.spacing, Buckets(BucketOf(p.anchor, p.spacing), n, u, fill))
  PROVE  Reaches(i, p)
<1> DEFINE d == p.spacing
           a == p.anchor
           bucket == BucketOf(a, d)
           down == IF p.quoteIs0 THEN i.above ELSE i.below
           up == IF p.quoteIs0 THEN i.below ELSE i.above
           spared == IF a % d = 0 THEN a .. a + d - 1 ELSE {}
<1>1. down \in Nat /\ up \in Nat
  OBVIOUS
<1>2. n \in Nat /\ u \in Nat
  <2> HIDE DEF down, up
  <2>1. n = BinsForDepth(down, d) /\ u = BinsForDepth(up, d)
    BY DEF down, up
  <2> QED
    BY <1>1, <2>1, DepthNat
<1>3. bucket \in Int /\ bucket * d <= a /\ a < bucket * d + d /\ bucket * d \in Int
  <2>1. bucket \in Int /\ bucket * d <= a /\ a < bucket * d + d
    BY FloorOf
  <2> HIDE DEF bucket
  <2> QED
    BY <2>1
<1>4. ASSUME down > 0 PROVE \E k \in DOMAIN p.bins : p.bins[k].lower <= a - down
  <2>1. n = Ceiling(down, d)
    BY <1>4 DEF BinsForDepth
  <2>2. n * d >= down
    BY <1>1, <2>1, CeilingOf
  <2>3. n > 0
    BY <1>1, <1>2, <1>4, <2>2
  <2>4. bucket - n \in Buckets(bucket, n, u, fill)
    <3> HIDE DEF bucket
    <3> QED
      BY <1>2, <1>3, <2>3 DEF Buckets
  <2>5. PICK k \in DOMAIN p.bins : BinOn(p.bins[k], bucket - n, d)
    BY <2>4 DEF AllOf
  <2> HIDE DEF bucket, down
  <2>6. (bucket - n) * d = bucket * d - n * d /\ n * d \in Int
    BY <1>2, <1>3
  <2> DEFINE x == bucket * d
             y == n * d
  <2>7. x \in Int /\ y \in Int /\ p.bins[k].lower = x - y /\ x <= a /\ y >= down
    BY <1>3, <2>2, <2>5, <2>6 DEF BinOn
  <2> HIDE DEF x, y
  <2>8. p.bins[k].lower <= a - down
    BY <1>1, <2>7
  <2> QED
    BY <2>8
<1>5. ASSUME up > 0 PROVE \E k \in DOMAIN p.bins : p.bins[k].upper >= a + up
  <2>1. u = Ceiling(up, d)
    BY <1>5 DEF BinsForDepth
  <2>2. u * d >= up
    BY <1>1, <2>1, CeilingOf
  <2>3. u > 0
    BY <1>1, <1>2, <1>5, <2>2
  <2>4. bucket + u \in Buckets(bucket, n, u, fill)
    <3> HIDE DEF bucket
    <3> QED
      BY <1>2, <1>3, <2>3 DEF Buckets
  <2>5. PICK k \in DOMAIN p.bins : BinOn(p.bins[k], bucket + u, d)
    BY <2>4 DEF AllOf
  <2> HIDE DEF bucket, up
  <2>6. (bucket + u) * d = bucket * d + u * d /\ u * d \in Int
    BY <1>2, <1>3
  <2> DEFINE x == bucket * d
             y == u * d
  <2>7. x \in Int /\ y \in Int /\ p.bins[k].upper = x + y + d /\ a < x + d /\ y >= up
    BY <1>3, <2>2, <2>5, <2>6 DEF BinOn
  <2> HIDE DEF x, y
  <2>8. p.bins[k].upper >= a + up
    BY <1>1, <2>7
  <2> QED
    BY <2>8
<1>6. ASSUME NEW k \in DOMAIN p.bins, NEW l \in DOMAIN p.bins,
             NEW t \in p.bins[k].upper .. p.bins[l].lower - 1
      PROVE  t \in spared \/ \E j \in DOMAIN p.bins : p.bins[j].lower <= t /\ t < p.bins[j].upper
  <2> DEFINE m == BucketOf(t, d)
  <2>1. PICK f \in Buckets(bucket, n, u, TRUE) : BinOn(p.bins[k], f, d)
    BY DEF LaidOn
  <2>2. PICK g \in Buckets(bucket, n, u, TRUE) : BinOn(p.bins[l], g, d)
    BY DEF LaidOn
  <2> HIDE DEF bucket
  <2>3. f \in bucket - n .. bucket + u /\ g \in bucket - n .. bucket + u /\ f \in Int /\ g \in Int
    BY <1>2, <1>3, <2>1, <2>2 DEF Buckets
  <2>4. f * d \in Int /\ g * d \in Int
    BY <2>3
  <2>5. t \in Int /\ f * d + d <= t /\ t < g * d
    <3> DEFINE x == f * d
               y == g * d
    <3>1. x \in Int /\ y \in Int /\ t \in x + d .. y - 1
      BY <2>1, <2>2, <2>4 DEF BinOn
    <3> HIDE DEF x, y
    <3>2. t \in Int /\ x + d <= t /\ t < y
      BY <3>1
    <3> QED
      BY <3>2 DEF x, y
  <2>6. m \in Int /\ m * d <= t /\ t < m * d + d
    BY <2>5, FloorOf
  <2> HIDE DEF m
  <2>7. m * d \in Int
    BY <2>6
  <2>8. f < m
    <3> SUFFICES ASSUME m <= f PROVE FALSE
      BY <2>3, <2>6
    <3>1. m * d <= f * d
      BY <2>3, <2>6, TimesAtMost
    <3> DEFINE x == f * d
               y == m * d
    <3>2. x \in Int /\ y \in Int /\ y <= x /\ x + d <= t /\ t < y + d
      BY <2>4, <2>5, <2>6, <2>7, <3>1
    <3> HIDE DEF x, y
    <3> QED
      BY <2>5, <3>2
  <2>9. m < g
    <3> SUFFICES ASSUME g <= m PROVE FALSE
      BY <2>3, <2>6
    <3>1. g * d <= m * d
      BY <2>3, <2>6, TimesAtMost
    <3> DEFINE x == g * d
               y == m * d
    <3>2. x \in Int /\ y \in Int /\ x <= y /\ y <= t /\ t < x
      BY <2>4, <2>5, <2>6, <2>7, <3>1
    <3> HIDE DEF x, y
    <3> QED
      BY <2>5, <3>2
  <2>10. m \in bucket - n .. bucket + u
    BY <1>2, <1>3, <2>3, <2>6, <2>8, <2>9
  <2>11. CASE m # bucket \/ fill
    <3>1. m \in Buckets(bucket, n, u, fill)
      BY <2>10, <2>11 DEF Buckets
    <3>2. PICK j \in DOMAIN p.bins : BinOn(p.bins[j], m, d)
      BY <3>1 DEF AllOf, bucket
    <3>3. p.bins[j].lower <= t /\ t < p.bins[j].upper
      BY <2>6, <3>2 DEF BinOn
    <3> QED
      BY <3>3
  <2>12. CASE m = bucket /\ ~fill
    <3>1. n > 0 /\ u > 0
      BY <1>2, <1>3, <2>3, <2>8, <2>9, <2>12
    <3>2. a = bucket * d
      BY <2>12, <3>1 DEF bucket
    <3>3. a % d = 0
      BY <1>3, <3>2, GridDiv
    <3>4. a <= t /\ t < a + d
      BY <2>6, <2>12, <3>2
    <3>5. t \in a .. a + d - 1
      BY <2>5, <3>4
    <3> QED
      BY <3>3, <3>5
  <2> QED
    BY <2>11, <2>12
<1> HIDE DEF spared
<1> QED
  BY <1>4, <1>5, <1>6 DEF Reaches, spared
-----------------------------------------------------------------------------
(* The bins of a shape.                                                    *)

LEMMA ThreeJoined ==
  ASSUME NEW B, NEW bids \in Seq(B), NEW active \in Seq(B), NEW asks \in Seq(B)
  PROVE  LET s == bids \o active \o asks
             b == Len(bids)
             c == Len(active)
             a == Len(asks)
         IN  /\ DOMAIN s = 1 .. b + c + a
             /\ \A k \in 1 .. b + c + a :
                  s[k] = IF k <= b THEN bids[k] ELSE IF k <= b + c THEN active[k - b] ELSE asks[k - b - c]
<1> DEFINE s == bids \o active \o asks
           b == Len(bids)
           c == Len(active)
           a == Len(asks)
<1>0. b \in Nat /\ a \in Nat /\ c \in Nat
  OBVIOUS
<1> DEFINE r == bids \o active
<1>1. /\ r \in Seq(B) /\ Len(r) = b + c
      /\ \A k \in 1 .. b + c : r[k] = IF k <= b THEN bids[k] ELSE active[k - b]
  BY ConcatProperties
<1> HIDE DEF r
<1>2. /\ s = r \o asks /\ Len(r \o asks) = b + c + a /\ r \o asks \in Seq(B)
      /\ \A k \in 1 .. b + c + a : (r \o asks)[k] = IF k <= b + c THEN r[k] ELSE asks[k - (b + c)]
  <2>1. s = r \o asks
    BY DEF r
  <2>2. /\ r \o asks \in Seq(B) /\ Len(r \o asks) = Len(r) + Len(asks)
        /\ \A k \in 1 .. Len(r) + Len(asks) :
             (r \o asks)[k] = IF k <= Len(r) THEN r[k] ELSE asks[k - Len(r)]
    <3>1. r \in Seq(B) /\ asks \in Seq(B)
      BY <1>1
    <3> HIDE DEF s, b, c, a
    <3> QED
      BY <3>1, ConcatProperties, Zenon
  <2> QED
    BY <1>1, <2>1, <2>2
<1> HIDE DEF s
<1>3. DOMAIN s = 1 .. b + c + a
  BY <1>2, LenProperties
<1>4. ASSUME NEW k \in 1 .. b + c + a
      PROVE  s[k] = IF k <= b THEN bids[k] ELSE IF k <= b + c THEN active[k - b] ELSE asks[k - b - c]
  <2>1. k - (b + c) = k - b - c
    BY <1>0
  <2>2. k <= b + c => k \in 1 .. b + c
    BY <1>0
  <2>3. k <= b => k <= b + c
    BY <1>0
  <2> QED
    BY <1>1, <1>2, <2>1, <2>2, <2>3
<1> QED
  BY <1>3, <1>4

LEMMA RungsApart ==
  ASSUME NEW bids \in Seq(LaidBin), NEW asks \in Seq(LaidBin), NEW active \in Seq(LaidBin),
         NEW one \in {"bid", "ask"}, NEW other \in {"bid", "ask"}, one # other,
         NEW bucket \in Int, NEW spacing \in Nat \ {0}, NEW c \in {0, 1},
         Len(active) = c, c = 1 => BinOn(active[1], bucket, spacing),
         \A k \in 1 .. Len(bids) : BinOn(bids[k], Rung(one, bucket, k), spacing),
         \A k \in 1 .. Len(asks) : BinOn(asks[k], Rung(other, bucket, k), spacing),
         NEW n, n = IF one = "bid" THEN Len(bids) ELSE Len(asks),
         NEW u, u = IF one = "bid" THEN Len(asks) ELSE Len(bids)
  PROVE  /\ LaidOn(bids \o active \o asks, spacing, Buckets(bucket, n, u, TRUE))
         /\ AllOf(bids \o active \o asks, spacing, Buckets(bucket, n, u, c = 1))
<1> DEFINE s == bids \o active \o asks
           b == Len(bids)
           a == Len(asks)
           h(k) == IF k <= b THEN Rung(one, bucket, k)
                   ELSE IF k = b + 1 /\ c = 1 THEN bucket
                   ELSE Rung(other, bucket, k - b - c)
<1>1. b \in Nat /\ a \in Nat
  OBVIOUS
<1>2. /\ DOMAIN s = 1 .. b + c + a
      /\ \A k \in 1 .. b + c + a :
           s[k] = IF k <= b THEN bids[k] ELSE IF k <= b + c THEN active[k - b] ELSE asks[k - b - c]
  <2>1. /\ DOMAIN s = 1 .. b + Len(active) + a
        /\ \A k \in 1 .. b + Len(active) + a :
             s[k] = IF k <= b THEN bids[k] ELSE IF k <= b + Len(active) THEN active[k - b] ELSE asks[k - b - Len(active)]
    BY ThreeJoined, Zenon
  <2> HIDE DEF s
  <2> QED
    BY <2>1
<1> HIDE DEF s
<1>3. ASSUME NEW k \in 1 .. b + c + a
      PROVE  BinOn(s[k], h(k), spacing) /\ h(k) \in Buckets(bucket, n, u, TRUE)
  <2>1. CASE k <= b
    <3>1. k \in 1 .. b
      BY <1>1, <2>1
    <3>2. s[k] = bids[k] /\ h(k) = Rung(one, bucket, k)
      BY <1>2, <2>1
    <3>3. Rung(one, bucket, k) \in bucket - n .. bucket + u
      BY <1>1, <3>1 DEF Rung
    <3> QED
      BY <3>1, <3>2, <3>3 DEF Buckets
  <2>2. CASE k = b + 1 /\ c = 1
    <3>1. ~(k <= b) /\ k <= b + c /\ k - b = 1
      BY <1>1, <2>2
    <3>2. s[k] = active[1] /\ h(k) = bucket
      BY <1>2, <2>2, <3>1
    <3>3. bucket \in bucket - n .. bucket + u
      BY <1>1
    <3> QED
      BY <2>2, <3>2, <3>3 DEF Buckets
  <2>3. CASE ~(k <= b) /\ ~(k = b + 1 /\ c = 1)
    <3>1. ~(k <= b + c) /\ k - b - c \in 1 .. a
      BY <1>1, <2>3
    <3>2. s[k] = asks[k - b - c] /\ h(k) = Rung(other, bucket, k - b - c)
      BY <1>2, <2>3, <3>1
    <3>3. Rung(other, bucket, k - b - c) \in bucket - n .. bucket + u
      BY <1>1, <3>1 DEF Rung
    <3> QED
      BY <3>1, <3>2, <3>3 DEF Buckets
  <2> QED
    BY <2>1, <2>2, <2>3
<1>4. ASSUME NEW k \in 1 .. b + c + a, NEW l \in 1 .. b + c + a, k # l PROVE h(k) # h(l)
  BY <1>1, <1>4 DEF Rung
<1>5. ASSUME NEW k \in 1 .. b + c + a PROVE h(k) \in Int
  BY <1>1, <1>5 DEF Rung
<1>6. DistinctLowers(s)
  <2> SUFFICES ASSUME NEW k \in DOMAIN s, NEW l \in DOMAIN s, k # l PROVE s[k].lower # s[l].lower
    BY DEF DistinctLowers
  <2>1. k \in 1 .. b + c + a /\ l \in 1 .. b + c + a
    BY <1>2
  <2>2. s[k].lower = h(k) * spacing /\ s[l].lower = h(l) * spacing
    BY <1>3, <2>1 DEF BinOn
  <2>3. h(k) # h(l) /\ h(k) \in Int /\ h(l) \in Int
    BY <1>4, <1>5, <2>1
  <2> HIDE DEF h
  <2>4. h(k) < h(l) \/ h(l) < h(k)
    BY <2>3
  <2>5. h(k) < h(l) => h(k) * spacing + spacing <= h(l) * spacing
    BY <2>3, GridStep
  <2>6. h(l) < h(k) => h(l) * spacing + spacing <= h(k) * spacing
    BY <2>3, GridStep
  <2>7. h(k) * spacing \in Int /\ h(l) * spacing \in Int
    BY <2>3
  <2> DEFINE x == h(k) * spacing
             y == h(l) * spacing
  <2>8. x \in Int /\ y \in Int /\ (x + spacing <= y \/ y + spacing <= x)
    BY <2>4, <2>5, <2>6, <2>7
  <2> HIDE DEF x, y
  <2>9. x # y
    BY <2>8
  <2> QED
    BY <2>2, <2>9 DEF x, y
<1>7. LaidOn(s, spacing, Buckets(bucket, n, u, TRUE))
  BY <1>2, <1>3, <1>6 DEF LaidOn
<1>8. ASSUME NEW m \in Buckets(bucket, n, u, c = 1) PROVE \E k \in 1 .. b + c + a : h(k) = m
  <2>1. m \in bucket - n .. bucket + u /\ (m = bucket => c = 1)
    BY DEF Buckets
  <2>2. CASE m = bucket
    <3>1. b + 1 \in 1 .. b + c + a /\ h(b + 1) = m
      BY <1>1, <2>1, <2>2
    <3> QED
      BY <3>1
  <2>3. CASE m < bucket
    <3> DEFINE k == IF one = "bid" THEN bucket - m ELSE b + c + (bucket - m)
    <3>1. k \in 1 .. b + c + a /\ h(k) = m
      BY <1>1, <2>1, <2>3 DEF Rung
    <3> QED
      BY <3>1
  <2>4. CASE m > bucket
    <3> DEFINE k == IF one = "bid" THEN b + c + (m - bucket) ELSE m - bucket
    <3>1. k \in 1 .. b + c + a /\ h(k) = m
      BY <1>1, <2>1, <2>4 DEF Rung
    <3> QED
      BY <3>1
  <2> QED
    BY <2>1, <2>2, <2>3, <2>4
<1>9. AllOf(s, spacing, Buckets(bucket, n, u, c = 1))
  <2> SUFFICES ASSUME NEW m \in Buckets(bucket, n, u, c = 1)
               PROVE  \E k \in DOMAIN s : BinOn(s[k], m, spacing)
    BY DEF AllOf
  <2>1. PICK k \in 1 .. b + c + a : h(k) = m
    BY <1>8
  <2>2. k \in DOMAIN s /\ BinOn(s[k], m, spacing)
    BY <1>2, <1>3, <2>1
  <2> QED
    BY <2>2
<1> QED
  BY <1>7, <1>9 DEF s

(* Which buckets a shaped request takes.                                   *)
Downwards(i) == BinsForDepth(IF i.quoteIs0 THEN i.above ELSE i.below, i.spacing)
Upwards(i) == BinsForDepth(IF i.quoteIs0 THEN i.below ELSE i.above, i.spacing)

LEMMA ShapedBinsLie ==
  ASSUME NEW i0, NEW i, Plannable(i0, i), i.style = "shaped", NEW quote \in Int, NEW base \in Int
  PROVE  LET bins == ShapedBins(i, quote, base)
             bucket == BucketOf(AnchorOf(i), i.spacing)
         IN  /\ LaidOn(bins, i.spacing, Buckets(bucket, Downwards(i), Upwards(i), TRUE))
             /\ (\A k \in DOMAIN bins : bins[k].liquidity > 0)
                  => AllOf(bins, i.spacing, Buckets(bucket, Downwards(i), Upwards(i), Filling(i)))
             /\ Downwards(i) > 0 /\ Upwards(i) > 0 /\ ~Filling(i) => AnchorOf(i) = LowerOf(i)
<1>1. PICK q \in Int, b \in Int :
        ShapedBins(i, quote, base)
          = Joined(WingsOf(i, q, b), Filling(i), LowerOf(i), LowerOf(i) + i.spacing)
  BY ShapedBinsAre
<1> DEFINE bins == ShapedBins(i, quote, base)
           bucket == BucketOf(AnchorOf(i), i.spacing)
           bids == WingsOf(i, q, b).bids
           asks == WingsOf(i, q, b).asks
           inner == IF Filling(i) THEN Inner(WingsOf(i, q, b)) ELSE 0
           one == [lower |-> LowerOf(i), upper |-> LowerOf(i) + i.spacing, liquidity |-> inner]
           active == IF inner > 0 THEN <<one>> ELSE <<>>
           c == IF inner > 0 THEN 1 ELSE 0
           n == Downwards(i)
           u == Upwards(i)
<1>2. bins = bids \o active \o asks
  BY <1>1 DEF Joined
<1>3. /\ i.spacing \in Nat \ {0} /\ i.quoteIs0 \in BOOLEAN /\ AnchorOf(i) \in Int
      /\ AnchorOf(i) \in DOMAIN SqrtPrice /\ bucket \in Int
  BY AnchorIs, FloorOf DEF Plannable, ResolvedTo
<1>4. /\ bids \in Seq(LaidBin) /\ Len(bids) = BinsForDepth(i.below, i.spacing)
      /\ asks \in Seq(LaidBin) /\ Len(asks) = BinsForDepth(i.above, i.spacing)
      /\ \A k \in 1 .. Len(bids) : BinOn(bids[k], Rung(BidSide(i), bucket, k), i.spacing)
      /\ \A k \in 1 .. Len(asks) : BinOn(asks[k], Rung(AskSide(i), bucket, k), i.spacing)
  BY WingsLaid
<1>5. /\ LowerOf(i) \in DOMAIN SqrtPrice /\ LowerOf(i) + i.spacing \in DOMAIN SqrtPrice
      /\ LowerOf(i) < LowerOf(i) + i.spacing
  BY ShapedFits DEF LowerOf
<1>6. Filling(i) => bids # <<>> /\ asks # <<>>
  <2> HIDE DEF bids, asks
  <2> QED
    BY <1>4 DEF Filling
<1>7. /\ inner \in Int
      /\ Filling(i) /\ bids[1].liquidity > 0 /\ asks[1].liquidity > 0 => inner > 0
  BY <1>4, <1>6, InnerInt
<1>8. inner > 0 => Filling(i)
  OBVIOUS
<1>9. /\ active \in Seq(LaidBin) /\ Len(active) = c
      /\ c = 1 => BinOn(active[1], bucket, i.spacing)
  <2> HIDE DEF inner
  <2>1. one \in LaidBin
    BY <1>5, <1>7 DEF LaidBin
  <2>2. BinOn(one, bucket, i.spacing)
    BY DEF BinOn, LowerOf
  <2> HIDE DEF one
  <2> QED
    BY <2>1, <2>2
<1>10. /\ BidSide(i) \in {"bid", "ask"} /\ AskSide(i) \in {"bid", "ask"} /\ BidSide(i) # AskSide(i)
       /\ n = IF BidSide(i) = "bid" THEN Len(bids) ELSE Len(asks)
       /\ u = IF BidSide(i) = "bid" THEN Len(asks) ELSE Len(bids)
  <2> HIDE DEF bids, asks
  <2> QED
    BY <1>3, <1>4 DEF BidSide, AskSide, Downwards, Upwards
<1>11. c \in {0, 1}
  OBVIOUS
<1> HIDE DEF bids, asks, active, bins, bucket, n, u, inner
<1>12. /\ LaidOn(bins, i.spacing, Buckets(bucket, n, u, TRUE))
       /\ AllOf(bins, i.spacing, Buckets(bucket, n, u, c = 1))
  <2> DEFINE side == BidSide(i)
             other == AskSide(i)
  <2>1. /\ side \in {"bid", "ask"} /\ other \in {"bid", "ask"} /\ side # other
        /\ n = IF side = "bid" THEN Len(bids) ELSE Len(asks)
        /\ u = IF side = "bid" THEN Len(asks) ELSE Len(bids)
        /\ \A k \in 1 .. Len(bids) : BinOn(bids[k], Rung(side, bucket, k), i.spacing)
        /\ \A k \in 1 .. Len(asks) : BinOn(asks[k], Rung(other, bucket, k), i.spacing)
    BY <1>4, <1>10
  <2> HIDE DEF c, side, other
  <2>2. /\ bids \in Seq(LaidBin) /\ asks \in Seq(LaidBin) /\ active \in Seq(LaidBin)
        /\ Len(active) = c /\ (c = 1 => BinOn(active[1], bucket, i.spacing))
        /\ bucket \in Int /\ i.spacing \in Nat \ {0} /\ c \in {0, 1}
    BY <1>3, <1>4, <1>9, <1>11
  <2>3. /\ LaidOn(bids \o active \o asks, i.spacing, Buckets(bucket, n, u, TRUE))
        /\ AllOf(bids \o active \o asks, i.spacing, Buckets(bucket, n, u, c = 1))
    BY <2>1, <2>2, RungsApart, ZenonT(60)
  <2> QED
    BY <1>2, <2>3
<1>13. ASSUME \A k \in DOMAIN bins : bins[k].liquidity > 0
       PROVE  AllOf(bins, i.spacing, Buckets(bucket, n, u, Filling(i)))
  <2>1. CASE ~Filling(i)
    <3>1. Buckets(bucket, n, u, c = 1) = Buckets(bucket, n, u, Filling(i))
      BY <1>8, <2>1 DEF Buckets
    <3> QED
      BY <1>12, <3>1
  <2>2. CASE Filling(i)
    <3>1. \E k \in DOMAIN bins : bins[k] = bids[1]
      <4>1. 1 \in DOMAIN bins /\ bins[1] = bids[1]
        BY <1>2, <1>4, <1>6, <1>9, <2>2
      <4> QED
        BY <4>1
    <3>2. \E k \in DOMAIN bins : bins[k] = asks[1]
      <4> DEFINE k == Len(bids) + Len(active) + 1
      <4>1. /\ Len(bids) \in Nat /\ Len(active) \in Nat /\ Len(asks) \in Nat /\ Len(asks) > 0
        BY <1>4, <1>6, <1>9, <2>2
      <4>2. /\ k \in 1 .. Len(bids) + Len(active) + Len(asks)
            /\ ~(k <= Len(bids)) /\ ~(k <= Len(bids) + Len(active)) /\ k - Len(bids) - Len(active) = 1
        BY <4>1
      <4> DEFINE b2 == Len(bids)
                 c2 == Len(active)
                 a2 == Len(asks)
                 t == bids \o active \o asks
      <4>3. /\ DOMAIN t = 1 .. b2 + c2 + a2
            /\ \A j \in 1 .. b2 + c2 + a2 :
                 t[j] = IF j <= b2 THEN bids[j] ELSE IF j <= b2 + c2 THEN active[j - b2] ELSE asks[j - b2 - c2]
        <5>1. bids \in Seq(LaidBin) /\ active \in Seq(LaidBin) /\ asks \in Seq(LaidBin)
          BY <1>4, <1>9
        <5> QED
          BY <5>1, ThreeJoined, Zenon
      <4> HIDE DEF k, t
      <4>4. k \in DOMAIN t /\ t[k] = asks[1]
        BY <4>2, <4>3
      <4>5. k \in DOMAIN bins /\ bins[k] = asks[1]
        BY <1>2, <4>4 DEF t
      <4> QED
        BY <4>5
    <3>3. inner > 0
      BY <1>7, <1>13, <2>2, <3>1, <3>2
    <3>4. Buckets(bucket, n, u, c = 1) = Buckets(bucket, n, u, Filling(i))
      BY <2>2, <3>3 DEF Buckets
    <3> QED
      BY <1>12, <3>4
  <2> QED
    BY <2>1, <2>2
<1>14. ASSUME n > 0, u > 0, ~Filling(i) PROVE AnchorOf(i) = LowerOf(i)
  <2>1. BinsForDepth(i.below, i.spacing) > 0 /\ BinsForDepth(i.above, i.spacing) > 0
    BY <1>3, <1>14 DEF n, u, Downwards, Upwards
  <2>2. LowerOf(i) <= AnchorOf(i) /\ AnchorOf(i) < LowerOf(i) + i.spacing
    BY <1>3, FloorOf DEF LowerOf
  <2>3. LowerOf(i) \in Int /\ LowerOf(i) + i.spacing \in Int
    BY <1>5, PriceAssumption
  <2>4. SqrtPrice[AnchorOf(i)] < SqrtPrice[LowerOf(i) + i.spacing]
    BY <1>3, <1>5, <2>2, PriceAssumption
  <2>5. ~(SqrtPrice[LowerOf(i)] < SqrtPrice[AnchorOf(i)])
    BY <1>14, <2>1, <2>4 DEF Filling
  <2>6. ~(LowerOf(i) < AnchorOf(i))
    BY <1>3, <1>5, <2>5, PriceAssumption
  <2> QED
    BY <1>3, <2>2, <2>3, <2>6
<1> QED
  BY <1>12, <1>13, <1>14 DEF bins, bucket, n, u
LEMMA FilteredLie ==
  ASSUME NEW bins \in Seq(LaidBin), NEW spacing, NEW M, NEW N, LaidOn(bins, spacing, M)
  PROVE  LET s == FoldLeft(WithBin, <<>>, bins)
         IN  /\ LaidOn(s, spacing, M)
             /\ (\A k \in DOMAIN bins : bins[k].liquidity > 0) /\ AllOf(bins, spacing, N)
                  => AllOf(s, spacing, N)
<1> DEFINE s == FoldLeft(WithBin, <<>>, bins)
<1>1. Kept(s, bins, DOMAIN bins)
  BY FilteredKept DEF LaidOn
<1> HIDE DEF s
<1>2. LaidOn(s, spacing, M)
  <2>1. \A k \in DOMAIN s : \E m \in M : BinOn(s[k], m, spacing)
    BY <1>1 DEF LaidOn, Kept
  <2> QED
    BY <1>1, <2>1 DEF LaidOn, DistinctLowers, Kept
<1>3. ASSUME \A k \in DOMAIN bins : bins[k].liquidity > 0, AllOf(bins, spacing, N)
      PROVE  AllOf(s, spacing, N)
  BY <1>1, <1>3 DEF AllOf, Kept
<1> QED
  BY <1>2, <1>3 DEF s

-----------------------------------------------------------------------------
(* The range of a simple position.                                         *)

LEMMA FiniteEnds ==
  ASSUME NEW S, IsFiniteSet(S), S # {}, \A y \in S : y \in Int
  PROVE  /\ Min(S) \in S /\ \A y \in S : Min(S) <= y
         /\ Max(S) \in S /\ \A y \in S : Max(S) >= y
<1> DEFINE Below(x) == {y \in S : y < x}
           Above(x) == {y \in S : y > x}
<1>1. \E x \in S : \A y \in S : x <= y
  <2> DEFINE T == {Below(x) : x \in S}
  <2>1. T \in SUBSET SUBSET S /\ T # {}
    OBVIOUS
  <2>2. PICK X \in T : \A Y \in T : Y \subseteq X => Y = X
    <3> HIDE DEF T
    <3> QED
      BY <2>1, FiniteLeast
  <2>3. PICK x \in S : X = Below(x)
    OBVIOUS
  <2>4. \A y \in S : x <= y
    <3> SUFFICES ASSUME NEW y \in S, y < x PROVE FALSE
      OBVIOUS
    <3>1. Below(y) \in T /\ y \in Below(x) /\ y \notin Below(y)
      OBVIOUS
    <3>2. Below(y) \subseteq Below(x)
      OBVIOUS
    <3> QED
      BY <3>1, <3>2, <2>2, <2>3
  <2> QED
    BY <2>4
<1>2. \E x \in S : \A y \in S : x >= y
  <2> DEFINE T == {Above(x) : x \in S}
  <2>1. T \in SUBSET SUBSET S /\ T # {}
    OBVIOUS
  <2>2. PICK X \in T : \A Y \in T : Y \subseteq X => Y = X
    <3> HIDE DEF T
    <3> QED
      BY <2>1, FiniteLeast
  <2>3. PICK x \in S : X = Above(x)
    OBVIOUS
  <2>4. \A y \in S : x >= y
    <3> SUFFICES ASSUME NEW y \in S, y > x PROVE FALSE
      OBVIOUS
    <3>1. Above(y) \in T /\ y \in Above(x) /\ y \notin Above(y)
      OBVIOUS
    <3>2. Above(y) \subseteq Above(x)
      OBVIOUS
    <3> QED
      BY <3>1, <3>2, <2>2, <2>3
  <2> QED
    BY <2>4
<1> QED
  BY <1>1, <1>2 DEF Min, Max

LEMMA MinMaxOfTwo ==
  ASSUME NEW x \in Int, NEW y \in Int
  PROVE  /\ Min({x, y}) = (IF x <= y THEN x ELSE y)
         /\ Max({x, y}) = (IF x >= y THEN x ELSE y)
  BY DEF Min, Max

LEMMA SimpleRangeLies ==
  ASSUME NEW i0, NEW i, Plannable(i0, i), i.style = "simple"
  PROVE  LET range == SimpleRange(AnchorOf(i), i.spacing, i.below, i.above, i.quoteIs0)
             down == IF i.quoteIs0 THEN i.above ELSE i.below
             up == IF i.quoteIs0 THEN i.below ELSE i.above
         IN  /\ \E m, n \in Int : range.lower = m * i.spacing /\ range.upper = n * i.spacing
             /\ Unclamped(i) => /\ down > 0 => range.lower <= AnchorOf(i) - down
                                /\ up > 0 => range.upper >= AnchorOf(i) + up
<1> DEFINE a == AnchorOf(i)
           d == i.spacing
           down == IF i.quoteIs0 THEN i.above ELSE i.below
           up == IF i.quoteIs0 THEN i.below ELSE i.above
           grid == {m * d : m \in Int}
           bucket == BucketOf(a, d) * d
           outLower == ((a - down) \div d) * d
           outUpper == Ceiling(a + up, d) * d
           first == Min(DOMAIN SqrtPrice)
           last == Max(DOMAIN SqrtPrice)
           least == Ceiling(first, d) * d
           most == (last \div d) * d
           inLower == IF down = 0 THEN Max({outLower, bucket + d}) ELSE outLower
           inUpper == IF up = 0 THEN Min({outUpper, bucket}) ELSE outUpper
           lower == Max({least, inLower})
           upper == Min({most, inUpper})
           range == NotEmpty(lower, upper, up, d)
<1>1. SimpleRange(a, d, i.below, i.above, i.quoteIs0) = range
  BY DEF SimpleRange
<1>2. /\ a \in Int /\ d \in Nat \ {0} /\ i.below \in Nat /\ i.above \in Nat /\ i.quoteIs0 \in BOOLEAN
  BY AnchorIs DEF Plannable, ResolvedTo
<1> HIDE DEF a, d
<1>3. down \in Nat /\ up \in Nat
  BY <1>2
<1>4. /\ first \in Int /\ last \in Int
      /\ \A t \in DOMAIN SqrtPrice : first <= t /\ t <= last /\ t \in Int
  <2>1. (\A t \in DOMAIN SqrtPrice : t \in Int) /\ IsFiniteSet(DOMAIN SqrtPrice) /\ DOMAIN SqrtPrice # {}
    BY PriceAssumption
  <2>2. /\ first \in DOMAIN SqrtPrice /\ \A y \in DOMAIN SqrtPrice : first <= y
        /\ last \in DOMAIN SqrtPrice /\ \A y \in DOMAIN SqrtPrice : last >= y
    BY <2>1, FiniteEnds
  <2> HIDE DEF first, last
  <2> QED
    BY <2>1, <2>2
<1> HIDE DEF down, up, first, last
<1>5. ASSUME NEW x \in grid PROVE x \in Int /\ x + d \in grid /\ x - d \in grid
  <2>1. PICK m \in Int : x = m * d
    OBVIOUS
  <2>2. x + d = (m + 1) * d /\ x - d = (m - 1) * d /\ m + 1 \in Int /\ m - 1 \in Int /\ x \in Int
    BY <1>2, <2>1
  <2> QED
    BY <2>2
<1>6. ASSUME NEW x \in grid, NEW y \in grid
      PROVE  /\ Min({x, y}) = (IF x <= y THEN x ELSE y) /\ Min({x, y}) \in grid
             /\ Max({x, y}) = (IF x >= y THEN x ELSE y) /\ Max({x, y}) \in grid
  <2>1. x \in Int /\ y \in Int
    BY <1>5
  <2>2. Min({x, y}) = (IF x <= y THEN x ELSE y) /\ Max({x, y}) = (IF x >= y THEN x ELSE y)
    BY <2>1, MinMaxOfTwo
  <2> HIDE DEF grid
  <2> QED
    BY <2>2
<1>7. bucket \in grid
  BY <1>2, FloorOf
<1>8. outLower \in grid /\ outLower <= a - down
  <2>1. a - down \in Int
    BY <1>2, <1>3
  <2>2. (a - down) \div d \in Int /\ ((a - down) \div d) * d <= a - down
    BY <1>2, <2>1, FloorOf DEF BucketOf
  <2> QED
    BY <2>2
<1>9. outUpper \in grid /\ outUpper >= a + up
  <2>1. a + up \in Int
    BY <1>2, <1>3
  <2>2. Ceiling(a + up, d) \in Int /\ a + up <= Ceiling(a + up, d) * d
    BY <1>2, <2>1, CeilingOf
  <2> DEFINE m == Ceiling(a + up, d)
             x == m * d
  <2>3. m \in Int /\ a + up <= x
    BY <2>2
  <2> HIDE DEF m
  <2>4. x \in grid /\ x \in Int
    BY <1>2, <2>3
  <2> HIDE DEF x
  <2>5. x \in grid /\ x >= a + up
    BY <2>1, <2>3, <2>4
  <2> QED
    BY <2>5 DEF x, m
<1>10. least \in grid /\ most \in grid
  BY <1>2, <1>4, CeilingOf, FloorOf DEF BucketOf
<1>11. outLower \in DOMAIN SqrtPrice => least <= outLower
  <2> SUFFICES ASSUME outLower \in DOMAIN SqrtPrice PROVE least <= outLower
    OBVIOUS
  <2>1. PICK m \in Int : outLower = m * d
    BY <1>8
  <2>2. first <= m * d
    BY <1>4, <2>1
  <2>3. Ceiling(first, d) * d <= m * d
    BY <1>2, <1>4, <2>2, CeilingLeast
  <2> QED
    BY <2>1, <2>3
<1>12. outUpper \in DOMAIN SqrtPrice => outUpper <= most
  <2> SUFFICES ASSUME outUpper \in DOMAIN SqrtPrice PROVE outUpper <= most
    OBVIOUS
  <2>1. PICK m \in Int : outUpper = m * d
    BY <1>9
  <2>2. m * d <= last
    BY <1>4, <2>1
  <2>3. m * d <= (last \div d) * d
    BY <1>2, <1>4, <2>2, FloorMost
  <2> QED
    BY <2>1, <2>3
<1>13. Unclamped(i) = ({outLower, outUpper} \subseteq DOMAIN SqrtPrice)
  BY DEF Unclamped, a, d, down, up
<1> HIDE DEF grid, bucket, outLower, outUpper, least, most
<1>14. inLower \in grid /\ (down > 0 => inLower = outLower)
  <2>1. bucket + d \in grid
    BY <1>5, <1>7
  <2>2. Max({outLower, bucket + d}) \in grid
    BY <1>6, <1>8, <2>1
  <2> QED
    BY <1>3, <1>8, <2>2
<1>15. inUpper \in grid /\ (up > 0 => inUpper = outUpper)
  <2>1. Min({outUpper, bucket}) \in grid
    BY <1>6, <1>7, <1>9
  <2> QED
    BY <1>3, <1>9, <2>1
<1> HIDE DEF inLower, inUpper
<1>16. /\ lower \in grid /\ (down > 0 /\ least <= outLower => lower = outLower)
  <2>1. lower \in grid /\ lower = IF least >= inLower THEN least ELSE inLower
    BY <1>6, <1>10, <1>14
  <2>2. least \in Int /\ inLower \in Int
    BY <1>5, <1>10, <1>14
  <2> QED
    BY <1>14, <2>1, <2>2
<1>17. /\ upper \in grid /\ (up > 0 /\ outUpper <= most => upper = outUpper)
  <2>1. upper \in grid /\ upper = IF most <= inUpper THEN most ELSE inUpper
    BY <1>6, <1>10, <1>15
  <2>2. most \in Int /\ inUpper \in Int
    BY <1>5, <1>10, <1>15
  <2> QED
    BY <1>15, <2>1, <2>2
<1> HIDE DEF lower, upper
<1>18. lower \in Int /\ upper \in Int /\ outLower \in Int /\ outUpper \in Int
  BY <1>5, <1>8, <1>9, <1>16, <1>17
<1>19. /\ range.lower \in grid /\ range.upper \in grid
       /\ down > 0 /\ lower = outLower => range.lower <= a - down
       /\ up > 0 /\ upper = outUpper => range.upper >= a + up
  <2>1. CASE upper > lower
    <3>1. range.lower = lower /\ range.upper = upper
      BY <2>1 DEF NotEmpty
    <3> QED
      BY <1>8, <1>9, <1>16, <1>17, <3>1
  <2>2. CASE ~(upper > lower) /\ up = 0
    <3>1. range.lower = upper - d /\ range.upper = upper
      BY <2>2 DEF NotEmpty
    <3>2. upper - d \in grid
      BY <1>5, <1>17
    <3>3. upper - d <= lower
      BY <1>2, <1>18, <2>2
    <3>4. down > 0 /\ lower = outLower => upper - d <= a - down
      BY <1>2, <1>3, <1>8, <1>18, <3>3
    <3> QED
      BY <1>17, <2>2, <3>1, <3>2, <3>4
  <2>3. CASE ~(upper > lower) /\ up # 0
    <3>1. range.lower = lower /\ range.upper = lower + d
      BY <2>3 DEF NotEmpty
    <3>2. lower + d \in grid
      BY <1>5, <1>16
    <3>3. upper = outUpper => lower + d >= a + up
      BY <1>2, <1>3, <1>9, <1>18, <2>3
    <3> QED
      BY <1>8, <1>16, <3>1, <3>2, <3>3
  <2> QED
    BY <2>1, <2>2, <2>3
<1> HIDE DEF range
<1>20. \E m, n \in Int : range.lower = m * d /\ range.upper = n * d
  BY <1>19 DEF grid
<1>21. Unclamped(i) => /\ down > 0 => range.lower <= a - down
                       /\ up > 0 => range.upper >= a + up
  BY <1>11, <1>12, <1>13, <1>16, <1>17, <1>19
<1> QED
  BY <1>1, <1>20, <1>21 DEF a, d, down, up
-----------------------------------------------------------------------------
(* Where the bins of a plan are.                                           *)

(* Terms for this request, of bins like these.                             *)
TermsOf(p, r, bins) ==
  /\ p.spacing = r.spacing /\ p.anchor = AnchorOf(r) /\ p.quoteIs0 = r.quoteIs0
  /\ p.bins = bins /\ bins # <<>>

LEMMA SimplePlaced ==
  ASSUME NEW i0, NEW r, Plannable(i0, r), r.style = "simple", NEW p, NEW quote \in Int, NEW base \in Int,
         NEW bins \in Seq(FilledBin), TermsOf(p, r, bins),
         Kept(bins, SimpleBins(r, quote, base), DOMAIN SimpleBins(r, quote, base))
  PROVE  OnGrid(p) /\ (Unclamped(r) => Reaches(r, p))
<1> DEFINE range == SimpleRange(AnchorOf(r), r.spacing, r.below, r.above, r.quoteIs0)
           down == IF r.quoteIs0 THEN r.above ELSE r.below
           up == IF r.quoteIs0 THEN r.below ELSE r.above
           d == r.spacing
           all == SimpleBins(r, quote, base)
<1>1. DOMAIN all = {1} /\ all[1].lower = range.lower /\ all[1].upper = range.upper
  BY DEF SimpleBins
<1>2. /\ \E m, n \in Int : range.lower = m * d /\ range.upper = n * d
      /\ Unclamped(r) => /\ down > 0 => range.lower <= AnchorOf(r) - down
                         /\ up > 0 => range.upper >= AnchorOf(r) + up
  BY SimpleRangeLies
<1>3. range.lower \in Int /\ range.upper \in Int /\ range.lower < range.upper
  BY SimpleRangeIs, PriceAssumption
<1>4. d \in Nat \ {0} /\ p.spacing = d /\ p.anchor = AnchorOf(r) /\ p.quoteIs0 = r.quoteIs0 /\ p.bins = bins
  BY DEF Plannable, ResolvedTo, TermsOf
<1> HIDE DEF range, d
<1>5. range.lower % d = 0 /\ range.upper % d = 0
  BY <1>2, <1>4, GridDiv
<1>6. \A k \in DOMAIN bins : bins[k].lower = range.lower /\ bins[k].upper = range.upper
  <2> HIDE DEF all
  <2>1. \A k \in DOMAIN bins : \E q \in DOMAIN all : bins[k] = all[q]
    BY DEF Kept, all
  <2> QED
    BY <1>1, <2>1
<1>7. \A k, l \in DOMAIN bins : k = l
  BY <1>6 DEF Kept
<1>8. OnGrid(p)
  BY <1>3, <1>4, <1>5, <1>6, <1>7 DEF OnGrid
<1>9. 1 \in DOMAIN bins
  BY DEF TermsOf
<1>10. ASSUME Unclamped(r) PROVE Reaches(r, p)
  <2>1. down > 0 => p.bins[1].lower <= AnchorOf(r) - down
    BY <1>2, <1>4, <1>6, <1>9, <1>10
  <2>2. up > 0 => p.bins[1].upper >= AnchorOf(r) + up
    BY <1>2, <1>4, <1>6, <1>9, <1>10
  <2>3. \A k, l \in DOMAIN p.bins : p.bins[k].upper .. p.bins[l].lower - 1 = {}
    BY <1>3, <1>4, <1>6
  <2>4. 1 \in DOMAIN p.bins
    BY <1>4, <1>9
  <2> QED
    BY <1>4, <2>1, <2>2, <2>3, <2>4 DEF Reaches
<1> QED
  BY <1>8, <1>10

LEMMA ShapedPlaced ==
  ASSUME NEW i0, NEW r, Plannable(i0, r), r.style = "shaped", NEW p, NEW bins, TermsOf(p, r, bins),
         LaidOn(bins, r.spacing, Buckets(BucketOf(AnchorOf(r), r.spacing), Downwards(r), Upwards(r), TRUE)),
         Downwards(r) > 0 /\ Upwards(r) > 0 /\ ~Filling(r) => AnchorOf(r) = LowerOf(r),
         NEW all, all => AllOf(bins, r.spacing,
                               Buckets(BucketOf(AnchorOf(r), r.spacing), Downwards(r), Upwards(r), Filling(r)))
  PROVE  OnGrid(p) /\ (all => Reaches(r, p))
<1> DEFINE bucket == BucketOf(AnchorOf(r), r.spacing)
           n == Downwards(r)
           u == Upwards(r)
           fill == Filling(r)
<1>1. /\ p.spacing \in Nat \ {0} /\ p.anchor \in Int /\ p.quoteIs0 \in BOOLEAN
      /\ r.below \in Nat /\ r.above \in Nat /\ p.bins = bins
      /\ p.spacing = r.spacing /\ p.anchor = AnchorOf(r) /\ p.quoteIs0 = r.quoteIs0
  BY AnchorIs DEF Plannable, ResolvedTo, TermsOf
<1>2. Buckets(bucket, n, u, TRUE) \subseteq Int
  BY DEF Buckets
<1>3. OnGrid(p)
  BY <1>1, <1>2, LaidOnGrid
<1>4. ASSUME all PROVE Reaches(r, p)
  <2>1. fill \in BOOLEAN
    BY DEF Filling
  <2>2. /\ n = BinsForDepth(IF p.quoteIs0 THEN r.above ELSE r.below, p.spacing)
        /\ u = BinsForDepth(IF p.quoteIs0 THEN r.below ELSE r.above, p.spacing)
    BY <1>1 DEF Downwards, Upwards
  <2>3. n > 0 /\ u > 0 /\ ~fill => p.anchor = BucketOf(p.anchor, p.spacing) * p.spacing
    BY <1>1 DEF LowerOf
  <2>4. /\ LaidOn(p.bins, p.spacing, Buckets(BucketOf(p.anchor, p.spacing), n, u, TRUE))
        /\ AllOf(p.bins, p.spacing, Buckets(BucketOf(p.anchor, p.spacing), n, u, fill))
    BY <1>1, <1>4
  <2> HIDE DEF n, u, fill
  <2> QED
    BY <1>1, <2>1, <2>2, <2>3, <2>4, LaidReaches
<1> QED
  BY <1>3, <1>4

LEMMA PlanPlaced ==
  ASSUME NEW i \in Requests, ~PlanOf(i).error
  PROVE  OnGrid(PlanOf(i)) /\ (Roomy(Resolve(i)) => Reaches(i, PlanOf(i)))
<1> DEFINE r == Resolve(i)
           p == PlanOf(i)
<1>1. NoPlan.error
  BY DEF NoPlan
<1>2. ~Refused(r) /\ Plannable(i, r)
  <2>1. ~Refused(r)
    BY <1>1 DEF PlanOf, SdkPlan, WebPlan
  <2> QED
    BY <2>1, PlannableIs
<1>3. /\ p.bins \in Seq(FilledBin)
  BY PlanStated DEF Stated
<1>4. r.below = i.below /\ r.above = i.above /\ r.caller = i.caller
  BY DEF Resolve
<1> HIDE DEF r
<1>5. /\ r.quote \in Int /\ r.base \in Int /\ r.style \in {"shaped", "simple"}
  BY <1>2 DEF Plannable, ResolvedTo
<1>6. ASSUME r.caller = "sdk"
      PROVE  /\ p.bins = FoldLeft(WithBin, <<>>, Bins(r, r.quote, r.base))
             /\ TermsOf(p, r, p.bins)
  <2> DEFINE bins == FoldLeft(WithBin, <<>>, Bins(r, r.quote, r.base))
  <2>1. p = SdkPlan(r)
    BY <1>4, <1>6 DEF PlanOf, r
  <2>2. p = NoPlan \/ p = SdkTerms(r, bins)
    BY <2>1 DEF SdkPlan
  <2>3. p = SdkTerms(r, bins)
    BY <1>1, <2>2
  <2> HIDE DEF bins, p
  <2>4. bins # <<>>
    <3>1. bins = <<>> => SdkTerms(r, bins) = NoPlan
      BY DEF SdkTerms
    <3> QED
      BY <1>1, <2>3, <3>1 DEF p
  <2>5. /\ p.bins = bins /\ p.spacing = r.spacing /\ p.anchor = AnchorOf(r) /\ p.quoteIs0 = r.quoteIs0
    BY <2>3, <2>4 DEF SdkTerms
  <2> QED
    BY <2>4, <2>5 DEF TermsOf, bins
<1>7. ASSUME r.caller # "sdk"
      PROVE  \E quote, base \in Int : p.bins = Bins(r, quote, base) /\ TermsOf(p, r, p.bins)
  <2> DEFINE wing == WingQuote(r)
             base == IF BuysWing(r) THEN WingOut(r, wing) ELSE r.base
             bins == Bins(r, r.quote - wing, base)
             fails == \/ BuysWing(r) /\ (Route(r) = None \/ (Route(r) = "router" /\ base = 0))
                      \/ bins = <<>>
                      \/ \E k \in DOMAIN bins : bins[k].liquidity <= 0
  <2>1. p = WebPlan(r)
    BY <1>4, <1>7 DEF PlanOf, r
  <2>2. wing \in Nat
    BY <1>2, WingQuoteNat
  <2>3. ~BuysWing(r) \/ Route(r) # None => base \in Nat
    BY <1>2, <1>5, <2>2, WingOutNat DEF Plannable, ResolvedTo
  <2> HIDE DEF wing, base
  <2>4. p = WebTerms(r, wing, base, bins)
    BY <1>2, <2>1 DEF WebPlan, wing, base
  <2> HIDE DEF bins, p
  <2>5. ~fails
    <3>1. fails => WebTerms(r, wing, base, bins) = NoPlan
      BY DEF WebTerms
    <3> QED
      BY <1>1, <2>4, <3>1 DEF p
  <2>6. /\ p.bins = bins /\ p.spacing = r.spacing /\ p.anchor = AnchorOf(r) /\ p.quoteIs0 = r.quoteIs0
    BY <2>4, <2>5 DEF WebTerms
  <2>7. bins # <<>> /\ r.quote - wing \in Int /\ base \in Int
    BY <1>5, <2>2, <2>3, <2>5
  <2> QED
    BY <2>6, <2>7 DEF TermsOf, bins
<1> HIDE DEF p
<1>8. ASSUME r.caller = "sdk", r.style = "simple"
      PROVE  OnGrid(p) /\ (Unclamped(r) => Reaches(r, p))
  <2> DEFINE all == SimpleBins(r, r.quote, r.base)
  <2>1. p.bins = FoldLeft(WithBin, <<>>, all) /\ TermsOf(p, r, p.bins)
    BY <1>6, <1>8 DEF Bins
  <2>2. all \in Seq(LaidBin)
    BY <1>2, <1>5, <1>8, SimpleBinsLaid
  <2>3. DOMAIN all = {1}
    BY DEF SimpleBins
  <2> HIDE DEF all
  <2>4. DistinctLowers(all)
    BY <2>3 DEF DistinctLowers
  <2>5. Kept(p.bins, all, DOMAIN all)
    BY <2>1, <2>2, <2>4, FilteredKept
  <2> QED
    BY <1>2, <1>3, <1>5, <1>8, <2>1, <2>5, SimplePlaced DEF all
<1>9. ASSUME r.caller # "sdk", r.style = "simple"
      PROVE  OnGrid(p) /\ (Unclamped(r) => Reaches(r, p))
  <2>1. PICK quote \in Int, base \in Int : p.bins = Bins(r, quote, base) /\ TermsOf(p, r, p.bins)
    BY <1>7, <1>9
  <2> DEFINE all == SimpleBins(r, quote, base)
  <2>2. p.bins = all
    BY <1>9, <2>1 DEF Bins
  <2>3. DOMAIN all = {1}
    BY DEF SimpleBins
  <2> HIDE DEF all
  <2>4. Kept(p.bins, all, DOMAIN all)
    BY <2>2, <2>3 DEF Kept
  <2> QED
    BY <1>2, <1>3, <1>9, <2>1, <2>4, SimplePlaced DEF all
<1>10. ASSUME r.caller = "sdk", r.style = "shaped"
       PROVE  OnGrid(p) /\ (NoneLeftOut(r) => Reaches(r, p))
  <2> DEFINE all == ShapedBins(r, r.quote, r.base)
             bucket == BucketOf(AnchorOf(r), r.spacing)
             M == Buckets(bucket, Downwards(r), Upwards(r), TRUE)
             N == Buckets(bucket, Downwards(r), Upwards(r), Filling(r))
             s == FoldLeft(WithBin, <<>>, all)
  <2>1. p.bins = s /\ TermsOf(p, r, s)
    BY <1>6, <1>10 DEF Bins
  <2>2. all \in Seq(LaidBin)
    BY <1>2, <1>5, <1>10, ShapedBinsLaid
  <2>3. /\ LaidOn(all, r.spacing, M)
        /\ (\A k \in DOMAIN all : all[k].liquidity > 0) => AllOf(all, r.spacing, N)
        /\ Downwards(r) > 0 /\ Upwards(r) > 0 /\ ~Filling(r) => AnchorOf(r) = LowerOf(r)
    BY <1>2, <1>5, <1>10, ShapedBinsLie
  <2>4. NoneLeftOut(r) => \A k \in DOMAIN all : all[k].liquidity > 0
    BY <1>10 DEF NoneLeftOut, Bins
  <2> HIDE DEF all, M, N
  <2>5. /\ LaidOn(s, r.spacing, M)
        /\ (\A k \in DOMAIN all : all[k].liquidity > 0) /\ AllOf(all, r.spacing, N) => AllOf(s, r.spacing, N)
    BY <2>2, <2>3, FilteredLie
  <2> HIDE DEF s
  <2>6. NoneLeftOut(r) => AllOf(s, r.spacing, N)
    BY <2>3, <2>4, <2>5
  <2> QED
    BY <1>2, <1>10, <2>1, <2>3, <2>5, <2>6, ShapedPlaced DEF M, N
<1>11. ASSUME r.caller # "sdk", r.style = "shaped"
       PROVE  OnGrid(p) /\ Reaches(r, p)
  <2>1. PICK quote \in Int, base \in Int : p.bins = Bins(r, quote, base) /\ TermsOf(p, r, p.bins)
    BY <1>7, <1>11
  <2> DEFINE all == ShapedBins(r, quote, base)
             bucket == BucketOf(AnchorOf(r), r.spacing)
             M == Buckets(bucket, Downwards(r), Upwards(r), TRUE)
             N == Buckets(bucket, Downwards(r), Upwards(r), Filling(r))
  <2>2. p.bins = all /\ TermsOf(p, r, all)
    BY <1>11, <2>1 DEF Bins
  <2>3. /\ LaidOn(all, r.spacing, M)
        /\ (\A k \in DOMAIN all : all[k].liquidity > 0) => AllOf(all, r.spacing, N)
        /\ Downwards(r) > 0 /\ Upwards(r) > 0 /\ ~Filling(r) => AnchorOf(r) = LowerOf(r)
    BY <1>2, <1>11, ShapedBinsLie
  <2> HIDE DEF all, M, N
  <2>4. \A k \in DOMAIN all : all[k].liquidity > 0
    <3> SUFFICES ASSUME NEW k \in DOMAIN all PROVE all[k].liquidity > 0
      OBVIOUS
    <3>1. all[k] \in FilledBin
      BY <1>3, <2>2, ElementOfSeq DEF p
    <3> QED
      BY <3>1 DEF FilledBin
  <2>5. TRUE => AllOf(all, r.spacing, N)
    BY <2>3, <2>4
  <2> QED
    BY <1>2, <1>11, <2>2, <2>3, <2>5, ShapedPlaced DEF M, N
<1>12. OnGrid(p) /\ (Roomy(r) => Reaches(r, p))
  BY <1>5, <1>8, <1>9, <1>10, <1>11 DEF Roomy
<1>13. Reaches(r, p) => Reaches(i, p)
  BY <1>4 DEF Reaches
<1> QED
  BY <1>12, <1>13 DEF p, r

-----------------------------------------------------------------------------
(* What the chain does to the form's transactions.                         *)

(* Terms that were signed are those of a form, or none in an exit.         *)
FormTerms(p) == \E f \in Forms : p = PlanOf(f) /\ ~p.error

SoundRun(run) ==
  /\ run \in Run
  /\ run.at \in 1 .. Len(run.steps)
  /\ \/ run.steps \in Itineraries /\ run.terms = NoPlan /\ ~run.atomic
     \/ FormTerms(run.terms)

Ticks(p) == p.anchor - 1 .. p.anchor + 1

LEMMA FormTermsAre ==
  ASSUME NEW p, FormTerms(p), NEW tick \in Ticks(p)
  PROVE  Stated(p) /\ tick \in DOMAIN SqrtPrice
<1>1. PICK f \in Forms : p = PlanOf(f) /\ ~p.error
  BY DEF FormTerms
<1>2. f \in Requests
  BY WebAssumption
<1>3. Stated(p)
  BY <1>1, <1>2, PlanStated
<1>4. PlanOf(f).anchor - 1 .. PlanOf(f).anchor + 1 \subseteq DOMAIN SqrtPrice
  BY <1>1, TicksAssumption
<1> QED
  BY <1>1, <1>3, <1>4 DEF Ticks

LEMMA PulledNat ==
  ASSUME NEW p, Stated(p), NEW tick, p.bins # <<>> => tick \in DOMAIN SqrtPrice
  PROVE  Pulled(p, tick).quote \in Nat /\ Pulled(p, tick).base \in Nat
<1> DEFINE v == CostPosition(p.bins, SqrtPrice[tick])
           q == IF p.quoteIs0 THEN v.amount0 ELSE v.amount1
           b == IF p.quoteIs0 THEN v.amount1 ELSE v.amount0
<1>1. p.bins \in Seq(FilledBin) /\ p.wing \in Nat /\ p.base \in Nat
  BY DEF Stated, Terms
<1>2. v.amount0 \in Nat /\ v.amount1 \in Nat
  BY <1>1, CostNat
<1>3. /\ Pulled(p, tick).quote = q + (IF p.route = "v4" THEN p.wing ELSE 0)
      /\ Pulled(p, tick).base = IF p.route = "v4" THEN Max({b - p.base, 0}) ELSE b
  BY DEF Pulled
<1> HIDE DEF v
<1>4. q \in Nat /\ b \in Nat
  BY <1>2
<1> HIDE DEF q, b
<1>5. Max({b - p.base, 0}) \in Nat
  <2> DEFINE d == b - p.base
  <2>1. d \in Int
    BY <1>1, <1>4
  <2> HIDE DEF d
  <2>2. Max({d, 0}) = IF d >= 0 THEN d ELSE 0
    BY <2>1 DEF Max
  <2> QED
    BY <2>1, <2>2 DEF d
<1> QED
  BY <1>1, <1>3, <1>4, <1>5

LEMMA SoundPulls ==
  ASSUME NEW run, SoundRun(run), NEW tick \in Ticks(run.terms)
  PROVE  /\ Stated(run.terms)
         /\ Pulled(run.terms, tick).quote \in Nat /\ Pulled(run.terms, tick).base \in Nat
<1>1. CASE run.terms = NoPlan
  <2>1. NoPlan.bins = <<>>
    BY DEF NoPlan
  <2>2. Stated(NoPlan)
    BY <2>1, NoPlanTyped DEF Stated
  <2>3. Pulled(NoPlan, tick).quote \in Nat /\ Pulled(NoPlan, tick).base \in Nat
    BY <2>1, <2>2, PulledNat
  <2> QED
    BY <1>1, <2>2, <2>3
<1>2. CASE FormTerms(run.terms)
  <2>1. Stated(run.terms) /\ tick \in DOMAIN SqrtPrice
    BY <1>2, FormTermsAre
  <2> QED
    BY <2>1, PulledNat
<1> QED
  BY <1>1, <1>2 DEF SoundRun

LEMMA DoTyped ==
  ASSUME NEW c \in Chain, NEW r \in Runs, SoundRun(runs[r]), NEW kind \in Kinds, NEW amount \in Nat,
         NEW tick \in Ticks(runs[r].terms)
  PROVE  Do(c, r, kind, amount, tick) \in Chain \cup {None}
<1> DEFINE run == runs[r]
           p == run.terms
           pull == Pulled(p, tick)
           after == Do(c, r, kind, amount, tick)
<1>1. /\ run \in Run /\ Stated(p) /\ pull.quote \in Nat /\ pull.base \in Nat
  BY SoundPulls DEF SoundRun
<1>2. /\ run.wrap \in Nat /\ p.wing \in Nat /\ p.base \in Nat /\ p.needsQuote \in Nat /\ p.needsBase \in Nat
  BY <1>1 DEF Run, Stated, Terms
<1>3. /\ c.native \in Nat /\ c.quote \in Nat /\ c.base \in Nat /\ c.toQuote \in Nat /\ c.toBase \in Nat
      /\ c.toRouter \in Nat /\ c.granted \in Nat /\ c.opened \in [Runs -> Nat]
  BY DEF Chain
<1>4. Payout \in Nat
  BY WebAssumption
<1>5. CASE kind = "wrap"
  <2>1. after = IF c.native < run.wrap THEN None
                ELSE [c EXCEPT !.native = @ - run.wrap, !.quote = @ + run.wrap]
    BY <1>5 DEF Do
  <2> HIDE DEF after, run
  <2>2. ~(c.native < run.wrap) => c.native - run.wrap \in Nat /\ c.quote + run.wrap \in Nat
    BY <1>2, <1>3
  <2> QED
    BY <2>1, <2>2 DEF Chain, after
<1>6. CASE kind = "wing"
  <2>1. after = IF c.quote < p.wing THEN None
                ELSE [c EXCEPT !.quote = @ - p.wing, !.base = @ + p.base]
    BY <1>6 DEF Do
  <2> HIDE DEF after, run, p
  <2>2. ~(c.quote < p.wing) => c.quote - p.wing \in Nat /\ c.base + p.base \in Nat
    BY <1>2, <1>3
  <2> QED
    BY <2>1, <2>2 DEF Chain, after
<1>7. CASE kind = "approveQuote"
  <2>1. after = [c EXCEPT !.toQuote = p.needsQuote, !.granted = @ + 1]
    BY <1>7 DEF Do, QuoteApproval
  <2> HIDE DEF after, run, p
  <2>2. c.granted + 1 \in Nat
    BY <1>3
  <2> QED
    BY <1>2, <2>1, <2>2 DEF Chain, after
<1>8. CASE kind = "approveBase"
  <2>1. after = [c EXCEPT !.toBase = p.needsBase]
    BY <1>8 DEF Do
  <2> HIDE DEF after, run, p
  <2> QED
    BY <1>2, <2>1 DEF Chain, after
<1>9. CASE kind = "open"
  <2> DEFINE opened == [c.opened EXCEPT ![r] = @ + 1]
             reverts == \/ Len(p.bins) > MaxBins
                        \/ pull.quote > Min({p.needsQuote, c.toQuote, c.quote})
                        \/ pull.base > Min({p.needsBase, c.toBase, c.base})
  <2>1. after = IF reverts THEN None
                ELSE [c EXCEPT !.quote = @ - pull.quote, !.toQuote = @ - pull.quote,
                               !.base = @ - pull.base, !.toBase = @ - pull.base, !.opened = opened]
    BY <1>9 DEF Do
  <2>2. opened \in [Runs -> Nat]
    BY <1>3
  <2>3. ~reverts => /\ c.quote - pull.quote \in Nat /\ c.toQuote - pull.quote \in Nat
                    /\ c.base - pull.base \in Nat /\ c.toBase - pull.base \in Nat
    <3> HIDE DEF pull, p
    <3>1. SUFFICES ASSUME ~reverts
                   PROVE  /\ pull.quote <= c.quote /\ pull.quote <= c.toQuote
                          /\ pull.base <= c.base /\ pull.base <= c.toBase
      BY <1>1, <1>3
    <3> DEFINE m == Min({p.needsQuote, c.toQuote, c.quote})
               n == Min({p.needsBase, c.toBase, c.base})
    <3>2. m \in Nat /\ m <= c.toQuote /\ m <= c.quote
      BY <1>2, <1>3, LeastOfThree
    <3>3. n \in Nat /\ n <= c.toBase /\ n <= c.base
      BY <1>2, <1>3, LeastOfThree
    <3>4. ~(pull.quote > m) /\ ~(pull.base > n)
      BY <3>1
    <3> HIDE DEF m, n
    <3> QED
      BY <1>1, <1>3, <3>2, <3>3, <3>4
  <2> HIDE DEF after, run, p, pull, opened, reverts
  <2> QED
    BY <2>1, <2>2, <2>3 DEF Chain, after
<1>10. CASE kind = "close"
  <2>1. after = IF c.closed THEN None ELSE [c EXCEPT !.closed = TRUE, !.base = @ + Payout]
    BY <1>10 DEF Do
  <2> HIDE DEF after
  <2>2. c.base + Payout \in Nat
    BY <1>3, <1>4
  <2> QED
    BY <2>1, <2>2 DEF Chain, after
<1>11. CASE kind = "closeZap"
  <2>1. after = IF c.closed THEN None ELSE [c EXCEPT !.closed = TRUE]
    BY <1>11 DEF Do
  <2> HIDE DEF after
  <2> QED
    BY <2>1 DEF Chain, after
<1>12. CASE kind = "approveRouter"
  <2>1. after = [c EXCEPT !.toRouter = amount]
    BY <1>12 DEF Do
  <2> HIDE DEF after
  <2> QED
    BY <2>1 DEF Chain, after
<1>13. CASE kind = "swap"
  <2>1. after = IF amount > Min({c.toRouter, c.base}) THEN None
                ELSE [c EXCEPT !.toRouter = @ - amount, !.base = @ - amount]
    BY <1>13 DEF Do
  <2>2. amount > Min({c.toRouter, c.base}) <=> amount > c.toRouter \/ amount > c.base
    BY <1>3, AtMostBoth
  <2>3. ~(amount > Min({c.toRouter, c.base})) => c.toRouter - amount \in Nat /\ c.base - amount \in Nat
    BY <1>3, <2>2
  <2> HIDE DEF after
  <2> QED
    BY <2>1, <2>3 DEF Chain, after
<1> QED
  BY <1>5, <1>6, <1>7, <1>8, <1>9, <1>10, <1>11, <1>12, <1>13 DEF Kinds

-----------------------------------------------------------------------------
(* OpensOnce.  While what is left of the approvals could pay for the       *)
(* position of a form, one more was granted than was opened.               *)

Pays(c) ==
  \E f \in Forms :
    ~PlanOf(f).error /\ \E tick \in Ticks(PlanOf(f)) : Pulled(PlanOf(f), tick).quote <= c.toQuote

Approved(c) ==
  c.toQuote = 0 \/ \E f \in Forms : ~PlanOf(f).error /\ c.toQuote <= PlanOf(f).needsQuote

Spare(c) ==
  /\ SumFunction(c.opened) + (IF Pays(c) THEN 1 ELSE 0) <= c.granted
  /\ Approved(c)

SoundChain == {c \in Chain : FormsAlike => Spare(c)}

LEMMA SumOpened ==
  ASSUME NEW opened \in [Runs -> Nat]
  PROVE  SumFunction(opened) \in Nat /\ Integral(opened, Runs)
<1>1. IsFiniteSet(Runs) /\ DOMAIN opened = Runs /\ \A r \in Runs : opened[r] \in Nat
  BY WebAssumption
<1>2. SumFunctionOnSet(opened, Runs) \in Nat
  BY <1>1, SumNat
<1> QED
  BY <1>1, <1>2 DEF SumFunction, Integral

LEMMA SumOpens ==
  ASSUME NEW opened \in [Runs -> Nat], NEW r \in Runs
  PROVE  SumFunction([opened EXCEPT ![r] = @ + 1]) = SumFunction(opened) + 1
<1> DEFINE after == [opened EXCEPT ![r] = @ + 1]
<1>1. /\ after \in [Runs -> Nat] /\ after[r] = opened[r] + 1 /\ opened[r] \in Nat
      /\ \A q \in Runs \ {r} : opened[q] = after[q]
  OBVIOUS
<1> HIDE DEF after
<1>2. Integral(opened, Runs) /\ Integral(after, Runs) /\ SumFunction(opened) \in Nat
  BY <1>1, SumOpened
<1>3. SumFunctionOnSet(after, Runs) = SumFunctionOnSet(opened, Runs) + (after[r] - opened[r])
  BY <1>1, <1>2, SumMoves
<1>4. SumFunction(after) = SumFunction(opened) + (after[r] - opened[r])
  BY <1>1, <1>3 DEF SumFunction
<1>5. after[r] - opened[r] = 1
  BY <1>1
<1> QED
  BY <1>4, <1>5 DEF after

(* What costs no allowance of the quote changes nothing here.              *)
LEMMA SpareKept ==
  ASSUME NEW c, Spare(c), NEW d, d.toQuote = c.toQuote, d.granted = c.granted, d.opened = c.opened
  PROVE  Spare(d)
<1>1. Pays(d) <=> Pays(c)
  BY DEF Pays
<1>2. Approved(d) <=> Approved(c)
  BY DEF Approved
<1> QED
  BY <1>1, <1>2 DEF Spare

LEMMA SpareApproves ==
  ASSUME NEW c \in Chain, Spare(c), NEW p, FormTerms(p), NEW d, d.toQuote = p.needsQuote,
         d.granted = c.granted + 1, d.opened = c.opened
  PROVE  Spare(d)
<1>1. c.granted \in Nat /\ SumFunction(c.opened) \in Nat
  BY SumOpened DEF Chain
<1>2. PICK f \in Forms : p = PlanOf(f) /\ ~p.error
  BY DEF FormTerms
<1>3. p.needsQuote \in Nat
  BY <1>2, PlanStated, WebAssumption DEF Stated, Terms
<1>4. Approved(d)
  BY <1>2, <1>3 DEF Approved
<1>5. SumFunction(c.opened) <= c.granted
  BY <1>1 DEF Spare
<1>6. SumFunction(d.opened) + (IF Pays(d) THEN 1 ELSE 0) <= d.granted
  BY <1>1, <1>5
<1> QED
  BY <1>4, <1>6 DEF Spare

LEMMA SpareOpens ==
  ASSUME FormsAlike, NEW c \in Chain, Spare(c), NEW p, FormTerms(p), NEW tick \in Ticks(p),
         NEW r \in Runs, NEW d, Pulled(p, tick).quote <= c.toQuote,
         d.toQuote = c.toQuote - Pulled(p, tick).quote,
         d.granted = c.granted, d.opened = [c.opened EXCEPT ![r] = @ + 1]
  PROVE  Spare(d)
<1> DEFINE pull == Pulled(p, tick).quote
<1>1. c.granted \in Nat /\ c.toQuote \in Nat /\ c.opened \in [Runs -> Nat] /\ SumFunction(c.opened) \in Nat
  BY SumOpened DEF Chain
<1>2. PICK f \in Forms : p = PlanOf(f) /\ ~p.error
  BY DEF FormTerms
<1>3. pull \in Nat /\ p.needsQuote \in Nat
  <2>1. Stated(p) /\ tick \in DOMAIN SqrtPrice
    BY FormTermsAre
  <2> QED
    BY <2>1, PulledNat DEF Stated, Terms
<1>4. 2 * pull > p.needsQuote
  BY <1>2 DEF FormsAlike, Ticks
<1>5. Pays(c)
  BY <1>2 DEF Pays
<1>6. SumFunction(d.opened) <= d.granted /\ SumFunction(d.opened) \in Nat
  <2>1. SumFunction(d.opened) = SumFunction(c.opened) + 1
    BY <1>1, SumOpens
  <2>2. SumFunction(c.opened) + 1 <= c.granted
    BY <1>5 DEF Spare
  <2>3. SumFunction(d.opened) <= d.granted
    BY <2>1, <2>2
  <2>4. SumFunction(d.opened) \in Nat
    BY <1>1, <2>1
  <2> QED
    BY <2>3, <2>4
<1>7. PICK g \in Forms : ~PlanOf(g).error /\ c.toQuote <= PlanOf(g).needsQuote
  <2>1. c.toQuote # 0
    BY <1>1, <1>3, <1>4
  <2> QED
    BY <2>1 DEF Spare, Approved
<1>8. PlanOf(g).needsQuote \in Nat
  BY PlanStated, WebAssumption DEF Stated, Terms
<1>9. 2 * pull > PlanOf(g).needsQuote
  BY <1>2, <1>7 DEF FormsAlike, Ticks
<1>10. Approved(d)
  <2>1. d.toQuote <= PlanOf(g).needsQuote
    BY <1>1, <1>3, <1>7, <1>8
  <2> QED
    BY <1>7, <2>1 DEF Approved
<1>11. ~Pays(d)
  <2> SUFFICES ASSUME NEW h \in Forms, ~PlanOf(h).error, NEW u \in Ticks(PlanOf(h)),
                      Pulled(PlanOf(h), u).quote <= d.toQuote
               PROVE  FALSE
    BY DEF Pays
  <2> DEFINE other == Pulled(PlanOf(h), u).quote
  <2>1. 2 * other > PlanOf(g).needsQuote
    BY <1>7 DEF FormsAlike, Ticks
  <2>2. other \in Nat
    <3>1. FormTerms(PlanOf(h))
      BY DEF FormTerms
    <3>2. Stated(PlanOf(h)) /\ u \in DOMAIN SqrtPrice
      BY <3>1, FormTermsAre
    <3> QED
      BY <3>2, PulledNat
  <2>3. other <= c.toQuote - pull
    OBVIOUS
  <2> HIDE DEF other, pull
  <2> QED
    BY <1>1, <1>3, <1>7, <1>8, <1>9, <2>1, <2>2, <2>3
<1> QED
  BY <1>1, <1>6, <1>10, <1>11 DEF Spare

LEMMA DoSound ==
  ASSUME NEW c \in SoundChain, NEW r \in Runs, SoundRun(runs[r]), NEW kind \in Kinds,
         FormTerms(runs[r].terms) \/ kind \notin {"approveQuote", "open"},
         NEW amount \in Nat, NEW tick \in Ticks(runs[r].terms)
  PROVE  Do(c, r, kind, amount, tick) \in SoundChain \cup {None}
<1> DEFINE p == runs[r].terms
           pull == Pulled(p, tick)
           after == Do(c, r, kind, amount, tick)
<1>1. after \in Chain \cup {None} /\ c \in Chain
  BY DoTyped DEF SoundChain
<1> SUFFICES ASSUME after # None, FormsAlike PROVE Spare(after)
  BY <1>1 DEF SoundChain
<1>2. Spare(c)
  BY DEF SoundChain
<1>3. CASE kind \notin {"approveQuote", "open"}
  <2>1. after.toQuote = c.toQuote /\ after.granted = c.granted /\ after.opened = c.opened
    <3>1. CASE kind = "wrap"
      BY <1>1, <3>1 DEF Do, Chain
    <3>2. CASE kind = "wing"
      BY <1>1, <3>2 DEF Do, Chain
    <3>3. CASE kind = "approveBase"
      BY <1>1, <3>3 DEF Do, Chain
    <3>4. CASE kind = "close"
      BY <1>1, <3>4 DEF Do, Chain
    <3>5. CASE kind = "closeZap"
      BY <1>1, <3>5 DEF Do, Chain
    <3>6. CASE kind = "approveRouter"
      BY <1>1, <3>6 DEF Do, Chain
    <3>7. CASE kind = "swap"
      BY <1>1, <3>7 DEF Do, Chain
    <3> QED
      BY <1>3, <3>1, <3>2, <3>3, <3>4, <3>5, <3>6, <3>7 DEF Kinds
  <2> HIDE DEF after
  <2> QED
    BY <1>2, <2>1, SpareKept
<1>4. CASE kind = "approveQuote"
  <2>1. after = [c EXCEPT !.toQuote = p.needsQuote, !.granted = @ + 1]
    BY <1>4 DEF Do, QuoteApproval
  <2> HIDE DEF after, p
  <2>2. after.toQuote = p.needsQuote /\ after.granted = c.granted + 1 /\ after.opened = c.opened
    BY <1>1, <2>1 DEF Chain
  <2> QED
    BY <1>1, <1>2, <1>4, <2>2, SpareApproves DEF p
<1>5. CASE kind = "open"
  <2> DEFINE opened == [c.opened EXCEPT ![r] = @ + 1]
             reverts == \/ Len(p.bins) > MaxBins
                        \/ pull.quote > Min({p.needsQuote, c.toQuote, c.quote})
                        \/ pull.base > Min({p.needsBase, c.toBase, c.base})
  <2>1. after = IF reverts THEN None
                ELSE [c EXCEPT !.quote = @ - pull.quote, !.toQuote = @ - pull.quote,
                               !.base = @ - pull.base, !.toBase = @ - pull.base, !.opened = opened]
    BY <1>5 DEF Do
  <2>2. /\ ~reverts /\ pull.quote \in Nat /\ p.needsQuote \in Nat
        /\ c.toQuote \in Nat /\ c.quote \in Nat
    BY <1>1, <2>1, SoundPulls DEF Chain, Stated, Terms
  <2> HIDE DEF after, pull, p
  <2>3. pull.quote <= c.toQuote
    <3> DEFINE m == Min({p.needsQuote, c.toQuote, c.quote})
    <3>1. m \in Nat /\ m <= c.toQuote
      BY <2>2, LeastOfThree
    <3>2. ~(pull.quote > m)
      BY <2>2
    <3> HIDE DEF m
    <3> QED
      BY <2>2, <3>1, <3>2
  <2> HIDE DEF opened, reverts
  <2>4. /\ after.toQuote = c.toQuote - pull.quote /\ after.granted = c.granted
        /\ after.opened = opened
    BY <1>1, <2>1, <2>2 DEF Chain
  <2> QED
    BY <1>1, <1>2, <1>5, <2>3, <2>4, SpareOpens DEF p, pull, opened
<1> QED
  BY <1>3, <1>4, <1>5

(* A batch of a form's transactions.                                       *)
LEMMA BatchSound ==
  ASSUME NEW c \in SoundChain, NEW r \in Runs, runs[r] \in Run, FormTerms(runs[r].terms),
         SoundRun(runs[r]), NEW amount \in Nat, NEW tick \in Ticks(runs[r].terms)
  PROVE  DoBatch(c, r, amount, tick) \in SoundChain \cup {None}
<1> DEFINE A == SoundChain \cup {None}
           steps == runs[r].steps
           Step(before, kind) == IF before = None THEN None ELSE Do(before, r, kind, amount, tick)
           f == [x \in A \X Kinds |-> Step(x[1], x[2])]
           Carries(g) ==
             g = [u \in SUBSET DOMAIN steps |->
                    IF u = {} THEN c ELSE Step(g[u \ {Max(u)}], steps[Max(u)])]
           g == CHOOSE g : Carries(g)
<1>0. steps \in Seq(Kinds)
  BY DEF Run
<1>1. f \in [A \X Kinds -> A]
  <2> SUFFICES ASSUME NEW before \in A, NEW kind \in Kinds PROVE Step(before, kind) \in A
    OBVIOUS
  <2> QED
    BY DoSound
<1> HIDE DEF Step
<1>2. PICK h : FoldsWith(h, f, c, steps) /\ \A u \in SUBSET DOMAIN steps : h[u] \in A
  <2>1. c \in A
    OBVIOUS
  <2> HIDE DEF A, f, steps
  <2> QED
    BY <1>0, <1>1, <2>1, FoldExists
<1>3. ASSUME NEW u \in SUBSET DOMAIN steps, u # {}
      PROVE  /\ u \ {Max(u)} \in SUBSET DOMAIN steps /\ Max(u) \in u
             /\ steps[Max(u)] \in Kinds
  <2> HIDE DEF steps
  <2>1. DOMAIN steps = 1 .. Len(steps) /\ Len(steps) \in Nat
    BY <1>0
  <2>2. Max(u) \in u
    BY <1>3, <2>1, LastPosition
  <2> QED
    BY <1>0, <2>2
<1>4. Carries(h)
  <2>1. h = [u \in SUBSET DOMAIN steps |->
               IF u = {} THEN c ELSE f[<<h[u \ {Max(u)}], steps[Max(u)]>>]]
    BY <1>2 DEF FoldsWith
  <2>2. ASSUME NEW u \in SUBSET DOMAIN steps, u # {}
        PROVE  f[<<h[u \ {Max(u)}], steps[Max(u)]>>] = Step(h[u \ {Max(u)}], steps[Max(u)])
    <3>1. h[u \ {Max(u)}] \in A /\ steps[Max(u)] \in Kinds
      BY <1>2, <1>3, <2>2
    <3> QED
      BY <3>1
  <2> HIDE DEF f, steps
  <2> QED
    BY <2>1, <2>2
<1>5. Carries(g)
  <2> HIDE DEF Carries
  <2> QED
    BY <1>4
<1>6. DoBatch(c, r, amount, tick) = g[DOMAIN steps]
  BY Zenon DEF DoBatch, FoldLeft, MapThenFoldSet, Step
<1> HIDE DEF g
<1>7. FoldsAmong(g, f, c, steps, A)
  <2>1. g = [u \in SUBSET DOMAIN steps |->
               IF u = {} THEN c ELSE Step(g[u \ {Max(u)}], steps[Max(u)])]
    BY <1>5
  <2>2. g[{}] = c
    BY <2>1
  <2>3. ASSUME NEW u \in SUBSET DOMAIN steps, u # {}, g[u \ {Max(u)}] \in A
        PROVE  g[u] = f[<<g[u \ {Max(u)}], steps[Max(u)]>>]
    <3>1. g[u] = Step(g[u \ {Max(u)}], steps[Max(u)])
      BY <2>1, <2>3
    <3>2. steps[Max(u)] \in Kinds
      BY <1>3, <2>3
    <3> QED
      BY <2>3, <3>1, <3>2
  <2> HIDE DEF f, Carries, steps
  <2> QED
    BY <2>2, <2>3 DEF FoldsAmong
<1>8. \A u \in SUBSET DOMAIN steps : g[u] \in A
  <2>1. c \in A
    OBVIOUS
  <2> HIDE DEF A, f, Carries, steps
  <2> QED
    BY <1>0, <1>1, <1>7, <2>1, FoldKeeps
<1> QED
  BY <1>6, <1>8

-----------------------------------------------------------------------------
(* A visit to the web app, or an agent's call, step by step.               *)

ScreenSound ==
  /\ screen \in {"open", "position", "agent", "gone"}
  /\ timer \in BOOLEAN /\ planning \in BOOLEAN /\ trouble \in Nat /\ looking \in 0 .. 2
  /\ seen \in [Reads -> Nat] \cup {None}
  /\ Stated(terms)

RunsSound(rs) ==
  /\ rs \in [Runs -> Run \cup {None}]
  /\ \A r \in Runs : rs[r] # None => SoundRun(rs[r])

(* Only what a stepper signed is sent.                                     *)
SteppersSound ==
  /\ RunsSound(runs)
  /\ hosted # None => hosted \in Runs /\ runs[hosted] # None
  /\ mempool \in Seq(Signed)
  /\ \A k \in DOMAIN mempool : runs[mempool[k].run] # None

(* No stepper is forgotten.                                                *)
StillThere(rs, after) == \A r \in Runs : rs[r] # None => after[r] # None

LEMMA SoundAlike ==
  ASSUME NEW run, SoundRun(run), NEW after \in Run, after.steps = run.steps, after.at = run.at,
         after.terms = run.terms, after.atomic = run.atomic
  PROVE  SoundRun(after) /\ after # None
<1>1. after # None
  BY WebAssumption
<1> QED
  BY <1>1 DEF SoundRun

LEMMA RunsOne ==
  ASSUME NEW rs, RunsSound(rs), NEW r \in Runs, NEW run, SoundRun(run)
  PROVE  /\ RunsSound([rs EXCEPT ![r] = run]) /\ StillThere(rs, [rs EXCEPT ![r] = run])
         /\ [rs EXCEPT ![r] = run][r] # None
<1> DEFINE after == [rs EXCEPT ![r] = run]
<1>1. run \in Run /\ run # None /\ rs \in [Runs -> Run \cup {None}]
  BY WebAssumption DEF SoundRun, RunsSound
<1>2. after \in [Runs -> Run \cup {None}] /\ after[r] = run /\ \A q \in Runs \ {r} : after[q] = rs[q]
  BY <1>1
<1> HIDE DEF after
<1>3. \A q \in Runs : after[q] # None => SoundRun(after[q])
  BY <1>2 DEF RunsSound
<1>4. StillThere(rs, after)
  BY <1>1, <1>2 DEF StillThere
<1> QED
  BY <1>1, <1>2, <1>3, <1>4 DEF RunsSound, after

LEMMA HiddenSound ==
  ASSUME NEW rs, RunsSound(rs), NEW q, q # None => q \in Runs /\ rs[q] # None
  PROVE  RunsSound(Hidden(rs, q)) /\ StillThere(rs, Hidden(rs, q))
<1>1. CASE q = None
  BY <1>1 DEF Hidden, StillThere
<1>2. CASE q # None
  <2> DEFINE before == rs[q]
             after == [before EXCEPT !.cancelled = TRUE,
                                     !.stage = IF @ = "failed" THEN "stopped" ELSE @]
  <2>1. q \in Runs /\ rs \in [Runs -> Run \cup {None}] /\ before \in Run /\ SoundRun(before)
    BY <1>2 DEF RunsSound
  <2>2. Hidden(rs, q) = [rs EXCEPT ![q] = after]
    BY <1>2, <2>1 DEF Hidden
  <2> HIDE DEF before
  <2>3. after \in Run
    BY <2>1 DEF Run
  <2>4. /\ after.steps = before.steps /\ after.at = before.at /\ after.terms = before.terms
        /\ after.atomic = before.atomic
    BY <2>1 DEF Run
  <2> HIDE DEF after
  <2>5. SoundRun(after)
    BY <2>1, <2>3, <2>4, SoundAlike
  <2> QED
    BY <2>1, <2>2, <2>5, RunsOne
<1> QED
  BY <1>1, <1>2

LEMMA SteppersKept ==
  ASSUME SteppersSound, UNCHANGED mempool, RunsSound(runs'), StillThere(runs, runs'),
         hosted' # None => hosted' \in Runs /\ runs'[hosted'] # None
  PROVE  SteppersSound'
<1>1. \A k \in DOMAIN mempool : mempool[k].run \in Runs
  BY SignedHas DEF SteppersSound
<1>2. \A k \in DOMAIN mempool : runs'[mempool[k].run] # None
  BY <1>1 DEF SteppersSound, StillThere
<1> QED
  BY <1>2 DEF SteppersSound, RunsSound, SoundRun

(* One stepper is another.                                                 *)
LEMMA SteppersOne ==
  ASSUME SteppersSound, UNCHANGED mempool, NEW r \in Runs, NEW run, SoundRun(run),
         \/ runs' = [runs EXCEPT ![r] = run] /\ UNCHANGED hosted
         \/ Show(r, run)
         \/ runs' = [runs EXCEPT ![r] = run] /\ hosted' = None
  PROVE  SteppersSound'
<1>1. RunsSound(runs) /\ (hosted # None => hosted \in Runs /\ runs[hosted] # None)
  BY DEF SteppersSound
<1>2. CASE runs' = [runs EXCEPT ![r] = run] /\ UNCHANGED hosted
  <2>1. RunsSound(runs') /\ StillThere(runs, runs')
    BY <1>1, <1>2, RunsOne
  <2>2. hosted' # None => hosted' \in Runs /\ runs'[hosted'] # None
    BY <1>1, <1>2, <2>1 DEF StillThere
  <2> QED
    BY <2>1, <2>2, SteppersKept
<1>3. CASE Show(r, run)
  <2>1. RunsSound(Hidden(runs, hosted)) /\ StillThere(runs, Hidden(runs, hosted))
    BY <1>1, HiddenSound
  <2>2. runs' = [Hidden(runs, hosted) EXCEPT ![r] = run] /\ hosted' = r
    BY <1>3 DEF Show
  <2>3. /\ RunsSound(runs') /\ StillThere(Hidden(runs, hosted), runs') /\ runs'[r] # None
    BY <2>1, <2>2, RunsOne
  <2>4. StillThere(runs, runs')
    BY <2>1, <2>3 DEF StillThere
  <2> QED
    BY <2>2, <2>3, <2>4, SteppersKept
<1>4. CASE runs' = [runs EXCEPT ![r] = run] /\ hosted' = None
  <2>1. RunsSound(runs') /\ StillThere(runs, runs')
    BY <1>1, <1>4, RunsOne
  <2> QED
    BY <1>4, <2>1, SteppersKept
<1> QED
  BY <1>2, <1>3, <1>4

LEMMA NewSound ==
  ASSUME NEW steps \in Seq(Kinds), 1 \in 1 .. Len(steps), NEW i \in Ask \cup {None}, NEW wrap \in Nat,
         NEW atomic \in BOOLEAN,
         \/ i = None /\ steps \in Itineraries /\ ~atomic
         \/ i # None /\ FormTerms(terms) /\ terms \in Terms
  PROVE  SoundRun(NewRun(steps, atomic, i, wrap))
<1> DEFINE of == IF i = None THEN NoPlan ELSE terms
           run == [steps |-> steps, atomic |-> atomic, of |-> i, terms |-> of, wrap |-> wrap, at |-> 1,
                   stage |-> "wallet", try |-> 1, mined |-> FALSE, cancelled |-> FALSE]
<1>1. NewRun(steps, atomic, i, wrap) = run
  BY DEF NewRun
<1>2. of \in Terms
  BY NoPlanTyped
<1>3. i = None => of = NoPlan
  OBVIOUS
<1>4. i # None => of = terms
  OBVIOUS
<1> HIDE DEF of
<1>5. run \in Run
  BY <1>2 DEF Run
<1>6. run.steps = steps /\ run.at = 1 /\ run.terms = of /\ run.atomic = atomic
  OBVIOUS
<1> HIDE DEF run
<1>7. SoundRun(run)
  BY <1>3, <1>4, <1>5, <1>6 DEF SoundRun
<1> QED
  BY <1>1, <1>7

WebSound == Planned /\ ScreenSound /\ SteppersSound /\ chain \in SoundChain

LEMMA ScreenSoundStep == ASSUME WebSound, [Next]_vars PROVE ScreenSound'
<1>0. /\ ScreenSound /\ chain \in Chain /\ \A i \in Requests : Stated(PlanOf(i))
      /\ asked \subseteq Requests /\ tracked \subseteq Requests
  BY PlanStated DEF WebSound, SoundChain, Planned
<1>1. ASSUME UNCHANGED <<screen, timer, planning, trouble, looking, seen, terms>> PROVE ScreenSound'
  BY <1>0, <1>1 DEF ScreenSound, Stated
<1>2. ASSUME UNCHANGED terms PROVE Stated(terms)' <=> Stated(terms)
  BY <1>2 DEF Stated
<1>3. Trouble => trouble' \in Nat
  BY <1>0 DEF Trouble, ScreenSound
<1>4. ASSUME NEW f \in Forms, Edit(f) PROVE ScreenSound'
  BY <1>0, <1>2, <1>3, <1>4 DEF Edit, ScreenSound, shown
<1>5. ASSUME Debounced PROVE ScreenSound'
  BY <1>0, <1>2, <1>5 DEF Debounced, ScreenSound, shown
<1>6. ASSUME NEW i \in asked, Answered(i) PROVE ScreenSound'
  <2>1. Stated(terms')
    <3>1. Stated(NoPlan)
      BY NoPlanTyped, <1>0 DEF Stated, NoPlan
    <3>2. terms' = PlanOf(i) \/ terms' = NoPlan
      BY <1>6 DEF Answered
    <3> QED
      BY <1>0, <3>1, <3>2
  <2>2. trouble' \in Nat
    BY <1>0, <1>3, <1>6 DEF Answered, ScreenSound
  <2>3. Stated(terms)'
    BY <2>1 DEF Stated
  <2> QED
    BY <1>0, <1>6, <2>2, <2>3 DEF Answered, Arrives, ScreenSound
<1>7. ASSUME Replan PROVE ScreenSound'
  BY <1>0, <1>2, <1>7 DEF Replan, ScreenSound, shown
<1>8. ASSUME NEW i \in tracked, Replanned(i) PROVE ScreenSound'
  <2>1. Stated(terms)'
    BY <1>0, <1>8 DEF Replanned, Stated
  <2> QED
    BY <1>0, <1>8, <2>1 DEF Replanned, ShownAgain, ScreenSound
<1>9. ASSUME NEW i \in tracked, ReplanFails(i) PROVE ScreenSound'
  BY <1>0, <1>2, <1>9 DEF ReplanFails, ScreenSound, shown
<1>10. ASSUME Read PROVE ScreenSound'
  <2>1. seen' \in [Reads -> Nat]
    <3>1. \A f \in Reads : chain[f] \in Nat
      BY <1>0 DEF Chain, Reads
    <3> QED
      BY <1>10, <3>1 DEF Read
  <2> QED
    BY <1>0, <1>2, <1>10, <2>1 DEF Read, ScreenSound, planned, shown
<1>11. ASSUME Click PROVE ScreenSound'
  BY <1>0, <1>2, <1>11 DEF Click, ScreenSound, planned, shown
<1>12. ASSUME NEW r \in Runs, StartExit(r) PROVE ScreenSound'
  BY <1>0, <1>2, <1>12 DEF StartExit, ScreenSound, planned, shown
<1>13. ASSUME NEW r \in Runs, StartOpen(r) \/ StartAgent(r) \/ StartClose(r) \/ StartSell(r) PROVE ScreenSound'
  BY <1>1, <1>13 DEF StartOpen, StartAgent, StartClose, StartSell, planned, shown
<1>14. ASSUME NEW r \in Runs, Sign(r) \/ Reject(r) \/ GiveUp(r) PROVE ScreenSound'
  <2>1. trouble' \in Nat
    BY <1>0, <1>3, <1>14 DEF Sign, Reject, GiveUp, ScreenSound
  <2> QED
    BY <1>0, <1>2, <1>14, <2>1 DEF Sign, Reject, GiveUp, ScreenSound, planned, shown
<1>15. ASSUME NEW r \in Runs, Retry(r) \/ Cancel(r) PROVE ScreenSound'
  BY <1>1, <1>15 DEF Retry, Cancel, planned, shown
<1>16. ASSUME NEW r \in Runs, Receipt(r) PROVE ScreenSound'
  <2>1. screen' \in {screen, "gone"}
    BY <1>16 DEF Receipt
  <2>2. UNCHANGED <<timer, planning, trouble, looking, seen, terms>>
    BY <1>16 DEF Receipt, planned, shown
  <2> QED
    BY <1>0, <1>2, <2>1, <2>2 DEF ScreenSound
<1>17. ASSUME Mine PROVE ScreenSound'
  BY <1>1, <1>17 DEF Mine, planned, shown
<1>18. ASSUME UNCHANGED vars PROVE ScreenSound'
  BY <1>1, <1>18 DEF vars, planned, shown
<1> QED
  BY <1>4, <1>5, <1>6, <1>7, <1>8, <1>9, <1>10, <1>11, <1>12, <1>13, <1>14, <1>15, <1>16, <1>17, <1>18
     DEF Next, FormStep, StepperStep

LEMMA StepsBegin ==
  ASSUME NEW steps \in Seq(Kinds), steps # <<>>
  PROVE  1 \in 1 .. Len(steps)
  OBVIOUS

LEMMA StartOpenSound == ASSUME WebSound, NEW r \in Runs, StartOpen(r) \/ StartAgent(r) PROVE SteppersSound'
<1>1. /\ plan \in Ask /\ plan # None /\ Stated(terms) /\ terms \in Terms /\ SteppersSound
      /\ FormTerms(terms) /\ UNCHANGED mempool /\ seen \in [Reads -> Nat] \cup {None}
  <2>1. plan \in Forms /\ plan \in Ask /\ ~terms.error /\ UNCHANGED mempool
    BY WebAssumption DEF StartOpen, StartAgent, StartWith
  <2>2. plan # None
    BY <2>1, WebAssumption
  <2>3. terms = PlanOf(plan)
    BY <2>2 DEF WebSound, Planned
  <2> QED
    BY <2>1, <2>2, <2>3 DEF WebSound, ScreenSound, Stated, FormTerms
<1>2. CASE StartOpen(r)
  <2> DEFINE steps == OpenSteps(form, terms)
             wrap == WrapAmount(form)
             run(atomic) == NewRun(steps, atomic, plan, wrap)
  <2>1. \/ Show(r, run(FALSE))
        \/ runs' = [runs EXCEPT ![r] = run(TRUE)] /\ UNCHANGED hosted
    BY <1>2 DEF StartOpen, StartWith
  <2>2. wrap \in Nat
    <3>1. seen \in [Reads -> Nat] /\ "native" \in Reads /\ "quote" \in Reads
      BY <1>1, <1>2 DEF StartOpen, StartWith, Preflight, Reads
    <3>2. seen["native"] \in Nat /\ seen["quote"] \in Nat /\ GasReserve \in Nat
      BY <3>1, WebAssumption
    <3>3. form.quote \in Nat
      BY WebAssumption DEF WebSound, Planned, Ask
    <3> DEFINE short == Short(form.quote, seen.quote)
    <3>4. short \in Nat
      BY <3>2, <3>3 DEF Short
    <3>5. wrap = IF seen.native > short + GasReserve THEN short ELSE 0
      BY DEF WrapAmount
    <3> HIDE DEF short, wrap
    <3> QED
      BY <3>4, <3>5
  <2>3. steps \in Seq(Kinds) /\ 1 \in 1 .. Len(steps)
    BY OpenStepsEnd, StepsBegin
  <2> HIDE DEF steps, wrap
  <2>4. SoundRun(run(FALSE)) /\ SoundRun(run(TRUE))
    <3>1. FALSE \in BOOLEAN /\ TRUE \in BOOLEAN
      OBVIOUS
    <3> QED
      BY <1>1, <2>2, <2>3, <3>1, NewSound
  <2> HIDE DEF run
  <2> QED
    BY <1>1, <2>1, <2>4, SteppersOne
<1>3. CASE StartAgent(r)
  <2> DEFINE steps == AgentSteps(terms)
             run == NewRun(steps, FALSE, plan, 0)
  <2>1. Show(r, run)
    BY <1>3 DEF StartAgent
  <2>2. steps \in Seq(Kinds) /\ 1 \in 1 .. Len(steps)
    BY AgentStepsEnd, StepsBegin
  <2> HIDE DEF steps
  <2>3. SoundRun(run)
    <3>1. FALSE \in BOOLEAN /\ 0 \in Nat
      OBVIOUS
    <3> QED
      BY <1>1, <2>2, <3>1, NewSound
  <2> HIDE DEF run
  <2> QED
    BY <1>1, <2>1, <2>3, SteppersOne
<1> QED
  BY <1>2, <1>3

LEMMA ExitSound == ASSUME NEW steps \in Itineraries PROVE SoundRun(NewRun(steps, FALSE, None, 0))
<1>1. steps \in Seq(Kinds) /\ 1 \in 1 .. Len(steps) /\ FALSE \in BOOLEAN /\ 0 \in Nat /\ None \in Ask \cup {None}
  BY ItineraryHas
<1> QED
  BY <1>1, NewSound

LEMMA StartExitSound ==
  ASSUME SteppersSound, NEW r \in Runs, StartExit(r) \/ StartClose(r) \/ StartSell(r)
  PROVE  SteppersSound'
<1>1. UNCHANGED mempool
  BY DEF StartExit, StartClose, StartSell
<1>2. ASSUME NEW steps \in Itineraries,
             \/ runs' = [runs EXCEPT ![r] = NewRun(steps, FALSE, None, 0)] /\ UNCHANGED hosted
             \/ Show(r, NewRun(steps, FALSE, None, 0))
      PROVE  SteppersSound'
  BY <1>1, <1>2, ExitSound, SteppersOne
<1>3. ASSUME UNCHANGED <<runs, hosted>> PROVE SteppersSound'
  BY <1>1, <1>3 DEF SteppersSound, RunsSound, SoundRun
<1>4. /\ <<"closeZap">> \in Itineraries /\ <<"close">> \in Itineraries
      /\ <<"close", "approveRouter", "swap">> \in Itineraries /\ <<"approveRouter", "swap">> \in Itineraries
  BY DEF Itineraries
<1>5. CASE StartExit(r)
  BY <1>2, <1>3, <1>4, <1>5 DEF StartExit
<1>6. CASE StartClose(r)
  BY <1>2, <1>4, <1>6 DEF StartClose
<1>7. CASE StartSell(r)
  BY <1>2, <1>4, <1>7 DEF StartSell
<1> QED
  BY <1>5, <1>6, <1>7

(* Its stage, its try, or whether it was mined or cancelled.               *)
LEMMA RunChanges ==
  ASSUME NEW run, SoundRun(run), NEW stage \in Stages, NEW try \in Nat, NEW mined \in BOOLEAN
  PROVE  /\ SoundRun([run EXCEPT !.stage = stage]) /\ SoundRun([run EXCEPT !.mined = mined])
         /\ SoundRun([run EXCEPT !.stage = stage, !.mined = mined])
         /\ SoundRun([run EXCEPT !.stage = stage, !.try = try])
<1>0. run \in Run
  BY DEF SoundRun
<1>1. SoundRun([run EXCEPT !.stage = stage])
  <2> DEFINE after == [run EXCEPT !.stage = stage]
  <2>1. /\ after \in Run /\ after.steps = run.steps /\ after.at = run.at /\ after.terms = run.terms
        /\ after.atomic = run.atomic
    BY <1>0 DEF Run, Stages
  <2> HIDE DEF after
  <2>2. SoundRun(after)
    BY <2>1, SoundAlike
  <2> QED
    BY <2>2 DEF after
<1>2. SoundRun([run EXCEPT !.mined = mined])
  <2> DEFINE after == [run EXCEPT !.mined = mined]
  <2>1. /\ after \in Run /\ after.steps = run.steps /\ after.at = run.at /\ after.terms = run.terms
        /\ after.atomic = run.atomic
    BY <1>0 DEF Run
  <2> HIDE DEF after
  <2>2. SoundRun(after)
    BY <2>1, SoundAlike
  <2> QED
    BY <2>2 DEF after
<1>3. SoundRun([run EXCEPT !.stage = stage, !.mined = mined])
  <2> DEFINE after == [run EXCEPT !.stage = stage, !.mined = mined]
  <2>1. /\ after \in Run /\ after.steps = run.steps /\ after.at = run.at /\ after.terms = run.terms
        /\ after.atomic = run.atomic
    BY <1>0 DEF Run, Stages
  <2> HIDE DEF after
  <2>2. SoundRun(after)
    BY <2>1, SoundAlike
  <2> QED
    BY <2>2 DEF after
<1>4. SoundRun([run EXCEPT !.stage = stage, !.try = try])
  <2> DEFINE after == [run EXCEPT !.stage = stage, !.try = try]
  <2>1. /\ after \in Run /\ after.steps = run.steps /\ after.at = run.at /\ after.terms = run.terms
        /\ after.atomic = run.atomic
    BY <1>0 DEF Run, Stages
  <2> HIDE DEF after
  <2>2. SoundRun(after)
    BY <2>1, SoundAlike
  <2> QED
    BY <2>2 DEF after
<1> QED
  BY <1>1, <1>2, <1>3, <1>4

LEMMA SignSound == ASSUME WebSound, NEW r \in Runs, Sign(r) PROVE SteppersSound'
<1> DEFINE run == [runs[r] EXCEPT !.stage = "mining", !.mined = FALSE]
           tx == [run |-> r, try |-> runs[r].try, amount |-> AmountOf(runs[r])]
<1>1. /\ SteppersSound /\ RunsSound(runs) /\ runs[r] # None /\ SoundRun(runs[r])
      /\ runs \in [Runs -> Run \cup {None}] /\ runs[r] \in Run /\ chain \in Chain
  BY DEF WebSound, SoundChain, SteppersSound, RunsSound, Sign, SoundRun
<1>2. runs' = [runs EXCEPT ![r] = run] /\ UNCHANGED hosted
  BY <1>1 DEF Sign
<1>3. "mining" \in Stages /\ FALSE \in BOOLEAN /\ 1 \in Nat
  BY DEF Stages
<1>4. SoundRun(run)
  BY <1>1, <1>3, RunChanges
<1>5. tx \in Signed
  <2>1. AmountOf(runs[r]) \in Nat
    BY <1>1 DEF AmountOf, Chain
  <2> QED
    BY <1>1, <2>1 DEF Run, Signed
<1>6. RunsSound(runs') /\ StillThere(runs, runs') /\ runs'[r] # None
  <2> HIDE DEF run
  <2> QED
    BY <1>1, <1>2, <1>4, RunsOne
<1>7. hosted' # None => hosted' \in Runs /\ runs'[hosted'] # None
  BY <1>1, <1>2, <1>6 DEF SteppersSound, StillThere
<1>8. CASE UNCHANGED mempool
  BY <1>1, <1>6, <1>7, <1>8, SteppersKept
<1>9. CASE mempool' = Append(mempool, tx)
  <2> HIDE DEF tx, run
  <2>1. mempool \in Seq(Signed) /\ mempool' \in Seq(Signed)
    BY <1>1, <1>5, <1>9 DEF SteppersSound
  <2>2. \A k \in DOMAIN mempool' : runs'[mempool'[k].run] # None
    <3> SUFFICES ASSUME NEW k \in DOMAIN mempool' PROVE runs'[mempool'[k].run] # None
      OBVIOUS
    <3>1. k \in DOMAIN mempool \/ mempool'[k] = tx
      BY <1>9, <2>1
    <3>2. CASE k \in DOMAIN mempool
      <4>1. mempool'[k] = mempool[k]
        BY <1>9, <2>1, <3>2
      <4>2. mempool[k].run \in Runs /\ runs[mempool[k].run] # None
        BY <1>1, <2>1, <3>2, SignedHas DEF SteppersSound
      <4> QED
        BY <1>6, <4>1, <4>2 DEF StillThere
    <3>3. CASE mempool'[k] = tx
      BY <1>6, <3>3 DEF tx
    <3> QED
      BY <3>1, <3>2, <3>3
  <2> QED
    BY <1>6, <1>7, <2>1, <2>2 DEF SteppersSound, RunsSound, SoundRun
<1> QED
  BY <1>8, <1>9 DEF Sign

LEMMA StopsSound ==
  ASSUME SteppersSound, NEW r \in Runs, Reject(r) \/ GiveUp(r)
  PROVE  SteppersSound'
<1> DEFINE stage == IF Reject(r)
                    THEN IF Alone(runs[r]) \/ runs[r].cancelled THEN "stopped" ELSE "failed"
                    ELSE IF runs[r].cancelled THEN "stopped" ELSE "failed"
           run == [runs[r] EXCEPT !.stage = stage]
<1>1. runs[r] # None /\ SoundRun(runs[r]) /\ runs \in [Runs -> Run \cup {None}] /\ UNCHANGED <<hosted, mempool>>
  BY DEF SteppersSound, RunsSound, Reject, GiveUp
<1>2. runs' = [runs EXCEPT ![r] = run]
  BY <1>1 DEF Reject, GiveUp
<1>3. stage \in Stages /\ 0 \in Nat /\ TRUE \in BOOLEAN
  BY DEF Stages
<1> HIDE DEF stage
<1>4. SoundRun(run)
  BY <1>1, <1>3, RunChanges
<1> HIDE DEF run
<1> QED
  BY <1>1, <1>2, <1>4, SteppersOne

LEMMA RetrySound == ASSUME SteppersSound, NEW r \in Runs, Retry(r) PROVE SteppersSound'
<1> DEFINE try == runs[r].try + 1
           run == [runs[r] EXCEPT !.stage = "wallet", !.try = try]
<1>1. runs[r] # None /\ SoundRun(runs[r]) /\ runs \in [Runs -> Run \cup {None}] /\ UNCHANGED <<hosted, mempool>>
  <2>1. r # None
    BY WebAssumption
  <2> QED
    BY <2>1 DEF SteppersSound, RunsSound, Retry
<1>2. runs' = [runs EXCEPT ![r] = run]
  BY <1>1 DEF Retry
<1>3. "wallet" \in Stages /\ try \in Nat /\ TRUE \in BOOLEAN
  BY <1>1 DEF Stages, SoundRun, Run
<1> HIDE DEF try
<1>4. SoundRun(run)
  BY <1>1, <1>3, RunChanges
<1> HIDE DEF run
<1> QED
  BY <1>1, <1>2, <1>4, SteppersOne

LEMMA CancelSound == ASSUME SteppersSound, NEW r \in Runs, Cancel(r) PROVE SteppersSound'
<1>1. /\ hosted = r /\ r # None /\ runs[r] # None /\ RunsSound(runs) /\ UNCHANGED mempool
      /\ runs' = Hidden(runs, r) /\ hosted' = None
  BY WebAssumption DEF SteppersSound, Cancel
<1>2. RunsSound(runs') /\ StillThere(runs, runs')
  BY <1>1, HiddenSound
<1> QED
  BY <1>1, <1>2, SteppersKept

LEMMA ReceiptSound == ASSUME SteppersSound, NEW r \in Runs, Receipt(r) PROVE SteppersSound'
<1> DEFINE run == runs[r]
           last == run.atomic \/ run.at = Len(run.steps)
           over == hosted # None /\ (run.of # None \/ (~Alone(run) /\ Place(runs[hosted]) = Place(run)))
           aside == IF over THEN hosted ELSE None
<1>1. /\ run # None /\ SoundRun(run) /\ RunsSound(runs) /\ runs \in [Runs -> Run \cup {None}]
      /\ UNCHANGED mempool /\ (hosted # None => hosted \in Runs /\ runs[hosted] # None)
  BY DEF SteppersSound, RunsSound, Receipt
<1>2. CASE last
  <2>1. /\ hosted' = IF over THEN None ELSE hosted
        /\ runs' = [Hidden(runs, aside) EXCEPT ![r].stage = "done"]
    BY <1>2 DEF Receipt
  <2> DEFINE before == Hidden(runs, aside)
             after == [before[r] EXCEPT !.stage = "done"]
  <2>2. RunsSound(before) /\ StillThere(runs, before)
    <3>1. aside # None => aside \in Runs /\ runs[aside] # None
      BY <1>1
    <3> HIDE DEF aside
    <3> QED
      BY <1>1, <3>1, HiddenSound
  <2>3. SoundRun(before[r]) /\ before \in [Runs -> Run \cup {None}]
    BY <1>1, <2>2 DEF StillThere, RunsSound
  <2>4. runs' = [before EXCEPT ![r] = after]
    <3> HIDE DEF aside
    <3> QED
      BY <2>1, <2>3
  <2> HIDE DEF before
  <2>5. SoundRun(after)
    <3>1. "done" \in Stages /\ TRUE \in BOOLEAN /\ 0 \in Nat
      BY DEF Stages
    <3> QED
      BY <2>3, <3>1, RunChanges
  <2> HIDE DEF after
  <2>6. RunsSound(runs') /\ StillThere(before, runs')
    BY <2>2, <2>4, <2>5, RunsOne
  <2>7. StillThere(runs, runs')
    BY <2>2, <2>6 DEF StillThere
  <2>8. hosted' # None => hosted' \in Runs /\ runs'[hosted'] # None
    BY <1>1, <2>1, <2>7 DEF StillThere
  <2> QED
    BY <1>1, <2>6, <2>7, <2>8, SteppersKept
<1>3. CASE ~last
  <2> DEFINE after == IF run.cancelled THEN [run EXCEPT !.stage = "stopped"]
                      ELSE [run EXCEPT !.stage = "wallet", !.at = @ + 1, !.try = 1]
  <2>1. runs' = [runs EXCEPT ![r] = after] /\ UNCHANGED hosted
    BY <1>3 DEF Receipt
  <2>2. SoundRun(after)
    <3>1. CASE run.cancelled
      <4>1. "stopped" \in Stages /\ TRUE \in BOOLEAN /\ 0 \in Nat
        BY DEF Stages
      <4>2. SoundRun([run EXCEPT !.stage = "stopped"])
        <5> HIDE DEF run
        <5> QED
          BY <1>1, <4>1, RunChanges
      <4> QED
        BY <3>1, <4>2
    <3>2. CASE ~run.cancelled
      <4> DEFINE next == [run EXCEPT !.stage = "wallet", !.at = @ + 1, !.try = 1]
      <4>1. run \in Run /\ run.at \in 1 .. Len(run.steps) /\ run.at # Len(run.steps) /\ run.steps \in Seq(Kinds)
        BY <1>1, <1>3 DEF SoundRun, Run
      <4> HIDE DEF run
      <4>2. run.at + 1 \in 1 .. Len(run.steps) /\ run.at + 1 \in Nat
        BY <4>1
      <4>3. next \in Run /\ next.steps = run.steps /\ next.at = run.at + 1 /\ next.terms = run.terms
            /\ next.atomic = run.atomic
        BY <4>1, <4>2 DEF Run
      <4> HIDE DEF next
      <4>4. SoundRun(next)
        BY <1>1, <4>2, <4>3 DEF SoundRun
      <4> QED
        BY <3>2, <4>4 DEF next
    <3> QED
      BY <3>1, <3>2
  <2> HIDE DEF after
  <2> QED
    BY <1>1, <2>1, <2>2, SteppersOne
<1> QED
  BY <1>2, <1>3

(* What is mined next keeps the chain, and is known to its stepper.        *)
LEMMA MineSound == ASSUME WebSound, Mine PROVE SteppersSound' /\ chain' \in SoundChain
<1> DEFINE tx == Head(mempool)
           run == runs[tx.run]
<1>1. PICK tick \in Ticks(run.terms), refused \in BOOLEAN :
        Mined(tx, run, refused, IF refused THEN None ELSE DoRun(chain, tx.run, tx.amount, tick))
  BY DEF Mine, Ticks
<1>2. /\ SteppersSound /\ mempool \in Seq(Signed) /\ mempool # <<>> /\ chain \in SoundChain
      /\ RunsSound(runs) /\ runs \in [Runs -> Run \cup {None}]
      /\ UNCHANGED hosted /\ mempool' = Tail(mempool)
  BY DEF WebSound, SteppersSound, RunsSound, Mine
<1>3. tx \in Signed /\ tx.run \in Runs /\ tx.amount \in Nat /\ run # None /\ SoundRun(run)
  <2>1. 1 \in DOMAIN mempool /\ tx = mempool[1]
    BY <1>2
  <2>2. mempool[1] \in Signed /\ mempool[1].run \in Runs /\ mempool[1].amount \in Nat
    BY <1>2, <2>1, SignedHas
  <2>3. runs[mempool[1].run] # None
    BY <1>2, <2>1 DEF SteppersSound
  <2> QED
    BY <1>2, <2>1, <2>2, <2>3 DEF RunsSound
<1>4. DoRun(chain, tx.run, tx.amount, tick) \in SoundChain \cup {None}
  <2>1. CASE run.atomic
    <3>1. FormTerms(run.terms) /\ run \in Run
      BY <1>3, <2>1 DEF SoundRun
    <3> HIDE DEF tx
    <3>2. DoBatch(chain, tx.run, tx.amount, tick) \in SoundChain \cup {None}
      BY <1>2, <1>3, <3>1, BatchSound
    <3> QED
      BY <2>1, <3>2 DEF DoRun
  <2>2. CASE ~run.atomic
    <3> DEFINE kind == run.steps[run.at]
    <3>1. kind \in Kinds
      BY <1>3 DEF SoundRun, Run
    <3>2. FormTerms(run.terms) \/ kind \notin {"approveQuote", "open"}
      <4>1. CASE FormTerms(run.terms)
        BY <4>1
      <4>2. CASE ~FormTerms(run.terms)
        <5> HIDE DEF run
        <5>1. run.steps \in Itineraries /\ run.at \in 1 .. Len(run.steps)
          BY <1>3, <4>2 DEF SoundRun
        <5>2. run.steps[run.at] \in {"close", "closeZap", "approveRouter", "swap"}
          BY <5>1, ItineraryIs
        <5> QED
          BY <5>2
      <4> QED
        BY <4>1, <4>2
    <3>3. DoRun(chain, tx.run, tx.amount, tick) = Do(chain, tx.run, kind, tx.amount, tick)
      BY <2>2 DEF DoRun
    <3> HIDE DEF tx, kind
    <3> QED
      BY <1>2, <1>3, <3>1, <3>2, <3>3, DoSound
  <2> QED
    BY <2>1, <2>2
<1> DEFINE c == IF refused THEN None ELSE DoRun(chain, tx.run, tx.amount, tick)
<1>5. Mined(tx, run, refused, c) /\ c \in SoundChain \cup {None}
  BY <1>1, <1>4
<1> HIDE DEF c
<1>6. chain' \in SoundChain
  <2>1. CASE c # None
    BY <1>5, <2>1 DEF Mined
  <2>2. CASE c = None
    <3> DEFINE told == chain.refused \cup (IF refused /\ run.of = None THEN {tx.run} ELSE {})
               after == [chain EXCEPT !.refused = told]
    <3>1. chain' = after
      BY <1>5, <2>2 DEF Mined
    <3>3. chain \in Chain
      BY <1>2 DEF SoundChain
    <3>2. told \in SUBSET Runs
      <4>1. chain.refused \in SUBSET Runs /\ tx.run \in Runs
        BY <1>3, <3>3 DEF Chain
      <4> QED
        BY <4>1
    <3> HIDE DEF told
    <3>4. /\ after \in Chain /\ after.toQuote = chain.toQuote /\ after.granted = chain.granted
          /\ after.opened = chain.opened
      BY <3>2, <3>3 DEF Chain
    <3> HIDE DEF after
    <3>5. FormsAlike => Spare(after)
      <4> SUFFICES ASSUME FormsAlike PROVE Spare(after)
        OBVIOUS
      <4>1. Spare(chain)
        BY <1>2 DEF SoundChain
      <4> QED
        BY <3>4, <4>1, SpareKept
    <3> QED
      BY <3>1, <3>4, <3>5 DEF SoundChain
  <2> QED
    BY <2>1, <2>2
<1>7. SteppersSound'
  <2> DEFINE mined == run.mined \/ (tx.try = run.try /\ ~(run.atomic /\ c = None))
             after == [run EXCEPT !.mined = mined]
  <2>1. runs' = [runs EXCEPT ![tx.run] = after]
    BY <1>2, <1>3, <1>5 DEF Mined
  <2>2. mined \in BOOLEAN /\ "done" \in Stages /\ 0 \in Nat
    BY DEF Stages
  <2> HIDE DEF mined
  <2>3. SoundRun(after)
    <3> HIDE DEF run
    <3> QED
      BY <1>3, <2>2, RunChanges
  <2> HIDE DEF after, tx
  <2>4. RunsSound(runs') /\ StillThere(runs, runs')
    BY <1>2, <1>3, <2>1, <2>3, RunsOne
  <2>5. hosted' # None => hosted' \in Runs /\ runs'[hosted'] # None
    BY <1>2, <2>4 DEF SteppersSound, StillThere
  <2>6. mempool' \in Seq(Signed)
    BY <1>2
  <2>7. \A k \in DOMAIN mempool' : runs'[mempool'[k].run] # None
    <3> SUFFICES ASSUME NEW k \in DOMAIN mempool' PROVE runs'[mempool'[k].run] # None
      OBVIOUS
    <3>1. k + 1 \in DOMAIN mempool /\ mempool'[k] = mempool[k + 1]
      BY <1>2
    <3>2. mempool[k + 1].run \in Runs /\ runs[mempool[k + 1].run] # None
      BY <1>2, <3>1, SignedHas DEF SteppersSound
    <3> QED
      BY <2>4, <3>1, <3>2 DEF StillThere
  <2> QED
    BY <2>4, <2>5, <2>6, <2>7 DEF SteppersSound, RunsSound, SoundRun
<1> QED
  BY <1>6, <1>7

LEMMA WebSoundStep == ASSUME WebSound, [Next]_vars PROVE WebSound'
<1>1. Planned' /\ ScreenSound'
  BY PlannedStep, ScreenSoundStep DEF WebSound
<1>2. SteppersSound /\ chain \in SoundChain
  BY DEF WebSound
<1>3. ASSUME UNCHANGED <<runs, hosted, mempool>> PROVE SteppersSound'
  BY <1>2, <1>3 DEF SteppersSound, RunsSound, SoundRun
<1>4. ASSUME FormStep \/ Click PROVE SteppersSound' /\ chain' = chain
  <2>1. UNCHANGED <<runs, hosted, mempool, chain>>
    BY <1>4 DEF FormStep, Click, Edit, Debounced, Answered, Arrives, Replan, Replanned, ShownAgain,
       ReplanFails, Read
  <2> QED
    BY <1>3, <2>1
<1>5. ASSUME NEW r \in Runs, StartOpen(r) \/ StartAgent(r) PROVE SteppersSound' /\ chain' = chain
  BY <1>5, StartOpenSound DEF StartOpen, StartAgent
<1>6. ASSUME NEW r \in Runs, StartExit(r) \/ StartClose(r) \/ StartSell(r)
      PROVE  SteppersSound' /\ chain' = chain
  BY <1>2, <1>6, StartExitSound DEF StartExit, StartClose, StartSell
<1>7. ASSUME NEW r \in Runs, Sign(r) PROVE SteppersSound' /\ chain' = chain
  BY <1>7, SignSound DEF Sign
<1>8. ASSUME NEW r \in Runs, Reject(r) \/ GiveUp(r) PROVE SteppersSound' /\ chain' = chain
  BY <1>2, <1>8, StopsSound DEF Reject, GiveUp
<1>9. ASSUME NEW r \in Runs, Retry(r) PROVE SteppersSound' /\ chain' = chain
  BY <1>2, <1>9, RetrySound DEF Retry
<1>10. ASSUME NEW r \in Runs, Cancel(r) PROVE SteppersSound' /\ chain' = chain
  BY <1>2, <1>10, CancelSound DEF Cancel
<1>11. ASSUME NEW r \in Runs, Receipt(r) PROVE SteppersSound' /\ chain' = chain
  BY <1>2, <1>11, ReceiptSound DEF Receipt
<1>12. ASSUME Mine PROVE SteppersSound' /\ chain' \in SoundChain
  BY <1>12, MineSound
<1>13. ASSUME UNCHANGED vars PROVE SteppersSound' /\ chain' = chain
  BY <1>3, <1>13 DEF vars
<1>14. SteppersSound' /\ chain' \in SoundChain
  BY <1>2, <1>4, <1>5, <1>6, <1>7, <1>8, <1>9, <1>10, <1>11, <1>12, <1>13 DEF Next, StepperStep
<1> QED
  BY <1>1, <1>14 DEF WebSound

LEMMA WebSoundInit == Init => WebSound
<1> SUFFICES ASSUME Init PROVE WebSound
  OBVIOUS
<1>1. Planned
  BY PlannedInit
<1>2. ScreenSound
  <2>1. Stated(NoPlan)
    BY NoPlanTyped DEF Stated, NoPlan
  <2>2. trouble \in Nat
    BY WebAssumption DEF Init
  <2>3. terms = NoPlan
    BY DEF Init
  <2> QED
    BY <2>1, <2>2, <2>3 DEF Init, ScreenSound
<1>3. SteppersSound
  <2>1. runs = [r \in Runs |-> None] /\ hosted = None /\ mempool = <<>>
    BY DEF Init
  <2>2. RunsSound(runs)
    BY <2>1 DEF RunsSound
  <2> QED
    BY <2>1, <2>2 DEF SteppersSound
<1>4. chain \in SoundChain
  <2>1. PICK w \in IF screen = "gone" THEN {CHOOSE v \in Wallets : TRUE} ELSE Wallets :
          chain = [native |-> w.native, quote |-> w.quote, base |-> w.base,
                   toQuote |-> 0, toBase |-> 0, toRouter |-> 0, granted |-> 0,
                   opened |-> [r \in Runs |-> 0], closed |-> FALSE, refused |-> {}]
    BY DEF Init
  <2>2. w \in Wallets
    BY WebAssumption
  <2>3. w \in [native : Nat, quote : Nat, base : Nat]
    BY <2>2, WebAssumption
  <2>4. /\ chain \in Chain /\ chain.toQuote = 0 /\ chain.granted = 0
        /\ chain.opened = [r \in Runs |-> 0]
    BY <2>1, <2>3 DEF Chain
  <2>5. ASSUME FormsAlike PROVE ~Pays(chain)
    <3> SUFFICES ASSUME NEW f \in Forms, ~PlanOf(f).error, NEW tick \in Ticks(PlanOf(f)),
                        Pulled(PlanOf(f), tick).quote <= 0
                 PROVE  FALSE
      BY <2>4 DEF Pays
    <3>1. FormTerms(PlanOf(f))
      BY DEF FormTerms
    <3>2. Stated(PlanOf(f)) /\ tick \in DOMAIN SqrtPrice
      BY <3>1, FormTermsAre
    <3>3. Pulled(PlanOf(f), tick).quote \in Nat /\ PlanOf(f).needsQuote \in Nat
      BY <3>2, PulledNat DEF Stated, Terms
    <3>4. 2 * Pulled(PlanOf(f), tick).quote > PlanOf(f).needsQuote
      BY <2>5 DEF FormsAlike, Ticks
    <3> QED
      BY <3>3, <3>4
  <2>6. SumFunction(chain.opened) = 0
    <3> DEFINE opened == [r \in Runs |-> 0]
    <3>1. /\ opened \in [Runs -> Nat] /\ DOMAIN opened = Runs /\ \A r \in Runs : opened[r] = 0
      OBVIOUS
    <3> HIDE DEF opened
    <3>2. Integral(opened, Runs)
      BY <3>1, SumOpened
    <3>3. SumFunctionOnSet(opened, Runs) = 0
      BY <3>1, <3>2, SumZero
    <3> QED
      BY <2>4, <3>1, <3>3 DEF SumFunction, opened
  <2>7. FormsAlike => Spare(chain)
    BY <2>4, <2>5, <2>6 DEF Spare, Approved
  <2> QED
    BY <2>4, <2>7 DEF SoundChain
<1> QED
  BY <1>1, <1>2, <1>3, <1>4 DEF WebSound

LEMMA WebSoundIsIt == WebSound => TypeOK /\ (FormsAlike => OpensOnce)
<1> SUFFICES ASSUME WebSound PROVE TypeOK /\ (FormsAlike => OpensOnce)
  OBVIOUS
<1>1. Planned /\ ScreenSound /\ SteppersSound /\ chain \in SoundChain
  BY DEF WebSound
<1>2. {form} \cup ({plan} \ {None}) \cup asked \cup tracked \subseteq Ask
  BY <1>1, WebAssumption DEF Planned
<1>3. \A r \in Runs : runs[r] \in Run \cup {None}
  BY <1>1 DEF SteppersSound, RunsSound
<1>4. hosted \in Runs \cup {None}
  BY <1>1 DEF SteppersSound
<1>5. TypeOK
  BY <1>1, <1>2, <1>3, <1>4 DEF TypeOK, ScreenSound, SteppersSound, Stated, SoundChain, Signed
<1>6. ASSUME FormsAlike PROVE OpensOnce
  <2>1. Spare(chain) /\ chain \in Chain
    BY <1>1, <1>6 DEF SoundChain
  <2>2. SumFunction(chain.opened) \in Nat /\ chain.granted \in Nat
    BY <2>1, SumOpened DEF Chain
  <2>3. SumFunction(chain.opened) <= chain.granted
    BY <2>1, <2>2 DEF Spare
  <2> QED
    BY <2>3 DEF OpensOnce
<1> QED
  BY <1>5, <1>6

-----------------------------------------------------------------------------
(* Side by side.                                                           *)

(* A step of all is one of each or leaves it alone.                        *)
LEMMA ClientsSteps ==
  ASSUME [ClientsNext]_clientsVars
  PROVE  [Next]_vars /\ [AgentNext]_agentVars /\ [BoardNext]_boardVars /\ [VisitNext]_visitVars
  BY DEF ClientsNext, clientsVars

(* The form, the steppers, the wallet and the chain are of their types:    *)
(* every plan has bins between the ticks, and no balance or allowance is   *)
(* spent below zero, whatever is retried or mined late.                    *)
THEOREM ClientsTyped == ClientsSpec => []ClientsTypeOK
<1> DEFINE Inv == WebSound /\ BoardTyped /\ VisitTyped /\ AgentInv /\ act \in {"web", "agent", "board", "visit"}
<1>1. ClientsInit => Inv
  BY WebSoundInit, BoardTypedInit, VisitTypedInit, AgentInvInit DEF ClientsInit
<1>2. Inv /\ [ClientsNext]_clientsVars => Inv'
  <2>1. ASSUME Inv, [ClientsNext]_clientsVars PROVE act' \in {"web", "agent", "board", "visit"}
    BY <2>1 DEF ClientsNext, clientsVars
  <2> QED
    BY <2>1, ClientsSteps, WebSoundStep, BoardTypedStep, VisitTypedStep, AgentInvStep
<1>3. Inv => ClientsTypeOK
  BY WebSoundIsIt DEF BoardTyped, VisitTyped, AgentInv, ClientsTypeOK
<1> QED
  BY <1>1, <1>2, <1>3, PTL DEF ClientsSpec

(* Every incumbent of a row or an answer is real, and an undercut is of    *)
(* the fee of the pool that is pointed to: resolveIncumbent and            *)
(* enrichToken, whatever is listed, dark or not indexed yet.               *)
THEOREM IncumbentsAreReal == ClientsSpec => []IncumbentIsReal
<1> DEFINE Inv == BoardTyped /\ BoardReal
<1>1. ClientsInit => Inv
  BY BoardTypedInit, BoardRealInit DEF ClientsInit
<1>2. Inv /\ [ClientsNext]_clientsVars => Inv'
  BY ClientsSteps, BoardTypedStep, BoardRealStep
<1>3. Inv => IncumbentIsReal
  BY BoardRealIsIt
<1> QED
  BY <1>1, <1>2, <1>3, PTL DEF ClientsSpec

(* A row that is up to date says what a lookup would say, and no live pool *)
(* is passed over for an empty one.                                        *)
THEOREM AnswersDoAgree == ClientsSpec => []AnswersAgree
<1> DEFINE Inv == BoardTyped /\ BoardAgrees
<1>1. ClientsInit => Inv
  BY BoardTypedInit, BoardAgreesInit DEF ClientsInit
<1>2. Inv /\ [ClientsNext]_clientsVars => Inv'
  BY ClientsSteps, BoardTypedStep, BoardAgreesStep
<1>3. Inv => AnswersAgree
  BY BoardAgreesIsIt
<1> QED
  BY <1>1, <1>2, <1>3, PTL DEF ClientsSpec

(* A wallet is counted once, a page view not twice in a row, and an error  *)
(* once a minute while it is remembered.                                   *)
THEOREM TabsCountOnce == ClientsSpec => []CountedOnce
<1> DEFINE Inv == VisitTyped /\ VisitCounted
<1>1. ClientsInit => Inv
  BY VisitTypedInit, VisitCountedInit DEF ClientsInit
<1>2. Inv /\ [ClientsNext]_clientsVars => Inv'
  BY ClientsSteps, VisitTypedStep, VisitCountedStep
<1>3. Inv => CountedOnce
  BY VisitCountedIsIt
<1> QED
  BY <1>1, <1>2, <1>3, PTL DEF ClientsSpec

(* The rows of a minute stay below their limits and as many more as there  *)
(* were requests between the count and the insert.                         *)
THEOREM IntakeIsBounded == ClientsSpec => []IntakeBounded
<1> DEFINE Inv == VisitTyped /\ VisitBounded
<1>1. ClientsInit => Inv
  BY VisitTypedInit, VisitBoundedInit DEF ClientsInit
<1>2. Inv /\ [ClientsNext]_clientsVars => Inv'
  BY ClientsSteps, VisitTypedStep, VisitBoundedStep
<1>3. Inv => IntakeBounded
  BY VisitBoundedIsIt
<1> QED
  BY <1>1, <1>2, <1>3, PTL DEF ClientsSpec

(* The book that a link asked for is shown until "off" or a wallet, and no *)
(* landing sends a returning wallet away.                                  *)
THEOREM BooksAreKept == ClientsSpec => []BookKept
<1> DEFINE Inv == VisitTyped /\ VisitKept
<1>1. ClientsInit => Inv
  BY VisitTypedInit, VisitKeptInit DEF ClientsInit
<1>2. Inv /\ [ClientsNext]_clientsVars => Inv'
  BY ClientsSteps, VisitTypedStep, VisitKeptStep
<1>3. Inv => BookKept
  BY VisitKeptIsIt
<1> QED
  BY <1>1, <1>2, <1>3, PTL DEF ClientsSpec

(* An exit or a sale that says all is done has closed its position and     *)
(* left no base in the wallet, unless a venue refused a swap: TxStepper,   *)
(* whatever else the wallet signs, retries, gives up on or drops.          *)
THEOREM ExitsSell == ClientsSpec => []ExitSells
<1>1. ClientsInit => ExitTold
  BY ExitToldInit DEF ClientsInit
<1>2. ExitTold /\ [ClientsNext]_clientsVars => ExitTold'
  BY ClientsSteps, ExitToldStep
<1>3. ExitTold => ExitSells
  BY ExitToldIsIt
<1> QED
  BY <1>1, <1>2, <1>3, PTL DEF ClientsSpec

(* What a tool of the server builds goes through on whichever manager      *)
(* holds the position, in order and whatever was sent before, unless       *)
(* somebody else touches position or pool or the wallet is short:          *)
(* fetchPositionRecord, fetchAllowance and the builders of the SDK.        *)
THEOREM BuiltIsAccepted == ClientsSpec => []BuiltGoesThrough
<1>1. ClientsInit => AgentInv
  BY AgentInvInit DEF ClientsInit
<1>2. AgentInv /\ [ClientsNext]_clientsVars => AgentInv'
  BY ClientsSteps, AgentInvStep
<1>3. AgentInv => BuiltGoesThrough
  BY DEF AgentInv, BuiltGoesThrough
<1> QED
  BY <1>1, <1>2, <1>3, PTL DEF ClientsSpec

(* Unless its pool was brought, a plan that is shown puts its bins where   *)
(* listed pairs that agree say the market is, to within StaleTicks: not    *)
(* where a stale pool was left, nor where a pair in another currency seems *)
(* to say.  plan.ts of the web app, as far as Market.tla goes.             *)
THEOREM PlansAtMarket == ClientsSpec => []PlacedAtMarket
<1>1. Planned => PlacedAtMarket
  <2> SUFFICES ASSUME Planned, plan # None, ~terms.error PROVE AtMarket(plan, terms)
    BY DEF PlacedAtMarket
  <2>1. plan \in Requests /\ terms = PlanOf(plan)
    BY DEF Planned
  <2>2. CASE plan.caller = "web"
    <3>1. terms = WebPlan(Resolve(plan))
      BY <2>1, <2>2 DEF PlanOf
    <3> QED
      BY <2>1, <3>1, PlacedAtMarketIs
  <2>3. CASE plan.caller # "web"
    BY <2>3 DEF AtMarket
  <2> QED
    BY <2>2, <2>3
<1>2. ClientsInit => Planned
  BY PlannedInit DEF ClientsInit
<1>3. Planned /\ [ClientsNext]_clientsVars => Planned'
  BY ClientsSteps, PlannedStep
<1> QED
  BY <1>1, <1>2, <1>3, PTL DEF ClientsSpec

(* The parts of PlanFits that say where the bins are.                      *)
PlacedAsAsked ==
  plan # None /\ ~terms.error => OnGrid(terms) /\ (Roomy(Resolve(plan)) => Reaches(plan, terms))

(* A plan on the screen, or an agent's, has its bins on the grid, each     *)
(* tick in one of them at most; and they reach both depths and leave no    *)
(* tick out between them but the bucket at whose edge the price is, unless *)
(* the SDK left a bin without liquidity out or the ticks end before.       *)
THEOREM PlansAreWhole == ClientsSpec => []PlacedAsAsked
<1>1. Planned => PlacedAsAsked
  <2> SUFFICES ASSUME Planned, plan # None, ~terms.error
               PROVE  OnGrid(terms) /\ (Roomy(Resolve(plan)) => Reaches(plan, terms))
    BY DEF PlacedAsAsked
  <2>1. plan \in Requests /\ terms = PlanOf(plan)
    BY DEF Planned
  <2> QED
    BY <2>1, PlanPlaced
<1>2. ClientsInit => Planned
  BY PlannedInit DEF ClientsInit
<1>3. Planned /\ [ClientsNext]_clientsVars => Planned'
  BY ClientsSteps, PlannedStep
<1> QED
  BY <1>1, <1>2, <1>3, PTL DEF ClientsSpec

(* While the position of any form takes more than half of what any form    *)
(* approves, no more positions are ever opened than approvals of the quote *)
(* were mined, whatever is refused, lost, given up, retried, batched or    *)
(* left by an earlier stepper.                                             *)
THEOREM OpensAreOnce == FormsAlike => (ClientsSpec => []OpensOnce)
<1> SUFFICES ASSUME FormsAlike PROVE ClientsSpec => []OpensOnce
  OBVIOUS
<1>1. ClientsInit => WebSound
  BY WebSoundInit DEF ClientsInit
<1>2. WebSound /\ [ClientsNext]_clientsVars => WebSound'
  BY ClientsSteps, WebSoundStep
<1>3. WebSound => OpensOnce
  BY WebSoundIsIt
<1> QED
  BY <1>1, <1>2, <1>3, PTL DEF ClientsSpec

=============================================================================
