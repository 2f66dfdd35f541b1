------------------------------ MODULE Portfolio ------------------------------
(***************************************************************************)
(* What apps/api answers about the positions of one owner: the profit of a *)
(* position (list, detail and share card), the tiles of the closed ones,   *)
(* and the two charts of value over time.                                  *)
(*                                                                         *)
(* The chain mines verbs and trades; the indexer brings their events to D1 *)
(* in order (ChainIndexer.tla shows that it does); a pass reads every open *)
(* position and writes its marks at the end (Snapshots.tla shows what a    *)
(* mark is worth), and whoever posts an opening, even again, has it marked *)
(* as of its block.  A request reads the row, the snapshot, the events and *)
(* the prices one await after the other, and D1 moves on in between.       *)
(*                                                                         *)
(* An amount has a quote and a base leg.  The base token trades at par all *)
(* the time, so that whatever a position earns are its fees; a pool may    *)
(* still stand at a swap limit, where its price is no price.               *)
(***************************************************************************)
EXTENDS Integers, Sequences, FiniteSets, Functions

CONSTANTS
  Positions,
  Deposits,     \* amounts to open or increase with
  Fee,          \* amount a trade leaves
  Turns,        \* what it turns from quote into base
  PerfPercent,  \* of the fees, to the treasury
  Bucket,       \* of the charts, in ticks of the clock
  Limit,        \* what a pool at a swap limit shows for a price
  None,
  MaxVerbs,     \* bounds on the verbs, the trades and the passes of a behaviour
  MaxTrades,
  MaxPasses

Par == 1

Legs == [quote : Int, base : Int]

Amounts == [quote : Nat, base : Nat]

Price == {Par, Limit}

(* seen and earned are history: the events of the position, and what it    *)
(* had earned, when it was read.                                           *)
MarkType ==
  [position : Positions, ts : Nat, price : Price, amount : Amounts, fees : Amounts, seen : Nat,
   earned : Int]

PassType ==
  [ts : Nat, todo : SUBSET Positions, price : Price, drafts : SUBSET MarkType, skip : BOOLEAN]

ASSUME ConstantsAssumption ==
  /\ IsFiniteSet(Positions)
  /\ None \notin MarkType /\ None \notin PassType
  /\ Deposits \subseteq Amounts /\ Fee \in Amounts /\ Turns \subseteq Int
  /\ PerfPercent \in 0 .. 100
  /\ Bucket \in Nat \ {0}
  /\ Limit \in Nat /\ Limit > Par
  /\ {MaxVerbs, MaxTrades, MaxPasses} \subseteq Nat

VARIABLES
  clock,      \* the time of the last verb, trade or pass
  held,       \* chain: the principal of a position
  unclaimed,  \* chain: its fees
  accrued,    \* history: all fees it ever accrued, at par
  log,        \* chain: the events, each of a verb
  indexed,    \* D1: how many of them it has
  candles,    \* D1: closes of the pool
  marks,      \* D1: the snapshots
  navs,       \* D1: the nav_snapshots
  pass,       \* the pass under way, or None
  passes,     \* how many there were
  request     \* a request for the summary of a position

chain == <<held, unclaimed, accrued, log>>

d1 == <<indexed, candles, marks, navs>>

vars == <<clock, chain, d1, pass, passes, request>>

Zero == [quote |-> 0, base |-> 0]

Plus(a, b) == [quote |-> a.quote + b.quote, base |-> a.base + b.base]

Minus(a, b) == [quote |-> a.quote - b.quote, base |-> a.base - b.base]

AtPar(a) == a.quote + a.base

(* The amounts of a function added up.                                     *)
Total(a) ==
  [quote |-> SumFunction([k \in DOMAIN a |-> a[k].quote]),
   base |-> SumFunction([k \in DOMAIN a |-> a[k].base])]

-----------------------------------------------------------------------------
(* Prices.                                                                 *)

(* markPrice1e18: zero where there is no usable price                      *)
MarkPrice(p) == IF p = Limit THEN 0 ELSE p

(* What a mark is worth by: its own price, unless that is a limit.         *)
PriceOf(m) == MarkPrice(m.price)

(* Without a price only the quote leg counts.                              *)
Val(a, px) == IF px = 0 THEN a.quote ELSE a.quote + a.base * px

-----------------------------------------------------------------------------
(* D1.                                                                     *)

EventsOf(p) == {k \in 1 .. indexed : log[k].position = p}

HasRow(p) == EventsOf(p) # {}

(* The row of positions: what ChainIndexer adds up.                        *)
Row(p) ==
  [closed |-> \E k \in EventsOf(p) : log[k].closed,
   cash |-> Total([k \in EventsOf(p) |-> log[k].delta]),
   fees |-> Total([k \in EventsOf(p) |-> log[k].fees]),
   perf |-> Total([k \in EventsOf(p) |-> log[k].perf])]

MarksOf(p) == {m \in marks : m.position = p}

LatestSnapshot(p) ==
  IF MarksOf(p) = {}
    THEN None
    ELSE CHOOSE m \in MarksOf(p) : \A n \in MarksOf(p) : n.ts <= m.ts

(* Faulty: the holdings of the last mark stay in.                          *)
LastSnapshot(p) == LatestSnapshot(p)

(* Only the price of the last mark is still good after a close.            *)
ClosedFeeSnapshot(p) ==
  LET m == LatestSnapshot(p)
  IN  IF m = None THEN None ELSE [m EXCEPT !.amount = Zero, !.fees = Zero]

-----------------------------------------------------------------------------
(* Summaries.                                                              *)

(* summarizePosition                                                       *)
Summarize(row, snap) ==
  LET px == IF snap = None THEN 0 ELSE PriceOf(snap)
      fees == IF snap = None THEN Zero ELSE snap.fees
      value == IF snap = None THEN 0 ELSE Val(Plus(snap.amount, fees), px)
      feesNet == Val(row.fees, px) + Val(fees, px) - Val(row.perf, px)
      pnl == value + Val(row.cash, px)
  IN  [value |-> value, cashflow |-> Val(row.cash, px), invested |-> 0, pnl |-> pnl,
       feesNet |-> feesNet, inventory |-> pnl - feesNet]

(* pxAt: the price nearest in time, the earlier of two; zero without any   *)
PriceAt(series, ts) ==
  LET distance(s) == IF s.ts < ts THEN ts - s.ts ELSE s.ts - ts
      nearest == {s \in series : \A t \in series : distance(s) <= distance(t)}
  IN  IF series = {} THEN 0
      ELSE (CHOOSE s \in nearest : \A t \in nearest : s.ts <= t.ts).price

SnapshotPrices(p) == {[ts |-> m.ts, price |-> PriceOf(m)] : m \in MarksOf(p)}

(* fixedCashflowQuote                                                      *)
FixedCashflow(evs, series) ==
  LET v == [k \in evs |-> Val(log[k].delta, PriceAt(series, log[k].ts))]
  IN  [total |-> SumFunction(v),
       invested |-> SumFunction([k \in {k \in evs : v[k] < 0} |-> -v[k]])]

(* positionSummary, when everything is read.                               *)
Fixed(s, evs, series) ==
  LET f == FixedCashflow(evs, series)
      pnl == s.value + f.total
  IN  IF evs = {} THEN s
      ELSE [s EXCEPT !.cashflow = f.total, !.invested = f.invested, !.pnl = pnl,
                     !.inventory = pnl - s.feesNet]

SnapshotFor(p, closed) == IF closed THEN ClosedFeeSnapshot(p) ELSE LatestSnapshot(p)

(* The position's own snapshots, or the candles of its pool.               *)
SeriesOf(p) == IF MarksOf(p) # {} THEN SnapshotPrices(p) ELSE candles

(* All of it at once.                                                      *)
SummaryOf(p) ==
  Fixed(Summarize(Row(p), SnapshotFor(p, Row(p).closed)), EventsOf(p),
        SeriesOf(p))

(* basisOf                                                                 *)
Basis(s) ==
  IF s.invested > 0 THEN s.invested ELSE IF s.cashflow < 0 THEN -s.cashflow ELSE s.cashflow

(* The tiles of the closed positions.  (Nothing of a closed position moves *)
(* any more but the price of its last mark: read at once.)                 *)
Realized ==
  LET closed == {p \in Positions : \E k \in EventsOf(p) : log[k].closed}
      summary == [p \in closed |-> SummaryOf(p)]
      pnl == SumFunction([p \in closed |-> summary[p].pnl])
      feesNet == SumFunction([p \in closed |-> summary[p].feesNet])
  IN  [closed |-> closed,
       greens |-> Cardinality({p \in closed : summary[p].pnl > 0}),
       pnl |-> pnl,
       feesNet |-> feesNet,
       net |-> pnl + feesNet,
       basis |-> SumFunction([p \in closed |-> Basis(summary[p])])]

OpenRows == {p \in Positions : HasRow(p) /\ \A k \in EventsOf(p) : ~log[k].closed}

(* The pool's, on the list of pools: its positions' current value          *)
Tvl == SumFunction([p \in OpenRows |-> Summarize(Row(p), LatestSnapshot(p)).value])

-----------------------------------------------------------------------------
(* Charts.                                                                 *)

BucketOf(r) == r.ts - (r.ts % Bucket)

(* Faulty: the first row of a bucket.                                      *)
FirstOfBucket(rows) == {r \in rows : \A s \in rows : BucketOf(s) = BucketOf(r) => r.ts <= s.ts}

(* GROUP BY ts - ts % bucket, with the columns of the row of MAX(ts)       *)
LastOfBucket(rows) == {r \in rows : \A s \in rows : BucketOf(s) = BucketOf(r) => s.ts <= r.ts}

(* /portfolio/:owner/history: the value of the last mark of each position  *)
(* in the bucket, without cash flows.                                      *)
History(b) ==
  SumFunction([p \in Positions |->
    SumFunction([m \in {m \in LastOfBucket(MarksOf(p)) : BucketOf(m) = b} |->
                   Val(Plus(m.amount, m.fees), PriceOf(m))])])

(* /portfolio/:owner/nav                                                   *)
NavPoints == LastOfBucket(navs)

-----------------------------------------------------------------------------
Event ==
  [position : Positions, name : {"opened", "increased", "decreased", "collected"}, ts : Nat,
   delta : Legs, fees : Amounts, perf : Amounts, closed : BOOLEAN]

SummaryType ==
  [value : Int, cashflow : Int, invested : Nat, pnl : Int, feesNet : Int, inventory : Int]

RowType == [closed : BOOLEAN, cash : Legs, fees : Legs, perf : Legs]

RequestType ==
  [pc : {"row", "snapshot", "events", "series", "candles", "answered"},
   position : Positions \cup {None}, row : RowType \cup {None}, seen : Nat,
   snap : MarkType \cup {None}, summary : SummaryType \cup {None}, events : SUBSET Nat,
   series : SUBSET [ts : Nat, price : {0, Par, Limit}]]

TypeOK ==
  /\ clock \in 0 .. MaxVerbs + MaxTrades + MaxPasses
  /\ held \in [Positions -> Amounts]
  /\ unclaimed \in [Positions -> Amounts]
  /\ accrued \in [Positions -> Nat]
  /\ log \in Seq(Event)
  /\ indexed \in 0 .. Len(log)
  /\ \A c \in candles : c \in [ts : Nat, price : Price]
  /\ \A m \in marks : m \in MarkType
  /\ \A n \in navs : n \in [ts : Nat, positions : Nat]
  /\ pass \in PassType \cup {None}
  /\ passes \in 0 .. MaxPasses
  /\ request \in RequestType

Unasked ==
  [pc |-> "row", position |-> None, row |-> None, seen |-> 0, snap |-> None, summary |-> None,
   events |-> {}, series |-> {}]

Init ==
  /\ clock = 0
  /\ held = [p \in Positions |-> Zero]
  /\ unclaimed = [p \in Positions |-> Zero]
  /\ accrued = [p \in Positions |-> 0]
  /\ log = <<>>
  /\ indexed = 0
  /\ candles = {}
  /\ marks = {}
  /\ navs = {}
  /\ pass = None
  /\ passes = 0
  /\ request = Unasked

-----------------------------------------------------------------------------
(* The chain.                                                              *)

Perf(fees) ==
  [quote |-> (fees.quote * PerfPercent) \div 100, base |-> (fees.base * PerfPercent) \div 100]

MinedOf(p) == {k \in DOMAIN log : log[k].position = p}

Open(p) == MinedOf(p) # {} /\ \A k \in MinedOf(p) : ~log[k].closed

(* A verb that pays in, pays out, and pays the fees of the position net of *)
(* the treasury's.                                                         *)
Verb(p, name, in, out, closed) ==
  LET fees == unclaimed[p]
  IN  /\ Len(log) < MaxVerbs
      /\ clock' = clock + 1
      /\ held' = [held EXCEPT ![p] = Minus(Plus(@, in), out)]
      /\ unclaimed' = [unclaimed EXCEPT ![p] = Zero]
      /\ log' = Append(log, [position |-> p, name |-> name, ts |-> clock',
                             delta |-> Plus(Minus(out, in), Minus(fees, Perf(fees))),
                             fees |-> fees, perf |-> Perf(fees), closed |-> closed])
      /\ UNCHANGED <<accrued, d1, pass, passes, request>>

OpenPosition(p) == MinedOf(p) = {} /\ \E in \in Deposits : Verb(p, "opened", in, Zero, FALSE)

Increase(p) == Open(p) /\ \E in \in Deposits : Verb(p, "increased", in, Zero, FALSE)

Collect(p) == Open(p) /\ Verb(p, "collected", Zero, Zero, FALSE)

Decrease(p) ==
  /\ Open(p)
  /\ \/ Verb(p, "decreased", Zero, held[p], TRUE)
     \/ \E out \in Deposits :
          /\ out.quote <= held[p].quote /\ out.base <= held[p].base /\ out # held[p]
          /\ Verb(p, "decreased", Zero, out, FALSE)

(* A trade leaves a fee and may turn quote into base, or back.             *)
(* Its candle may close at the limit.                                      *)
Trade(p, turned, close) ==
  /\ Open(p)
  /\ clock - Len(log) - passes < MaxTrades
  /\ clock' = clock + 1
  /\ unclaimed' = [unclaimed EXCEPT ![p] = Plus(@, Fee)]
  /\ held' = [held EXCEPT ![p] = [quote |-> @.quote - turned, base |-> @.base + turned]]
  /\ held'[p].quote >= 0 /\ held'[p].base >= 0
  /\ accrued' = [accrued EXCEPT ![p] = @ + AtPar(Fee)]
  /\ candles' = candles \cup {[ts |-> clock', price |-> close]}
  /\ UNCHANGED <<log, indexed, marks, navs, pass, passes, request>>

Earned(p) == accrued[p] - SumFunction([k \in MinedOf(p) |-> AtPar(log[k].perf)])

-----------------------------------------------------------------------------
(* The indexer.                                                            *)

(* Faulty: rows are written for events that did not happen yet.            *)
IndexAhead ==
  /\ indexed' = indexed + 1
  /\ UNCHANGED <<clock, chain, candles, marks, navs, pass, passes, request>>

(* The next event of the chain is in D1.                                   *)
Index ==
  /\ indexed < Len(log)
  /\ indexed' = indexed + 1
  /\ UNCHANGED <<clock, chain, candles, marks, navs, pass, passes, request>>

(* The "instant zero-fee snapshot" of an opening: its bins at the price    *)
(* that the pool has now, at the time of its block.  Where that is par it  *)
(* makes no difference what trades turned; at a limit all is on one side.  *)
OpeningMark(k, price, amount) ==
  [position |-> log[k].position, ts |-> log[k].ts, price |-> price, amount |-> amount,
   fees |-> Zero, seen |-> 1, earned |-> 0]

OpeningMarks(k) ==
  LET in == Minus(Zero, log[k].delta)
  IN  {OpeningMark(k, Par, in),
       OpeningMark(k, Limit, [quote |-> AtPar(in), base |-> 0]),
       OpeningMark(k, Limit, [quote |-> 0, base |-> AtPar(in)])}

(* An opening is posted that D1 has, or that is the next.                  *)
IngestOpened(k) ==
  /\ k \in DOMAIN log /\ k <= indexed + 1
  /\ log[k].name = "opened"
  /\ indexed' = IF k > indexed THEN k ELSE indexed
  /\ \E m \in OpeningMarks(k) :
       marks' = {n \in marks : n.position # m.position \/ n.ts # m.ts} \cup {m}
  /\ UNCHANGED <<clock, chain, candles, navs, pass, passes, request>>

Kept(fees) == (fees * (100 - PerfPercent)) \div 100

(* refSqrtPrice of the reference venue, of either kind; where it does not  *)
(* answer the pool's own price stands, which may be at a limit.            *)
ReferencePrice == Price

(* A pass begins: its time, the positions that D1 calls open, and the      *)
(* price.                                                                  *)
BeginPass ==
  /\ pass = None
  /\ passes < MaxPasses
  /\ OpenRows # {}
  /\ clock' = clock + 1
  /\ passes' = passes + 1
  /\ \E price \in ReferencePrice :
       pass' = [ts |-> clock', todo |-> OpenRows, price |-> price, drafts |-> {}, skip |-> FALSE]
  /\ UNCHANGED <<chain, d1, request>>

(* A position is read.  One that is closed already is left out, and then   *)
(* the owner's value is not recorded.                                      *)
MarkPosition(p) ==
  LET m == [position |-> p, ts |-> pass.ts, price |-> pass.price,
            amount |-> held[p], fees |-> unclaimed[p], seen |-> Cardinality(MinedOf(p)),
            earned |-> Earned(p)]
  IN  /\ pass # None
      /\ p \in pass.todo
      /\ pass' = [pass EXCEPT !.todo = @ \ {p},
                              !.drafts = IF Open(p) THEN @ \cup {m} ELSE @,
                              !.skip = @ \/ ~Open(p) \/ PriceOf(m) = 0]
      /\ UNCHANGED <<clock, chain, d1, passes, request>>

(* Or cannot be read.                                                      *)
SkipPosition(p) ==
  /\ pass # None
  /\ p \in pass.todo
  /\ pass' = [pass EXCEPT !.todo = @ \ {p}, !.skip = TRUE]
  /\ UNCHANGED <<clock, chain, d1, passes, request>>

(* The snapshots are written, and the owner's value with fees net, unless  *)
(* a position was skipped or the wallet, whose part is left out here,      *)
(* cannot be read.                                                         *)
EndPass ==
  /\ pass # None
  /\ pass.todo = {}
  /\ marks' = marks \cup pass.drafts
  /\ \/ navs' = navs
     \/ /\ ~pass.skip
        /\ navs' = navs \cup
             {[ts |-> pass.ts,
               positions |-> SumFunction([m \in pass.drafts |->
                 Val(m.amount, PriceOf(m)) + Kept(Val(m.fees, PriceOf(m)))])]}
  /\ pass' = None
  /\ UNCHANGED <<clock, chain, indexed, candles, passes, request>>

(* Nothing of it is written.                                               *)
DieInPass ==
  /\ pass # None
  /\ pass' = None
  /\ UNCHANGED <<clock, chain, d1, passes, request>>

-----------------------------------------------------------------------------
(* A request.                                                              *)

ReadRow(p) ==
  /\ request.pc = "row"
  /\ HasRow(p)
  /\ request' = [request EXCEPT !.pc = "snapshot", !.position = p, !.row = Row(p),
                                !.seen = Cardinality(EventsOf(p))]
  /\ UNCHANGED <<clock, chain, d1, pass, passes>>

ReadSnapshot ==
  /\ request.pc = "snapshot"
  /\ LET snap == SnapshotFor(request.position, request.row.closed)
     IN  request' = [request EXCEPT !.pc = "events", !.snap = snap,
                                    !.summary = Summarize(request.row, snap)]
  /\ UNCHANGED <<clock, chain, d1, pass, passes>>

ReadEvents ==
  /\ request.pc = "events"
  /\ request' = [request EXCEPT !.pc = "series", !.events = EventsOf(request.position)]
  /\ UNCHANGED <<clock, chain, d1, pass, passes>>

Answer(series) ==
  request' = [request EXCEPT !.pc = "answered",
                             !.summary = Fixed(@, request.events, series),
                             !.series = series]

ReadSeries ==
  /\ request.pc = "series"
  /\ IF MarksOf(request.position) # {}
       THEN Answer(SnapshotPrices(request.position))
       ELSE request' = [request EXCEPT !.pc = "candles"]
  /\ UNCHANGED <<clock, chain, d1, pass, passes>>

ReadCandles ==
  /\ request.pc = "candles"
  /\ Answer(candles)
  /\ UNCHANGED <<clock, chain, d1, pass, passes>>

Next ==
  \/ \E p \in Positions :
       \/ OpenPosition(p) \/ Increase(p) \/ Collect(p) \/ Decrease(p)
       \/ \E turned \in Turns, close \in Price : Trade(p, turned, close)
       \/ MarkPosition(p) \/ SkipPosition(p) \/ ReadRow(p)
  \/ \E k \in 1 .. MaxVerbs : IngestOpened(k)
  \/ Index \/ BeginPass \/ EndPass \/ DieInPass
  \/ ReadSnapshot \/ ReadEvents \/ ReadSeries \/ ReadCandles

Spec == Init /\ [][Next]_vars

-----------------------------------------------------------------------------
(* Properties.                                                             *)

(* The prices are par, and so is that of the mark.                         *)
Priced(series) == series # {} /\ \A s \in series : s.price = Par

PricedMark(snap) == snap # None => PriceOf(snap) = Par

(* Nothing was paid in that has no price, and no candle is garbage.        *)
DepositsPriced ==
  /\ \A k \in request.events : log[k].delta.base >= 0
  /\ \A s \in request.series : s.price # Limit

(* The position has done nothing that its row, or the mark of an open one, *)
(* does not know.                                                          *)
Settled ==
  LET seen == Cardinality(MinedOf(request.position))
  IN  /\ request.pc = "answered"
      /\ request.seen = seen
      /\ ~request.row.closed => request.snap # None /\ request.snap.seen = seen

EarnedThen == IF request.row.closed THEN Earned(request.position) ELSE request.snap.earned

(* "pnl = value(current holdings) + value(net cash flows)": the profit of  *)
(* an answer is what the position has earned - of a closed one whatever    *)
(* marks, passes and events were under way, of an open one at its mark -   *)
(* and at a constant price all of it is fees net of the treasury's.  Where *)
(* a pool has no usable price the answer understates, as long as what was  *)
(* paid in has one.                                                        *)
PnlAsEarned ==
  Settled =>
    /\ Priced(request.series) /\ PricedMark(request.snap) =>
         /\ request.summary.pnl = EarnedThen
         /\ request.snap # None => request.summary.feesNet = EarnedThen
    /\ DepositsPriced => request.summary.pnl <= EarnedThen

TreasuryPart(m) == AtPar(m.fees) - Kept(AtPar(m.fees))

(* Marks that the history of a bucket still counts at a later time.        *)
Lingering(b, ts) ==
  {m \in marks : BucketOf(m) = b /\ m.ts < ts /\ m \in LastOfBucket(MarksOf(m.position))}

MarkedAtOpening(m) == \E k \in EventsOf(m.position) : log[k].name = "opened" /\ m.ts = log[k].ts

(* The tile of closed positions adds up to what they earned, whoever else  *)
(* is open or half-way; and the charts agree.  The newest value recorded   *)
(* for the owner is always on the chart.  Where no mark of its bucket is   *)
(* newer, the history shows that value, the treasury's part of the         *)
(* unclaimed fees, and what lingers in the bucket: positions that were     *)
(* closed within it, or whose opening reached D1 while they were marked;   *)
(* and if nothing was opened, closed or marked since, the pools are worth  *)
(* it without what lingers.                                                *)
BookAddsUp ==
  /\ LET tiles == Realized
     IN  (\A p \in tiles.closed : Priced(SeriesOf(p))) =>
           tiles.pnl = SumFunction([p \in tiles.closed |-> Earned(p)])
  /\ \A n \in navs : \E o \in NavPoints : o.ts >= n.ts
  /\ \A n \in NavPoints :
       LET b == BucketOf(n)
           last == {m \in marks : m.ts = n.ts}
           worth == n.positions + SumFunction([m \in last |-> TreasuryPart(m)])
           lingering == Lingering(b, n.ts)
       IN  (\A m \in marks : BucketOf(m) = b => m.ts <= n.ts) =>
             /\ History(b) = worth + SumFunction([m \in lingering |->
                                 Val(Plus(m.amount, m.fees), PriceOf(m))])
             /\ \A m \in lingering : m.position \notin OpenRows \/ MarkedAtOpening(m)
             /\ OpenRows = {m.position : m \in last} /\ (\A m \in marks : m.ts <= n.ts) =>
                  Tvl = worth
=============================================================================
