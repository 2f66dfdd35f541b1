------------------------------ MODULE BinPlan ------------------------------
(***************************************************************************)
(* How a request for a position becomes bins: packages/core/src/position.ts *)
(* and liquidity.ts, packages/sdk/src/plan.ts and the web app's plan.ts.   *)
(*                                                                         *)
(* A square-root price is an integer over Scale (Q96 in the code) and is   *)
(* given for every tick; the percentages of a request are the ticks they   *)
(* come to.  Divisions truncate where the code's bigints do.               *)
(***************************************************************************)
EXTENDS Market, SequencesExt

CONSTANTS
  SqrtPrice,   \* getSqrtPriceAtTick
  Scale,       \* Q96
  LRef,        \* LREF, against which costs are measured
  MaxBins,     \* MAX_BINS of the manager and of the planners
  StaleTicks,  \* STALE_SYNC_PCT in ticks
  BandTicks    \* MAX_VENUE_DEV_PCT in ticks

(* The price rises with the tick, and the ticks are those between two of   *)
(* them, with 0.                                                           *)
ASSUME PriceAssumption ==
  /\ Scale \in Nat \ {0} /\ LRef \in Nat /\ StaleTicks \in Nat /\ None \notin Int
  /\ 0 \in DOMAIN SqrtPrice /\ IsFiniteSet(DOMAIN SqrtPrice)
  /\ \A t, u \in DOMAIN SqrtPrice : t .. u \subseteq DOMAIN SqrtPrice
  /\ \A t \in DOMAIN SqrtPrice : t \in Int /\ SqrtPrice[t] \in Nat \ {0}
  /\ \A t, u \in DOMAIN SqrtPrice : t < u => SqrtPrice[t] < SqrtPrice[u]

Ceiling(a, b) == -((-a) \div b)

(* A pay cap: one percent of headroom.                                     *)
Headroom(amount) == (amount * 101) \div 100

-----------------------------------------------------------------------------
(* Liquidity and the amounts behind it.                                    *)

(* What backs liquidity l in a range while the price is s.                 *)
AmountsForLiquidity(s, lower, upper, l) ==
  LET a == SqrtPrice[lower]
      b == SqrtPrice[upper]
      p == Max({a, Min({s, b})})
  IN [amount0 |-> ((l * Scale * (b - p)) \div b) \div p,
      amount1 |-> (l * (p - a)) \div Scale]

LiquidityForAmount0(a, b, x) == (x * ((a * b) \div Scale)) \div (b - a)
LiquidityForAmount1(a, b, y) == (y * Scale) \div (b - a)

(* The most liquidity two budgets give in one range: the scarcer binds.    *)
LiquidityForBoth(s, lower, upper, x, y) ==
  LET a == SqrtPrice[lower]
      b == SqrtPrice[upper]
  IN IF s <= a THEN LiquidityForAmount0(a, b, x)
     ELSE IF s >= b THEN LiquidityForAmount1(a, b, y)
     ELSE Min({LiquidityForAmount0(s, b, x), LiquidityForAmount1(a, s, y)})

ValuePosition(bins, s) ==
  LET Of(k) == AmountsForLiquidity(s, bins[k].lower, bins[k].upper, bins[k].liquidity)
  IN [amount0 |-> SumFunction([k \in DOMAIN bins |-> Of(k).amount0]),
      amount1 |-> SumFunction([k \in DOMAIN bins |-> Of(k).amount1])]

(* What v4 charges for liquidity l in a range: the same, rounded up.       *)
ChargedForLiquidity(s, lower, upper, l) ==
  LET a == SqrtPrice[lower]
      b == SqrtPrice[upper]
      p == Max({a, Min({s, b})})
  IN [amount0 |-> Ceiling(l * Scale * (b - p), b * p), amount1 |-> Ceiling(l * (p - a), Scale)]

(* And for bins: it rounds each of them up.                                *)
CostPosition(bins, s) ==
  LET Of(k) == ChargedForLiquidity(s, bins[k].lower, bins[k].upper, bins[k].liquidity)
  IN [amount0 |-> SumFunction([k \in DOMAIN bins |-> Of(k).amount0]),
      amount1 |-> SumFunction([k \in DOMAIN bins |-> Of(k).amount1])]

-----------------------------------------------------------------------------
(* Geometry.                                                               *)

BinsForDepth(ticks, spacing) == IF ticks <= 0 THEN 0 ELSE Ceiling(ticks, spacing)

BucketOf(tick, spacing) == tick \div spacing

(* At least one bucket.                                                    *)
NotEmpty(lower, upper, up, spacing) ==
  IF upper > lower THEN [lower |-> lower, upper |-> upper]
  ELSE IF up = 0 THEN [lower |-> upper - spacing, upper |-> upper]
  ELSE [lower |-> lower, upper |-> lower + spacing]

(* The range of a simple position: outwards to the grid, a side of depth   *)
(* zero kept off the bucket of the price, within the ticks there are.      *)
(* below and above are the user's; a quote that sorts first swaps them.    *)
SimpleRange(tick, spacing, below, above, quoteIs0) ==
  LET down == IF quoteIs0 THEN above ELSE below
      up == IF quoteIs0 THEN below ELSE above
      bucket == BucketOf(tick, spacing) * spacing
      outLower == ((tick - down) \div spacing) * spacing
      outUpper == Ceiling(tick + up, spacing) * spacing
      least == Ceiling(Min(DOMAIN SqrtPrice), spacing) * spacing
      most == (Max(DOMAIN SqrtPrice) \div spacing) * spacing
      lower == Max({least, IF down = 0 THEN Max({outLower, bucket + spacing}) ELSE outLower})
      upper == Min({most, IF up = 0 THEN Min({outUpper, bucket}) ELSE outUpper})
  IN NotEmpty(lower, upper, up, spacing)

Weight(shape, n, k) ==
  CASE shape = "spot" -> 1
    [] shape = "curve" -> n - k + 1
    [] shape = "bidask" -> k

(* computePosition: n bins from the bucket of the price outwards, liquidity *)
(* in proportion to the weights and scaled to use the budget up.           *)
Ladder(side, spacing, tick, n, shape, total) ==
  LET bucket == BucketOf(tick, spacing)
      lower(k) == IF side = "bid" THEN (bucket - k) * spacing ELSE (bucket + k) * spacing
      Deposit(k, l) ==
        IF side = "bid"
        THEN AmountsForLiquidity(SqrtPrice[lower(k) + spacing], lower(k), lower(k) + spacing, l).amount1
        ELSE AmountsForLiquidity(SqrtPrice[lower(k)], lower(k), lower(k) + spacing, l).amount0
      denom == SumFunction([k \in 1 .. n |-> Weight(shape, n, k) * Deposit(k, LRef)])
  IN [k \in 1 .. n |->
        [lower |-> lower(k), upper |-> lower(k) + spacing,
         liquidity |-> IF denom = 0 THEN 0
                       ELSE (LRef * total * Weight(shape, n, k)) \div denom]]

(* Faulty: the ladders use the budgets up before the active bin is served. *)
ReserveNothing(s, lower, upper, inner) == [amount0 |-> 0, amount1 |-> 0]

(* What the active bin may need of each budget, taken at the innermost     *)
(* liquidity the whole budgets would give.                                 *)
Reserve(s, lower, upper, inner) == AmountsForLiquidity(s, lower, upper, inner)

Inner(wings) == Min({wings.bids[1].liquidity, wings.asks[1].liquidity})

(* Bids, then the active bin if it gets any liquidity, then asks.          *)
Joined(wings, fill, lower, upper) ==
  LET inner == IF fill THEN Inner(wings) ELSE 0
  IN wings.bids
       \o (IF inner > 0 THEN <<[lower |-> lower, upper |-> upper, liquidity |-> inner]>> ELSE <<>>)
       \o wings.asks

(* computeShape: the active bin is there when the price is inside its      *)
(* bucket and both sides are; both ladders then spare what it may need.    *)
ComputeShape(shape, spacing, tick, s, quoteIs0, nBid, nAsk, quote, base) ==
  LET lower == BucketOf(tick, spacing) * spacing
      upper == lower + spacing
      fill == SqrtPrice[lower] < s /\ s < SqrtPrice[upper] /\ nBid > 0 /\ nAsk > 0
      Wings(q, b) ==
        [bids |-> Ladder(IF quoteIs0 THEN "ask" ELSE "bid", spacing, tick, nBid, shape, q),
         asks |-> Ladder(IF quoteIs0 THEN "bid" ELSE "ask", spacing, tick, nAsk, shape, b)]
      Sparing(r) ==
        Wings(quote - (IF quoteIs0 THEN r.amount0 ELSE r.amount1),
              base - (IF quoteIs0 THEN r.amount1 ELSE r.amount0))
  IN Joined(IF fill THEN Sparing(Reserve(s, lower, upper, Inner(Wings(quote, base))))
            ELSE Wings(quote, base), fill, lower, upper)

-----------------------------------------------------------------------------
(* Plans, of requests that are resolved.                                   *)

NoPlan ==
  [error |-> TRUE, quoteIs0 |-> FALSE, spacing |-> 1, bins |-> <<>>, anchor |-> 0, sync |-> FALSE,
   route |-> None, wing |-> 0, base |-> 0, needsQuote |-> 0, needsBase |-> 0]

(* The pool is ours and off the market: the open slides it there first.    *)
NeedsSync(i) ==
  /\ i.caller = "web" /\ i.live /\ ~i.brought /\ i.market # None
  /\ (i.tick - i.market > StaleTicks \/ i.market - i.tick > StaleTicks)

AnchorOf(i) == IF ~i.live \/ NeedsSync(i) THEN i.market ELSE i.tick

PriceBandOk(reference, tick) == tick - reference <= BandTicks /\ reference - tick <= BandTicks

(* The deepest pool that is priced within the band.                        *)
FindSwapVenue(pools, reference) ==
  LET live == {p \in pools : p.liquidity > 0 /\ PriceBandOk(reference, p.tick)}
  IN IF live = {} THEN None
     ELSE CHOOSE p \in live : \A q \in live : p.liquidity >= q.liquidity

(* In the unlock when it can: not when the swap there has to move the pool. *)
Route(i) ==
  IF ~NeedsSync(i) /\ FindSwapVenue(i.pools, AnchorOf(i)) # None THEN "v4"
  ELSE IF i.router # None THEN "router" ELSE None

VenueOf(i) == IF Route(i) = "v4" THEN FindSwapVenue(i.pools, AnchorOf(i)) ELSE i.router

(* What the venue gives for quote after its fee, less 5 %.  Of the router  *)
(* only the result is truncated.                                           *)
WingOut(i, quote) ==
  LET s == SqrtPrice[VenueOf(i).tick]
      net == 100 - VenueOf(i).fee
      gives == IF i.quoteIs0 THEN quote * s * s ELSE quote * Scale * Scale
      takes == IF i.quoteIs0 THEN Scale * Scale ELSE s * s
  IN IF Route(i) = "v4" THEN ((((gives \div takes) * net) \div 100) * 95) \div 100
     ELSE (gives * net * 95) \div (takes * 10000)

(* The share of the base in what a simple range holds at price s.          *)
ShareOfBase(i, s, held) ==
  LET q == IF i.quoteIs0 THEN held.amount0 ELSE held.amount1
      b == IF i.quoteIs0 THEN (held.amount1 * Scale * Scale) \div (s * s)
           ELSE (held.amount0 * s * s) \div (Scale * Scale)
  IN IF q + b = 0 THEN 0 ELSE (i.quote * b) \div (q + b)

(* The quote that buys the ask side: the user's share in a shaped plan,    *)
(* the share of the base in a simple one.                                  *)
WingQuote(i) ==
  LET s == SqrtPrice[AnchorOf(i)]
      r == SimpleRange(AnchorOf(i), i.spacing, i.below, i.above, i.quoteIs0)
  IN IF i.mode = "both" THEN 0
     ELSE IF i.style = "shaped"
     THEN IF i.above > 0 THEN (i.quote * i.wingPct) \div 100 ELSE 0
     ELSE ShareOfBase(i, s, AmountsForLiquidity(s, r.lower, r.upper, LRef))

(* One bin over the whole range.                                           *)
SimpleBins(i, quote, base) ==
  LET r == SimpleRange(AnchorOf(i), i.spacing, i.below, i.above, i.quoteIs0)
      x == IF i.quoteIs0 THEN quote ELSE base
      y == IF i.quoteIs0 THEN base ELSE quote
  IN <<[lower |-> r.lower, upper |-> r.upper,
        liquidity |-> LiquidityForBoth(SqrtPrice[AnchorOf(i)], r.lower, r.upper, x, y)]>>

ShapedBins(i, quote, base) ==
  ComputeShape(i.shape, i.spacing, AnchorOf(i), SqrtPrice[AnchorOf(i)], i.quoteIs0,
               BinsForDepth(i.below, i.spacing), BinsForDepth(i.above, i.spacing),
               quote, base)

Bins(i, quote, base) ==
  IF i.style = "simple" THEN SimpleBins(i, quote, base) ELSE ShapedBins(i, quote, base)

(* The outermost edges of these bins, and the other ticks that are priced. *)
Edges(i) ==
  LET bucket == BucketOf(AnchorOf(i), i.spacing)
      down == BinsForDepth(IF i.quoteIs0 THEN i.above ELSE i.below, i.spacing)
      up == BinsForDepth(IF i.quoteIs0 THEN i.below ELSE i.above, i.spacing)
      r == SimpleRange(AnchorOf(i), i.spacing, i.below, i.above, i.quoteIs0)
  IN IF i.style = "simple" THEN {r.lower, r.upper}
     ELSE {(bucket - down) * i.spacing, (bucket + 1 + up) * i.spacing}

Priced(i) == {AnchorOf(i)} \cup {p.tick : p \in i.pools} \cup {p.tick : p \in {i.router} \ {None}}

TooWide(i) ==
  i.style = "shaped" /\ BinsForDepth(i.below, i.spacing) + BinsForDepth(i.above, i.spacing) > MaxBins

(* No plan, whatever the amounts: a verdict or a hook that blocks, no pool *)
(* and nothing to price a new one by, no range, too many bins.             *)
Refused(i) ==
  \/ i.blocked
  \/ ~i.live /\ (i.brought \/ i.market = None)
  \/ i.below + i.above = 0
  \/ TooWide(i)

(* Base that is bought is not there yet; the router leaves it in the wallet. *)
BuysWing(i) == i.mode = "zap" /\ (IF i.style = "simple" THEN WingQuote(i) > 0 ELSE i.above > 0)

WebTerms(i, wing, base, bins) ==
  IF \/ BuysWing(i) /\ (Route(i) = None \/ (Route(i) = "router" /\ base = 0))
     \/ bins = <<>>
     \/ \E k \in DOMAIN bins : bins[k].liquidity <= 0
  THEN NoPlan
  ELSE LET route == IF BuysWing(i) THEN Route(i) ELSE None
       IN [error |-> FALSE, quoteIs0 |-> i.quoteIs0, spacing |-> i.spacing, bins |-> bins,
           anchor |-> AnchorOf(i), sync |-> NeedsSync(i), route |-> route, wing |-> wing, base |-> base,
           needsQuote |-> Headroom(i.quote),
           needsBase |-> IF i.mode = "both" \/ route = "router" THEN Headroom(base) ELSE 0]

(* plan.ts of the web app: planOpen and planSimple.                        *)
WebPlan(i) ==
  LET wing == WingQuote(i)
      base == IF BuysWing(i) THEN WingOut(i, wing) ELSE i.base
  IN IF Refused(i) THEN NoPlan ELSE WebTerms(i, wing, base, Bins(i, i.quote - wing, base))

(* The SDK leaves out the bins without liquidity, and caps what is paid by *)
(* what the others need.                                                   *)
WithBin(filled, b) == IF b.liquidity > 0 THEN Append(filled, b) ELSE filled

SdkTerms(i, bins) ==
  LET needs == ValuePosition(bins, SqrtPrice[AnchorOf(i)])
  IN IF bins = <<>> THEN NoPlan
     ELSE [error |-> FALSE, quoteIs0 |-> i.quoteIs0, spacing |-> i.spacing, bins |-> bins,
           anchor |-> AnchorOf(i), sync |-> FALSE, route |-> None, wing |-> 0, base |-> i.base,
           needsQuote |-> Headroom(IF i.quoteIs0 THEN needs.amount0 ELSE needs.amount1),
           needsBase |-> Headroom(IF i.quoteIs0 THEN needs.amount1 ELSE needs.amount0)]

(* plan.ts of the SDK: planOpen and planSimpleOpen, which never swap.      *)
SdkPlan(i) ==
  IF \/ Refused(i)
     \/ i.style = "shaped" /\ ((i.below > 0 /\ i.quote = 0) \/ (i.above > 0 /\ i.base = 0))
  THEN NoPlan
  ELSE SdkTerms(i, FoldLeft(WithBin, <<>>, Bins(i, i.quote, i.base)))

=============================================================================
