------------------------------- MODULE Market -------------------------------
(***************************************************************************)
(* What a planner finds out before it places bins: which pool a request    *)
(* means and which side of it is the quote, whether a hook or a verdict    *)
(* forbids it, what the market says the token is worth, and where the base *)
(* can be bought.  plan.ts of the web app and of the SDK, hooks.ts,        *)
(* feeTiers.ts and the screen of the MCP server.                           *)
(*                                                                         *)
(* Prices are ticks, so that quotients of prices are differences; a price  *)
(* of zero is None.                                                        *)
(***************************************************************************)
EXTENDS Integers, Sequences, FiniteSetsExt

CONSTANTS
  DefaultSpacing,  \* defaultSpacingFor
  RouterRows,      \* how many listed pairs are probed for the router
  None

Currencies == {"WETH", "USDG", "NATIVE", "TOKEN", "OTHER"}

(* A hook is one of ours, or any by its permissions; no hook has none.     *)
Hook == [ours : BOOLEAN, flags : SUBSET {"addLiquidity", "removeLiquidity", "swap"}]
Standard == [ours |-> TRUE, flags |-> {"swap"}]
PoolKey == [hook : Hook, spacing : Nat \ {0}]

(* An initialised v4 pool of the pair: among the standard candidates or    *)
(* not, indexed or not.  Its fee, as every fee here, is in percent.        *)
Pool ==
  [key : PoolKey, tick : Int, liquidity : Nat, fee : 0 .. 100, seeded : BOOLEAN, indexed : BOOLEAN]

(* A pair that Dexscreener lists for the token, with the price of the      *)
(* token in its own quote and in dollars, and the fee it charges.          *)
Pair ==
  [quote : Currencies, venue : {"v4", "v3", "v2", "other"}, price : Int \cup {None},
   usd : Int \cup {None}, depth : Nat, fee : 0 .. 100]

(* A request, by the form or by an agent, and the world it is planned in.  *)
Ask ==
  [caller : {"web", "sdk"}, style : {"shaped", "simple"}, shape : {"spot", "curve", "bidask"},
   below : Nat, above : Nat, mode : {"both", "zap"}, quote : Nat, base : Nat, wingPct : 0 .. 100,
   choice : {"derive", "join", "create", "bring"}, key : PoolKey,
   sides : Currencies \X Currencies, asked : Currencies \cup {None}, init : Int \cup {None},
   pools : SUBSET Pool, logs : BOOLEAN, api : BOOLEAN,
   listed : SUBSET Pair, orientation : BOOLEAN, rate : Int \cup {None},
   verdicts : Seq({"ok", "block", None})]

Rails == {"WETH", "USDG"}

-----------------------------------------------------------------------------
(* Which side is the quote.                                                *)

(* Of a pool that is brought the dollar, then WETH; else the side that the *)
(* listing calls the quote, if the listing answers.                        *)
BroughtQuoteIs0(i) ==
  IF "USDG" \in {i.sides[1], i.sides[2]} THEN i.sides[1] = "USDG"
  ELSE IF "WETH" \in {i.sides[1], i.sides[2]} THEN i.sides[1] = "WETH"
  ELSE i.caller = "web" /\ i.orientation

QuoteIs0(i) ==
  IF i.choice = "bring" /\ (i.caller = "web" \/ i.asked = None) THEN BroughtQuoteIs0(i)
  ELSE i.sides[1] = IF i.asked = None THEN "WETH" ELSE i.asked

QuoteSide(i) == i.sides[IF QuoteIs0(i) THEN 1 ELSE 2]

(* The id of a pool is looked up in the logs of the chain.                 *)
Unresolved(i) ==
  i.choice = "bring" /\ \/ ~i.logs
                        \/ i.caller = "web" /\ "NATIVE" \in {i.sides[1], i.sides[2]}
                        \/ i.caller = "sdk" /\ i.asked \notin {None, i.sides[1], i.sides[2]}

-----------------------------------------------------------------------------
(* Which pool.                                                             *)

Deepest(pools) ==
  IF pools = {} THEN None ELSE CHOOSE p \in pools : \A q \in pools : p.liquidity >= q.liquidity

(* Every initialised pool of the pair, if the logs can be read.            *)
DiscoverV4Pools(i) == IF i.logs THEN i.pools ELSE {}

DiscoverFriarPools(i) == {p \in DiscoverV4Pools(i) : p.key.hook.ours /\ p.liquidity > 0}

(* The brought one, the selector's choice, or the standard one; unless     *)
(* that is not live and the pair has another of ours, which the web app    *)
(* joins rather than split the depth.                                      *)
KeyOf(i) ==
  LET key == IF i.choice = "derive" THEN [hook |-> Standard, spacing |-> DefaultSpacing[QuoteSide(i)]]
             ELSE i.key
      live == \E p \in i.pools : p.key = key
      other == Deepest(DiscoverFriarPools(i))
  IN IF i.caller = "web" /\ i.choice = "derive" /\ ~live /\ other # None THEN other.key ELSE key

PoolOf(i) ==
  LET at == {p \in i.pools : p.key = KeyOf(i)} IN IF at = {} THEN None ELSE CHOOSE p \in at : TRUE

-----------------------------------------------------------------------------
(* Whether it may be opened in.                                            *)

(* A hook that runs when liquidity is removed could keep it.               *)
ClassifyHook(hook) ==
  IF hook.ours THEN "ok"
  ELSE IF "removeLiquidity" \in hook.flags THEN "block"
  ELSE IF "addLiquidity" \in hook.flags THEN "warn"
  ELSE "ok"

(* The verdict on a token, None while the API does not answer: which lets  *)
(* it pass.                                                                *)
FetchTokenSafety(i, side) == IF i.api THEN i.verdicts[side] ELSE None

(* The base is screened always, the quote if it is no rail; an agent's     *)
(* brought pool on both sides.                                             *)
Screened(i) ==
  {IF QuoteIs0(i) THEN 2 ELSE 1}
    \cup (IF (i.caller = "web" /\ QuoteSide(i) \notin Rails) \/ (i.caller = "sdk" /\ i.choice = "bring")
          THEN {1, 2} ELSE {})

Blocked(i) ==
  \/ Unresolved(i)
  \/ i.choice = "bring" /\ ClassifyHook(i.key.hook) = "block"
  \/ \E side \in Screened(i) : FetchTokenSafety(i, side) = "block"

-----------------------------------------------------------------------------
(* What it is worth, and where it is sold.                                 *)

Top(pairs, n) == {p \in pairs : Cardinality({q \in pairs : q.depth > p.depth}) < n}
First(pairs) == CHOOSE p \in pairs : \A q \in pairs : p.depth >= q.depth

OfPool(i, price) == IF QuoteIs0(i) THEN -price ELSE price

(* Faulty: the deepest pair's own price, whatever it is quoted in.         *)
ReferenceInAnyUnit(i) ==
  IF i.listed = {} \/ First(i.listed).price = None THEN None ELSE OfPool(i, First(i.listed).price)

(* In WETH the price of the deepest pair against WETH or ether, else that  *)
(* of the deepest pair in dollars over the rate; in any other quote the    *)
(* price in dollars.                                                       *)
ReferenceTick(i) ==
  LET ether == {p \in i.listed : p.quote \in {"WETH", "NATIVE"}}
      usd == First(i.listed).usd
      price == IF QuoteSide(i) # "WETH" THEN usd
               ELSE IF ether # {} THEN First(ether).price
               ELSE IF i.rate = None \/ ~i.api \/ usd = None THEN None
               ELSE usd - i.rate
  IN IF i.listed = {} THEN None ELSE IF price = None THEN None ELSE OfPool(i, price)

(* The tick and the fee of the deepest listed pair in the quote that the   *)
(* router can trade: one that a v3 or v2 factory made.                     *)
FindRouterPool(i) ==
  LET priced == {p \in i.listed : p.price # None /\ p.quote = QuoteSide(i)}
      routed == {p \in Top(priced, RouterRows) : p.venue \in {"v3", "v2"}}
  IN IF routed = {} THEN None
     ELSE [tick |-> OfPool(i, First(routed).price), fee |-> First(routed).fee]

(* Pools a swap inside the open may use: the standard candidates, those    *)
(* the API knows, and those in the logs.                                   *)
Venues(i) == {p \in i.pools : p.seeded \/ (i.api /\ p.indexed)} \cup DiscoverV4Pools(i)

(* All that the planner goes by.                                           *)
Resolve(i) ==
  LET pool == PoolOf(i)
      rail == QuoteSide(i) \in Rails
  IN [caller |-> i.caller, style |-> i.style, shape |-> i.shape, below |-> i.below,
      above |-> i.above, mode |-> i.mode, quote |-> i.quote, base |-> i.base,
      wingPct |-> i.wingPct, quoteIs0 |-> QuoteIs0(i), spacing |-> KeyOf(i).spacing,
      live |-> pool # None, brought |-> i.choice = "bring",
      tick |-> IF pool = None THEN 0 ELSE pool.tick,
      market |-> IF i.caller = "sdk" THEN i.init
                 ELSE IF pool = None \/ rail THEN ReferenceTick(i) ELSE None,
      pools |-> Venues(i), router |-> FindRouterPool(i), blocked |-> Blocked(i)]

=============================================================================
