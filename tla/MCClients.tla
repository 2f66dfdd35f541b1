----------------------------- MODULE MCClients -----------------------------
(***************************************************************************)
(* Prices, requests and positions for Clients.tla.                         *)
(***************************************************************************)
EXTENDS Clients

(* Ten percent of square root per tick, over a Scale of 64.                *)
MCSqrtPrice ==
  [t \in -8 .. 8 |->
     <<30, 33, 36, 40, 44, 48, 53, 58, 64, 70, 77, 85, 94, 103, 113, 125, 137>>[t + 9]]

MCDefaultSpacing == [s \in Currencies |-> IF s = "USDG" THEN 1 ELSE 2]

Bare == [ours |-> FALSE, flags |-> {}]

Own(tick, spacing, liquidity) ==
  [tick |-> tick, liquidity |-> liquidity, key |-> [spacing |-> spacing, hook |-> Standard],
   seeded |-> TRUE, indexed |-> TRUE, fee |-> 0]

(* A token that is worth a given tick in dollars, where ether is worth 2.  *)
PairOf(quote, venue, usd, depth) ==
  [fee |-> IF venue = "v3" THEN 5 ELSE 0, quote |-> quote, venue |-> venue, usd |-> usd, depth |-> depth,
   price |-> CASE quote \in {"WETH", "NATIVE"} -> usd - 2
               [] quote = "USDG" -> usd
               [] OTHER -> usd - 5]

Plain ==
  [caller |-> "web", style |-> "shaped", shape |-> "spot", below |-> 2, above |-> 2,
   mode |-> "both", quote |-> 40, base |-> 40, wingPct |-> 30, choice |-> "join",
   key |-> [hook |-> Standard, spacing |-> 2], sides |-> <<"TOKEN", "WETH">>, asked |-> "WETH",
   init |-> None, pools |-> {Own(1, 2, 1)}, logs |-> TRUE, api |-> TRUE,
   listed |-> {PairOf("WETH", "v3", 3, 1)}, orientation |-> FALSE, rate |-> 2,
   verdicts |-> <<"ok", "ok">>]

(* A live pool at the market, with the token sorted first or second.       *)
At(i, tick, spacing, quoteIs0) ==
  [i EXCEPT !.pools = {Own(tick, spacing, 1)}, !.key.spacing = spacing,
            !.sides = IF quoteIs0 THEN <<"WETH", "TOKEN">> ELSE <<"TOKEN", "WETH">>,
            !.listed = {PairOf("WETH", "v3", 2 + (IF quoteIs0 THEN -tick ELSE tick), 1)}]

(* Every geometry.                                                         *)
Shaped ==
  {At([Plain EXCEPT !.caller = c, !.shape = s, !.below = d, !.above = u, !.mode = m], t, g, o) :
     c \in {"web", "sdk"}, s \in {"spot", "curve", "bidask"}, d \in {0, 2, 3}, u \in {0, 2},
     o \in BOOLEAN, g \in {1, 2}, t \in {0, 1}, m \in {"both", "zap"}}

Simple ==
  {At([Plain EXCEPT !.caller = c, !.style = "simple", !.below = d, !.above = u, !.mode = m], t, g, o) :
     c \in {"web", "sdk"}, d \in {0, 1, 3}, u \in {0, 2}, o \in BOOLEAN, g \in {2, 3},
     t \in {-1, 0, 1}, m \in {"both", "zap"}}

Zap == [Plain EXCEPT !.mode = "zap"]

(* The deepest v4 pool is off the market, only the logs know it, and its   *)
(* hook runs when liquidity leaves; a tier; one of ours that is stale.     *)
Deep ==
  [key |-> [hook |-> [ours |-> FALSE, flags |-> {"removeLiquidity"}], spacing |-> 2], tick |-> 4,
   liquidity |-> 3, seeded |-> FALSE, indexed |-> FALSE, fee |-> 30]
Shallow ==
  [key |-> [hook |-> Bare, spacing |-> 1], tick |-> 0, liquidity |-> 1, seeded |-> TRUE, indexed |-> FALSE,
   fee |-> 40]
Stale ==
  [key |-> [hook |-> [ours |-> TRUE, flags |-> {}], spacing |-> 1], tick |-> -2, liquidity |-> 2,
   seeded |-> FALSE, indexed |-> TRUE, fee |-> 3]

(* Which pools there are, and which of them are found.                     *)
Pools ==
  {[Zap EXCEPT !.style = y, !.choice = h, !.pools = p, !.logs = l, !.api = a, !.sides = s] :
     y \in {"shaped", "simple"}, h \in {"derive", "join", "create"},
     p \in SUBSET {Deep, Shallow, Stale, Own(-3, 2, 0)}, l \in BOOLEAN, a \in BOOLEAN,
     s \in {<<"TOKEN", "WETH">>, <<"WETH", "TOKEN">>}}

(* What the listing says, of a token worth 1 in dollars.                   *)
OnMarket ==
  {[Zap EXCEPT !.style = y, !.choice = "derive", !.pools = p, !.api = a, !.rate = r,
               !.sides = s, !.asked = IF "USDG" \in {s[1], s[2]} THEN "USDG" ELSE "WETH",
               !.listed = k] :
     y \in {"shaped", "simple"}, p \in {{}, {Own(1, 2, 1)}, {Own(1, 1, 1)}}, a \in BOOLEAN,
     r \in {2, None}, s \in {<<"TOKEN", "WETH">>, <<"WETH", "TOKEN">>, <<"USDG", "TOKEN">>},
     k \in SUBSET {PairOf("OTHER", "v3", 1, 3), PairOf("NATIVE", "v4", 1, 2), PairOf("WETH", "v2", 1, 1)}
            \cup {{[PairOf("WETH", "v3", 1, 2) EXCEPT !.price = None], PairOf("USDG", "v3", 1, 1)}}}

(* What is brought, and what the verdicts on it are.                       *)
Brought ==
  {[Zap EXCEPT !.caller = c, !.choice = h, !.key = p.key, !.pools = {p}, !.mode = "both",
               !.sides = s, !.asked = IF c = "web" /\ h = "create" THEN "WETH" ELSE None,
               !.verdicts = v, !.api = a, !.logs = l, !.orientation = o, !.init = -2] :
     c \in {"web", "sdk"}, h \in {"create", "bring"}, p \in {Deep, Shallow},
     s \in {<<"TOKEN", "WETH">>, <<"OTHER", "TOKEN">>, <<"TOKEN", "USDG">>, <<"NATIVE", "TOKEN">>},
     v \in {<<"ok", "ok">>, <<"block", "ok">>, <<None, "block">>},
     a \in BOOLEAN, l \in BOOLEAN, o \in BOOLEAN}

(* A new pool, at the price that the agent says.                           *)
New == {[Plain EXCEPT !.caller = "sdk", !.choice = "derive", !.pools = {}, !.init = n] : n \in {None, -2}}

(* A form of quote alone, and one that zaps into an empty pool.            *)
Single == [Plain EXCEPT !.above = 0, !.base = 0]
Empty == [Zap EXCEPT !.pools = {Own(1, 2, 0)}, !.quote = 36]

(* Requests without room: too little money for every bin, and a range that *)
(* runs into the last tick.                                                *)
Cramped ==
  {[Single EXCEPT !.caller = c, !.shape = s, !.below = 8, !.quote = q] :
     c \in {"web", "sdk"}, s \in {"spot", "curve", "bidask"}, q \in {1, 2}}
    \cup {[At([Single EXCEPT !.style = "simple", !.below = 3], -6, 2, FALSE) EXCEPT !.caller = c] :
             c \in {"web", "sdk"}}

MCForms == {Single, Empty, [Single EXCEPT !.caller = "sdk"]}

MCRequests ==
  Shaped \cup Simple \cup Pools \cup OnMarket
    \cup {i \in Brought : i.choice = "create" => "WETH" \in {i.sides[1], i.sides[2]}}
    \cup New \cup Cramped \cup MCForms

(* What OpensOnce needs.                                                   *)
ASSUME MCFormsAlike == FormsAlike

MCWallets == {[native |-> 60, quote |-> 90, base |-> 1], [native |-> 60, quote |-> 20, base |-> 0]}

(* A position on the oldest manager, and one on the one that takes opens.  *)
MCPositions ==
  {[manager |-> m, bins |-> <<[lower |-> -2, upper |-> 0, liquidity |-> 9000],
                              [lower |-> 0, upper |-> 2, liquidity |-> 6000]>>] : m \in {"v1", "v3"}}

MCManagers == <<"v1", "v2", "v3">>
MCPurse == [c \in Slots |-> 2500]

MCMaxTrouble == [open |-> 1, position |-> 2, agent |-> 2, gone |-> 0]
-----------------------------------------------------------------------------
(* For Board.tla: a pool of ours among the deepest, a contract that answers *)
(* fee(), a stock that the token trades against.                           *)
MCVenueAt ==
  LET Of(quote, kind, fee, ours) ==
        [quote |-> quote, kind |-> kind, fee |-> fee, ours |-> ours, priced |-> TRUE]
  IN [ownv4 |-> Of("WETH", "v4", 0, "tier"), native |-> Of("NATIVE", "v4", 8, None),
      clone |-> Of("USDG", "unknown", 20, None), stock |-> Of("STOCK", "v3", 10, None)]

MCListings ==
  {<<>>, <<"stock">>, <<"clone", "native">>, <<"ownv4", "stock", "native">>}

MCOwnAt ==
  [tier |-> [tier |-> TRUE, rail |-> "WETH", fee |-> 3],
   first |-> [tier |-> FALSE, rail |-> "WETH", fee |-> 5],
   dollar |-> [tier |-> TRUE, rail |-> "USDG", fee |-> 9]]

-----------------------------------------------------------------------------
(* For Visit.tla: every link with clicks and a wallet, the landing with    *)
(* what it sends, and what the API takes in.                               *)
Budget(click, wallet, error, request, tick) ==
  [click |-> click, wallet |-> wallet, error |-> error, request |-> request, tick |-> tick]

Link(path, status) == [path |-> path, param |-> NoOne, storage |-> TRUE, status |-> status]

MCVisits ==
  {[start |-> s, budget |-> Budget(2, 2, 0, 0, 0)] : s \in Start}
    \cup {[start |-> Link("/", "reconnecting"), budget |-> b] :
             b \in {Budget(0, 3, 0, 2, 0), Budget(0, 2, 0, 3, 0)}}
    \cup {[start |-> Link("/access", "reconnecting"), budget |-> Budget(1, 2, 0, 2, 0)]}
    \cup {[start |-> Link("/tokens", "none"), budget |-> b] :
             b \in {Budget(0, 0, 2, 3, 0), Budget(0, 0, 3, 2, 1), Budget(0, 0, 0, 0, 0)}}
=============================================================================
