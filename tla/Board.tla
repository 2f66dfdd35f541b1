-------------------------------- MODULE Board --------------------------------
(***************************************************************************)
(* What the board of tokens says of one token besides its numbers: the     *)
(* unit it trades in, the incumbent venue with its static fee, and the     *)
(* pool of ours to open in with the fee that one quotes.                   *)
(* packages/chain/src/market.ts, the incumbents of the indexer's scan      *)
(* (tokens.ts), and apps/api, which serves the rows of the scan and looks  *)
(* up on demand what the scan has not listed (worker.ts, friarpools.ts).   *)
(*                                                                         *)
(* TokenScan.tla is about which tokens are listed; here one is, or is not. *)
(***************************************************************************)
EXTENDS Market

CONSTANTS
  PairIds,        \* pairs that may be listed for the token
  VenueAt,        \* what is at each of them
  Listings,       \* sequences of venues, the deepest first
  OwnPools,       \* pools of ours with the token
  OwnAt,          \* their hook's generation, rail and base fee
  Floor,          \* friarFloorPips: the cheapest tier
  MostFee,        \* above it, what slot0 says is no static fee
  Probes,         \* how many rail pairs are asked for a fee
  MaxOpen,        \* bound: open positions in one of our pools
  MaxBoardTrouble \* bound: changes of the world and scans that go wrong

(* Only a pool of a factory of Uniswap's has a fee that can be believed;   *)
(* no such factory makes pools without one.  slot0 of a pool with a        *)
(* dynamic fee, as ours are, says zero; ours are pools of v4.              *)
Venue ==
  [quote : {"WETH", "NATIVE", "USDG", "STOCK", "OTHER"},
   kind : {"v4", "v3", "v2", "unknown"}, fee : Nat, ours : OwnPools \cup {None}, priced : BOOLEAN]

(* What a token may trade in: a rail, or a stock under its name.           *)
Names == {"", "STOCK"}
Units == {"WETH", "USDG", "STOCK"}

OwnPool == [tier : BOOLEAN, rail : {"WETH", "USDG"}, fee : Nat]

ASSUME BoardAssumption ==
  /\ VenueAt \in [PairIds -> Venue]
  /\ Listings \subseteq Seq(PairIds)
  /\ OwnAt \in [OwnPools -> OwnPool]
  /\ \A v \in PairIds :
       /\ VenueAt[v].ours # None => VenueAt[v].fee = 0
       /\ VenueAt[v].kind \in {"v3", "v2"} => VenueAt[v].fee > 0
  /\ {Floor, MostFee, Probes, MaxBoardTrouble} \subseteq Nat /\ MaxOpen \in Nat \ {0}
  /\ None \notin Nat \cup Units \cup Names \cup PairIds \cup OwnPools

VARIABLES
  listing,       \* Dexscreener: the pairs of the token
  stockName,     \* D1: the symbol of a stock's row, or None without a row
  ownOpen,       \* D1: of each pool of ours its open positions, None if it is not known
  boardRow,      \* D1: the row of the token, or None
  boardScan,     \* the scan under way, or None
  lookup,        \* the request for the token under way, or None
  answers,       \* the last answer to a request
  upToDate,      \* history: nothing has changed since the scan that wrote the row began
  boardTrouble

boardVars ==
  <<listing, stockName, ownOpen, boardRow, boardScan, lookup, answers, upToDate, boardTrouble>>

-----------------------------------------------------------------------------
(* The fold of the pairs, the same for the scan and for a lookup.          *)

(* A stock counts as a rail under its name; a blank one does not.          *)
RailOf(v, name) ==
  CASE VenueAt[v].quote \in {"WETH", "NATIVE"} -> "WETH"
    [] VenueAt[v].quote = "USDG" -> "USDG"
    [] VenueAt[v].quote = "STOCK" -> IF name = "" THEN None ELSE name
    [] OTHER -> None

(* aggregatePairs: the places of the pairs on a rail that have a price,    *)
(* of which the first is the deepest.                                      *)
RailPairs(pairs, name) ==
  {k \in DOMAIN pairs : RailOf(pairs[k], name) # None /\ VenueAt[pairs[k]].priced}

(* Faulty: a token without any rail trades in WETH.                        *)
RailOrWeth(pairs, name) ==
  LET rails == RailPairs(pairs, name)
  IN IF rails = {} THEN "WETH" ELSE RailOf(pairs[Min(rails)], name)

(* railFor: None rather than a default.                                    *)
RailFor(pairs, name) ==
  LET rails == RailPairs(pairs, name)
  IN IF rails = {} THEN None ELSE RailOf(pairs[Min(rails)], name)

(* The static fee a venue has, if it can be read and believed; None asks   *)
(* the next-deepest.                                                       *)
StaticFee(v, ids) ==
  CASE VenueAt[v].kind = "v4" ->
         IF VenueAt[v].ours \notin ids /\ VenueAt[v].fee \in 1 .. MostFee THEN VenueAt[v].fee ELSE None
    [] VenueAt[v].kind \in {"v3", "v2"} -> VenueAt[v].fee
    [] OTHER -> None

NoIncumbent == [pool |-> None, fee |-> None]

(* The chain is asked about no more than so many, and does not answer      *)
(* about the dark ones.                                                    *)
Answering(pairs, name, dark) ==
  {k \in RailPairs(pairs, name) :
     Cardinality({j \in RailPairs(pairs, name) : j <= k}) <= Probes /\ pairs[k] \notin dark}

(* Faulty: believes any contract that answers fee().                       *)
IncumbentOfAny(pairs, name, ids, dark) ==
  LET probed == {k \in Answering(pairs, name, dark) :
                   VenueAt[pairs[k]].kind = "unknown" \/ StaticFee(pairs[k], ids) # None}
  IN IF probed = {} THEN NoIncumbent
     ELSE [pool |-> pairs[Min(probed)], fee |-> VenueAt[pairs[Min(probed)]].fee]

(* resolveIncumbent: of the deepest rail pairs the first with a fee.       *)
ResolveIncumbent(pairs, name, ids, dark) ==
  LET probed == {k \in Answering(pairs, name, dark) : StaticFee(pairs[k], ids) # None}
  IN IF probed = {} THEN NoIncumbent
     ELSE [pool |-> pairs[Min(probed)], fee |-> StaticFee(pairs[Min(probed)], ids)]

-----------------------------------------------------------------------------
(* The pointer to a pool of ours.                                          *)

Known(open) == {p \in OwnPools : open[p] # None}

(* Live beats empty, a tier beats the first generation, then the more open *)
(* positions.                                                              *)
Score(open, p) == (IF open[p] > 0 THEN 2 ELSE 0) + (IF OwnAt[p].tier THEN 1 ELSE 0)

Better(open, p, q) ==
  \/ Score(open, p) > Score(open, q)
  \/ Score(open, p) = Score(open, q) /\ open[p] > open[q]

(* selectFriarPools, on one rail; of equals the first row, whichever it is.*)
Best(open, rail) ==
  LET on == {p \in Known(open) : OwnAt[p].rail = rail}
  IN IF on = {} THEN None ELSE CHOOSE p \in on : \A q \in on : ~Better(open, q, p)

(* enrichToken: the best on the token's own rail, else on the other one,   *)
(* else a new pool at the floor.                                           *)
EnrichToken(row, open) ==
  LET rail == IF row.quote = "USDG" THEN "USDG" ELSE "WETH"
      other == IF rail = "USDG" THEN "WETH" ELSE "USDG"
      pick == IF Best(open, rail) # None THEN Best(open, rail) ELSE Best(open, other)
      fee == IF pick = None THEN Floor ELSE OwnAt[pick].fee
  IN [quote |-> row.quote, incumbent |-> row.incumbent, pool |-> pick, fee |-> fee,
      undercuts |-> row.incumbent.fee # None /\ fee < row.incumbent.fee]

-----------------------------------------------------------------------------
Incumbent == [pool : PairIds \cup {None}, fee : Nat \cup {None}]
BoardRow == [quote : Units \cup {None}, incumbent : Incumbent]
BoardAnswer ==
  [quote : Units \cup {None}, incumbent : Incumbent, pool : OwnPools \cup {None}, fee : Nat,
   undercuts : BOOLEAN]
BoardScan ==
  [stage : {"resolve", "save"}, pairs : Seq(PairIds), name : Names, paired : BOOLEAN,
   registry : BOOLEAN, before : Incumbent, found : Incumbent, clean : BOOLEAN]

BoardTypeOK ==
  /\ listing \in Listings
  /\ stockName \in Names \cup {None}
  /\ ownOpen \in [OwnPools -> 0 .. MaxOpen \cup {None}]
  /\ boardRow \in BoardRow \cup {None}
  /\ boardScan \in BoardScan \cup {None}
  /\ lookup = None \/ lookup.row \in BoardRow \cup {None}
  /\ answers \in BoardAnswer \cup {None}
  /\ upToDate \in BOOLEAN
  /\ boardTrouble \in 0 .. MaxBoardTrouble

BoardInit ==
  /\ listing \in Listings
  /\ stockName = None
  /\ ownOpen = [p \in OwnPools |-> None]
  /\ boardRow = None
  /\ boardScan = None
  /\ lookup = None
  /\ answers = None
  /\ upToDate = FALSE
  /\ boardTrouble = 0

BoardTroubled ==
  /\ boardTrouble < MaxBoardTrouble
  /\ boardTrouble' = boardTrouble + 1

(* What was resolved before this is not the answer any more.               *)
Overtaken ==
  /\ upToDate' = FALSE
  /\ boardScan' = IF boardScan = None THEN None ELSE [boardScan EXCEPT !.clean = FALSE]

(* Pairs come, go and change places.                                       *)
Relist ==
  /\ BoardTroubled
  /\ listing' \in Listings \ {listing}
  /\ Overtaken
  /\ UNCHANGED <<stockName, ownOpen, boardRow, lookup, answers>>

(* The indexer records an open in a pool of ours, the first one with the   *)
(* pool, or a close.                                                       *)
OpenOwn(p) ==
  /\ ownOpen[p] \in {None} \cup 0 .. MaxOpen - 1
  /\ BoardTroubled
  /\ ownOpen' = [ownOpen EXCEPT ![p] = IF @ = None THEN 1 ELSE @ + 1]
  /\ UNCHANGED <<listing, stockName, boardRow, boardScan, lookup, answers, upToDate>>

CloseOwn(p) ==
  /\ ownOpen[p] \in 1 .. MaxOpen
  /\ BoardTroubled
  /\ ownOpen' = [ownOpen EXCEPT ![p] = @ - 1]
  /\ UNCHANGED <<listing, stockName, boardRow, boardScan, lookup, answers, upToDate>>

-----------------------------------------------------------------------------
(* A scan.                                                                 *)

(* It reads the rows, then registry and market answer.  Without the        *)
(* registry the stocks are those of the rows, and have no name.            *)
ScanReads(registry, paired) ==
  /\ boardScan = None
  /\ IF registry THEN UNCHANGED boardTrouble ELSE BoardTroubled
  /\ boardScan' =
       [stage |-> "resolve", pairs |-> listing, name |-> IF registry THEN "STOCK" ELSE "",
        paired |-> paired, registry |-> registry,
        before |-> IF boardRow = None THEN NoIncumbent ELSE boardRow.incumbent,
        found |-> NoIncumbent, clean |-> registry]
  /\ UNCHANGED <<listing, stockName, ownOpen, boardRow, lookup, answers, upToDate>>

(* The incumbent of the last row stays as long as its pool is listed on a  *)
(* rail; else it is resolved, or stays for want of calls.                  *)
ScanResolves(dark, capped) ==
  /\ boardScan # None
  /\ boardScan.stage = "resolve"
  /\ IF dark = {} /\ ~capped THEN UNCHANGED boardTrouble ELSE BoardTroubled
  /\ LET pairs == boardScan.pairs
         rails == RailPairs(pairs, boardScan.name)
         kept == (\E k \in rails : pairs[k] = boardScan.before.pool) \/ capped \/ rails = {}
     IN boardScan' =
          [boardScan EXCEPT !.stage = "save",
             !.found = IF kept THEN boardScan.before
                       ELSE ResolveIncumbent(pairs, boardScan.name, Known(ownOpen), dark),
             !.clean = @ /\ ~kept /\ dark = {}]
  /\ UNCHANGED <<listing, stockName, ownOpen, boardRow, lookup, answers, upToDate>>

(* The rows: the token's, unless it has no pair or is below the floors,    *)
(* and pruned, and the stock's, which an outage of the registry leaves     *)
(* blank if it has a pair.                                                 *)
ScanSaves(falls) ==
  /\ boardScan # None
  /\ boardScan.stage = "save"
  /\ boardRow' = IF falls \/ boardScan.pairs = <<>> THEN None
                 ELSE [quote |-> RailFor(boardScan.pairs, boardScan.name), incumbent |-> boardScan.found]
  /\ stockName' = IF boardScan.registry THEN "STOCK"
                  ELSE IF stockName # None /\ boardScan.paired THEN "" ELSE stockName
  /\ upToDate' = boardScan.clean
  /\ boardScan' = None
  /\ UNCHANGED <<listing, ownOpen, lookup, answers, boardTrouble>>

-----------------------------------------------------------------------------
(* The API.                                                                *)

(* GET /tokens, of this token.                                             *)
TokensPage == EnrichToken(boardRow, ownOpen)

(* Faulty: knows no stock.                                                 *)
LookupNoName == ""

(* What a lookup calls a stock: by its row, if there is one.               *)
LookupName == IF stockName = None THEN "" ELSE stockName

(* fetchTokenMarket and the row that is made of it.                        *)
LiveRow(ids, dark) ==
  [quote |-> RailFor(listing, LookupName),
   incumbent |-> ResolveIncumbent(listing, LookupName, ids, dark)]

(* GET /token/:address reads the row and our pools.                        *)
LookupReads ==
  /\ lookup = None
  /\ lookup' = [row |-> boardRow, open |-> ownOpen]
  /\ UNCHANGED <<listing, stockName, ownOpen, boardRow, boardScan, answers, upToDate, boardTrouble>>

(* It answers with the row, or with what the market and the chain say, or  *)
(* with nothing where there is no pair.                                    *)
LookupAnswers(dark) ==
  /\ lookup # None
  /\ IF dark = {} THEN UNCHANGED boardTrouble ELSE BoardTroubled
  /\ answers' =
       IF lookup.row # None THEN EnrichToken(lookup.row, lookup.open)
       ELSE IF listing = <<>> THEN None
       ELSE EnrichToken(LiveRow(Known(lookup.open), dark), lookup.open)
  /\ lookup' = None
  /\ UNCHANGED <<listing, stockName, ownOpen, boardRow, boardScan, upToDate>>

BoardNext ==
  \/ Relist
  \/ \E p \in OwnPools : OpenOwn(p) \/ CloseOwn(p)
  \/ \E registry, paired \in BOOLEAN : ScanReads(registry, paired)
  \/ \E dark \in SUBSET PairIds, capped \in BOOLEAN : ScanResolves(dark, capped)
  \/ \E falls \in BOOLEAN : ScanSaves(falls)
  \/ LookupReads
  \/ \E dark \in SUBSET PairIds : LookupAnswers(dark)

BoardSpec == BoardInit /\ [][BoardNext]_boardVars

-----------------------------------------------------------------------------
(* Properties.                                                             *)

(* "a Friar pool must never be reported as its own incumbent", "a spoofed  *)
(* fee() must not make us claim a false undercut": whatever the market     *)
(* listed, the chain left unanswered and the indexer had not recorded yet, *)
(* the incumbent of a row or an answer is another's venue that charges     *)
(* just that fee, and an undercut is claimed only of the fee of the very   *)
(* pool that the answer points to, or of a new one.                        *)
IncumbentIsReal ==
  LET Real(i) == i.pool # None => /\ VenueAt[i.pool].ours = None
                                  /\ VenueAt[i.pool].kind # "unknown"
                                  /\ i.fee = VenueAt[i.pool].fee /\ i.fee > 0
  IN /\ boardRow # None => Real(boardRow.incumbent)
     /\ answers # None =>
          /\ Real(answers.incumbent)
          /\ answers.undercuts =>
               (IF answers.pool = None THEN Floor ELSE OwnAt[answers.pool].fee) < answers.incumbent.fee

(* "Shared by the board and the single-token lookup so both answer         *)
(* identically for the same token": where a scan has seen what there is    *)
(* and nothing has changed since, a lookup that did not find the row would *)
(* say the same - the unit above all, of a token that trades against a     *)
(* stock too - and the pool it names is no empty one beside a live one of  *)
(* the same rail.                                                          *)
AnswersAgree ==
  /\ upToDate /\ boardRow # None =>
       EnrichToken(LiveRow(Known(ownOpen), {}), ownOpen) = TokensPage
  /\ boardRow # None =>
       LET pool == TokensPage.pool
       IN pool # None /\ ownOpen[pool] = 0 =>
            \A p \in Known(ownOpen) : OwnAt[p].rail = OwnAt[pool].rail => ownOpen[p] = 0
=============================================================================
