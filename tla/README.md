# Friar: a verification development

Friar is a liquidity-provision system on Uniswap v4: fee hooks that charge a
volatility-dependent fee, a position manager that opens and closes a position of up to
100 bins as one atomic unit, an indexer that turns the manager's events into positions,
candles and marks, and an API, an SDK and a web application that read them. The models
here are translated from the code; paths below are relative to the repository.

## 1. Inventory

| Component | State | Operations | Hard behaviour | What makes it correct | Modules |
|---|---|---|---|---|---|
| **Position manager, records** `contracts/src/FriarPositionManager.sol` | `_positions`, `_ownerIds`, `nextPositionId`; in v4 one position per bin | `open*`, `increase`, `decrease`, `close`, `collect`, `unlockCallback`, `_remove` | hooks and tokens run in the middle of a verb and may call back; anything may revert; swap-and-pop lists; v4 refuses pokes of empty bins | lists and records inverse to each other; record = v4; nothing stranded; ids never reused; every verb atomic | `PositionManager`, `PositionBook` |
| **Position manager, settlement** (same file, `CurrencySettler.sol`) | `treasury`, `pendingTreasury`, v4's `currencyDelta` | entry swap, fees, performance fee, exit zap, `_resolve`, bounds, treasury handover | hostile venues and hooks, tokens that under-deliver, handover in mid-verb, rounding | the owner's bounds hold; the treasury gets its share of the fees and nothing of the principal; events report what moved | `Settlement` |
| **Fee exemption registry** `FeeExemptionRegistry.sol` | exempt flags, admin | `setExempt*`, admin handover | the manager must survive a registry that fails | an exit is never blocked | a flag in `Settlement` |
| **Fee hooks** `Friar.sol`, `FriarV2.sol`, `FriarTier.sol`, `FriarMath.sol` | proposals per pool and registrant, frozen configs, volatility state | `setPoolConfig`, `afterInitialize`, `beforeSwap`, `previewFee` | front-running of the pool's creation, casts to 24 bits, time | a pool adopts its initialiser's proposal or the default and never changes; base fee ≤ fee ≤ 10%; the fee grows with the move and ends with it | `FriarMath`, `FriarV2` (v1 and the tiers not) |
| **Indexer, events** `apps/indexer/src/indexer.ts`, `worker.ts`, `schema.sql`; `scripts/repair-totals.mjs` | `cursor` and the alarm in Durable Object storage; `events`, `positions`, `position_bins` in D1; a page in memory | `alarm`/`poll`, `ingestTx`, `start`, `stop`; the operator's repair | awaits interleave polls and posts; two stores are not written together; reorganisations; replays; a repair beside a live indexer | no hole below the cursor; the log is the chain's; each event counted once; confirmed events get indexed; a repair restores the totals | `ChainIndexer`, `Repair` |
| **Indexer, candles** `indexer.ts`, `candles.ts` | `candles` in D1 | merge of a page, `backfill`; the API's aggregation | pages cut minutes; replays have no marker | a chart at any interval shows what was read | `Candles` |
| **Indexer, snapshots** `snapshots.ts` | `snapshots`, NAV rows | `runSnapshots` | two multicalls that see different blocks; positions that close meanwhile | no wrapped fees; NAV all or nothing | `Snapshots` |
| **Indexer, token scan** `tokens.ts` | `tokens`, `token_safety` | `runTokenScan`, on a cron and by hand | a scan of minutes over rows that change; registry, market and checkers that answer in part or not at all | no outage costs a row; every token is screened in turn; what fell goes | `TokenScan`, `Board` |
| **Indexer, RPC** `rpc.ts`, `decode.ts` | none | retries, decoding | – | – | not modelled: a retry is invisible, a failure is `Die` |
| **API** `apps/api/src` | caches, rate windows, `client_events`, `client_errors` | reads of D1, aggregation, lookups, collectors | overlapping reads of changing rows; limits that are counted before the insert | profit is what was earned; tiles and charts agree; board and lookup say the same | `Portfolio`, `Candles`, `Board`, `TokenScan`, `Visit` |
| **Core, chain, SDK** `packages/*` | none | shapes and bins, markets and references, safety of tokens, plans, transactions of a position | off-by-one in bin counts, rounding, orientation, quotes in several units, retired managers | a plan fits what it was asked for and sits at the market; what is built goes through | `BinPlan`, `Market`, `Agent`, `TokenScan` |
| **Web** `apps/web/src` | forms, steppers, the wallet's answers; the tab's view, session and funnel | plan and replan, open, close, sell; navigation; reports | answers out of order; a wallet call refused, lost or mined late after earlier ones were mined; redirects and reconnects in any order | the plan on the screen is the form's; one approval, one position; an exit reported done is done unless one of its own transactions reverted; a link shows the book it names | `WebFlow`, `Visit`, `Clients` |
| **MCP server** `apps/mcp/src/worker.ts` | none | tools that plan, open and manage a position | positions on managers of three generations, reads that fail | the owner always gets out | `Agent`, `WebFlow` |
| **Site and scripts** | none | the beacon; the repair of the totals; documents, deployment | – | – | `Visit`, `Repair`; the rest not |

How they interact: the manager calls v4's `unlock` and is called back; v4 runs pool hooks
and tokens in between. The manager's events are the only input of the indexer's log, which
the indexer reads by block range (`poll`) or by receipt (`ingestTx`, posted by the web
application). The indexer writes D1 and the API reads it. Marks come from reads of v4, not
from the log. The web application, the SDK and the MCP server plan with the same arithmetic
and sign against the same manager; the first two ask the API what is listed.
`PROJECT.json` lists every hazard found at its line.

## 2. Plan

| | Modules | State |
|---|---|---|
| A | `PositionManager`, refining `PositionBook`; proofs | done |
| B | `Settlement`; proofs | done |
| C | `ChainIndexer`, `Repair`; proofs. `Candles` with the charts the API makes of them; proofs (`TablesProofs`) | done |
| D | `FriarMath`, `FriarV2` (proposals, creation directly or through the manager, the fee over time); proofs | done; left: `Friar.sol` and `FriarTier.sol`, whose parameters are fixed in code |
| E | `Snapshots`: reads of fee growth and liquidity around touches of the position; marks of closing positions; proof | done; left: loose tokens |
| F | `Market`, `BinPlan`: what the market says a token is worth, and plans of both styles in the web app and the SDK | done |
| G | `TokenScan`; proofs (`TablesProofs`). `Board`: incumbents, rails and the lookup | done; left: the caps on the length of the board |
| H | `WebFlow` (forms, exits, steppers), `Agent` (MCP and SDK on any manager), `Visit` (the tab), composed in `Clients` | done; left: the pages that only show |
| I | `Portfolio`: profit, tiles and charts of an owner; proofs | done; left: wallets in the NAV, the share image |

Abstract specifications worth stating: the position book (done); for C, a ledger to which
each confirmed event is applied once in any order.
Modules to be proved about have no RECURSIVE operators, take their bounds as constants and
have one action per operation. Composition: `WebFlow` and `Agent` extend `BinPlan`, which
extends `Market`, as `Board` does; `Repair` extends `ChainIndexer`; `Clients` puts `WebFlow`,
`Agent`, `Board` and `Visit` side by side. A definition marked "Faulty" is a plausible bug:
no action uses it, and the property it belongs to fails when it takes the place of the
right one (`PROJECT.json`, "mutants").

## 3. The modules

### PositionManager and PositionBook

A verb is a transaction in stages. `Open`, `Increase`, `Decrease`, `Close`, `Collect` are
the part before `manager.unlock`: checks, effects on storage, the list of bins to modify.
`ModifyBin` is one turn of `unlockCallback`'s loop, `Finish` is what follows the unlock
(the event, `_remove`), and `Revert` may happen at any moment in between and restores what
`saved` holds. `Trade` is anybody's swap, which makes a bin owe fees; it happens between
transactions and between the bins of one. One verb is inside at a time because v4's unlock
is not reentrant. Lists count from 1.

`PositionBook` is the promise: ids are issued once in order, a position has one holder and
a fixed list of bins, liquidity changes only by whole verbs, and an empty position is gone.
The refinement mapping reads holders from the owner lists (not from the records, so that a
corrupt list would show), liquidity from v4, and, while a transaction is inside, everything
from the state it would revert to: a verb takes effect where it commits.

### Settlement

`unlockCallback` call by call: `SwapIn`, `ModifyBin`, `ChargePerf`, `TakePerf1/2`, `Zap`,
`Resolve1/2`, then `Exit` with v4's own check that all deltas are settled and the verb's
bounds. Each answer of v4 is any member of a set, hostile ones included. A transfer has two
sides: what the manager settles with v4 or has v4 send (`sent`), and what the owner's wallet gives
or gets (`flow`). A taxed token (the repository's own fee-on-transfer mock is one) delivers any part
of what it is asked to, in either direction, and its callback may settle something for the manager
(`Gifts`). `PerfFeeCharged` reads the treasury after the unlock (`named`); `handed` remembers whether
the role changed hands while the verb ran. `SetTreasury` and `AcceptTreasury` happen at any moment, also
between the two takes, and are undone by `Revert` if they did. `Ops`, `BinOutcomes` and
`SwapOutcomes` are constants, for which the proofs assume types only.

### ChainIndexer

`PollBegin` reads a page of confirmed blocks, `Look` asks D1 for the marker of one event,
`Load` for the totals of its position, `Commit` is the atomic batch, `Save` the cursor and
the next alarm. `IngestBegin` starts the same steps for one block. Every D1 read is a step
because Durable Objects let other calls run while one awaits an external service. `Die`
loses the page at any step, `Rewind` is `/start?from=`, `Reorganise` drops unconfirmed
blocks. A block holds one event, and everything that is summed per position is one total
that every event adds one to: an event counted twice or not at all is visible.

What browsers may do is a constant, because the code's promises depend on it:

* `overlap`: posts while a poll or another post is at work;
* `early`: posts a transaction on a position that D1 does not know yet;
* `unconfirmed`: posts a transaction that may still be reorganised away.

Nothing in the code prevents these, and the web app does post right at the receipt, beside
whatever poll is running. Totals and log are right without them (`indexer_careful`);
the cursor is right with all of them (`indexer_wild`); and `indexer_overlap` shows that with
`overlap` alone the totals are not. The theorems assume nothing of the habits: they say which
rows can be wrong, and which totals a careless post can spoil (section 5).

### Candles

A poll asks for the blocks behind the confirmations (`PollBegin`); a backfill starts anywhere and goes page by page
to the head it saw when it began, confirmed or not (`BackfillBegin`), up to its limit of pages. `GetLogs` reads what the chain has
by then, which `Reorganise` may have changed since and may change again; `Merge` reads the row of one minute and folds the
page's swaps into it; `Commit` writes all rows; `Lost` drops a page whose worker died. The history variables `reads` and `seen`
tell how often each swap reached D1 and at which prices, so that rows can be compared with what they should hold. Volumes are added like the
number of swaps, which stands for them; the price of a swap stands for its fee too, so that
there is something to average. `Aggregated` and `AverageFee` are the API's: a chart of any
interval, and the figures of a pool, from the rows as they are.

### FriarMath and FriarV2

`FriarMath` is the library, function by function, with its casts to 24 bits as remainders.
`FriarV2` is one pool. Anybody proposes configurations in their own name (`SetPoolConfig`) and
creates the pool by one of three ways: `Initialize` at v4, or `OpenNew` and
`OpenNewConfigured` of the manager, for which the hook sees the manager as the creator.
`Created` is what all three do inside: v4 refuses a second initialisation, `afterInitialize`
adopts and freezes. `OpenNewConfigured` is one transaction, so its three calls are
one action, whose last conjunct is the read-back of the frozen configuration. `hook`
says whether the pool's hook is FriarV2 or one of the same interface that ignores proposals.
`Swap` charges first and moves the price afterwards, as `beforeSwap` reads the price that the
swap finds; `Wait` is a second of the clock, counted up to the longest period since nothing
in the code tells later times apart. `FeeAt` stands for `previewFee` and for `beforeSwap`.

### Snapshots

A pass of `runSnapshots`, every await a step: `Begin` lists the open positions, `ReadPools` the
prices, and for each position `ReadBins` asks D1 for its bins, `ReadInside` and `ReadInfos` are
the two multicalls, answered in either order, and `Mark` or `SkipMark` ends it. `Batch` writes the
snapshots, `ReadLegs` the wallets, `WriteNavs` the values of the owners for whom nothing is
missing; `Die` ends the pass anywhere. In between come `Trade`s, the manager's `Verb`s, and
`Index`, which brings D1 up to date late or never. Fee growth is a remainder and starts about
to wrap. The history variables (`restless`, `before`, `accrued`, `owed`, `touched`) say what a
snapshot should have shown; no action reads them.

### Repair

`scripts/repair-totals.mjs` beside `ChainIndexer`: `ReadEvents`, `Diff`, `WriteTotals`, each one
call of D1 in a process of its own, with the indexer's steps between them (`Beside`). `repair`
is what the script has in memory. `repaired` remembers that no page was at work while it ran
and that it has been `Calm` since: one page at a time, every position D1 knows of known by its open,
nothing recorded that was reorganised away.

### TokenScan

`runTokenScan`, an action per await: `Fetch` (the board's list, the registry and the market; each may
fail whole or in part), `Screen` (both checkers, of which GoPlus is asked about `PerRun` tokens
only), `Mark` (verdicts), `Upsert`, `Prune`, `PruneStocks`. `Tick` is the cron, `Request` the
operator's `/scan-tokens`, `Die` a worker that ends anywhere, `ApiRead` and `ApiAnswer` the API's
own screening, which writes the same verdict table. Tokens are numbers in the order of their
volume. Ages stop counting when no window can tell them apart. The caps `MAX_MEMES` and
`MAX_STICKY` are left out.

### Market and BinPlan

Pure operators. `Market` is what a token is worth: the listed pairs, each priced in its own quote
(`aggregatePairs`, the token's reference against WETH, USDG or dollars), which pool of ours, of
v4 or of the logs is joined, and what the screen of its currencies says. `BinPlan` is the arithmetic of
`packages/core`, with the planners of the web app (`WebPlan`) and of the SDK (`SdkPlan`) on top: simple ranges, ladders in
three shapes, the reserve for the active bin, the wing bought in the same unlock with its venue and
price band, the router's wing, creation, synchronisation and the refusals in their order. Divisions truncate where
the code's bigints do. A square-root price is an integer over `Scale`, given for every tick; a
percentage of depth is the ticks it comes to. A request and the world it is planned in are one
snapshot: the caches (`v4PoolCache`, `safetyCache`) are "answers or not". A wing's swap returns what the
venue's price gives, less the venue's fee (a percentage), less the five percent the plan allows it to lose; of v4's
venue each step is truncated as the bigints are, of the router's only the result. `findSwapVenue` does not look at
fees, and a venue of a high one is among the requests. v4 rounds the amounts it charges up, bin by bin (`CostPosition`).

### WebFlow

One screen: the open form, a position, or a call of the SDK. The form: `Edit`s restart the debounce, replans are asked and
answered in any order or fail, the button signs whatever plan is on the screen (`plan` is its request,
`terms` what it came to). The exits: close, dust and sale, with
`seen` as the one snapshot the component was rendered with. Both hand a list of transactions to a
stepper, of which two may live (`Runs`): it asks the wallet, waits for the receipt, gives up on it, retries, is cancelled; the wallet refuses, loses
or batches (whether it can is chosen at each click), and the chain mines what was signed in
order, also long after the stepper gave up. Whatever calls a pool, its hook or a venue may revert when it is mined
(`MayRevert`), besides what reverts for want of balance or allowance or because the position is closed; a stepper takes
the receipt of a reverted transaction for success, as the code does, and a batch that reverted keeps it waiting. The router's standing allowance is granted
beforehand; the claim button and the app's table of old managers are left out (the latter is in
`Agent`, whose code does the same).

### Agent

`CallTool` is a tool of the MCP server, or the same method of the SDK's client. `Probe` asks the
managers for the position, newest first, each of which may fail to answer; `Build` makes the
transactions of the tool for the manager that has it, in the ABI of its generation (retired
managers take no pay caps); `Send` signs the next of them. What v4 charges for an increase is rounded up for
every bin (`Charge`), while the cap is made of truncated amounts and a headroom (`Worth`): the manager refuses where the
headroom is less than the rounding, which happens to increases of dust only (`Sizable`). `Elsewhere` is the owner in the web
app, or a swap. Fees and the optional `minReceive` floors are left out, and what `Build` reads of
the chain it reads in one step.

### Board

What a row of the board says of one token besides its numbers. `ScanReads`, `ScanResolves` and
`ScanSaves` are the scan's registry, incumbents and upsert; `LookupReads` and `LookupAnswers` the API's
`/token/:address` when the list has no row; `TokensPage` what it serves of the row. The market relists venues (`Relist`), positions open and close in
pools of ours, and any venue may leave its fee unanswered (`dark`). Volumes, prices and the caches
at the edge are left out.

### Visit

A tab: it opens at a link (`Start`), `Render` computes the view and runs the effects in
the order they are written, the wallet reconnects, connects and changes, clicks and links move on. The
funnel's events and the reports of errors are requests on a wire that keeps no order and loses
some; the API counts (`CountRows`) and then inserts (`InsertRow`). The checks for embedded wallets
are left out.

### Clients

The four side by side, one of them at work in a behaviour (`act`): they share no state but the
chain's and the database's, which each has its part of already.

### Portfolio

The chain mines verbs and trades, `Index` brings them to D1 in order, and `IngestOpened` is the eager post of an opening,
which writes a snapshot of its own: the bins at the price the pool has now, without fees, at the time of the block; a
post that is repeated writes it again. Passes mark the open positions and
write at the end (`BeginPass`, `MarkPosition` or `SkipPosition`, `EndPass`, `DieInPass`), and one
request reads a position in four awaits: `ReadRow`, `ReadSnapshot`, `ReadEvents`, `ReadSeries` or
`ReadCandles`. `SummaryOf`, `Realized`, `History`, `NavPoints` and `Tvl` are the API's
arithmetic. The base token trades at par all the time, so that what a position earns is its
fees; the price a pass finds is nevertheless par or that of a pool at a swap limit
(`ReferencePrice`), one choice per pass. The realized tiles are read at once; the wallet's part of the NAV and the share image are left out.

## 4. Runs

| Run | Shows | Bounds, and why they are enough |
|---|---|---|
| `positions` | lists and records stay inverse; record = v4; nothing stranded, no bin refused, fees all reported; the book is implemented (and with it, ids are not reused) | 3 ids, 2 accounts, 2 bins of up to 2, fees up to 1: a list with a first, a middle and a last entry, partial and uneven decreases, an empty bin beside a full one, trades between bins; the third id is issued to bins of one unit without trades (`LastIsPlain`): it is there for the lists |
| `settlement` | `WithinBounds`, `PaidExactly`, `ReportedAsPaid` | rates of 20% and 10%, answers chosen so that rounding bites, principal and fees come together, hooks keep fees and venues are hostile; one or two bins; taxed tokens on verbs of one bin without an entry swap, on both currencies at once |
| `indexer_careful` | `EventsReal`, `TotalsExact` | 5 blocks, 2 positions, pages of 2, 4 disturbances: a post of a block that a poll dies over, is rewound before, and reads again |
| `indexer_wild` | `CursorSafe`, `RepairExact`, `Indexed` | 3 blocks, 2 posts in flight with a poll and a repair, 3 disturbances (327 thousand states) |
| `indexer_overlap` | **violation** of `TotalsExact` | the smallest: one browser, one position |
| `candles` | `ChartAsRead`, for every interval | 5 blocks in minutes of 2, pages of 2 and backfills of up to 2 pages: minutes cut at each place, by polls and by backfills; 1 confirmation: a backfill reads one block that may be reorganised; 2 prices; 2 faults (1.05 million states) |
| `hook` | `LaunchedAsAsked`, `FurtherCostsMore`, `SurgeEnds` | 2 accounts; 5 proposals of which 2 are invalid, and the default; 5 ticks in 4 buckets; fees up to 20 pips, an accumulator of 5 bits, which a move across all buckets would overflow: proposals before and between creations, caps and clamps met separately and together |
| `snapshots` | `FeesAsOwed`, `NavComplete` | 1 owner with 2 positions of 2 bins, 3 trades or verbs, growth modulo 4: one position fails or ends while the other is marked; D1 behind by a whole verb; growth that wraps |
| `snapshots_touched` | **violation** of `FeesNeverWrap` | 1 position, 2 events: a trade and a collect |
| `token_scan` | `OutageKeepsBoard`, `ScreenedAgain`, `FallsOff` | 3 tokens (blocked by both checkers, steady, a stock), GoPlus asked about one per run, a scan of the cron and one by hand, 2 troubles (outages, deaths, scans by hand that may overlap, requests of the API): a scan that dies and the next one meeting an outage |
| `portfolio` | `PnlAsEarned`, `BookAddsUp` | 2 interchangeable positions, 3 verbs, a trade, 2 passes in a clock of 5 with buckets of 3: a position that closes between the reads of a request, a bucket of two passes of which one skips; D1 is at most one event behind, an answered request ends the behaviour, and the other position waits while a request is read, none of whose reads looks at it; behaviours in which an opening is posted are shorter (a clock of 4, one opening marked, one pass, not beside a request) (`Bounded`; 1.95 million states) |
| `clients` | every plan fits (`PlanFits`), `OpensOnce`, `ExitSells`, `PlanCatchesUp`; `BuiltGoesThrough`, `GetsOut`; `IncumbentIsReal`, `AnswersAgree`; `CountedOnce`, `IntakeBounded`, `BookKept` | see below |

`clients` (785 thousand states) starts from every request of `MCRequests`: all geometries in both orientations,
the pools there are and which of them are found, what is listed in which quote, what is brought and what its
verdict is. Prices move ten percent of square root per tick, so that a bin of two ticks has amounts that
rounding bites at. Only `Forms` are edited and signed; they are of about one size (`FormsAlike`, which TLC evaluates:
`OpensOnce` needs it), and what is asked for stays between the first tick and the last (`TicksAssumption`: beyond, the code's
`getSqrtPriceAtTick` throws). Bounds: one trouble (an edit, a
refusal, a loss, a timeout) on the open form and two on a position and for an agent; two steppers; a second click waits
until nothing is asked and the plan is the form's; one live replan at a time; the form is left
alone once no stepper is left; at most two exits look at a position, which no sale starts beside. The agent makes one
call at a time, has a patience of 3 for failed reads, refusals, changes of others and calls
other than a close, and its purse and allowances change by its own transactions only. `Board` has 4
venues (one of ours, one in ether, one that only looks like a pool, one against a stock), 4
listings, 3 pools of ours and 2 troubles. Each visit of `Visit` has a budget: any link with two
clicks and two changes of the wallet; the landing with up to three requests; the collectors
with caps of 1 and 2, a minute of one tick and a memory of one error. Requests beyond the budget
are lost, as any request may be.

`CHECK_DEADLOCK FALSE` stands where the bounds themselves let the system run dry: all ids
issued and closed, all blocks mined and indexed, all trades done, nobody left at a screen. Accounts are symmetric in `positions` and
`settlement` and positions in `portfolio`: no action names one.

**Fairness** is stated where a liveness property needs it. In `FriarV2`, `Wait` is weakly fair: time
passes; that swaps leave a filter period free now and then is a premise of `SurgeEnds`, not
fairness. In `ChainIndexer`, `PollBegin` is weakly fair because the platform fires an alarm that is set; `Look`, `Load`, `Commit` and
`Save` because a call in flight goes on or dies. Nothing is assumed of the chain, browsers
or the operator. The number of disturbances is bounded, so a poll that is retried dies only
finitely often, as an RPC that never answers again would make indexing impossible whatever
the code did. `Indexed` is excused when the operator has asked for a stop, or when a
reorganisation has taken the block's confirmations back. In `TokenScan`, `Tick` and the steps of a scan
are weakly fair: the cron fires and a scan goes on or dies; nothing is assumed of the checkers,
whose answers may stay away for ever. In `WebFlow`, the timers of the debounce and of the live
replan fire and what was asked is answered (weakly fair); that a replan is answered while the form keeps being
replanned is strong fairness, since each answer is taken back by the next change of the
form. In `Agent`, the agent keeps asking to close, the server answers and the chain mines what
is sent. `Board`, `Visit` and `Portfolio` state safety only.

## 5. Proofs

For every set of accounts, every number of bins and ids, all rates up to the cap, every set
of answers, any chain length, page size and number of confirmations, browsers and
disturbances; from the named assumptions on the constants only.

* **PositionManagerProofs**: `TypeOK`, `OwnerListsConsistent`, `RecordMatchesPool`,
  `NothingStranded`, `CallbackNeverRejected`. None of them is inductive: while a verb is inside,
  the record is ahead of v4. The invariant says so: at rest the snapshot is settled; in a
  transaction the state a revert restores is at rest, and the bins still to modify differ
  from v4 by exactly their delta (`MidCallback`).
  `IdsNeverReused` and the refinement `ImplementsBook` rest on it, step by step:
  verbs and `ModifyBin` stutter, `Finish` is `Open`, `Adjust`, `Exit` or a stutter of the book.
  `FeesReported`: inside a verb the bins have handed some fees to it that no event reports yet
  (`FeesAccounted`), before it none. Events of opens carry no fees; an open is
  handed none (`OpenEarnsNothing`), for the bins it still has to fund are empty in v4 and nobody trades
  through an empty bin. This is where a fee could be lost, and why the invariant needs `RecordMatchesPool`.
* **ContractsProofs**, about the two other models of contracts, each by itself. `Settlement`: the four properties. The
  invariant ties the manager's delta to what v4 credited minus the shares taken so far and what was sent so far
  (`Inside`); what a wallet gets or gives lies between nothing and that, and is all of it unless the token is taxed. `FriarV2`: `HookTypeOK`, `LaunchedAsAsked`, `FeeWithinBounds`, `FurtherCostsMore`, `QuietResets`, for
  every set of proposals, all ticks and all values of the constants that `MathAssumption` allows. The
  invariant adds that whatever may be adopted is valid and that nobody leaves a proposal in the
  name of the manager (`ManagerProposesNothing`), without which `openNew` would adopt a
  stranger's. `AccumulatedIs` and `FeeForIs` show that no cast ever wraps; `FeeForMonotone`
  that the fee grows with the accumulator.
* **ChainIndexerProofs**, for every habit of browsers: `TypeOK`, `CursorSafe`, and what is true of the log and of the totals
  when nobody is careful. A page a poll holds starts at most one after a
  recorded prefix, and every event it has passed is marked or in D1 (`PollSafe`); it holds final blocks only
  (`PageFinal`). `WrongRowsArePosted`: a row that the chain has confirmed keeps standing, no row is replaced, and one that does not stand was
  written by a post that read its transaction before it was final. `TotalsAreExact` is about one position at a time: its row
  is exact as long as it is `Undisturbed`: no page works beside one that has an event of it, none asks for its total before
  its open is recorded, and no event of it that is recorded has been reorganised away. What posts, polls, deaths and
  rewinds do to other positions does not matter, so that a careless post spoils the position it is about and no other.
  None of the three conditions can be dropped: the first is `indexer_overlap`, and the others are the habits `early`
  and `unconfirmed`. `TotalsAreExact` and `RepairIsExact` rest on one lemma, `TalliedStep`: let `After` be the log D1 would hold if the page
  at work were written now; the total it has in memory is that of this log, a total the page has not
  asked for is not touched by its batch, and the batch holds no event of D1 (`PageTallied`). A
  second open of the same position would break that; the chain has none (`ChainShape`). For a
  repair, what it wants is what the events say until somebody writes (`RepairOK`).
* **TablesProofs**, about the two tables of the indexer beside its ledger. `TokenScan`: `TypeOK` and
  `OutageKeepsBoard`, for all sets of tokens, stocks and scans and whatever the
  registry, the market and the checkers leave unanswered. The invariant follows a listed token
  that nobody blocks through the stages of a scan (`Holds`): what the scan remembers of the board, then what
  it is about to keep, contains the token, and before each of the two prunes its row has been refreshed. Beside it:
  verdicts of such a token are never "block", rows of stocks are of stocks, and scans that run at once know
  that they overlap. `Candles`: `CandlesTypeOK` and `ChartAsRead`, for all prices, confirmations, sizes and numbers of pages, lengths of a minute and reorganisations. A
  candle is related to counts of blocks (`Shows`: its number of swaps and its fees are sums over the counts, its extremes are
  met by prices seen at counted blocks and passed by none). Each row shows the counts that `reads` gives its minute (`RowsRight`), each
  row of a batch those there will be after the commit (`BatchRight`), which takes that
  nobody else is at work (`OneAtATime`): this is where an overlap loses swaps. As long as there was no fault
  the counts are one up to the cursor, or to the end of a page that is written but not saved, which lie behind the
  confirmations, so that what was read there is what the chain still has, and
  open and close are those of the first and the last counted block (`OnceInOrder`). `FoldOfRange` says what
  `foldCandles` makes of a range of any length; the library's fold is a function on sets
  of positions, so this is induction over finite sets again. `BucketSum` and `BucketEnds` carry
  rows over to buckets of any interval, and `Nearest` bounds the rounding of the average fee.
* **SnapshotsProofs**: `FeesAsOwed`. The two answers of an untouched position agree with each other
  in either order: once `infos` is there, liquidity and last growth are still the chain's, and once
  `insides` is, what is owed is what that growth makes of the position as it stands (`Answers`). A
  verb on another position changes neither; one on this position sets `touched`. `TypeCorrect` needs what each stage
  of a pass has left behind (`Stages`). `NavCompleteSafe` keeps two bounds while a pass marks (`Between`, for
  owners who do nothing and of whom nothing is skipped): what is marked so far is at most what the marked positions
  are worth at the higher share of the fees; and together with the wallet and what is left to mark, at the
  lower share, it is at least what the owner had in the beginning. Trades only raise both sides
  (`GrowthBounded`: nobody sleeps through a whole turn of the counter, which is `GrowthAssumption`; a
  position for which 2^256 wraps unseen would lose those fees), a position that ended is worth nothing
  (`EndedEmpty`), and the bins D1 named for the position at hand are all that hold liquidity (`AtHand`).
* **PortfolioProofs**: all three properties of the run, for any positions, deposits, fees, rates and buckets. The
  argument is a balance: at par, what a position holds, its unclaimed fees and all that its events paid out
  are what it earned (`Conserved`), whatever is traded or withdrawn. A mark freezes that sum as of some prefix
  of the log (`MarksTrue`); the eager mark of an opening is one as of the
  opening, which is the first event of its position and finds it without fees (`Opens`). What a request has read is the row of a prefix and the events of a longer one
  (`Asked`), and the snapshot is one of its position that knows a prefix too (`Snapped`; it may have been replaced in D1 since). `PnlAsEarned` follows because two prefixes
  with equally many events of a position have the same ones (`SamePrefix`), because a closed position holds
  nothing and does nothing any more (`ClosedRests`), and because where a price is missing the quote leg alone
  is never more (`FlowsPriced`, `SettledBalance`). For `BookAddsUp`, a value of the owner is the sum over
  the marks written with it (`NavsTrue`), all at par; no two passes have one time and none marks a position twice
  (`PassesApart`), nor does a verb have the time of a pass (`TimesApart`), so that an eager mark is never taken for one of a pass;
  and whom a complete pass leaves unmarked was closed or marked at its opening (`PassesComplete`): so the last marks of a bucket but for those that linger are the same for the history, the recorded value and the
  value of the pool (`WrittenIs`, `LingeringIs`), and three sums over positions are sums over these marks (`SumOfGroups`). That the price
  nearest in time always is one of the series (`PriceAtIs`) is all that is used of it. For the
  proofs the model's sums were written with the library's `SumFunction`, and constants got the types the code gives them.
* **Sums**: what the community modules' `SumFunctionOnSet` and `Min`/`Max` of a finite set are, by induction over the
  set (`FS_StrictSubsetOrderingWellFounded` and `WFMin`: the smallest counterexample): the sum exists, is
  typed, splits, is bounded by its parts, moves with its terms, adds up term by term (`SumPlus`) and group
  by group (`SumByGroup`, `SumOfGroups`).
* **ClientsProofs**: theorems of `ClientsSpec`, whose steps are steps of one of the four parts (`ClientsSteps`).
  `IncumbentsAreReal`: what a scan is about to write is as real as a row (`BoardReal`), because both resolve
  the same way and a kept incumbent is one still listed. `AnswersDoAgree`: while `upToDate` holds, the row
  is what the scan's own reads make of the listing as it is now, and `LiveRow` makes the same of it
  (`BoardAgrees`). `TabsCountOnce`: a wallet, a page and an error that a request speaks of are in the
  tab's memory as long as another like it could be sent (`VisitCounted`). `IntakeIsBounded`: rows of the last
  minute, taken with the requests that were counted before them, never exceed what `atOnce` remembers
  (`VisitBounded`); the sum is over finite sets, of `Sums`. `BooksAreKept`: the key
  in storage holds what was asked for also while the view is stale, and a visitor whose wallet may yet come
  back is still where he came to (`VisitKept`). One of the definitions was corrected by the attempt: the
  arms of `StickyView`'s `CASE` overlapped. `ExitsSell`: on the screen of a position (`Exiting`) the tries of a
  stepper increase along the mempool, once the try it waits for is mined none of its transactions is pending,
  an approval or a swap that is pending carries the whole balance, and a closed position gives no base
  again, so what a confirmed step did stays done (`OnTheWay`). All of this but the order of the tries is
  claimed of a stepper none of whose own transactions was refused (`Unrefused`); what others were refused
  changes nothing, since each approval covers the whole balance (`Covered`, `Selling`). Elsewhere every stepper ends with an open
  (`Opening`), of which the property says nothing. `BuiltIsAccepted` (`AgentInv`): while nobody else
  acts, what the server found is what is held; the last transaction that waits suits it, those before it are
  approvals of what it may pull, to the manager that pulls it, and each that is sent leaves the rest as
  ready (`Ready`); a cap with headroom covers what v4 charges, which is at most one unit per bin more than
  what the bins are worth, whatever the prices (`ChargedIs`, `ChargeIs`), once the increase is so large that a percent is
  that much (`Sizable`). Stale transactions still speak of as many bins as the position has (`AllMeant`), or types
  would not hold. The attempt gave `Agent` two corrections: the price stays on the ticks there are, and
  growing a position in the web app is the contract's own increase (`Grown`). `PlansAtMarket` is the part of `PlanFits`
  that takes no arithmetic of amounts (`AtMarket`): terms on the screen are those of the request
  they are shown for (`Planned`), and the reference the planner looks up is where the pairs say the market is. It
  assumes that a listing is finite, and it corrected `Honest`: the pairs must know a price in dollars.
  `ClientsTyped` says that every plan is one: whatever is asked for, bins lie on ticks that exist and hold liquidity
  (`PlanStated`, from what a ladder, a joined shape and a simple range lay between which ticks: `LadderLays`, `JoinedIs`,
  `SimpleRangeIs`; the SDK's filter is a fold, and `FoldKeeps` says what every fold keeps). On top of it the web part's
  invariant `WebSound` has a shape for each stepper (no step after its last) and for the chain (nothing below zero).
  `OpensAreOnce` adds `Spare` to it: while what is left of the approvals could still pay for a position of some form, one
  approval more has been given than positions were opened, and the allowance is never more than one form approves.
  It is not inductive without `FormsAlike`, and the property is false without it: the attempt found
  the behaviour in which a hidden stepper's large approval is signed last and pays for two openings of a smaller form,
  one given up on and one retried. With forms of 40 and 30 and three troubles TLC finds it too.
  `PlansAreWhole` is the rest of `PlanFits` that says where bins are (`OnGrid`, `Reaches`). A bin takes one bucket
  (`BinOn`), and which buckets a shape takes is counted from its anchor: no two rungs of the two ladders and of the bin
  between them are the same (`RungsApart`, `ShapedBinsLie`), and depths rounded up to whole bins reach what was asked
  (`LaidReaches`); the SDK's filter drops a bin without liquidity and no other (`FilteredKept`); a simple range is one bin
  whose edges are rounded outwards (`SimpleRangeLies`). That bins are on the grid and apart holds of every plan. That
  they reach both depths is stated for a request with room for it (`Roomy`): none of the SDK's bins came to no
  liquidity and was left out, and no simple range was clamped at the last ticks. Of the requests of the
  `clients` run 1,952 give a plan, most of them with room and some without.

The type invariants of these modules, `IdsNeverReused`, `ExitNeverCharges`, `FeeWithinBounds` and
`QuietResets` are proved and not repeated by a run, except where the run has one to spare.

Model-checked only: `Indexed`, `SurgeEnds`, `ScreenedAgain`, `FallsOff`, `PlanCatchesUp` and `GetsOut`
(liveness is out of the prover's reach), and of `PlanFits` the two parts that depend on truncated numbers: `WithinBudget`
(the divisor of a ladder is a sum of amounts rounded down, so that for a small enough `LRef` a plan does take a little more than its
budget: what holds is a matter of sizes, not of the formula) and `FairWing` (how many percent are how many ticks).

## 6. What the violations show

* **A post that overlaps a poll can lose amounts.** `ingestTx` is called "Idempotent vs the
  cursor pass (events PK dedupes)" (`apps/indexer/src/indexer.ts:505`). The marker is read long
  before the batch that writes it. In the trace a browser posts the transaction that opened a
  position; before its batch is written, a poll writes a page with the open and a later
  change; the post's `INSERT OR REPLACE` then sets the totals back to zero. The change has
  its marker and is never applied again.
* **A verb between the two multicalls of a mark wraps its fees.** "Chain liquidity is 0 there, so
  the bin marks to zero" (`apps/indexer/src/snapshots.ts:179`) is true of a full close. After a
  collect, an increase or a partial decrease the liquidity is not zero, and the growth that was
  read before it is behind the position's last one: the difference wraps to nearly 2^256. A block
  number passed to both calls would rule it out; `FeesAsOwed` is what holds without it.

## 7. Seen while modelling

What the code does that a reader of its comments may not expect. None of it is asserted by a run;
the models contain it and the properties are stated so as to allow it.

Indexer:

* A backfill of a pool that is watched counts swaps twice: "It recomputes candle merges
  idempotently" (`apps/indexer/src/indexer.ts:566`), yet volumes are added and candles have no marker. Extremes
  stay exact and no swap is lost, which is what `ChartAsRead` says. It reads to the unconfirmed head (`indexer.ts:582`), so that
  a swap that is reorganised away stays in the chart, as one that was read; a poll that did the same would break
  `ChartAsRead` without any backfill.
* Posting an old open to `/ingest` again rewrites its opening snapshot at today's price and the opening's time (`indexer.ts:540`);
  at par, which `Portfolio` assumes, this changes no profit. Where two marks of a bucket are of different kinds, the
  history of that bucket adds the eager mark to the pass's value (`Lingering`). An
  eager post of an open that overlaps a page with the open and the close sets `closed_ts` back.
* A repair of the totals while the indexer runs may write totals that are stale by then, and a page
  in flight overwrites repaired ones; `RepairExact` claims only a repair no page overlaps. Nor does a
  repair help a position whose event was posted before its open: the open, indexed after the repair,
  starts the total at nothing beside an event that keeps its marker (the proof attempt found
  this, with two positions and four blocks; `Calm` excludes it).
* A registry outage blanks the symbols of stocks (`tokens.ts:188`) and leaves the quote of a token that trades
  against one empty while a lookup still names it; a verdict of GoPlus that is lost is not
  asked for again before the window, because Uniswap's answer counts as screened (`tokens.ts:283`).
* An incumbent that was resolved while the deepest venue did not answer, or before a deeper one
  was listed, stays for as long as its pool is listed (`stillListed`).
* `ownerTokenBags` reads a board price as WETH per token, though it is in the quote of the
  deepest pair; the NAV adds USDG's and WETH's base units (`snapshots.ts`).

API:

* `/portfolio/:owner/realized` adds net fees to a profit that contains them (`worker.ts:648` against `pnl.ts:3`).
* An answer put together while a verb is indexed, or between a verb and the next mark, overstates the
  profit until the next pass; a list read while a close is indexed may show it in neither part.
* The understatement that `accounting.ts` promises for a pool without a price fails when the opening leg's nearest
  snapshot is the one at a limit, and the fallback to candles has no such guard; a deposit of
  base only without a price counts as nothing invested.
* The comment on `/portfolio/history` (`worker.ts:532`) holds only for buckets in which every pass marked every position.
* The limits of `events.ts` and `clientlog.ts` count and then insert: they are overshot by as much as
  is in flight (`IntakeBounded` is the bound). A `wallet_connect` that is refused is never sent again.
* Pools of ours against a stock are never pointed to, and an empty pool on the matching rail is preferred to a
  live one on the other (`selectFriarPools`). The label "unresolved" of an incumbent's gap cannot occur.

Web, SDK and MCP:

* An open whose receipt is given up on can be mined beside its retry. One approval pays for one of
  them (`OpensOnce`) if it is no more than twice what they take, which "never a multiple of it" (`OpenPosition.tsx:511`) ensures for the
  form it was made for and not for a smaller one that is opened next; and an approval left over from an earlier stepper, signed later, lets the other through, and
  with it more than the "unspent ~1%" of `OpenPosition.tsx:510` is left approved meanwhile.
  A retry of a wing swap that is still pending buys the wing twice.
* A stepper waits for a receipt and does not look at its status (`OpenPosition.tsx:1190`; viem's wait does not throw on a
  revert): a transaction that was mined and reverted is shown as done and the next one is asked for, so that a close that
  reverted can end in "done" with the position open. `ExitSells` says that a refusal of a transaction of its own is the only way to that.
* An increase of dust reverts: its cap is made of amounts truncated bin by bin (`packages/sdk/src/client.ts:130`), which v4 rounds up, and one
  percent of a few units is no headroom (`Sizable`).
* A cancelled stepper whose last transaction is mined takes the hosted one off the screen (`StepperHost.tsx:35`);
  an atomic batch that failed on chain keeps the button busy until a reload.
* A safety answer that is not ok is cached as no verdict for the session, as are the pools of a
  token (`plan.ts`). The router's wing is not held to the price band that the v4 wing is.
* `aggregatePairs` takes the price from the deepest pair whatever its quote (against `market.ts:41`), and a reference in WETH is none if
  the deepest ether pair has no price, though a shallower one has.
* A bin without liquidity refuses the whole plan in the web app (`plan.ts:843`) and is left out silently by the SDK
  (`packages/sdk/src/plan.ts:141`), whose range is then narrower than what was asked for.
* The SDK's planner lets `MAX_BINS` bins and the active one through, which the contract refuses;
  more than 100% of depth gives bins that are not numbers (the MCP server validates); the
  documented default spacing (100) is not the one used (160). It never joins a pool at a
  spacing other than the one asked for.
* A transient error of the manager that has the position is hidden behind the oldest manager's
  `UnknownPosition`; the MCP server offers no list of ids that does not need the API, so an agent must know its own.
* Connecting a wallet hides the book of a shared link and does not clear it, against `access.ts:8`.

## 8. Not modelled, and what the models leave out

Ticks, prices and liquidity arithmetic of v4 beyond `BinPlan`'s; the overflow of
`variableFee1e18`'s unchecked product (below 2^102 for any accumulator, spacing and control);
gas; wording of events. The registry of fee exemptions is a flag of the verb: the `try`/`catch` around it is
taken at its word. Positions opened before `START_BLOCK` have no row and are the case
`positions[id] = None` of `Load`. A forward `/start?from=` skips blocks by the operator's will
and is left out. Candles of blocks with several swaps, and the smear of interpolated
timestamps in a backfill, are left out: they change which minute a swap falls in, not how
rows merge. Of snapshots: loose tokens and the conversion of currencies; a position has its pool to itself. An owner who
acts while a pass runs may be counted twice or in part, which nothing in the code promises
against, so `NavComplete` leaves such owners out. `rpc.ts` and `decode.ts` retry and decode.
Addresses and ABIs (`packages/chain`), encoding of calls (`packages/sdk`), routes that only
select rows, the share image, pages and tools that only show, the transport of the MCP
server, and building and deploying keep no state or are data to every property here.
