----------------------------- MODULE TokenScan -----------------------------
(***************************************************************************)
(* apps/indexer/src/tokens.ts: the scan that keeps the board of tokens,    *)
(* with the safety verdicts it shares with the API's                       *)
(* /token/:address/safety (apps/api/src/worker.ts).                        *)
(*                                                                         *)
(* Every few minutes the cron starts a scan; an operator may start another *)
(* one.  A scan reads the board, asks the registry of stock tokens and the *)
(* market (whose answers may be lost or partial), screens the memes with   *)
(* two checkers of which GoPlus is asked about few tokens per run, writes  *)
(* verdicts and rows and removes the rows it did not refresh.  Each step   *)
(* is an await: other scans and API requests run in between, and the       *)
(* worker may die.                                                         *)
(*                                                                         *)
(* Time is counted in runs of the cron; only ages matter, and an age stops *)
(* counting when no window can tell it from longer ones.                   *)
(***************************************************************************)
EXTENDS Integers, FiniteSets

CONSTANTS
  Tokens,      \* numbers: the token with the most volume is the smallest
  Stocks,      \* the tokens of the registry
  Steady,      \* tokens that have pairs above the floors all the time
  Taxed,       \* tokens GoPlus blocks whenever it answers
  Flagged,     \* tokens Uniswap blocks whenever it answers
  Cron,        \* the scan of the schedule
  Manual,      \* scans that /scan-tokens starts
  PerRun,      \* SAFETY_GOPLUS_PER_RUN
  Retry,       \* SAFETY_GOPLUS_RETRY_SECONDS
  Ttl,         \* SAFETY_TTL_SECONDS
  ApiTtl,      \* the API's SAFETY_TTL
  NoRow,       \* no row in the table, no answer of the registry
  MaxTrouble   \* bound: outages, deaths, manual scans and API requests

Scans == Manual \cup {Cron}

(* The age of what never happened, and of all that is older than a window. *)
Never == Ttl + 1

Ages == 0 .. Never

(* Rows are compared with a clock reading of this period.                  *)
RowAges == {0, 1}

ASSUME ConstantsAssumption ==
  /\ Tokens \subseteq Nat
  /\ IsFiniteSet(Tokens)
  /\ Stocks \subseteq Tokens /\ Steady \subseteq Tokens
  /\ Taxed \subseteq Tokens /\ Flagged \subseteq Tokens
  /\ Cron \notin Manual
  /\ PerRun \in Nat
  /\ Retry \in Nat /\ Ttl \in Nat /\ ApiTtl \in Nat
  /\ Retry <= Ttl /\ ApiTtl <= Ttl
  /\ MaxTrouble \in Nat

Row == [kind : {"meme", "rwa"}, updated : RowAges]

Verdict ==
  [level : {"ok", "block"}, goplus : BOOLEAN, checked : 0 .. ApiTtl, asked : Ages]

ASSUME NoRowAssumption == NoRow \notin Row \cup Verdict \cup {Stocks}

VARIABLES
  board,     \* D1: the tokens table
  safety,    \* D1: the token_safety table
  scan,      \* what each scan has in memory
  asking,    \* tokens the API asks the checkers about
  trouble    \* how often the world has interfered

vars == <<board, safety, scan, asking, trouble>>

(* sticky, rwa: rows read at the start, those of stocks.  cached: blocked  *)
(* by the table as it was read.  stocks: the stocks to write.  prunes: the *)
(* market answered in full; registry: the registry did.  now: the age of   *)
(* the clock reading of the checks.                                        *)
Scan ==
  [stage : {"idle", "fetch", "screen", "mark", "upsert", "prune", "pruneStocks"},
   sticky : SUBSET Tokens, rwa : SUBSET Tokens, memes : SUBSET Tokens,
   cached : SUBSET Tokens, asked : SUBSET Tokens, kept : SUBSET Tokens,
   stocks : SUBSET Tokens, prunes : BOOLEAN, registry : BOOLEAN,
   now : {0, 1}, overlapped : BOOLEAN]

Idle ==
  [stage |-> "idle", sticky |-> {}, rwa |-> {}, memes |-> {}, cached |-> {},
   asked |-> {}, kept |-> {}, stocks |-> {}, prunes |-> FALSE, registry |-> FALSE,
   now |-> 0, overlapped |-> FALSE]

TypeOK ==
  /\ board \in [Tokens -> Row \cup {NoRow}]
  /\ safety \in [Tokens -> Verdict \cup {NoRow}]
  /\ scan \in [Scans -> Scan]
  /\ asking \subseteq Tokens
  /\ trouble \in 0 .. MaxTrouble

Init ==
  /\ board = [t \in Tokens |-> NoRow]
  /\ safety = [t \in Tokens |-> NoRow]
  /\ scan = [s \in Scans |-> Idle]
  /\ asking = {}
  /\ trouble = 0

Trouble ==
  /\ trouble < MaxTrouble
  /\ trouble' = trouble + 1

-----------------------------------------------------------------------------
(* Time, starts and deaths.                                                *)

Older(age, cap) == IF age < cap THEN age + 1 ELSE cap

Rows == {t \in Tokens : board[t] # NoRow}

(* The start of a scan reads the rows of the previous ones.  overlapped is *)
(* history: another scan is at work.                                       *)
Begun(s) ==
  [Idle EXCEPT !.stage = "fetch", !.sticky = Rows,
     !.rwa = {t \in Rows : board[t].kind = "rwa"},
     !.overlapped = \E o \in Scans \ {s} : scan[o].stage # "idle"]

Overlapped(o) == [scan[o] EXCEPT !.overlapped = @ \/ scan[o].stage # "idle"]

(* A period later for a scan at work: what it read of the clock is older.  *)
Later(p) == [p EXCEPT !.now = IF p.stage \in {"screen", "mark"} THEN 1 ELSE 0]

(* The next period: scheduled() starts a scan.  Bounds: a scan sees no     *)
(* more than one new period, the scheduled one ends in its own, and rows   *)
(* are written and pruned in the period of the clock reading they carry.   *)
Tick ==
  /\ scan[Cron].stage = "idle"
  /\ \A s \in Scans :
       scan[s].now = 0 /\ scan[s].stage \in {"idle", "fetch", "screen", "mark"}
  /\ board' = [t \in Tokens |->
                 IF t \in Rows THEN [board[t] EXCEPT !.updated = 1] ELSE NoRow]
  /\ safety' = [t \in Tokens |->
                  IF safety[t] = NoRow THEN NoRow
                  ELSE [safety[t] EXCEPT !.checked = Older(@, ApiTtl),
                                         !.asked = Older(@, Never)]]
  /\ scan' = [s \in Scans |-> IF s = Cron THEN Begun(s) ELSE Later(Overlapped(s))]
  /\ UNCHANGED <<asking, trouble>>

(* /scan-tokens.                                                           *)
Request(s) ==
  /\ s \in Manual
  /\ scan[s].stage = "idle"
  /\ Trouble
  /\ scan' = [o \in Scans |-> IF o = s THEN Begun(s) ELSE Overlapped(o)]
  /\ UNCHANGED <<board, safety, asking>>

(* A step throws, or the worker is evicted: the rest of the run is lost.   *)
Die(s) ==
  /\ scan[s].stage # "idle"
  /\ Trouble
  /\ scan' = [scan EXCEPT ![s] = Idle]
  /\ UNCHANGED <<board, safety, asking>>

-----------------------------------------------------------------------------
(* A scan.                                                                 *)

(* Faulty: asks again as long as GoPlus gave no verdict.                   *)
NeedsVerdict(t) ==
  \/ safety[t] = NoRow
  \/ ~safety[t].goplus
  \/ safety[t].asked > Ttl

(* Is the last attempt older than the window that applies to its outcome?  *)
NeedsGoPlus(t) ==
  \/ safety[t] = NoRow
  \/ safety[t].asked > IF safety[t].goplus THEN Ttl ELSE Retry

(* The n hottest of a set.                                                 *)
Hottest(ts, n) == {t \in ts : Cardinality({u \in ts : u < t}) < n}

(* fetchRwaRegistry: all of it or null, never an empty list.               *)
RegistryAnswers == {Stocks, NoRow}

(* gtDiscoverTokens: what is traded, unless pages were lost.               *)
Discovered(s, pages) == IF pages THEN Tokens ELSE scan[s].sticky

(* dsTokenPairs: the tokens with pairs; failed if a chunk was lost.        *)
MarketAnswers(known) ==
  {a \in [found : SUBSET Tokens, failed : BOOLEAN] :
     a.failed \/ Steady \cap known \subseteq a.found}

(* Faulty: without the registry nothing is a stock.                        *)
StocksForgotten(s, registry) == IF registry = NoRow THEN {} ELSE registry

(* Registry outage: the kinds of the previous run.                         *)
StocksOf(s, registry) == IF registry = NoRow THEN scan[s].rwa ELSE registry

(* Pairs folded by token: those that are no stock and above the floors.    *)
(* low are tokens below them.                                              *)
Memes(found, stocks, low) == found \ (stocks \cup low)

(* What the scan takes along once the verdicts are read.  With neither     *)
(* pairs nor registry the run ends.                                        *)
Fetched(s, registry, market, low) ==
  LET stocks == StocksOf(s, registry)
      memes  == Memes(market.found, stocks, low)
  IN
  IF market.found = {} /\ registry = NoRow THEN Idle
  ELSE [scan[s] EXCEPT !.stage = "screen", !.sticky = {}, !.rwa = {}, !.memes = memes,
          !.stocks = IF registry # NoRow THEN stocks ELSE stocks \cap market.found,
          !.registry = registry # NoRow,
          !.prunes = ~market.failed /\ market.found # {},
          !.cached = {t \in memes : safety[t] # NoRow /\ safety[t].level = "block"},
          !.asked = Hottest({t \in memes : NeedsGoPlus(t)}, PerRun)]

(* Discovery, registry and market answer, in full or not.                  *)
Fetch(s) ==
  /\ scan[s].stage = "fetch"
  /\ \E pages \in BOOLEAN, registry \in RegistryAnswers :
     \E market \in MarketAnswers(Discovered(s, pages) \cup StocksOf(s, registry)) :
       /\ IF pages /\ registry # NoRow /\ ~market.failed THEN UNCHANGED trouble ELSE Trouble
       /\ \E low \in SUBSET (market.found \ (StocksOf(s, registry) \cup Steady)) :
            scan' = [scan EXCEPT ![s] = Fetched(s, registry, market, low)]
  /\ UNCHANGED <<board, safety, asking>>

(* GoPlus is asked token by token, Uniswap about all at once; each answers *)
(* for any of them.                                                        *)
GoPlusAnswers(asked) == SUBSET asked

UniswapAnswers(asked) == SUBSET asked

(* checkTokenSafety: the worst of what the answers say.                    *)
Blocked(gp, uni) == (gp \cap Taxed) \cup (uni \cap Flagged)

(* The table with the verdicts of this run; one that no checker stands     *)
(* behind is not written.                                                  *)
Judged(gp, uni, age) ==
  [t \in Tokens |->
     IF t \notin gp \cup uni THEN safety[t]
     ELSE [level   |-> IF t \in Blocked(gp, uni) THEN "block" ELSE "ok",
           goplus  |-> t \in gp,
           checked |-> IF age < ApiTtl THEN age ELSE ApiTtl,
           asked   |-> IF safety[t] = NoRow THEN Never ELSE safety[t].asked]]

(* Memes that may be listed: judged by this run's answers if there are     *)
(* any, by the table as it was read otherwise.                             *)
Kept(p, gp, uni) ==
  {t \in p.memes : t \notin IF t \in gp \cup uni THEN Blocked(gp, uni) ELSE p.cached}

(* The answers, and the verdicts they leave in the table.  Between the two *)
(* the code resolves incumbents, which changes neither.                    *)
Screen(s) ==
  /\ scan[s].stage = "screen"
  /\ \E gp \in GoPlusAnswers(scan[s].asked), uni \in UniswapAnswers(scan[s].memes) :
       /\ safety' = Judged(gp, uni, scan[s].now)
       /\ scan' = [scan EXCEPT ![s] = [@ EXCEPT !.stage = "mark",
                    !.kept = Kept(scan[s], gp, uni), !.memes = {}, !.cached = {}]]
  /\ UNCHANGED <<board, asking, trouble>>

(* That GoPlus was asked is recorded apart from what it said.  The clock   *)
(* is read for the rows.                                                   *)
Mark(s) ==
  /\ scan[s].stage = "mark"
  /\ safety' = [t \in Tokens |->
       IF t \notin scan[s].asked THEN safety[t]
       ELSE IF safety[t] = NoRow
         THEN [level |-> "ok", goplus |-> FALSE, checked |-> ApiTtl, asked |-> scan[s].now]
         ELSE [safety[t] EXCEPT !.asked = scan[s].now]]
  /\ scan' = [scan EXCEPT ![s].stage = "upsert", ![s].asked = {}, ![s].now = 0]
  /\ UNCHANGED <<board, asking, trouble>>

(* Faulty: refreshes every row, so that none ever looks old.               *)
UpsertTouchesAll(s) ==
  /\ scan[s].stage = "upsert"
  /\ board' = [t \in Tokens |->
       IF t \in scan[s].kept THEN [kind |-> "meme", updated |-> 0]
       ELSE IF t \in scan[s].stocks THEN [kind |-> "rwa", updated |-> 0]
       ELSE IF board[t] = NoRow THEN NoRow ELSE [board[t] EXCEPT !.updated = 0]]
  /\ scan' = [scan EXCEPT ![s].stage = "prune", ![s].kept = {}, ![s].stocks = {}]
  /\ UNCHANGED <<safety, asking, trouble>>

(* Faulty: writes no kind, as the rows of the first version.               *)
UpsertKindless(s) ==
  /\ scan[s].stage = "upsert"
  /\ board' = [t \in Tokens |->
       IF t \in scan[s].kept \cup scan[s].stocks THEN [kind |-> NoRow, updated |-> 0]
       ELSE board[t]]
  /\ scan' = [scan EXCEPT ![s].stage = "prune", ![s].kept = {}, ![s].stocks = {}]
  /\ UNCHANGED <<safety, asking, trouble>>

(* Memes that were kept, stocks with a pair, and the registry's others.    *)
Upsert(s) ==
  /\ scan[s].stage = "upsert"
  /\ board' = [t \in Tokens |->
       IF t \in scan[s].kept THEN [kind |-> "meme", updated |-> 0]
       ELSE IF t \in scan[s].stocks THEN [kind |-> "rwa", updated |-> 0]
       ELSE board[t]]
  /\ scan' = [scan EXCEPT ![s].stage = "prune", ![s].kept = {}, ![s].stocks = {}]
  /\ UNCHANGED <<safety, asking, trouble>>

Outdated(t) == board[t] # NoRow /\ board[t].updated > 0

(* Each leg is pruned only if its own sources answered in full.            *)
Prune(s) ==
  /\ scan[s].stage = "prune"
  /\ board' = [t \in Tokens |->
       IF scan[s].prunes /\ Outdated(t) /\ board[t].kind # "rwa"
         THEN NoRow ELSE board[t]]
  /\ scan' = [scan EXCEPT ![s].stage = "pruneStocks"]
  /\ UNCHANGED <<safety, asking, trouble>>

PruneStocks(s) ==
  /\ scan[s].stage = "pruneStocks"
  /\ board' = [t \in Tokens |->
       IF scan[s].registry /\ Outdated(t) /\ board[t].kind = "rwa"
         THEN NoRow ELSE board[t]]
  /\ scan' = [scan EXCEPT ![s] = Idle]
  /\ UNCHANGED <<safety, asking, trouble>>

-----------------------------------------------------------------------------
(* The API: a verdict that is missing or old is asked for again, about     *)
(* this token from both checkers, and written if one of them answered.     *)
(* With ApiTtl = 0 every request finds the verdict old.                    *)

ApiRead(t) ==
  /\ t \notin asking
  /\ safety[t] # NoRow => safety[t].checked >= ApiTtl
  /\ Trouble
  /\ asking' = asking \cup {t}
  /\ UNCHANGED <<board, safety, scan>>

ApiAnswer(t) ==
  /\ t \in asking
  /\ \E gp \in GoPlusAnswers({t}), uni \in UniswapAnswers({t}) :
       safety' = Judged(gp, uni, 0)
  /\ asking' = asking \ {t}
  /\ UNCHANGED <<board, scan, trouble>>

Step(s) ==
  Fetch(s) \/ Screen(s) \/ Mark(s) \/ Upsert(s) \/ Prune(s) \/ PruneStocks(s)

Next ==
  \/ Tick
  \/ \E s \in Scans : Request(s) \/ Die(s)
  \/ \E s \in Scans : Step(s)
  \/ \E t \in Tokens : ApiRead(t) \/ ApiAnswer(t)

(* The cron fires, and a scan that runs goes on.                           *)
Fairness == WF_vars(Tick) /\ \A s \in Scans : WF_vars(Step(s))

Spec == Init /\ [][Next]_vars /\ Fairness

-----------------------------------------------------------------------------
(* Properties.                                                             *)

(* Outages, deaths and API requests never cost a token its place: a row    *)
(* whose market is above the floors and that no checker blocks stays, and  *)
(* that of a stock stays a stock's, unless two scans overlap.              *)
OutageKeepsBoard ==
  [][\A t \in Steady \ (Taxed \cup Flagged) :
       board[t] # NoRow /\ (\A s \in Scans : ~scan[s].overlapped) =>
         /\ board'[t] # NoRow
         /\ board[t].kind = "rwa" => board'[t].kind = "rwa"]_vars

(* "every run makes progress down the board": GoPlus is asked about every  *)
(* steady token again and again, however seldom it answers.                *)
ScreenedAgain ==
  \A t \in Steady \ Stocks : []<>(safety[t] # NoRow /\ safety[t].asked = 0)

(* A token that scans no longer keep, because it fell below the floors or  *)
(* is blocked, leaves the board for good.                                  *)
FallsOff ==
  \A t \in Tokens \ Stocks :
    []<>(\E s \in Scans : t \in scan[s].kept) \/ <>[](board[t] = NoRow)
=============================================================================
