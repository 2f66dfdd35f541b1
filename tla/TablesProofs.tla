---------------------------- MODULE TablesProofs ----------------------------
(***************************************************************************)
(* Proofs about the tables that the indexer keeps for the API beside its   *)
(* ledger.                                                                 *)
(*                                                                         *)
(* TokenScan, for every set of tokens, any number of manual scans, all     *)
(* windows and budgets and any number of disturbances: the types, and that *)
(* no disturbance costs a token its place on the board.                    *)
(*                                                                         *)
(* Candles, for every chain, all sizes of pages and lengths of a minute    *)
(* and any number of faults: the types, and that a chart shows what was    *)
(* read.  A row is related to counts: how often the swap of each block of  *)
(* its minute went into it.                                                *)
(***************************************************************************)
EXTENDS TokenScan, Candles, Sums, SequenceTheorems

BoardOK   == board \in [Tokens -> Row \cup {NoRow}]
SafetyOK  == safety \in [Tokens -> Verdict \cup {NoRow}]
ScanOK    == scan \in [Scans -> Scan]
AskingOK  == asking \subseteq Tokens
TroubleOK == trouble \in 0 .. MaxTrouble

(* A step of one scan gives it a record of the type.                       *)
LEMMA IdleType == Idle \in Scan
  BY DEF Idle, Scan

LEMMA BegunType == ASSUME NEW s \in Scans PROVE Begun(s) \in Scan
  BY DEF Begun, Idle, Scan, Rows

Busy(s) == \E o \in Scans \ {s} : scan[o].stage # "idle"

LEMMA BegunIs ==
  ASSUME NEW s \in Scans
  PROVE  /\ Begun(s).stage = "fetch" /\ Begun(s).sticky = Rows /\ Begun(s).cached = {}
         /\ Begun(s).rwa = {t \in Rows : board[t].kind = "rwa"} /\ Begun(s).stocks = {}
         /\ Begun(s).overlapped = Busy(s)
<1> DEFINE rwa == {t \in Rows : board[t].kind = "rwa"}
<1>1. Begun(s) = [Idle EXCEPT !.stage = "fetch", !.sticky = Rows, !.rwa = rwa,
                              !.overlapped = Busy(s)]
  BY DEF Begun, Busy
<1>2. Idle \in [DOMAIN Idle -> {Idle[f] : f \in DOMAIN Idle}]
      /\ {"stage", "sticky", "rwa", "cached", "stocks", "overlapped"} \subseteq DOMAIN Idle
      /\ Idle.cached = {} /\ Idle.stocks = {}
  BY DEF Idle
<1> QED
  BY <1>1, <1>2, Zenon

LEMMA OverlappedType ==
  ASSUME ScanOK, NEW o \in Scans PROVE Overlapped(o) \in Scan
  BY DEF Overlapped, Scan, ScanOK

LEMMA LaterType == ASSUME NEW p \in Scan PROVE Later(p) \in Scan
  BY DEF Later, Scan

LEMMA RowType ==
  /\ NoRow \notin Row /\ NoRow \notin Verdict /\ NoRow # Stocks
  BY NoRowAssumption

LEMMA JudgedType ==
  ASSUME SafetyOK, NEW gp, NEW uni, NEW age \in Nat
  PROVE  Judged(gp, uni, age) \in [Tokens -> Verdict \cup {NoRow}]
<1> SUFFICES ASSUME NEW t \in Tokens
             PROVE  Judged(gp, uni, age)[t] \in Verdict \cup {NoRow}
  BY DEF Judged
<1>1. CASE t \notin gp \cup uni
  BY <1>1 DEF Judged, SafetyOK
<1>2. CASE t \in gp \cup uni
  <2>1. (IF safety[t] = NoRow THEN Never ELSE safety[t].asked) \in Ages
    BY ConstantsAssumption DEF SafetyOK, Verdict, Ages, Never
  <2>2. (IF age < ApiTtl THEN age ELSE ApiTtl) \in 0 .. ApiTtl
    BY ConstantsAssumption
  <2> QED
    BY <1>2, <2>1, <2>2 DEF Judged, Verdict
<1> QED
  BY <1>1, <1>2

(* The records a scan holds between two steps.                             *)
LEMMA RecordTypes ==
  ASSUME NEW p \in Scan, NEW memes \in SUBSET Tokens, NEW cached \in SUBSET Tokens,
         NEW stocks \in SUBSET Tokens, NEW asked \in SUBSET Tokens,
         NEW registry \in BOOLEAN, NEW prunes \in BOOLEAN
  PROVE  /\ [p EXCEPT !.stage = "screen", !.sticky = {}, !.rwa = {}, !.memes = memes,
                      !.stocks = stocks, !.registry = registry, !.prunes = prunes,
                      !.cached = cached, !.asked = asked] \in Scan
         /\ [p EXCEPT !.stage = "mark", !.kept = memes, !.memes = {}, !.cached = {}] \in Scan
         /\ [p EXCEPT !.stage = "upsert", !.asked = {}, !.now = 0] \in Scan
         /\ [p EXCEPT !.stage = "prune", !.kept = {}, !.stocks = {}] \in Scan
         /\ [p EXCEPT !.stage = "pruneStocks"] \in Scan
  BY DEF Scan

LEMMA FetchedType ==
  ASSUME TypeOK, NEW s \in Scans, NEW registry \in RegistryAnswers, NEW low,
         NEW market, market.found \subseteq Tokens, market.failed \in BOOLEAN
  PROVE  Fetched(s, registry, market, low) \in Scan
<1> DEFINE rwa == StocksOf(s, registry)
           memes == Memes(market.found, rwa, low)
           stocks == IF registry # NoRow THEN rwa ELSE rwa \cap market.found
           cached == {t \in memes : safety[t] # NoRow /\ safety[t].level = "block"}
           asked == Hottest({t \in memes : NeedsGoPlus(t)}, PerRun)
           prunes == ~market.failed /\ market.found # {}
           record == [scan[s] EXCEPT !.stage = "screen", !.sticky = {}, !.rwa = {},
                        !.memes = memes, !.stocks = stocks, !.registry = registry # NoRow,
                        !.prunes = prunes, !.cached = cached, !.asked = asked]
<1>1. rwa \in SUBSET Tokens
  BY ConstantsAssumption DEF StocksOf, RegistryAnswers, TypeOK, Scan
<1>2. memes \in SUBSET Tokens /\ cached \in SUBSET Tokens
  BY DEF Memes
<1>3. asked \in SUBSET Tokens /\ stocks \in SUBSET Tokens
  BY <1>1, <1>2 DEF Hottest
<1>4. scan[s] \in Scan /\ prunes \in BOOLEAN
  BY DEF TypeOK
<1>5. Fetched(s, registry, market, low)
        = IF market.found = {} /\ registry = NoRow THEN Idle ELSE record
  BY DEF Fetched
<1> HIDE DEF memes, stocks, cached, asked, prunes
<1>6. record \in Scan
  BY <1>2, <1>3, <1>4, RecordTypes
<1> QED
  BY <1>5, <1>6, IdleType

(* Every step keeps the types.                                             *)
LEMMA StepType ==
  ASSUME TypeOK, NEW s \in Scans, Step(s)
  PROVE  TypeOK'
<1> USE DEF TypeOK
<1>0. scan[s] \in Scan /\ scan \in [Scans -> Scan]
  OBVIOUS
<1>1. CASE Fetch(s)
  <2>1. PICK registry \in RegistryAnswers, pages \in BOOLEAN :
          \E market \in MarketAnswers(Discovered(s, pages) \cup StocksOf(s, registry)) :
            \E low : scan' = [scan EXCEPT ![s] = Fetched(s, registry, market, low)]
    BY <1>1 DEF Fetch
  <2>2a. PICK market \in MarketAnswers(Discovered(s, pages) \cup StocksOf(s, registry)) :
          \E low : scan' = [scan EXCEPT ![s] = Fetched(s, registry, market, low)]
    BY <2>1
  <2>2. PICK low : scan' = [scan EXCEPT ![s] = Fetched(s, registry, market, low)]
    BY <2>2a
  <2>5. market.found \subseteq Tokens /\ market.failed \in BOOLEAN
    BY DEF MarketAnswers
  <2>3. scan' \in [Scans -> Scan]
    BY <1>0, <2>2, <2>5, FetchedType
  <2>4. trouble' \in 0 .. MaxTrouble
    BY <1>1, ConstantsAssumption DEF Fetch, Trouble
  <2> QED
    BY <1>1, <2>3, <2>4 DEF Fetch
<1>2. CASE Screen(s)
  <2>1. PICK gp, uni :
          /\ safety' = Judged(gp, uni, scan[s].now)
          /\ scan' = [scan EXCEPT ![s] = [@ EXCEPT !.stage = "mark",
                     !.kept = Kept(scan[s], gp, uni), !.memes = {}, !.cached = {}]]
    BY <1>2 DEF Screen
  <2>3. Kept(scan[s], gp, uni) \in SUBSET Tokens
    BY <1>0 DEF Kept, Scan
  <2>4. scan' \in [Scans -> Scan]
    BY <1>0, <2>1, <2>3, RecordTypes
  <2>5. scan[s].now \in Nat /\ SafetyOK
    BY <1>0 DEF Scan, SafetyOK
  <2>6. safety' \in [Tokens -> Verdict \cup {NoRow}]
    BY <2>1, <2>5, JudgedType
  <2> QED
    BY <1>2, <2>4, <2>6 DEF Screen
<1>3. CASE Mark(s)
  <2>1. scan' = [scan EXCEPT ![s] = [scan[s] EXCEPT !.stage = "upsert", !.asked = {}, !.now = 0]]
    BY <1>0, <1>3 DEF Mark
  <2>2. scan' \in [Scans -> Scan]
    BY <1>0, <2>1, RecordTypes
  <2>3. scan[s].now \in Ages
    BY <1>0, ConstantsAssumption DEF Scan, Ages, Never
  <2>4. ASSUME NEW t \in Tokens PROVE safety'[t] \in Verdict \cup {NoRow}
    <3>1. CASE t \notin scan[s].asked
      BY <1>3, <3>1 DEF Mark
    <3>2. CASE t \in scan[s].asked /\ safety[t] = NoRow
      BY <1>3, <2>3, <3>2, ConstantsAssumption DEF Mark, Verdict
    <3>3. CASE t \in scan[s].asked /\ safety[t] # NoRow
      <4>1. safety[t] \in Verdict /\ safety'[t] = [safety[t] EXCEPT !.asked = scan[s].now]
        BY <1>3, <3>3 DEF Mark
      <4> QED
        BY <2>3, <4>1 DEF Verdict
    <3> QED
      BY <3>1, <3>2, <3>3
  <2>5. safety' \in [Tokens -> Verdict \cup {NoRow}]
    BY <1>3, <2>4 DEF Mark
  <2> QED
    BY <1>3, <2>2, <2>5 DEF Mark
<1>4. CASE Upsert(s)
  <2>1. scan' = [scan EXCEPT ![s] = [scan[s] EXCEPT !.stage = "prune", !.kept = {}, !.stocks = {}]]
    BY <1>0, <1>4 DEF Upsert
  <2>2. scan' \in [Scans -> Scan]
    BY <1>0, <2>1, RecordTypes
  <2>3. board' \in [Tokens -> Row \cup {NoRow}]
    BY <1>4 DEF Upsert, Row, RowAges
  <2> QED
    BY <1>4, <2>2, <2>3 DEF Upsert
<1>5. CASE Prune(s)
  <2>1. scan' = [scan EXCEPT ![s] = [scan[s] EXCEPT !.stage = "pruneStocks"]]
    BY <1>0, <1>5 DEF Prune
  <2>2. scan' \in [Scans -> Scan]
    BY <1>0, <2>1, RecordTypes
  <2> QED
    BY <1>5, <2>2 DEF Prune
<1>6. CASE PruneStocks(s)
  BY <1>6, IdleType DEF PruneStocks
<1> QED
  BY <1>1, <1>2, <1>3, <1>4, <1>5, <1>6 DEF Step

LEMMA TickType == ASSUME TypeOK, Tick PROVE TypeOK'
<1>1. board' \in [Tokens -> Row \cup {NoRow}]
  <2>1. ASSUME NEW t \in Tokens PROVE board'[t] \in Row \cup {NoRow}
    BY DEF Tick, TypeOK, Rows, Row, RowAges
  <2> QED
    BY <2>1 DEF Tick
<1>2. safety' \in [Tokens -> Verdict \cup {NoRow}]
  <2>1. ASSUME NEW t \in Tokens, safety[t] # NoRow PROVE safety'[t] \in Verdict
    <3>1. safety[t] \in Verdict
      BY <2>1 DEF TypeOK
    <3>2. Older(safety[t].checked, ApiTtl) \in 0 .. ApiTtl
      BY <3>1, ConstantsAssumption DEF Older, Verdict
    <3>3. Older(safety[t].asked, Never) \in Ages
      BY <3>1, ConstantsAssumption DEF Older, Verdict, Ages, Never
    <3>4. safety'[t] = [safety[t] EXCEPT !.checked = Older(@, ApiTtl), !.asked = Older(@, Never)]
      BY <2>1 DEF Tick
    <3> QED
      BY <3>1, <3>2, <3>3, <3>4 DEF Verdict
  <2>2. ASSUME NEW t \in Tokens, safety[t] = NoRow PROVE safety'[t] = NoRow
    BY <2>2 DEF Tick
  <2> QED
    BY <2>1, <2>2 DEF Tick
<1>3. scan' \in [Scans -> Scan]
  <2>1. ASSUME NEW s \in Scans PROVE Later(Overlapped(s)) \in Scan /\ Begun(s) \in Scan
    BY LaterType, OverlappedType, BegunType DEF TypeOK, ScanOK
  <2> QED
    BY <2>1 DEF Tick
<1> QED
  BY <1>1, <1>2, <1>3 DEF Tick, TypeOK

LEMMA NextType == ASSUME TypeOK, [Next]_vars PROVE TypeOK'
<1>1. CASE Tick
  BY <1>1, TickType
<1>2. ASSUME NEW s \in Scans, Request(s) PROVE TypeOK'
  <2>1. ASSUME NEW o \in Scans PROVE Overlapped(o) \in Scan /\ Begun(o) \in Scan
    BY OverlappedType, BegunType DEF TypeOK, ScanOK
  <2> QED
    BY <1>2, <2>1, ConstantsAssumption DEF Request, Trouble, TypeOK
<1>3. ASSUME NEW s \in Scans, Die(s) PROVE TypeOK'
  BY <1>3, IdleType, ConstantsAssumption DEF Die, Trouble, TypeOK
<1>4. ASSUME NEW s \in Scans, Step(s) PROVE TypeOK'
  BY <1>4, StepType
<1>5. ASSUME NEW t \in Tokens, ApiRead(t) PROVE TypeOK'
  BY <1>5, ConstantsAssumption DEF ApiRead, Trouble, TypeOK
<1>6. ASSUME NEW t \in Tokens, ApiAnswer(t) PROVE TypeOK'
  <2>1. PICK gp, uni : safety' = Judged(gp, uni, 0)
    BY <1>6 DEF ApiAnswer
  <2>2. safety' \in [Tokens -> Verdict \cup {NoRow}]
    BY <2>1, JudgedType DEF TypeOK, SafetyOK
  <2> QED
    BY <1>6, <2>2 DEF ApiAnswer, TypeOK
<1>7. CASE UNCHANGED vars
  BY <1>7 DEF vars, TypeOK
<1> QED
  BY <1>1, <1>2, <1>3, <1>4, <1>5, <1>6, <1>7 DEF Next

(* All the scan reads, holds and writes keeps its type.                    *)
THEOREM Types == Spec => []TypeOK
<1>1. Init => TypeOK
  BY IdleType, ConstantsAssumption DEF Init, TypeOK
<1> QED
  BY <1>1, NextType, PTL DEF Spec

-----------------------------------------------------------------------------
(* What keeps a token on the board from one scan to the next.              *)

Free == Steady \ (Taxed \cup Flagged)

IsStock(t) == board[t].kind = "rwa"

(* Of a listed token, a scan that nobody disturbs knows at every stage     *)
(* what the rest of it needs.  good are the memes that are left.           *)
HasIt(p, t, good) ==
  /\ p.prunes => t \in good \cup p.stocks
  /\ IsStock(t) => t \notin good
  /\ IsStock(t) /\ p.registry => t \in p.stocks

Holds(p, t) ==
  /\ p.stage = "fetch" => t \in p.sticky /\ (IsStock(t) => t \in p.rwa)
  /\ p.stage = "screen" => HasIt(p, t, p.memes)
  /\ p.stage \in {"mark", "upsert"} => HasIt(p, t, p.kept)
  /\ p.stage = "prune" /\ p.prunes /\ ~IsStock(t) => board[t].updated = 0
  /\ p.stage \in {"prune", "pruneStocks"} /\ p.registry /\ IsStock(t) => board[t].updated = 0

Unblocked ==
  /\ \A t \in Free : safety[t] # NoRow => safety[t].level = "ok"
  /\ \A s \in Scans : scan[s].cached \cap Free = {}

StocksTrue ==
  /\ \A t \in Tokens : board[t] # NoRow /\ IsStock(t) => t \in Stocks
  /\ \A s \in Scans : scan[s].rwa \subseteq Stocks /\ scan[s].stocks \subseteq Stocks

OverlapKnown ==
  \A s, o \in Scans :
    s # o /\ scan[s].stage # "idle" /\ scan[o].stage # "idle" => scan[s].overlapped

BoardHeld ==
  \A s \in Scans, t \in Free :
    board[t] # NoRow /\ ~scan[s].overlapped => Holds(scan[s], t)

IInv == TypeOK /\ Unblocked /\ StocksTrue /\ OverlapKnown /\ BoardHeld

LEMMA FreeTokens == Free \subseteq Tokens /\ Free \cap (Taxed \cup Flagged) = {}
  BY ConstantsAssumption DEF Free

LEMMA InitIInv == Init => IInv
<1> SUFFICES ASSUME Init PROVE IInv
  OBVIOUS
<1>1. TypeOK
  BY IdleType, ConstantsAssumption DEF Init, TypeOK
<1>2. Unblocked /\ StocksTrue /\ OverlapKnown /\ BoardHeld
  BY FreeTokens DEF Init, Unblocked, StocksTrue, OverlapKnown, BoardHeld, Idle
<1> QED
  BY <1>1, <1>2 DEF IInv

(* A verdict about a free token never blocks.                              *)
LEMMA JudgedFree ==
  ASSUME TypeOK, Unblocked, NEW gp, NEW uni, NEW age, safety' = Judged(gp, uni, age)
  PROVE  \A t \in Free : safety'[t] # NoRow => safety'[t].level = "ok"
<1> SUFFICES ASSUME NEW t \in Free, safety'[t] # NoRow PROVE safety'[t].level = "ok"
  OBVIOUS
<1>1. t \in Tokens /\ t \notin Blocked(gp, uni)
  BY FreeTokens DEF Blocked
<1>2. CASE t \in gp \cup uni
  BY <1>1, <1>2 DEF Judged
<1>3. CASE t \notin gp \cup uni
  BY <1>1, <1>3 DEF Judged, Unblocked
<1> QED
  BY <1>2, <1>3

(* A step of one scan concerns its own hold of the board only: any other   *)
(* that is at work is overlapped.                                          *)
LEMMA StepOfOne ==
  ASSUME IInv, NEW s \in Scans, scan[s].stage # "idle",
         \A o \in Scans \ {s} : scan'[o] = scan[o],
         scan'[s].overlapped = scan[s].overlapped \/ scan'[s].stage = "idle",
         \A t \in Free : board'[t] # NoRow /\ ~scan'[s].overlapped => Holds(scan[s], t)'
  PROVE  OverlapKnown' /\ BoardHeld'
<1>1. OverlapKnown'
  BY DEF IInv, OverlapKnown
<1>2. ASSUME NEW o \in Scans, NEW t \in Free, board'[t] # NoRow, ~scan'[o].overlapped
      PROVE  Holds(scan[o], t)'
  <2>1. CASE o = s
    BY <1>2, <2>1
  <2>2. CASE o # s
    <3>1. scan'[o].stage = "idle"
      BY <1>2, <2>2 DEF IInv, OverlapKnown
    <3> QED
      BY <3>1 DEF Holds
  <2> QED
    BY <2>1, <2>2
<1> QED
  BY <1>1, <1>2 DEF BoardHeld

LEMMA FetchIInv ==
  ASSUME IInv, NEW s \in Scans, Fetch(s)
  PROVE  IInv'
<1>1. PICK pages \in BOOLEAN, registry \in RegistryAnswers :
        \E market \in MarketAnswers(Discovered(s, pages) \cup StocksOf(s, registry)) :
          \E low \in SUBSET (market.found \ (StocksOf(s, registry) \cup Steady)) :
            scan' = [scan EXCEPT ![s] = Fetched(s, registry, market, low)]
  BY DEF Fetch
<1> DEFINE known == Discovered(s, pages) \cup StocksOf(s, registry)
<1>2. PICK market \in MarketAnswers(known) :
        \E low \in SUBSET (market.found \ (StocksOf(s, registry) \cup Steady)) :
          scan' = [scan EXCEPT ![s] = Fetched(s, registry, market, low)]
  BY <1>1
<1>3. PICK low \in SUBSET (market.found \ (StocksOf(s, registry) \cup Steady)) :
        scan' = [scan EXCEPT ![s] = Fetched(s, registry, market, low)]
  BY <1>2
<1> DEFINE p == Fetched(s, registry, market, low)
<1>4. /\ market.found \subseteq Tokens /\ market.failed \in BOOLEAN
      /\ market.failed \/ Steady \cap known \subseteq market.found
  BY DEF MarketAnswers
<1>5. /\ TypeOK /\ scan \in [Scans -> Scan] /\ scan[s] \in Scan /\ scan[s].stage = "fetch"
      /\ UNCHANGED <<board, safety, asking>>
  BY DEF IInv, TypeOK, Fetch
<1>6. p \in Scan
  BY <1>4, <1>5, FetchedType
<1>7. TypeOK'
  BY <1>5, StepType DEF Step
<1>8. StocksOf(s, registry) \subseteq Stocks /\ (registry # NoRow => StocksOf(s, registry) = Stocks)
  BY DEF StocksOf, RegistryAnswers, IInv, StocksTrue
<1>9. CASE market.found = {} /\ registry = NoRow
  <2>1. p = Idle
    BY <1>9 DEF Fetched
  <2>3. scan' = [scan EXCEPT ![s] = Idle]
    BY <1>3, <2>1
  <2>4. scan'[s].stage = "idle" /\ \A o \in Scans \ {s} : scan'[o] = scan[o]
    BY <1>5, <2>3 DEF Idle
  <2>2. OverlapKnown' /\ BoardHeld'
    BY <1>5, <2>4, StepOfOne DEF Holds
  <2> QED
    BY <1>5, <1>7, <2>2, <2>3 DEF IInv, Unblocked, StocksTrue, IsStock, Idle
<1>10. CASE ~(market.found = {} /\ registry = NoRow)
  <2> DEFINE memes == Memes(market.found, StocksOf(s, registry), low)
             asked == Hottest({t \in memes : NeedsGoPlus(t)}, PerRun)
  <2>1. p = [scan[s] EXCEPT !.stage = "screen", !.sticky = {}, !.rwa = {}, !.memes = memes,
               !.stocks = IF registry # NoRow THEN StocksOf(s, registry)
                          ELSE StocksOf(s, registry) \cap market.found,
               !.registry = registry # NoRow,
               !.prunes = ~market.failed /\ market.found # {},
               !.cached = {t \in memes : safety[t] # NoRow /\ safety[t].level = "block"},
               !.asked = asked]
    BY <1>10 DEF Fetched
  <2> HIDE DEF asked
  <2>2. /\ p.stage = "screen" /\ p.rwa = {} /\ p.memes = memes
        /\ p.stocks = IF registry # NoRow THEN StocksOf(s, registry)
                       ELSE StocksOf(s, registry) \cap market.found
        /\ p.registry = (registry # NoRow)
        /\ p.prunes => ~market.failed
        /\ p.cached = {t \in memes : safety[t] # NoRow /\ safety[t].level = "block"}
        /\ p.overlapped = scan[s].overlapped
    BY <1>5, <2>1 DEF Scan
  <2> HIDE DEF p
  <2>3. ASSUME NEW t \in Free, board[t] # NoRow, ~p.overlapped PROVE Holds(p, t)
    <3>1. Holds(scan[s], t)
      BY <2>2, <2>3 DEF IInv, BoardHeld
    <3>2. t \in scan[s].sticky /\ (IsStock(t) => t \in scan[s].rwa /\ t \in Stocks) /\ t \in Tokens
      BY <1>5, <2>3, <3>1, FreeTokens DEF Holds, IInv, StocksTrue
    <3>3. t \in known /\ t \in Steady
      BY <3>2 DEF Discovered, Free
    <3>4. IsStock(t) => t \in StocksOf(s, registry)
      BY <3>2 DEF StocksOf, RegistryAnswers
    <3>5. HasIt(p, t, memes)
      BY <1>4, <2>2, <3>3, <3>4 DEF HasIt, Memes
    <3> QED
      BY <2>2, <3>5 DEF Holds
  <2>4. scan'[s] = p /\ \A o \in Scans \ {s} : scan'[o] = scan[o]
    BY <1>3, <1>5 DEF p
  <2>5. ASSUME NEW t \in Free, board'[t] # NoRow, ~scan'[s].overlapped PROVE Holds(scan[s], t)'
    <3>1. HasIt(p, t, p.memes)
      BY <1>5, <2>2, <2>3, <2>4, <2>5 DEF Holds
    <3> QED
      BY <1>5, <2>2, <2>4, <3>1 DEF Holds, HasIt, IsStock
  <2>6. OverlapKnown' /\ BoardHeld'
    BY <1>5, <2>2, <2>4, <2>5, StepOfOne
  <2>7. p.cached \cap Free = {} /\ p.stocks \subseteq Stocks
    BY <1>8, <2>2 DEF IInv, Unblocked
  <2>9. Unblocked'
    BY <1>5, <2>4, <2>7 DEF IInv, Unblocked
  <2>10. StocksTrue'
    BY <1>5, <2>2, <2>4, <2>7 DEF IInv, StocksTrue, IsStock
  <2> QED
    BY <1>7, <2>6, <2>9, <2>10 DEF IInv
<1> QED
  BY <1>9, <1>10

LEMMA ScreenIInv ==
  ASSUME IInv, NEW s \in Scans, Screen(s)
  PROVE  IInv'
<1>1. PICK gp, uni :
        /\ safety' = Judged(gp, uni, scan[s].now)
        /\ scan' = [scan EXCEPT ![s] = [@ EXCEPT !.stage = "mark",
                     !.kept = Kept(scan[s], gp, uni), !.memes = {}, !.cached = {}]]
  BY DEF Screen
<1> DEFINE kept == Kept(scan[s], gp, uni)
<1>2. /\ TypeOK /\ scan \in [Scans -> Scan] /\ scan[s] \in Scan /\ scan[s].stage = "screen"
      /\ UNCHANGED <<board, asking, trouble>>
  BY DEF IInv, TypeOK, Screen
<1>3. kept \subseteq scan[s].memes /\ Free \cap scan[s].memes \subseteq kept
  <2>1. ASSUME NEW t \in Free PROVE t \notin Blocked(gp, uni) /\ t \notin scan[s].cached
    BY <2>1, FreeTokens DEF Blocked, IInv, Unblocked
  <2> QED
    BY <2>1 DEF Kept
<1> HIDE DEF kept
<1>4. /\ scan'[s] = [scan[s] EXCEPT !.stage = "mark", !.kept = kept, !.memes = {}, !.cached = {}]
      /\ \A o \in Scans \ {s} : scan'[o] = scan[o]
  BY <1>1, <1>2 DEF kept
<1>5. /\ scan'[s].stage = "mark" /\ scan'[s].kept = kept /\ scan'[s].cached = {}
      /\ scan'[s].rwa = scan[s].rwa /\ scan'[s].stocks = scan[s].stocks
      /\ scan'[s].prunes = scan[s].prunes /\ scan'[s].registry = scan[s].registry
      /\ scan'[s].overlapped = scan[s].overlapped
  BY <1>2, <1>4 DEF Scan
<1>6. TypeOK'
  BY <1>2, StepType DEF Step
<1>7. ASSUME NEW t \in Free, board'[t] # NoRow, ~scan'[s].overlapped PROVE Holds(scan[s], t)'
  <2>1. HasIt(scan[s], t, scan[s].memes)
    BY <1>2, <1>5, <1>7 DEF Holds, IInv, BoardHeld
  <2>2. HasIt(scan[s], t, kept)
    BY <1>3, <2>1 DEF HasIt
  <2> QED
    BY <1>2, <1>5, <2>2 DEF Holds, HasIt, IsStock
<1>8. OverlapKnown' /\ BoardHeld'
  BY <1>2, <1>4, <1>5, <1>7, StepOfOne
<1>9. \A t \in Free : safety'[t] # NoRow => safety'[t].level = "ok"
  BY <1>1, <1>2, JudgedFree DEF IInv
<1>10. Unblocked'
  BY <1>4, <1>5, <1>9 DEF IInv, Unblocked
<1>11. StocksTrue'
  BY <1>2, <1>4, <1>5 DEF IInv, StocksTrue, IsStock
<1> QED
  BY <1>6, <1>8, <1>10, <1>11 DEF IInv

LEMMA MarkIInv ==
  ASSUME IInv, NEW s \in Scans, Mark(s)
  PROVE  IInv'
<1>1. /\ TypeOK /\ scan \in [Scans -> Scan] /\ scan[s] \in Scan /\ scan[s].stage = "mark"
      /\ UNCHANGED <<board, asking, trouble>>
  BY DEF IInv, TypeOK, Mark
<1>2. /\ scan'[s] = [scan[s] EXCEPT !.stage = "upsert", !.asked = {}, !.now = 0]
      /\ \A o \in Scans \ {s} : scan'[o] = scan[o]
  BY <1>1 DEF Mark
<1>3. /\ scan'[s].stage = "upsert" /\ scan'[s].kept = scan[s].kept
      /\ scan'[s].cached = scan[s].cached /\ scan'[s].rwa = scan[s].rwa
      /\ scan'[s].stocks = scan[s].stocks /\ scan'[s].prunes = scan[s].prunes
      /\ scan'[s].registry = scan[s].registry /\ scan'[s].overlapped = scan[s].overlapped
  BY <1>1, <1>2 DEF Scan
<1>4. TypeOK'
  BY <1>1, StepType DEF Step
<1>5. ASSUME NEW t \in Free, board'[t] # NoRow, ~scan'[s].overlapped PROVE Holds(scan[s], t)'
  <2>1. HasIt(scan[s], t, scan[s].kept)
    BY <1>1, <1>3, <1>5 DEF Holds, IInv, BoardHeld
  <2> QED
    BY <1>1, <1>3, <2>1 DEF Holds, HasIt, IsStock
<1>6. OverlapKnown' /\ BoardHeld'
  BY <1>1, <1>2, <1>3, <1>5, StepOfOne
<1>9. ASSUME NEW t \in Free, safety'[t] # NoRow PROVE safety'[t].level = "ok"
  <2>1. t \in Tokens
    BY FreeTokens
  <2>2. CASE t \notin scan[s].asked
    BY <1>9, <2>1, <2>2 DEF Mark, IInv, Unblocked
  <2>3. CASE t \in scan[s].asked /\ safety[t] = NoRow
    BY <2>1, <2>3 DEF Mark
  <2>4. CASE t \in scan[s].asked /\ safety[t] # NoRow
    <3>1. safety'[t] = [safety[t] EXCEPT !.asked = scan[s].now] /\ safety[t] \in Verdict
      BY <1>1, <2>1, <2>4 DEF Mark, TypeOK
    <3>2. safety[t].level = "ok"
      BY <2>4 DEF IInv, Unblocked
    <3> QED
      BY <3>1, <3>2 DEF Verdict
  <2> QED
    BY <2>2, <2>3, <2>4
<1>10. Unblocked'
  BY <1>2, <1>3, <1>9 DEF IInv, Unblocked
<1>11. StocksTrue'
  BY <1>1, <1>2, <1>3 DEF IInv, StocksTrue, IsStock
<1> QED
  BY <1>4, <1>6, <1>10, <1>11 DEF IInv

LEMMA UpsertIInv ==
  ASSUME IInv, NEW s \in Scans, Upsert(s)
  PROVE  IInv' /\ \A t \in Free : board[t] # NoRow /\ ~scan[s].overlapped =>
                     board'[t] # NoRow /\ (IsStock(t) => board'[t].kind = "rwa")
<1>1. /\ TypeOK /\ scan \in [Scans -> Scan] /\ scan[s] \in Scan /\ scan[s].stage = "upsert"
      /\ UNCHANGED <<safety, asking, trouble>>
  BY DEF IInv, TypeOK, Upsert
<1>2. /\ scan'[s] = [scan[s] EXCEPT !.stage = "prune", !.kept = {}, !.stocks = {}]
      /\ \A o \in Scans \ {s} : scan'[o] = scan[o]
  BY <1>1 DEF Upsert
<1>3. /\ scan'[s].stage = "prune" /\ scan'[s].cached = scan[s].cached
      /\ scan'[s].rwa = scan[s].rwa /\ scan'[s].stocks = {}
      /\ scan'[s].prunes = scan[s].prunes /\ scan'[s].registry = scan[s].registry
      /\ scan'[s].overlapped = scan[s].overlapped
  BY <1>1, <1>2 DEF Scan
<1>4. TypeOK'
  BY <1>1, StepType DEF Step
<1>5. \A t \in Tokens :
        board'[t] = IF t \in scan[s].kept THEN [kind |-> "meme", updated |-> 0]
                    ELSE IF t \in scan[s].stocks THEN [kind |-> "rwa", updated |-> 0]
                    ELSE board[t]
  BY DEF Upsert
<1>6. ASSUME NEW t \in Free, board[t] # NoRow, ~scan[s].overlapped
      PROVE  HasIt(scan[s], t, scan[s].kept)
  BY <1>1, <1>6 DEF Holds, IInv, BoardHeld
<1>7. ASSUME NEW t \in Free, board'[t] # NoRow, ~scan'[s].overlapped PROVE Holds(scan[s], t)'
  <2>1. t \in Tokens
    BY FreeTokens
  <2>2. CASE t \in scan[s].kept \/ t \in scan[s].stocks
    BY <1>3, <1>5, <2>1, <2>2 DEF Holds
  <2>3. CASE ~(t \in scan[s].kept \/ t \in scan[s].stocks)
    <3>1. board'[t] = board[t] /\ HasIt(scan[s], t, scan[s].kept)
      BY <1>3, <1>5, <1>6, <1>7, <2>1, <2>3
    <3> QED
      BY <1>3, <2>3, <3>1 DEF Holds, HasIt, IsStock
  <2> QED
    BY <2>2, <2>3
<1>8. OverlapKnown' /\ BoardHeld'
  BY <1>1, <1>2, <1>3, <1>7, StepOfOne
<1>9. Unblocked'
  BY <1>1, <1>2, <1>3 DEF IInv, Unblocked
<1>10. StocksTrue'
  <2>1. ASSUME NEW t \in Tokens, board'[t] # NoRow, board'[t].kind = "rwa" PROVE t \in Stocks
    BY <1>5, <2>1 DEF IInv, StocksTrue, IsStock
  <2> QED
    BY <1>2, <1>3, <2>1 DEF IInv, StocksTrue, IsStock
<1>11. ASSUME NEW t \in Free, board[t] # NoRow, ~scan[s].overlapped
       PROVE  board'[t] # NoRow /\ (IsStock(t) => board'[t].kind = "rwa")
  <2>1. t \in Tokens /\ HasIt(scan[s], t, scan[s].kept)
    BY <1>6, <1>11, FreeTokens
  <2>2. board'[t] \in Row \cup {NoRow}
    BY <1>4, <2>1 DEF TypeOK
  <2>3. [kind |-> "meme", updated |-> 0] # NoRow /\ [kind |-> "rwa", updated |-> 0] # NoRow
    BY RowType DEF Row, RowAges
  <2> QED
    BY <1>5, <1>11, <2>1, <2>3 DEF HasIt, IsStock
<1> QED
  BY <1>4, <1>8, <1>9, <1>10, <1>11 DEF IInv

LEMMA PruneIInv ==
  ASSUME IInv, NEW s \in Scans, Prune(s) \/ PruneStocks(s)
  PROVE  IInv' /\ \A t \in Free : board[t] # NoRow /\ ~scan[s].overlapped => board'[t] = board[t]
<1>1. /\ TypeOK /\ scan \in [Scans -> Scan] /\ scan[s] \in Scan
      /\ scan[s].stage \in {"prune", "pruneStocks"}
      /\ UNCHANGED <<safety, asking, trouble>>
  BY DEF IInv, TypeOK, Prune, PruneStocks
<1>2. \A o \in Scans \ {s} : scan'[o] = scan[o]
  BY <1>1 DEF Prune, PruneStocks
<1>3. \/ /\ scan'[s].stage = "pruneStocks" /\ scan[s].stage = "prune"
         /\ scan'[s].cached = scan[s].cached /\ scan'[s].rwa = scan[s].rwa
         /\ scan'[s].stocks = scan[s].stocks /\ scan'[s].registry = scan[s].registry
         /\ scan'[s].overlapped = scan[s].overlapped
      \/ scan'[s] = Idle
  <2>1. CASE Prune(s)
    <3>1. scan'[s] = [scan[s] EXCEPT !.stage = "pruneStocks"] /\ scan[s].stage = "prune"
      BY <1>1, <2>1 DEF Prune
    <3> QED
      BY <1>1, <3>1 DEF Scan
  <2>2. CASE PruneStocks(s)
    BY <1>1, <2>2 DEF PruneStocks
  <2> QED
    BY <2>1, <2>2
<1>4. TypeOK'
  BY <1>1, StepType DEF Step
<1>5. \A t \in Tokens :
        \/ board'[t] = board[t]
        \/ /\ board'[t] = NoRow /\ Outdated(t)
           /\ \/ scan[s].stage = "prune" /\ scan[s].prunes /\ ~IsStock(t)
              \/ scan[s].registry /\ IsStock(t)
  BY DEF Prune, PruneStocks, IsStock
<1>6. ASSUME NEW t \in Free, board[t] # NoRow, ~scan[s].overlapped
      PROVE  Holds(scan[s], t) /\ board'[t] = board[t]
  <2>1. Holds(scan[s], t) /\ t \in Tokens
    BY <1>6, FreeTokens DEF IInv, BoardHeld
  <2> QED
    BY <1>1, <1>5, <2>1 DEF Holds, Outdated
<1>7. ASSUME NEW t \in Free, board'[t] # NoRow, ~scan'[s].overlapped PROVE Holds(scan[s], t)'
  <2>1. CASE scan'[s] = Idle
    BY <2>1 DEF Holds, Idle
  <2>2. CASE scan'[s] # Idle
    <3>1. t \in Tokens /\ ~scan[s].overlapped /\ board[t] # NoRow
      BY <1>3, <1>5, <1>7, <2>2, FreeTokens
    <3>2. Holds(scan[s], t) /\ board'[t] = board[t]
      BY <1>6, <3>1
    <3> QED
      BY <1>3, <2>2, <3>2 DEF Holds, IsStock
  <2> QED
    BY <2>1, <2>2
<1>8. OverlapKnown' /\ BoardHeld'
  BY <1>1, <1>2, <1>3, <1>7, StepOfOne DEF Idle
<1>9. Unblocked'
  BY <1>1, <1>2, <1>3 DEF IInv, Unblocked, Idle
<1>10. StocksTrue'
  <2>1. ASSUME NEW t \in Tokens, board'[t] # NoRow, board'[t].kind = "rwa" PROVE t \in Stocks
    BY <1>5, <2>1 DEF IInv, StocksTrue, IsStock
  <2> QED
    BY <1>2, <1>3, <2>1 DEF IInv, StocksTrue, IsStock, Idle
<1> QED
  BY <1>4, <1>6, <1>8, <1>9, <1>10 DEF IInv

LEMMA TickIInv ==
  ASSUME IInv, Tick
  PROVE  IInv' /\ \A t \in Tokens : board[t] # NoRow =>
                     board'[t] # NoRow /\ board'[t].kind = board[t].kind
<1>1. /\ TypeOK /\ scan \in [Scans -> Scan] /\ Cron \in Scans
      /\ scan[Cron].stage = "idle" /\ UNCHANGED <<asking, trouble>>
      /\ \A s \in Scans : scan[s].stage \in {"idle", "fetch", "screen", "mark"}
  BY DEF IInv, TypeOK, Tick, Scans
<1>2. TypeOK'
  BY <1>1, TickType
<1>3. ASSUME NEW t \in Tokens
      PROVE  /\ board[t] = NoRow => board'[t] = NoRow
             /\ board[t] # NoRow => board'[t] # NoRow /\ board'[t].kind = board[t].kind
  <2>1. CASE board[t] = NoRow
    BY <2>1 DEF Tick, Rows
  <2>2. CASE board[t] # NoRow
    <3>1. board[t] \in Row /\ board'[t] = [board[t] EXCEPT !.updated = 1]
      BY <1>1, <2>2 DEF Tick, Rows, TypeOK
    <3>2. board'[t] \in Row /\ board'[t].kind = board[t].kind
      BY <3>1 DEF Row, RowAges
    <3> QED
      BY <2>2, <3>2, RowType
  <2> QED
    BY <2>1, <2>2
<1>4. ASSUME NEW t \in Free, safety'[t] # NoRow PROVE safety'[t].level = "ok"
  <2>1. t \in Tokens
    BY FreeTokens
  <2>2. safety[t] # NoRow
    BY <1>4, <2>1 DEF Tick
  <2>3. /\ safety[t] \in Verdict /\ safety[t].level = "ok"
        /\ safety'[t] = [safety[t] EXCEPT !.checked = Older(@, ApiTtl), !.asked = Older(@, Never)]
    BY <1>1, <2>1, <2>2 DEF Tick, TypeOK, IInv, Unblocked
  <2> QED
    BY <2>3 DEF Verdict
<1>5. scan'[Cron] = Begun(Cron)
  BY <1>1 DEF Tick
<1>6. /\ scan'[Cron].stage = "fetch" /\ scan'[Cron].sticky = Rows /\ scan'[Cron].cached = {}
      /\ scan'[Cron].rwa = {t \in Rows : board[t].kind = "rwa"} /\ scan'[Cron].stocks = {}
      /\ scan'[Cron].overlapped = Busy(Cron)
  BY <1>1, <1>5, BegunIs, Zenon
<1>7. ASSUME NEW s \in Scans \ {Cron}
      PROVE  /\ scan'[s].stage = scan[s].stage /\ scan'[s].cached = scan[s].cached
             /\ scan'[s].rwa = scan[s].rwa /\ scan'[s].stocks = scan[s].stocks
             /\ scan[s].stage # "idle" => scan'[s].overlapped
  <2>1. scan'[s] = Later(Overlapped(s)) /\ scan[s] \in Scan
    BY <1>1, <1>7 DEF Tick
  <2>2. /\ Overlapped(s) \in Scan
        /\ Overlapped(s).stage = scan[s].stage /\ Overlapped(s).cached = scan[s].cached
        /\ Overlapped(s).rwa = scan[s].rwa /\ Overlapped(s).stocks = scan[s].stocks
        /\ scan[s].stage # "idle" => Overlapped(s).overlapped
    BY <2>1 DEF Overlapped, Scan
  <2> QED
    BY <2>1, <2>2 DEF Later, Scan
<1>8. Unblocked'
  <2>1. ASSUME NEW s \in Scans PROVE scan'[s].cached \cap Free = {}
    BY <1>6, <1>7 DEF IInv, Unblocked
  <2> QED
    BY <1>4, <2>1 DEF Unblocked
<1>9. StocksTrue'
  <2>1. ASSUME NEW t \in Tokens, board'[t] # NoRow, board'[t].kind = "rwa" PROVE t \in Stocks
    BY <1>3, <2>1 DEF IInv, StocksTrue, IsStock
  <2>2. ASSUME NEW s \in Scans PROVE scan'[s].rwa \subseteq Stocks /\ scan'[s].stocks \subseteq Stocks
    BY <1>6, <1>7 DEF IInv, StocksTrue, IsStock, Rows
  <2> QED
    BY <2>1, <2>2 DEF StocksTrue, IsStock
<1>10. OverlapKnown'
  <2>1. ASSUME NEW o \in Scans \ {Cron}, scan[o].stage # "idle" PROVE scan'[Cron].overlapped
    <3>1. Busy(Cron)
      BY <2>1 DEF Busy
    <3> QED
      BY <1>6, <3>1, Zenon
  <2> QED
    BY <1>6, <1>7, <2>1 DEF IInv, OverlapKnown
<1>11. ASSUME NEW s \in Scans, NEW t \in Free, board'[t] # NoRow, ~scan'[s].overlapped
       PROVE  Holds(scan[s], t)'
  <2>1. t \in Tokens /\ board[t] # NoRow /\ board'[t].kind = board[t].kind
    BY <1>3, <1>11, FreeTokens
  <2>2. CASE s = Cron
    BY <1>6, <2>1, <2>2 DEF Holds, IsStock, Rows
  <2>3. CASE s # Cron
    BY <1>7, <1>11, <2>3 DEF Holds
  <2> QED
    BY <2>2, <2>3
<1> QED
  BY <1>2, <1>3, <1>8, <1>9, <1>10, <1>11 DEF IInv, BoardHeld

LEMMA RequestIInv ==
  ASSUME IInv, NEW s \in Scans, Request(s)
  PROVE  IInv'
<1>1. /\ TypeOK /\ scan \in [Scans -> Scan] /\ scan[s].stage = "idle"
      /\ UNCHANGED <<board, safety, asking>>
  BY DEF IInv, TypeOK, Request
<1>2. TypeOK'
  BY NextType DEF Next, IInv
<1>3. scan'[s] = Begun(s)
  BY DEF Request
<1>4. /\ scan'[s].stage = "fetch" /\ scan'[s].sticky = Rows /\ scan'[s].cached = {}
      /\ scan'[s].rwa = {t \in Rows : board[t].kind = "rwa"} /\ scan'[s].stocks = {}
      /\ scan'[s].overlapped = Busy(s)
  BY <1>3, BegunIs, Zenon
<1>5. ASSUME NEW o \in Scans \ {s}
      PROVE  /\ scan'[o].stage = scan[o].stage /\ scan'[o].cached = scan[o].cached
             /\ scan'[o].rwa = scan[o].rwa /\ scan'[o].stocks = scan[o].stocks
             /\ scan[o].stage # "idle" => scan'[o].overlapped
  <2>1. scan'[o] = Overlapped(o) /\ scan[o] \in Scan
    BY <1>1, <1>5 DEF Request
  <2> QED
    BY <2>1 DEF Overlapped, Scan
<1>6. Unblocked'
  <2>1. ASSUME NEW o \in Scans PROVE scan'[o].cached \cap Free = {}
    BY <1>4, <1>5 DEF IInv, Unblocked
  <2> QED
    BY <1>1, <2>1 DEF IInv, Unblocked
<1>7. StocksTrue'
  <2>1. ASSUME NEW o \in Scans PROVE scan'[o].rwa \subseteq Stocks /\ scan'[o].stocks \subseteq Stocks
    BY <1>4, <1>5 DEF IInv, StocksTrue, IsStock, Rows
  <2> QED
    BY <1>1, <2>1 DEF IInv, StocksTrue, IsStock
<1>8. OverlapKnown'
  <2>1. ASSUME NEW o \in Scans \ {s}, scan[o].stage # "idle" PROVE scan'[s].overlapped
    <3>1. Busy(s)
      BY <2>1 DEF Busy
    <3> QED
      BY <1>4, <3>1, Zenon
  <2> QED
    BY <1>4, <1>5, <2>1 DEF IInv, OverlapKnown
<1>9. ASSUME NEW o \in Scans, NEW t \in Free, board'[t] # NoRow, ~scan'[o].overlapped
      PROVE  Holds(scan[o], t)'
  <2>1. CASE o = s
    BY <1>1, <1>4, <1>9, <2>1, FreeTokens DEF Holds, IsStock, Rows
  <2>2. CASE o # s
    BY <1>5, <1>9, <2>2 DEF Holds
  <2> QED
    BY <2>1, <2>2
<1> QED
  BY <1>2, <1>6, <1>7, <1>8, <1>9 DEF IInv, BoardHeld

LEMMA DieIInv ==
  ASSUME IInv, NEW s \in Scans, Die(s)
  PROVE  IInv'
<1>1. /\ scan'[s] = Idle /\ \A o \in Scans \ {s} : scan'[o] = scan[o]
      /\ scan[s].stage # "idle" /\ UNCHANGED <<board, safety, asking>>
  BY DEF Die, IInv, TypeOK
<1>2. TypeOK'
  BY NextType DEF Next, IInv
<1>3. Unblocked' /\ StocksTrue'
  BY <1>1 DEF IInv, Unblocked, StocksTrue, IsStock, Idle
<1>4. OverlapKnown' /\ BoardHeld'
  BY <1>1, StepOfOne DEF Holds, Idle
<1> QED
  BY <1>2, <1>3, <1>4 DEF IInv

LEMMA ApiIInv ==
  ASSUME IInv, NEW t \in Tokens, ApiRead(t) \/ ApiAnswer(t)
  PROVE  IInv'
<1>1. UNCHANGED <<board, scan>> /\ TypeOK
  BY DEF ApiRead, ApiAnswer, IInv
<1>2. TypeOK'
  BY <1>1, NextType DEF Next
<1>3. \A u \in Free : safety'[u] # NoRow => safety'[u].level = "ok"
  <2>1. CASE ApiRead(t)
    BY <2>1 DEF ApiRead, IInv, Unblocked
  <2>2. CASE ApiAnswer(t)
    <3>1. PICK gp, uni : safety' = Judged(gp, uni, 0)
      BY <2>2 DEF ApiAnswer
    <3> QED
      BY <1>1, <3>1, JudgedFree DEF IInv
  <2> QED
    BY <2>1, <2>2
<1> QED
  BY <1>1, <1>2, <1>3
     DEF IInv, Unblocked, StocksTrue, OverlapKnown, BoardHeld, Holds, HasIt, IsStock

(* The step part of OutageKeepsBoard.                                      *)
StepKeepsBoard ==
  \A t \in Free :
    board[t] # NoRow /\ (\A s \in Scans : ~scan[s].overlapped) =>
      board'[t] # NoRow /\ (IsStock(t) => board'[t].kind = "rwa")

LEMMA NextIInv ==
  ASSUME IInv, [Next]_vars
  PROVE  IInv' /\ StepKeepsBoard
<1>0. ASSUME UNCHANGED board PROVE StepKeepsBoard
  BY <1>0 DEF StepKeepsBoard, IsStock
<1>1. CASE Tick
  BY <1>1, TickIInv, FreeTokens DEF StepKeepsBoard, IsStock
<1>2. ASSUME NEW s \in Scans, Request(s) \/ Die(s) PROVE IInv' /\ StepKeepsBoard
  BY <1>0, <1>2, RequestIInv, DieIInv DEF Request, Die
<1>3. ASSUME NEW s \in Scans, Fetch(s) \/ Screen(s) \/ Mark(s) PROVE IInv' /\ StepKeepsBoard
  BY <1>0, <1>3, FetchIInv, ScreenIInv, MarkIInv DEF Fetch, Screen, Mark
<1>4. ASSUME NEW s \in Scans, Upsert(s) PROVE IInv' /\ StepKeepsBoard
  BY <1>4, UpsertIInv DEF StepKeepsBoard
<1>5. ASSUME NEW s \in Scans, Prune(s) \/ PruneStocks(s) PROVE IInv' /\ StepKeepsBoard
  BY <1>5, PruneIInv DEF StepKeepsBoard, IsStock
<1>6. ASSUME NEW t \in Tokens, ApiRead(t) \/ ApiAnswer(t) PROVE IInv' /\ StepKeepsBoard
  BY <1>0, <1>6, ApiIInv DEF ApiRead, ApiAnswer
<1>7. CASE UNCHANGED vars
  <2>1. IInv'
    BY <1>7 DEF vars, IInv, TypeOK, Unblocked, StocksTrue, OverlapKnown, BoardHeld, Holds, HasIt,
                IsStock
  <2> QED
    BY <1>0, <1>7, <2>1 DEF vars
<1> QED
  BY <1>1, <1>2, <1>3, <1>4, <1>5, <1>6, <1>7 DEF Next, Step

(* Outages, deaths and API requests never cost a listed token its place,   *)
(* nor a stock its kind, as long as no two scans overlap.                  *)
THEOREM BoardKept == Spec => OutageKeepsBoard
<1>1. ASSUME IInv, [Next]_vars
      PROVE  [\A t \in Steady \ (Taxed \cup Flagged) :
               board[t] # NoRow /\ (\A s \in Scans : ~scan[s].overlapped) =>
                 /\ board'[t] # NoRow
                 /\ board[t].kind = "rwa" => board'[t].kind = "rwa"]_vars
  BY <1>1, NextIInv DEF StepKeepsBoard, Free, IsStock
<1> QED
  BY <1>1, InitIInv, NextIInv, PTL DEF Spec, OutageKeepsBoard

-----------------------------------------------------------------------------
(* Minutes and buckets.                                                    *)

(* A block is of the one minute whose blocks it lies among.                *)
LEMMA MinuteIs ==
  ASSUME NEW b \in Nat \ {0}
  PROVE  /\ MinuteOf(b) \in Nat
         /\ MinuteOf(b) * PerMinute < b /\ b <= (MinuteOf(b) + 1) * PerMinute
<1> DEFINE P == PerMinute
           q == (b - 1) \div P
<1>1. P \in Nat \ {0}
  BY CandlesAssumption
<1>2. b - 1 \in Nat
  OBVIOUS
<1> HIDE DEF P
<1>3. q \in Int /\ P * q <= b - 1 /\ b - 1 < P * q + P
  BY <1>1, <1>2
<1>4. q >= 0
  BY <1>1, <1>2
<1>5. MinuteOf(b) = q
  BY DEF MinuteOf, P
<1> HIDE DEF q
<1>6. (q + 1) * P = P * q + P /\ q * P = P * q
  BY <1>1, <1>3
<1>7. q \in Nat /\ q * P < b /\ b <= (q + 1) * P
  <2>1. P * q \in Int
    BY <1>1, <1>3
  <2> QED
    BY <1>1, <1>3, <1>4, <1>6, <2>1
<1> QED
  BY <1>5, <1>7 DEF P

LEMMA MinuteUnique ==
  ASSUME NEW b \in Nat \ {0}, NEW m \in Nat
  PROVE  MinuteOf(b) = m <=> m * PerMinute + 1 <= b /\ b <= (m + 1) * PerMinute
<1> DEFINE n == MinuteOf(b)
           P == PerMinute
<1>1. P \in Nat \ {0}
  BY CandlesAssumption
<1>2. n \in Nat /\ n * P < b /\ b <= (n + 1) * P
  BY MinuteIs
<1> HIDE DEF n, P
<1>3. ASSUME NEW x \in Nat, NEW y \in Nat, x < y PROVE (x + 1) * P <= y * P
  <2>1. PICK k \in Nat : y = (x + 1) + k
    <3>1. y - (x + 1) \in Nat /\ y = (x + 1) + (y - (x + 1))
      BY <1>3
    <3> QED
      BY <3>1
  <2>2. y * P = (x + 1) * P + k * P
    BY <2>1, <1>1
  <2>3. k * P >= 0
    BY <1>1
  <2>4. (x + 1) * P \in Int /\ k * P \in Int
    BY <1>1
  <2> QED
    BY <2>2, <2>3, <2>4
<1>4. n * P \in Int /\ m * P \in Int /\ (n + 1) * P \in Int /\ (m + 1) * P \in Int
  BY <1>1, <1>2
<1> SUFFICES n = m <=> m * P + 1 <= b /\ b <= (m + 1) * P
  BY DEF n, P
<1>5. CASE n < m
  <2>1. (n + 1) * P <= m * P
    BY <1>2, <1>3, <1>5
  <2> QED
    BY <1>2, <1>4, <1>5, <2>1
<1>6. CASE m < n
  <2>1. (m + 1) * P <= n * P
    BY <1>2, <1>3, <1>6
  <2> QED
    BY <1>2, <1>4, <1>6, <2>1
<1>7. CASE n = m
  BY <1>2, <1>4, <1>7
<1> QED
  BY <1>2, <1>5, <1>6, <1>7

(* Later blocks are of no earlier minute.                                  *)
LEMMA MinutesInOrder ==
  ASSUME NEW b \in Nat \ {0}, NEW c \in Nat \ {0}, MinuteOf(b) < MinuteOf(c)
  PROVE  b < c
<1> DEFINE P == PerMinute
           m == MinuteOf(b)
           n == MinuteOf(c)
<1>1. P \in Nat \ {0}
  BY CandlesAssumption
<1>2. /\ m \in Nat /\ b <= (m + 1) * P
      /\ n \in Nat /\ n * P < c
  BY MinuteIs
<1> HIDE DEF m, n, P
<1>3. m + 1 <= n
  BY <1>2 DEF m, n
<1>4. (m + 1) * P <= n * P
  BY <1>1, <1>2, <1>3
<1>5. n * P \in Int /\ (m + 1) * P \in Int
  BY <1>1, <1>2
<1> QED
  BY <1>2, <1>4, <1>5

-----------------------------------------------------------------------------
(* What a fold is.                                                         *)

(* g folds the prices of s at every set of their positions.                *)
FoldsUp(g, s) ==
  g = [t \in SUBSET DOMAIN s |-> IF t = {} THEN None ELSE WithSwap(g[t \ {Max(t)}], s[Max(t)])]

(* Every sequence has its fold.                                            *)
LEMMA FoldsExist ==
  ASSUME NEW s \in Seq(Prices)
  PROVE  \E g : FoldsUp(g, s)
<1> DEFINE A == Candle \cup {None}
           f == [x \in A \X Prices |-> WithSwap(x[1], x[2])]
<1>1. f \in [A \X Prices -> A]
  <2> SUFFICES ASSUME NEW c \in A, NEW p \in Prices PROVE WithSwap(c, p) \in Candle
    OBVIOUS
  <2>1. p \in Nat
    BY CandlesAssumption
  <2>2. CASE c = None
    BY <2>1, <2>2 DEF WithSwap, Candle
  <2>3. CASE c # None
    <3>1. /\ c \in Candle /\ c.swaps + 1 \in Nat /\ c.fees + p \in Nat
          /\ Larger(p, c.high) \in Prices /\ Smaller(p, c.low) \in Prices
      BY <2>1, <2>3 DEF Candle, Larger, Smaller
    <3> QED
      BY <2>3, <3>1 DEF WithSwap, Candle
  <2> QED
    BY <2>2, <2>3
<1>2. PICK g : FoldsWith(g, f, None, s) /\ \A u \in SUBSET DOMAIN s : g[u] \in A
  <2>1. None \in A
    OBVIOUS
  <2> HIDE DEF f, A
  <2> QED
    BY <1>1, <2>1, FoldExists
<1>3. \A u \in SUBSET DOMAIN s : u # {} =>
        f[<<g[u \ {Max(u)}], s[Max(u)]>>] = WithSwap(g[u \ {Max(u)}], s[Max(u)])
  <2> SUFFICES ASSUME NEW u \in SUBSET DOMAIN s, u # {}
               PROVE  f[<<g[u \ {Max(u)}], s[Max(u)]>>] = WithSwap(g[u \ {Max(u)}], s[Max(u)])
    OBVIOUS
  <2>1. Max(u) \in DOMAIN s
    BY LastPosition
  <2>2. g[u \ {Max(u)}] \in A /\ s[Max(u)] \in Prices
    BY <1>2, <2>1
  <2> QED
    BY <2>2
<1> QED
  BY <1>2, <1>3, Zenon DEF FoldsUp, FoldsWith

(* A fold from the left is the value of such a function.                   *)
LEMMA FoldIs ==
  ASSUME NEW s \in Seq(Prices)
  PROVE  \E g : FoldsUp(g, s) /\ FoldLeft(WithSwap, None, s) = g[DOMAIN s]
<1> DEFINE g == CHOOSE g : FoldsUp(g, s)
<1>1. FoldLeft(WithSwap, None, s) = g[DOMAIN s]
  BY Zenon DEF FoldLeft, MapThenFoldSet, FoldsUp
<1>2. FoldsUp(g, s)
  BY FoldsExist
<1> QED
  BY <1>1, <1>2

(* The candle c is that of the blocks i .. j of ch.                        *)
OfRange(c, ch, i, j) ==
  /\ c \in Candle
  /\ c.open = ch[i] /\ c.close = ch[j]
  /\ c.swaps = j - i + 1
  /\ c.fees = SumFunctionOnSet(ch, i .. j)
  /\ \E b \in i .. j : c.high = ch[b]
  /\ \A b \in i .. j : ch[b] <= c.high
  /\ \E b \in i .. j : c.low = ch[b]
  /\ \A b \in i .. j : c.low <= ch[b]

LEMMA RangeIntegral ==
  ASSUME NEW ch \in Seq(Prices), NEW i \in Nat \ {0}, NEW j \in Nat, j <= Len(ch)
  PROVE  Integral(ch, i .. j) /\ \A b \in i .. j : ch[b] \in Prices /\ ch[b] \in Nat
<1>1. \A b \in i .. j : ch[b] \in Prices
  OBVIOUS
<1>2. Prices \subseteq Nat
  BY CandlesAssumption
<1>3. IsFiniteSet(i .. j)
  BY FS_Interval
<1>4. \A b \in i .. j : ch[b] \in Nat
  BY <1>1, <1>2
<1>5. \A b \in i .. j : ch[b] \in Int
  BY <1>4
<1> QED
  BY <1>1, <1>3, <1>4, <1>5 DEF Integral

(* A first swap makes a candle, and a further one changes it as it should. *)
LEMMA FirstSwap ==
  ASSUME NEW ch \in Seq(Prices), NEW i \in Nat \ {0}, i <= Len(ch)
  PROVE  OfRange(WithSwap(None, ch[i]), ch, i, i)
<1>1. ch[i] \in Prices /\ ch[i] \in Nat /\ i .. i = {i} /\ Integral(ch, i .. i)
  <2>1. Integral(ch, i .. i) /\ \A b \in i .. i : ch[b] \in Prices /\ ch[b] \in Nat
    BY RangeIntegral
  <2>2. i .. i = {i}
    OBVIOUS
  <2> QED
    BY <2>1, <2>2
<1>2. SumFunctionOnSet(ch, i .. i) = ch[i]
  <2>1. SumFunctionOnSet(ch, i .. i) = ch[i] + SumFunctionOnSet(ch, (i .. i) \ {i})
    <3>1. i \in i .. i
      OBVIOUS
    <3> QED
      BY <1>1, <3>1, SumSplit
  <2>2. (i .. i) \ {i} = {}
    BY <1>1
  <2>3. SumFunctionOnSet(ch, (i .. i) \ {i}) = 0
    BY <2>2, SumEmpty
  <2>4. ch[i] \in Nat
    BY <1>1
  <2> QED
    BY <2>1, <2>3, <2>4
<1> DEFINE c == WithSwap(None, ch[i])
<1>3. c = [open |-> ch[i], high |-> ch[i], low |-> ch[i], close |-> ch[i], swaps |-> 1, fees |-> ch[i]]
  BY DEF WithSwap
<1>4. c \in Candle
  BY <1>1, <1>3 DEF Candle
<1>5. /\ c.open = ch[i] /\ c.high = ch[i] /\ c.low = ch[i] /\ c.close = ch[i]
      /\ c.swaps = 1 /\ c.fees = ch[i]
  BY <1>3
<1> HIDE DEF c
<1>6. OfRange(c, ch, i, i)
  BY <1>1, <1>2, <1>4, <1>5 DEF OfRange
<1> QED
  BY <1>6 DEF c

LEMMA NextSwap ==
  ASSUME NEW ch \in Seq(Prices), NEW i \in Nat \ {0}, NEW j \in Nat, i < j, j <= Len(ch),
         NEW c, OfRange(c, ch, i, j - 1)
  PROVE  OfRange(WithSwap(c, ch[j]), ch, i, j)
<1> DEFINE px == ch[j]
           d == WithSwap(c, px)
<1>1. /\ px \in Prices /\ px \in Nat /\ Prices \subseteq Nat /\ j \in i .. j
      /\ \A b \in i .. j : ch[b] \in Prices /\ ch[b] \in Nat
  BY RangeIntegral, CandlesAssumption
<1>2. (i .. j) \ {j} = i .. (j - 1)
  OBVIOUS
<1>3. SumFunctionOnSet(ch, i .. j) = px + SumFunctionOnSet(ch, i .. (j - 1))
  <2>1. Integral(ch, i .. j)
    BY RangeIntegral
  <2>2. SumFunctionOnSet(ch, i .. j) = ch[j] + SumFunctionOnSet(ch, (i .. j) \ {j})
    BY <1>1, <2>1, SumSplit
  <2> QED
    BY <1>2, <2>2
<1>4. /\ c \in Candle /\ c # None
      /\ c.open \in Prices /\ c.high \in Prices /\ c.low \in Prices /\ c.close \in Prices
      /\ c.swaps \in Nat /\ c.fees \in Nat
  BY NoneAssumption DEF OfRange, Candle
<1>14. c.high \in Nat /\ c.low \in Nat
  BY <1>1, <1>4
<1>5. d = [c EXCEPT !.close = px, !.high = Larger(px, @), !.low = Smaller(px, @), !.swaps = @ + 1,
                    !.fees = @ + px]
  BY <1>4 DEF WithSwap
<1>6. /\ d.open = c.open /\ d.close = px /\ d.high = Larger(px, c.high) /\ d.low = Smaller(px, c.low)
      /\ d.swaps = c.swaps + 1 /\ d.fees = c.fees + px
  BY <1>4, <1>5 DEF Candle
<1>7. Larger(px, c.high) \in Prices /\ Smaller(px, c.low) \in Prices
  BY <1>1, <1>4 DEF Larger, Smaller
<1>8. d \in Candle
  <2>1. c.swaps + 1 \in Nat /\ c.fees + px \in Nat
    BY <1>1, <1>4
  <2>2. d = [open |-> c.open, high |-> d.high, low |-> d.low, close |-> px, swaps |-> d.swaps,
             fees |-> d.fees]
    BY <1>4, <1>5, <1>6 DEF Candle
  <2> HIDE DEF d, px
  <2> QED
    BY <1>1, <1>4, <1>6, <1>7, <2>1, <2>2 DEF Candle
<1> HIDE DEF d, px
<1>9. (\E b \in i .. j : d.high = ch[b]) /\ (\A b \in i .. j : ch[b] <= d.high)
  <2>1. PICK b \in i .. (j - 1) : c.high = ch[b]
    BY DEF OfRange
  <2>2. b \in i .. j /\ ch[j] = px
    BY DEF px
  <2>3. d.high = px \/ d.high = ch[b]
    BY <1>6, <2>1 DEF Larger
  <2>4. px <= d.high /\ c.high <= d.high
    BY <1>1, <1>6, <1>14 DEF Larger
  <2>5. ASSUME NEW e \in i .. j PROVE ch[e] <= d.high
    <3>1. CASE e = j
      BY <2>2, <2>4, <3>1
    <3>2. CASE e # j
      <4>1. e \in i .. (j - 1)
        BY <3>2
      <4>2. ch[e] <= c.high
        BY <4>1 DEF OfRange
      <4>3. ch[e] \in Nat /\ c.high \in Nat /\ d.high \in Nat
        BY <1>1, <1>4, <1>6, <1>7
      <4> QED
        BY <2>4, <4>2, <4>3
    <3> QED
      BY <3>1, <3>2
  <2> QED
    BY <1>1, <2>2, <2>3, <2>5
<1>10. (\E b \in i .. j : d.low = ch[b]) /\ (\A b \in i .. j : d.low <= ch[b])
  <2>1. PICK b \in i .. (j - 1) : c.low = ch[b]
    BY DEF OfRange
  <2>2. b \in i .. j /\ ch[j] = px
    BY DEF px
  <2>3. d.low = px \/ d.low = ch[b]
    BY <1>6, <2>1 DEF Smaller
  <2>4. d.low <= px /\ d.low <= c.low
    BY <1>1, <1>6, <1>14 DEF Smaller
  <2>5. ASSUME NEW e \in i .. j PROVE d.low <= ch[e]
    <3>1. CASE e = j
      BY <2>2, <2>4, <3>1
    <3>2. CASE e # j
      <4>1. e \in i .. (j - 1)
        BY <3>2
      <4>2. c.low <= ch[e]
        BY <4>1 DEF OfRange
      <4>3. ch[e] \in Nat /\ c.low \in Nat /\ d.low \in Nat
        BY <1>1, <1>4, <1>6, <1>7
      <4> QED
        BY <2>4, <4>2, <4>3
    <3> QED
      BY <3>1, <3>2
  <2> QED
    BY <1>1, <2>2, <2>3, <2>5
<1>11. d.swaps = j - i + 1 /\ d.fees = SumFunctionOnSet(ch, i .. j)
  <2>1. c.swaps = (j - 1) - i + 1 /\ c.fees = SumFunctionOnSet(ch, i .. (j - 1))
    BY DEF OfRange
  <2> QED
    BY <1>1, <1>3, <1>4, <1>6, <2>1
<1>12. d.open = ch[i] /\ d.close = ch[j]
  BY <1>6 DEF OfRange, px
<1>13. OfRange(d, ch, i, j)
  BY <1>8, <1>9, <1>10, <1>11, <1>12 DEF OfRange
<1> QED
  BY <1>13 DEF d, px

(* foldCandles makes of a range what it should.                            *)
LEMMA FoldOfRange ==
  ASSUME NEW ch \in Seq(Prices), NEW i \in Nat \ {0}, NEW j \in Nat, i <= j, j <= Len(ch)
  PROVE  OfRange(FoldLeft(WithSwap, None, SubSeq(ch, i, j)), ch, i, j)
<1> DEFINE s == SubSeq(ch, i, j)
           n == j - i + 1
<1>1. /\ s \in Seq(Prices) /\ Len(s) = n /\ DOMAIN s = 1 .. n /\ n \in Nat \ {0}
      /\ \A k \in 1 .. n : s[k] = ch[i + k - 1]
  BY SubSeqProperties
<1>2. PICK g : FoldsUp(g, s) /\ FoldLeft(WithSwap, None, s) = g[DOMAIN s]
  BY <1>1, FoldIs
<1> HIDE DEF s
<1>3. \A k \in 1 .. n : g[1 .. k] = WithSwap(g[1 .. (k - 1)], ch[i + k - 1])
  <2> TAKE k \in 1 .. n
  <2>1. (1 .. k) \in SUBSET DOMAIN s /\ (1 .. k) # {} /\ (1 .. k) \in SUBSET (1 .. n)
    <3>1. 1 \in 1 .. k /\ (1 .. k) \subseteq 1 .. n
      OBVIOUS
    <3> QED
      BY <1>1, <3>1
  <2>2. Max(1 .. k) \in 1 .. k /\ \A y \in 1 .. k : Max(1 .. k) >= y
    BY <1>1, <2>1, LastPosition
  <2>3. Max(1 .. k) = k
    BY <2>2
  <2>4. g[1 .. k] = WithSwap(g[(1 .. k) \ {Max(1 .. k)}], s[Max(1 .. k)])
    BY <1>2, <2>1 DEF FoldsUp
  <2>5. (1 .. k) \ {k} = 1 .. (k - 1)
    OBVIOUS
  <2> QED
    BY <1>1, <2>3, <2>4, <2>5
<1>4. g[1 .. 0] = None
  <2>1. 1 .. 0 = {} /\ {} \in SUBSET DOMAIN s
    OBVIOUS
  <2> QED
    BY <1>2, <2>1 DEF FoldsUp
<1> DEFINE Bad == {k \in 1 .. n : ~OfRange(g[1 .. k], ch, i, i + k - 1)}
<1>5. Bad = {}
  <2> SUFFICES ASSUME Bad # {} PROVE FALSE
    OBVIOUS
  <2>1. PICK k \in Bad : \A l \in Bad : k <= l
    <3>1. Bad \in SUBSET Nat
      OBVIOUS
    <3> HIDE DEF Bad
    <3> QED
      BY <3>1, Least
  <2>2. k \in 1 .. n /\ ~OfRange(g[1 .. k], ch, i, i + k - 1)
    BY <2>1
  <2>3. g[1 .. k] = WithSwap(g[1 .. (k - 1)], ch[i + k - 1])
    BY <1>3, <2>2
  <2>4. CASE k = 1
    <3>1. g[1 .. k] = WithSwap(None, ch[i]) /\ i + k - 1 = i
      BY <1>4, <2>3, <2>4
    <3>2. OfRange(WithSwap(None, ch[i]), ch, i, i)
      BY FirstSwap
    <3> QED
      BY <2>2, <3>1, <3>2
  <2>5. CASE k # 1
    <3>1. k - 1 \in 1 .. n /\ k - 1 \notin Bad
      BY <2>1, <2>2, <2>5
    <3>2. OfRange(g[1 .. (k - 1)], ch, i, i + (k - 1) - 1)
      BY <3>1
    <3> DEFINE e == i + k - 1
               c == g[1 .. (k - 1)]
    <3>3. i + (k - 1) - 1 = e - 1 /\ e \in Nat /\ i < e /\ e <= Len(ch)
      BY <2>2, <2>5
    <3>4. OfRange(c, ch, i, e - 1) /\ g[1 .. k] = WithSwap(c, ch[e])
      BY <3>2, <3>3, <2>3
    <3> HIDE DEF c
    <3>5. OfRange(WithSwap(c, ch[e]), ch, i, e)
      <4> HIDE DEF e
      <4> QED
        BY <3>3, <3>4, NextSwap
    <3> QED
      BY <2>2, <3>4, <3>5
  <2> QED
    BY <2>4, <2>5
<1>6. OfRange(g[1 .. n], ch, i, i + n - 1)
  <2>1. n \in 1 .. n /\ n \notin Bad
    BY <1>5
  <2> QED
    BY <2>1
<1>7. i + n - 1 = j
  OBVIOUS
<1> QED
  BY <1>1, <1>2, <1>6, <1>7 DEF s

-----------------------------------------------------------------------------
(* What a candle shows of swaps that were read so many times each.         *)

Blocks == 1 .. MaxBlocks

Counts == [Blocks -> Nat]

Support(n) == {b \in Blocks : n[b] > 0}

(* The prices at which the swaps of each block were read.                  *)
Sights == [Blocks -> SUBSET Prices]

Shows(c, n, sn) ==
  /\ c \in Candle
  /\ c.swaps = SumFunctionOnSet(n, Blocks)
  /\ \E b \in Support(n) : c.high \in sn[b]
  /\ \A b \in Support(n) : \A x \in sn[b] : x <= c.high
  /\ \E b \in Support(n) : c.low \in sn[b]
  /\ \A b \in Support(n) : \A x \in sn[b] : c.low <= x

Right(c, n, sn) == IF Support(n) = {} THEN c = None ELSE Shows(c, n, sn)

Fees(n, ch) == [b \in Blocks |-> IF n[b] = 0 THEN 0 ELSE n[b] * ch[b]]

(* The swaps are those of the chain ch, the first of them opens the candle *)
(* and the last closes it.                                                 *)
InOrder(c, n, ch) ==
  /\ c.fees = SumFunctionOnSet(Fees(n, ch), Blocks)
  /\ \E b \in Support(n) : c.open = ch[b] /\ \A d \in Support(n) : b <= d
  /\ \E b \in Support(n) : c.close = ch[b] /\ \A d \in Support(n) : d <= b

(* What is counted was mined.                                              *)
Real(n, ch) == \A b \in Support(n) : b <= Len(ch)

LEMMA BlocksFinite == IsFiniteSet(Blocks) /\ MaxBlocks \in Nat
  BY FS_Interval, CandlesAssumption DEF Blocks

LEMMA CountsIntegral ==
  ASSUME NEW ch \in Seq(Prices), NEW n \in Counts, Real(n, ch)
  PROVE  /\ Integral(n, Blocks) /\ Integral(Fees(n, ch), Blocks)
         /\ \A b \in Support(n) : ch[b] \in Prices /\ ch[b] \in Nat
         /\ \A b \in Blocks : Fees(n, ch)[b] \in Nat
<1>1. \A b \in Support(n) : ch[b] \in Prices /\ ch[b] \in Nat
  <2> TAKE b \in Support(n)
  <2>1. b \in 1 .. Len(ch)
    BY BlocksFinite DEF Support, Real, Blocks
  <2>2. ch[b] \in Prices
    BY <2>1
  <2> QED
    BY <2>2, CandlesAssumption
<1>2. \A b \in Blocks : n[b] \in Nat
  BY DEF Counts
<1>3. \A b \in Blocks : Fees(n, ch)[b] \in Nat
  <2> TAKE b \in Blocks
  <2>1. CASE n[b] = 0
    BY <2>1 DEF Fees
  <2>2. CASE n[b] # 0
    <3>1. n[b] > 0 /\ n[b] \in Nat
      BY <1>2, <2>2
    <3>2. ch[b] \in Nat
      BY <1>1, <3>1 DEF Support
    <3>3. Fees(n, ch)[b] = n[b] * ch[b]
      BY <2>2 DEF Fees
    <3>4. n[b] * ch[b] \in Nat
      BY <3>1, <3>2
    <3> QED
      BY <3>3, <3>4
  <2> QED
    BY <2>1, <2>2
<1>4. \A b \in Blocks : n[b] \in Int /\ Fees(n, ch)[b] \in Int
  BY <1>2, <1>3
<1> QED
  BY <1>1, <1>3, <1>4, BlocksFinite DEF Integral

LEMMA SumsAreNat ==
  ASSUME NEW n \in Counts
  PROVE  Integral(n, Blocks)
<1>1. \A b \in Blocks : n[b] \in Int
  BY DEF Counts
<1> QED
  BY <1>1, BlocksFinite DEF Integral

LEMMA SupportOfSum ==
  ASSUME NEW n \in Counts, NEW k \in Counts, NEW s, \A b \in Blocks : s[b] = n[b] + k[b]
  PROVE  Support(s) = Support(n) \cup Support(k)
<1>1. \A b \in Blocks : n[b] \in Nat /\ k[b] \in Nat /\ s[b] = n[b] + k[b]
  BY DEF Counts
<1>2. \A b \in Blocks : s[b] > 0 <=> n[b] > 0 \/ k[b] > 0
  BY <1>1
<1> QED
  BY <1>2 DEF Support

(* Merging a later candle into the row adds what the one counts to what    *)
(* the other does.                                                         *)
LEMMA MergeShows ==
  ASSUME NEW n \in Counts, NEW k \in Counts, NEW s \in Counts,
         \A b \in Blocks : s[b] = n[b] + k[b],
         NEW sn \in Sights, NEW sk, NEW t,
         \A b \in Support(n) : sn[b] \subseteq t[b],
         \A b \in Support(k) : sk[b] \subseteq t[b],
         \A b \in Support(s) : \A x \in t[b] :
           x \in Nat /\ ((b \in Support(n) /\ x \in sn[b]) \/ (b \in Support(k) /\ x \in sk[b])),
         NEW old, Right(old, n, sn), NEW new, Shows(new, k, sk)
  PROVE  Shows(Merged(old, new), s, t)
<1>1. Support(s) = Support(n) \cup Support(k)
  BY SupportOfSum
<1>3. CASE Support(n) = {}
  <2>1. old = None /\ Merged(old, new) = new
    BY <1>3 DEF Right, Merged
  <2>2. \A b \in Blocks : n[b] = 0
    <3> TAKE b \in Blocks
    <3>1. n[b] \in Nat /\ ~(n[b] > 0)
      BY <1>3 DEF Counts, Support
    <3> QED
      BY <3>1
  <2>3. \A b \in Blocks : s[b] = k[b]
    <3> TAKE b \in Blocks
    <3>1. k[b] \in Nat /\ n[b] = 0 /\ s[b] = n[b] + k[b]
      BY <2>2 DEF Counts
    <3> QED
      BY <3>1
  <2>4. s = k
    BY <2>3 DEF Counts
  <2>5. \A b \in Support(k) : t[b] = sk[b]
    BY <1>1, <1>3
  <2>6. Shows(new, k, t)
    BY <2>5 DEF Shows
  <2> QED
    BY <2>1, <2>4, <2>6
<1>4. CASE Support(n) # {}
  <2> DEFINE c == Merged(old, new)
  <2>1. Shows(old, n, sn)
    BY <1>4 DEF Right
  <2>2. /\ old \in Candle /\ old # None /\ new \in Candle
        /\ old.swaps \in Nat /\ new.swaps \in Nat /\ old.fees \in Nat /\ new.fees \in Nat
        /\ old.open \in Prices /\ new.close \in Prices
        /\ old.high \in Prices /\ new.high \in Prices /\ old.low \in Prices /\ new.low \in Prices
    BY <2>1, NoneAssumption DEF Shows, Candle
  <2>3. /\ old.high \in Nat /\ new.high \in Nat /\ old.low \in Nat /\ new.low \in Nat
    BY <2>2, CandlesAssumption
  <2>4. c = [open |-> old.open, high |-> Larger(old.high, new.high),
             low |-> Smaller(old.low, new.low), close |-> new.close,
             swaps |-> old.swaps + new.swaps, fees |-> old.fees + new.fees]
    BY <2>2 DEF Merged
  <2>5. /\ c.high = Larger(old.high, new.high) /\ c.low = Smaller(old.low, new.low)
        /\ c.swaps = old.swaps + new.swaps
    BY <2>4
  <2>6. c \in Candle
    <3>1. Larger(old.high, new.high) \in Prices /\ Smaller(old.low, new.low) \in Prices
      BY <2>2 DEF Larger, Smaller
    <3>2. old.swaps + new.swaps \in Nat /\ old.fees + new.fees \in Nat
      BY <2>2
    <3> HIDE DEF c
    <3> QED
      BY <2>2, <2>4, <3>1, <3>2 DEF Candle
  <2> HIDE DEF c
  <2>7. c.swaps = SumFunctionOnSet(s, Blocks)
    <3>1. SumFunctionOnSet(s, Blocks) = SumFunctionOnSet(n, Blocks) + SumFunctionOnSet(k, Blocks)
      BY SumsAreNat, SumPlus
    <3> QED
      BY <2>1, <2>5, <3>1 DEF Shows
  <2>10. /\ \E b \in Support(s) : c.high \in t[b]
         /\ \A b \in Support(s) : \A x \in t[b] : x <= c.high
    <3>1. c.high = old.high \/ c.high = new.high
      BY <2>5 DEF Larger
    <3>2. old.high <= c.high /\ new.high <= c.high /\ c.high \in Nat
      BY <2>3, <2>5 DEF Larger
    <3>3. \E b \in Support(s) : c.high \in t[b]
      <4>1. (\E b \in Support(n) : old.high \in t[b]) /\ (\E b \in Support(k) : new.high \in t[b])
        BY <2>1 DEF Shows
      <4> QED
        BY <1>1, <3>1, <4>1
    <3>4. ASSUME NEW b \in Support(s), NEW x \in t[b] PROVE x <= c.high
      <4>1. x \in Nat /\ (x <= old.high \/ x <= new.high)
        BY <2>1 DEF Shows
      <4> QED
        BY <2>3, <3>2, <4>1
    <3> QED
      BY <3>3, <3>4
  <2>11. /\ \E b \in Support(s) : c.low \in t[b]
         /\ \A b \in Support(s) : \A x \in t[b] : c.low <= x
    <3>1. c.low = old.low \/ c.low = new.low
      BY <2>5 DEF Smaller
    <3>2. c.low <= old.low /\ c.low <= new.low /\ c.low \in Nat
      BY <2>3, <2>5 DEF Smaller
    <3>3. \E b \in Support(s) : c.low \in t[b]
      <4>1. (\E b \in Support(n) : old.low \in t[b]) /\ (\E b \in Support(k) : new.low \in t[b])
        BY <2>1 DEF Shows
      <4> QED
        BY <1>1, <3>1, <4>1
    <3>4. ASSUME NEW b \in Support(s), NEW x \in t[b] PROVE c.low <= x
      <4>1. x \in Nat /\ (old.low <= x \/ new.low <= x)
        BY <2>1 DEF Shows
      <4> QED
        BY <2>3, <3>2, <4>1
    <3> QED
      BY <3>3, <3>4
  <2>12. Shows(c, s, t)
    BY <2>6, <2>7, <2>10, <2>11 DEF Shows
  <2> QED
    BY <2>12 DEF c
<1> QED
  BY <1>3, <1>4

(* It keeps the order, if the later candle is later.                       *)
LEMMA MergeInOrder ==
  ASSUME NEW ch \in Seq(Prices), NEW n \in Counts, NEW k \in Counts, NEW s \in Counts,
         \A b \in Blocks : s[b] = n[b] + k[b], Real(n, ch), Real(k, ch),
         NEW old \in Candle \cup {None}, old = None <=> Support(n) = {},
         old # None => InOrder(old, n, ch),
         NEW new, InOrder(new, k, ch),
         \A b \in Support(n), d \in Support(k) : b < d
  PROVE  InOrder(Merged(old, new), s, ch)
<1>1. Support(s) = Support(n) \cup Support(k)
  BY SupportOfSum
<1>2. Support(n) \subseteq Nat /\ Support(k) \subseteq Nat
  BY DEF Support, Blocks
<1>3. CASE old = None
  <2>1. \A b \in Blocks : n[b] = 0
    <3> TAKE b \in Blocks
    <3>1. n[b] \in Nat /\ ~(n[b] > 0)
      BY <1>3 DEF Counts, Support
    <3> QED
      BY <3>1
  <2>2. \A b \in Blocks : s[b] = k[b]
    <3> TAKE b \in Blocks
    <3>1. k[b] \in Nat /\ n[b] = 0 /\ s[b] = n[b] + k[b]
      BY <2>1 DEF Counts
    <3> QED
      BY <3>1
  <2>3. s = k
    BY <2>2 DEF Counts
  <2>4. Merged(old, new) = new
    BY <1>3 DEF Merged
  <2> QED
    BY <2>3, <2>4
<1>4. CASE old # None
  <2>1. /\ Merged(old, new).open = old.open /\ Merged(old, new).close = new.close
        /\ Merged(old, new).fees = old.fees + new.fees
    BY <1>4 DEF Merged
  <2>2. PICK b \in Support(n) : old.open = ch[b] /\ \A d \in Support(n) : b <= d
    BY <1>4 DEF InOrder
  <2>3. PICK e \in Support(k) : new.close = ch[e] /\ \A d \in Support(k) : d <= e
    BY DEF InOrder
  <2>4. \A d \in Support(s) : b <= d /\ d <= e
    <3> TAKE d \in Support(s)
    <3>1. CASE d \in Support(n)
      BY <1>2, <2>2, <2>3, <3>1
    <3>2. CASE d \in Support(k)
      BY <1>2, <2>2, <2>3, <3>2
    <3> QED
      BY <1>1, <3>1, <3>2
  <2>5. SumFunctionOnSet(Fees(s, ch), Blocks)
          = SumFunctionOnSet(Fees(n, ch), Blocks) + SumFunctionOnSet(Fees(k, ch), Blocks)
    <3>1. ASSUME NEW d \in Blocks
          PROVE  Fees(s, ch)[d] = Fees(n, ch)[d] + Fees(k, ch)[d]
      <4>1. n[d] \in Nat /\ k[d] \in Nat /\ s[d] = n[d] + k[d]
        BY DEF Counts
      <4>2. CASE n[d] = 0 /\ k[d] = 0
        BY <4>1, <4>2 DEF Fees
      <4>3. CASE ~(n[d] = 0 /\ k[d] = 0)
        <5>1. d \in Support(n) \/ d \in Support(k)
          BY <4>1, <4>3 DEF Support
        <5>2. ch[d] \in Nat
          BY <5>1, CountsIntegral
        <5> DEFINE x == ch[d]
                   u == n[d]
                   v == k[d]
        <5>3. x \in Nat /\ u \in Nat /\ v \in Nat
          BY <4>1, <5>2
        <5>4. Fees(n, ch)[d] = u * x
          BY <5>3 DEF Fees
        <5>5. Fees(k, ch)[d] = v * x
          BY <5>3 DEF Fees
        <5>6. Fees(s, ch)[d] = (u + v) * x
          BY <4>1, <4>3, <5>3 DEF Fees
        <5> HIDE DEF x, u, v
        <5>7. (u + v) * x = u * x + v * x
          BY <5>3
        <5> QED
          BY <5>4, <5>5, <5>6, <5>7
      <4> QED
        BY <4>2, <4>3
    <3>2. Integral(Fees(n, ch), Blocks) /\ Integral(Fees(k, ch), Blocks)
      BY CountsIntegral
    <3> QED
      BY <3>1, <3>2, SumPlus
  <2>6. Merged(old, new).fees = SumFunctionOnSet(Fees(s, ch), Blocks)
    BY <1>4, <2>1, <2>5 DEF InOrder
  <2> QED
    BY <1>1, <2>1, <2>2, <2>3, <2>4, <2>6 DEF InOrder
<1> QED
  BY <1>3, <1>4

(* Another chain with the same swaps at the blocks that count will do.     *)
LEMMA SameOrder ==
  ASSUME NEW n \in Counts, NEW ch, NEW chx, \A b \in Support(n) : chx[b] = ch[b],
         NEW c, InOrder(c, n, ch)
  PROVE  InOrder(c, n, chx)
<1>1. Fees(n, chx) = Fees(n, ch)
  <2>1. ASSUME NEW b \in Blocks, n[b] # 0 PROVE chx[b] = ch[b]
    <3>1. n[b] \in Nat /\ n[b] > 0
      BY <2>1 DEF Counts
    <3> QED
      BY <3>1 DEF Support
  <2> QED
    BY <2>1 DEF Fees
<1> QED
  BY <1>1 DEF InOrder

-----------------------------------------------------------------------------
(* The invariant.                                                          *)

(* What counts n say of the blocks of minute m.                            *)
CountOf(n, m) == [b \in Blocks |-> IF MinuteOf(b) = m THEN n[b] ELSE 0]

(* The counts there will be once w has committed its page.                 *)
Counted(w) ==
  [b \in Blocks |-> IF b \in page[w].from .. page[w].to THEN reads[b] + 1 ELSE reads[b]]

(* The prices there will be, too.                                          *)
Sight(w) ==
  [b \in Blocks |->
     IF b \in page[w].from .. page[w].to THEN seen[b] \cup {page[w].view[b]} ELSE seen[b]]

(* A page lies within the chain as it was when its worker asked, n blocks  *)
(* of it by now, and once it has its logs it has the minutes of its blocks *)
(* either still to merge or in its batch.                                  *)
PageOK(p, n) ==
  /\ p \in PageType
  /\ p.pc = "logs" => p.todo = {} /\ p.batch = NoBatch
  /\ p.pc = "merge" =>
       /\ Len(p.view) = p.to
       /\ \A m \in Minutes :
            p.batch[m] # None <=> m \notin p.todo /\ \E b \in p.from .. p.to : MinuteOf(b) = m
  /\ p.pc # "idle" =>
       /\ 1 <= p.from /\ p.from <= p.to /\ p.to <= p.head /\ p.head <= n
       /\ p.todo \subseteq {MinuteOf(b) : b \in p.from .. p.to}

Sound ==
  /\ chain \in Seq(Prices) /\ Len(chain) <= MaxBlocks
  /\ cursor \in 0 .. Len(chain)
  /\ candles \in [Minutes -> Candle \cup {None}]
  /\ page \in [Workers -> PageType]
  /\ \A w \in Workers : PageOK(page[w], Len(chain))
  /\ reads \in Counts
  /\ seen \in Sights
  /\ faults \in 0 .. MaxFaults

OneAtATime == \E w \in Workers : page[w].pc = "idle"

(* A row shows what was read, and a batch what will have been read.        *)
RowsRight ==
  /\ \A b \in Blocks : reads[b] = 0 => seen[b] = {}
  /\ \A m \in Minutes : Right(candles[m], CountOf(reads, m), seen)

BatchRight(w) ==
  page[w].pc = "merge" =>
    \A m \in Minutes :
      page[w].batch[m] # None => Shows(page[w].batch[m], CountOf(Counted(w), m), Sight(w))

(* Of polls alone: how far the rows have come.  Polls keep to what is      *)
(* confirmed, so what they read stays the chain's.                         *)
Done == IF page["poll"].pc = "save" THEN page["poll"].to ELSE cursor

OnceInOrder ==
  /\ page["backfill"].pc = "idle"
  /\ page["poll"].pc # "idle" => page["poll"].head <= Confirmed
  /\ page["poll"].pc \in {"logs", "merge"} => page["poll"].from = cursor + 1
  /\ page["poll"].pc = "merge" => \A b \in 1 .. page["poll"].to : page["poll"].view[b] = chain[b]
  /\ Done = 0 \/ Done <= Confirmed
  /\ reads = [b \in Blocks |-> IF b <= Done THEN 1 ELSE 0]
  /\ \A m \in Minutes : candles[m] # None => InOrder(candles[m], CountOf(reads, m), chain)
  /\ page["poll"].pc = "merge" =>
       \A m \in Minutes :
         page["poll"].batch[m] # None =>
           InOrder(page["poll"].batch[m], CountOf(Counted("poll"), m), chain)

Exact ==
  "overlap" \notin Faults =>
    /\ OneAtATime
    /\ RowsRight
    /\ \A w \in Workers : BatchRight(w)
    /\ faults = 0 => OnceInOrder

CandlesInv == Sound /\ Exact

-----------------------------------------------------------------------------
(* The types, and the shape of the pages.                                  *)

LEMMA SoundTypes == Sound => CandlesTypeOK
  BY DEF Sound, CandlesTypeOK, PageOK, Counts, Sights, Blocks

LEMMA NoPageOK == ASSUME NEW n PROVE PageOK(NoPage, n)
<1>1. <<>> \in Seq(Prices)
  BY EmptySeq
<1> QED
  BY <1>1 DEF PageOK, NoPage, PageType, NoBatch

LEMMA MinutesOf ==
  ASSUME NEW b \in Nat, 1 <= b, b <= MaxBlocks
  PROVE  b \in Nat \ {0} /\ b \in Blocks /\ MinuteOf(b) \in Minutes
  BY BlocksFinite DEF Minutes, Blocks

LEMMA MinutesNat == Minutes \subseteq Nat
<1> SUFFICES ASSUME NEW m \in Minutes PROVE m \in Nat
  OBVIOUS
<1>1. PICK b \in 1 .. MaxBlocks : m = MinuteOf(b)
  BY DEF Minutes
<1>2. b \in Nat \ {0}
  BY BlocksFinite
<1> QED
  BY <1>1, <1>2, MinuteIs

(* A page that was just asked for.                                         *)
LEMMA StartedOK ==
  ASSUME NEW n \in Nat, NEW from \in Nat, NEW head \in Nat, NEW left \in Nat,
         1 <= from, from <= head, head <= n
  PROVE  /\ PageOK(Started(from, head, left), n)
         /\ Started(from, head, left).pc = "logs" /\ Started(from, head, left).from = from
         /\ Started(from, head, left).head = head
<1> DEFINE to == PageEnd(from, head)
           p == Started(from, head, left)
<1>1. to \in Nat /\ from <= to /\ to <= head
  BY CandlesAssumption DEF PageEnd
<1>2. p = [pc |-> "logs", from |-> from, to |-> to, head |-> head, left |-> left, view |-> <<>>,
           todo |-> {}, batch |-> NoBatch]
  <2>1. p = [NoPage EXCEPT !.pc = "logs", !.from = from, !.to = to, !.head = head, !.left = left]
    BY DEF Started
  <2> HIDE DEF p, to
  <2> QED
    BY <2>1 DEF NoPage
<1>3. /\ p.pc = "logs" /\ p.from = from /\ p.to = to /\ p.head = head /\ p.todo = {}
      /\ p.batch = NoBatch
  BY <1>2
<1>4. NoBatch \in [Minutes -> Candle \cup {None}] /\ <<>> \in Seq(Prices)
  BY EmptySeq DEF NoBatch
<1> HIDE DEF p, to
<1>5. p \in PageType
  BY <1>1, <1>2, <1>4 DEF PageType
<1>6. PageOK(p, n)
  BY <1>1, <1>3, <1>5 DEF PageOK
<1> QED
  BY <1>3, <1>6 DEF p

(* A page stays what it is when the chain grows.                           *)
LEMMA PageLonger ==
  ASSUME NEW n \in Nat, NEW k \in Nat, n <= k, NEW p, PageOK(p, n)
  PROVE  PageOK(p, k)
<1>1. p.pc # "idle" => p.head \in Nat /\ p.head <= n
  BY DEF PageOK, PageType
<1> QED
  BY <1>1 DEF PageOK

(* What a page says of a minute.                                           *)
PageCount(from, to, m) ==
  [b \in Blocks |-> IF b \in from .. to /\ MinuteOf(b) = m THEN 1 ELSE 0]

PageSight(ch) == [b \in Blocks |-> {ch[b]}]

LEMMA FoldShows ==
  ASSUME NEW ch \in Seq(Prices), Len(ch) <= MaxBlocks,
         NEW from \in Nat, NEW to \in Nat, 1 <= from, to <= Len(ch),
         NEW m \in Minutes, \E b \in from .. to : MinuteOf(b) = m
  PROVE  /\ PageCount(from, to, m) \in Counts
         /\ Real(PageCount(from, to, m), ch)
         /\ Shows(Folded(ch, from, to, m), PageCount(from, to, m), PageSight(ch))
         /\ InOrder(Folded(ch, from, to, m), PageCount(from, to, m), ch)
<1> DEFINE P == PerMinute
           i == Larger(from, m * P + 1)
           j == Smaller(to, (m + 1) * P)
           k == PageCount(from, to, m)
           c == Folded(ch, from, to, m)
           I == i .. j
<1>1. P \in Nat \ {0} /\ m \in Nat /\ MaxBlocks \in Nat /\ Len(ch) \in Nat
  BY CandlesAssumption, MinutesNat
<1>2. m * P \in Nat /\ (m + 1) * P \in Nat
  BY <1>1
<1>3. i \in Nat \ {0} /\ j \in Nat /\ j <= to /\ from <= i
  BY <1>2 DEF Larger, Smaller
<1>4. ASSUME NEW b \in Nat \ {0}
      PROVE  b \in I <=> b \in from .. to /\ MinuteOf(b) = m
  <2>1. MinuteOf(b) = m <=> m * P + 1 <= b /\ b <= (m + 1) * P
    BY <1>1, MinuteUnique
  <2>2. b >= i <=> b >= from /\ b >= m * P + 1
    <3> DEFINE x == m * P
    <3>1. x \in Nat
      BY <1>2
    <3> HIDE DEF x
    <3> QED
      BY <3>1 DEF Larger, x
  <2>3. b <= j <=> b <= to /\ b <= (m + 1) * P
    <3> DEFINE x == (m + 1) * P
    <3>1. x \in Nat
      BY <1>2
    <3> HIDE DEF x
    <3> QED
      BY <3>1 DEF Smaller, x
  <2>4. b \in I <=> b >= i /\ b <= j
    BY <1>3
  <2>5. b \in from .. to <=> b >= from /\ b <= to
    OBVIOUS
  <2> HIDE DEF i, j
  <2> QED
    BY <2>1, <2>2, <2>3, <2>4, <2>5
<1>5. i <= j
  <2>1. PICK b \in from .. to : MinuteOf(b) = m
    OBVIOUS
  <2>2. b \in Nat \ {0}
    OBVIOUS
  <2>3. b \in I
    BY <1>4, <2>1, <2>2
  <2> HIDE DEF i, j
  <2> QED
    BY <1>3, <2>3
<1>6. c = FoldLeft(WithSwap, None, SubSeq(ch, i, j))
  BY DEF Folded
<1> HIDE DEF i, j, c, P
<1>7. OfRange(c, ch, i, j)
  <2>1. j <= Len(ch)
    BY <1>1, <1>3
  <2> QED
    BY <1>3, <1>5, <1>6, <2>1, FoldOfRange
<1>8. I \subseteq Blocks /\ I \subseteq Nat \ {0} /\ IsFiniteSet(I) /\ Cardinality(I) = j - i + 1
  <2>1. IsFiniteSet(I) /\ Cardinality(I) = j - i + 1
    BY <1>3, <1>5, FS_Interval
  <2> QED
    BY <1>1, <1>3, <2>1 DEF Blocks
<1>9. k \in Counts
  BY DEF PageCount, Counts
<1>10. \A b \in Blocks : k[b] = IF b \in I THEN 1 ELSE 0
  <2> TAKE b \in Blocks
  <2>1. b \in Nat \ {0}
    BY DEF Blocks
  <2> HIDE DEF I
  <2> QED
    BY <1>4, <2>1 DEF PageCount
<1> HIDE DEF k
<1>11. Support(k) = I
  <2> HIDE DEF I
  <2>1. ASSUME NEW b \in Blocks PROVE k[b] > 0 <=> b \in I
    <3>1. k[b] = IF b \in I THEN 1 ELSE 0
      BY <1>10
    <3>2. 1 > 0 /\ ~(0 > 0)
      OBVIOUS
    <3> QED
      BY <3>1, <3>2
  <2>2. I \subseteq Blocks
    BY <1>8
  <2> QED
    BY <2>1, <2>2 DEF Support
<1>12. \A b \in I : b <= Len(ch)
  BY <1>1, <1>3
<1>13. Real(k, ch)
  <2> HIDE DEF I
  <2> QED
    BY <1>11, <1>12 DEF Real
<1>14. /\ Integral(k, Blocks) /\ Integral(Fees(k, ch), Blocks)
       /\ \A b \in I : ch[b] \in Nat
  BY <1>9, <1>11, <1>13, CountsIntegral
<1>15. c.swaps = SumFunctionOnSet(k, Blocks)
  <2>1. SumFunctionOnSet(k, Blocks) = SumFunctionOnSet(k, I)
    BY <1>8, <1>10, <1>14, SumRest
  <2>2. SumFunctionOnSet(k, I) = Cardinality(I)
    <3>1. \A b \in I : k[b] = 1
      BY <1>8, <1>10
    <3> QED
      BY <1>8, <3>1, SumOnes
  <2> QED
    BY <1>7, <1>8, <2>1, <2>2 DEF OfRange
<1>16. c.fees = SumFunctionOnSet(Fees(k, ch), Blocks)
  <2>1. ASSUME NEW b \in Blocks PROVE Fees(k, ch)[b] = IF b \in I THEN ch[b] ELSE 0
    <3>1. CASE b \in I
      <4>1. k[b] = 1 /\ ch[b] \in Nat
        BY <1>10, <1>14, <3>1
      <4>2. Fees(k, ch)[b] = 1 * ch[b]
        BY <4>1 DEF Fees
      <4> QED
        BY <3>1, <4>1, <4>2
    <3>2. CASE b \notin I
      BY <1>10, <3>2 DEF Fees
    <3> QED
      BY <3>1, <3>2
  <2>2. SumFunctionOnSet(Fees(k, ch), Blocks) = SumFunctionOnSet(Fees(k, ch), I)
    <3>1. \A b \in Blocks \ I : Fees(k, ch)[b] = 0
      BY <2>1
    <3> QED
      BY <1>8, <1>14, <3>1, SumRest
  <2>3. SumFunctionOnSet(ch, I) = SumFunctionOnSet(Fees(k, ch), I)
    <3>1. \A b \in I : ch[b] = Fees(k, ch)[b] /\ ch[b] \in Int
      BY <1>8, <1>14, <2>1
    <3>2. Integral(ch, I)
      BY <1>8, <3>1 DEF Integral
    <3> QED
      BY <3>1, <3>2, SumSame
  <2> QED
    BY <1>7, <2>2, <2>3 DEF OfRange
<1>17. Shows(c, k, PageSight(ch))
  <2>1. \A b \in I : PageSight(ch)[b] = {ch[b]}
    BY <1>8 DEF PageSight
  <2> HIDE DEF I
  <2>2. c \in Candle /\ c.swaps = SumFunctionOnSet(k, Blocks)
    BY <1>7, <1>15 DEF OfRange
  <2>3. /\ \E b \in I : c.high \in PageSight(ch)[b]
        /\ \E b \in I : c.low \in PageSight(ch)[b]
        /\ \A b \in I : \A x \in PageSight(ch)[b] : x <= c.high /\ c.low <= x
    BY <1>7, <2>1 DEF OfRange, I
  <2> QED
    BY <1>11, <2>2, <2>3 DEF Shows
<1>18. InOrder(c, k, ch)
  <2>1. i \in I /\ j \in I /\ \A d \in I : i <= d /\ d <= j
    BY <1>3, <1>5
  <2>2. c.open = ch[i] /\ c.close = ch[j]
    BY <1>7 DEF OfRange
  <2> HIDE DEF I
  <2> QED
    BY <1>11, <1>16, <2>1, <2>2 DEF InOrder
<1> QED
  BY <1>9, <1>13, <1>17, <1>18 DEF c, k

(* Merging gives a candle.                                                 *)
LEMMA MergedCandle ==
  ASSUME NEW old \in Candle \cup {None}, NEW new \in Candle
  PROVE  Merged(old, new) \in Candle
<1>1. CASE old = None
  BY <1>1 DEF Merged
<1>2. CASE old # None
  <2>1. old \in Candle
    BY <1>2
  <2>2. /\ old.high \in Prices /\ new.high \in Prices /\ old.low \in Prices /\ new.low \in Prices
        /\ old.open \in Prices /\ new.close \in Prices
        /\ old.swaps \in Nat /\ new.swaps \in Nat /\ old.fees \in Nat /\ new.fees \in Nat
    BY <2>1 DEF Candle
  <2>3. /\ Larger(old.high, new.high) \in Prices /\ Smaller(old.low, new.low) \in Prices
        /\ old.swaps + new.swaps \in Nat /\ old.fees + new.fees \in Nat
    BY <2>2 DEF Larger, Smaller
  <2>4. Merged(old, new) = [open |-> old.open, high |-> Larger(old.high, new.high),
          low |-> Smaller(old.low, new.low), close |-> new.close,
          swaps |-> old.swaps + new.swaps, fees |-> old.fees + new.fees]
    BY <1>2 DEF Merged
  <2> QED
    BY <2>2, <2>3, <2>4 DEF Candle
<1> QED
  BY <1>1, <1>2

LEMMA PageStep ==
  ASSUME Sound, NEW w \in Workers, NEW p, PageOK(p, Len(chain)),
         page' = [page EXCEPT ![w] = p], chain' = chain
  PROVE  page' \in [Workers -> PageType] /\ \A v \in Workers : PageOK(page'[v], Len(chain'))
<1>1. page \in [Workers -> PageType] /\ p \in PageType
  BY DEF Sound, PageOK
<1>2. page' \in [Workers -> PageType] /\ page'[w] = p /\ \A v \in Workers \ {w} : page'[v] = page[v]
  BY <1>1
<1> QED
  BY <1>2 DEF Sound

LEMMA MineSound == ASSUME Sound, NEW px \in Prices, Mine(px) PROVE Sound'
<1>1. /\ chain' \in Seq(Prices) /\ Len(chain') = Len(chain) + 1 /\ Len(chain) < MaxBlocks
      /\ Len(chain) \in Nat /\ MaxBlocks \in Nat
  BY BlocksFinite, AppendProperties DEF Sound, Mine
<1>2. \A v \in Workers : PageOK(page[v], Len(chain'))
  <2>1. \A v \in Workers : PageOK(page[v], Len(chain))
    BY DEF Sound
  <2>2. Len(chain') \in Nat /\ Len(chain) <= Len(chain')
    BY <1>1
  <2> QED
    BY <1>1, <2>1, <2>2, PageLonger
<1>3. cursor' \in 0 .. Len(chain') /\ Len(chain') <= MaxBlocks
  BY <1>1 DEF Sound, Mine
<1> QED
  BY <1>1, <1>2, <1>3 DEF Sound, Mine, history

LEMMA ReorganiseSound == ASSUME Sound, NEW px \in Prices, Reorganise(px) PROVE Sound'
<1>1. PICK b \in DOMAIN chain : chain' = [chain EXCEPT ![b] = px]
  BY DEF Reorganise
<1>2. chain' \in Seq(Prices) /\ Len(chain') = Len(chain)
  BY <1>1, ExceptSeq DEF Sound
<1> QED
  BY <1>2 DEF Sound, Reorganise, history

LEMMA PollBeginSound == ASSUME Sound, PollBegin PROVE Sound'
<1>1. /\ Len(chain) \in Nat /\ Confirmed \in Nat /\ Confirmed <= Len(chain)
      /\ cursor \in Nat /\ cursor < Confirmed
  BY CandlesAssumption DEF Sound, PollBegin, Confirmed
<1>2. PageOK(Started(cursor + 1, Confirmed, 0), Len(chain))
  BY <1>1, StartedOK
<1>3. "poll" \in Workers
  BY DEF Workers
<1>4. page' \in [Workers -> PageType] /\ \A v \in Workers : PageOK(page'[v], Len(chain'))
  BY <1>2, <1>3, PageStep DEF PollBegin
<1> QED
  BY <1>4 DEF Sound, PollBegin, history

LEMMA BackfillBeginSound == ASSUME Sound, BackfillBegin PROVE Sound'
<1>1. PICK from \in DOMAIN chain :
        page' = [page EXCEPT !["backfill"] = Started(from, Len(chain), MaxPages - 1)]
  BY DEF BackfillBegin
<1>2. Len(chain) \in Nat /\ from \in Nat /\ 1 <= from /\ from <= Len(chain)
  BY DEF Sound
<1>3. PageOK(Started(from, Len(chain), MaxPages - 1), Len(chain))
  <2>1. MaxPages - 1 \in Nat
    BY CandlesAssumption
  <2> QED
    BY <1>2, <2>1, StartedOK
<1>4. "backfill" \in Workers
  BY DEF Workers
<1>5. chain' = chain
  BY DEF BackfillBegin
<1>6. page' \in [Workers -> PageType] /\ \A v \in Workers : PageOK(page'[v], Len(chain'))
  BY <1>1, <1>3, <1>4, <1>5, PageStep
<1>7. faults' \in 0 .. MaxFaults
  BY CandlesAssumption DEF Sound, BackfillBegin, Faulted
<1> QED
  BY <1>6, <1>7 DEF Sound, BackfillBegin, history

(* The page that GetLogs makes.                                            *)
LEMMA GetLogsIs ==
  ASSUME Sound, NEW w \in Workers, GetLogs(w)
  PROVE  \E q : /\ page' = [page EXCEPT ![w] = q] /\ PageOK(q, Len(chain))
                /\ q.pc = "merge" /\ q.from = page[w].from /\ q.to = page[w].to
                /\ q.head = page[w].head
                /\ \A m \in Minutes : q.batch[m] = None
                /\ \A b \in 1 .. q.to : q.view[b] = chain[b]
<1> DEFINE p == page[w]
           view == SubSeq(chain, 1, p.to)
           todo == {MinuteOf(b) : b \in p.from .. p.to}
           q == [p EXCEPT !.pc = "merge", !.view = view, !.todo = todo]
<1>1. /\ PageOK(p, Len(chain)) /\ p.pc = "logs" /\ p \in PageType
      /\ page \in [Workers -> PageType] /\ p.todo = {} /\ p.batch = NoBatch
  BY DEF Sound, PageOK, GetLogs
<1>2. /\ p.from \in Nat /\ p.to \in Nat /\ p.head \in Nat /\ p.left \in Nat
      /\ p.batch \in [Minutes -> Candle \cup {None}]
      /\ 1 <= p.from /\ p.from <= p.to /\ p.to <= p.head /\ p.head <= Len(chain)
      /\ Len(chain) \in Nat /\ Len(chain) <= MaxBlocks /\ chain \in Seq(Prices)
  BY <1>1 DEF PageType, PageOK, Sound
<1>3. view \in Seq(Prices) /\ Len(view) = p.to /\ \A b \in 1 .. p.to : view[b] = chain[b]
  <2>1. p.to \in 1 .. Len(chain)
    BY <1>2
  <2> HIDE DEF p
  <2> QED
    BY <1>2, <2>1, SubSeqProperties
<1>4. todo \in SUBSET Minutes
  <2>1. ASSUME NEW b \in p.from .. p.to PROVE MinuteOf(b) \in Minutes
    <3>1. b \in Nat /\ 1 <= b /\ b <= MaxBlocks
      BY <1>2, BlocksFinite
    <3> QED
      BY <3>1, MinutesOf
  <2> QED
    BY <2>1
<1>5. page' = [page EXCEPT ![w] = q]
  <2> DEFINE P == page
  <2> HIDE DEF view, todo
  <2> QED
    BY <1>1 DEF GetLogs, view, todo
<1>6. q = [pc |-> "merge", from |-> p.from, to |-> p.to, head |-> p.head, left |-> p.left,
           view |-> view, todo |-> todo, batch |-> p.batch]
  <2>1. q = [p EXCEPT !.pc = "merge", !.view = view, !.todo = todo]
    OBVIOUS
  <2> HIDE DEF p, q, view, todo
  <2> QED
    BY <1>1, <2>1 DEF PageType
<1>7. /\ q.pc = "merge" /\ q.from = p.from /\ q.to = p.to /\ q.head = p.head /\ q.view = view
      /\ q.todo = todo /\ q.batch = p.batch
  BY <1>6
<1>8. \A m \in Minutes : q.batch[m] = None
  BY <1>1, <1>7 DEF NoBatch
<1>9. q \in PageType
  <2> HIDE DEF p, q, view, todo
  <2> QED
    BY <1>2, <1>3, <1>4, <1>6 DEF PageType
<1>10. \A m \in Minutes : ~(m \notin q.todo /\ \E b \in q.from .. q.to : MinuteOf(b) = m)
  BY <1>7
<1>11. q.todo \subseteq {MinuteOf(b) : b \in q.from .. q.to}
  BY <1>7
<1> HIDE DEF q, view, todo, p
<1>12. PageOK(q, Len(chain))
  BY <1>2, <1>3, <1>7, <1>8, <1>9, <1>10, <1>11 DEF PageOK
<1> QED
  BY <1>3, <1>5, <1>7, <1>8, <1>12 DEF p

LEMMA GetLogsSound == ASSUME Sound, NEW w \in Workers, GetLogs(w) PROVE Sound'
<1>1. PICK q : page' = [page EXCEPT ![w] = q] /\ PageOK(q, Len(chain))
  BY GetLogsIs
<1>2. chain' = chain
  BY DEF GetLogs
<1>3. page' \in [Workers -> PageType] /\ \A v \in Workers : PageOK(page'[v], Len(chain'))
  BY <1>1, <1>2, PageStep
<1> QED
  BY <1>3 DEF Sound, GetLogs, history

(* The row that Merge puts in the batch, and the rest of its step.         *)
LEMMA MergeIs ==
  ASSUME Sound, NEW w \in Workers, Merge(w)
  PROVE  \E m \in page[w].todo :
           LET new == FoldedPage(page[w], m)
               row == Merged(candles[m], new)
           IN  /\ m \in Minutes /\ \E b \in page[w].from .. page[w].to : MinuteOf(b) = m
               /\ new \in Candle /\ row \in Candle
               /\ page' = [page EXCEPT ![w] = [page[w] EXCEPT !.todo = @ \ {m}, !.batch[m] = row]]
<1> DEFINE p == page[w]
<1>1. PICK m \in p.todo :
        page' = [page EXCEPT ![w].todo = @ \ {m},
                             ![w].batch[m] = Merged(candles[m], FoldedPage(p, m))]
  BY DEF Merge
<1>2. PageOK(p, Len(chain)) /\ p.pc = "merge" /\ p \in PageType /\ page \in [Workers -> PageType]
  BY DEF Sound, PageOK, Merge
<1>3. m \in Minutes /\ \E b \in p.from .. p.to : MinuteOf(b) = m
  BY <1>2 DEF PageOK, PageType
<1>4. FoldedPage(p, m) \in Candle
  <2>1. /\ p.from \in Nat /\ p.to \in Nat /\ p.head \in Nat /\ 1 <= p.from
        /\ p.to <= p.head /\ p.head <= Len(chain) /\ p.view \in Seq(Prices) /\ Len(p.view) = p.to
    BY <1>2 DEF PageOK, PageType
  <2>2. Len(chain) \in Nat /\ Len(chain) <= MaxBlocks /\ MaxBlocks \in Nat
    BY BlocksFinite DEF Sound
  <2>3. p.to <= Len(p.view) /\ Len(p.view) <= MaxBlocks
    BY <2>1, <2>2
  <2>4. Shows(Folded(p.view, p.from, p.to, m), PageCount(p.from, p.to, m), PageSight(p.view))
    BY <1>3, <2>1, <2>3, FoldShows
  <2> QED
    BY <2>4 DEF Shows, FoldedPage
<1> DEFINE row == Merged(candles[m], FoldedPage(p, m))
<1>5. row \in Candle
  BY <1>3, <1>4, MergedCandle DEF Sound
<1>6. page' = [page EXCEPT ![w] = [p EXCEPT !.todo = @ \ {m}, !.batch[m] = row]]
  <2> HIDE DEF row
  <2>1. page' = [page EXCEPT ![w].todo = @ \ {m}, ![w].batch[m] = row]
    BY <1>1 DEF row
  <2> QED
    BY <1>2, <2>1
<1> QED
  BY <1>3, <1>4, <1>5, <1>6

LEMMA MergeSound == ASSUME Sound, NEW w \in Workers, Merge(w) PROVE Sound'
<1> DEFINE p == page[w]
<1>1. PICK m \in p.todo, row \in Candle :
        /\ m \in Minutes
        /\ \E b \in p.from .. p.to : MinuteOf(b) = m
        /\ page' = [page EXCEPT ![w] = [p EXCEPT !.todo = @ \ {m}, !.batch[m] = row]]
  BY MergeIs
<1> DEFINE q == [p EXCEPT !.todo = @ \ {m}, !.batch[m] = row]
<1>2. PageOK(p, Len(chain)) /\ p.pc = "merge" /\ p \in PageType
  BY DEF Sound, PageOK, Merge
<1>3. /\ p.from \in Nat /\ p.to \in Nat /\ p.head \in Nat /\ p.left \in Nat /\ p.view \in Seq(Prices)
      /\ p.todo \in SUBSET Minutes
      /\ p.batch \in [Minutes -> Candle \cup {None}]
  BY <1>2 DEF PageType
<1>4. q = [pc |-> "merge", from |-> p.from, to |-> p.to, head |-> p.head,
           left |-> p.left, view |-> p.view, todo |-> p.todo \ {m},
           batch |-> [p.batch EXCEPT ![m] = row]]
  <2> DEFINE batch == [p.batch EXCEPT ![m] = row]
             todo == p.todo \ {m}
  <2>1. q = [p EXCEPT !.todo = todo, !.batch = batch]
    OBVIOUS
  <2> HIDE DEF p, q, batch, todo
  <2>2. q = [pc |-> "merge", from |-> p.from, to |-> p.to, head |-> p.head,
             left |-> p.left, view |-> p.view, todo |-> todo,
             batch |-> batch]
    BY <1>2, <2>1 DEF PageType
  <2> QED
    BY <2>2 DEF batch, todo
<1>5. /\ q.pc = "merge" /\ q.from = p.from /\ q.to = p.to /\ q.head = p.head /\ q.view = p.view
      /\ q.todo = p.todo \ {m} /\ q.batch = [p.batch EXCEPT ![m] = row]
  BY <1>4
<1>6. q.batch \in [Minutes -> Candle \cup {None}] /\ q.todo \in SUBSET Minutes
  BY <1>3, <1>5
<1>7. q \in PageType
  <2> HIDE DEF p, q
  <2> QED
    BY <1>3, <1>4, <1>5, <1>6 DEF PageType
<1> HIDE DEF q
<1>8. \A n \in Minutes :
        q.batch[n] # None <=> n \notin q.todo /\ \E b \in q.from .. q.to : MinuteOf(b) = n
  <2> TAKE n \in Minutes
  <2>1. CASE n = m
    <3>1. q.batch[n] = row /\ row # None
      BY <1>3, <1>5, <2>1, NoneAssumption
    <3> QED
      BY <1>1, <1>5, <2>1, <3>1
  <2>2. CASE n # m
    <3>1. q.batch[n] = p.batch[n] /\ (n \in q.todo <=> n \in p.todo)
      BY <1>3, <1>5, <2>2
    <3> QED
      BY <1>2, <1>5, <3>1 DEF PageOK
  <2> QED
    BY <2>1, <2>2
<1>9. PageOK(q, Len(chain))
  <2>1. q.todo \subseteq {MinuteOf(b) : b \in q.from .. q.to}
    BY <1>2, <1>5 DEF PageOK
  <2> QED
    BY <1>2, <1>5, <1>7, <1>8, <2>1 DEF PageOK
<1>10. page' = [page EXCEPT ![w] = q] /\ chain' = chain
  BY <1>1 DEF q, Merge
<1>11. page' \in [Workers -> PageType] /\ \A v \in Workers : PageOK(page'[v], Len(chain'))
  BY <1>9, <1>10, PageStep
<1> QED
  BY <1>11 DEF Sound, Merge, history

LEMMA CommitSound == ASSUME Sound, NEW w \in Workers, Commit(w) PROVE Sound'
<1> DEFINE p == page[w]
<1>1. PageOK(p, Len(chain)) /\ p.pc = "merge" /\ p \in PageType /\ p.todo = {}
  BY DEF Sound, PageOK, Commit
<1>2. /\ p.from \in Nat /\ p.to \in Nat /\ p.head \in Nat /\ p.left \in Nat /\ p.view \in Seq(Prices)
      /\ Len(p.view) = p.to /\ p.batch \in [Minutes -> Candle \cup {None}]
      /\ 1 <= p.from /\ p.from <= p.to /\ p.to <= p.head /\ p.head <= Len(chain)
  BY <1>1 DEF PageType, PageOK
<1>3. candles' \in [Minutes -> Candle \cup {None}]
  <2>1. candles' = [m \in Minutes |-> IF p.batch[m] = None THEN candles[m] ELSE p.batch[m]]
    BY DEF Commit
  <2>2. candles \in [Minutes -> Candle \cup {None}]
    BY DEF Sound
  <2> HIDE DEF p
  <2> QED
    BY <1>2, <2>1, <2>2
<1>4. reads' \in Counts
  <2>1. reads \in [Blocks -> Nat]
    BY DEF Sound, Counts
  <2>2. reads' = [b \in Blocks |-> IF b \in p.from .. p.to THEN reads[b] + 1 ELSE reads[b]]
    BY <2>1 DEF Commit
  <2> HIDE DEF p
  <2>3. ASSUME NEW b \in Blocks
        PROVE  (IF b \in p.from .. p.to THEN reads[b] + 1 ELSE reads[b]) \in Nat
    <3>1. reads[b] \in Nat
      BY <2>1
    <3>2. reads[b] + 1 \in Nat
      BY <3>1
    <3> QED
      BY <3>1, <3>2
  <2> QED
    BY <2>2, <2>3 DEF Counts
<1>8. seen' \in Sights
  <2>1. seen \in [Blocks -> SUBSET Prices]
    BY DEF Sound, Sights
  <2>2. seen' = [b \in Blocks |-> IF b \in p.from .. p.to THEN seen[b] \cup {p.view[b]} ELSE seen[b]]
    BY <2>1 DEF Commit
  <2>3. ASSUME NEW b \in p.from .. p.to PROVE p.view[b] \in Prices
    BY <1>2
  <2> HIDE DEF p
  <2> QED
    BY <2>1, <2>2, <2>3 DEF Sights
<1> DEFINE q == IF w = "poll" THEN [p EXCEPT !.pc = "save"]
                ELSE IF p.to < p.head /\ p.left > 0
                THEN Started(p.to + 1, p.head, p.left - 1) ELSE NoPage
<1>5. PageOK(q, Len(chain))
  <2>1. CASE w = "poll"
    <3>1. q = [p EXCEPT !.pc = "save"]
      BY <2>1
    <3>2. q = [pc |-> "save", from |-> p.from, to |-> p.to, head |-> p.head, left |-> p.left,
               view |-> p.view, todo |-> p.todo, batch |-> p.batch]
      BY <1>1, <3>1 DEF PageType
    <3>3. /\ q.pc = "save" /\ q.from = p.from /\ q.to = p.to /\ q.head = p.head
          /\ q.todo = {} /\ q.batch = p.batch
      BY <1>1, <3>2
    <3>4. q \in PageType
      <4> HIDE DEF p, q
      <4> QED
        BY <1>1, <1>2, <3>2 DEF PageType
    <3> HIDE DEF q
    <3> QED
      BY <1>2, <3>3, <3>4 DEF PageOK
  <2>2. CASE w # "poll" /\ p.to < p.head /\ p.left > 0
    <3>1. Len(chain) \in Nat
      BY DEF Sound
    <3>2. p.to + 1 \in Nat /\ 1 <= p.to + 1 /\ p.to + 1 <= p.head /\ p.left - 1 \in Nat
      BY <1>2, <2>2
    <3>3. PageOK(Started(p.to + 1, p.head, p.left - 1), Len(chain))
      BY <1>2, <3>1, <3>2, StartedOK
    <3> QED
      BY <2>2, <3>3
  <2>3. CASE w # "poll" /\ ~(p.to < p.head /\ p.left > 0)
    BY <2>3, NoPageOK
  <2> QED
    BY <2>1, <2>2, <2>3
<1>6. page' = [page EXCEPT ![w] = q] /\ chain' = chain
  BY DEF Commit
<1> HIDE DEF q
<1>7. page' \in [Workers -> PageType] /\ \A v \in Workers : PageOK(page'[v], Len(chain'))
  BY <1>5, <1>6, PageStep
<1> QED
  BY <1>3, <1>4, <1>7, <1>8 DEF Sound, Commit

LEMMA SaveSound == ASSUME Sound, Save PROVE Sound'
<1>1. "poll" \in Workers
  BY DEF Workers
<1>2. PageOK(page["poll"], Len(chain)) /\ page["poll"].pc = "save"
  BY <1>1 DEF Sound, Save
<1>3. /\ page["poll"].to \in Nat /\ page["poll"].head \in Nat
      /\ page["poll"].to <= page["poll"].head /\ page["poll"].head <= Len(chain)
  BY <1>2 DEF PageOK, PageType
<1>4. Len(chain) \in Nat
  BY DEF Sound
<1>5. cursor' \in 0 .. Len(chain)
  BY <1>3, <1>4 DEF Save
<1>6. page' \in [Workers -> PageType] /\ \A v \in Workers : PageOK(page'[v], Len(chain'))
  BY <1>1, NoPageOK, PageStep DEF Save
<1> QED
  BY <1>5, <1>6 DEF Sound, Save, history

LEMMA LostSound == ASSUME Sound, NEW w \in Workers, Lost(w) PROVE Sound'
<1>1. page' \in [Workers -> PageType] /\ \A v \in Workers : PageOK(page'[v], Len(chain'))
  BY NoPageOK, PageStep DEF Lost
<1>2. faults' \in 0 .. MaxFaults
  BY CandlesAssumption DEF Sound, Lost, Faulted
<1> QED
  BY <1>1, <1>2 DEF Sound, Lost, history

LEMMA RewindSound == ASSUME Sound, Rewind PROVE Sound'
<1>1. cursor' \in 0 .. Len(chain)
  <2>1. PICK from \in 0 .. cursor : cursor' = from
    BY DEF Rewind
  <2>2. cursor \in 0 .. Len(chain) /\ Len(chain) \in Nat
    BY DEF Sound
  <2> QED
    BY <2>1, <2>2
<1>2. faults' \in 0 .. MaxFaults
  BY CandlesAssumption DEF Sound, Rewind, Faulted
<1> QED
  BY <1>1, <1>2 DEF Sound, Rewind, history

LEMMA InitSound == CandlesInit => Sound
<1> SUFFICES ASSUME CandlesInit PROVE Sound
  OBVIOUS
<1>1. chain \in Seq(Prices) /\ Len(chain) = 0
  BY EmptySeq DEF CandlesInit
<1>2. \A w \in Workers : page[w] = NoPage
  BY DEF CandlesInit
<1>3. \A w \in Workers : PageOK(page[w], Len(chain))
  BY <1>2, NoPageOK
<1>4. page \in [Workers -> PageType]
  <2>1. NoPage \in PageType
    BY NoPageOK DEF PageOK
  <2> QED
    BY <2>1 DEF CandlesInit
<1>5. reads \in Counts
  BY DEF CandlesInit, Counts, Blocks
<1>6. seen \in Sights
  BY DEF CandlesInit, Sights, Blocks
<1> QED
  BY <1>1, <1>3, <1>4, <1>5, <1>6, CandlesAssumption DEF CandlesInit, Sound
-----------------------------------------------------------------------------
(* What the rows show, step by step.                                       *)


(* What a page adds.                                                       *)
LEMMA CountedIs ==
  ASSUME Sound, NEW w \in Workers
  PROVE  /\ Counted(w) \in Counts
         /\ \A m : \A b \in Blocks :
              CountOf(Counted(w), m)[b]
                = CountOf(reads, m)[b] + PageCount(page[w].from, page[w].to, m)[b]
<1>1. \A b \in Blocks : reads[b] \in Nat
  BY DEF Sound, Counts
<1>2. Counted(w) \in Counts
  <2>1. ASSUME NEW b \in Blocks
        PROVE  (IF b \in page[w].from .. page[w].to THEN reads[b] + 1 ELSE reads[b]) \in Nat
    <3>1. reads[b] \in Nat /\ reads[b] + 1 \in Nat
      BY <1>1
    <3> QED
      BY <3>1
  <2> QED
    BY <2>1 DEF Counted, Counts
<1>4. ASSUME NEW m, NEW b \in Blocks
      PROVE  CountOf(Counted(w), m)[b]
               = CountOf(reads, m)[b] + PageCount(page[w].from, page[w].to, m)[b]
  <2>1. CountOf(Counted(w), m)[b] = IF MinuteOf(b) = m THEN Counted(w)[b] ELSE 0
    BY DEF CountOf
  <2>2. CountOf(reads, m)[b] = IF MinuteOf(b) = m THEN reads[b] ELSE 0
    BY DEF CountOf
  <2>3. PageCount(page[w].from, page[w].to, m)[b]
          = IF b \in page[w].from .. page[w].to /\ MinuteOf(b) = m THEN 1 ELSE 0
    BY DEF PageCount
  <2>4. Counted(w)[b] = IF b \in page[w].from .. page[w].to THEN reads[b] + 1 ELSE reads[b]
    BY DEF Counted
  <2>5. reads[b] \in Nat
    BY <1>1
  <2>6. CASE MinuteOf(b) = m /\ b \in page[w].from .. page[w].to
    BY <2>1, <2>2, <2>3, <2>4, <2>6
  <2>7. CASE MinuteOf(b) = m /\ b \notin page[w].from .. page[w].to
    <3>1. reads[b] = reads[b] + 0
      BY <2>5
    <3> QED
      BY <2>1, <2>2, <2>3, <2>4, <2>7, <3>1
  <2>8. CASE MinuteOf(b) # m
    BY <2>1, <2>2, <2>3, <2>8
  <2> QED
    BY <2>6, <2>7, <2>8
<1> QED
  BY <1>2, <1>4

LEMMA CountOfType ==
  ASSUME NEW n \in Counts, NEW m
  PROVE  CountOf(n, m) \in Counts /\ Support(CountOf(n, m)) = {b \in Support(n) : MinuteOf(b) = m}
<1>1. CountOf(n, m) \in Counts
  BY DEF Counts, CountOf
<1>2. \A b \in Blocks : CountOf(n, m)[b] > 0 <=> n[b] > 0 /\ MinuteOf(b) = m
  BY DEF CountOf
<1> QED
  BY <1>1, <1>2 DEF Support

ExactNow ==
  /\ OneAtATime
  /\ RowsRight
  /\ \A w \in Workers : BatchRight(w)
  /\ faults = 0 => OnceInOrder

(* Of polls alone, what was read is confirmed, and what the poll read too. *)
LEMMA ReadConfirmed ==
  ASSUME Sound, OnceInOrder
  PROVE  /\ \A b \in Support(reads) : b \in 1 .. Len(chain) /\ b <= Confirmed
         /\ page["poll"].pc \in {"logs", "merge"} =>
              \A b \in Support(Counted("poll")) : b \in 1 .. Len(chain) /\ b <= Confirmed
<1> DEFINE p == page["poll"]
<1>1. /\ p \in PageType /\ p.from \in Nat /\ p.to \in Nat /\ p.head \in Nat
      /\ cursor \in Nat /\ PageOK(p, Len(chain))
  BY DEF Sound, PageType, Workers
<1>2. Len(chain) \in Nat /\ Confirmed \in Int /\ Confirmed <= Len(chain) /\ Done \in Nat
  BY <1>1, CandlesAssumption DEF Confirmed, Sound, Done
<1>3. ASSUME NEW b \in Support(reads) PROVE b \in 1 .. Len(chain) /\ b <= Confirmed
  <2>1. b \in Nat /\ 1 <= b /\ b \in Blocks /\ reads[b] > 0
    BY DEF Support, Blocks
  <2>2. reads[b] = IF b <= Done THEN 1 ELSE 0
    BY <2>1 DEF OnceInOrder
  <2>3. b <= Done /\ (Done = 0 \/ Done <= Confirmed)
    BY <2>1, <2>2 DEF OnceInOrder
  <2> QED
    BY <1>2, <2>1, <2>3
<1>4. ASSUME p.pc \in {"logs", "merge"}, NEW b \in Support(Counted("poll"))
      PROVE  b \in 1 .. Len(chain) /\ b <= Confirmed
  <2>1. b \in Nat /\ 1 <= b /\ b \in Blocks /\ Counted("poll")[b] > 0
    BY DEF Support, Blocks
  <2>2. CASE b \in p.from .. p.to
    <3>1. p.to <= p.head /\ p.head <= Confirmed
      BY <1>1, <1>4 DEF PageOK, OnceInOrder
    <3> HIDE DEF p
    <3> QED
      BY <1>1, <1>2, <2>1, <2>2, <3>1
  <2>3. CASE b \notin p.from .. p.to
    <3>1. Counted("poll")[b] = reads[b]
      BY <2>1, <2>3 DEF Counted
    <3>2. b \in Support(reads)
      BY <2>1, <3>1 DEF Support
    <3> QED
      BY <1>3, <3>2
  <2> QED
    BY <2>2, <2>3
<1> QED
  BY <1>3, <1>4

(* A chain that only grows and changes where it is not confirmed.          *)
LEMMA ChainExact ==
  ASSUME Sound, ExactNow, UNCHANGED <<cursor, candles, page, reads, seen, faults>>,
         Len(chain') \in Nat, Len(chain) <= Len(chain'),
         \A b \in 1 .. Len(chain) : b <= Confirmed => chain'[b] = chain[b]
  PROVE  ExactNow'
<1>1. OneAtATime' /\ RowsRight'
  BY DEF ExactNow, OneAtATime, RowsRight
<1>2. ASSUME NEW w \in Workers PROVE BatchRight(w)'
  BY DEF ExactNow, BatchRight, Counted, Sight
<1>3. ASSUME faults' = 0 PROVE OnceInOrder'
  <2>1. OnceInOrder
    BY <1>3 DEF ExactNow
  <2>2. Confirmed \in Int /\ Confirmed' \in Int /\ Confirmed <= Confirmed'
    BY CandlesAssumption DEF Confirmed, Sound
  <2>3. /\ Done' = Done /\ Counted("poll")' = Counted("poll")
        /\ Done \in Nat /\ page["poll"].head \in Nat /\ page["poll"].to \in Nat
        /\ PageOK(page["poll"], Len(chain)) /\ Len(chain) \in Nat
    BY DEF Done, Counted, Sound, PageType, Workers
  <2>4. /\ Done = 0 \/ Done <= Confirmed'
        /\ page["poll"].pc # "idle" => page["poll"].head <= Confirmed'
    BY <2>1, <2>2, <2>3 DEF OnceInOrder
  <2>5. ASSUME page["poll"].pc = "merge"
        PROVE  \A b \in 1 .. page["poll"].to : page["poll"].view[b] = chain'[b]
    <3> TAKE b \in 1 .. page["poll"].to
    <3>1. page["poll"].view[b] = chain[b] /\ page["poll"].head <= Confirmed
      BY <2>1, <2>5 DEF OnceInOrder
    <3>2. page["poll"].to <= page["poll"].head /\ page["poll"].head <= Len(chain)
      BY <2>3, <2>5 DEF PageOK
    <3>3. b \in 1 .. Len(chain) /\ b <= Confirmed
      BY <2>2, <2>3, <3>1, <3>2
    <3> QED
      BY <3>1, <3>3
  <2>6. ASSUME NEW m \in Minutes, candles[m] # None
        PROVE  InOrder(candles[m], CountOf(reads, m), chain')
    <3>1. InOrder(candles[m], CountOf(reads, m), chain)
      BY <2>1, <2>6 DEF OnceInOrder
    <3>2. CountOf(reads, m) \in Counts /\ Support(CountOf(reads, m)) \subseteq Support(reads)
      BY CountOfType DEF Sound
    <3>3. \A b \in Support(CountOf(reads, m)) : chain'[b] = chain[b]
      BY <2>1, <3>2, ReadConfirmed
    <3> QED
      BY <3>1, <3>2, <3>3, SameOrder
  <2>7. ASSUME page["poll"].pc = "merge", NEW m \in Minutes, page["poll"].batch[m] # None
        PROVE  InOrder(page["poll"].batch[m], CountOf(Counted("poll"), m), chain')
    <3>1. InOrder(page["poll"].batch[m], CountOf(Counted("poll"), m), chain)
      BY <2>1, <2>7 DEF OnceInOrder
    <3>2. Counted("poll") \in Counts
      BY CountedIs DEF Workers
    <3>3. /\ CountOf(Counted("poll"), m) \in Counts
          /\ Support(CountOf(Counted("poll"), m)) \subseteq Support(Counted("poll"))
      BY <3>2, CountOfType
    <3>4. \A b \in Support(CountOf(Counted("poll"), m)) : chain'[b] = chain[b]
      BY <2>1, <2>7, <3>3, ReadConfirmed
    <3> QED
      BY <3>1, <3>3, <3>4, SameOrder
  <2> QED
    BY <2>1, <2>3, <2>4, <2>5, <2>6, <2>7 DEF OnceInOrder
<1> QED
  BY <1>1, <1>2, <1>3 DEF ExactNow

LEMMA MineExact == ASSUME Sound, ExactNow, NEW px \in Prices, Mine(px) PROVE ExactNow'
<1>1. /\ Len(chain) \in Nat /\ Len(chain') = Len(chain) + 1
      /\ \A b \in 1 .. Len(chain) : chain'[b] = chain[b]
  BY AppendProperties DEF Sound, Mine
<1>2. Len(chain') \in Nat /\ Len(chain) <= Len(chain')
  BY <1>1
<1>3. UNCHANGED <<cursor, candles, page, reads, seen, faults>>
  BY DEF Mine, history
<1> QED
  BY <1>1, <1>2, <1>3, ChainExact

LEMMA ReorganiseExact == ASSUME Sound, ExactNow, NEW px \in Prices, Reorganise(px) PROVE ExactNow'
<1>1. PICK b \in DOMAIN chain : b > Confirmed /\ chain' = [chain EXCEPT ![b] = px]
  BY DEF Reorganise
<1>2. chain' \in Seq(Prices) /\ Len(chain') = Len(chain) /\ Len(chain) \in Nat
  BY <1>1, ExceptSeq DEF Sound
<1>3. Confirmed \in Int
  BY <1>2, CandlesAssumption DEF Confirmed
<1>4. \A d \in 1 .. Len(chain) : d <= Confirmed => chain'[d] = chain[d]
  <2> TAKE d \in 1 .. Len(chain)
  <2> HAVE d <= Confirmed
  <2>1. b \in Int /\ d # b
    BY <1>1, <1>3 DEF Sound
  <2> QED
    BY <1>1, <2>1 DEF Sound
<1>5. UNCHANGED <<cursor, candles, page, reads, seen, faults>>
  BY DEF Reorganise, history
<1> QED
  BY <1>2, <1>4, <1>5, ChainExact

(* Steps that give one worker a page with nothing in its batch, and leave  *)
(* D1 as it is.                                                            *)
LEMMA FreshExact ==
  ASSUME Sound, ExactNow, NEW w \in Workers, NEW p, p \in PageType,
         page' = [page EXCEPT ![w] = p], UNCHANGED <<candles, reads, seen>>,
         p.pc = "merge" => \A m \in Minutes : p.batch[m] = None,
         p.pc = "idle" \/ \A v \in Workers \ {w} : page[v].pc = "idle"
  PROVE  OneAtATime' /\ RowsRight' /\ \A v \in Workers : BatchRight(v)'
<1>1. page' \in [Workers -> PageType] /\ page'[w] = p /\ \A v \in Workers \ {w} : page'[v] = page[v]
  BY DEF Sound
<1>2. OneAtATime'
  <2>1. CASE p.pc = "idle"
    BY <1>1, <2>1 DEF OneAtATime
  <2>2. CASE p.pc # "idle"
    <3>1. \E v \in Workers : v # w
      BY DEF Workers
    <3> QED
      BY <1>1, <2>2, <3>1 DEF OneAtATime
  <2> QED
    BY <2>1, <2>2
<1>3. RowsRight'
  BY DEF ExactNow, RowsRight
<1>4. ASSUME NEW v \in Workers PROVE BatchRight(v)'
  <2>1. CASE v = w
    BY <1>1, <2>1 DEF BatchRight
  <2>2. CASE v # w
    <3>1. page'[v] = page[v] /\ Counted(v)' = Counted(v) /\ Sight(v)' = Sight(v)
      BY <1>1, <2>2 DEF Counted, Sight
    <3>2. BatchRight(v)
      BY DEF ExactNow
    <3> QED
      BY <3>1, <3>2 DEF BatchRight
  <2> QED
    BY <2>1, <2>2
<1> QED
  BY <1>2, <1>3, <1>4

LEMMA PollBeginExact ==
  ASSUME Sound, ExactNow, "overlap" \notin Faults, PollBegin
  PROVE  ExactNow'
<1> DEFINE p == Started(cursor + 1, Confirmed, 0)
<1>1. /\ Len(chain) \in Nat /\ Confirmed \in Nat /\ Confirmed <= Len(chain)
      /\ cursor \in Nat /\ cursor < Confirmed
  BY CandlesAssumption DEF Sound, PollBegin, Confirmed
<1>2. PageOK(p, Len(chain)) /\ p.pc = "logs" /\ p.from = cursor + 1 /\ p.head = Confirmed
  BY <1>1, StartedOK
<1>3. /\ page' = [page EXCEPT !["poll"] = p]
      /\ UNCHANGED <<chain, cursor, candles, reads, seen, faults>>
  BY DEF PollBegin, history
<1> HIDE DEF p
<1>4. p \in PageType /\ "poll" \in Workers /\ \A v \in Workers \ {"poll"} : page[v].pc = "idle"
  BY <1>2 DEF PageOK, PollBegin, Apart, Workers
<1>5. OneAtATime' /\ RowsRight' /\ \A v \in Workers : BatchRight(v)'
  BY <1>2, <1>3, <1>4, FreshExact
<1>6. ASSUME faults' = 0 PROVE OnceInOrder'
  <2>1. OnceInOrder
    BY <1>3, <1>6 DEF ExactNow
  <2>2. page'["poll"] = p /\ page'["backfill"] = page["backfill"]
    BY <1>3, <1>4 DEF Sound, Workers
  <2>3. Done = cursor /\ Done' = cursor /\ Confirmed' = Confirmed
    BY <1>2, <1>3, <2>2 DEF Done, PollBegin, Confirmed
  <2>4. p.head <= Confirmed
    BY <1>1, <1>2
  <2> QED
    BY <1>2, <1>3, <2>1, <2>2, <2>3, <2>4 DEF OnceInOrder
<1> QED
  BY <1>5, <1>6 DEF ExactNow

LEMMA BackfillBeginExact ==
  ASSUME Sound, ExactNow, "overlap" \notin Faults, BackfillBegin
  PROVE  ExactNow'
<1>1. PICK from \in DOMAIN chain :
        page' = [page EXCEPT !["backfill"] = Started(from, Len(chain), MaxPages - 1)]
  BY DEF BackfillBegin
<1> DEFINE p == Started(from, Len(chain), MaxPages - 1)
<1>2. Len(chain) \in Nat /\ from \in Nat /\ 1 <= from /\ from <= Len(chain)
  BY DEF Sound
<1>3. PageOK(p, Len(chain)) /\ p.pc = "logs"
  <2>1. MaxPages - 1 \in Nat
    BY CandlesAssumption
  <2> QED
    BY <1>2, <2>1, StartedOK
<1>4. page' = [page EXCEPT !["backfill"] = p] /\ UNCHANGED <<candles, reads, seen>>
  BY <1>1 DEF BackfillBegin, history
<1> HIDE DEF p
<1>5. p \in PageType /\ "backfill" \in Workers /\ \A v \in Workers \ {"backfill"} : page[v].pc = "idle"
  BY <1>3 DEF PageOK, BackfillBegin, Apart, Workers
<1>6. OneAtATime' /\ RowsRight' /\ \A v \in Workers : BatchRight(v)'
  BY <1>3, <1>4, <1>5, FreshExact
<1>7. faults' # 0
  BY CandlesAssumption DEF BackfillBegin, Faulted, Sound
<1> QED
  BY <1>6, <1>7 DEF ExactNow

LEMMA GetLogsExact ==
  ASSUME Sound, ExactNow, NEW w \in Workers, GetLogs(w)
  PROVE  ExactNow'
<1>1. PICK q : /\ page' = [page EXCEPT ![w] = q] /\ PageOK(q, Len(chain))
               /\ q.pc = "merge" /\ q.from = page[w].from /\ q.to = page[w].to
               /\ q.head = page[w].head
               /\ \A m \in Minutes : q.batch[m] = None
               /\ \A b \in 1 .. q.to : q.view[b] = chain[b]
  BY GetLogsIs
<1>2. UNCHANGED <<chain, cursor, candles, reads, seen, faults>> /\ page[w].pc = "logs"
  BY DEF GetLogs, history
<1>3. q \in PageType /\ \A v \in Workers \ {w} : page[v].pc = "idle"
  <2>1. PICK v \in Workers : page[v].pc = "idle"
    BY DEF ExactNow, OneAtATime
  <2>2. v # w
    BY <1>2, <2>1
  <2> QED
    BY <1>1, <2>1, <2>2 DEF Workers, PageOK
<1>4. OneAtATime' /\ RowsRight' /\ \A v \in Workers : BatchRight(v)'
  BY <1>1, <1>2, <1>3, FreshExact
<1>5. ASSUME faults' = 0 PROVE OnceInOrder'
  <2>1. OnceInOrder
    BY <1>2, <1>5 DEF ExactNow
  <2>2. w = "poll"
    BY <1>2, <2>1 DEF OnceInOrder, Workers
  <2>3. page'["poll"] = q /\ page'["backfill"] = page["backfill"]
    BY <1>1, <2>2 DEF Sound, Workers
  <2>4. Done' = Done /\ Confirmed' = Confirmed
    BY <1>1, <1>2, <2>2, <2>3 DEF Done, Confirmed
  <2> QED
    BY <1>1, <1>2, <2>1, <2>2, <2>3, <2>4 DEF OnceInOrder
<1> QED
  BY <1>4, <1>5 DEF ExactNow

LEMMA SaveExact == ASSUME Sound, ExactNow, Save PROVE ExactNow'
<1>1. "poll" \in Workers /\ NoPage \in PageType /\ NoPage.pc = "idle"
  BY NoPageOK DEF Workers, PageOK, NoPage
<1>2. OneAtATime' /\ RowsRight' /\ \A v \in Workers : BatchRight(v)'
  BY <1>1, FreshExact DEF Save, history
<1>3. ASSUME faults' = 0 PROVE OnceInOrder'
  <2>1. OnceInOrder
    BY <1>3 DEF ExactNow, Save
  <2>2. page'["poll"].pc = "idle" /\ page'["backfill"] = page["backfill"]
    BY <1>1 DEF Sound, Workers, Save
  <2>3. Done' = Done /\ Confirmed' = Confirmed
    BY <2>2 DEF Done, Save, Confirmed
  <2> QED
    BY <2>1, <2>2, <2>3 DEF OnceInOrder, Save, history
<1> QED
  BY <1>2, <1>3 DEF ExactNow

LEMMA LostExact == ASSUME Sound, ExactNow, NEW w \in Workers, Lost(w) PROVE ExactNow'
<1>1. NoPage \in PageType /\ NoPage.pc = "idle"
  BY NoPageOK DEF PageOK, NoPage
<1>2. OneAtATime' /\ RowsRight' /\ \A v \in Workers : BatchRight(v)'
  BY <1>1, FreshExact DEF Lost, history
<1>3. ASSUME faults' = 0 PROVE OnceInOrder'
  <2>1. faults = 0 /\ page[w].pc \in {"logs", "merge"}
    BY <1>3, CandlesAssumption DEF Lost, Faulted, Sound
  <2>2. OnceInOrder
    BY <2>1 DEF ExactNow
  <2>3. w = "poll"
    BY <2>1, <2>2 DEF OnceInOrder, Workers
  <2>4. page'["poll"].pc = "idle" /\ page'["backfill"] = page["backfill"]
    BY <1>1, <2>3 DEF Sound, Workers, Lost
  <2>5. Done' = Done /\ Confirmed' = Confirmed
    BY <2>1, <2>3, <2>4 DEF Done, Lost, Confirmed
  <2> QED
    BY <2>2, <2>4, <2>5 DEF OnceInOrder, Lost, history
<1> QED
  BY <1>2, <1>3 DEF ExactNow

LEMMA RewindExact == ASSUME Sound, ExactNow, Rewind PROVE ExactNow'
<1>1. faults' # 0 /\ UNCHANGED <<chain, candles, page, reads, seen>>
  BY CandlesAssumption DEF Rewind, Faulted, Sound, history
<1>2. OneAtATime' /\ RowsRight'
  BY <1>1 DEF ExactNow, OneAtATime, RowsRight
<1>3. ASSUME NEW w \in Workers PROVE BatchRight(w)'
  BY <1>1 DEF ExactNow, BatchRight, Counted, Sight
<1> QED
  BY <1>1, <1>2, <1>3 DEF ExactNow
LEMMA MergeExact ==
  ASSUME Sound, ExactNow, NEW w \in Workers, Merge(w)
  PROVE  ExactNow'
<1> DEFINE p == page[w]
           from == p.from
           to == p.to
<1>1. PICK m \in p.todo :
        /\ m \in Minutes /\ \E b \in from .. to : MinuteOf(b) = m
        /\ FoldedPage(p, m) \in Candle
        /\ Merged(candles[m], FoldedPage(p, m)) \in Candle
        /\ page' = [page EXCEPT ![w] = [p EXCEPT !.todo = @ \ {m},
                                        !.batch[m] = Merged(candles[m], FoldedPage(p, m))]]
  BY MergeIs
<1> DEFINE old == candles[m]
           new == FoldedPage(p, m)
           row == Merged(old, new)
           k == PageCount(from, to, m)
           n == CountOf(reads, m)
           s == CountOf(Counted(w), m)
<1>2. /\ PageOK(p, Len(chain)) /\ p.pc = "merge" /\ p \in PageType /\ page \in [Workers -> PageType]
      /\ UNCHANGED <<chain, cursor, candles, reads, seen, faults>>
  BY DEF Sound, PageOK, Merge, history
<1>3. /\ from \in Nat /\ to \in Nat /\ p.head \in Nat /\ 1 <= from /\ to <= p.head
      /\ p.head <= Len(chain) /\ Len(chain) \in Nat /\ p.batch \in [Minutes -> Candle \cup {None}]
      /\ p.view \in Seq(Prices) /\ Len(p.view) = to
  BY <1>2 DEF PageType, PageOK, Sound
<1>4. /\ to <= Len(p.view) /\ Len(p.view) <= MaxBlocks /\ chain \in Seq(Prices)
      /\ reads \in Counts /\ seen \in Sights
  BY <1>3, BlocksFinite DEF Sound
<1>5. /\ k \in Counts /\ Real(k, p.view) /\ Shows(new, k, PageSight(p.view))
      /\ InOrder(new, k, p.view)
  BY <1>1, <1>3, <1>4, FoldShows DEF FoldedPage
<1>6. Right(old, n, seen) /\ \A b \in Blocks : reads[b] = 0 => seen[b] = {}
  BY <1>1 DEF ExactNow, RowsRight
<1>7. /\ s \in Counts /\ n \in Counts
      /\ \A b \in Blocks : s[b] = n[b] + k[b]
      /\ Support(n) = {b \in Support(reads) : MinuteOf(b) = m}
  BY <1>4, CountedIs, CountOfType
<1>20. ASSUME NEW b \in Support(k) PROVE b \in Blocks /\ b \in from .. to /\ MinuteOf(b) = m
  BY DEF Support, PageCount
<1>21. ASSUME NEW b \in Blocks, b \in from .. to, MinuteOf(b) = m PROVE b \in Support(k)
  BY <1>21 DEF Support, PageCount
<1>8. Shows(row, s, Sight(w))
  <2> DEFINE t == Sight(w)
             sk == PageSight(p.view)
  <2>1. \A b \in Support(n) : seen[b] \subseteq t[b]
    BY DEF Sight, Support
  <2>2. \A b \in Support(k) : sk[b] \subseteq t[b]
    BY <1>20 DEF Sight, PageSight
  <2>3. ASSUME NEW b \in Support(s), NEW x \in t[b]
        PROVE  /\ x \in Nat
               /\ (b \in Support(n) /\ x \in seen[b]) \/ (b \in Support(k) /\ x \in sk[b])
    <3>1. b \in Blocks /\ MinuteOf(b) = m
      BY DEF Support, CountOf
    <3>2. CASE x \in seen[b]
      <4>1. reads[b] # 0 /\ reads[b] \in Nat
        BY <1>4, <1>6, <3>1, <3>2 DEF Counts
      <4>2. b \in Support(n)
        BY <1>7, <3>1, <4>1 DEF Support
      <4>3. x \in Prices
        BY <1>4, <3>1, <3>2 DEF Sights
      <4> QED
        BY <3>2, <4>2, <4>3, CandlesAssumption
    <3>3. CASE x \notin seen[b]
      <4>1. b \in from .. to /\ x = p.view[b]
        BY <3>1, <3>3 DEF Sight
      <4>2. b \in Support(k) /\ x \in sk[b]
        BY <1>21, <3>1, <4>1 DEF PageSight
      <4>3. x \in Prices
        BY <1>3, <4>1
      <4> QED
        BY <4>2, <4>3, CandlesAssumption
    <3> QED
      BY <3>2, <3>3
  <2> HIDE DEF k, n, s, t, sk, old, new
  <2>4. Shows(Merged(old, new), s, t)
    BY <1>4, <1>5, <1>6, <1>7, <2>1, <2>2, <2>3, MergeShows DEF sk
  <2> QED
    BY <2>4 DEF t
<1> DEFINE q == [p EXCEPT !.todo = @ \ {m}, !.batch[m] = row]
<1>9. /\ q.pc = p.pc /\ q.from = from /\ q.to = to /\ q.view = p.view /\ q.head = p.head
      /\ q.batch = [p.batch EXCEPT ![m] = row]
  <2> DEFINE todo == p.todo \ {m}
             batch == [p.batch EXCEPT ![m] = row]
  <2>1. q = [p EXCEPT !.todo = todo, !.batch = batch]
    OBVIOUS
  <2> HIDE DEF p, q, todo, batch
  <2>2. q.pc = p.pc /\ q.from = p.from /\ q.to = p.to /\ q.batch = batch /\ q.view = p.view
        /\ q.head = p.head
    BY <1>2, <2>1 DEF PageType
  <2> QED
    BY <2>2 DEF batch
<1>10. page' = [page EXCEPT ![w] = q]
  BY <1>1
<1> HIDE DEF row, q
<1>11. page'[w] = q /\ \A v \in Workers \ {w} : page'[v] = page[v]
  BY <1>2, <1>10
<1>12. \A v \in Workers : Counted(v)' = Counted(v) /\ Sight(v)' = Sight(v)
  <2> TAKE v \in Workers
  <2>1. /\ page'[v].from = page[v].from /\ page'[v].to = page[v].to
        /\ page'[v].view = page[v].view
    BY <1>9, <1>11
  <2> QED
    BY <1>2, <2>1 DEF Counted, Sight
<1>13. \A x \in Minutes : page'[w].batch[x] = IF x = m THEN row ELSE p.batch[x]
  <2>1. page'[w].batch = [p.batch EXCEPT ![m] = row]
    BY <1>9, <1>11
  <2> DEFINE batch == p.batch
  <2> HIDE DEF p, batch
  <2>2. batch \in [Minutes -> Candle \cup {None}]
    BY <1>3 DEF batch
  <2>3. page'[w].batch = [batch EXCEPT ![m] = row]
    BY <2>1 DEF batch
  <2> QED
    BY <2>2, <2>3 DEF batch
<1>14. ASSUME NEW v \in Workers PROVE BatchRight(v)'
  <2> SUFFICES ASSUME page'[v].pc = "merge", NEW x \in Minutes, page'[v].batch[x] # None
               PROVE  Shows(page'[v].batch[x], CountOf(Counted(v), x), Sight(v))
    BY <1>2, <1>12 DEF BatchRight
  <2>1. CASE v = w /\ x = m
    BY <1>8, <1>13, <2>1
  <2>2. CASE ~(v = w /\ x = m)
    <3>1. page'[v].pc = page[v].pc /\ page'[v].batch[x] = page[v].batch[x]
      BY <1>9, <1>11, <1>13, <2>2
    <3>2. BatchRight(v)
      BY DEF ExactNow
    <3> QED
      BY <3>1, <3>2 DEF BatchRight
  <2> QED
    BY <2>1, <2>2
<1>15. OneAtATime' /\ RowsRight'
  <2>1. \A v \in Workers : page'[v].pc = page[v].pc
    BY <1>9, <1>11
  <2> QED
    BY <1>2, <2>1 DEF ExactNow, OneAtATime, RowsRight
<1>16. ASSUME faults' = 0 PROVE OnceInOrder'
  <2>1. OnceInOrder
    BY <1>2, <1>16 DEF ExactNow
  <2>2. w = "poll"
    BY <1>2, <2>1 DEF OnceInOrder, Workers
  <2>3. Done = cursor /\ from = cursor + 1 /\ cursor \in Nat
    BY <1>2, <2>1, <2>2 DEF Done, OnceInOrder, Sound
  <2>4. Done' = Done
    BY <1>2, <1>9, <1>11, <2>2 DEF Done
  <2>5. InOrder(row, s, chain)
    <3>1. old # None => InOrder(old, n, chain)
      BY <1>1, <2>1 DEF OnceInOrder
    <3>7. \A b \in Support(k) : b \in 1 .. Len(chain) /\ p.view[b] = chain[b]
      <4> TAKE b \in Support(k)
      <4>1. b \in from .. to /\ \A d \in 1 .. to : p.view[d] = chain[d]
        BY <1>2, <1>20, <2>1, <2>2 DEF OnceInOrder
      <4>2. b \in 1 .. to /\ to <= Len(chain)
        BY <1>3, <4>1
      <4> HIDE DEF from, to
      <4> QED
        BY <1>3, <4>1, <4>2
    <3>8. InOrder(new, k, chain)
      <4> HIDE DEF k, new
      <4> QED
        BY <1>5, <3>7, SameOrder
    <3>9. Real(k, chain) /\ Real(n, chain)
      BY <1>7, <2>1, <3>7, ReadConfirmed DEF Real
    <3>2. ASSUME NEW b \in Support(n), NEW d \in Support(k) PROVE b < d
      <4>1. b \in Blocks /\ b \in Nat /\ n[b] > 0
        BY DEF Support, Blocks
      <4>2. reads[b] > 0
        BY <4>1 DEF CountOf
      <4>3. b <= cursor
        BY <2>1, <2>3, <4>1, <4>2 DEF OnceInOrder
      <4>4. d \in Blocks /\ d \in Nat /\ k[d] > 0
        BY DEF Support, Blocks
      <4>5. d \in from .. to
        BY <4>4 DEF PageCount
      <4> HIDE DEF from, to
      <4> QED
        BY <1>3, <2>3, <4>1, <4>3, <4>4, <4>5
    <3>3. /\ k \in Counts /\ n \in Counts /\ s \in Counts /\ chain \in Seq(Prices)
          /\ \A b \in Blocks : s[b] = n[b] + k[b]
      BY <1>4, <1>5, <1>7
    <3>4. /\ old = None <=> Support(n) = {}
          /\ old \in Candle \cup {None}
      BY <1>1, <1>6, NoneAssumption DEF Right, Shows, Sound
    <3>5. \A b \in Support(n), d \in Support(k) : b < d
      BY <3>2
    <3> HIDE DEF k, n, s, old, new
    <3>6. InOrder(Merged(old, new), s, chain)
      BY <3>1, <3>3, <3>4, <3>5, <3>8, <3>9, MergeInOrder
    <3> QED
      BY <3>6 DEF row
  <2>6. ASSUME NEW x \in Minutes, page'["poll"].batch[x] # None
        PROVE  InOrder(page'["poll"].batch[x], CountOf(Counted("poll"), x), chain)
    <3>1. CASE x = m
      BY <1>13, <2>2, <2>5, <3>1
    <3>2. CASE x # m
      <4>1. page'["poll"].batch[x] = page["poll"].batch[x] /\ page["poll"].pc = "merge"
        BY <1>2, <1>13, <2>2, <3>2
      <4> QED
        BY <2>1, <2>6, <4>1 DEF OnceInOrder
    <3> QED
      BY <3>1, <3>2
  <2>7. /\ page'["backfill"] = page["backfill"] /\ page'["poll"].from = page["poll"].from
        /\ page'["poll"].pc = page["poll"].pc /\ page'["poll"].to = page["poll"].to
        /\ page'["poll"].view = page["poll"].view /\ page'["poll"].head = page["poll"].head
        /\ Confirmed' = Confirmed /\ Counted("poll")' = Counted("poll")
    BY <1>2, <1>9, <1>11, <1>12, <2>2 DEF Workers, Confirmed
  <2> QED
    BY <1>2, <2>1, <2>4, <2>6, <2>7 DEF OnceInOrder
<1> QED
  BY <1>14, <1>15, <1>16 DEF ExactNow

(* The rows of a batch are those that its page changes.                    *)
LEMMA CommitIs ==
  ASSUME Sound, ExactNow, NEW w \in Workers, Commit(w)
  PROVE  /\ reads' = Counted(w) /\ seen' = Sight(w)
         /\ \A m \in Minutes :
              IF page[w].batch[m] = None
                THEN candles'[m] = candles[m] /\ CountOf(Counted(w), m) = CountOf(reads, m)
                ELSE candles'[m] = page[w].batch[m]
<1> DEFINE p == page[w]
<1>1. PageOK(p, Len(chain)) /\ p.pc = "merge" /\ p \in PageType /\ p.todo = {}
  BY DEF Sound, PageOK, Commit
<1>2. reads' = Counted(w) /\ seen' = Sight(w)
  BY DEF Sound, Counts, Counted, Sights, Sight, Commit
<1>3. ASSUME NEW m \in Minutes, p.batch[m] = None
      PROVE  candles'[m] = candles[m] /\ CountOf(Counted(w), m) = CountOf(reads, m)
  <2>1. candles'[m] = candles[m]
    BY <1>3 DEF Commit
  <2>2. ~\E b \in p.from .. p.to : MinuteOf(b) = m
    BY <1>1, <1>3 DEF PageOK
  <2>3. \A b \in Blocks : MinuteOf(b) = m => Counted(w)[b] = reads[b]
    BY <2>2 DEF Counted
  <2>4. CountOf(Counted(w), m) = CountOf(reads, m)
    BY <2>3 DEF CountOf
  <2> QED
    BY <2>1, <2>4
<1>4. ASSUME NEW m \in Minutes, p.batch[m] # None PROVE candles'[m] = p.batch[m]
  BY <1>4 DEF Commit
<1> QED
  BY <1>2, <1>3, <1>4

LEMMA CommitExact ==
  ASSUME Sound, ExactNow, NEW w \in Workers, Commit(w)
  PROVE  ExactNow'
<1> DEFINE p == page[w]
<1>1. /\ PageOK(p, Len(chain)) /\ p.pc = "merge" /\ p \in PageType /\ page \in [Workers -> PageType]
      /\ UNCHANGED <<chain, cursor, faults>>
  BY DEF Sound, PageOK, Commit
<1>2. /\ reads' = Counted(w) /\ seen' = Sight(w)
      /\ \A m \in Minutes :
           IF p.batch[m] = None
             THEN candles'[m] = candles[m] /\ CountOf(Counted(w), m) = CountOf(reads, m)
             ELSE candles'[m] = p.batch[m]
  BY CommitIs
<1>3. /\ \A b \in Blocks : reads[b] \in Nat /\ (reads[b] = 0 => seen[b] = {})
      /\ seen \in Sights
  BY DEF ExactNow, RowsRight, Sound, Counts
<1>4. RowsRight'
  <2>2. ASSUME NEW b \in Blocks, Counted(w)[b] = 0 PROVE Sight(w)[b] = {}
    <3>1. reads[b] + 1 # 0
      BY <1>3
    <3>2. b \notin p.from .. p.to /\ reads[b] = 0
      BY <2>2, <3>1 DEF Counted
    <3> QED
      BY <1>3, <3>2 DEF Sight
  <2>1. ASSUME NEW m \in Minutes PROVE Right(candles'[m], CountOf(Counted(w), m), Sight(w))
    <3>1. CASE p.batch[m] = None
      <4>1. candles'[m] = candles[m] /\ CountOf(Counted(w), m) = CountOf(reads, m)
        BY <1>2, <3>1
      <4>2. Right(candles[m], CountOf(reads, m), seen)
        BY DEF ExactNow, RowsRight
      <4>3. \A b \in Support(CountOf(reads, m)) : Sight(w)[b] = seen[b]
        <5>1. p.todo = {}
          BY DEF Commit
        <5>2. ~\E b \in p.from .. p.to : MinuteOf(b) = m
          BY <1>1, <3>1, <5>1 DEF PageOK
        <5> QED
          BY <5>2 DEF Support, CountOf, Sight
      <4>4. Right(candles[m], CountOf(reads, m), Sight(w))
        BY <4>2, <4>3 DEF Right, Shows
      <4> QED
        BY <4>1, <4>4
    <3>2. CASE p.batch[m] # None
      <4>1. Shows(p.batch[m], CountOf(Counted(w), m), Sight(w))
        BY <1>1, <3>2 DEF ExactNow, BatchRight
      <4>2. candles'[m] = p.batch[m]
        BY <1>2, <3>2
      <4> QED
        BY <4>1, <4>2 DEF Right, Shows
    <3> QED
      BY <3>1, <3>2
  <2> QED
    BY <1>2, <2>1, <2>2 DEF RowsRight
<1> DEFINE q == IF w = "poll" THEN [p EXCEPT !.pc = "save"]
                ELSE IF p.to < p.head /\ p.left > 0
                THEN Started(p.to + 1, p.head, p.left - 1) ELSE NoPage
<1>5. page' = [page EXCEPT ![w] = q]
  BY DEF Commit
<1>6. q.pc = "merge" => \A m \in Minutes : q.batch[m] = None
  <2>1. CASE w = "poll"
    BY <1>1, <2>1 DEF PageType
  <2>2. CASE w # "poll" /\ p.to < p.head /\ p.left > 0
    BY <2>2 DEF Started, NoPage
  <2>3. CASE w # "poll" /\ ~(p.to < p.head /\ p.left > 0)
    BY <2>3 DEF NoPage
  <2> QED
    BY <2>1, <2>2, <2>3
<1> HIDE DEF q
<1>7. page'[w] = q /\ \A v \in Workers \ {w} : page'[v] = page[v]
  BY <1>1, <1>5
<1>8. \A v \in Workers \ {w} : page[v].pc = "idle"
  <2>1. PICK v \in Workers : page[v].pc = "idle"
    BY DEF ExactNow, OneAtATime
  <2>2. v # w
    BY <1>1, <2>1
  <2> QED
    BY <2>1, <2>2 DEF Workers
<1>9. OneAtATime'
  <2>1. \E v \in Workers : v # w
    BY DEF Workers
  <2> QED
    BY <1>7, <1>8, <2>1 DEF OneAtATime
<1>10. ASSUME NEW v \in Workers PROVE BatchRight(v)'
  BY <1>6, <1>7, <1>8 DEF BatchRight
<1>11. ASSUME faults' = 0 PROVE OnceInOrder'
  <2>1. OnceInOrder
    BY <1>1, <1>11 DEF ExactNow
  <2>2. w = "poll"
    BY <1>1, <2>1 DEF OnceInOrder, Workers
  <2>3. Done = cursor /\ p.from = cursor + 1 /\ cursor \in Nat
    BY <1>1, <2>1, <2>2 DEF Done, OnceInOrder, Sound
  <2>4. /\ page'["poll"].pc = "save" /\ page'["poll"].to = p.to
        /\ page'["poll"].head = p.head
        /\ page'["backfill"] = page["backfill"]
    <3>1. q = [p EXCEPT !.pc = "save"]
      BY <2>2 DEF q
    <3> HIDE DEF p
    <3>2. q.pc = "save" /\ q.to = p.to /\ q.head = p.head
      BY <1>1, <3>1 DEF PageType
    <3> QED
      BY <1>7, <2>2, <3>2 DEF Workers
  <2>5. Done' = p.to
    BY <2>4 DEF Done
  <2>6. /\ p.to \in Nat /\ p.head \in Nat /\ p.to <= p.head /\ p.head <= Len(chain)
        /\ Len(chain) \in Nat /\ p.from <= p.to
    BY <1>1 DEF PageType, PageOK, Sound
  <2>7. reads' = [b \in Blocks |-> IF b <= p.to THEN 1 ELSE 0]
    <3>1. ASSUME NEW b \in Blocks
          PROVE  (IF b \in p.from .. p.to THEN reads[b] + 1 ELSE reads[b]) = IF b <= p.to THEN 1 ELSE 0
      <4> DEFINE t == p.to
                 c == cursor
      <4>1. b \in Nat /\ t \in Nat /\ c \in Nat /\ c < t
        BY <2>3, <2>6 DEF Blocks
      <4>2. reads[b] = IF b <= c THEN 1 ELSE 0
        BY <2>1, <2>3 DEF OnceInOrder
      <4>3. b \in p.from .. p.to <=> c < b /\ b <= t
        BY <2>3, <2>6, <4>1
      <4> HIDE DEF t, c
      <4>4. CASE b <= c
        BY <4>1, <4>2, <4>3, <4>4 DEF t
      <4>5. CASE c < b /\ b <= t
        <5>1. reads[b] = 0
          BY <4>1, <4>2, <4>5
        <5> QED
          BY <4>1, <4>3, <4>5, <5>1 DEF t
      <4>6. CASE t < b
        BY <4>1, <4>2, <4>3, <4>6 DEF t
      <4> QED
        BY <4>1, <4>4, <4>5, <4>6
    <3> QED
      BY <1>2, <3>1 DEF Counted
  <2>8. ASSUME NEW m \in Minutes, candles'[m] # None
        PROVE  InOrder(candles'[m], CountOf(Counted(w), m), chain)
    <3>1. CASE p.batch[m] = None
      <4>1. candles'[m] = candles[m] /\ CountOf(Counted(w), m) = CountOf(reads, m)
        BY <1>2, <3>1
      <4> QED
        BY <2>1, <2>8, <4>1 DEF OnceInOrder
    <3>2. CASE p.batch[m] # None
      <4>1. InOrder(p.batch[m], CountOf(Counted(w), m), chain)
        BY <1>1, <2>1, <2>2, <3>2 DEF OnceInOrder
      <4>2. candles'[m] = p.batch[m]
        BY <1>2, <3>2
      <4> QED
        BY <4>1, <4>2
    <3> QED
      BY <3>1, <3>2
  <2>9. p.head <= Confirmed /\ p.to <= Confirmed /\ Confirmed' = Confirmed
    <3>1. p.head <= Confirmed /\ Confirmed \in Int
      BY <1>1, <2>1, <2>2, CandlesAssumption DEF OnceInOrder, Confirmed, Sound
    <3> HIDE DEF p
    <3> QED
      BY <1>1, <2>6, <3>1 DEF Confirmed
  <2> QED
    BY <1>1, <1>2, <2>1, <2>4, <2>5, <2>7, <2>8, <2>9 DEF OnceInOrder
<1> QED
  BY <1>4, <1>9, <1>10, <1>11 DEF ExactNow

-----------------------------------------------------------------------------
(* Together.                                                               *)

LEMMA InitCandlesInv == CandlesInit => CandlesInv
<1> SUFFICES ASSUME CandlesInit PROVE CandlesInv
  OBVIOUS
<1>1. Sound
  BY InitSound
<1>2. Support(reads) = {} /\ \A m : Support(CountOf(reads, m)) = {}
  <2>1. \A b \in Blocks : reads[b] = 0
    BY DEF CandlesInit, Blocks
  <2>2. \A m : \A b \in Blocks : CountOf(reads, m)[b] = 0
    BY <2>1 DEF CountOf
  <2> QED
    BY <2>1, <2>2 DEF Support
<1>3. RowsRight
  BY <1>2 DEF RowsRight, Right, CandlesInit, Blocks
<1>4. \A w \in Workers : page[w].pc = "idle"
  BY DEF CandlesInit, NoPage
<1>5. OneAtATime /\ \A w \in Workers : BatchRight(w)
  BY <1>4 DEF OneAtATime, BatchRight, Workers
<1>6. OnceInOrder
  <2>1. page["poll"].pc = "idle" /\ page["backfill"].pc = "idle"
    BY <1>4 DEF Workers
  <2>2. Done = 0
    BY <2>1 DEF Done, CandlesInit
  <2>3. reads = [b \in Blocks |-> IF b <= 0 THEN 1 ELSE 0]
    BY DEF CandlesInit, Blocks
  <2>4. \A m \in Minutes : candles[m] = None
    BY DEF CandlesInit
  <2> QED
    BY <2>1, <2>2, <2>3, <2>4 DEF OnceInOrder
<1> QED
  BY <1>1, <1>3, <1>5, <1>6 DEF CandlesInv, Exact

LEMMA NextCandlesInv ==
  ASSUME CandlesInv, [CandlesNext]_candleVars
  PROVE  CandlesInv'
<1>1. Sound /\ ("overlap" \notin Faults => ExactNow)
  BY DEF CandlesInv, Exact, ExactNow
<1>2. Sound' /\ ("overlap" \notin Faults => ExactNow')
  <2>1. ASSUME NEW px \in Prices, Mine(px)
        PROVE  Sound' /\ ("overlap" \notin Faults => ExactNow')
    BY <1>1, <2>1, MineSound, MineExact
  <2>10. ASSUME NEW px \in Prices, Reorganise(px)
         PROVE  Sound' /\ ("overlap" \notin Faults => ExactNow')
    BY <1>1, <2>10, ReorganiseSound, ReorganiseExact
  <2>11. ASSUME NEW w \in Workers, GetLogs(w)
         PROVE  Sound' /\ ("overlap" \notin Faults => ExactNow')
    BY <1>1, <2>11, GetLogsSound, GetLogsExact
  <2>2. CASE PollBegin
    BY <1>1, <2>2, PollBeginSound, PollBeginExact
  <2>3. CASE BackfillBegin
    BY <1>1, <2>3, BackfillBeginSound, BackfillBeginExact
  <2>4. ASSUME NEW w \in Workers, Merge(w)
        PROVE  Sound' /\ ("overlap" \notin Faults => ExactNow')
    BY <1>1, <2>4, MergeSound, MergeExact
  <2>5. ASSUME NEW w \in Workers, Commit(w)
        PROVE  Sound' /\ ("overlap" \notin Faults => ExactNow')
    BY <1>1, <2>5, CommitSound, CommitExact
  <2>6. CASE Save
    BY <1>1, <2>6, SaveSound, SaveExact
  <2>7. ASSUME NEW w \in Workers, Lost(w)
        PROVE  Sound' /\ ("overlap" \notin Faults => ExactNow')
    BY <1>1, <2>7, LostSound, LostExact
  <2>8. CASE Rewind
    BY <1>1, <2>8, RewindSound, RewindExact
  <2>9. CASE UNCHANGED candleVars
    <3>1. Sound'
      BY <1>1, <2>9 DEF candleVars, history, Sound
    <3>2. ASSUME ExactNow PROVE ExactNow'
      BY <2>9, <3>2 DEF candleVars, history, ExactNow, OneAtATime, RowsRight, BatchRight,
                        OnceInOrder, Counted, Sight, Done, Confirmed
    <3> QED
      BY <1>1, <3>1, <3>2
  <2> QED
    BY <2>1, <2>2, <2>3, <2>4, <2>5, <2>6, <2>7, <2>8, <2>9, <2>10, <2>11 DEF CandlesNext
<1> QED
  BY <1>2 DEF CandlesInv, Exact, ExactNow

(* Rows, pages and counts keep their types, and a batch has the minutes of *)
(* its page that were merged, whatever dies, is rewound or overlaps.       *)
THEOREM CandlesTyped == CandlesSpec => []CandlesTypeOK
<1>1. CandlesInv => CandlesTypeOK
  BY SoundTypes DEF CandlesInv
<1> QED
  BY <1>1, InitCandlesInv, NextCandlesInv, PTL DEF CandlesSpec
-----------------------------------------------------------------------------
(* The chart.                                                              *)

(* Of finitely many some one has the greatest value, and one the least.    *)
LEMMA Extremes ==
  ASSUME NEW S, S # {}, NEW f, Integral(f, S)
  PROVE  /\ \E x \in S : \A y \in S : f[y] <= f[x]
         /\ \E x \in S : \A y \in S : f[x] <= f[y]
<1> DEFINE Bad == {s \in SUBSET S : s # {} /\ ~(/\ \E x \in s : \A y \in s : f[y] <= f[x]
                                                /\ \E x \in s : \A y \in s : f[x] <= f[y])}
<1> SUFFICES ASSUME Bad # {} PROVE FALSE
  OBVIOUS
<1>1. PICK X \in Bad : \A Y \in Bad : Y \subseteq X => Y = X
  <2>1. Bad \in SUBSET SUBSET S /\ IsFiniteSet(S)
    BY DEF Integral
  <2> HIDE DEF Bad
  <2> QED
    BY <2>1, FiniteLeast
<1>2. \A x \in X : f[x] \in Int
  BY <1>1 DEF Integral
<1>3. PICK x : x \in X
  BY <1>1
<1> DEFINE Z == X \ {x}
<1>4. CASE Z = {}
  <2>1. X = {x}
    BY <1>3, <1>4
  <2>2. f[x] <= f[x]
    BY <1>2, <1>3
  <2> QED
    BY <1>1, <2>1, <2>2
<1>5. CASE Z # {}
  <2>1. Z \in SUBSET S /\ Z \notin Bad
    BY <1>1, <1>3
  <2>2. PICK u \in Z : \A y \in Z : f[y] <= f[u]
    BY <1>5, <2>1
  <2>3. PICK v \in Z : \A y \in Z : f[v] <= f[y]
    BY <1>5, <2>1
  <2>4. \E a \in X : \A y \in X : f[y] <= f[a]
    <3>1. CASE f[x] <= f[u]
      BY <2>2, <3>1
    <3>2. CASE ~(f[x] <= f[u])
      <4>1. \A y \in X : f[y] <= f[x]
        <5> TAKE y \in X
        <5>1. f[x] \in Int /\ f[u] \in Int /\ f[y] \in Int
          BY <1>2, <1>3, <2>2
        <5>2. y = x \/ f[y] <= f[u]
          BY <2>2
        <5> QED
          BY <3>2, <5>1, <5>2
      <4> QED
        BY <1>3, <4>1
    <3> QED
      BY <3>1, <3>2
  <2>5. \E a \in X : \A y \in X : f[a] <= f[y]
    <3>1. CASE f[v] <= f[x]
      BY <2>3, <3>1
    <3>2. CASE ~(f[v] <= f[x])
      <4>1. \A y \in X : f[x] <= f[y]
        <5> TAKE y \in X
        <5>1. f[x] \in Int /\ f[v] \in Int /\ f[y] \in Int
          BY <1>2, <1>3, <2>3
        <5>2. y = x \/ f[v] <= f[y]
          BY <2>3
        <5> QED
          BY <3>2, <5>1, <5>2
      <4> QED
        BY <1>3, <4>1
    <3> QED
      BY <3>1, <3>2
  <2> QED
    BY <1>1, <2>4, <2>5
<1> QED
  BY <1>4, <1>5

LEMMA MaxIs ==
  ASSUME NEW T \in SUBSET Int, NEW x \in T, \A y \in T : y <= x
  PROVE  Max(T) = x
<1>1. \A y \in T : x >= y
  OBVIOUS
<1>2. Max(T) \in T /\ \A y \in T : Max(T) >= y
  BY <1>1 DEF Max
<1>3. Max(T) >= x /\ x >= Max(T) /\ Max(T) \in Int /\ x \in Int
  BY <1>1, <1>2
<1> QED
  BY <1>3

LEMMA MinIs ==
  ASSUME NEW T \in SUBSET Int, NEW x \in T, \A y \in T : x <= y
  PROVE  Min(T) = x
<1>1. Min(T) \in T /\ \A y \in T : Min(T) <= y
  BY DEF Min
<1>2. Min(T) <= x /\ x <= Min(T) /\ Min(T) \in Int /\ x \in Int
  BY <1>1
<1> QED
  BY <1>2

LEMMA MinutesFinite == IsFiniteSet(Minutes)
<1>1. Minutes \subseteq 0 .. MaxBlocks
  <2> SUFFICES ASSUME NEW m \in Minutes PROVE m \in 0 .. MaxBlocks
    OBVIOUS
  <2>1. PICK b \in 1 .. MaxBlocks : m = MinuteOf(b)
    BY DEF Minutes
  <2>2. b \in Nat \ {0} /\ b <= MaxBlocks /\ MaxBlocks \in Nat
    BY BlocksFinite
  <2>3. m \in Nat /\ m * PerMinute < b
    BY <2>1, <2>2, MinuteIs
  <2>4. m <= m * PerMinute /\ m * PerMinute \in Nat
    <3>1. PerMinute \in Nat /\ PerMinute >= 1
      BY CandlesAssumption
    <3>2. PICK k \in Nat : PerMinute = k + 1
      <4>1. PerMinute - 1 \in Nat /\ PerMinute = (PerMinute - 1) + 1
        BY <3>1
      <4> QED
        BY <4>1
    <3>3. m * (k + 1) = m * k + m
      BY <2>3, <3>2
    <3>4. m * k \in Nat
      BY <2>3, <3>2
    <3> HIDE <3>1
    <3> QED
      BY <2>3, <3>2, <3>3, <3>4
  <2> QED
    BY <2>2, <2>3, <2>4
<1>2. IsFiniteSet(0 .. MaxBlocks)
  BY FS_Interval, BlocksFinite
<1> QED
  BY <1>1, <1>2, FS_Subset

(* The rows of a bucket are those of the minutes that were read in it.     *)
LEMMA RowsAre ==
  ASSUME Sound, RowsRight, NEW interval \in Nat \ {0}, NEW bucket
  PROVE  /\ \A m \in RowsOf(bucket, interval) :
              /\ m \in Minutes /\ candles[m] # None /\ candles[m] \in Candle
              /\ Shows(candles[m], CountOf(reads, m), seen)
              /\ \A b \in Support(CountOf(reads, m)) :
                   b \in ReadIn(bucket, interval) /\ MinuteOf(b) = m
         /\ \A b \in ReadIn(bucket, interval) :
              /\ b \in Blocks /\ b \in Nat \ {0} /\ MinuteOf(b) \in RowsOf(bucket, interval)
              /\ b \in Support(CountOf(reads, MinuteOf(b)))
<1>1. ASSUME NEW m \in RowsOf(bucket, interval)
      PROVE  /\ m \in Minutes /\ candles[m] # None /\ candles[m] \in Candle
             /\ Shows(candles[m], CountOf(reads, m), seen)
             /\ \A b \in Support(CountOf(reads, m)) :
                  b \in ReadIn(bucket, interval) /\ MinuteOf(b) = m
  <2>1. m \in Minutes /\ candles[m] # None /\ m \div interval = bucket
    BY DEF RowsOf
  <2>2. Shows(candles[m], CountOf(reads, m), seen)
    BY <2>1 DEF RowsRight, Right
  <2>3. ASSUME NEW b \in Support(CountOf(reads, m))
        PROVE  b \in ReadIn(bucket, interval) /\ MinuteOf(b) = m
    <3>1. b \in Blocks /\ CountOf(reads, m)[b] > 0
      BY DEF Support
    <3>2. MinuteOf(b) = m /\ reads[b] > 0
      BY <3>1 DEF CountOf
    <3> QED
      BY <2>1, <3>1, <3>2 DEF ReadIn, Blocks
  <2> QED
    BY <2>1, <2>2, <2>3 DEF Shows
<1>2. ASSUME NEW b \in ReadIn(bucket, interval)
      PROVE  /\ b \in Blocks /\ b \in Nat \ {0} /\ MinuteOf(b) \in RowsOf(bucket, interval)
             /\ b \in Support(CountOf(reads, MinuteOf(b)))
  <2>1. b \in Blocks /\ reads[b] > 0 /\ MinuteOf(b) \div interval = bucket
    BY DEF ReadIn, Blocks
  <2>2. b \in Nat \ {0} /\ MinuteOf(b) \in Minutes
    BY <2>1 DEF Blocks, Minutes
  <2>3. b \in Support(CountOf(reads, MinuteOf(b)))
    BY <2>1 DEF Support, CountOf
  <2>4. candles[MinuteOf(b)] # None
    BY <2>2, <2>3, NoneAssumption DEF RowsRight, Right, Shows
  <2> QED
    BY <2>1, <2>2, <2>3, <2>4 DEF RowsOf
<1> QED
  BY <1>1, <1>2

(* The extremes of a bucket.                                               *)
LEMMA BucketExtremes ==
  ASSUME Sound, RowsRight, NEW interval \in Nat \ {0}, NEW bucket,
         ReadIn(bucket, interval) # {}
  PROVE  LET rows == RowsOf(bucket, interval)
             S == ReadIn(bucket, interval)
         IN  /\ Max({candles[m].high : m \in rows}) = Max(SeenIn(S))
             /\ Min({candles[m].low : m \in rows}) = Min(SeenIn(S))
<1> DEFINE rows == RowsOf(bucket, interval)
           S == ReadIn(bucket, interval)
           T == SeenIn(S)
           high == [m \in rows |-> candles[m].high]
           low == [m \in rows |-> candles[m].low]
           highs == {candles[m].high : m \in rows}
           lows == {candles[m].low : m \in rows}
<1>1. /\ \A m \in rows : /\ m \in Minutes /\ candles[m] \in Candle
                         /\ Shows(candles[m], CountOf(reads, m), seen)
                         /\ \A b \in Support(CountOf(reads, m)) : b \in S
      /\ \A b \in S : /\ b \in Blocks /\ MinuteOf(b) \in rows
                      /\ b \in Support(CountOf(reads, MinuteOf(b)))
  BY RowsAre
<1>2. rows # {} /\ IsFiniteSet(rows)
  <2>1. rows \subseteq Minutes
    BY <1>1
  <2>2. IsFiniteSet(rows)
    BY <2>1, MinutesFinite, FS_Subset
  <2> QED
    BY <1>1, <2>2
<1> HIDE DEF rows, S
<1>3. /\ \A m \in rows : candles[m].high \in T /\ candles[m].low \in T
      /\ \A z \in T : \E m \in rows : z <= candles[m].high /\ candles[m].low <= z
  <2>1. ASSUME NEW m \in rows PROVE candles[m].high \in T /\ candles[m].low \in T
    BY <1>1 DEF Shows, SeenIn
  <2>2. ASSUME NEW z \in T PROVE \E m \in rows : z <= candles[m].high /\ candles[m].low <= z
    <3>1. PICK b \in S : z \in seen[b]
      BY DEF SeenIn
    <3> QED
      BY <1>1, <3>1 DEF Shows
  <2> QED
    BY <2>1, <2>2
<1>4. T \in SUBSET Int
  <2> SUFFICES ASSUME NEW z \in T PROVE z \in Int
    OBVIOUS
  <2>1. PICK b \in S : z \in seen[b]
    BY DEF SeenIn
  <2>2. z \in Prices
    BY <1>1, <2>1 DEF Sound, Sights
  <2> QED
    BY <2>2, CandlesAssumption
<1> HIDE DEF T
<1>5. Integral(high, rows) /\ Integral(low, rows)
  BY <1>2, <1>3, <1>4 DEF Integral
<1>6. highs \in SUBSET Int /\ lows \in SUBSET Int
  BY <1>3, <1>4
<1>7. Max(highs) = Max(T)
  <2>1. PICK x \in rows : \A y \in rows : high[y] <= high[x]
    <3> HIDE DEF high
    <3> QED
      BY <1>2, <1>5, Extremes
  <2> DEFINE v == candles[x].high
  <2>2. v \in T /\ v \in highs /\ \A z \in highs : z <= v
    BY <1>3, <2>1
  <2>3. \A z \in T : z <= v
    <3> TAKE z \in T
    <3>1. PICK m \in rows : z <= candles[m].high
      BY <1>3
    <3>2. candles[m].high <= v /\ candles[m].high \in Int /\ v \in Int /\ z \in Int
      BY <1>3, <1>4, <2>1
    <3> QED
      BY <3>1, <3>2
  <2> HIDE DEF v, highs
  <2>4. Max(T) = v /\ Max(highs) = v
    BY <1>4, <1>6, <2>2, <2>3, MaxIs
  <2> QED
    BY <2>4
<1>8. Min(lows) = Min(T)
  <2>1. PICK x \in rows : \A y \in rows : low[x] <= low[y]
    <3> HIDE DEF low
    <3> QED
      BY <1>2, <1>5, Extremes
  <2> DEFINE v == candles[x].low
  <2>2. v \in T /\ v \in lows /\ \A z \in lows : v <= z
    BY <1>3, <2>1
  <2>3. \A z \in T : v <= z
    <3> TAKE z \in T
    <3>1. PICK m \in rows : candles[m].low <= z
      BY <1>3
    <3>2. v <= candles[m].low /\ candles[m].low \in Int /\ v \in Int /\ z \in Int
      BY <1>3, <1>4, <2>1
    <3> QED
      BY <3>1, <3>2
  <2> HIDE DEF v, lows
  <2>4. Min(T) = v /\ Min(lows) = v
    BY <1>4, <1>6, <2>2, <2>3, MinIs
  <2> QED
    BY <2>4
<1> QED
  BY <1>7, <1>8 DEF rows, S, T

(* A sum over the rows of a bucket is one over the blocks read in it.      *)
LEMMA BucketSum ==
  ASSUME Sound, RowsRight, NEW interval \in Nat \ {0}, NEW bucket,
         NEW f, Integral(f, Blocks), \A b \in Blocks : reads[b] = 0 => f[b] = 0,
         NEW t, DOMAIN t = RowsOf(bucket, interval),
         \A m \in RowsOf(bucket, interval) :
           t[m] = SumFunctionOnSet([b \in Blocks |-> IF MinuteOf(b) = m THEN f[b] ELSE 0], Blocks)
  PROVE  SumFunction(t) = SumFunctionOnSet(f, ReadIn(bucket, interval))
<1> DEFINE rows == RowsOf(bucket, interval)
           S == ReadIn(bucket, interval)
           of == [b \in Blocks |-> MinuteOf(b)]
           g == [b \in Blocks |-> IF of[b] \in rows THEN f[b] ELSE 0]
<1>1. /\ \A m \in rows : m \in Minutes
      /\ \A b \in S : b \in Blocks /\ MinuteOf(b) \in rows
  BY RowsAre
<1>2. IsFiniteSet(rows)
  <2>1. rows \subseteq Minutes
    BY <1>1
  <2> QED
    BY <2>1, MinutesFinite, FS_Subset
<1>3. \A m \in rows : t[m] = SumFunctionOnSet(GroupOf(f, Blocks, of, m), Blocks)
  <2> TAKE m \in rows
  <2>1. GroupOf(f, Blocks, of, m) = [b \in Blocks |-> IF MinuteOf(b) = m THEN f[b] ELSE 0]
    BY DEF GroupOf
  <2> QED
    BY <2>1
<1>4. SumFunctionOnSet(t, rows) = SumFunctionOnSet(g, Blocks)
  <2>1. g = GroupsOf(f, Blocks, of, rows)
    BY DEF GroupsOf
  <2> HIDE DEF rows, of, g
  <2> QED
    BY <1>2, <1>3, <2>1, SumByGroup
<1>5. Integral(g, Blocks) /\ S \in SUBSET Blocks
  BY <1>1 DEF Integral
<1>6. ASSUME NEW b \in Blocks \ S PROVE g[b] = 0
  <2>1. CASE MinuteOf(b) \in rows
    <3>1. MinuteOf(b) \div interval = bucket
      BY <2>1 DEF RowsOf
    <3>2. ~(reads[b] > 0) /\ reads[b] \in Nat
      BY <1>6, <3>1 DEF ReadIn, Blocks, Sound, Counts
    <3>3. reads[b] = 0
      BY <3>2
    <3> QED
      BY <3>3
  <2>2. CASE MinuteOf(b) \notin rows
    BY <2>2
  <2> QED
    BY <2>1, <2>2
<1>7. \A b \in S : g[b] = f[b]
  BY <1>1
<1> HIDE DEF g, S, rows
<1>8. SumFunctionOnSet(g, Blocks) = SumFunctionOnSet(g, S)
  BY <1>5, <1>6, SumRest
<1>9. SumFunctionOnSet(g, S) = SumFunctionOnSet(f, S)
  <2>1. IsFiniteSet(S)
    BY <1>5, BlocksFinite, FS_Subset
  <2>2. Integral(g, S)
    BY <1>5, <2>1 DEF Integral
  <2> QED
    BY <1>7, <2>2, SumSame
<1>10. SumFunction(t) = SumFunctionOnSet(t, rows)
  BY DEF SumFunction, rows
<1> QED
  BY <1>4, <1>8, <1>9, <1>10 DEF S

LEMMA BucketCounts ==
  ASSUME Sound, RowsRight, NEW interval \in Nat \ {0}, NEW bucket
  PROVE  SumFunction([m \in RowsOf(bucket, interval) |-> candles[m].swaps])
           = SumFunctionOnSet(reads, ReadIn(bucket, interval))
<1> DEFINE rows == RowsOf(bucket, interval)
           t == [m \in rows |-> candles[m].swaps]
<1>1. Integral(reads, Blocks)
  BY SumsAreNat DEF Sound
<1>2. \A m \in rows : Shows(candles[m], CountOf(reads, m), seen)
  BY RowsAre
<1>3. \A m \in rows :
        t[m] = SumFunctionOnSet([b \in Blocks |-> IF MinuteOf(b) = m THEN reads[b] ELSE 0], Blocks)
  BY <1>2 DEF Shows, CountOf
<1>4. DOMAIN t = rows
  OBVIOUS
<1> HIDE DEF t
<1>5. SumFunction(t) = SumFunctionOnSet(reads, ReadIn(bucket, interval))
  BY <1>1, <1>3, <1>4, BucketSum
<1> QED
  BY <1>5 DEF t

(* Of polls alone the fees are those of the chain.                         *)
LEMMA BucketFees ==
  ASSUME Sound, RowsRight, OnceInOrder, NEW interval \in Nat \ {0}, NEW bucket
  PROVE  SumFunction([m \in RowsOf(bucket, interval) |-> candles[m].fees])
           = SumFunctionOnSet(Fees(reads, chain), ReadIn(bucket, interval))
<1> DEFINE rows == RowsOf(bucket, interval)
           fees == Fees(reads, chain)
           t == [m \in rows |-> candles[m].fees]
<1>1. Integral(fees, Blocks)
  <2>1. Real(reads, chain)
    BY ReadConfirmed DEF Real, Sound
  <2> QED
    BY <2>1, CountsIntegral DEF Sound
<1>2. \A m \in rows : InOrder(candles[m], CountOf(reads, m), chain)
  BY RowsAre DEF OnceInOrder
<1>3. ASSUME NEW m \in rows
      PROVE  t[m] = SumFunctionOnSet([b \in Blocks |-> IF MinuteOf(b) = m THEN fees[b] ELSE 0], Blocks)
  <2>1. t[m] = SumFunctionOnSet(Fees(CountOf(reads, m), chain), Blocks)
    BY <1>2 DEF InOrder
  <2>2. Fees(CountOf(reads, m), chain) = [b \in Blocks |-> IF MinuteOf(b) = m THEN fees[b] ELSE 0]
    <3>1. ASSUME NEW b \in Blocks
          PROVE  Fees(CountOf(reads, m), chain)[b] = IF MinuteOf(b) = m THEN fees[b] ELSE 0
      <4>1. CASE MinuteOf(b) = m
        BY <4>1 DEF Fees, CountOf
      <4>2. CASE MinuteOf(b) # m
        BY <4>2 DEF Fees, CountOf
      <4> QED
        BY <4>1, <4>2
    <3>2. Fees(CountOf(reads, m), chain) = [b \in Blocks |-> Fees(CountOf(reads, m), chain)[b]]
      BY DEF Fees
    <3> HIDE DEF fees
    <3> QED
      BY <3>1, <3>2
  <2> QED
    BY <2>1, <2>2
<1>4. DOMAIN t = rows /\ \A b \in Blocks : reads[b] = 0 => fees[b] = 0
  BY DEF Fees
<1> HIDE DEF t, fees
<1>5. SumFunction(t) = SumFunctionOnSet(fees, ReadIn(bucket, interval))
  BY <1>1, <1>3, <1>4, BucketSum
<1> QED
  BY <1>5 DEF t, fees

(* Of polls alone the first block of a bucket opens it and the last closes *)
(* it, and each swap of it counts once.                                    *)
LEMMA BucketEnds ==
  ASSUME Sound, RowsRight, OnceInOrder, NEW interval \in Nat \ {0}, NEW bucket,
         ReadIn(bucket, interval) # {}
  PROVE  LET rows == RowsOf(bucket, interval)
             S == ReadIn(bucket, interval)
         IN  /\ candles[Min(rows)].open = chain[Min(S)]
             /\ candles[Max(rows)].close = chain[Max(S)]
<1> DEFINE rows == RowsOf(bucket, interval)
           S == ReadIn(bucket, interval)
           of == [b \in Blocks |-> MinuteOf(b)]
<1>1. /\ \A m \in rows : /\ m \in Minutes /\ candles[m] # None
                         /\ \A b \in Support(CountOf(reads, m)) : b \in S /\ MinuteOf(b) = m
      /\ \A b \in S : /\ b \in Blocks /\ b \in Nat \ {0} /\ MinuteOf(b) \in rows
                      /\ b \in Support(CountOf(reads, MinuteOf(b)))
  BY RowsAre
<1>2. S # {}
  OBVIOUS
<1>3. Integral(of, S)
  <2>1. S \subseteq Blocks /\ \A b \in S : of[b] \in Int
    BY <1>1, MinuteIs
  <2>2. IsFiniteSet(S)
    BY <2>1, BlocksFinite, FS_Subset
  <2> QED
    BY <2>1, <2>2 DEF Integral
<1>4. \A m \in rows : InOrder(candles[m], CountOf(reads, m), chain)
  BY <1>1 DEF OnceInOrder
<1> HIDE DEF rows, S
<1>5. rows \in SUBSET Int /\ S \in SUBSET Int
  <2>1. ASSUME NEW m \in rows PROVE m \in Int
    <3>1. m \in Minutes
      BY <1>1
    <3>2. m \in Nat
      BY <3>1, MinutesNat
    <3> QED
      BY <3>2
  <2>2. \A b \in S : b \in Int
    BY <1>1
  <2> QED
    BY <2>1, <2>2
<1>6. \A m \in rows : \E b \in S : of[b] = m
  BY <1>1, <1>4 DEF InOrder
<1>7. candles[Min(rows)].open = chain[Min(S)]
  <2>1. PICK x \in S : \A y \in S : of[x] <= of[y]
    BY <1>2, <1>3, Extremes
  <2> DEFINE m == MinuteOf(x)
  <2>2. of[x] = m /\ m \in rows
    BY <1>1, <2>1
  <2>3. \A n \in rows : m <= n
    BY <1>6, <2>1, <2>2
  <2>4. PICK b \in Support(CountOf(reads, m)) :
          candles[m].open = chain[b] /\ \A d \in Support(CountOf(reads, m)) : b <= d
    BY <1>4, <2>2 DEF InOrder
  <2>5. b \in S /\ MinuteOf(b) = m /\ b \in Nat \ {0}
    BY <1>1, <2>2, <2>4
  <2>6. ASSUME NEW d \in S PROVE b <= d
    <3>1. d \in Nat \ {0} /\ d \in Blocks /\ d \in Support(CountOf(reads, MinuteOf(d)))
      BY <1>1
    <3>2. CASE MinuteOf(d) = m
      BY <2>4, <3>1, <3>2
    <3>3. CASE MinuteOf(d) # m
      <4>1. m <= MinuteOf(d) /\ m \in Int /\ MinuteOf(d) \in Int
        BY <1>1, <1>5, <2>2, <2>3
      <4>2. MinuteOf(b) < MinuteOf(d)
        BY <2>5, <3>3, <4>1
      <4>3. b < d
        BY <2>5, <3>1, <4>2, MinutesInOrder
      <4> QED
        BY <2>5, <3>1, <4>3
    <3> QED
      BY <3>2, <3>3
  <2> HIDE DEF m
  <2>7. Min(rows) = m /\ Min(S) = b
    BY <1>5, <2>2, <2>3, <2>5, <2>6, MinIs
  <2> QED
    BY <2>4, <2>7
<1>8. candles[Max(rows)].close = chain[Max(S)]
  <2>1. PICK x \in S : \A y \in S : of[y] <= of[x]
    BY <1>2, <1>3, Extremes
  <2> DEFINE m == MinuteOf(x)
  <2>2. of[x] = m /\ m \in rows
    BY <1>1, <2>1
  <2>3. \A n \in rows : n <= m
    BY <1>6, <2>1, <2>2
  <2>4. PICK b \in Support(CountOf(reads, m)) :
          candles[m].close = chain[b] /\ \A d \in Support(CountOf(reads, m)) : d <= b
    BY <1>4, <2>2 DEF InOrder
  <2>5. b \in S /\ MinuteOf(b) = m /\ b \in Nat \ {0}
    BY <1>1, <2>2, <2>4
  <2>6. ASSUME NEW d \in S PROVE d <= b
    <3>1. d \in Nat \ {0} /\ d \in Blocks /\ d \in Support(CountOf(reads, MinuteOf(d)))
      BY <1>1
    <3>2. CASE MinuteOf(d) = m
      BY <2>4, <3>1, <3>2
    <3>3. CASE MinuteOf(d) # m
      <4>1. MinuteOf(d) <= m /\ m \in Int /\ MinuteOf(d) \in Int
        BY <1>1, <1>5, <2>2, <2>3
      <4>2. MinuteOf(d) < MinuteOf(b)
        BY <2>5, <3>3, <4>1
      <4>3. d < b
        BY <2>5, <3>1, <4>2, MinutesInOrder
      <4> QED
        BY <2>5, <3>1, <4>3
    <3> QED
      BY <3>2, <3>3
  <2> HIDE DEF m
  <2>7. Max(rows) = m /\ Max(S) = b
    BY <1>5, <2>2, <2>3, <2>5, <2>6, MaxIs
  <2> QED
    BY <2>4, <2>7
<1> QED
  BY <1>7, <1>8 DEF rows, S

(* A quotient to the nearest, times its divisor.                           *)
LEMMA Nearest ==
  ASSUME NEW F \in Int, NEW n \in Nat \ {0}
  PROVE  ((2 * F + n) \div (2 * n)) * n - F \in -(n \div 2) .. n \div 2
<1> DEFINE x == 2 * F + n
           d == 2 * n
           q == x \div d
           h == n \div 2
           y == q * n
<1>1. x \in Int /\ d \in Nat \ {0}
  OBVIOUS
<1>2. h \in Int /\ 2 * h <= n /\ n < 2 * h + 2
  OBVIOUS
<1> HIDE DEF x, d
<1>3. q \in Int /\ d * q <= x /\ x < d * q + d
  BY <1>1
<1> HIDE DEF q, h
<1>4. d * q = 2 * y /\ y \in Int
  BY <1>3 DEF d
<1> HIDE DEF y
<1>5. y - F \in Int /\ -h <= y - F /\ y - F <= h
  BY <1>1, <1>2, <1>3, <1>4 DEF x, d
<1>6. y - F \in -h .. h
  BY <1>2, <1>5
<1> QED
  BY <1>6 DEF y, q, h, x, d

LEMMA ChartHolds == CandlesInv => ChartAsRead
<1> SUFFICES ASSUME CandlesInv, "overlap" \notin Faults,
                    NEW interval \in Intervals, NEW bucket \in {m \div interval : m \in Minutes}
             PROVE  LET S == ReadIn(bucket, interval)
                        row == Aggregated(bucket, interval)
                    IN  /\ RowsOf(bucket, interval) = {} <=> S = {}
                        /\ S # {} =>
                             /\ row.high = Max(SeenIn(S))
                             /\ row.low = Min(SeenIn(S))
                             /\ row.swaps = SumFunctionOnSet(reads, S)
                        /\ S # {} /\ faults = 0 =>
                             /\ row.open = chain[Min(S)]
                             /\ row.close = chain[Max(S)]
                             /\ row.swaps = Cardinality(S)
                             /\ AverageFee(row) * Cardinality(S) - SumFunctionOnSet(chain, S)
                                  \in -(Cardinality(S) \div 2) .. Cardinality(S) \div 2
  BY DEF ChartAsRead
<1> DEFINE S == ReadIn(bucket, interval)
           rows == RowsOf(bucket, interval)
           row == Aggregated(bucket, interval)
<1>1. Sound /\ RowsRight /\ (faults = 0 => OnceInOrder)
  BY DEF CandlesInv, Exact
<1>2. interval \in Nat \ {0}
  <2>1. Cardinality(Minutes) \in Nat
    BY MinutesFinite, FS_CardinalityType
  <2> QED
    BY <2>1 DEF Intervals
<1>3. /\ \A m \in rows : /\ Shows(candles[m], CountOf(reads, m), seen)
                         /\ \A b \in Support(CountOf(reads, m)) : b \in S
      /\ \A b \in S : /\ b \in Blocks /\ MinuteOf(b) \in rows
  BY <1>1, <1>2, RowsAre
<1>4. rows = {} <=> S = {}
  <2> HIDE DEF rows, S
  <2>1. \A m \in rows : \E b \in S : TRUE
    BY <1>3 DEF Shows
  <2> QED
    BY <1>3, <2>1
<1>5. /\ row.open = candles[Min(rows)].open /\ row.close = candles[Max(rows)].close
      /\ row.high = Max({candles[m].high : m \in rows})
      /\ row.low = Min({candles[m].low : m \in rows})
      /\ row.swaps = SumFunction([m \in rows |-> candles[m].swaps])
      /\ row.fees = SumFunction([m \in rows |-> candles[m].fees])
  BY DEF Aggregated
<1>6. row.swaps = SumFunctionOnSet(reads, S)
  BY <1>1, <1>2, <1>5, BucketCounts
<1>7. ASSUME S # {}
      PROVE  row.high = Max(SeenIn(S)) /\ row.low = Min(SeenIn(S))
  BY <1>1, <1>2, <1>5, <1>7, BucketExtremes
<1>8. ASSUME S # {}, faults = 0
      PROVE  /\ row.open = chain[Min(S)] /\ row.close = chain[Max(S)]
             /\ row.swaps = Cardinality(S)
             /\ AverageFee(row) * Cardinality(S) - SumFunctionOnSet(chain, S)
                  \in -(Cardinality(S) \div 2) .. Cardinality(S) \div 2
  <2>1. row.open = chain[Min(S)] /\ row.close = chain[Max(S)]
    BY <1>1, <1>2, <1>5, <1>8, BucketEnds
  <2>2. \A b \in S : reads[b] = 1
    <3>1. \A b \in S : b \in Blocks /\ reads[b] > 0
      BY <1>3 DEF ReadIn
    <3> HIDE DEF S
    <3> QED
      BY <1>1, <1>8, <3>1 DEF OnceInOrder
  <2>3. IsFiniteSet(S)
    <3>1. S \subseteq Blocks
      BY <1>3
    <3> QED
      BY <3>1, BlocksFinite, FS_Subset
  <2>4. \A b \in S : chain[b] \in Int /\ chain[b] = Fees(reads, chain)[b]
    <3> TAKE b \in S
    <3>1. b \in Blocks /\ chain[b] \in Nat /\ reads[b] = 1
      <4>1. b \in Blocks /\ reads[b] = 1 /\ b \in Support(reads)
        BY <1>3, <2>2 DEF Support
      <4>2. b \in 1 .. Len(chain)
        BY <1>1, <1>8, <4>1, ReadConfirmed
      <4>3. chain[b] \in Prices
        BY <1>1, <4>2 DEF Sound
      <4> QED
        BY <4>1, <4>3, CandlesAssumption
    <3>2. Fees(reads, chain)[b] = 1 * chain[b]
      BY <3>1 DEF Fees
    <3> QED
      BY <3>1, <3>2
  <2>13. row.fees = SumFunctionOnSet(Fees(reads, chain), S)
    BY <1>1, <1>2, <1>5, <1>8, BucketFees
  <2> HIDE DEF S, row
  <2>5. row.swaps = Cardinality(S)
    BY <1>6, <2>2, <2>3, SumOnes
  <2>6. Integral(chain, S)
    BY <2>3, <2>4 DEF Integral
  <2>7. row.fees = SumFunctionOnSet(chain, S) /\ SumFunctionOnSet(chain, S) \in Int
    <3>1. SumFunctionOnSet(chain, S) = SumFunctionOnSet(Fees(reads, chain), S)
      BY <2>4, <2>6, SumSame
    <3> QED
      BY <2>13, <2>6, <3>1, SumType
  <2>8. Cardinality(S) \in Nat \ {0}
    BY <1>8, <2>3, FS_CardinalityType, FS_EmptySet
  <2> DEFINE F == SumFunctionOnSet(chain, S)
             n == Cardinality(S)
  <2>9. AverageFee(row) = (2 * F + n) \div (2 * n)
    BY <2>5, <2>7 DEF AverageFee
  <2>10. F \in Int /\ n \in Nat \ {0}
    BY <2>7, <2>8
  <2> HIDE DEF F, n
  <2>11. ((2 * F + n) \div (2 * n)) * n - F \in -(n \div 2) .. n \div 2
    BY <2>10, Nearest
  <2>12. AverageFee(row) * n - F \in -(n \div 2) .. n \div 2
    BY <2>9, <2>11
  <2> QED
    BY <2>1, <2>5, <2>12 DEF F, n
<1> QED
  BY <1>4, <1>6, <1>7, <1>8

(* For any chain, size of pages and length of a minute, and however polls  *)
(* die, cursors are rewound and backfills are asked for, as long as they   *)
(* do not overlap, a chart at any interval shows what was read: no swap is *)
(* lost or made up, and of polls alone each is counted once, in order.     *)
THEOREM ChartTrue == CandlesSpec => []ChartAsRead
  BY InitCandlesInv, NextCandlesInv, ChartHolds, PTL DEF CandlesSpec

=============================================================================
