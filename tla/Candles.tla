------------------------------ MODULE Candles ------------------------------
(***************************************************************************)
(* The candle side of apps/indexer/src/indexer.ts and candles.ts, for one  *)
(* pool: how polls fold the swaps of a page into one row per minute and    *)
(* merge each into the row D1 already has, how a backfill of the same pool *)
(* does the same over blocks of its own choice, and what apps/api makes of *)
(* the rows: a chart at any interval, and the figures of the pool.         *)
(*                                                                         *)
(* Polls and backfills ask D1 for each row on its own and replace all rows *)
(* in one batch.  A poll stays behind the head of the chain by some        *)
(* confirmations; a backfill reads up to the head, where a reorganisation  *)
(* may still replace a block.  A block holds one swap, whose price stands  *)
(* for its fee too; volumes are added up like the number of swaps, which   *)
(* stands for them.  A block's minute is known from its number: the        *)
(* timestamps that a backfill interpolates "from page-edge anchors" are    *)
(* taken to fall into the minute of the block.                             *)
(***************************************************************************)
EXTENDS Integers, Sequences, FiniteSetsExt, SequencesExt, Functions

CONSTANTS
  Prices,      \* prices a swap may end at
  PerMinute,   \* blocks in a minute
  Confirmations, \* CONFIRMATIONS: blocks a poll leaves to settle
  MaxRange,    \* MAX_RANGE: a page holds up to one block more
  MaxPages,    \* MAX_PAGES: pages of a backfill
  None,        \* no row
  Faults,      \* what may happen besides polls that die before they write
  MaxBlocks,   \* bound: length of the chain
  MaxFaults    \* bound: backfills, rewinds and polls that die saving

(* "backfill": somebody asks for one;  "overlap": even while a poll runs;  *)
(* "rewind": the operator rewinds the cursor;  "diedSaving": a poll dies   *)
(* between the batch and the cursor;  "reorganise": a block that is not    *)
(* confirmed is replaced.                                                  *)
AllFaults == {"backfill", "overlap", "rewind", "diedSaving", "reorganise"}

ASSUME CandlesAssumption ==
  /\ Prices \subseteq Nat
  /\ PerMinute \in Nat \ {0}
  /\ Confirmations \in Nat
  /\ MaxRange \in Nat
  /\ MaxPages \in Nat \ {0}
  /\ Faults \subseteq AllFaults
  /\ MaxBlocks \in Nat
  /\ MaxFaults \in Nat

VARIABLES
  chain,     \* the price of the swap in each block
  cursor,    \* storage: the last block that was indexed
  candles,   \* D1: the rows of the pool
  page,      \* what the poll and the backfill have in memory
  reads,     \* history: how often a swap of each block was written to D1
  seen,      \* history: at which prices
  faults     \* history: how many faults there were

history == <<reads, seen>>

candleVars == <<chain, cursor, candles, page, history, faults>>

MinuteOf(b) == (b - 1) \div PerMinute

Minutes == {MinuteOf(b) : b \in 1 .. MaxBlocks}

Candle == [open : Prices, high : Prices, low : Prices, close : Prices, swaps : Nat,
           fees : Nat]

ASSUME NoneAssumption == None \notin Candle

Workers == {"poll", "backfill"}

NoBatch == [m \in Minutes |-> None]

NoPage ==
  [pc |-> "idle", from |-> 0, to |-> 0, head |-> 0, left |-> 0, view |-> <<>>,
   todo |-> {}, batch |-> NoBatch]

(* view is the chain up to the end of the page when its logs were read,    *)
(* todo are the minutes of from .. to whose row was not asked for yet, and *)
(* left are the pages that a backfill may still ask for.                   *)
PageType ==
  [pc : {"idle", "logs", "merge", "save"}, from : Nat, to : Nat, head : Nat, left : Nat,
   view : Seq(Prices), todo : SUBSET Minutes, batch : [Minutes -> Candle \cup {None}]]

(* Types, and what is in a batch: the minutes of the page asked for.       *)
CandlesTypeOK ==
  /\ chain \in Seq(Prices)
  /\ cursor \in 0 .. Len(chain)
  /\ candles \in [Minutes -> Candle \cup {None}]
  /\ page \in [Workers -> PageType]
  /\ \A w \in Workers :
       page[w].pc = "merge" =>
         \A m \in Minutes :
           page[w].batch[m] # None <=>
             m \notin page[w].todo /\ \E b \in page[w].from .. page[w].to : MinuteOf(b) = m
  /\ reads \in [1 .. MaxBlocks -> Nat]
  /\ seen \in [1 .. MaxBlocks -> SUBSET Prices]
  /\ faults \in 0 .. MaxFaults

CandlesInit ==
  /\ chain = <<>>
  /\ cursor = 0
  /\ candles = [m \in Minutes |-> None]
  /\ page = [w \in Workers |-> NoPage]
  /\ reads = [b \in 1 .. MaxBlocks |-> 0]
  /\ seen = [b \in 1 .. MaxBlocks |-> {}]
  /\ faults = 0

Faulted(kind) ==
  /\ kind \in Faults
  /\ faults < MaxFaults
  /\ faults' = faults + 1

Mine(px) ==
  /\ Len(chain) < MaxBlocks
  /\ chain' = Append(chain, px)
  /\ UNCHANGED <<cursor, candles, page, history, faults>>

Confirmed == Len(chain) - Confirmations

(* A block that is not confirmed gets another swap.                        *)
Reorganise(px) ==
  /\ "reorganise" \in Faults
  /\ \E b \in DOMAIN chain : b > Confirmed /\ chain' = [chain EXCEPT ![b] = px]
  /\ UNCHANGED <<cursor, candles, page, history, faults>>

-----------------------------------------------------------------------------
Larger(x, y) == IF x > y THEN x ELSE y

Smaller(x, y) == IF x < y THEN x ELSE y

(* One swap folded into a candle that foldCandles has at hand, if any.     *)
WithSwap(c, px) ==
  IF c = None
    THEN [open |-> px, high |-> px, low |-> px, close |-> px, swaps |-> 1, fees |-> px]
    ELSE [c EXCEPT !.close = px, !.high = Larger(px, @), !.low = Smaller(px, @), !.swaps = @ + 1,
                   !.fees = @ + px]

(* foldCandles: the candle of minute m of the blocks from .. to of a view. *)
Folded(view, from, to, m) ==
  FoldLeft(WithSwap, None,
           SubSeq(view, Larger(from, m * PerMinute + 1), Smaller(to, (m + 1) * PerMinute)))

(* Faulty: the volume of the page replaces the row's.                      *)
MergedReplaced(old, new) ==
  IF old = None
    THEN new
    ELSE [open |-> old.open, high |-> Larger(old.high, new.high),
          low |-> Smaller(old.low, new.low), close |-> new.close, swaps |-> new.swaps,
          fees |-> new.fees]

(* mergedCandleUpsert: "stored row is chronologically earlier".            *)
Merged(old, new) ==
  IF old = None
    THEN new
    ELSE [open |-> old.open, high |-> Larger(old.high, new.high),
          low |-> Smaller(old.low, new.low), close |-> new.close,
          swaps |-> old.swaps + new.swaps, fees |-> old.fees + new.fees]

PageEnd(from, head) == IF head - from > MaxRange THEN from + MaxRange ELSE head

(* The first page of blocks from .. head, or a backfill's next one.        *)
Started(from, head, left) ==
  [NoPage EXCEPT !.pc = "logs", !.from = from, !.to = PageEnd(from, head), !.head = head,
                 !.left = left]

Apart(w) == "overlap" \in Faults \/ page[w].pc = "idle"

PollBegin ==
  /\ page["poll"].pc = "idle"
  /\ Apart("backfill")
  /\ cursor < Confirmed
  /\ page' = [page EXCEPT !["poll"] = Started(cursor + 1, Confirmed, 0)]
  /\ UNCHANGED <<chain, cursor, candles, history, faults>>

(* From the first block at or after the time it was asked for, to the head.*)
BackfillBegin ==
  /\ page["backfill"].pc = "idle"
  /\ Apart("poll")
  /\ Faulted("backfill")
  /\ \E from \in DOMAIN chain :
       page' = [page EXCEPT !["backfill"] = Started(from, Len(chain), MaxPages - 1)]
  /\ UNCHANGED <<chain, cursor, candles, history>>

(* getLogs for the page.                                                   *)
GetLogs(w) ==
  /\ page[w].pc = "logs"
  /\ page' = [page EXCEPT ![w].pc = "merge",
                          ![w].view = SubSeq(chain, 1, page[w].to),
                          ![w].todo = {MinuteOf(b) : b \in page[w].from .. page[w].to}]
  /\ UNCHANGED <<chain, cursor, candles, history, faults>>

FoldedPage(p, m) == Folded(p.view, p.from, p.to, m)

(* Faulty: leaves the newest minute of the page out.                       *)
MergeNotLast(w) ==
  /\ page[w].pc = "merge"
  /\ \E m \in page[w].todo :
       /\ \A n \in page[w].todo : m <= n
       /\ page' = [page EXCEPT ![w].todo = @ \ {m, MinuteOf(page[w].to)},
                               ![w].batch[m] =
                                  Merged(candles[m], FoldedPage(page[w], m))]
  /\ UNCHANGED <<chain, cursor, candles, history, faults>>

(* The row of the next minute of the page is read and merged.              *)
Merge(w) ==
  /\ page[w].pc = "merge"
  /\ \E m \in page[w].todo :
       /\ \A n \in page[w].todo : m <= n
       /\ page' = [page EXCEPT ![w].todo = @ \ {m},
                               ![w].batch[m] =
                                  Merged(candles[m], FoldedPage(page[w], m))]
  /\ UNCHANGED <<chain, cursor, candles, history, faults>>

(* The batch.  A backfill goes on with its next page if it may, a poll     *)
(* saves.                                                                  *)
Commit(w) ==
  LET p == page[w]
  IN /\ p.pc = "merge"
     /\ p.todo = {}
     /\ candles' = [m \in Minutes |-> IF p.batch[m] = None THEN candles[m] ELSE p.batch[m]]
     /\ reads' = [b \in DOMAIN reads |-> IF b \in p.from .. p.to THEN reads[b] + 1 ELSE reads[b]]
     /\ seen' = [b \in DOMAIN seen |->
          IF b \in p.from .. p.to THEN seen[b] \cup {p.view[b]} ELSE seen[b]]
     /\ page' = [page EXCEPT ![w] =
          IF w = "poll" THEN [p EXCEPT !.pc = "save"]
          ELSE IF p.to < p.head /\ p.left > 0 THEN Started(p.to + 1, p.head, p.left - 1)
          ELSE NoPage]
     /\ UNCHANGED <<chain, cursor, faults>>

Save ==
  /\ page["poll"].pc = "save"
  /\ cursor' = page["poll"].to
  /\ page' = [page EXCEPT !["poll"] = NoPage]
  /\ UNCHANGED <<chain, candles, history, faults>>

(* Nothing of the page survives.                                           *)
Lost(w) ==
  /\ \/ page[w].pc \in {"logs", "merge"} /\ UNCHANGED faults
     \/ page[w].pc = "save" /\ Faulted("diedSaving")
  /\ page' = [page EXCEPT ![w] = NoPage]
  /\ UNCHANGED <<chain, cursor, candles, history>>

(* /start?from=                                                            *)
Rewind ==
  /\ Faulted("rewind")
  /\ \E from \in 0 .. cursor : cursor' = from
  /\ UNCHANGED <<chain, candles, page, history>>

CandlesNext ==
  \/ \E px \in Prices : Mine(px)
  \/ \E px \in Prices : Reorganise(px)
  \/ PollBegin
  \/ BackfillBegin
  \/ \E w \in Workers : GetLogs(w)
  \/ \E w \in Workers : Merge(w)
  \/ \E w \in Workers : Commit(w)
  \/ Save
  \/ \E w \in Workers : Lost(w)
  \/ Rewind

CandlesSpec == CandlesInit /\ [][CandlesNext]_candleVars

-----------------------------------------------------------------------------
(* The API.                                                                *)

(* The rows that fall into a bucket of so many minutes.                    *)
RowsOf(bucket, interval) ==
  {m \in Minutes : candles[m] # None /\ m \div interval = bucket}

(* aggregateCandles, from rows in the order of time                        *)
Aggregated(bucket, interval) ==
  LET rows == RowsOf(bucket, interval)
  IN  [open |-> candles[Min(rows)].open,
       high |-> Max({candles[m].high : m \in rows}),
       low |-> Min({candles[m].low : m \in rows}),
       close |-> candles[Max(rows)].close,
       swaps |-> SumFunction([m \in rows |-> candles[m].swaps]),
       fees |-> SumFunction([m \in rows |-> candles[m].fees])]

(* feeStats, and the pool list's: the average fee, to the nearest pip      *)
AverageFee(c) == (2 * c.fees + c.swaps) \div (2 * c.swaps)

-----------------------------------------------------------------------------
(* Properties.                                                             *)

Intervals == 1 .. Cardinality(Minutes)

ReadIn(bucket, interval) ==
  {b \in 1 .. MaxBlocks : reads[b] > 0 /\ MinuteOf(b) \div interval = bucket}

(* The prices at which swaps of these blocks were written.                 *)
SeenIn(S) == UNION {seen[b] : b \in S}

(* A chart at any interval shows what was read.  Where the pages cut a     *)
(* minute, however often a poll is tried, and whatever is read again as    *)
(* long as nothing overlaps, the extremes of a bucket are those of its     *)
(* swaps, and each swap is counted as often as it was read: none that D1   *)
(* knows of is lost.  Of polls alone, with reorganisations ahead of them,  *)
(* each swap of the chain is counted once, the first opens the bucket, the *)
(* last closes it, and the average fee is the swaps'.                      *)
ChartAsRead ==
  "overlap" \notin Faults =>
    \A interval \in Intervals : \A bucket \in {m \div interval : m \in Minutes} :
      LET S == ReadIn(bucket, interval)
          row == Aggregated(bucket, interval)
      IN  /\ RowsOf(bucket, interval) = {} <=> S = {}
          /\ S # {} =>
               /\ row.high = Max(SeenIn(S))
               /\ row.low = Min(SeenIn(S))
               /\ row.swaps = SumFunctionOnSet(reads, S)
          /\ S # {} /\ faults = 0 =>
               /\ row.open = chain[Min(S)]
               /\ row.close = chain[Max(S)]
               /\ row.swaps = Cardinality(S)
               /\ AverageFee(row) * Cardinality(S) - SumFunctionOnSet(chain, S)
                    \in -(Cardinality(S) \div 2) .. Cardinality(S) \div 2
=============================================================================
