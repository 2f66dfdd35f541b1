---------------------------- MODULE ChainIndexer ----------------------------
(***************************************************************************)
(* The event side of apps/indexer/src/indexer.ts: how the ChainIndexer     *)
(* object turns the position managers' events into the rows of D1.         *)
(*                                                                         *)
(* One alarm at a time polls: it reads a range of confirmed blocks after   *)
(* the cursor, applies their events, writes one batch to D1 and only then  *)
(* saves the cursor.  Besides, any browser may post the hash of its own    *)
(* transaction (ingestTx), which is applied at once.  Both read D1 one     *)
(* await at a time and write at the end, so they interleave; either may    *)
(* die at any point, the operator may rewind the cursor, and blocks that   *)
(* are not confirmed yet may be reorganised away.                          *)
(*                                                                         *)
(* A block holds one transaction with one event.  Everything the code sums *)
(* up per position (flow, fees, perf, liquidity of the bins) is read and   *)
(* written together; here it is one total, to which an event adds one.     *)
(***************************************************************************)
EXTENDS Integers, Sequences, FiniteSets

CONSTANTS
  Poller,          \* the alarm
  Ingesters,       \* calls of ingestTx that may be in flight together
  Ids,             \* position ids
  None,            \* no row, no total read yet
  MaxRange,        \* MAX_RANGE: a page holds up to one block more
  Confirmations,   \* CONFIRMATIONS
  Habits,          \* what browsers do besides posting what is safe to post
  MaxBlocks,       \* bound: length of the chain
  MaxDisturbances  \* bound: posts, deaths, rewinds and reorganisations

(* "overlap": posts while another post or a poll is at work;               *)
(* "early": posts a transaction on a position D1 does not know yet;        *)
(* "unconfirmed": posts a transaction that may still be reorganised away.  *)
AllHabits == {"overlap", "early", "unconfirmed"}

ASSUME ConstantsAssumption ==
  /\ Poller \notin Ingesters
  /\ MaxRange \in Nat
  /\ Confirmations \in Nat
  /\ Habits \subseteq AllHabits
  /\ MaxBlocks \in Nat
  /\ MaxDisturbances \in Nat

VARIABLES
  chain,         \* the event of each block
  final,         \* blocks up to here are never reorganised
  cursor,        \* storage: the last block that was indexed
  alarm,         \* storage: an alarm is set
  wanted,        \* history: the operator's last call was a start
  events,        \* D1: the events table, by its key
  positions,     \* D1: the positions table
  page,          \* what each poll or ingest has in memory
  disturbances   \* how often the world has interfered

vars == <<chain, final, cursor, alarm, wanted, events, positions, page, disturbances>>

d1 == <<events, positions>>

storage == <<cursor, alarm, wanted>>

Workers == Ingesters \cup {Poller}

Event == [name : {"opened", "changed", "closed"}, id : Ids]

Row == [total : Nat, closed : BOOLEAN]

ASSUME NoneAssumption == None \notin Event /\ None \notin Nat /\ None \notin Row

NoTotals == [i \in Ids |-> None]

Idle ==
  [pc |-> "idle", from |-> 0, log |-> <<>>, at |-> 0, marked |-> {},
   closing |-> {}, totals |-> NoTotals]

(* pc "look": is log[at] in D1 already?  "load": read its position's total.*)
(* marked are the events to write, closing the positions to close.         *)
PageType ==
  [pc : {"idle", "look", "load", "commit", "save"}, from : Nat, log : Seq(Event),
   at : Nat, marked : SUBSET Nat, closing : SUBSET Ids, totals : [Ids -> Nat \cup {None}]]

(* The page of w: an event at hand is one of the log, and a page that asked*)
(* D1 for every event is about to be written.                              *)
PageOK(w, p) ==
  /\ p \in PageType
  /\ p.pc = "idle" => p = Idle
  /\ p.pc # "idle" => p.from > 0
  /\ p.pc \in {"look", "load"} => p.at \in 1 .. Len(p.log)
  /\ p.pc \in {"commit", "save"} => p.at = Len(p.log) + 1
  /\ p.pc = "save" => w = Poller
  /\ p.marked \subseteq 1 .. Len(p.log)

(* Types, and the shape of the pages.                                      *)
TypeOK ==
  /\ chain \in Seq(Event) /\ Len(chain) <= MaxBlocks
  /\ final \in 0 .. Len(chain)
  /\ cursor \in 0 .. final
  /\ alarm \in BOOLEAN
  /\ wanted \in BOOLEAN
  /\ events \in [1 .. MaxBlocks -> Event \cup {None}]
  /\ positions \in [Ids -> Row \cup {None}]
  /\ DOMAIN page = Workers
  /\ \A w \in Workers : PageOK(w, page[w])
  /\ disturbances \in 0 .. MaxDisturbances

Init ==
  /\ chain = <<>>
  /\ final = 0
  /\ cursor = 0
  /\ alarm = FALSE
  /\ wanted = FALSE
  /\ events = [b \in 1 .. MaxBlocks |-> None]
  /\ positions = [i \in Ids |-> None]
  /\ page = [w \in Workers |-> Idle]
  /\ disturbances = 0

-----------------------------------------------------------------------------
(* The world.                                                              *)

Happened(name, i) == \E b \in DOMAIN chain : chain[b] = [name |-> name, id |-> i]

(* Ids are issued once and nothing happens to a closed position            *)
(* (PositionManager.tla, IdsNeverReused).                                  *)
Mine(e) ==
  /\ Len(chain) < MaxBlocks
  /\ ~Happened("closed", e.id)
  /\ Happened("opened", e.id) <=> e.name # "opened"
  /\ chain' = Append(chain, e)
  /\ final' = IF final + Confirmations <= Len(chain) THEN final + 1 ELSE final
  /\ UNCHANGED <<storage, d1, page, disturbances>>

Disturbed ==
  /\ disturbances < MaxDisturbances
  /\ disturbances' = disturbances + 1

Reorganise ==
  /\ Disturbed
  /\ \E n \in final .. Len(chain) - 1 : chain' = SubSeq(chain, 1, n)
  /\ UNCHANGED <<final, storage, d1, page>>

(* Faulty: a failed poll does not ask for another one.                     *)
DieUnarmed(w) ==
  /\ page[w].pc # "idle"
  /\ Disturbed
  /\ page' = [page EXCEPT ![w] = Idle]
  /\ UNCHANGED <<chain, final, storage, d1>>

(* A poll fails, or the object is evicted.  Nothing of the page survives;  *)
(* alarm() sets the next alarm itself or the platform repeats it.          *)
Die(w) ==
  /\ page[w].pc # "idle"
  /\ Disturbed
  /\ page' = [page EXCEPT ![w] = Idle]
  /\ alarm' = (alarm \/ w = Poller)
  /\ UNCHANGED <<chain, final, cursor, wanted, d1>>

-----------------------------------------------------------------------------
(* The control routes.                                                     *)

(* /start without a block, and /start?from=, which re-scans.               *)
Start ==
  /\ alarm' = TRUE
  /\ wanted' = TRUE
  /\ UNCHANGED <<chain, final, cursor, d1, page, disturbances>>

Rewind ==
  /\ Disturbed
  /\ \E from \in 0 .. cursor : cursor' = from
  /\ alarm' = TRUE
  /\ wanted' = TRUE
  /\ UNCHANGED <<chain, final, d1, page>>

Stop ==
  /\ alarm' = FALSE
  /\ wanted' = FALSE
  /\ UNCHANGED <<chain, final, cursor, d1, page, disturbances>>

-----------------------------------------------------------------------------
(* A poll or an ingest.                                                    *)

Fetched(from, to) ==
  [Idle EXCEPT !.pc = "look", !.from = from, !.log = SubSeq(chain, from, to), !.at = 1]

(* Faulty: reads up to the head of the chain.                              *)
ConfirmedHeadAtOnce == Len(chain)

ConfirmedHead == Len(chain) - Confirmations

(* A page of blocks after the cursor.  Nothing happens if there is none.   *)
PollBegin ==
  /\ alarm
  /\ page[Poller].pc = "idle"
  /\ "overlap" \in Habits \/ \A w \in Ingesters : page[w].pc = "idle"
  /\ cursor < ConfirmedHead
  /\ LET from == cursor + 1
         to == IF ConfirmedHead - from > MaxRange THEN from + MaxRange ELSE ConfirmedHead
     IN page' = [page EXCEPT ![Poller] = Fetched(from, to)]
  /\ alarm' = FALSE
  /\ UNCHANGED <<chain, final, cursor, wanted, d1, disturbances>>

IngestBegin(w, b) ==
  /\ page[w].pc = "idle"
  /\ "overlap" \in Habits \/ \A v \in Workers : page[v].pc = "idle"
  /\ "early" \in Habits \/ chain[b].name = "opened" \/ positions[chain[b].id] # None
  /\ "unconfirmed" \in Habits \/ b <= final
  /\ Disturbed
  /\ page' = [page EXCEPT ![w] = Fetched(b, b)]
  /\ UNCHANGED <<chain, final, storage, d1>>

(* Faulty: asks for one event more than the page has.                      *)
AdvancedTooFar(p) ==
  [p EXCEPT !.at = @ + 1, !.pc = IF p.at <= Len(p.log) THEN "look" ELSE "commit"]

(* The page after its event at hand is dealt with.                         *)
Advanced(p) ==
  [p EXCEPT !.at = @ + 1, !.pc = IF p.at < Len(p.log) THEN "look" ELSE "commit"]

(* The event e added to the total t of its position.                       *)
Counted(p, e, t) ==
  [p EXCEPT !.totals[e.id] = t + 1,
            !.closing = IF e.name = "closed" THEN @ \cup {e.id} ELSE @]

(* Faulty: no marker, every event is applied whenever it is seen.          *)
NeverApplied(b) == FALSE

(* The row of an event is the marker that it was applied.                  *)
Applied(b) == events[b] # None

(* applyManagerEvent: is the event in D1?  If not its row joins the batch. *)
(* An open seeds the total; other events need the total of their position. *)
Look(w) ==
  LET p == page[w]
      e == p.log[p.at]
      m == [p EXCEPT !.marked = @ \cup {p.at}]
  IN /\ p.pc = "look"
     /\ \/ /\ Applied(p.from + p.at - 1)
           /\ page' = [page EXCEPT ![w] = Advanced(p)]
        \/ /\ ~Applied(p.from + p.at - 1)
           /\ e.name = "opened"
           /\ page' = [page EXCEPT ![w] = Advanced([m EXCEPT !.totals[e.id] = 0])]
        \/ /\ ~Applied(p.from + p.at - 1)
           /\ e.name # "opened"
           /\ p.totals[e.id] # None
           /\ page' = [page EXCEPT ![w] = Advanced(Counted(m, e, p.totals[e.id]))]
        \/ /\ ~Applied(p.from + p.at - 1)
           /\ e.name # "opened"
           /\ p.totals[e.id] = None
           /\ page' = [page EXCEPT ![w] = [m EXCEPT !.pc = "load"]]
     /\ UNCHANGED <<chain, final, storage, d1, disturbances>>

(* totalsFor: a position without a row is left out of the batch.           *)
Load(w) ==
  LET p == page[w]
      e == p.log[p.at]
  IN /\ p.pc = "load"
     /\ \/ /\ positions[e.id] = None
           /\ page' = [page EXCEPT ![w] = Advanced(p)]
        \/ /\ positions[e.id] # None
           /\ page' = [page EXCEPT ![w] = Advanced(Counted(p, e, positions[e.id].total))]
     /\ UNCHANGED <<chain, final, storage, d1, disturbances>>

(* The events table after the batch: INSERT OR IGNORE.                     *)
Inserted(p) ==
  [b \in DOMAIN events |->
     IF events[b] = None /\ b + 1 - p.from \in p.marked THEN p.log[b + 1 - p.from] ELSE events[b]]

(* A row after the batch: INSERT OR REPLACE by an open, then the UPDATEs.  *)
Flushed(p, i) ==
  LET opened == \E k \in p.marked : p.log[k] = [name |-> "opened", id |-> i]
      row == IF opened THEN [total |-> 0, closed |-> FALSE] ELSE positions[i]
  IN IF row = None
       THEN None
       ELSE [total |-> IF p.totals[i] = None THEN row.total ELSE p.totals[i],
             closed |-> row.closed \/ i \in p.closing]

(* DB.batch is atomic.                                                     *)
Commit(w) ==
  /\ page[w].pc = "commit"
  /\ events' = Inserted(page[w])
  /\ positions' = [i \in Ids |-> Flushed(page[w], i)]
  /\ page' = [page EXCEPT ![w] = IF w = Poller THEN [@ EXCEPT !.pc = "save"] ELSE Idle]
  /\ UNCHANGED <<chain, final, storage, disturbances>>

(* Faulty: saves the head of the chain, not the end of the page.           *)
SaveHead ==
  /\ page[Poller].pc = "save"
  /\ cursor' = ConfirmedHead
  /\ alarm' = TRUE
  /\ page' = [page EXCEPT ![Poller] = Idle]
  /\ UNCHANGED <<chain, final, wanted, d1, disturbances>>

(* The cursor after the batch, and the next alarm.                         *)
Save ==
  /\ page[Poller].pc = "save"
  /\ cursor' = page[Poller].from + Len(page[Poller].log) - 1
  /\ alarm' = TRUE
  /\ page' = [page EXCEPT ![Poller] = Idle]
  /\ UNCHANGED <<chain, final, wanted, d1, disturbances>>

Next ==
  \/ \E e \in Event : Mine(e)
  \/ Reorganise
  \/ \E w \in Workers : Die(w)
  \/ Start
  \/ Rewind
  \/ Stop
  \/ PollBegin
  \/ \E w \in Ingesters : \E b \in DOMAIN chain : IngestBegin(w, b)
  \/ \E w \in Workers : Look(w)
  \/ \E w \in Workers : Load(w)
  \/ \E w \in Workers : Commit(w)
  \/ Save

(* Alarms that are set go off and calls under way proceed: the platform    *)
(* runs both.  Nothing is assumed of the chain, browsers or the operator.  *)
Fairness ==
  /\ WF_vars(PollBegin)
  /\ WF_vars(Save)
  /\ \A w \in Workers : WF_vars(Look(w)) /\ WF_vars(Load(w)) /\ WF_vars(Commit(w))

Spec == Init /\ [][Next]_vars /\ Fairness

-----------------------------------------------------------------------------
(* Properties.                                                             *)

(* A saved cursor never runs ahead of what D1 holds: whatever overlaps,    *)
(* dies or is rewound, no block up to the cursor is left unrecorded.       *)
CursorSafe == \A b \in 1 .. cursor : events[b] # None

(* The replay log is the chain's: no row of a transaction that never       *)
(* happened, and none that keeps the place of one that did.                *)
EventsReal ==
  \A b \in DOMAIN events :
    events[b] # None => b <= Len(chain) /\ events[b] = chain[b]

Recorded(name, i) == {b \in DOMAIN events : events[b] = [name |-> name, id |-> i]}

(* The row of a position is what its recorded events say.                  *)
TotalExact(i) ==
  positions[i] =
    IF Recorded("opened", i) = {}
      THEN None
      ELSE [total |-> Cardinality(Recorded("changed", i) \cup Recorded("closed", i)),
            closed |-> Recorded("closed", i) # {}]

(* "The event row is the applied-marker - already there means fully        *)
(* applied": a position has a row as soon as its open is recorded, and     *)
(* each of its recorded events counts in it exactly once, in the total and *)
(* in whether the position is closed, however pages, posts, deaths and     *)
(* rewinds cut the chain to pieces.                                        *)
TotalsExact == \A i \in Ids : TotalExact(i)

(* "On failure the cursor pass still gets there": a confirmed event is     *)
(* recorded in the end, unless the operator stops the indexer or a         *)
(* reorganisation takes its confirmations back.                            *)
Indexed ==
  \A b \in 1 .. MaxBlocks :
    b <= ConfirmedHead ~> (events[b] # None \/ ~wanted \/ b > ConfirmedHead)
=============================================================================
