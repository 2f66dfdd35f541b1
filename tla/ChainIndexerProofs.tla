------------------------- MODULE ChainIndexerProofs -------------------------
(***************************************************************************)
(* What holds of ChainIndexer.tla for any chain, any number of browsers    *)
(* and whatever they post: D1 has every block up to the cursor; only a     *)
(* post that came before its transaction was final puts a row into the log *)
(* that is not the chain's; and the row of a position is what the log says *)
(* until a page overlaps one with its events, asks for it too early, or    *)
(* has recorded what is reorganised away.  And of Repair.tla: after a      *)
(* repair that nobody overlaps the totals are what the log says.           *)
(*                                                                         *)
(* The inductive invariant follows the poll through its page: behind the   *)
(* event at hand every block is recorded or in the batch, and what was     *)
(* read is final.  For the total of a position it looks at the log that D1 *)
(* would hold if the page were written now (After): the total in memory is *)
(* that of that log.                                                       *)
(***************************************************************************)
EXTENDS Repair, SequenceTheorems, FiniteSetTheorems, TLAPS

(* Every block before the event at hand is recorded or in the batch.       *)
Behind(p) ==
  \A b \in 1 .. p.from + p.at - 2 : events[b] # None \/ b + 1 - p.from \in p.marked

PollSafe(p) ==
  /\ p.pc \in {"look", "load", "commit"} => Behind(p)
  /\ p.pc = "load" => p.at \in p.marked
  /\ p.pc = "save" => \A b \in 1 .. p.from + p.at - 2 : events[b] # None

(* What the page read is final and still there.                            *)
ReadFinal(p) ==
  p.pc # "idle" =>
    /\ p.from + Len(p.log) - 1 <= final
    /\ \A k \in 1 .. Len(p.log) : p.log[k] = chain[p.from + k - 1]

FinalSafe == Len(chain) - Confirmations <= final

PageFinal == ReadFinal(page[Poller])

IInv ==
  /\ TypeOK
  /\ FinalSafe
  /\ CursorSafe
  /\ PollSafe(page[Poller])
  /\ PageFinal

-----------------------------------------------------------------------------
Stages == {"idle", "look", "load", "commit", "save"}

(* Dealing with an event moves the page on and changes nothing else.       *)
LEMMA AdvancedPage ==
  ASSUME NEW w \in Workers, NEW p \in PageType,
         p.at \in 1 .. Len(p.log), p.from > 0, p.marked \subseteq 1 .. Len(p.log)
  PROVE  /\ PageOK(w, Advanced(p))
         /\ Advanced(p).from = p.from
         /\ Advanced(p).log = p.log
         /\ Advanced(p).marked = p.marked
         /\ Advanced(p).at = p.at + 1
         /\ Advanced(p).totals = p.totals
         /\ Advanced(p).closing = p.closing
         /\ Advanced(p).pc \in {"look", "commit"}
<1> DEFINE q == Advanced(p)
           pc == IF p.at < Len(p.log) THEN "look" ELSE "commit"
<1>1. Len(p.log) \in Nat /\ p.at \in Nat
  BY DEF PageType
<1>2. q = [p EXCEPT !.at = p.at + 1, !.pc = pc]
  BY DEF Advanced
<1>3. p.at + 1 \in Nat /\ pc \in {"look", "commit"} /\ pc \in Stages
  BY <1>1 DEF Stages
<1> HIDE DEF q, pc
<1>4. /\ q \in PageType /\ q.pc = pc /\ q.at = p.at + 1
      /\ q.from = p.from /\ q.log = p.log /\ q.marked = p.marked
      /\ q.totals = p.totals /\ q.closing = p.closing
  BY <1>2, <1>3 DEF PageType, Stages
<1>5. PageOK(w, q)
  BY <1>1, <1>3, <1>4 DEF PageOK, pc
<1> QED
  BY <1>3, <1>4, <1>5 DEF q

(* Counting an event changes the totals and the positions to close.        *)
LEMMA CountedPage ==
  ASSUME NEW p \in PageType, NEW e \in Event, NEW t \in Nat
  PROVE  /\ Counted(p, e, t) \in PageType
         /\ Counted(p, e, t).from = p.from
         /\ Counted(p, e, t).log = p.log
         /\ Counted(p, e, t).marked = p.marked
         /\ Counted(p, e, t).at = p.at
         /\ Counted(p, e, t).totals = [p.totals EXCEPT ![e.id] = t + 1]
         /\ Counted(p, e, t).closing =
              IF e.name = "closed" THEN p.closing \cup {e.id} ELSE p.closing
<1> DEFINE closing == IF e.name = "closed" THEN p.closing \cup {e.id} ELSE p.closing
<1>1. e.id \in Ids
  BY DEF Event
<1>2. closing \in SUBSET Ids
  BY <1>1 DEF PageType
<1>3. Counted(p, e, t) = [p EXCEPT !.totals[e.id] = t + 1, !.closing = closing]
  BY DEF Counted
<1>4. t + 1 \in Nat \cup {None}
  OBVIOUS
<1> HIDE DEF closing
<1>5. /\ Counted(p, e, t) \in PageType
      /\ Counted(p, e, t).from = p.from /\ Counted(p, e, t).log = p.log
      /\ Counted(p, e, t).marked = p.marked /\ Counted(p, e, t).at = p.at
      /\ Counted(p, e, t).totals = [p.totals EXCEPT ![e.id] = t + 1]
      /\ Counted(p, e, t).closing = closing
  BY <1>1, <1>2, <1>3, <1>4 DEF PageType
<1> QED
  BY <1>5 DEF closing

(* A page that was just read.                                              *)
LEMMA FetchedPage ==
  ASSUME TypeOK, NEW w \in Workers, NEW from \in 1 .. Len(chain), NEW to \in from .. Len(chain)
  PROVE  /\ PageOK(w, Fetched(from, to))
         /\ Fetched(from, to).pc = "look"
         /\ Fetched(from, to).from = from
         /\ Fetched(from, to).at = 1
         /\ Len(Fetched(from, to).log) = to - from + 1
         /\ \A k \in 1 .. to - from + 1 : Fetched(from, to).log[k] = chain[from + k - 1]
         /\ Fetched(from, to).marked = {}
         /\ Fetched(from, to).totals = NoTotals
         /\ Fetched(from, to).closing = {}
<1> DEFINE q == Fetched(from, to)
<1>1. /\ SubSeq(chain, from, to) \in Seq(Event)
      /\ Len(SubSeq(chain, from, to)) = to - from + 1
      /\ \A k \in 1 .. to - from + 1 : SubSeq(chain, from, to)[k] = chain[from + k - 1]
  <2>1. chain \in Seq(Event)
    BY DEF TypeOK
  <2>2. \A i \in from .. to : chain[i] \in Event
    BY <2>1
  <2>3. from \in Int /\ to \in Int /\ from <= to
    OBVIOUS
  <2>4. /\ SubSeq(chain, from, to) \in Seq(Event)
        /\ Len(SubSeq(chain, from, to)) = IF from <= to THEN to - from + 1 ELSE 0
        /\ \A i \in 1 .. to - from + 1 : SubSeq(chain, from, to)[i] = chain[from + i - 1]
    BY <2>2, <2>3, SubSeqProperties
  <2> QED
    BY <2>3, <2>4
<1>2. q = [Idle EXCEPT !.pc = "look", !.from = from, !.log = SubSeq(chain, from, to), !.at = 1]
  BY DEF Fetched
<1>3. /\ Idle \in PageType /\ Idle.marked = {}
      /\ Idle.totals = NoTotals /\ Idle.closing = {}
  BY DEF Idle, PageType, NoTotals
<1> HIDE DEF q
<1>4. /\ q \in PageType /\ q.pc = "look" /\ q.at = 1
      /\ q.from = from /\ q.log = SubSeq(chain, from, to) /\ q.marked = {}
      /\ q.totals = NoTotals /\ q.closing = {}
  <2>1. "look" \in Stages /\ from \in Nat /\ 1 \in Nat
    BY DEF Stages
  <2> QED
    BY <1>1, <1>2, <1>3, <2>1 DEF PageType, Stages
<1>5. PageOK(w, q)
  BY <1>1, <1>4 DEF PageOK
<1> QED
  BY <1>1, <1>4, <1>5 DEF q

(* Nothing read, nothing to do.                                            *)
LEMMA IdlePage ==
  ASSUME NEW w \in Workers
  PROVE  PageOK(w, Idle)
<1>1. Idle \in PageType
  BY DEF Idle, PageType, NoTotals
<1> QED
  BY <1>1 DEF PageOK, Idle

-----------------------------------------------------------------------------
(* A step that only changes the page of one worker: all it takes is that   *)
(* the new page is well-formed and, if it is the poll's, safe and final.   *)
LEMMA PageStep ==
  ASSUME IInv, NEW w \in Workers, NEW q, PageOK(w, q),
         page' = [page EXCEPT ![w] = q],
         UNCHANGED <<chain, final, cursor, d1>>,
         alarm' \in BOOLEAN, wanted' \in BOOLEAN, disturbances' \in 0 .. MaxDisturbances,
         w = Poller => PollSafe(q),
         w = Poller => ReadFinal(q)
  PROVE  IInv'
<1>1. /\ chain' = chain /\ final' = final /\ cursor' = cursor
      /\ events' = events /\ positions' = positions
  BY DEF d1
<1>2. /\ DOMAIN page' = Workers
      /\ page'[w] = q
      /\ \A v \in Workers \ {w} : page'[v] = page[v]
  BY DEF IInv, TypeOK
<1>3. \A v \in Workers : PageOK(v, page'[v])
  BY <1>2 DEF IInv, TypeOK
<1>4. TypeOK'
  BY <1>1, <1>2, <1>3 DEF IInv, TypeOK
<1>5. FinalSafe' /\ CursorSafe'
  BY <1>1 DEF IInv, FinalSafe, CursorSafe
<1>6. PollSafe(page[Poller])'
  <2>1. PollSafe(page'[Poller])
    BY <1>2 DEF IInv, Workers
  <2> QED
    BY <1>1, <2>1 DEF PollSafe, Behind
<1>7. PageFinal'
  <2>1. ReadFinal(page'[Poller])
    BY <1>2 DEF IInv, PageFinal, Workers
  <2> QED
    BY <1>1, <2>1 DEF PageFinal, ReadFinal
<1> QED
  BY <1>4, <1>5, <1>6, <1>7 DEF IInv

(* The world and the control routes: the pages and D1 stay.                *)
LEMMA MineInv ==
  ASSUME IInv, NEW e \in Event, Mine(e)
  PROVE  IInv'
<1>1. /\ chain \in Seq(Event) /\ Len(chain) \in Nat /\ Len(chain) < MaxBlocks
      /\ final \in 0 .. Len(chain)
  BY DEF IInv, TypeOK, Mine
<1>2. /\ chain' = Append(chain, e)
      /\ final' = IF final + Confirmations <= Len(chain) THEN final + 1 ELSE final
      /\ UNCHANGED <<storage, d1, page, disturbances>>
  BY DEF Mine
<1>3. /\ chain' \in Seq(Event) /\ Len(chain') = Len(chain) + 1
      /\ \A b \in 1 .. Len(chain) : chain'[b] = chain[b]
  BY <1>1, <1>2
<1>4. /\ cursor' = cursor /\ alarm' = alarm /\ wanted' = wanted
      /\ events' = events /\ positions' = positions
      /\ page' = page /\ disturbances' = disturbances
  BY <1>2 DEF storage, d1
<1>5. final <= final' /\ final' \in 0 .. Len(chain') /\ FinalSafe'
  BY <1>1, <1>2, <1>3, ConstantsAssumption DEF IInv, FinalSafe
<1>6. TypeOK'
  BY <1>1, <1>3, <1>4, <1>5, ConstantsAssumption DEF IInv, TypeOK
<1>7. CursorSafe' /\ PollSafe(page[Poller])'
  BY <1>4 DEF IInv, CursorSafe, PollSafe, Behind
<1>8. PageFinal'
  <2> DEFINE w == Poller
  <2> SUFFICES ASSUME page[w].pc # "idle"
               PROVE  /\ page[w].from + Len(page[w].log) - 1 <= final'
                      /\ \A k \in 1 .. Len(page[w].log) :
                           page[w].log[k] = chain'[page[w].from + k - 1]
    BY <1>4 DEF PageFinal, ReadFinal
  <2>1. ReadFinal(page[w])
    BY DEF IInv, PageFinal
  <2>2. page[w].from \in Nat \ {0} /\ Len(page[w].log) \in Nat
    BY DEF IInv, TypeOK, PageOK, PageType, Workers
  <2>3. page[w].from + Len(page[w].log) - 1 <= final
    BY <2>1 DEF ReadFinal
  <2>4. ASSUME NEW k \in 1 .. Len(page[w].log)
        PROVE  page[w].log[k] = chain'[page[w].from + k - 1]
    <3>1. page[w].log[k] = chain[page[w].from + k - 1]
      BY <2>1 DEF ReadFinal
    <3>2. page[w].from + k - 1 \in 1 .. Len(chain)
      BY <1>1, <2>2, <2>3
    <3> QED
      BY <1>3, <3>1, <3>2
  <2>5. final \in Int /\ final' \in Int /\ final <= final'
    BY <1>1, <1>3, <1>5
  <2>6. page[w].from + Len(page[w].log) - 1 <= final'
    BY <2>2, <2>3, <2>5
  <2> QED
    BY <2>4, <2>6
<1> QED
  BY <1>5, <1>6, <1>7, <1>8 DEF IInv

(* A reorganisation drops no final block, and the poll's page holds no     *)
(* others.                                                                 *)
LEMMA ReorganiseInv ==
  ASSUME IInv, Reorganise
  PROVE  IInv'
<1>1. /\ chain \in Seq(Event) /\ Len(chain) \in Nat /\ Len(chain) <= MaxBlocks
      /\ final \in 0 .. Len(chain) /\ disturbances \in 0 .. MaxDisturbances
  BY DEF IInv, TypeOK
<1>2. PICK n \in final .. Len(chain) - 1 : chain' = SubSeq(chain, 1, n)
  BY DEF Reorganise
<1>3. /\ chain' \in Seq(Event) /\ Len(chain') = n
      /\ \A b \in 1 .. n : chain'[b] = chain[b]
  <2>1. n \in Int /\ n >= 0 /\ n <= Len(chain)
    BY <1>1, <1>2
  <2>2. \A i \in 1 .. n : chain[i] \in Event
    BY <1>1, <2>1
  <2>3. /\ SubSeq(chain, 1, n) \in Seq(Event)
        /\ Len(SubSeq(chain, 1, n)) = IF 1 <= n THEN n - 1 + 1 ELSE 0
        /\ \A i \in 1 .. n - 1 + 1 : SubSeq(chain, 1, n)[i] = chain[1 + i - 1]
    BY <2>1, <2>2, SubSeqProperties
  <2> QED
    BY <1>2, <2>1, <2>3
<1>4. /\ final' = final /\ cursor' = cursor /\ alarm' = alarm /\ wanted' = wanted
      /\ events' = events /\ positions' = positions /\ page' = page
      /\ disturbances' \in 0 .. MaxDisturbances
  BY <1>1, ConstantsAssumption DEF Reorganise, Disturbed, storage, d1
<1>5. final' \in 0 .. Len(chain') /\ Len(chain') <= MaxBlocks /\ FinalSafe'
  BY <1>1, <1>2, <1>3, <1>4, ConstantsAssumption DEF IInv, FinalSafe
<1>6. TypeOK'
  BY <1>3, <1>4, <1>5 DEF IInv, TypeOK
<1>7. CursorSafe' /\ PollSafe(page[Poller])'
  BY <1>4 DEF IInv, CursorSafe, PollSafe, Behind
<1>8. PageFinal'
  <2> DEFINE w == Poller
  <2> SUFFICES ASSUME page[w].pc # "idle"
               PROVE  /\ page[w].from + Len(page[w].log) - 1 <= final
                      /\ \A k \in 1 .. Len(page[w].log) :
                           page[w].log[k] = chain'[page[w].from + k - 1]
    BY <1>4 DEF PageFinal, ReadFinal
  <2>1. ReadFinal(page[w])
    BY DEF IInv, PageFinal
  <2>2. page[w].from \in Nat \ {0} /\ Len(page[w].log) \in Nat
    BY DEF IInv, TypeOK, PageOK, PageType, Workers
  <2>3. page[w].from + Len(page[w].log) - 1 <= final
    BY <2>1 DEF ReadFinal
  <2>4. ASSUME NEW k \in 1 .. Len(page[w].log)
        PROVE  page[w].log[k] = chain'[page[w].from + k - 1]
    <3>1. page[w].log[k] = chain[page[w].from + k - 1]
      BY <2>1 DEF ReadFinal
    <3>2. page[w].from + k - 1 \in 1 .. n
      <4>1. final \in Nat /\ n \in Int /\ final <= n /\ k \in 1 .. Len(page[w].log)
        BY <1>1, <1>2
      <4> QED
        BY <2>2, <2>3, <4>1
    <3> QED
      BY <1>3, <3>1, <3>2
  <2> QED
    BY <2>3, <2>4
<1> QED
  BY <1>5, <1>6, <1>7, <1>8 DEF IInv

(* /start, /start?from= and /stop move the cursor backwards at most.       *)
LEMMA ControlInv ==
  ASSUME IInv, Start \/ Rewind \/ Stop
  PROVE  IInv'
<1>1. /\ chain' = chain /\ final' = final /\ events' = events /\ positions' = positions
      /\ page' = page /\ alarm' \in BOOLEAN /\ wanted' \in BOOLEAN
  BY DEF Start, Rewind, Stop, d1
<1>2. cursor' \in 0 .. cursor /\ disturbances' \in 0 .. MaxDisturbances
  BY ConstantsAssumption DEF IInv, TypeOK, Start, Rewind, Stop, Disturbed
<1>3. TypeOK' /\ CursorSafe'
  BY <1>1, <1>2 DEF IInv, TypeOK, CursorSafe
<1>4. FinalSafe' /\ PollSafe(page[Poller])'
  BY <1>1 DEF IInv, FinalSafe, PollSafe, Behind
<1>5. PageFinal'
  BY <1>1 DEF IInv, PageFinal, ReadFinal
<1> QED
  BY <1>3, <1>4, <1>5 DEF IInv

(* A death leaves an idle page.                                            *)
LEMMA DieInv ==
  ASSUME IInv, NEW w \in Workers, Die(w)
  PROVE  IInv'
<1>1. PollSafe(Idle) /\ ReadFinal(Idle)
  BY DEF PollSafe, ReadFinal, Idle
<1>2. PageOK(w, Idle)
  BY IdlePage
<1>3. /\ page' = [page EXCEPT ![w] = Idle]
      /\ UNCHANGED <<chain, final, cursor, d1>>
      /\ alarm' \in BOOLEAN /\ wanted' \in BOOLEAN
  BY DEF Die, IInv, TypeOK
<1>4. disturbances' \in 0 .. MaxDisturbances
  BY ConstantsAssumption DEF Die, Disturbed, IInv, TypeOK
<1> QED
  BY <1>1, <1>2, <1>3, <1>4, PageStep

-----------------------------------------------------------------------------
(* Reading.                                                                *)

(* A page that starts after the cursor has nothing unrecorded behind it.   *)
LEMMA PollBeginInv ==
  ASSUME IInv, PollBegin
  PROVE  IInv'
<1> DEFINE from == cursor + 1
           to == IF ConfirmedHead - from > MaxRange THEN from + MaxRange ELSE ConfirmedHead
           q == Fetched(from, to)
<1>1. /\ Len(chain) \in Nat /\ final \in 0 .. Len(chain) /\ cursor \in 0 .. final
      /\ Len(chain) - Confirmations <= final
      /\ disturbances \in 0 .. MaxDisturbances /\ wanted \in BOOLEAN
  BY DEF IInv, TypeOK, FinalSafe
<1>2. from \in 1 .. Len(chain) /\ to \in from .. Len(chain) /\ to <= final
  BY <1>1, ConstantsAssumption DEF PollBegin, ConfirmedHead
<1>3. /\ page' = [page EXCEPT ![Poller] = q]
      /\ UNCHANGED <<chain, final, cursor, d1>>
      /\ alarm' = FALSE /\ wanted' = wanted /\ disturbances' = disturbances
  BY DEF PollBegin
<1> HIDE DEF to
<1>4. Poller \in Workers
  BY DEF Workers
<1>5. /\ PageOK(Poller, q) /\ q.pc = "look" /\ q.from = from /\ q.at = 1
      /\ Len(q.log) = to - from + 1
      /\ \A k \in 1 .. to - from + 1 : q.log[k] = chain[from + k - 1]
  BY <1>2, <1>4, FetchedPage DEF IInv
<1> HIDE DEF q
<1>6. PollSafe(q)
  <2>1. q.from + q.at - 2 = cursor
    BY <1>1, <1>5
  <2> QED
    BY <1>5, <2>1 DEF IInv, CursorSafe, PollSafe, Behind
<1>7. ReadFinal(q)
  <2>1. q.from + Len(q.log) - 1 = to
    BY <1>1, <1>2, <1>5
  <2> QED
    BY <1>2, <1>5, <2>1 DEF ReadFinal
<1> QED
  BY <1>1, <1>3, <1>4, <1>5, <1>6, <1>7, PageStep

(* A post leaves the poll's page alone, whatever it reads.                 *)
LEMMA IngestBeginInv ==
  ASSUME IInv, NEW w \in Ingesters, NEW b \in DOMAIN chain, IngestBegin(w, b)
  PROVE  IInv'
<1> DEFINE q == Fetched(b, b)
<1>1. /\ Len(chain) \in Nat /\ final \in 0 .. Len(chain) /\ b \in 1 .. Len(chain)
      /\ disturbances \in 0 .. MaxDisturbances /\ wanted \in BOOLEAN /\ alarm \in BOOLEAN
  BY DEF IInv, TypeOK
<1>2. b \in b .. Len(chain)
  BY <1>1
<1>3. /\ page' = [page EXCEPT ![w] = q]
      /\ UNCHANGED <<chain, final, storage, d1>>
      /\ disturbances' \in 0 .. MaxDisturbances
  BY <1>1, ConstantsAssumption DEF IngestBegin, Disturbed
<1>4. w \in Workers /\ w # Poller
  BY ConstantsAssumption DEF Workers
<1>5. PageOK(w, q)
  <2> DEFINE to == b
  <2>1. to \in b .. Len(chain) /\ TypeOK
    BY <1>2 DEF IInv
  <2> HIDE DEF to
  <2>2. PageOK(w, Fetched(b, to))
    BY <1>1, <1>4, <2>1, FetchedPage
  <2> QED
    BY <2>2 DEF to
<1> HIDE DEF q
<1>6. UNCHANGED <<chain, final, cursor, d1>> /\ alarm' = alarm /\ wanted' = wanted
  BY <1>3 DEF storage
<1> QED
  BY <1>1, <1>3, <1>4, <1>5, <1>6, PageStep

(* A page that dealt with an event that is recorded or in the batch.       *)
LEMMA AdvancedSafe ==
  ASSUME NEW w \in Workers, NEW p \in PageType,
         p.at \in 1 .. Len(p.log), p.from > 0, p.marked \subseteq 1 .. Len(p.log),
         Behind(p),
         events[p.from + p.at - 1] # None \/ p.at \in p.marked
  PROVE  PollSafe(Advanced(p))
<1> DEFINE q == Advanced(p)
<1>1. /\ q.from = p.from /\ q.marked = p.marked /\ q.at = p.at + 1
      /\ q.pc \in {"look", "commit"}
  BY AdvancedPage
<1>2. p.from \in Nat /\ p.at \in Nat
  BY DEF PageType
<1> HIDE DEF q
<1>3. ASSUME NEW b \in 1 .. q.from + q.at - 2
      PROVE  events[b] # None \/ b + 1 - q.from \in q.marked
  <2>1. CASE b = p.from + p.at - 1
    BY <1>1, <1>2, <2>1
  <2>2. CASE b # p.from + p.at - 1
    <3>1. b \in 1 .. p.from + p.at - 2
      BY <1>1, <1>2, <2>2
    <3> QED
      BY <1>1, <3>1 DEF Behind
  <2> QED
    BY <2>1, <2>2
<1> QED
  BY <1>1, <1>3 DEF PollSafe, Behind, q

(* The page at work on an event.                                           *)
LEMMA WorkingPage ==
  ASSUME IInv, NEW w \in Workers, page[w].pc \in {"look", "load"}
  PROVE  /\ page[w] \in PageType
         /\ page[w].at \in 1 .. Len(page[w].log)
         /\ page[w].from > 0 /\ page[w].from \in Nat
         /\ page[w].marked \subseteq 1 .. Len(page[w].log)
         /\ page[w].log[page[w].at] \in Event
         /\ w = Poller => Behind(page[w])
         /\ w = Poller /\ page[w].pc = "load" => page[w].at \in page[w].marked
         /\ w = Poller => ReadFinal(page[w])
<1>1. PageOK(w, page[w])
  BY DEF IInv, TypeOK
<1>2. w = Poller => PollSafe(page[w])
  BY DEF IInv
<1>3. w = Poller => ReadFinal(page[w])
  BY DEF IInv, PageFinal
<1> QED
  BY <1>1, <1>2, <1>3 DEF PageOK, PageType, PollSafe

(* A page that is done with its event, whatever it made of it: r is the    *)
(* page with the totals and the batch after the event.                     *)
LEMMA DoneInv ==
  ASSUME IInv, NEW w \in Workers, page[w].pc \in {"look", "load"},
         NEW r \in PageType,
         r.from = page[w].from, r.log = page[w].log, r.at = page[w].at,
         page[w].marked \subseteq r.marked, r.marked \subseteq 1 .. Len(r.log),
         w = Poller => events[r.from + r.at - 1] # None \/ r.at \in r.marked,
         page' = [page EXCEPT ![w] = Advanced(r)],
         UNCHANGED <<chain, final, storage, d1, disturbances>>
  PROVE  IInv'
<1> DEFINE q == Advanced(r)
<1>1. /\ r.at \in 1 .. Len(r.log) /\ r.from > 0
      /\ w = Poller => Behind(page[w])
      /\ w = Poller => ReadFinal(page[w])
  BY WorkingPage
<1>2. /\ PageOK(w, q) /\ q.from = r.from /\ q.log = r.log
  BY <1>1, AdvancedPage
<1>3. w = Poller => PollSafe(q)
  <2>1. w = Poller => Behind(r)
    BY <1>1 DEF Behind
  <2> QED
    BY <1>1, <2>1, AdvancedSafe
<1>4. w = Poller => ReadFinal(q)
  BY <1>1, <1>2 DEF ReadFinal
<1>5. /\ UNCHANGED <<chain, final, cursor, d1>>
      /\ alarm' \in BOOLEAN /\ wanted' \in BOOLEAN /\ disturbances' \in 0 .. MaxDisturbances
  BY DEF IInv, TypeOK, storage
<1> HIDE DEF q
<1>6. page' = [page EXCEPT ![w] = q]
  BY DEF q
<1> QED
  BY <1>2, <1>3, <1>4, <1>5, <1>6, PageStep

(* The batch with the row of the event at hand.                            *)
LEMMA MarkedPage ==
  ASSUME NEW p \in PageType, NEW m, m = [p EXCEPT !.marked = @ \cup {p.at}]
  PROVE  /\ m \in PageType
         /\ m.pc = p.pc /\ m.from = p.from /\ m.log = p.log /\ m.at = p.at
         /\ m.marked = p.marked \cup {p.at} /\ m.totals = p.totals /\ m.closing = p.closing
BY DEF PageType

(* The page advances past an event only once that event is marked or is in *)
(* D1 already: nothing a poll has passed is lost.                          *)
LEMMA LookInv ==
  ASSUME IInv, NEW w \in Workers, Look(w)
  PROVE  IInv'
<1> DEFINE p == page[w]
           e == p.log[p.at]
           m == [p EXCEPT !.marked = @ \cup {p.at}]
<1>1. p.pc = "look" /\ UNCHANGED <<chain, final, storage, d1, disturbances>>
  BY DEF Look
<1>2. /\ p \in PageType /\ p.at \in 1 .. Len(p.log) /\ p.from > 0 /\ p.from \in Nat
      /\ p.marked \subseteq 1 .. Len(p.log) /\ e \in Event
      /\ w = Poller => Behind(p)
      /\ w = Poller => ReadFinal(p)
  BY <1>1, WorkingPage
<1>3. /\ m \in PageType
      /\ m.pc = p.pc /\ m.from = p.from /\ m.log = p.log /\ m.at = p.at
      /\ m.marked = p.marked \cup {p.at} /\ m.totals = p.totals
  BY <1>2, MarkedPage
<1>4. m.marked \subseteq 1 .. Len(m.log) /\ p.marked \subseteq m.marked /\ m.at \in m.marked
  BY <1>2, <1>3
<1> HIDE DEF m
<1>5. CASE Applied(p.from + p.at - 1) /\ page' = [page EXCEPT ![w] = Advanced(p)]
  BY <1>1, <1>2, <1>5, DoneInv DEF Applied
<1>6. CASE page' = [page EXCEPT ![w] = Advanced([m EXCEPT !.totals[e.id] = 0])]
  <2> DEFINE r == [m EXCEPT !.totals[e.id] = 0]
  <2>1. e.id \in Ids
    BY <1>2 DEF Event
  <2>2. /\ r \in PageType /\ r.from = m.from /\ r.log = m.log /\ r.at = m.at
        /\ r.marked = m.marked
    BY <1>3, <2>1 DEF PageType
  <2>3. page' = [page EXCEPT ![w] = Advanced(r)]
    BY <1>6
  <2> HIDE DEF r
  <2> QED
    BY <1>1, <1>3, <1>4, <2>2, <2>3, DoneInv
<1>7. CASE /\ p.totals[e.id] # None
           /\ page' = [page EXCEPT ![w] = Advanced(Counted(m, e, p.totals[e.id]))]
  <2> DEFINE r == Counted(m, e, p.totals[e.id])
  <2>1. p.totals[e.id] \in Nat
    BY <1>2, <1>7 DEF Event, PageType
  <2>2. /\ r \in PageType /\ r.from = m.from /\ r.log = m.log /\ r.at = m.at
        /\ r.marked = m.marked
    BY <1>2, <1>3, <2>1, CountedPage
  <2>3. page' = [page EXCEPT ![w] = Advanced(r)]
    BY <1>7
  <2> HIDE DEF r
  <2> QED
    BY <1>1, <1>3, <1>4, <2>2, <2>3, DoneInv
<1>8. CASE page' = [page EXCEPT ![w] = [m EXCEPT !.pc = "load"]]
  <2> DEFINE q == [m EXCEPT !.pc = "load"]
  <2>1. /\ q \in PageType /\ q.pc = "load" /\ q.from = m.from /\ q.log = m.log
        /\ q.at = m.at /\ q.marked = m.marked
    BY <1>3 DEF PageType
  <2>2. page' = [page EXCEPT ![w] = q]
    BY <1>8
  <2> HIDE DEF q
  <2>3. PageOK(w, q)
    BY <1>2, <1>3, <1>4, <2>1 DEF PageOK
  <2>4. w = Poller => PollSafe(q)
    BY <1>2, <1>3, <1>4, <2>1 DEF PollSafe, Behind
  <2>5. w = Poller => ReadFinal(q)
    BY <1>1, <1>2, <1>3, <2>1 DEF ReadFinal
  <2>6. /\ UNCHANGED <<chain, final, cursor, d1>>
        /\ alarm' \in BOOLEAN /\ wanted' \in BOOLEAN /\ disturbances' \in 0 .. MaxDisturbances
    BY <1>1 DEF IInv, TypeOK, storage
  <2> QED
    BY <2>2, <2>3, <2>4, <2>5, <2>6, PageStep
<1> QED
  BY <1>5, <1>6, <1>7, <1>8 DEF Look, m

(* A position without a row does not take its event out of the batch.      *)
LEMMA LoadInv ==
  ASSUME IInv, NEW w \in Workers, Load(w)
  PROVE  IInv'
<1> DEFINE p == page[w]
           e == p.log[p.at]
<1>1. p.pc = "load" /\ UNCHANGED <<chain, final, storage, d1, disturbances>>
  BY DEF Load
<1>2. /\ p \in PageType /\ p.marked \subseteq 1 .. Len(p.log) /\ e \in Event
      /\ w = Poller => p.at \in p.marked
  BY <1>1, WorkingPage
<1>3. CASE page' = [page EXCEPT ![w] = Advanced(p)]
  BY <1>1, <1>2, <1>3, DoneInv
<1>4. CASE /\ positions[e.id] # None
           /\ page' = [page EXCEPT ![w] = Advanced(Counted(p, e, positions[e.id].total))]
  <2> DEFINE r == Counted(p, e, positions[e.id].total)
  <2>1. positions[e.id].total \in Nat
    BY <1>2, <1>4 DEF Event, IInv, TypeOK, Row
  <2>2. /\ r \in PageType /\ r.from = p.from /\ r.log = p.log /\ r.at = p.at
        /\ r.marked = p.marked
    BY <1>2, <2>1, CountedPage
  <2>3. page' = [page EXCEPT ![w] = Advanced(r)]
    BY <1>4
  <2> HIDE DEF r
  <2> QED
    BY <1>1, <1>2, <2>2, <2>3, DoneInv
<1> QED
  BY <1>3, <1>4 DEF Load

-----------------------------------------------------------------------------
(* Writing.                                                                *)

(* A batch of rows keeps what is recorded and records what it has.         *)
LEMMA InsertedRows ==
  ASSUME TypeOK, NEW p \in PageType, p.marked \subseteq 1 .. Len(p.log)
  PROVE  /\ Inserted(p) \in [1 .. MaxBlocks -> Event \cup {None}]
         /\ \A b \in 1 .. MaxBlocks :
              /\ events[b] # None => Inserted(p)[b] = events[b]
              /\ b + 1 - p.from \in p.marked => Inserted(p)[b] # None
              /\ events[b] = None /\ Inserted(p)[b] # None =>
                   b + 1 - p.from \in p.marked /\ Inserted(p)[b] = p.log[b + 1 - p.from]
<1>1. DOMAIN events = 1 .. MaxBlocks /\ events \in [1 .. MaxBlocks -> Event \cup {None}]
  BY DEF TypeOK
<1>2. \A k \in p.marked : p.log[k] \in Event
  BY DEF PageType
<1> QED
  BY <1>1, <1>2, NoneAssumption DEF Inserted

(* The rows a batch leaves in the positions table.                         *)
LEMMA FlushedRow ==
  ASSUME TypeOK, NEW p \in PageType, NEW i \in Ids
  PROVE  Flushed(p, i) \in Row \cup {None}
<1> DEFINE opened == \E k \in p.marked : p.log[k] = [name |-> "opened", id |-> i]
           row == IF opened THEN [total |-> 0, closed |-> FALSE] ELSE positions[i]
           total == IF p.totals[i] = None THEN row.total ELSE p.totals[i]
           closed == row.closed \/ i \in p.closing
<1>1. row \in Row \cup {None}
  BY DEF TypeOK, Row
<1>2. Flushed(p, i) = IF row = None THEN None ELSE [total |-> total, closed |-> closed]
  BY DEF Flushed
<1>3. p.totals[i] \in Nat \cup {None}
  BY DEF PageType
<1> HIDE DEF row
<1>4. row # None => total \in Nat
  BY <1>1, <1>3 DEF Row
<1>5. closed \in BOOLEAN
  OBVIOUS
<1> QED
  BY <1>2, <1>4, <1>5 DEF Row

(* The batch writes every marked event where the chain has it, and takes   *)
(* nothing out of D1.                                                      *)
LEMMA CommitInv ==
  ASSUME IInv, NEW w \in Workers, Commit(w)
  PROVE  IInv'
<1> DEFINE p == page[w]
           q == IF w = Poller THEN [p EXCEPT !.pc = "save"] ELSE Idle
<1>1. /\ p.pc = "commit"
      /\ events' = Inserted(p)
      /\ positions' = [i \in Ids |-> Flushed(p, i)]
      /\ page' = [page EXCEPT ![w] = q]
      /\ chain' = chain /\ final' = final /\ cursor' = cursor /\ alarm' = alarm
      /\ wanted' = wanted /\ disturbances' = disturbances
  BY DEF Commit, storage
<1>2. /\ p \in PageType /\ p.marked \subseteq 1 .. Len(p.log) /\ p.at = Len(p.log) + 1
      /\ p.from > 0 /\ p.from \in Nat /\ Len(p.log) \in Nat
  BY <1>1 DEF IInv, TypeOK, PageOK, PageType
<1>3. /\ w = Poller => Behind(p)
      /\ w = Poller => ReadFinal(p)
  BY <1>1 DEF IInv, PageFinal, PollSafe
<1>4. /\ Len(chain) \in Nat /\ Len(chain) <= MaxBlocks /\ final \in 0 .. Len(chain)
      /\ cursor \in 0 .. final
  BY DEF IInv, TypeOK
<1>5. /\ events' \in [1 .. MaxBlocks -> Event \cup {None}]
      /\ \A b \in 1 .. MaxBlocks :
           /\ events[b] # None => events'[b] = events[b]
           /\ b + 1 - p.from \in p.marked => events'[b] # None
           /\ events[b] = None /\ events'[b] # None =>
                b + 1 - p.from \in p.marked /\ events'[b] = p.log[b + 1 - p.from]
  BY <1>1, <1>2, InsertedRows DEF IInv
<1>6. positions' \in [Ids -> Row \cup {None}]
  BY <1>1, <1>2, FlushedRow DEF IInv
<1>7. /\ PageOK(w, q)
      /\ w = Poller => q.pc = "save" /\ q.from = p.from /\ q.at = p.at /\ q.log = p.log
      /\ w # Poller => q = Idle
  <2>1. CASE w = Poller
    <3>1. /\ q = [p EXCEPT !.pc = "save"]
      BY <2>1
    <3> HIDE DEF q
    <3>2. /\ q \in PageType /\ q.pc = "save" /\ q.from = p.from /\ q.at = p.at
          /\ q.log = p.log /\ q.marked = p.marked
      BY <1>2, <3>1 DEF PageType
    <3> QED
      BY <1>2, <2>1, <3>2 DEF PageOK
  <2>2. CASE w # Poller
    BY <2>2, IdlePage
  <2> QED
    BY <2>1, <2>2
<1> HIDE DEF q
<1>8. /\ DOMAIN page' = Workers
      /\ page'[w] = q
      /\ \A v \in Workers \ {w} : page'[v] = page[v]
  BY <1>1 DEF IInv, TypeOK
<1>9. \A v \in Workers : PageOK(v, page'[v])
  BY <1>7, <1>8 DEF IInv, TypeOK
<1>10. TypeOK'
  BY <1>1, <1>5, <1>6, <1>8, <1>9 DEF IInv, TypeOK
<1>11. CursorSafe' /\ FinalSafe'
  <2>1. \A b \in 1 .. cursor : b \in 1 .. MaxBlocks /\ events[b] # None
    BY <1>4, ConstantsAssumption DEF IInv, CursorSafe
  <2>2. \A b \in 1 .. cursor : events'[b] # None
    BY <1>5, <2>1
  <2> QED
    BY <1>1, <2>2 DEF IInv, CursorSafe, FinalSafe
<1>12. PollSafe(page[Poller])'
  <2>1. CASE w = Poller
    <3> SUFFICES ASSUME NEW b \in 1 .. q.from + q.at - 2
                 PROVE  events'[b] # None
      BY <1>7, <1>8, <2>1 DEF PollSafe
    <3>1. p.from + Len(p.log) - 1 <= final
      BY <1>1, <1>3, <2>1 DEF ReadFinal
    <3>2. b \in 1 .. p.from + p.at - 2 /\ b \in 1 .. MaxBlocks
      <4>1. q.from + q.at - 2 = p.from + p.at - 2 /\ p.from + p.at - 2 = p.from + Len(p.log) - 1
        BY <1>2, <1>7, <2>1
      <4>2. p.from + p.at - 2 \in Int /\ p.from + p.at - 2 <= MaxBlocks /\ MaxBlocks \in Nat
        BY <1>2, <1>4, <3>1, ConstantsAssumption
      <4>3. b \in 1 .. p.from + p.at - 2
        BY <4>1
      <4> HIDE DEF p
      <4> QED
        BY <4>2, <4>3
    <3>3. events[b] # None \/ b + 1 - p.from \in p.marked
      BY <1>3, <2>1, <3>2 DEF Behind
    <3> QED
      BY <1>5, <3>2, <3>3
  <2>2. CASE w # Poller
    <3>1. page'[Poller] = page[Poller] /\ PollSafe(page[Poller])
      BY <1>8, <2>2 DEF IInv, Workers
    <3>2. page[Poller].pc # "idle" =>
            \A b \in 1 .. page[Poller].from + page[Poller].at - 2 : b \in 1 .. MaxBlocks
      <4>1. Poller \in Workers
        BY DEF Workers
      <4>2. PageOK(Poller, page[Poller]) /\ ReadFinal(page[Poller])
        BY <4>1 DEF IInv, TypeOK, PageFinal
      <4> QED
        BY <1>4, <4>2, ConstantsAssumption DEF PageOK, PageType, ReadFinal
    <3>3. page[Poller].pc # "idle" =>
            \A b \in 1 .. page[Poller].from + page[Poller].at - 2 :
              events[b] # None => events'[b] # None
      BY <1>5, <3>2
    <3>4. page[Poller].pc \in {"idle", "look", "load", "commit", "save"}
      BY DEF IInv, TypeOK, PageOK, PageType, Workers
    <3> QED
      BY <3>1, <3>3, <3>4 DEF PollSafe, Behind
  <2> QED
    BY <2>1, <2>2
<1>13. PageFinal'
  <2>1. CASE w = Poller
    BY <1>1, <1>3, <1>7, <1>8, <2>1 DEF PageFinal, ReadFinal
  <2>2. CASE w # Poller
    <3>1. page'[Poller] = page[Poller]
      BY <1>8, <2>2 DEF Workers
    <3> QED
      BY <1>1, <3>1 DEF IInv, PageFinal, ReadFinal
  <2> QED
    BY <2>1, <2>2
<1> QED
  BY <1>10, <1>11, <1>12, <1>13 DEF IInv

(* The cursor is saved when everything up to the end of the page is in D1. *)
LEMMA SaveInv ==
  ASSUME IInv, Save
  PROVE  IInv'
<1> DEFINE p == page[Poller]
<1>1. /\ p.pc = "save" /\ cursor' = p.from + Len(p.log) - 1 /\ alarm' = TRUE
      /\ page' = [page EXCEPT ![Poller] = Idle]
      /\ chain' = chain /\ final' = final /\ events' = events /\ positions' = positions
      /\ wanted' = wanted /\ disturbances' = disturbances
  BY DEF Save, d1
<1>2. Poller \in Workers
  BY DEF Workers
<1>3. /\ PageOK(Poller, p) /\ ReadFinal(p) /\ PollSafe(p)
  BY <1>2 DEF IInv, TypeOK, PageFinal
<1>4. /\ p.from > 0 /\ p.from \in Nat /\ Len(p.log) \in Nat /\ p.at = Len(p.log) + 1
      /\ p.from + Len(p.log) - 1 <= final
  BY <1>1, <1>3 DEF PageOK, PageType, ReadFinal
<1>5. final \in Nat /\ cursor' \in 0 .. final
  BY <1>1, <1>4 DEF IInv, TypeOK
<1>6. /\ DOMAIN page' = Workers
      /\ page'[Poller] = Idle
      /\ \A v \in Workers \ {Poller} : page'[v] = page[v]
  BY <1>1, <1>2 DEF IInv, TypeOK
<1>7. \A v \in Workers : PageOK(v, page'[v])
  BY <1>6, IdlePage DEF IInv, TypeOK
<1>8. TypeOK'
  BY <1>1, <1>5, <1>6, <1>7 DEF IInv, TypeOK
<1>9. CursorSafe'
  <2>1. \A b \in 1 .. p.from + p.at - 2 : events[b] # None
    BY <1>1, <1>3 DEF PollSafe
  <2>2. cursor' = p.from + p.at - 2
    BY <1>1, <1>4
  <2> QED
    BY <1>1, <2>1, <2>2 DEF CursorSafe
<1>10. FinalSafe'
  BY <1>1 DEF IInv, FinalSafe
<1>11. PollSafe(page[Poller])'
  BY <1>6 DEF PollSafe, Idle
<1>12. PageFinal'
  BY <1>6 DEF PageFinal, ReadFinal, Idle
<1> QED
  BY <1>8, <1>9, <1>10, <1>11, <1>12 DEF IInv

-----------------------------------------------------------------------------
(* An empty chain and an empty D1 satisfy the inductive invariant.         *)
LEMMA InitInv == Init => IInv
<1> SUFFICES ASSUME Init PROVE IInv
  OBVIOUS
<1>1. /\ chain = <<>> /\ final = 0 /\ cursor = 0 /\ alarm = FALSE /\ wanted = FALSE
      /\ events = [b \in 1 .. MaxBlocks |-> None]
      /\ positions = [i \in Ids |-> None]
      /\ page = [w \in Workers |-> Idle]
      /\ disturbances = 0
  BY DEF Init
<1>2. \A w \in Workers : PageOK(w, page[w])
  BY <1>1, IdlePage
<1>3. chain \in Seq(Event) /\ Len(chain) = 0
  BY <1>1
<1>4. TypeOK
  <2>1. 0 <= MaxBlocks /\ 0 \in 0 .. 0 /\ 0 \in 0 .. MaxDisturbances
    BY ConstantsAssumption
  <2>2. events \in [1 .. MaxBlocks -> Event \cup {None}]
    BY <1>1
  <2>3. positions \in [Ids -> Row \cup {None}]
    BY <1>1
  <2>4. DOMAIN page = Workers
    BY <1>1
  <2> QED
    BY <1>1, <1>2, <1>3, <2>1, <2>2, <2>3, <2>4 DEF TypeOK
<1>5. FinalSafe /\ CursorSafe
  BY <1>1, <1>3, ConstantsAssumption DEF FinalSafe, CursorSafe
<1>6. PollSafe(page[Poller]) /\ PageFinal
  BY <1>1 DEF PollSafe, PageFinal, ReadFinal, Idle, Workers
<1> QED
  BY <1>4, <1>5, <1>6 DEF IInv

(* Every step of the chain, the operator, a poll or a post keeps it.       *)
LEMMA StepInv == IInv /\ [Next]_vars => IInv'
<1> SUFFICES ASSUME IInv, [Next]_vars PROVE IInv'
  OBVIOUS
<1>1. CASE \E e \in Event : Mine(e)
  BY <1>1, MineInv
<1>2. CASE Reorganise
  BY <1>2, ReorganiseInv
<1>3. CASE \E w \in Workers : Die(w)
  BY <1>3, DieInv
<1>4. CASE Start \/ Rewind \/ Stop
  BY <1>4, ControlInv
<1>5. CASE PollBegin
  BY <1>5, PollBeginInv
<1>6. CASE \E w \in Ingesters : \E b \in DOMAIN chain : IngestBegin(w, b)
  BY <1>6, IngestBeginInv
<1>7. CASE \E w \in Workers : Look(w)
  BY <1>7, LookInv
<1>8. CASE \E w \in Workers : Load(w)
  BY <1>8, LoadInv
<1>9. CASE \E w \in Workers : Commit(w)
  BY <1>9, CommitInv
<1>10. CASE Save
  BY <1>10, SaveInv
<1>11. CASE UNCHANGED vars
  BY <1>11 DEF vars, IInv, TypeOK, FinalSafe, CursorSafe, PollSafe, Behind, PageFinal,
               ReadFinal
<1> QED
  BY <1>1, <1>2, <1>3, <1>4, <1>5, <1>6, <1>7, <1>8, <1>9, <1>10, <1>11 DEF Next

(* The invariant holds however polls, posts, deaths, rewinds and           *)
(* reorganisations interleave.                                             *)
THEOREM Invariance == Spec => []IInv
<1>1. Init => IInv
  BY InitInv
<1>2. IInv /\ [Next]_vars => IInv'
  BY StepInv
<1> QED
  BY <1>1, <1>2, PTL DEF Spec

(* Types, and the shape of the pages that polls and posts work on.         *)
THEOREM TypeCorrect == Spec => []TypeOK
<1>1. IInv => TypeOK
  BY DEF IInv
<1> QED
  BY <1>1, Invariance, PTL

(* The saved cursor never passes a block that D1 does not have.            *)
THEOREM CursorIsSafe == Spec => []CursorSafe
<1>1. IInv => CursorSafe
  BY DEF IInv
<1> QED
  BY <1>1, Invariance, PTL

(* The row of block b is of the block the chain has confirmed.             *)
Stands(b) == b <= final /\ events[b] = chain[b]

(* What a step may do to the log: a row that stands keeps standing; a row  *)
(* that is there stays; and a new one stands, or a post wrote it that read *)
(* its transaction before it was final.                                    *)
LogStep ==
  \A b \in 1 .. MaxBlocks :
    /\ events[b] # None /\ Stands(b) => Stands(b)'
    /\ events'[b] # events[b] =>
         /\ events[b] = None
         /\ Stands(b)' \/ \E w \in Ingesters : Commit(w) /\ ~ReadFinal(page[w])

(* Blocks that are final stay.                                             *)
LEMMA FinalBlocks ==
  ASSUME TypeOK, [Next]_vars
  PROVE  final <= final' /\ \A b \in 1 .. final : chain'[b] = chain[b]
<1>1. chain \in Seq(Event) /\ Len(chain) \in Nat /\ final \in 0 .. Len(chain)
  BY DEF TypeOK
<1>2. ASSUME NEW e \in Event, Mine(e)
      PROVE  final <= final' /\ \A b \in 1 .. final : chain'[b] = chain[b]
  <2>1. /\ chain' = Append(chain, e)
        /\ final' = IF final + Confirmations <= Len(chain) THEN final + 1 ELSE final
    BY <1>2 DEF Mine
  <2> QED
    BY <1>1, <2>1
<1>3. ASSUME Reorganise
      PROVE  final <= final' /\ \A b \in 1 .. final : chain'[b] = chain[b]
  <2>1. PICK n \in final .. Len(chain) - 1 : chain' = SubSeq(chain, 1, n)
    BY <1>3 DEF Reorganise
  <2>2. n \in Nat /\ final <= n /\ final \in Nat
    BY <1>1, <2>1
  <2>3. \A b \in 1 .. n : chain'[b] = chain[b]
    BY <1>1, <2>1, <2>2
  <2> QED
    BY <1>3, <2>2, <2>3 DEF Reorganise
<1>4. (~\E e \in Event : Mine(e)) /\ ~Reorganise => chain' = chain /\ final' = final
  BY DEF Next, vars, Die, Start, Rewind, Stop, PollBegin, IngestBegin, Look, Load, Commit, Save
<1> QED
  BY <1>1, <1>2, <1>3, <1>4

(* Whatever browsers post and whenever, the poll writes only rows of the   *)
(* chain it has confirmed, and no row is ever replaced: a row of a         *)
(* transaction that was reorganised away can only come from a browser that *)
(* posted it before it was final.                                          *)
THEOREM WrongRowsArePosted == Spec => [][LogStep]_vars
<1>1. IInv /\ [Next]_vars => [LogStep]_vars
  <2> SUFFICES ASSUME IInv, [Next]_vars, NEW b \in 1 .. MaxBlocks
               PROVE  /\ events[b] # None /\ Stands(b) => Stands(b)'
                      /\ events'[b] # events[b] =>
                           /\ events[b] = None
                           /\ Stands(b)' \/ \E w \in Ingesters : Commit(w) /\ ~ReadFinal(page[w])
    BY DEF LogStep
  <2>1. TypeOK /\ final \in Nat /\ final' \in Nat /\ b \in Nat \ {0}
    <3>1. TypeOK /\ TypeOK'
      BY StepInv DEF IInv
    <3> QED
      BY <3>1, ConstantsAssumption DEF TypeOK
  <2>2. final <= final' /\ \A c \in 1 .. final : chain'[c] = chain[c]
    BY <2>1, FinalBlocks
  <2>3. ASSUME events'[b] # events[b]
        PROVE  \E w \in Workers : Commit(w)
    BY <2>3 DEF Next, vars, d1, Mine, Reorganise, Die, Start, Rewind, Stop, PollBegin,
                IngestBegin, Look, Load, Save
  <2>4. ASSUME NEW w \in Workers, Commit(w)
        PROVE  /\ events[b] # None => events'[b] = events[b]
               /\ events'[b] # events[b] /\ ReadFinal(page[w]) => Stands(b)'
    <3> DEFINE p == page[w]
               k == b + 1 - p.from
    <3>1. /\ p.pc = "commit" /\ events' = Inserted(p) /\ final' = final /\ chain' = chain
      BY <2>4 DEF Commit
    <3>2. /\ p \in PageType /\ p.from > 0 /\ p.from \in Nat /\ Len(p.log) \in Nat
          /\ p.marked \subseteq 1 .. Len(p.log)
      BY <2>1, <3>1 DEF TypeOK, PageOK, PageType
    <3>3. events'[b] = IF events[b] = None /\ k \in p.marked THEN p.log[k] ELSE events[b]
      BY <2>1, <3>1 DEF Inserted, TypeOK
    <3>4. ASSUME events'[b] # events[b], ReadFinal(p)
          PROVE  Stands(b)'
      <4>1. k \in 1 .. Len(p.log) /\ events'[b] = p.log[k]
        BY <3>2, <3>3, <3>4
      <4>2. p.from + Len(p.log) - 1 <= final /\ p.log[k] = chain[p.from + k - 1]
        BY <3>1, <3>4, <4>1 DEF ReadFinal
      <4> HIDE DEF p
      <4>3. p.from + k - 1 = b /\ b <= p.from + Len(p.log) - 1
        BY <2>1, <3>2, <4>1
      <4>4. b <= final
        BY <2>1, <3>2, <4>2, <4>3
      <4> QED
        BY <3>1, <4>1, <4>2, <4>3, <4>4 DEF Stands
    <3> QED
      BY <3>3, <3>4
  <2>5. ASSUME NEW w \in Workers, Commit(w), ~ReadFinal(page[w])
        PROVE  w \in Ingesters
    BY <2>5 DEF IInv, PageFinal, Workers
  <2>6. events[b] # None => events'[b] = events[b]
    BY <2>3, <2>4
  <2>7. ASSUME events[b] # None, Stands(b)
        PROVE  Stands(b)'
    <3>1. b <= final' /\ chain'[b] = chain[b]
      BY <2>1, <2>2, <2>7 DEF Stands
    <3> QED
      BY <2>6, <2>7, <3>1 DEF Stands
  <2>8. ASSUME events'[b] # events[b]
        PROVE  Stands(b)' \/ \E w \in Ingesters : Commit(w) /\ ~ReadFinal(page[w])
    <3>1. PICK w \in Workers : Commit(w)
      BY <2>3, <2>8
    <3>2. CASE ReadFinal(page[w])
      BY <2>4, <2>8, <3>1, <3>2
    <3>3. CASE ~ReadFinal(page[w])
      BY <2>5, <3>1, <3>3
    <3> QED
      BY <3>2, <3>3
  <2> QED
    BY <2>6, <2>7, <2>8
<1> QED
  BY <1>1, Invariance, PTL DEF Spec

-----------------------------------------------------------------------------
(* The events a page has dealt with: all of its batch but the one whose    *)
(* total it is still asking for.                                           *)
Taken(p) == IF p.pc = "load" THEN p.marked \ {p.at} ELSE p.marked

(* The events table if the page were written now.                          *)
After(p) ==
  [b \in DOMAIN events |->
     IF events[b] = None /\ b + 1 - p.from \in Taken(p) THEN p.log[b + 1 - p.from] ELSE events[b]]

(* What a log ev says of position i.                                       *)
Opens(ev, i) == {b \in DOMAIN ev : ev[b] # None /\ ev[b].id = i /\ ev[b].name = "opened"}

Counts(ev, i) == {b \in DOMAIN ev : ev[b] # None /\ ev[b].id = i /\ ev[b].name # "opened"}

Closes(ev, i) == {b \in DOMAIN ev : ev[b] # None /\ ev[b].id = i /\ ev[b].name = "closed"}

(* The row of position i is what the log says: there with the open, its    *)
(* total the number of the events, none of which comes without the open.   *)
Tallied(ev, row, i) ==
  /\ row # None <=> Opens(ev, i) # {}
  /\ Counts(ev, i) # {} => Opens(ev, i) # {}
  /\ row # None => row.total = Cardinality(Counts(ev, i))

(* Whether a position with a row is closed is what the log says.           *)
ClosedExact(i) == positions[i] # None => (positions[i].closed <=> Closes(events, i) # {})

(* The position does not open twice.                                       *)
Coherent(ev, i) == \A b, c \in Opens(ev, i) : b = c

(* The page has an event of position i.                                    *)
Has(p, i) == \E k \in 1 .. Len(p.log) : p.log[k].id = i

(* A page has marked only events that D1 lacks, and asks for a total only  *)
(* when it has none.                                                       *)
Fresh(p) ==
  /\ p.from + Len(p.log) - 1 <= MaxBlocks
  /\ Taken(p) \subseteq 1 .. p.at - 1
  /\ \A k \in p.marked : events[p.from + k - 1] = None
  /\ p.pc = "load" =>
       p.at \in p.marked /\ p.log[p.at].name # "opened" /\ p.totals[p.log[p.at].id] = None

(* The total of i that a page has is what D1's log will say with its batch.*)
InMemory(p, i) ==
  /\ p.totals[i] = None => \A k \in Taken(p) : p.log[k].id # i
  /\ p.totals[i] # None =>
       Opens(After(p), i) # {} /\ p.totals[i] = Cardinality(Counts(After(p), i))
  /\ i \in p.closing <=> \E k \in Taken(p) : p.log[k].id = i /\ p.log[k].name = "closed"

(* A page at work on a position has its total right; one that has no event *)
(* of it will not touch its row.                                           *)
PageTallied(p, i) ==
  p.pc \in {"look", "load", "commit"} =>
    IF Has(p, i)
      THEN Fresh(p) /\ (Coherent(After(p), i) => InMemory(p, i))
      ELSE p.totals[i] = None /\ i \notin p.closing

-----------------------------------------------------------------------------
(* There are finitely many blocks.                                         *)
LEMMA CountsFinite ==
  ASSUME NEW ev, DOMAIN ev = 1 .. MaxBlocks, NEW i
  PROVE  IsFiniteSet(Counts(ev, i))
<1>1. IsFiniteSet(1 .. MaxBlocks)
  BY FS_Interval, ConstantsAssumption
<1>2. Counts(ev, i) \subseteq 1 .. MaxBlocks
  BY DEF Counts
<1> QED
  BY <1>1, <1>2, FS_Subset

(* The batch in terms of the blocks of the page.                           *)
LEMMA AfterBatch ==
  ASSUME TypeOK, NEW p \in PageType, p.from > 0, p.at \in 1 .. Len(p.log) + 1,
         p.marked \subseteq 1 .. Len(p.log), Fresh(p)
  PROVE  /\ After(p) \in [1 .. MaxBlocks -> Event \cup {None}]
         /\ \A k \in Taken(p) :
              /\ p.from + k - 1 \in 1 .. MaxBlocks
              /\ After(p)[p.from + k - 1] = p.log[k]
              /\ p.log[k] \in Event /\ p.log[k] # None
         /\ \A b \in 1 .. MaxBlocks :
              \/ After(p)[b] = events[b]
              \/ /\ events[b] = None
                 /\ \E k \in Taken(p) : b = p.from + k - 1 /\ After(p)[b] = p.log[k]
         /\ \A b \in 1 .. MaxBlocks : events[b] # None => After(p)[b] = events[b]
<1>1. /\ DOMAIN events = 1 .. MaxBlocks /\ events \in [1 .. MaxBlocks -> Event \cup {None}]
      /\ MaxBlocks \in Nat
  BY ConstantsAssumption DEF TypeOK
<1>2. p.from \in Nat /\ p.from > 0 /\ Len(p.log) \in Nat /\ p.log \in Seq(Event)
  BY DEF PageType
<1>3. Taken(p) \subseteq p.marked /\ Taken(p) \subseteq 1 .. Len(p.log)
  BY DEF Taken
<1>4. /\ p.from + Len(p.log) - 1 <= MaxBlocks
      /\ \A k \in Taken(p) : events[p.from + k - 1] = None
  BY <1>3 DEF Fresh
<1>5. \A k \in Taken(p) : p.log[k] \in Event /\ p.log[k] # None
  BY <1>2, <1>3, NoneAssumption
<1> DEFINE A == After(p)
<1>6. DOMAIN A = 1 .. MaxBlocks
  BY <1>1 DEF After
<1>7. \A b \in 1 .. MaxBlocks :
        A[b] = IF events[b] = None /\ b + 1 - p.from \in Taken(p)
               THEN p.log[b + 1 - p.from] ELSE events[b]
  BY <1>1 DEF After
<1>8. A = [b \in 1 .. MaxBlocks |-> A[b]]
  BY <1>1 DEF After
<1> HIDE DEF A
<1>9. \A b \in 1 .. MaxBlocks : A[b] \in Event \cup {None}
  BY <1>1, <1>5, <1>7
<1>10. A \in [1 .. MaxBlocks -> Event \cup {None}]
  BY <1>8, <1>9
<1>11. ASSUME NEW k \in Taken(p)
       PROVE  p.from + k - 1 \in 1 .. MaxBlocks /\ A[p.from + k - 1] = p.log[k]
  <2>1. k \in 1 .. Len(p.log) /\ k \in Nat
    BY <1>2, <1>3
  <2>2. p.from + k - 1 \in 1 .. MaxBlocks
    BY <1>1, <1>2, <1>4, <2>1
  <2>3. (p.from + k - 1) + 1 - p.from = k
    BY <1>2, <2>1
  <2> QED
    BY <1>4, <1>7, <2>2, <2>3
<1>12. \A b \in 1 .. MaxBlocks :
         b + 1 - p.from \in Taken(p) => b = p.from + (b + 1 - p.from) - 1
  BY <1>1, <1>2
<1> QED
  BY <1>5, <1>7, <1>10, <1>11, <1>12 DEF A

(* A batch with one more event, the one at hand.                           *)
LEMMA AfterOneMore ==
  ASSUME TypeOK, NEW p \in PageType, p.from > 0, p.at \in 1 .. Len(p.log),
         p.marked \subseteq 1 .. Len(p.log), Fresh(p), events[p.from + p.at - 1] = None,
         NEW q \in PageType, q.from = p.from, q.log = p.log, q.at = p.at + 1,
         q.pc \in {"look", "commit"}, q.marked = p.marked \cup {p.at}
  PROVE  /\ Fresh(q)
         /\ Taken(q) = Taken(p) \cup {p.at}
         /\ p.at \notin Taken(p)
         /\ p.from + p.at - 1 \in 1 .. MaxBlocks
         /\ After(p)[p.from + p.at - 1] = None
         /\ After(q)[p.from + p.at - 1] = p.log[p.at]
         /\ \A c \in 1 .. MaxBlocks \ {p.from + p.at - 1} : After(q)[c] = After(p)[c]
         /\ After(q) \in [1 .. MaxBlocks -> Event \cup {None}]
<1>1. /\ p.from \in Nat /\ Len(p.log) \in Nat /\ p.at \in Nat
      /\ events \in [1 .. MaxBlocks -> Event \cup {None}] /\ MaxBlocks \in Nat
      /\ DOMAIN events = 1 .. MaxBlocks
  BY ConstantsAssumption DEF PageType, TypeOK
<1>2. Taken(p) \subseteq 1 .. p.at - 1 /\ p.from + Len(p.log) - 1 <= MaxBlocks
  BY DEF Fresh
<1>3. p.at \notin Taken(p) /\ Taken(q) = Taken(p) \cup {p.at}
  BY <1>1, <1>2 DEF Taken
<1>4. p.from + p.at - 1 \in 1 .. MaxBlocks
  BY <1>1, <1>2
<1>5. Fresh(q)
  <2>1. Taken(q) \subseteq 1 .. q.at - 1
    BY <1>1, <1>2, <1>3
  <2>2. \A k \in q.marked : events[q.from + k - 1] = None
    BY DEF Fresh
  <2> QED
    BY <1>2, <2>1, <2>2 DEF Fresh
<1>6. \A c \in 1 .. MaxBlocks : c + 1 - p.from = p.at <=> c = p.from + p.at - 1
  BY <1>1
<1>7. /\ After(p)[p.from + p.at - 1] = None
      /\ After(q)[p.from + p.at - 1] = p.log[p.at]
  BY <1>1, <1>3, <1>4, <1>6 DEF After
<1>8. \A c \in 1 .. MaxBlocks \ {p.from + p.at - 1} : After(q)[c] = After(p)[c]
  BY <1>1, <1>3, <1>6 DEF After
<1>9. After(q) \in [1 .. MaxBlocks -> Event \cup {None}]
  <2>1. q.at \in 1 .. Len(q.log) + 1 /\ q.marked \subseteq 1 .. Len(q.log) /\ q.from > 0
    BY <1>1
  <2> QED
    BY <1>5, <2>1, AfterBatch
<1> QED
  BY <1>3, <1>4, <1>5, <1>7, <1>8, <1>9

(* What a page without a total for i knows of i is what D1 knows.          *)
LEMMA NothingTaken ==
  ASSUME TypeOK, NEW p \in PageType, p.from > 0, p.at \in 1 .. Len(p.log) + 1,
         p.marked \subseteq 1 .. Len(p.log), Fresh(p),
         NEW i \in Ids, \A k \in Taken(p) : p.log[k].id # i
  PROVE  /\ Opens(After(p), i) = Opens(events, i)
         /\ Counts(After(p), i) = Counts(events, i)
         /\ Closes(After(p), i) = Closes(events, i)
<1>1. DOMAIN events = 1 .. MaxBlocks /\ DOMAIN After(p) = 1 .. MaxBlocks
  BY DEF TypeOK, After
<1>2. \A b \in 1 .. MaxBlocks :
        \/ After(p)[b] = events[b]
        \/ events[b] = None /\ After(p)[b].id # i
  BY AfterBatch
<1> QED
  BY <1>1, <1>2, AfterBatch DEF Opens, Counts, Closes

(* D1 lacks what the batch will add, and the batch takes nothing away.     *)
LEMMA AfterKeeps ==
  ASSUME TypeOK, NEW p \in PageType, p.from > 0, p.at \in 1 .. Len(p.log) + 1,
         p.marked \subseteq 1 .. Len(p.log), Fresh(p), NEW i \in Ids
  PROVE  Opens(events, i) \subseteq Opens(After(p), i)
<1>1. DOMAIN events = 1 .. MaxBlocks /\ DOMAIN After(p) = 1 .. MaxBlocks
  BY DEF TypeOK, After
<1>2. \A b \in 1 .. MaxBlocks : events[b] # None => After(p)[b] = events[b]
  BY AfterBatch
<1> QED
  BY <1>1, <1>2 DEF Opens

(* What the log says with the event at hand.                               *)
LEMMA CountsOneMore ==
  ASSUME TypeOK, NEW p \in PageType, p.from > 0, p.at \in 1 .. Len(p.log),
         p.marked \subseteq 1 .. Len(p.log), Fresh(p), events[p.from + p.at - 1] = None,
         NEW q \in PageType, q.from = p.from, q.log = p.log, q.at = p.at + 1,
         q.pc \in {"look", "commit"}, q.marked = p.marked \cup {p.at},
         NEW i \in Ids
  PROVE  /\ p.from + p.at - 1 \notin Counts(After(p), i) 
         /\ p.from + p.at - 1 \notin Opens(After(p), i)
         /\ IsFiniteSet(Counts(After(p), i))
         /\ (p.log[p.at].id = i /\ p.log[p.at].name = "opened" =>
               Opens(After(q), i) = Opens(After(p), i) \cup {p.from + p.at - 1})
         /\ (p.log[p.at].id # i \/ p.log[p.at].name # "opened" => Opens(After(q), i) = Opens(After(p), i))
         /\ (p.log[p.at].id = i /\ p.log[p.at].name # "opened" =>
               Counts(After(q), i) = Counts(After(p), i) \cup {p.from + p.at - 1})
         /\ (p.log[p.at].id # i \/ p.log[p.at].name = "opened" => Counts(After(q), i) = Counts(After(p), i))
<1> DEFINE b == p.from + p.at - 1
           A == After(p)
           B == After(q)
           e == p.log[p.at]
<1>1. /\ b \in 1 .. MaxBlocks /\ A[b] = None /\ B[b] = e
      /\ \A c \in 1 .. MaxBlocks \ {b} : B[c] = A[c]
      /\ B \in [1 .. MaxBlocks -> Event \cup {None}]
  BY AfterOneMore
<1>2. A \in [1 .. MaxBlocks -> Event \cup {None}]
  <2>1. p.at \in 1 .. Len(p.log) + 1
    BY DEF PageType
  <2> QED
    BY <2>1, AfterBatch
<1>3. e \in Event
  BY DEF PageType
<1> HIDE DEF b, A, B, e
<1>4. DOMAIN A = 1 .. MaxBlocks /\ DOMAIN B = 1 .. MaxBlocks /\ e # None
  BY <1>1, <1>2, <1>3, NoneAssumption
<1>5. IsFiniteSet(Counts(A, i))
  BY <1>4, CountsFinite
<1>6. b \notin Counts(A, i) /\ b \notin Opens(A, i)
  BY <1>1 DEF Opens, Counts
<1>7. /\ (e.id = i /\ e.name = "opened" => Opens(B, i) = Opens(A, i) \cup {b})
      /\ (e.id # i \/ e.name # "opened" => Opens(B, i) = Opens(A, i))
  BY <1>1, <1>4 DEF Opens
<1>8. /\ (e.id = i /\ e.name # "opened" => Counts(B, i) = Counts(A, i) \cup {b})
      /\ (e.id # i \/ e.name = "opened" => Counts(B, i) = Counts(A, i))
  BY <1>1, <1>4 DEF Counts
<1> QED
  BY <1>5, <1>6, <1>7, <1>8 DEF b, A, B, e

(* The event at hand joins the batch.  An open starts its position at      *)
(* nothing; anything else is added to the total in memory, or else to the  *)
(* total of D1.  Other positions do not notice.                            *)
LEMMA TakeEvent ==
  ASSUME TypeOK, NEW i \in Ids, Tallied(events, positions[i], i),
         NEW p \in PageType, p.from > 0, p.at \in 1 .. Len(p.log),
         p.marked \subseteq 1 .. Len(p.log), Fresh(p), Coherent(After(p), i) => InMemory(p, i),
         NEW e \in Event, e = p.log[p.at], events[p.from + p.at - 1] = None,
         NEW q \in PageType, q.from = p.from, q.log = p.log, q.at = p.at + 1,
         q.pc \in {"look", "commit"}, q.marked = p.marked \cup {p.at},
         NEW t \in Nat, q.totals[i] = IF e.id = i THEN t ELSE p.totals[i],
         e.id = i /\ e.name = "opened" => t = 0,
         e.id = i /\ e.name # "opened" =>
           IF p.totals[i] # None THEN t = p.totals[i] + 1
           ELSE positions[i] # None /\ t = positions[i].total + 1,
         i \in q.closing <=> i \in p.closing \/ (e.id = i /\ e.name = "closed")
  PROVE  Fresh(q) /\ (Coherent(After(q), i) => InMemory(q, i))
<1> DEFINE b0 == p.from + p.at - 1
           A == After(p)
           B == After(q)
<1>1. /\ Fresh(q) /\ Taken(q) = Taken(p) \cup {p.at} /\ p.at \notin Taken(p)
      /\ b0 \in 1 .. MaxBlocks
      /\ A[b0] = None /\ B[b0] = e /\ \A c \in 1 .. MaxBlocks \ {b0} : B[c] = A[c]
      /\ B \in [1 .. MaxBlocks -> Event \cup {None}]
  BY AfterOneMore
<1>2. p.at \in 1 .. Len(p.log) + 1
  BY DEF PageType
<1>3. (\A k \in Taken(p) : p.log[k].id # i) =>
        Opens(A, i) = Opens(events, i) /\ Counts(A, i) = Counts(events, i)
  BY <1>2, NothingTaken
<1> HIDE DEF b0, A, B
<1>4. /\ b0 \notin Counts(A, i) /\ b0 \notin Opens(A, i)
      /\ IsFiniteSet(Counts(A, i))
      /\ (e.id = i /\ e.name = "opened" => Opens(B, i) = Opens(A, i) \cup {b0})
      /\ (e.id # i \/ e.name # "opened" => Opens(B, i) = Opens(A, i))
      /\ (e.id = i /\ e.name # "opened" => Counts(B, i) = Counts(A, i) \cup {b0})
      /\ (e.id # i \/ e.name = "opened" => Counts(B, i) = Counts(A, i))
  BY CountsOneMore DEF b0, A, B
<1> SUFFICES ASSUME Coherent(B, i) PROVE InMemory(q, i)
  BY <1>1 DEF B
<1>5. Coherent(A, i)
  BY <1>4 DEF Coherent
<1>6. /\ p.totals[i] = None => \A k \in Taken(p) : p.log[k].id # i
      /\ p.totals[i] # None => Opens(A, i) # {} /\ p.totals[i] = Cardinality(Counts(A, i))
      /\ i \in p.closing <=> \E k \in Taken(p) : p.log[k].id = i /\ p.log[k].name = "closed"
  BY <1>5 DEF InMemory, A
<1>7. t # None
  BY NoneAssumption
<1> SUFFICES /\ q.totals[i] = None => \A k \in Taken(q) : q.log[k].id # i
             /\ q.totals[i] # None =>
                  Opens(B, i) # {} /\ q.totals[i] = Cardinality(Counts(B, i))
             /\ i \in q.closing <=>
                  \E k \in Taken(q) : q.log[k].id = i /\ q.log[k].name = "closed"
  BY DEF InMemory, B
<1>8. i \in q.closing <=> \E k \in Taken(q) : q.log[k].id = i /\ q.log[k].name = "closed"
  BY <1>1, <1>6
<1>9. CASE i # e.id
  BY <1>1, <1>4, <1>6, <1>8, <1>9
<1>10. CASE i = e.id /\ e.name = "opened"
  <2>1. Opens(A, i) = {}
    BY <1>4, <1>10 DEF Coherent
  <2>2. p.totals[i] = None
    BY <1>6, <2>1
  <2>3. Opens(events, i) = {} /\ Counts(A, i) = Counts(events, i)
    BY <1>3, <1>6, <2>1, <2>2
  <2>4. Counts(B, i) = {}
    BY <1>4, <1>10, <2>3 DEF Tallied
  <2> QED
    BY <1>4, <1>7, <1>8, <1>10, <2>4, FS_EmptySet
<1>11. CASE i = e.id /\ e.name # "opened"
  <2>1. /\ IsFiniteSet(Counts(A, i)) /\ b0 \notin Counts(A, i)
        /\ Counts(B, i) = Counts(A, i) \cup {b0} /\ Opens(B, i) = Opens(A, i)
    BY <1>4, <1>11
  <2>2. Cardinality(Counts(B, i)) = Cardinality(Counts(A, i)) + 1
    BY <2>1, FS_AddElement
  <2>3. CASE p.totals[i] # None
    BY <1>6, <1>7, <1>8, <1>11, <2>1, <2>2, <2>3
  <2>4. CASE p.totals[i] = None
    <3>1. /\ Opens(A, i) = Opens(events, i) /\ Counts(A, i) = Counts(events, i)
          /\ positions[i] # None /\ t = positions[i].total + 1
      BY <1>3, <1>6, <1>11, <2>4
    <3>2. Opens(events, i) # {} /\ positions[i].total = Cardinality(Counts(events, i))
      BY <3>1 DEF Tallied
    <3> QED
      BY <1>7, <1>8, <1>11, <2>1, <2>2, <3>1, <3>2
  <2> QED
    BY <2>3, <2>4
<1> QED
  BY <1>9, <1>10, <1>11

(* Two pages with the same batch tell the same.                            *)
LEMMA SameBatch ==
  ASSUME NEW i, NEW p, NEW q, q.from = p.from, q.log = p.log, Taken(q) = Taken(p),
         q.totals[i] = p.totals[i], i \in q.closing <=> i \in p.closing
  PROVE  /\ After(q) = After(p)
         /\ InMemory(p, i) => InMemory(q, i)
<1>1. After(q) = After(p)
  BY DEF After
<1> QED
  BY <1>1 DEF InMemory

(* The page at work on an event.                                           *)
LEMMA EventAtHand ==
  ASSUME TypeOK, NEW w \in Workers, page[w].pc \in {"look", "load"}
  PROVE  /\ page[w] \in PageType
         /\ page[w].at \in 1 .. Len(page[w].log) /\ page[w].at \in Nat
         /\ page[w].from > 0 /\ page[w].from \in Nat
         /\ page[w].marked \subseteq 1 .. Len(page[w].log)
         /\ page[w].log[page[w].at] \in Event
         /\ page[w].log[page[w].at].id \in Ids
         /\ page[w].totals \in [Ids -> Nat \cup {None}]
<1>1. PageOK(w, page[w])
  BY DEF TypeOK
<1>2. /\ page[w] \in PageType /\ page[w].at \in 1 .. Len(page[w].log) /\ page[w].from > 0
      /\ page[w].marked \subseteq 1 .. Len(page[w].log)
  BY <1>1 DEF PageOK
<1>3. /\ page[w].at \in Nat /\ page[w].from \in Nat /\ page[w].log \in Seq(Event)
      /\ page[w].totals \in [Ids -> Nat \cup {None}]
  BY <1>2 DEF PageType
<1>4. page[w].log[page[w].at] \in Event
  BY <1>2, <1>3
<1> QED
  BY <1>2, <1>3, <1>4 DEF Event

(* applyManagerEvent keeps the page's totals right.                        *)
LEMMA LookTallied ==
  ASSUME TypeOK, NEW i \in Ids, Tallied(events, positions[i], i),
         NEW w \in Workers, Look(w), PageTallied(page[w], i)
  PROVE  PageTallied(page'[w], i)
<1> DEFINE p == page[w]
           e == p.log[p.at]
           m == [p EXCEPT !.marked = @ \cup {p.at}]
<1>1. p.pc = "look"
  BY DEF Look
<1>2. /\ p \in PageType /\ p.at \in 1 .. Len(p.log) /\ p.from > 0 /\ p.from \in Nat
      /\ p.marked \subseteq 1 .. Len(p.log) /\ e \in Event /\ p.at \in Nat
      /\ e.id \in Ids /\ p.totals \in [Ids -> Nat \cup {None}]
      /\ Taken(p) = p.marked
  BY <1>1, EventAtHand DEF Taken
<1>3. /\ Has(p, i) => Fresh(p) /\ (Coherent(After(p), i) => InMemory(p, i))
      /\ ~Has(p, i) => p.totals[i] = None /\ i \notin p.closing /\ e.id # i
  BY <1>1, <1>2 DEF PageTallied, Has
<1>4. /\ m \in PageType
      /\ m.pc = p.pc /\ m.from = p.from /\ m.log = p.log /\ m.at = p.at
      /\ m.marked = p.marked \cup {p.at} /\ m.totals = p.totals /\ m.closing = p.closing
  BY <1>2, MarkedPage
<1>5. Has(p, i) => p.at \notin p.marked
  BY <1>2, <1>3 DEF Fresh
<1>6. DOMAIN page = Workers
  BY DEF TypeOK
<1> HIDE DEF m
<1>7. CASE Applied(p.from + p.at - 1) /\ page' = [page EXCEPT ![w] = Advanced(p)]
  <2> DEFINE q == Advanced(p)
  <2>1. /\ q.from = p.from /\ q.log = p.log /\ q.marked = p.marked /\ q.at = p.at + 1
        /\ q.totals = p.totals /\ q.closing = p.closing /\ q.pc \in {"look", "commit"}
    BY <1>2, AdvancedPage
  <2>2. page'[w] = q
    BY <1>6, <1>7
  <2> HIDE DEF q
  <2>3. Taken(q) = Taken(p)
    BY <1>2, <2>1 DEF Taken
  <2>4. Has(p, i) => Fresh(q)
    BY <1>2, <1>3, <2>1, <2>3 DEF Fresh
  <2>5. Has(q, i) <=> Has(p, i)
    BY <2>1 DEF Has
  <2> QED
    BY <1>3, <2>1, <2>2, <2>3, <2>4, <2>5, SameBatch DEF PageTallied
<1>8. ASSUME ~Applied(p.from + p.at - 1), NEW r \in PageType, NEW t \in Nat,
             r.from = m.from, r.log = m.log, r.at = m.at, r.marked = m.marked,
             r.totals = [p.totals EXCEPT ![e.id] = t],
             r.closing = IF e.name = "closed" THEN p.closing \cup {e.id} ELSE p.closing,
             e.name = "opened" => t = 0,
             e.name # "opened" => p.totals[e.id] # None /\ t = p.totals[e.id] + 1,
             page' = [page EXCEPT ![w] = Advanced(r)]
      PROVE  PageTallied(page'[w], i)
  <2> DEFINE q == Advanced(r)
  <2>1. /\ PageOK(w, q) /\ q.from = p.from /\ q.log = p.log /\ q.marked = p.marked \cup {p.at}
        /\ q.at = p.at + 1
        /\ q.totals = r.totals /\ q.closing = r.closing /\ q.pc \in {"look", "commit"}
    <3>1. r.at \in 1 .. Len(r.log) /\ r.from > 0 /\ r.marked \subseteq 1 .. Len(r.log)
      BY <1>2, <1>4, <1>8
    <3> QED
      BY <1>4, <1>8, <3>1, AdvancedPage
  <2>2. page'[w] = q
    BY <1>6, <1>8
  <2> HIDE DEF q
  <2>3. q \in PageType
    BY <2>1 DEF PageOK
  <2>4. events[p.from + p.at - 1] = None
    BY <1>8 DEF Applied
  <2>5. /\ q.totals[i] = IF e.id = i THEN t ELSE p.totals[i]
        /\ i \in q.closing <=> i \in p.closing \/ (e.id = i /\ e.name = "closed")
    BY <1>2, <1>8, <2>1
  <2>6. e.id = i /\ e.name # "opened" =>
          IF p.totals[i] # None THEN t = p.totals[i] + 1
          ELSE positions[i] # None /\ t = positions[i].total + 1
    BY <1>8
  <2>7. Has(q, i) <=> Has(p, i)
    BY <2>1 DEF Has
  <2>8. CASE Has(p, i)
    <3>1. Fresh(p) /\ (Coherent(After(p), i) => InMemory(p, i))
      BY <1>3, <2>8
    <3>2. e.id = i /\ e.name = "opened" => t = 0
      BY <1>8
    <3> HIDE DEF p, e
    <3>3. Fresh(q) /\ (Coherent(After(q), i) => InMemory(q, i))
      BY <1>2, <2>1, <2>3, <2>4, <2>5, <2>6, <3>1, <3>2, TakeEvent DEF e
    <3> QED
      BY <2>2, <2>7, <2>8, <3>3 DEF PageTallied
  <2>9. CASE ~Has(p, i)
    BY <1>3, <2>2, <2>5, <2>7, <2>9 DEF PageTallied
  <2> QED
    BY <2>8, <2>9
<1>9. CASE /\ ~Applied(p.from + p.at - 1) /\ e.name = "opened"
           /\ page' = [page EXCEPT ![w] = Advanced([m EXCEPT !.totals[e.id] = 0])]
  <2> DEFINE r == [m EXCEPT !.totals[e.id] = 0]
  <2>1. /\ r \in PageType /\ r.from = m.from /\ r.log = m.log /\ r.at = m.at
        /\ r.marked = m.marked /\ r.totals = [p.totals EXCEPT ![e.id] = 0]
        /\ r.closing = p.closing
    BY <1>2, <1>4 DEF PageType
  <2>2. page' = [page EXCEPT ![w] = Advanced(r)] /\ 0 \in Nat
    BY <1>9
  <2> HIDE DEF r
  <2> QED
    BY <1>8, <1>9, <2>1, <2>2
<1>10. CASE /\ ~Applied(p.from + p.at - 1) /\ e.name # "opened" /\ p.totals[e.id] # None
            /\ page' = [page EXCEPT ![w] = Advanced(Counted(m, e, p.totals[e.id]))]
  <2> DEFINE t == p.totals[e.id]
             r == Counted(m, e, t)
  <2>1. t \in Nat /\ t + 1 \in Nat
    <3>1. t \in Nat \cup {None} /\ t # None
      BY <1>2, <1>10
    <3> QED
      BY <3>1
  <2>2. /\ r \in PageType /\ r.from = m.from /\ r.log = m.log /\ r.at = m.at
        /\ r.marked = m.marked /\ r.totals = [m.totals EXCEPT ![e.id] = t + 1]
        /\ r.closing = IF e.name = "closed" THEN m.closing \cup {e.id} ELSE m.closing
    BY <1>2, <1>4, <2>1, CountedPage
  <2>3. page' = [page EXCEPT ![w] = Advanced(r)]
    BY <1>10
  <2> HIDE DEF r
  <2>4. /\ r.totals = [p.totals EXCEPT ![e.id] = t + 1]
        /\ r.closing = IF e.name = "closed" THEN p.closing \cup {e.id} ELSE p.closing
    BY <1>4, <2>2
  <2> DEFINE u == t + 1
  <2>5. u \in Nat /\ p.totals[e.id] # None /\ u = p.totals[e.id] + 1 /\ e.name # "opened"
        /\ ~Applied(p.from + p.at - 1)
    BY <1>10, <2>1
  <2>6. r.totals = [p.totals EXCEPT ![e.id] = u]
    BY <2>4
  <2> HIDE DEF u, t, p, e
  <2> QED
    BY <1>8, <2>2, <2>3, <2>4, <2>5, <2>6
<1>11. CASE /\ ~Applied(p.from + p.at - 1) /\ e.name # "opened" /\ p.totals[e.id] = None
            /\ page' = [page EXCEPT ![w] = [m EXCEPT !.pc = "load"]]
  <2> DEFINE q == [m EXCEPT !.pc = "load"]
  <2>1. /\ q \in PageType /\ q.pc = "load" /\ q.from = p.from /\ q.log = p.log
        /\ q.at = p.at /\ q.marked = p.marked \cup {p.at}
        /\ q.totals = p.totals /\ q.closing = p.closing
    BY <1>4 DEF PageType
  <2>2. page'[w] = q
    BY <1>6, <1>11
  <2> HIDE DEF q
  <2>3. Has(p, i) => Taken(q) = Taken(p)
    BY <1>2, <1>5, <2>1 DEF Taken
  <2>4. Has(p, i) => Fresh(q)
    BY <1>2, <1>3, <1>11, <2>1, <2>3 DEF Fresh, Applied
  <2>5. Has(q, i) <=> Has(p, i)
    BY <2>1 DEF Has
  <2> QED
    BY <1>3, <2>1, <2>2, <2>3, <2>4, <2>5, SameBatch DEF PageTallied
<1> QED
  BY <1>7, <1>9, <1>10, <1>11 DEF Look, m

(* totalsFor; a page that asks for the total of i gets one.                *)
LEMMA LoadTallied ==
  ASSUME TypeOK, NEW i \in Ids, Tallied(events, positions[i], i),
         NEW w \in Workers, Load(w), PageTallied(page[w], i),
         page[w].log[page[w].at].id = i => positions[i] # None
  PROVE  PageTallied(page'[w], i)
<1> DEFINE p == page[w]
           e == p.log[p.at]
<1>1. p.pc = "load" /\ DOMAIN page = Workers
  BY DEF Load, TypeOK
<1>2. /\ p \in PageType /\ p.at \in 1 .. Len(p.log) /\ p.from > 0 /\ p.from \in Nat
      /\ p.marked \subseteq 1 .. Len(p.log) /\ e \in Event /\ e.id \in Ids
      /\ p.totals \in [Ids -> Nat \cup {None}]
  BY <1>1, EventAtHand
<1>3. /\ Has(p, i) => Fresh(p) /\ (Coherent(After(p), i) => InMemory(p, i))
      /\ ~Has(p, i) => p.totals[i] = None /\ i \notin p.closing /\ e.id # i
  BY <1>1, <1>2 DEF PageTallied, Has
<1>4. Has(p, i) =>
        /\ p.at \in p.marked /\ e.name # "opened" /\ p.totals[e.id] = None
        /\ events[p.from + p.at - 1] = None
  BY <1>1, <1>3 DEF Fresh
<1>5. ASSUME NEW r \in PageType, NEW t \in Nat,
             r.from = p.from, r.log = p.log, r.at = p.at, r.marked = p.marked,
             r.totals[i] = IF e.id = i THEN t ELSE p.totals[i],
             e.id = i => t = positions[i].total + 1,
             i \in r.closing <=> i \in p.closing \/ (e.id = i /\ e.name = "closed"),
             page' = [page EXCEPT ![w] = Advanced(r)]
      PROVE  PageTallied(page'[w], i)
  <2> DEFINE q == Advanced(r)
  <2>1. /\ PageOK(w, q) /\ q.from = p.from /\ q.log = p.log /\ q.marked = p.marked
        /\ q.at = p.at + 1
        /\ q.totals = r.totals /\ q.closing = r.closing /\ q.pc \in {"look", "commit"}
    <3>1. r.at \in 1 .. Len(r.log) /\ r.from > 0 /\ r.marked \subseteq 1 .. Len(r.log)
      BY <1>2, <1>5
    <3> QED
      BY <1>5, <3>1, AdvancedPage
  <2>2. page'[w] = q
    BY <1>1, <1>5
  <2> HIDE DEF q
  <2>3. q \in PageType
    BY <2>1 DEF PageOK
  <2>4. /\ q.totals[i] = IF e.id = i THEN t ELSE p.totals[i]
        /\ i \in q.closing <=> i \in p.closing \/ (e.id = i /\ e.name = "closed")
    BY <1>5, <2>1
  <2>5. Has(q, i) <=> Has(p, i)
    BY <2>1 DEF Has
  <2>6. CASE Has(p, i)
    <3>1. Fresh(p) /\ (Coherent(After(p), i) => InMemory(p, i))
      BY <1>3, <2>6
    <3>2. q.marked = p.marked \cup {p.at} /\ events[p.from + p.at - 1] = None /\ e.name # "opened"
      BY <1>4, <2>1, <2>6
    <3>3. e.id = i =>
            IF p.totals[i] # None THEN t = p.totals[i] + 1
            ELSE positions[i] # None /\ t = positions[i].total + 1
      BY <1>4, <1>5, <2>6
    <3> HIDE DEF p, e
    <3>4. Fresh(q) /\ (Coherent(After(q), i) => InMemory(q, i))
      BY <1>2, <1>5, <2>1, <2>3, <2>4, <3>1, <3>2, <3>3, TakeEvent DEF e
    <3> QED
      BY <2>2, <2>5, <2>6, <3>4 DEF PageTallied
  <2>7. CASE ~Has(p, i)
    BY <1>3, <2>2, <2>4, <2>5, <2>7 DEF PageTallied
  <2> QED
    BY <2>6, <2>7
<1>6. CASE positions[e.id] = None /\ page' = [page EXCEPT ![w] = Advanced(p)]
  <2>1. e.id # i /\ 0 \in Nat
    BY <1>6
  <2> QED
    BY <1>2, <1>5, <1>6, <2>1
<1>7. CASE /\ positions[e.id] # None
           /\ page' = [page EXCEPT ![w] = Advanced(Counted(p, e, positions[e.id].total))]
  <2> DEFINE t == positions[e.id].total
             u == t + 1
             r == Counted(p, e, t)
  <2>1. t \in Nat /\ u \in Nat
    BY <1>2, <1>7 DEF TypeOK, Row
  <2>2. /\ r \in PageType /\ r.from = p.from /\ r.log = p.log /\ r.at = p.at
        /\ r.marked = p.marked /\ r.totals = [p.totals EXCEPT ![e.id] = t + 1]
        /\ r.closing = IF e.name = "closed" THEN p.closing \cup {e.id} ELSE p.closing
    <3> HIDE DEF p, e, t
    <3> QED
      BY <1>2, <2>1, CountedPage, Zenon
  <2>3. page' = [page EXCEPT ![w] = Advanced(r)] /\ (e.id = i => u = positions[i].total + 1)
    BY <1>7
  <2> HIDE DEF r
  <2>4. /\ r.totals[i] = IF e.id = i THEN u ELSE p.totals[i]
        /\ i \in r.closing <=> i \in p.closing \/ (e.id = i /\ e.name = "closed")
    BY <1>2, <2>2
  <2> HIDE DEF u, t, p, e
  <2> QED
    BY <1>5, <2>1, <2>2, <2>3, <2>4
<1> QED
  BY <1>6, <1>7 DEF Load

(* A page that was just read has nothing in memory yet.                    *)
LEMMA FetchedTallied ==
  ASSUME TypeOK, NEW w \in Workers, NEW from \in 1 .. Len(chain), NEW to \in from .. Len(chain),
         NEW i \in Ids
  PROVE  PageTallied(Fetched(from, to), i)
<1> DEFINE q == Fetched(from, to)
<1>1. /\ q.pc = "look" /\ q.from = from /\ q.at = 1 /\ Len(q.log) = to - from + 1
      /\ q.marked = {} /\ q.totals = NoTotals /\ q.closing = {}
  BY FetchedPage
<1> HIDE DEF q
<1>2. Taken(q) = {}
  BY <1>1 DEF Taken
<1>3. from + (to - from + 1) - 1 <= MaxBlocks
  BY ConstantsAssumption DEF TypeOK
<1>4. Fresh(q)
  BY <1>1, <1>2, <1>3 DEF Fresh
<1>5. InMemory(q, i) /\ q.totals[i] = None /\ i \notin q.closing
  BY <1>1, <1>2 DEF InMemory, NoTotals
<1> QED
  BY <1>4, <1>5 DEF PageTallied, q

(* The batch brings the row of i to what the log says with it.             *)
LEMMA CommitTallied ==
  ASSUME TypeOK, NEW i \in Ids, Tallied(events, positions[i], i),
         NEW w \in Workers, Commit(w), PageTallied(page[w], i), Coherent(events', i)
  PROVE  /\ Tallied(events', positions'[i], i)
         /\ ClosedExact(i) => ClosedExact(i)'
<1> DEFINE p == page[w]
           A == After(p)
           opened == \E k \in p.marked : p.log[k] = [name |-> "opened", id |-> i]
           row == IF opened THEN [total |-> 0, closed |-> FALSE] ELSE positions[i]
           new == [total |-> IF p.totals[i] = None THEN row.total ELSE p.totals[i],
                   closed |-> row.closed \/ i \in p.closing]
           Goal == /\ Tallied(A, Flushed(p, i), i)
                   /\ /\ positions[i] # None => (positions[i].closed <=> Closes(events, i) # {})
                      /\ Flushed(p, i) # None
                      => (Flushed(p, i).closed <=> Closes(A, i) # {})
<1>1. /\ p.pc = "commit" /\ events' = Inserted(p)
      /\ positions' = [j \in Ids |-> Flushed(p, j)]
  BY DEF Commit
<1>2. /\ p \in PageType /\ p.at = Len(p.log) + 1 /\ p.from > 0 /\ p.marked \subseteq 1 .. Len(p.log)
  BY <1>1 DEF TypeOK, PageOK
<1>3. Taken(p) = p.marked
  BY <1>1 DEF Taken
<1>4. events' = A
  BY <1>1, <1>3 DEF Inserted, After
<1>5. p.at \in 1 .. Len(p.log) + 1
  BY <1>2 DEF PageType
<1>6. DOMAIN events = 1 .. MaxBlocks /\ DOMAIN A = 1 .. MaxBlocks /\ Coherent(A, i)
  BY <1>4 DEF TypeOK, After
<1>7. \A b \in 1 .. MaxBlocks :
        A[b] = IF events[b] = None /\ b + 1 - p.from \in p.marked
               THEN p.log[b + 1 - p.from] ELSE events[b]
  BY <1>3, <1>6 DEF After
<1>8. Flushed(p, i) = IF row = None THEN None ELSE new
  BY DEF Flushed
<1>9. /\ positions[i] # None <=> Opens(events, i) # {}
      /\ Counts(events, i) # {} => Opens(events, i) # {}
      /\ positions[i] # None => positions[i].total = Cardinality(Counts(events, i))
  BY DEF Tallied
<1>10. positions[i] \in Row \cup {None}
  BY DEF TypeOK
<1>11. /\ row # None => new # None
       /\ new.total = IF p.totals[i] = None THEN row.total ELSE p.totals[i]
       /\ new.closed <=> row.closed \/ i \in p.closing
  <2>1. row \in Row \cup {None}
    BY <1>10 DEF Row
  <2>2. p.totals[i] \in Nat \cup {None}
    BY <1>2 DEF PageType
  <2> HIDE DEF row
  <2>3. row # None => new \in Row
    BY <2>1, <2>2 DEF Row
  <2> QED
    BY <2>3, NoneAssumption
<1>12. ASSUME Goal
       PROVE  /\ Tallied(events', positions'[i], i)
              /\ ClosedExact(i) => ClosedExact(i)'
  <2>1. positions'[i] = Flushed(p, i)
    BY <1>1
  <2>2. ClosedExact(i)' <=>
          (positions'[i] # None => (positions'[i].closed <=> Closes(A, i) # {}))
    BY <1>4 DEF ClosedExact, Closes
  <2> HIDE DEF A
  <2> QED
    BY <1>4, <1>12, <2>1, <2>2 DEF ClosedExact
<1> SUFFICES Goal
  BY <1>12
<1> HIDE DEF A
<1>13. ASSUME \A k \in p.marked : p.log[k].id # i, p.totals[i] = None, i \notin p.closing,
              Opens(A, i) = Opens(events, i), Counts(A, i) = Counts(events, i),
              Closes(A, i) = Closes(events, i)
       PROVE  Goal
  <2>1. ~opened
    BY <1>13
  <2> QED
    BY <1>8, <1>9, <1>11, <1>13, <2>1 DEF Tallied
<1>14. CASE ~Has(p, i)
  <2>1. p.totals[i] = None /\ i \notin p.closing
    BY <1>1, <1>14 DEF PageTallied
  <2>2. \A k \in p.marked : p.log[k].id # i
    BY <1>2, <1>14 DEF Has
  <2>3. \A b \in 1 .. MaxBlocks : events[b] = None => A[b] = None \/ A[b].id # i
    BY <1>7, <2>2
  <2>4. \A b \in 1 .. MaxBlocks : events[b] # None => A[b] = events[b]
    BY <1>7
  <2>5. /\ Opens(A, i) = Opens(events, i) /\ Counts(A, i) = Counts(events, i)
        /\ Closes(A, i) = Closes(events, i)
    BY <1>6, <2>3, <2>4 DEF Opens, Counts, Closes
  <2> QED
    BY <1>13, <2>1, <2>2, <2>5
<1>15. CASE Has(p, i)
  <2>1. Fresh(p) /\ InMemory(p, i)
    BY <1>1, <1>6, <1>15 DEF PageTallied, A
  <2>2. /\ A \in [1 .. MaxBlocks -> Event \cup {None}]
        /\ \A k \in p.marked :
             /\ p.from + k - 1 \in 1 .. MaxBlocks /\ A[p.from + k - 1] = p.log[k]
             /\ p.log[k] \in Event /\ p.log[k] # None
        /\ \A b \in 1 .. MaxBlocks :
             \/ A[b] = events[b]
             \/ events[b] = None /\ \E k \in p.marked : b = p.from + k - 1 /\ A[b] = p.log[k]
        /\ \A b \in 1 .. MaxBlocks : events[b] # None => A[b] = events[b]
    BY <1>2, <1>3, <1>5, <2>1, AfterBatch DEF A
  <2>3. /\ Opens(events, i) \subseteq Opens(A, i)
        /\ (\A k \in p.marked : p.log[k].id # i) =>
             /\ Opens(A, i) = Opens(events, i) /\ Counts(A, i) = Counts(events, i)
             /\ Closes(A, i) = Closes(events, i)
    BY <1>2, <1>3, <1>5, <2>1, AfterKeeps, NothingTaken DEF A
  <2>4. \A k \in p.marked : events[p.from + k - 1] = None
    BY <2>1 DEF Fresh
  <2>5. /\ p.totals[i] = None => \A k \in p.marked : p.log[k].id # i
        /\ p.totals[i] # None => Opens(A, i) # {} /\ p.totals[i] = Cardinality(Counts(A, i))
        /\ i \in p.closing <=> \E k \in p.marked : p.log[k].id = i /\ p.log[k].name = "closed"
    BY <1>3, <2>1 DEF InMemory, A
  <2>6. CASE p.totals[i] = None
    <3>1. (\A k \in p.marked : p.log[k].id # i) /\ i \notin p.closing
      BY <2>5, <2>6
    <3> QED
      BY <1>13, <2>3, <2>6, <3>1
  <2>7. CASE p.totals[i] # None /\ opened
    <3>1. PICK k \in p.marked : p.log[k] = [name |-> "opened", id |-> i]
      BY <2>7
    <3>2. p.from + k - 1 \in Opens(A, i)
      BY <1>6, <2>2, <3>1 DEF Opens
    <3>3. Opens(events, i) = {}
      <4> SUFFICES ASSUME NEW b \in Opens(events, i) PROVE FALSE
        OBVIOUS
      <4>1. b = p.from + k - 1
        BY <1>6, <2>3, <3>2 DEF Coherent
      <4>2. events[b] # None
        BY DEF Opens
      <4> QED
        BY <2>4, <3>1, <4>1, <4>2
    <3>4. Counts(events, i) = {}
      BY <1>9, <3>3
    <3>5. Closes(A, i) # {} <=> i \in p.closing
      <4>1. \A b \in 1 .. MaxBlocks : events[b] # None => events[b].id # i \/ events[b].name = "opened"
        BY <1>6, <3>4 DEF Counts
      <4>2. ASSUME NEW b \in Closes(A, i)
            PROVE  i \in p.closing
        <5>1. b \in 1 .. MaxBlocks /\ A[b] # None /\ A[b].id = i /\ A[b].name = "closed"
          BY <1>6 DEF Closes
        <5>2. \E j \in p.marked : A[b] = p.log[j]
          BY <2>2, <4>1, <5>1
        <5> QED
          BY <2>5, <5>1, <5>2
      <4>3. ASSUME i \in p.closing
            PROVE  Closes(A, i) # {}
        <5>1. PICK j \in p.marked : p.log[j].id = i /\ p.log[j].name = "closed"
          BY <2>5, <4>3
        <5>2. p.from + j - 1 \in Closes(A, i)
          BY <1>6, <2>2, <5>1 DEF Closes
        <5> QED
          BY <5>2
      <4> QED
        BY <4>2, <4>3
    <3>6. row = [total |-> 0, closed |-> FALSE]
      BY <2>7
    <3> HIDE DEF row
    <3>7. row # None /\ ~row.closed
      <4>1. row \in Row
        BY <3>6 DEF Row
      <4> QED
        BY <3>6, <4>1, NoneAssumption
    <3> USE DEF row
    <3>8. Tallied(A, Flushed(p, i), i)
      BY <1>8, <1>11, <2>5, <2>7, <3>2, <3>7 DEF Tallied
    <3> QED
      BY <1>8, <1>11, <3>5, <3>7, <3>8
  <2>8. CASE p.totals[i] # None /\ ~opened
    <3>1. row = positions[i]
      BY <2>8
    <3>2. Opens(A, i) = Opens(events, i)
      <4> SUFFICES ASSUME NEW b \in Opens(A, i) PROVE b \in Opens(events, i)
        BY <2>3
      <4>1. b \in 1 .. MaxBlocks /\ A[b] # None /\ A[b].id = i /\ A[b].name = "opened"
        BY <1>6 DEF Opens
      <4>2. CASE A[b] = events[b]
        BY <1>6, <4>1, <4>2 DEF Opens
      <4>3. CASE \E k \in p.marked : A[b] = p.log[k]
        BY <2>2, <2>8, <4>1, <4>3 DEF Event
      <4> QED
        BY <2>2, <4>1, <4>2, <4>3
    <3>3. positions[i] # None /\ Opens(A, i) # {}
      BY <1>9, <2>5, <2>8, <3>2
    <3>4. Closes(A, i) # {} <=> Closes(events, i) # {} \/ i \in p.closing
      <4>1. Closes(events, i) \subseteq Closes(A, i)
        BY <1>6, <2>2 DEF Closes
      <4>2. ASSUME NEW b \in Closes(A, i)
            PROVE  Closes(events, i) # {} \/ i \in p.closing
        <5>1. b \in 1 .. MaxBlocks /\ A[b] # None /\ A[b].id = i /\ A[b].name = "closed"
          BY <1>6 DEF Closes
        <5>2. CASE A[b] = events[b]
          BY <1>6, <5>1, <5>2 DEF Closes
        <5>3. CASE \E k \in p.marked : A[b] = p.log[k]
          BY <2>5, <5>1, <5>3
        <5> QED
          BY <2>2, <5>1, <5>2, <5>3
      <4>3. ASSUME i \in p.closing
            PROVE  Closes(A, i) # {}
        <5>1. PICK j \in p.marked : p.log[j].id = i /\ p.log[j].name = "closed"
          BY <2>5, <4>3
        <5>2. p.from + j - 1 \in Closes(A, i)
          BY <1>6, <2>2, <5>1 DEF Closes
        <5> QED
          BY <5>2
      <4> QED
        BY <4>1, <4>2, <4>3
    <3>5. Tallied(A, Flushed(p, i), i)
      BY <1>8, <1>11, <2>5, <2>8, <3>1, <3>3 DEF Tallied
    <3> QED
      BY <1>8, <1>11, <3>1, <3>3, <3>4, <3>5
  <2> QED
    BY <2>6, <2>7, <2>8
<1> QED
  BY <1>14, <1>15

-----------------------------------------------------------------------------
(* A position opens once, and nothing happens to it before.                *)
ChainShape ==
  /\ \A b, c \in DOMAIN chain : chain[b].name = "opened" /\ chain[c] = chain[b] => b = c
  /\ \A b \in DOMAIN chain : chain[b].name # "opened" =>
       \E c \in 1 .. b - 1 : chain[c] = [name |-> "opened", id |-> chain[b].id]

(* The chain keeps its shape when it grows and when it is cut.             *)
LEMMA ShapeStep ==
  ASSUME TypeOK, ChainShape, [Next]_vars
  PROVE  ChainShape'
<1>1. chain \in Seq(Event) /\ Len(chain) \in Nat /\ DOMAIN chain = 1 .. Len(chain)
  BY DEF TypeOK
<1>2. ASSUME NEW e \in Event, Mine(e)
      PROVE  ChainShape'
  <2>1. chain' = Append(chain, e) /\ (Happened("opened", e.id) <=> e.name # "opened")
    BY <1>2 DEF Mine
  <2>2. /\ DOMAIN chain' = 1 .. Len(chain) + 1
        /\ \A b \in 1 .. Len(chain) : chain'[b] = chain[b]
        /\ chain'[Len(chain) + 1] = e
    BY <1>1, <2>1
  <2>3. e.name = "opened" => \A b \in 1 .. Len(chain) : chain[b] # e
    BY <1>1, <2>1 DEF Happened, Event
  <2>4. e.name # "opened" =>
          \E c \in 1 .. Len(chain) : chain[c] = [name |-> "opened", id |-> e.id]
    BY <1>1, <2>1 DEF Happened
  <2>5. ASSUME NEW b \in DOMAIN chain', NEW c \in DOMAIN chain',
               chain'[b].name = "opened", chain'[c] = chain'[b]
        PROVE  b = c
    BY <1>1, <2>2, <2>3, <2>5 DEF ChainShape
  <2>6. ASSUME NEW b \in DOMAIN chain', chain'[b].name # "opened"
        PROVE  \E c \in 1 .. b - 1 : chain'[c] = [name |-> "opened", id |-> chain'[b].id]
    <3>1. CASE b = Len(chain) + 1
      BY <1>1, <2>2, <2>4, <2>6, <3>1
    <3>2. CASE b \in 1 .. Len(chain)
      BY <1>1, <2>2, <2>6, <3>2 DEF ChainShape
    <3> QED
      BY <1>1, <2>2, <3>1, <3>2
  <2> QED
    BY <2>5, <2>6 DEF ChainShape
<1>3. ASSUME Reorganise
      PROVE  ChainShape'
  <2>1. PICK n \in final .. Len(chain) - 1 : chain' = SubSeq(chain, 1, n)
    BY <1>3 DEF Reorganise
  <2>2. n \in Nat /\ n <= Len(chain)
    BY <1>1, <2>1 DEF TypeOK
  <2>3. DOMAIN chain' = 1 .. n /\ \A b \in 1 .. n : chain'[b] = chain[b]
    BY <1>1, <2>1, <2>2
  <2>4. ASSUME NEW b \in 1 .. n, chain[b].name # "opened"
        PROVE  \E c \in 1 .. b - 1 : chain'[c] = [name |-> "opened", id |-> chain[b].id]
    <3>1. PICK c \in 1 .. b - 1 : chain[c] = [name |-> "opened", id |-> chain[b].id]
      BY <1>1, <2>2, <2>4 DEF ChainShape
    <3> QED
      BY <2>2, <2>3, <3>1
  <2> QED
    BY <1>1, <2>2, <2>3, <2>4 DEF ChainShape
<1>4. CASE chain' = chain
  BY <1>4 DEF ChainShape
<1>5. (~\E e \in Event : Mine(e)) /\ ~Reorganise => chain' = chain
  BY DEF Next, vars, Die, Start, Rewind, Stop, PollBegin, IngestBegin, Look, Load, Commit, Save
<1> QED
  BY <1>2, <1>3, <1>4, <1>5

-----------------------------------------------------------------------------
(* What a page has tallied depends on the log of D1 only.                  *)
LEMMA SameLog ==
  ASSUME events' = events, NEW w \in Workers, NEW i \in Ids, PageTallied(page'[w], i)
  PROVE  PageTallied(page[w], i)'
<1>1. /\ After(page[w])' = After(page'[w]) /\ Taken(page[w])' = Taken(page'[w])
      /\ Has(page[w], i)' = Has(page'[w], i)
  BY DEF After, Taken, Has
<1>2. Coherent(After(page[w]), i)' <=> Coherent(After(page'[w]), i)
  BY <1>1 DEF Coherent, Opens
<1>3. Fresh(page[w])' <=> Fresh(page'[w])
  BY <1>1 DEF Fresh
<1>4. InMemory(page[w], i)' <=> InMemory(page'[w], i)
  BY <1>1 DEF InMemory, Opens, Counts
<1> QED
  BY <1>1, <1>2, <1>3, <1>4 DEF PageTallied

(* The events of i in D1 are the chain's.                                  *)
Chained(i) ==
  \A b \in DOMAIN events :
    events[b] # None /\ events[b].id = i => b <= Len(chain) /\ events[b] = chain[b]

(* Since the chain opens a position once, so do they.                      *)
LEMMA ChainedCoherent ==
  ASSUME TypeOK', ChainShape', NEW i \in Ids, Chained(i)'
  PROVE  Coherent(events', i)
<1>1. /\ DOMAIN events' = 1 .. MaxBlocks /\ Len(chain') \in Nat
      /\ DOMAIN chain' = 1 .. Len(chain')
      /\ \A b \in DOMAIN chain' : chain'[b] \in Event
  BY DEF TypeOK
<1> SUFFICES ASSUME NEW b \in Opens(events', i), NEW c \in Opens(events', i)
             PROVE  b = c
  BY DEF Coherent
<1>2. /\ b \in DOMAIN chain' /\ chain'[b].id = i /\ chain'[b].name = "opened"
      /\ c \in DOMAIN chain' /\ chain'[c].id = i /\ chain'[c].name = "opened"
  BY <1>1 DEF Opens, Chained
<1>3. chain'[b] = chain'[c]
  BY <1>1, <1>2 DEF Event
<1> QED
  BY <1>2, <1>3 DEF ChainShape

(* Nothing disturbs the total of i: no page works beside one that has an   *)
(* event of i, none asks for the total of i before D1 has the open, and no *)
(* event of i that is recorded has been reorganised away.                  *)
Working == {w \in Workers : page[w].pc \in {"look", "load", "commit"}}

Undisturbed(i) ==
  /\ \A v, w \in Working : Has(page[v], i) => v = w
  /\ \A w \in Working :
       page[w].pc = "load" /\ page[w].log[page[w].at].id = i => positions[i] # None
  /\ Chained(i)

(* What D1 and every page hold of position i is what the log says.         *)
RowOK(i) ==
  /\ Tallied(events, positions[i], i)
  /\ \A w \in Workers : PageTallied(page[w], i)

(* Whatever happens to other positions, the row stays what the log says.   *)
LEMMA TalliedStep ==
  ASSUME TypeOK, TypeOK', ChainShape', NEW i \in Ids, RowOK(i),
         Undisturbed(i), Undisturbed(i)', [Next]_vars
  PROVE  RowOK(i)' /\ (ClosedExact(i) => ClosedExact(i)')
<1>1. DOMAIN page = Workers /\ Poller \in Workers /\ Ingesters \subseteq Workers
  BY DEF TypeOK, Workers
<1>2. ASSUME events' = events, positions' = positions,
             NEW w \in Workers, NEW q, page' = [page EXCEPT ![w] = q], PageTallied(q, i)
      PROVE  RowOK(i)' /\ (ClosedExact(i) => ClosedExact(i)')
  <2>1. \A v \in Workers : PageTallied(page'[v], i)
    BY <1>1, <1>2 DEF RowOK
  <2>2. \A v \in Workers : PageTallied(page[v], i)'
    BY <1>2, <2>1, SameLog
  <2> QED
    BY <1>2, <2>2 DEF RowOK, Tallied, Opens, Counts, ClosedExact, Closes
<1>3. ASSUME d1' = d1, page' = page
      PROVE  RowOK(i)' /\ (ClosedExact(i) => ClosedExact(i)')
  <2>1. events' = events /\ positions' = positions
    BY <1>3 DEF d1
  <2>2. \A v \in Workers : PageTallied(page'[v], i)
    BY <1>3 DEF RowOK
  <2>3. \A v \in Workers : PageTallied(page[v], i)'
    BY <2>1, <2>2, SameLog
  <2> QED
    BY <2>1, <2>3 DEF RowOK, Tallied, Opens, Counts, ClosedExact, Closes
<1>4. PageTallied(Idle, i)
  BY DEF PageTallied, Idle
<1>5. CASE \E e \in Event : Mine(e)
  BY <1>3, <1>5 DEF Mine
<1>6. CASE Reorganise \/ Start \/ Rewind \/ Stop
  BY <1>3, <1>6 DEF Reorganise, Start, Rewind, Stop
<1>7. CASE \E w \in Workers : Die(w)
  BY <1>2, <1>4, <1>7 DEF Die, d1
<1>8. CASE PollBegin
  <2> DEFINE from == cursor + 1
             to == IF ConfirmedHead - from > MaxRange THEN from + MaxRange ELSE ConfirmedHead
  <2>1. /\ Len(chain) \in Nat /\ cursor \in 0 .. final /\ final \in 0 .. Len(chain)
    BY DEF TypeOK
  <2>2. from \in 1 .. Len(chain) /\ to \in from .. Len(chain)
    BY <1>8, <2>1, ConstantsAssumption DEF PollBegin, ConfirmedHead
  <2>3. /\ page' = [page EXCEPT ![Poller] = Fetched(from, to)]
        /\ events' = events /\ positions' = positions
    BY <1>8 DEF PollBegin, d1
  <2> HIDE DEF from, to
  <2>4. PageTallied(Fetched(from, to), i)
    BY <1>1, <2>2, FetchedTallied
  <2> QED
    BY <1>1, <1>2, <2>3, <2>4
<1>9. CASE \E w \in Ingesters : \E b \in DOMAIN chain : IngestBegin(w, b)
  <2>1. PICK w \in Ingesters, b \in DOMAIN chain : IngestBegin(w, b)
    BY <1>9
  <2>2. DOMAIN chain = 1 .. Len(chain) /\ Len(chain) \in Nat
    BY DEF TypeOK
  <2>3. b \in 1 .. Len(chain) /\ b \in b .. Len(chain)
    BY <2>1, <2>2
  <2>4. PageTallied(Fetched(b, b), i)
    BY <1>1, <2>3, FetchedTallied
  <2>5. /\ page' = [page EXCEPT ![w] = Fetched(b, b)]
        /\ events' = events /\ positions' = positions
    BY <2>1 DEF IngestBegin, d1
  <2> QED
    BY <1>1, <1>2, <2>4, <2>5
<1>10. ASSUME NEW w \in Workers, Look(w) \/ Load(w)
       PROVE  /\ events' = events /\ positions' = positions
              /\ page' = [page EXCEPT ![w] = page'[w]]
  BY <1>1, <1>10 DEF Look, Load, d1
<1>11. CASE \E w \in Workers : Look(w)
  <2>1. PICK w \in Workers : Look(w)
    BY <1>11
  <2>2. PageTallied(page'[w], i)
    BY <2>1, LookTallied DEF RowOK
  <2> QED
    BY <1>2, <1>10, <2>1, <2>2
<1>12. CASE \E w \in Workers : Load(w)
  <2>1. PICK w \in Workers : Load(w)
    BY <1>12
  <2>2. page[w].log[page[w].at].id = i => positions[i] # None
    BY <2>1 DEF Load, Undisturbed, Working
  <2>3. PageTallied(page'[w], i)
    BY <2>1, <2>2, LoadTallied DEF RowOK
  <2> QED
    BY <1>2, <1>10, <2>1, <2>3
<1>13. CASE \E w \in Workers : Commit(w)
  <2>1. PICK w \in Workers : Commit(w)
    BY <1>13
  <2>2. Coherent(events', i)
    BY ChainedCoherent DEF Undisturbed
  <2>3. Tallied(events', positions'[i], i) /\ (ClosedExact(i) => ClosedExact(i)')
    BY <2>1, <2>2, CommitTallied DEF RowOK
  <2>4. /\ page[w].pc = "commit" /\ w \in Working
        /\ page' = [page EXCEPT ![w] = IF w = Poller THEN [@ EXCEPT !.pc = "save"] ELSE Idle]
    BY <2>1 DEF Commit, Working
  <2>5. page'[w].pc \in {"save", "idle"}
    <3>1. page[w] \in PageType
      BY DEF TypeOK, PageOK
    <3>2. [page[w] EXCEPT !.pc = "save"].pc = "save"
      BY <3>1 DEF PageType
    <3> QED
      BY <1>1, <2>4, <3>2 DEF Idle
  <2>6. ASSUME NEW v \in Workers \ {w}, page'[v].pc \in {"look", "load", "commit"}
        PROVE  ~Has(page'[v], i) /\ page'[v].totals[i] = None /\ i \notin page'[v].closing
    <3>1. page'[v] = page[v] /\ v \in Working
      BY <1>1, <2>4, <2>6 DEF Working
    <3>2. ~Has(page[v], i)
      BY <2>4, <3>1 DEF Undisturbed
    <3> QED
      BY <2>6, <3>1, <3>2 DEF RowOK, PageTallied
  <2>7. \A v \in Workers : PageTallied(page[v], i)'
    BY <2>5, <2>6 DEF PageTallied, Has
  <2>8. Tallied(events, positions[i], i)'
    BY <2>3 DEF Tallied, Opens, Counts
  <2> QED
    BY <2>3, <2>7, <2>8 DEF RowOK
<1>14. CASE Save
  BY <1>1, <1>2, <1>4, <1>14 DEF Save, d1
<1>15. CASE UNCHANGED vars
  <2>1. d1' = d1 /\ page' = page
    BY <1>15 DEF vars, d1
  <2> QED
    BY <1>3, <2>1
<1> QED
  BY <1>5, <1>6, <1>7, <1>8, <1>9, <1>11, <1>12, <1>13, <1>14, <1>15 DEF Next

-----------------------------------------------------------------------------
(* Recorded is what a log says of a position.                              *)
LEMMA RecordedLog ==
  ASSUME TypeOK, NEW i \in Ids
  PROVE  /\ Recorded("opened", i) = Opens(events, i)
         /\ Recorded("closed", i) = Closes(events, i)
         /\ Recorded("changed", i) \cup Recorded("closed", i) = Counts(events, i)
<1>1. \A b \in DOMAIN events : events[b] \in Event \cup {None}
  BY DEF TypeOK
<1>2. \A n \in {"opened", "changed", "closed"} : [name |-> n, id |-> i] \in Event
  BY DEF Event
<1>3. \A b \in DOMAIN events, n \in {"opened", "changed", "closed"} :
        events[b] = [name |-> n, id |-> i] <=>
          events[b] # None /\ events[b].id = i /\ events[b].name = n
  BY <1>1, <1>2, NoneAssumption DEF Event
<1>4. \A b \in DOMAIN events : events[b] # None /\ events[b].name # "opened" =>
        events[b].name = "changed" \/ events[b].name = "closed"
  BY <1>1 DEF Event
<1> QED
  BY <1>3, <1>4 DEF Recorded, Opens, Closes, Counts

(* An empty D1 says what an empty log says.                                *)
LEMMA RowInit ==
  ASSUME Init, NEW i \in Ids
  PROVE  ChainShape /\ RowOK(i) /\ ClosedExact(i)
<1>1. /\ chain = <<>> /\ events = [b \in 1 .. MaxBlocks |-> None]
      /\ positions = [j \in Ids |-> None] /\ page = [w \in Workers |-> Idle]
  BY DEF Init
<1>2. ChainShape
  BY <1>1 DEF ChainShape
<1>3. Tallied(events, positions[i], i) /\ ClosedExact(i)
  BY <1>1 DEF Tallied, ClosedExact, Opens, Counts
<1>4. \A w \in Workers : PageTallied(page[w], i)
  BY <1>1 DEF PageTallied, Idle
<1> QED
  BY <1>2, <1>3, <1>4 DEF RowOK

(* What the row and the log say is the same.                               *)
LEMMA RowExact ==
  ASSUME TypeOK, NEW i \in Ids, RowOK(i), ClosedExact(i)
  PROVE  TotalExact(i)
<1>1. Tallied(events, positions[i], i)
  BY DEF RowOK
<1>2. positions[i] # None => (positions[i].closed <=> Closes(events, i) # {})
  BY DEF ClosedExact
<1>3. positions[i] \in Row \cup {None}
  BY DEF TypeOK
<1>4. /\ Recorded("opened", i) = Opens(events, i)
      /\ Recorded("closed", i) = Closes(events, i)
      /\ Recorded("changed", i) \cup Recorded("closed", i) = Counts(events, i)
  BY RecordedLog
<1>5. CASE positions[i] = None
  BY <1>1, <1>4, <1>5 DEF Tallied, TotalExact
<1>6. CASE positions[i] # None
  <2>1. /\ positions[i] = [total |-> positions[i].total, closed |-> positions[i].closed]
        /\ positions[i].closed \in BOOLEAN
    BY <1>3, <1>6 DEF Row
  <2>2. positions[i].total = Cardinality(Counts(events, i)) /\ Opens(events, i) # {}
    BY <1>1, <1>6 DEF Tallied
  <2>3. positions[i].closed = (Closes(events, i) # {})
    BY <1>2, <1>6, <2>1
  <2> QED
    BY <1>4, <2>1, <2>2, <2>3 DEF TotalExact
<1> QED
  BY <1>5, <1>6

(* Whatever browsers post and whenever - at the receipt, before it is      *)
(* confirmed, beside polls and other posts: the row of a position is what  *)
(* its events say for as long as none of the three things that Undisturbed *)
(* rules out happens to that very position.  What is posted, polled, lost  *)
(* or reorganised of the others does not matter.                           *)
THEOREM TotalsAreExact ==
  ASSUME NEW i \in Ids
  PROVE  Spec => ([]Undisturbed(i) => []TotalExact(i))
<1> DEFINE J == IInv /\ ChainShape /\ RowOK(i) /\ ClosedExact(i)
<1>1. Init => J
  BY InitInv, RowInit
<1>2. J /\ Undisturbed(i) /\ Undisturbed(i)' /\ [Next]_vars => J'
  <2> SUFFICES ASSUME J, Undisturbed(i), Undisturbed(i)', [Next]_vars PROVE J'
    OBVIOUS
  <2>1. IInv' /\ TypeOK /\ TypeOK' /\ ChainShape'
    BY StepInv, ShapeStep DEF IInv
  <2> QED
    BY <2>1, TalliedStep
<1>3. J => TotalExact(i)
  BY RowExact DEF IInv
<1> QED
  BY <1>1, <1>2, <1>3, PTL DEF Spec

-----------------------------------------------------------------------------
(* The repair of the totals.  What the script has in memory is what the    *)
(* events said when it read them, and still say if nobody wrote since.     *)
RepairType ==
  [pc : {"read", "write"}, want : [Ids -> Nat \cup {None}], drift : SUBSET Ids, alone : BOOLEAN]

Drift ==
  {i \in Ids : positions[i] # None /\ repair.want[i] # None
                 /\ positions[i].total # repair.want[i]}

RepairOK ==
  repair # None =>
    /\ repair \in RepairType
    /\ \A i \in repair.drift : repair.want[i] # None
    /\ repair.alone => \A i \in Ids : repair.want[i] = Want(i)
    /\ repair.alone /\ repair.pc = "write" => repair.drift = Drift

(* Since the repair it has been calm, and the rows are what the log says.  *)
RepairedOK ==
  repaired => Calm /\ \A i \in Ids : RowOK(i)

RInv == IInv /\ ChainShape /\ RepairOK /\ RepairedOK

(* The rows alone do not matter to what the indexer keeps.                 *)
LEMMA RowsInv ==
  ASSUME IInv, UNCHANGED <<chain, final, cursor, alarm, wanted, events, page>>,
         positions' \in [Ids -> Row \cup {None}], disturbances' \in 0 .. MaxDisturbances
  PROVE  IInv'
<1>1. TypeOK' /\ FinalSafe' /\ CursorSafe'
  BY DEF IInv, TypeOK, FinalSafe, CursorSafe
<1>2. PollSafe(page[Poller])'
  BY DEF IInv, PollSafe, Behind
<1>3. PageFinal'
  BY DEF IInv, PageFinal, ReadFinal
<1> QED
  BY <1>1, <1>2, <1>3 DEF IInv

(* A step that leaves D1 and the pages alone.                              *)
LEMMA SameRows ==
  ASSUME events' = events, positions' = positions, page' = page, NEW i \in Ids, RowOK(i)
  PROVE  RowOK(i)'
<1>1. \A w \in Workers : PageTallied(page'[w], i) => PageTallied(page[w], i)'
  BY SameLog
<1> QED
  BY <1>1 DEF RowOK, Tallied, Opens, Counts

(* The repair wants what the log says, of a position the log knows.        *)
LEMMA WantType ==
  ASSUME TypeOK, NEW i \in Ids
  PROVE  /\ Want(i) \in Nat \cup {None}
         /\ Counts(events, i) # {} \/ Opens(events, i) # {} =>
              Want(i) = Cardinality(Counts(events, i))
<1>1. Recorded("changed", i) \cup Recorded("closed", i) = Counts(events, i)
  BY RecordedLog
<1>2. IsFiniteSet(Counts(events, i))
  BY CountsFinite DEF TypeOK
<1>3. Cardinality(Counts(events, i)) \in Nat
  BY <1>2, FS_CardinalityType
<1> QED
  BY <1>1, <1>3 DEF Want, Counts, Opens

(* Reading the events.                                                     *)
LEMMA ReadEventsInv ==
  ASSUME RInv, ReadEvents
  PROVE  RInv'
<1>1. /\ chain' = chain /\ final' = final /\ cursor' = cursor /\ alarm' = alarm
      /\ wanted' = wanted /\ events' = events /\ positions' = positions /\ page' = page
      /\ repaired' = repaired
      /\ repair' = [pc |-> "read", want |-> [i \in Ids |-> Want(i)], drift |-> {}, alone |-> TRUE]
  BY DEF ReadEvents, storage, d1
<1>2. disturbances' \in 0 .. MaxDisturbances /\ TypeOK
  BY ConstantsAssumption DEF ReadEvents, Disturbed, RInv, IInv, TypeOK
<1>3. IInv'
  BY <1>1, <1>2, RowsInv DEF RInv, TypeOK
<1>4. ChainShape'
  BY <1>1 DEF RInv, ChainShape
<1>5. [i \in Ids |-> Want(i)] \in [Ids -> Nat \cup {None}]
  BY <1>2, WantType
<1>6. \A i \in Ids : Want(i)' = Want(i)
  BY <1>1 DEF Want, Recorded
<1>7. RepairOK'
  BY <1>1, <1>5, <1>6 DEF RepairOK, RepairType
<1>8. RepairedOK'
  BY <1>1, SameRows DEF RInv, RepairedOK, Calm, AtWork, Recorded, EventsReal
<1> QED
  BY <1>3, <1>4, <1>7, <1>8 DEF RInv

(* The rows that drifted are compared in one step with what is wanted.     *)
LEMMA DiffInv ==
  ASSUME RInv, Diff
  PROVE  RInv'
<1>1. /\ chain' = chain /\ final' = final /\ cursor' = cursor /\ alarm' = alarm
      /\ wanted' = wanted /\ events' = events /\ positions' = positions /\ page' = page
      /\ disturbances' = disturbances /\ repaired' = repaired
  BY DEF Diff, vars
<1>2. IInv'
  BY <1>1, RowsInv DEF RInv, IInv, TypeOK
<1>3. ChainShape'
  BY <1>1 DEF RInv, ChainShape
<1>4. RepairOK'
  <2>1. CASE repair' = None
    BY <2>1 DEF RepairOK
  <2>2. CASE repair' = [repair EXCEPT !.pc = "write", !.drift = Drift]
    <3>1. repair \in RepairType /\ (repair.alone => \A i \in Ids : repair.want[i] = Want(i))
      BY DEF Diff, RInv, RepairOK
    <3>2. Drift \in SUBSET Ids /\ \A i \in Drift : repair.want[i] # None
      BY DEF Drift
    <3> DEFINE d == Drift
    <3> HIDE DEF d
    <3>3. repair' = [repair EXCEPT !.pc = "write", !.drift = d]
      BY <2>2 DEF d
    <3>4. /\ repair' \in RepairType /\ repair'.want = repair.want
          /\ repair'.alone = repair.alone /\ repair'.drift = d
      BY <3>1, <3>2, <3>3 DEF RepairType, d
    <3>5. Drift' = d
      BY <1>1, <3>4 DEF Drift, d
    <3>6. \A i \in Ids : Want(i)' = Want(i)
      BY <1>1 DEF Want, Recorded
    <3> QED
      BY <3>1, <3>2, <3>4, <3>5, <3>6 DEF RepairOK, d
  <2> QED
    BY <2>1, <2>2 DEF Diff, Drift
<1>5. RepairedOK'
  BY <1>1, SameRows DEF RInv, RepairedOK, Calm, AtWork, Recorded, EventsReal
<1> QED
  BY <1>2, <1>3, <1>4, <1>5 DEF RInv

(* Writing: if nobody wrote since the events were read, every row is right *)
(* afterwards, those that drifted and those that had not.                  *)
LEMMA WriteTotalsInv ==
  ASSUME RInv, WriteTotals
  PROVE  RInv'
<1>1. /\ chain' = chain /\ final' = final /\ cursor' = cursor /\ alarm' = alarm
      /\ wanted' = wanted /\ events' = events /\ page' = page
      /\ disturbances' = disturbances /\ repair' = None
      /\ repaired' = (repair.alone /\ AtWork = {} /\ Calm)
      /\ repair # None /\ repair.pc = "write"
  BY DEF WriteTotals, storage
<1>2. TypeOK /\ repair \in RepairType /\ \A i \in repair.drift : repair.want[i] # None
  BY <1>1 DEF RInv, IInv, RepairOK
<1> DEFINE New(i) == IF i \in repair.drift /\ positions[i] # None
                     THEN [positions[i] EXCEPT !.total = repair.want[i]] ELSE positions[i]
<1>3. positions' = [i \in Ids |-> New(i)]
  BY DEF WriteTotals
<1>4. ASSUME NEW i \in Ids
      PROVE  /\ New(i) \in Row \cup {None}
             /\ New(i) # None <=> positions[i] # None
             /\ New(i) # None =>
                  New(i).total = IF i \in repair.drift THEN repair.want[i] ELSE positions[i].total
  <2>1. positions[i] \in Row \cup {None} /\ repair.want[i] \in Nat \cup {None}
    BY <1>2 DEF TypeOK, RepairType
  <2>2. CASE i \in repair.drift /\ positions[i] # None
    <3>1. repair.want[i] \in Nat /\ positions[i] \in Row
      BY <1>2, <2>1, <2>2
    <3>2. /\ [positions[i] EXCEPT !.total = repair.want[i]] \in Row
          /\ [positions[i] EXCEPT !.total = repair.want[i]].total = repair.want[i]
      BY <3>1 DEF Row
    <3> QED
      BY <2>2, <3>2, NoneAssumption
  <2>3. CASE ~(i \in repair.drift /\ positions[i] # None)
    BY <2>1, <2>3
  <2> QED
    BY <2>2, <2>3
<1> HIDE DEF New
<1>5. IInv'
  <2>1. positions' \in [Ids -> Row \cup {None}]
    BY <1>3, <1>4
  <2> QED
    BY <1>1, <1>2, <2>1, RowsInv DEF RInv, TypeOK
<1>6. ChainShape' /\ RepairOK'
  BY <1>1 DEF RInv, ChainShape, RepairOK
<1>7. RepairedOK'
  <2> SUFFICES ASSUME repair.alone, AtWork = {}, Calm
               PROVE  Calm' /\ \A i \in Ids : RowOK(i)'
    BY <1>1 DEF RepairedOK
  <2>1. \A i \in Ids : positions'[i] # None <=> positions[i] # None
    BY <1>3, <1>4
  <2>2. \A b \in DOMAIN events : events[b] # None => events[b].id \in Ids
    BY <1>2 DEF TypeOK, Event
  <2>3. Calm'
    BY <1>1, <2>1, <2>2 DEF Calm, AtWork, Recorded, EventsReal
  <2>4. \A i \in Ids : \A w \in Workers : PageTallied(page[w], i)'
    BY <1>1 DEF AtWork, PageTallied
  <2>5. ASSUME NEW i \in Ids
        PROVE  Tallied(events, positions'[i], i)
    <3>1. positions[i] # None <=> Opens(events, i) # {}
      BY <1>2, RecordedLog DEF Calm
    <3>2. Counts(events, i) # {} => Opens(events, i) # {}
      BY <3>1 DEF Calm, Counts
    <3>3. positions[i] # None => Want(i) = Cardinality(Counts(events, i)) /\ Want(i) # None
      <4>1. Cardinality(Counts(events, i)) \in Nat
        BY <1>2, CountsFinite, FS_CardinalityType DEF TypeOK
      <4> QED
        BY <1>2, <3>1, <4>1, WantType, NoneAssumption
    <3>4. repair.want[i] = Want(i) /\ repair.drift = Drift
      BY <1>1 DEF RInv, RepairOK
    <3>5. positions'[i] # None => positions'[i].total = Cardinality(Counts(events, i))
      BY <1>3, <1>4, <3>3, <3>4 DEF Drift
    <3> QED
      BY <1>3, <1>4, <3>1, <3>2, <3>5 DEF Tallied
  <2>6. \A i \in Ids : RowOK(i)'
    BY <1>1, <2>4, <2>5 DEF RowOK, Tallied, Opens, Counts
  <2> QED
    BY <2>3, <2>6
<1> QED
  BY <1>5, <1>6, <1>7 DEF RInv

(* The indexer meanwhile and afterwards.                                   *)
LEMMA BesideInv ==
  ASSUME RInv, Beside
  PROVE  RInv'
<1>1. /\ [Next]_vars
      /\ repair' = IF repair = None \/ d1' = d1 THEN repair ELSE [repair EXCEPT !.alone = FALSE]
      /\ repaired' = (repaired /\ Calm')
  BY DEF Beside
<1>2. IInv' /\ ChainShape' /\ TypeOK
  BY <1>1, StepInv, ShapeStep DEF RInv, IInv
<1>3. RepairOK'
  <2>1. CASE repair = None
    BY <1>1, <2>1 DEF RepairOK
  <2>2. CASE repair # None /\ d1' = d1
    <3>1. repair' = repair /\ events' = events /\ positions' = positions
      BY <1>1, <2>2 DEF d1
    <3>2. Drift' = Drift /\ \A i \in Ids : Want(i)' = Want(i)
      BY <3>1 DEF Drift, Want, Recorded
    <3> QED
      BY <3>1, <3>2 DEF RInv, RepairOK
  <2>3. CASE repair # None /\ d1' # d1
    <3>1. repair' = [repair EXCEPT !.alone = FALSE] /\ repair \in RepairType
      BY <1>1, <2>3 DEF RInv, RepairOK
    <3>2. /\ repair' \in RepairType /\ ~repair'.alone
          /\ repair'.want = repair.want /\ repair'.drift = repair.drift
      BY <3>1 DEF RepairType
    <3> QED
      BY <2>3, <3>2 DEF RInv, RepairOK
  <2> QED
    BY <2>1, <2>2, <2>3
<1>4. RepairedOK'
  <2> SUFFICES ASSUME repaired, Calm', NEW i \in Ids
               PROVE  RowOK(i)'
    BY <1>1 DEF RepairedOK
  <2>1. Calm /\ RowOK(i)
    BY DEF RInv, RepairedOK
  <2>2. Undisturbed(i)
    BY <2>1 DEF Calm, AtWork, Undisturbed, Working, Chained, EventsReal
  <2>3. Undisturbed(i)'
    BY DEF Calm, AtWork, Undisturbed, Working, Chained, EventsReal
  <2>4. TypeOK'
    BY <1>2 DEF IInv
  <2> QED
    BY <1>1, <1>2, <2>1, <2>2, <2>3, <2>4, TalliedStep
<1> QED
  BY <1>2, <1>3, <1>4 DEF RInv

(* A repair that the indexer leaves alone puts every total right, and they *)
(* stay right for as long as it is calm.                                   *)
THEOREM RepairIsExact == RepairSpec => []RepairExact
<1>1. RepairInit => RInv
  <2>1. Init => ChainShape
    BY DEF Init, ChainShape
  <2> QED
    BY <2>1, InitInv DEF RepairInit, RInv, RepairOK, RepairedOK
<1>2. RInv /\ [RepairNext]_<<vars, repairVars>> => RInv'
  <2> SUFFICES ASSUME RInv, [RepairNext]_<<vars, repairVars>> PROVE RInv'
    OBVIOUS
  <2>1. CASE Beside
    BY <2>1, BesideInv
  <2>2. CASE ReadEvents
    BY <2>2, ReadEventsInv
  <2>3. CASE Diff
    BY <2>3, DiffInv
  <2>4. CASE WriteTotals
    BY <2>4, WriteTotalsInv
  <2>5. CASE UNCHANGED <<vars, repairVars>>
    <3>1. /\ [Next]_vars /\ repair' = repair /\ repaired' = repaired
          /\ events' = events /\ positions' = positions /\ page' = page /\ chain' = chain
      BY <2>5 DEF vars, repairVars
    <3>2. IInv' /\ ChainShape'
      BY <3>1, StepInv, ShapeStep DEF RInv, IInv
    <3>3. RepairOK'
      BY <3>1 DEF RInv, RepairOK, Drift, Want, Recorded
    <3>4. RepairedOK'
      <4>1. Calm => Calm'
        BY <3>1 DEF Calm, AtWork, Recorded, EventsReal
      <4> QED
        BY <3>1, <4>1, SameRows DEF RInv, RepairedOK
    <3> QED
      BY <3>2, <3>3, <3>4 DEF RInv
  <2> QED
    BY <2>1, <2>2, <2>3, <2>4, <2>5 DEF RepairNext
<1>3. RInv => RepairExact
  BY RecordedLog DEF RInv, IInv, RepairedOK, RepairExact, RowOK, Tallied
<1> QED
  BY <1>1, <1>2, <1>3, PTL DEF RepairSpec
=============================================================================
