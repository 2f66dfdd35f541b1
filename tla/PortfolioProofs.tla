--------------------------- MODULE PortfolioProofs ---------------------------
(***************************************************************************)
(* The properties of Portfolio.tla for every owner, every deposit, fee,    *)
(* rate and width of a bucket.                                             *)
(*                                                                         *)
(* The argument is a balance.  At par, what a position holds, its fees and *)
(* all that its events paid out add up to what it earned (Conserved).  A   *)
(* mark freezes that sum as of some prefix of the log (MarksTrue), that of *)
(* an opening as of the opening (Opens), and so does the row a request has *)
(* read (Asked); the two agree when they have seen equally many events,    *)
(* because prefixes of one log with equally many events of a position have *)
(* the same ones.  That no pass shares its time with a verb (TimesApart)   *)
(* keeps the marks of a pass from being replaced, and what a whole pass    *)
(* leaves unmarked is closed or was marked at its opening (PassesComplete).*)
(***************************************************************************)
EXTENDS Portfolio, Sums, SequenceTheorems

(* The events of a position among the first n.                             *)
UpTo(p, n) == {k \in 1 .. n : log[k].position = p}

(* What events paid out, fees included, and what was kept of the fees.     *)
PaidOut(S) == Total([k \in S |-> log[k].delta])

FeesOf(S) == Total([k \in S |-> log[k].fees])

PerfOf(S) == Total([k \in S |-> log[k].perf])

(* The row of a position, of the first n events.                           *)
RowAt(p, n) ==
  [closed |-> \E k \in UpTo(p, n) : log[k].closed,
   cash |-> PaidOut(UpTo(p, n)),
   fees |-> FeesOf(UpTo(p, n)),
   perf |-> PerfOf(UpTo(p, n))]

Drafts == IF pass = None THEN {} ELSE pass.drafts

-----------------------------------------------------------------------------
(* The bounds of the clock.                                                *)
Ticks ==
  /\ clock - Len(log) - passes \in 0 .. MaxTrades
  /\ Len(log) <= MaxVerbs

(* Nothing of a position is lost.                                          *)
Conserved ==
  \A p \in Positions :
    /\ AtPar(held[p]) + AtPar(unclaimed[p]) + AtPar(PaidOut(MinedOf(p))) = Earned(p)
    /\ AtPar(unclaimed[p]) + AtPar(FeesOf(MinedOf(p))) = accrued[p]

(* A closed position holds nothing, and its close is its last event.       *)
ClosedRests ==
  \A k \in DOMAIN log : log[k].closed =>
    /\ held[log[k].position] = Zero
    /\ unclaimed[log[k].position] = Zero
    /\ \A j \in DOMAIN log : log[j].position = log[k].position => j <= k

(* Fees come after the opening of a position, which is its first event.    *)
Opens ==
  /\ \A p \in Positions : MinedOf(p) = {} => unclaimed[p] = Zero
  /\ \A k \in DOMAIN log :
       /\ log[k].ts <= clock
       /\ log[k].name = "opened" =>
            /\ log[k].fees = Zero /\ log[k].perf = Zero
            /\ Minus(Zero, log[k].delta) \in Amounts
            /\ \A j \in DOMAIN log : log[j].position = log[k].position => k <= j

(* What a mark says was so after the first n events.                       *)
Knows(m, n) ==
  /\ m.seen = Cardinality(UpTo(m.position, n))
  /\ AtPar(m.amount) + AtPar(m.fees) + AtPar(PaidOut(UpTo(m.position, n))) = m.earned
  /\ AtPar(m.fees) + AtPar(FeesOf(UpTo(m.position, n)))
       - AtPar(PerfOf(UpTo(m.position, n))) = m.earned

MarksTrue == \A m \in marks \cup Drafts : \E n \in 0 .. Len(log) : Knows(m, n)

Finite ==
  /\ IsFiniteSet(marks)
  /\ IsFiniteSet(navs)
  /\ IsFiniteSet(Drafts)

(* No two passes have the same time, and none marks a position twice.      *)
PassesApart ==
  /\ \A m \in marks : m.ts <= clock
  /\ \A n \in navs : n.ts <= clock
  /\ \A m, o \in marks \cup Drafts : m.position = o.position /\ m.ts = o.ts => m = o
  /\ pass # None =>
       /\ pass.ts <= clock
       /\ \A m \in marks : m.ts # pass.ts
       /\ \A n \in navs : n.ts < pass.ts
       /\ \A m \in pass.drafts : m.ts = pass.ts /\ m.position \notin pass.todo
       /\ ~pass.skip => pass.todo # {} \/ pass.drafts # {}
       /\ ~pass.skip => \A m \in pass.drafts : PriceOf(m) = Par

(* Nor does a verb have the time of a pass.                                *)
TimesApart ==
  \A k \in DOMAIN log :
    /\ pass # None => log[k].ts # pass.ts
    /\ \A n \in navs : log[k].ts # n.ts

(* A mark that a later pass had no need to renew, or no time.              *)
Excused(m) == (\E k \in EventsOf(m.position) : log[k].closed) \/ MarkedAtOpening(m)

(* Whoever is marked has a row, and a pass that skips nobody misses none   *)
(* of the others.                                                          *)
PassesComplete ==
  /\ \A m \in marks : HasRow(m.position)
  /\ pass # None =>
       /\ \A p \in pass.todo : HasRow(p)
       /\ \A m \in pass.drafts : HasRow(m.position)
       /\ ~pass.skip => \A m \in marks :
            \/ Excused(m)
            \/ m.position \in pass.todo
            \/ \E d \in pass.drafts : d.position = m.position
  /\ \A n \in navs, m \in marks :
       m.ts < n.ts => Excused(m) \/ \E o \in marks : o.position = m.position /\ o.ts = n.ts

(* What is recorded for an owner of the marks of a pass.                   *)
NavPart(m) == Val(m.amount, PriceOf(m)) + Kept(Val(m.fees, PriceOf(m)))

(* A value recorded for the owner is of marks that were written with it,   *)
(* all of them at par.                                                     *)
NavsTrue ==
  \A n \in navs :
    LET last == {m \in marks : m.ts = n.ts}
    IN  /\ last # {}
        /\ \A m \in last : PriceOf(m) = Par
        /\ n.positions = SumFunction([m \in last |-> NavPart(m)])

(* What a request has read was so at some time, in the order of its reads. *)
Asked ==
  request.pc # "row" =>
    /\ request.position \in Positions
    /\ \E n \in 0 .. indexed :
         /\ UpTo(request.position, n) # {}
         /\ request.row = RowAt(request.position, n)
         /\ request.seen = Cardinality(UpTo(request.position, n))
         /\ request.pc \in {"series", "candles", "answered"} =>
              \E e \in n .. indexed : request.events = UpTo(request.position, e)

Snapped ==
  /\ request.pc \in {"events", "series", "candles", "answered"} =>
       /\ request.row.closed /\ request.snap # None =>
            request.snap.amount = Zero /\ request.snap.fees = Zero
       /\ ~request.row.closed /\ request.snap # None =>
            /\ request.snap.position = request.position
            /\ \E n \in 0 .. Len(log) : Knows(request.snap, n)
  /\ request.pc \in {"events", "series", "candles"} =>
       request.summary = Summarize(request.row, request.snap)
  /\ request.pc = "answered" =>
       request.summary =
         Fixed(Summarize(request.row, request.snap), request.events, request.series)

IInv ==
  /\ TypeOK
  /\ Ticks
  /\ Conserved
  /\ ClosedRests
  /\ Opens
  /\ MarksTrue
  /\ Finite
  /\ PassesApart
  /\ TimesApart
  /\ PassesComplete
  /\ NavsTrue
  /\ Asked
  /\ Snapped

-----------------------------------------------------------------------------
(* Sums of amounts.                                                        *)

(* A total has the type of its parts, and at par it is the sum at par.     *)
LEMMA TotalPar ==
  ASSUME NEW S, IsFiniteSet(S), NEW a, DOMAIN a = S, \A k \in S : a[k] \in Legs
  PROVE  /\ Total(a) \in Legs
         /\ AtPar(Total(a)) = SumFunctionOnSet([k \in S |-> AtPar(a[k])], S)
<1> DEFINE q == [k \in S |-> a[k].quote]
           b == [k \in S |-> a[k].base]
           t == [k \in S |-> AtPar(a[k])]
<1>1. /\ Integral(q, S)
      /\ Integral(b, S)
  BY DEF Integral, Legs
<1>2. \A k \in S : t[k] = q[k] + b[k]
  BY DEF AtPar
<1>3. Total(a) = [quote |-> SumFunctionOnSet(q, S), base |-> SumFunctionOnSet(b, S)]
  BY DEF Total, SumFunction
<1> HIDE DEF q, b, t
<1>4. SumFunctionOnSet(t, S) = SumFunctionOnSet(q, S) + SumFunctionOnSet(b, S)
  BY <1>1, <1>2, SumPlus
<1>5. SumFunctionOnSet(q, S) \in Int /\ SumFunctionOnSet(b, S) \in Int
  BY <1>1, SumType
<1>6. Total(a) \in Legs
  BY <1>3, <1>5 DEF Legs
<1>7. AtPar(Total(a)) = SumFunctionOnSet(t, S)
  BY <1>3, <1>4 DEF AtPar
<1> QED
  BY <1>6, <1>7 DEF t

(* One more amount.                                                        *)
LEMMA TotalPlus ==
  ASSUME NEW S, IsFiniteSet(S), NEW x, x \notin S,
         NEW a, DOMAIN a = S \cup {x}, \A k \in S \cup {x} : a[k] \in Legs,
         NEW b, DOMAIN b = S, \A k \in S : b[k] = a[k]
  PROVE  AtPar(Total(a)) = AtPar(Total(b)) + AtPar(a[x])
<1> DEFINE T == S \cup {x}
           f == [k \in T |-> AtPar(a[k])]
           g == [k \in S |-> AtPar(b[k])]
<1>1. IsFiniteSet(T)
  BY FS_AddElement
<1>2. Integral(f, T)
  BY <1>1 DEF Integral, AtPar, Legs
<1>3. Integral(f, S)
  BY <1>2 DEF Integral
<1>4. AtPar(Total(a)) = SumFunctionOnSet(f, T)
  BY <1>1, TotalPar
<1>5. AtPar(Total(b)) = SumFunctionOnSet(g, S)
  BY TotalPar
<1>6. \A k \in S : f[k] = g[k]
  OBVIOUS
<1>7. f[x] = AtPar(a[x]) /\ x \in T /\ T \ {x} = S
  OBVIOUS
<1> HIDE DEF f, g, T
<1>8. SumFunctionOnSet(f, T) = f[x] + SumFunctionOnSet(f, S)
  BY <1>2, <1>7, SumSplit
<1>9. SumFunctionOnSet(f, S) = SumFunctionOnSet(g, S)
  BY <1>3, <1>6, SumSame
<1>10. SumFunctionOnSet(f, S) \in Int
  BY <1>3, SumType
<1>11. f[x] \in Int
  BY <1>2, <1>7 DEF Integral
<1> QED
  BY <1>4, <1>5, <1>7, <1>8, <1>9, <1>10, <1>11

(* Nothing adds up to nothing.                                             *)
LEMMA TotalNone == ASSUME NEW a, DOMAIN a = {} PROVE AtPar(Total(a)) = 0
<1>1. Total(a) = [quote |-> 0, base |-> 0]
  BY SumEmpty DEF Total, SumFunction
<1> QED
  BY <1>1 DEF AtPar

-----------------------------------------------------------------------------
(* The log.                                                                *)

LEMMA UpToFinite ==
  ASSUME NEW p, NEW n \in Nat
  PROVE  IsFiniteSet(UpTo(p, n)) /\ UpTo(p, n) \subseteq 1 .. n
<1>1. IsFiniteSet(1 .. n)
  BY FS_Interval
<1>2. UpTo(p, n) \subseteq 1 .. n
  BY DEF UpTo
<1> QED
  BY <1>1, <1>2, FS_Subset

LEMMA LogTyped ==
  ASSUME log \in Seq(Event)
  PROVE  /\ Len(log) \in Nat
         /\ DOMAIN log = 1 .. Len(log)
         /\ \A k \in DOMAIN log :
              /\ log[k] \in Event
              /\ log[k].position \in Positions /\ log[k].ts \in Nat
              /\ log[k].delta \in Legs /\ log[k].closed \in BOOLEAN
              /\ log[k].fees \in Amounts /\ log[k].perf \in Amounts
              /\ log[k].fees \in Legs /\ log[k].perf \in Legs
<1>1. Amounts \subseteq Legs
  BY DEF Amounts, Legs
<1>2. Len(log) \in Nat /\ DOMAIN log = 1 .. Len(log)
  OBVIOUS
<1>3. ASSUME NEW k \in DOMAIN log PROVE log[k] \in Event
  BY <1>2, ElementOfSeq
<1>4. \A e \in Event :
        /\ e.position \in Positions /\ e.ts \in Nat /\ e.delta \in Legs /\ e.closed \in BOOLEAN
        /\ e.fees \in Amounts /\ e.perf \in Amounts
  BY DEF Event
<1> QED
  BY <1>1, <1>2, <1>3, <1>4, Zenon

(* What D1 and the chain know are prefixes of the log.                     *)
LEMMA Prefixes ==
  ASSUME log \in Seq(Event), NEW p
  PROVE  EventsOf(p) = UpTo(p, indexed) /\ MinedOf(p) = UpTo(p, Len(log))
BY LogTyped DEF EventsOf, MinedOf, UpTo

(* Sums over events are amounts.                                           *)
LEMMA SumsTyped ==
  ASSUME log \in Seq(Event), NEW S \in SUBSET DOMAIN log
  PROVE  /\ IsFiniteSet(S)
         /\ PaidOut(S) \in Legs
         /\ FeesOf(S) \in Legs
         /\ PerfOf(S) \in Legs
         /\ AtPar(PaidOut(S)) = SumFunctionOnSet([k \in S |-> AtPar(log[k].delta)], S)
         /\ AtPar(PerfOf(S)) = SumFunctionOnSet([k \in S |-> AtPar(log[k].perf)], S)
<1>1. IsFiniteSet(S)
  <2>1. DOMAIN log = 1 .. Len(log) /\ Len(log) \in Nat
    BY LogTyped
  <2>2. IsFiniteSet(1 .. Len(log))
    BY <2>1, FS_Interval
  <2> QED
    BY <2>1, <2>2, FS_Subset
<1> DEFINE d == [k \in S |-> log[k].delta]
           f == [k \in S |-> log[k].fees]
           q == [k \in S |-> log[k].perf]
<1>2. \A k \in S : d[k] \in Legs /\ f[k] \in Legs /\ q[k] \in Legs
  BY LogTyped
<1>3. DOMAIN d = S /\ DOMAIN f = S /\ DOMAIN q = S
  OBVIOUS
<1>4. [k \in S |-> AtPar(log[k].delta)] = [k \in S |-> AtPar(d[k])]
  OBVIOUS
<1>5. [k \in S |-> AtPar(log[k].perf)] = [k \in S |-> AtPar(q[k])]
  OBVIOUS
<1>6. PaidOut(S) = Total(d) /\ FeesOf(S) = Total(f) /\ PerfOf(S) = Total(q)
  BY DEF PaidOut, FeesOf, PerfOf
<1> HIDE DEF d, f, q
<1>7. Total(d) \in Legs /\ AtPar(Total(d)) = SumFunctionOnSet([k \in S |-> AtPar(d[k])], S)
  BY <1>1, <1>2, <1>3, TotalPar
<1>8. Total(f) \in Legs
  BY <1>1, <1>2, <1>3, TotalPar
<1>9. Total(q) \in Legs /\ AtPar(Total(q)) = SumFunctionOnSet([k \in S |-> AtPar(q[k])], S)
  BY <1>1, <1>2, <1>3, TotalPar
<1> QED
  BY <1>1, <1>4, <1>5, <1>6, <1>7, <1>8, <1>9

(* The treasury's parts, of any log.                                       *)
LEMMA PerfSum ==
  ASSUME NEW l \in Seq(Event), NEW S \in SUBSET DOMAIN l
  PROVE  AtPar(Total([k \in S |-> l[k].perf])) = SumFunction([k \in S |-> AtPar(l[k].perf)])
<1>1. IsFiniteSet(S)
  <2>1. DOMAIN l = 1 .. Len(l) /\ Len(l) \in Nat
    OBVIOUS
  <2>2. IsFiniteSet(1 .. Len(l))
    BY <2>1, FS_Interval
  <2> QED
    BY <2>1, <2>2, FS_Subset
<1>2. PICK a : a = [k \in S |-> l[k].perf]
  OBVIOUS
<1>3. \A k \in S : l[k] \in Event
  BY ElementOfSeq
<1>4. \A k \in S : l[k].perf \in Legs
  BY <1>3 DEF Event, Amounts, Legs
<1>5. DOMAIN a = S /\ \A k \in S : a[k] \in Legs
  BY <1>2, <1>4
<1>6. AtPar(Total(a)) = SumFunctionOnSet([k \in S |-> AtPar(a[k])], S)
  BY <1>1, <1>5, TotalPar
<1>7. [k \in S |-> AtPar(a[k])] = [k \in S |-> AtPar(l[k].perf)]
  BY <1>2
<1> QED
  BY <1>2, <1>6, <1>7 DEF SumFunction

(* What was earned, as a sum of the treasury's parts.                      *)
LEMMA EarnedIs ==
  ASSUME log \in Seq(Event), NEW p
  PROVE  Earned(p) = accrued[p] - AtPar(PerfOf(MinedOf(p)))
<1>1. PICK l, S : l = log /\ S = MinedOf(p)
  OBVIOUS
<1>2. l \in Seq(Event) /\ S \in SUBSET DOMAIN l
  BY <1>1 DEF MinedOf
<1>3. AtPar(Total([k \in S |-> l[k].perf])) = SumFunction([k \in S |-> AtPar(l[k].perf)])
  BY <1>2, PerfSum
<1> QED
  BY <1>1, <1>3 DEF Earned, PerfOf

LEMMA EarnedIsNext ==
  ASSUME log' \in Seq(Event), NEW p
  PROVE  Earned(p)' = accrued'[p] - AtPar(PerfOf(MinedOf(p)))'
<1>1. PICK l, S : l = log' /\ S = MinedOf(p)'
  OBVIOUS
<1>2. l \in Seq(Event) /\ S \in SUBSET DOMAIN l
  BY <1>1 DEF MinedOf
<1>3. AtPar(Total([k \in S |-> l[k].perf])) = SumFunction([k \in S |-> AtPar(l[k].perf)])
  BY <1>2, PerfSum
<1> QED
  BY <1>1, <1>3 DEF Earned, PerfOf, AtPar, Total

(* The log only grows.                                                     *)
Grows ==
  /\ log \in Seq(Event)
  /\ log' \in Seq(Event)
  /\ Len(log) <= Len(log')
  /\ \A k \in DOMAIN log : log'[k] = log[k]

LEMMA GrowsSame == ASSUME log \in Seq(Event), log' = log PROVE Grows
BY DEF Grows

(* An event is mined.                                                      *)
Appends(e) ==
  /\ log \in Seq(Event)
  /\ e \in Event
  /\ log' = Append(log, e)

LEMMA GrowsAppend ==
  ASSUME NEW e, Appends(e)
  PROVE  /\ Grows
         /\ Len(log') = Len(log) + 1
         /\ log'[Len(log) + 1] = e
BY DEF Grows, Appends

(* What was so of a prefix stays so.                                       *)
LEMMA PrefixStays ==
  ASSUME Grows, NEW p, NEW n \in 0 .. Len(log)
  PROVE  /\ UpTo(p, n)' = UpTo(p, n)
         /\ UpTo(p, n) \in SUBSET DOMAIN log
BY LogTyped DEF Grows, UpTo

LEMMA SumsStay ==
  ASSUME Grows, NEW p, NEW n \in 0 .. Len(log)
  PROVE  /\ PaidOut(UpTo(p, n))' = PaidOut(UpTo(p, n))
         /\ FeesOf(UpTo(p, n))' = FeesOf(UpTo(p, n))
         /\ PerfOf(UpTo(p, n))' = PerfOf(UpTo(p, n))
<1> SUFFICES ASSUME NEW S, S = UpTo(p, n), S = UpTo(p, n)', S \in SUBSET DOMAIN log
             PROVE  /\ PaidOut(S)' = PaidOut(S)
                    /\ FeesOf(S)' = FeesOf(S)
                    /\ PerfOf(S)' = PerfOf(S)
  BY PrefixStays
<1>1. \A k \in S : log'[k] = log[k]
  BY DEF Grows
<1>2. [k \in S |-> log'[k].delta] = [k \in S |-> log[k].delta]
  BY <1>1
<1>3. [k \in S |-> log'[k].fees] = [k \in S |-> log[k].fees]
  BY <1>1
<1>4. [k \in S |-> log'[k].perf] = [k \in S |-> log[k].perf]
  BY <1>1
<1> QED
  BY <1>2, <1>3, <1>4 DEF PaidOut, FeesOf, PerfOf, Total

LEMMA RowStays ==
  ASSUME Grows, NEW p, NEW n \in 0 .. Len(log)
  PROVE  RowAt(p, n)' = RowAt(p, n)
<1>1. UpTo(p, n)' = UpTo(p, n) /\ UpTo(p, n) \in SUBSET DOMAIN log
  BY PrefixStays
<1>2. \A k \in UpTo(p, n) : log'[k].closed = log[k].closed
  BY <1>1 DEF Grows
<1> QED
  BY <1>1, <1>2, SumsStay DEF RowAt

(* One more event is one more amount, of its position only.                *)
LEMMA Appended ==
  ASSUME NEW e, Appends(e), NEW p
  PROVE  /\ e.position = p =>
              /\ MinedOf(p)' = MinedOf(p) \cup {Len(log) + 1}
              /\ AtPar(PaidOut(MinedOf(p)))' = AtPar(PaidOut(MinedOf(p))) + AtPar(e.delta)
              /\ AtPar(FeesOf(MinedOf(p)))' = AtPar(FeesOf(MinedOf(p))) + AtPar(e.fees)
              /\ AtPar(PerfOf(MinedOf(p)))' = AtPar(PerfOf(MinedOf(p))) + AtPar(e.perf)
         /\ e.position # p =>
              /\ MinedOf(p)' = MinedOf(p)
              /\ PaidOut(MinedOf(p))' = PaidOut(MinedOf(p))
              /\ FeesOf(MinedOf(p))' = FeesOf(MinedOf(p))
              /\ PerfOf(MinedOf(p))' = PerfOf(MinedOf(p))
<1>a. log \in Seq(Event)
  BY DEF Appends
<1>0. PICK n \in Nat : n = Len(log)
  BY <1>a, LogTyped
<1>1. Grows /\ n = Len(log) /\ Len(log') = n + 1 /\ log'[n + 1] = e /\ DOMAIN log = 1 .. n
  BY <1>a, <1>0, GrowsAppend, LogTyped
<1>2. /\ MinedOf(p) = UpTo(p, n) /\ MinedOf(p)' = UpTo(p, n + 1)'
  <2>1. MinedOf(p) = UpTo(p, n)
    BY <1>a, <1>1, Prefixes
  <2>2. MinedOf(p)' = UpTo(p, n + 1)'
    BY <1>1 DEF MinedOf, UpTo
  <2> QED
    BY <2>1, <2>2
<1>3. UpTo(p, n)' = UpTo(p, n) /\ UpTo(p, n) \in SUBSET DOMAIN log
  <2>1. n \in 0 .. Len(log)
    BY <1>1
  <2> QED
    BY <1>1, <2>1, PrefixStays
<1>4. {k \in 1 .. n : log'[k].position = p} = UpTo(p, n)
  BY <1>1 DEF UpTo, Grows
<1>5. UpTo(p, n + 1)' = {k \in 1 .. (n + 1) : log'[k].position = p}
  BY DEF UpTo
<1>6. CASE e.position # p
  <2>1. UpTo(p, n + 1)' = UpTo(p, n)
    <3>1. 1 .. (n + 1) = (1 .. n) \cup {n + 1}
      BY <1>0
    <3> QED
      BY <1>1, <1>4, <1>5, <1>6, <3>1
  <2>2. MinedOf(p)' = MinedOf(p)
    BY <1>2, <2>1
  <2>3. PICK T : T = MinedOf(p) /\ T = MinedOf(p)' /\ T \subseteq DOMAIN log
    BY <2>2, <1>2, <1>3
  <2>4. \A k \in T : log'[k] = log[k]
    BY <1>1, <2>3 DEF Grows
  <2>5. [k \in T |-> log'[k].delta] = [k \in T |-> log[k].delta]
    BY <2>4
  <2>6. [k \in T |-> log'[k].fees] = [k \in T |-> log[k].fees]
    BY <2>4
  <2>7. [k \in T |-> log'[k].perf] = [k \in T |-> log[k].perf]
    BY <2>4
  <2>8. /\ PaidOut(T)' = PaidOut(T)
        /\ FeesOf(T)' = FeesOf(T)
        /\ PerfOf(T)' = PerfOf(T)
    BY <2>5, <2>6, <2>7 DEF PaidOut, FeesOf, PerfOf, Total
  <2> QED
    BY <1>6, <2>2, <2>3, <2>8
<1>7. CASE e.position = p
  <2>1. UpTo(p, n + 1)' = UpTo(p, n) \cup {n + 1}
    <3>1. 1 .. (n + 1) = (1 .. n) \cup {n + 1}
      BY <1>1
    <3> QED
      BY <1>1, <1>4, <1>5, <1>7, <3>1
  <2>2. PICK T, x : T = UpTo(p, n) /\ x = n + 1 /\ T \subseteq DOMAIN log /\ x \notin DOMAIN log
    BY <1>1, <1>3, LogTyped
  <2>3. MinedOf(p) = T /\ MinedOf(p)' = T \cup {x}
    BY <1>2, <2>1, <2>2
  <2>4. IsFiniteSet(T) /\ x \notin T
    BY <1>1, <2>2, UpToFinite
  <2>5. \A k \in T : log'[k] = log[k]
    BY <1>1, <2>2 DEF Grows
  <2>6. log'[x] = e
    BY <1>1, <2>2
  <2>7. \A k \in T \cup {x} :
          log'[k].delta \in Legs /\ log'[k].fees \in Legs /\ log'[k].perf \in Legs
    <3>1. \A k \in DOMAIN log' :
            log'[k].delta \in Legs /\ log'[k].fees \in Legs /\ log'[k].perf \in Legs
      <4>1. log' \in Seq(Event)
        BY <1>1 DEF Grows
      <4>2. \A k \in DOMAIN log' : log'[k] \in Event
        BY <4>1
      <4>3. Amounts \subseteq Legs
        BY DEF Amounts, Legs
      <4> QED
        BY <4>2, <4>3 DEF Event
    <3>2. T \cup {x} \subseteq DOMAIN log'
      BY <1>1, <2>2 DEF Grows
    <3> QED
      BY <3>1, <3>2
  <2>8. AtPar(Total([k \in T \cup {x} |-> log'[k].delta]))
          = AtPar(Total([k \in T |-> log[k].delta])) + AtPar(e.delta)
    <3>0. PICK a, b : /\ a = [k \in T \cup {x} |-> log'[k].delta]
                      /\ b = [k \in T |-> log[k].delta]
      OBVIOUS
    <3>1. /\ DOMAIN a = T \cup {x} /\ DOMAIN b = T
          /\ \A k \in T \cup {x} : a[k] \in Legs
          /\ \A k \in T : b[k] = a[k]
          /\ a[x] = e.delta
      BY <3>0, <2>5, <2>6, <2>7
    <3>2. AtPar(Total(a)) = AtPar(Total(b)) + AtPar(a[x])
      <4>1. IsFiniteSet(T) /\ x \notin T
        BY <2>4
      <4>2. DOMAIN a = T \cup {x} /\ DOMAIN b = T
        BY <3>1
      <4>3. \A k \in T \cup {x} : a[k] \in Legs
        BY <3>1
      <4>4. \A k \in T : b[k] = a[k]
        BY <3>1
      <4> QED
        BY <4>1, <4>2, <4>3, <4>4, TotalPlus
    <3> QED
      BY <3>0, <3>1, <3>2
  <2>9. AtPar(Total([k \in T \cup {x} |-> log'[k].fees]))
          = AtPar(Total([k \in T |-> log[k].fees])) + AtPar(e.fees)
    <3>0. PICK a, b : /\ a = [k \in T \cup {x} |-> log'[k].fees]
                      /\ b = [k \in T |-> log[k].fees]
      OBVIOUS
    <3>1. /\ DOMAIN a = T \cup {x} /\ DOMAIN b = T
          /\ \A k \in T \cup {x} : a[k] \in Legs
          /\ \A k \in T : b[k] = a[k]
          /\ a[x] = e.fees
      BY <3>0, <2>5, <2>6, <2>7
    <3>2. AtPar(Total(a)) = AtPar(Total(b)) + AtPar(a[x])
      <4>1. IsFiniteSet(T) /\ x \notin T
        BY <2>4
      <4>2. DOMAIN a = T \cup {x} /\ DOMAIN b = T
        BY <3>1
      <4>3. \A k \in T \cup {x} : a[k] \in Legs
        BY <3>1
      <4>4. \A k \in T : b[k] = a[k]
        BY <3>1
      <4> QED
        BY <4>1, <4>2, <4>3, <4>4, TotalPlus
    <3> QED
      BY <3>0, <3>1, <3>2
  <2>10. AtPar(Total([k \in T \cup {x} |-> log'[k].perf]))
          = AtPar(Total([k \in T |-> log[k].perf])) + AtPar(e.perf)
    <3>0. PICK a, b : /\ a = [k \in T \cup {x} |-> log'[k].perf]
                      /\ b = [k \in T |-> log[k].perf]
      OBVIOUS
    <3>1. /\ DOMAIN a = T \cup {x} /\ DOMAIN b = T
          /\ \A k \in T \cup {x} : a[k] \in Legs
          /\ \A k \in T : b[k] = a[k]
          /\ a[x] = e.perf
      BY <3>0, <2>5, <2>6, <2>7
    <3>2. AtPar(Total(a)) = AtPar(Total(b)) + AtPar(a[x])
      <4>1. IsFiniteSet(T) /\ x \notin T
        BY <2>4
      <4>2. DOMAIN a = T \cup {x} /\ DOMAIN b = T
        BY <3>1
      <4>3. \A k \in T \cup {x} : a[k] \in Legs
        BY <3>1
      <4>4. \A k \in T : b[k] = a[k]
        BY <3>1
      <4> QED
        BY <4>1, <4>2, <4>3, <4>4, TotalPlus
    <3> QED
      BY <3>0, <3>1, <3>2
  <2>11. AtPar(PaidOut(MinedOf(p)))' = AtPar(PaidOut(MinedOf(p))) + AtPar(e.delta)
    BY <2>3, <2>8 DEF PaidOut, AtPar, Total
  <2>12. AtPar(FeesOf(MinedOf(p)))' = AtPar(FeesOf(MinedOf(p))) + AtPar(e.fees)
    BY <2>3, <2>9 DEF FeesOf, AtPar, Total
  <2>13. AtPar(PerfOf(MinedOf(p)))' = AtPar(PerfOf(MinedOf(p))) + AtPar(e.perf)
    BY <2>3, <2>10 DEF PerfOf, AtPar, Total
  <2> QED
    <3>1. MinedOf(p)' = MinedOf(p) \cup {Len(log) + 1}
      BY <1>0, <2>2, <2>3
    <3> QED
      BY <1>7, <3>1, <2>11, <2>12, <2>13
<1> QED
  BY <1>6, <1>7

-----------------------------------------------------------------------------
(* Verbs.                                                                  *)

LEMMA AmountIs ==
  ASSUME NEW a \in Amounts
  PROVE  a \in Legs /\ a.quote \in Nat /\ a.base \in Nat /\ a = [quote |-> a.quote, base |-> a.base]
BY DEF Amounts, Legs

LEMMA PerfTyped == ASSUME NEW fees \in Amounts PROVE Perf(fees) \in Amounts
<1>1. \A x \in Nat : (x * PerfPercent) \div 100 \in Nat
  <2> SUFFICES ASSUME NEW x \in Nat PROVE (x * PerfPercent) \div 100 \in Nat
    OBVIOUS
  <2>1. PerfPercent \in Nat
    BY ConstantsAssumption
  <2>2. x * PerfPercent \in Nat
    BY <2>1
  <2>3. \A y \in Nat : y \div 100 \in Nat
    OBVIOUS
  <2> QED
    BY <2>2, <2>3
<1>2. fees.quote \in Nat /\ fees.base \in Nat
  BY AmountIs
<1> QED
  BY <1>1, <1>2 DEF Perf, Amounts

(* The state of the chain as the invariant has it.                         *)
ChainInv == TypeOK /\ Ticks /\ Conserved /\ ClosedRests

(* A verb keeps the balance of its position, and leaves the others alone.  *)
LEMMA VerbInv ==
  ASSUME ChainInv, NEW p \in Positions,
         NEW name \in {"opened", "increased", "decreased", "collected"},
         NEW in \in Amounts, NEW out \in Amounts, NEW closed \in BOOLEAN,
         out.quote <= held[p].quote + in.quote, out.base <= held[p].base + in.base,
         closed => Minus(Plus(held[p], in), out) = Zero,
         MinedOf(p) = {} \/ Open(p),
         Verb(p, name, in, out, closed)
  PROVE  ChainInv' /\ Grows
<1> DEFINE fees == unclaimed[p]
           after == Minus(Plus(held[p], in), out)
           delta == Plus(Minus(out, in), Minus(fees, Perf(fees)))
           e == [position |-> p, name |-> name, ts |-> clock + 1, delta |-> delta,
                 fees |-> fees, perf |-> Perf(fees), closed |-> closed]
<1>1. /\ held \in [Positions -> Amounts] /\ unclaimed \in [Positions -> Amounts]
      /\ accrued \in [Positions -> Nat] /\ log \in Seq(Event) /\ clock \in Nat
  BY DEF ChainInv, TypeOK
<1>2. held[p] \in Amounts /\ fees \in Amounts /\ Perf(fees) \in Amounts
  BY <1>1, PerfTyped
<1>3. after \in Amounts
  BY <1>2, AmountIs DEF Minus, Plus, Amounts
<1>4. delta \in Legs
  BY <1>2, AmountIs DEF Minus, Plus, Legs
<1>5. AtPar(after) + AtPar(delta) = AtPar(held[p]) + AtPar(fees) - AtPar(Perf(fees))
  BY <1>2, AmountIs DEF Minus, Plus, AtPar
<1>6. /\ Len(log) < MaxVerbs
      /\ clock' = clock + 1
      /\ held' = [held EXCEPT ![p] = after]
      /\ unclaimed' = [unclaimed EXCEPT ![p] = Zero]
      /\ log' = Append(log, e)
      /\ accrued' = accrued /\ passes' = passes
      /\ indexed' = indexed /\ candles' = candles /\ marks' = marks /\ navs' = navs
      /\ pass' = pass /\ request' = request
  BY DEF Verb, d1
<1>7. e \in Event
  BY <1>1, <1>2, <1>4 DEF Event
<1>8. Appends(e)
  BY <1>1, <1>6, <1>7 DEF Appends
<1>9. e.position = p /\ e.delta = delta /\ e.fees = fees /\ e.perf = Perf(fees) /\ e.closed = closed
  OBVIOUS
<1>10. Zero \in Amounts /\ AtPar(Zero) = 0
  BY DEF Zero, Amounts, AtPar
<1>11. PICK ev : ev = e
  OBVIOUS
<1>12. /\ held' \in [Positions -> Amounts] /\ unclaimed' \in [Positions -> Amounts]
       /\ held'[p] = after /\ unclaimed'[p] = Zero
       /\ \A q \in Positions \ {p} : held'[q] = held[q] /\ unclaimed'[q] = unclaimed[q]
  BY <1>1, <1>3, <1>6, <1>10
<1> HIDE DEF after, delta, e, fees
<1>13. Appends(ev) /\ Grows /\ Len(log') = Len(log) + 1 /\ log'[Len(log) + 1] = ev
  BY <1>8, <1>11, GrowsAppend
<1>14. ev.position = p /\ ev.delta = delta /\ ev.fees = fees /\ ev.perf = Perf(fees) /\ ev.closed = closed
  BY <1>9, <1>11
<1>15. log' \in Seq(Event) /\ Len(log) \in Nat
  BY <1>13, LogTyped DEF Grows
<1>16. Ticks'
  <2>1. passes \in Nat /\ MaxVerbs \in Nat /\ MaxTrades \in Nat
    BY ConstantsAssumption DEF ChainInv, TypeOK
  <2>2. clock - Len(log) - passes \in 0 .. MaxTrades
    BY DEF ChainInv, Ticks
  <2>3. clock' - Len(log') - passes' = clock - Len(log) - passes
    BY <1>1, <1>6, <1>13, <1>15, <2>1
  <2>4. Len(log') <= MaxVerbs
    BY <1>6, <1>13, <1>15, <2>1
  <2> QED
    BY <2>2, <2>3, <2>4 DEF Ticks
<1>17. TypeOK'
  <2>1. clock' \in 0 .. MaxVerbs + MaxTrades + MaxPasses
    <3>1. passes' \in 0 .. MaxPasses
      BY <1>6 DEF ChainInv, TypeOK
    <3>2. Len(log') \in Nat
      BY <1>13, <1>15
    <3>3. MaxVerbs \in Nat /\ MaxTrades \in Nat /\ MaxPasses \in Nat
      BY ConstantsAssumption
    <3>4. clock' \in Nat
      BY <1>1, <1>6
    <3> QED
      BY <1>16, <3>1, <3>2, <3>3, <3>4 DEF Ticks
  <2>2. indexed' \in 0 .. Len(log')
    BY <1>6, <1>13, <1>15 DEF ChainInv, TypeOK
  <2> QED
    BY <2>1, <2>2, <1>6, <1>12, <1>15 DEF ChainInv, TypeOK
<1>18. Conserved'
  <2> SUFFICES ASSUME NEW q \in Positions
               PROVE  /\ (AtPar(held[q]) + AtPar(unclaimed[q]) + AtPar(PaidOut(MinedOf(q))))' = Earned(q)'
                      /\ (AtPar(unclaimed[q]) + AtPar(FeesOf(MinedOf(q))))' = accrued'[q]
    BY DEF Conserved
  <2>1. /\ AtPar(held[q]) + AtPar(unclaimed[q]) + AtPar(PaidOut(MinedOf(q))) = Earned(q)
        /\ AtPar(unclaimed[q]) + AtPar(FeesOf(MinedOf(q))) = accrued[q]
    BY DEF ChainInv, Conserved
  <2>2. Earned(q) = accrued[q] - AtPar(PerfOf(MinedOf(q)))
    BY <1>1, EarnedIs
  <2>3. Earned(q)' = accrued'[q] - AtPar(PerfOf(MinedOf(q)))'
    BY <1>15, EarnedIsNext
  <2>4. MinedOf(q) \in SUBSET DOMAIN log
    BY DEF MinedOf
  <2>5. PaidOut(MinedOf(q)) \in Legs /\ FeesOf(MinedOf(q)) \in Legs /\ PerfOf(MinedOf(q)) \in Legs
    BY <1>1, <2>4, SumsTyped
  <2>6. /\ AtPar(PaidOut(MinedOf(q))) \in Int /\ AtPar(FeesOf(MinedOf(q))) \in Int
        /\ AtPar(PerfOf(MinedOf(q))) \in Int
    BY <2>5 DEF Legs, AtPar
  <2>7. AtPar(held[q]) \in Int /\ AtPar(unclaimed[q]) \in Int /\ accrued[q] \in Int
    BY <1>1, AmountIs DEF AtPar
  <2>8. CASE q # p
    <3>1. /\ PaidOut(MinedOf(q))' = PaidOut(MinedOf(q))
          /\ FeesOf(MinedOf(q))' = FeesOf(MinedOf(q))
          /\ PerfOf(MinedOf(q))' = PerfOf(MinedOf(q))
      BY <1>13, <1>14, <2>8, Appended
    <3>2. held'[q] = held[q] /\ unclaimed'[q] = unclaimed[q] /\ accrued'[q] = accrued[q]
      BY <1>6, <1>12, <2>8
    <3> QED
      BY <2>1, <2>2, <2>3, <3>1, <3>2
  <2>9. CASE q = p
    <3>1. /\ AtPar(PaidOut(MinedOf(q)))' = AtPar(PaidOut(MinedOf(q))) + AtPar(delta)
          /\ AtPar(FeesOf(MinedOf(q)))' = AtPar(FeesOf(MinedOf(q))) + AtPar(fees)
          /\ AtPar(PerfOf(MinedOf(q)))' = AtPar(PerfOf(MinedOf(q))) + AtPar(Perf(fees))
      BY <1>13, <1>14, <2>9, Appended
    <3>2. AtPar(delta) \in Int /\ AtPar(fees) \in Int /\ AtPar(Perf(fees)) \in Int /\ AtPar(after) \in Int
      BY <1>2, <1>3, <1>4, AmountIs DEF AtPar, Legs
    <3>3. held'[q] = after /\ unclaimed'[q] = Zero /\ accrued'[q] = accrued[q] /\ unclaimed[q] = fees
      BY <1>6, <1>12, <2>9 DEF fees
    <3>4. (AtPar(unclaimed[q]) + AtPar(FeesOf(MinedOf(q))))' = accrued'[q]
      BY <2>1, <2>6, <3>1, <3>2, <3>3, <1>10
    <3>5. AtPar(held'[q]) + AtPar(unclaimed'[q]) + AtPar(PaidOut(MinedOf(q)))' = Earned(q)'
      BY <2>1, <2>2, <2>3, <2>6, <2>7, <2>9, <3>1, <3>2, <3>3, <1>5, <1>10
    <3> QED
      BY <3>4, <3>5
  <2> QED
    BY <2>8, <2>9
<1>19. ClosedRests'
  <2> SUFFICES ASSUME NEW k \in DOMAIN log', log'[k].closed
               PROVE  /\ held'[log'[k].position] = Zero
                      /\ unclaimed'[log'[k].position] = Zero
                      /\ \A j \in DOMAIN log' : log'[j].position = log'[k].position => j <= k
    BY DEF ClosedRests
  <2>1. PICK n : n = Len(log) /\ n \in Nat
    BY <1>15
  <2>2. DOMAIN log' = 1 .. (n + 1) /\ DOMAIN log = 1 .. n /\ log'[n + 1] = ev
    BY <1>1, <1>13, <1>15, <2>1
  <2>3. \A j \in 1 .. n : log'[j] = log[j]
    BY <1>13, <2>2 DEF Grows
  <2>4. \A j \in 1 .. n : log[j].position = p => ~log[j].closed
    BY <2>2 DEF Open, MinedOf
  <2>5. CASE k = n + 1
    BY <1>12, <1>14, <2>2, <2>5, <2>1, <1>6 DEF after
  <2>6. CASE k \in 1 .. n
    <3>1. log'[k] = log[k] /\ log[k].closed /\ log[k].position # p /\ log[k].position \in Positions
      BY <1>1, <2>2, <2>3, <2>4, <2>6, LogTyped
    <3>2. /\ held[log[k].position] = Zero
          /\ unclaimed[log[k].position] = Zero
          /\ \A j \in 1 .. n : log[j].position = log[k].position => j <= k
      BY <2>2, <2>6, <3>1 DEF ChainInv, ClosedRests
    <3>3. \A j \in DOMAIN log' : log'[j].position = log'[k].position => j <= k
      BY <1>14, <2>1, <2>2, <2>3, <3>1, <3>2
    <3> QED
      BY <1>12, <3>1, <3>2, <3>3
  <2> QED
    BY <2>1, <2>2, <2>5, <2>6
<1> QED
  BY <1>13, <1>16, <1>17, <1>18, <1>19 DEF ChainInv

(* An opening pays no fees, and is dated later than all before it.         *)
LEMMA VerbOpens ==
  ASSUME ChainInv, Opens, Grows, NEW p \in Positions,
         NEW name, NEW in \in Amounts, NEW out, NEW closed,
         name = "opened" => MinedOf(p) = {} /\ out = Zero,
         Verb(p, name, in, out, closed)
  PROVE  /\ Opens'
         /\ \A k \in DOMAIN log' : k \in DOMAIN log \/ log'[k].ts > clock
<1> DEFINE fees == unclaimed[p]
           delta == Plus(Minus(out, in), Minus(fees, Perf(fees)))
           e == [position |-> p, name |-> name, ts |-> clock + 1, delta |-> delta,
                 fees |-> fees, perf |-> Perf(fees), closed |-> closed]
<1>1. /\ unclaimed \in [Positions -> Amounts] /\ log \in Seq(Event) /\ clock \in Nat
  BY DEF ChainInv, TypeOK
<1>2. /\ clock' = clock + 1
      /\ unclaimed' = [unclaimed EXCEPT ![p] = Zero]
      /\ log' = Append(log, e)
  BY DEF Verb
<1>3. PICK n \in Nat : n = Len(log)
  BY <1>1, LogTyped
<1>4. /\ DOMAIN log = 1 .. n /\ DOMAIN log' = 1 .. (n + 1) /\ log'[n + 1] = e
      /\ \A k \in 1 .. n : log'[k] = log[k]
  <2> HIDE DEF e
  <2> QED
    BY <1>1, <1>2, <1>3
<1>5. /\ e.position = p /\ e.name = name /\ e.ts = clock + 1 /\ e.delta = delta
      /\ e.fees = fees /\ e.perf = Perf(fees)
  OBVIOUS
<1>6. ASSUME name = "opened"
      PROVE  fees = Zero /\ Perf(fees) = Zero /\ Minus(Zero, delta) \in Amounts
  <2>1. MinedOf(p) = {} /\ out = Zero
    BY <1>6
  <2>2. fees = Zero
    BY <2>1 DEF Opens
  <2>3. Perf(Zero) = Zero
    <3>1. PerfPercent \in Int
      BY ConstantsAssumption
    <3>2. 0 * PerfPercent = 0
      BY <3>1
    <3>3. (0 * PerfPercent) \div 100 = 0
      BY <3>2
    <3>4. Zero.quote = 0 /\ Zero.base = 0
      BY DEF Zero
    <3> QED
      BY <3>3, <3>4 DEF Perf, Zero
  <2>4. delta = Plus(Minus(Zero, in), Minus(Zero, Zero))
    BY <2>1, <2>2, <2>3
  <2>5. Minus(Zero, Plus(Minus(Zero, in), Minus(Zero, Zero))) = in
    BY AmountIs DEF Minus, Plus, Zero
  <2> QED
    BY <2>2, <2>3, <2>4, <2>5
<1> HIDE DEF e, fees, delta
<1>7. ASSUME NEW q \in Positions, MinedOf(q)' = {} PROVE unclaimed'[q] = Zero
  <2>1. CASE q = p
    BY <1>1, <1>2, <2>1
  <2>2. CASE q # p
    <3>1. MinedOf(q) = {}
      BY <1>4, <1>7 DEF MinedOf
    <3>2. unclaimed'[q] = unclaimed[q]
      BY <1>1, <1>2, <2>2
    <3> QED
      BY <3>1, <3>2 DEF Opens
  <2> QED
    BY <2>1, <2>2
<1>8. ASSUME NEW k \in 1 .. (n + 1)
      PROVE  /\ log'[k].ts <= clock'
             /\ log'[k].name = "opened" =>
                  /\ log'[k].fees = Zero /\ log'[k].perf = Zero
                  /\ Minus(Zero, log'[k].delta) \in Amounts
                  /\ \A j \in 1 .. (n + 1) : log'[j].position = log'[k].position => k <= j
  <2>1. CASE k = n + 1
    <3>1. log'[k].ts <= clock'
      BY <1>1, <1>2, <1>4, <1>5, <2>1
    <3>2. ASSUME log'[k].name = "opened"
          PROVE  \A j \in 1 .. (n + 1) : log'[j].position = log'[k].position => k <= j
      <4>1. \A j \in 1 .. n : log'[j].position # p
        BY <1>4, <1>5, <2>1, <3>2 DEF MinedOf
      <4> QED
        BY <1>4, <1>5, <2>1, <4>1
    <3> QED
      BY <1>4, <1>5, <1>6, <2>1, <3>1, <3>2
  <2>2. CASE k \in 1 .. n
    <3>1. log'[k] = log[k] /\ k \in DOMAIN log
      BY <1>4, <2>2
    <3>2. log[k].ts \in Nat /\ log[k].ts <= clock
      BY <1>1, <3>1, LogTyped DEF Opens
    <3>3. log[k].ts <= clock'
      BY <1>1, <1>2, <3>2
    <3>4. log[k].name = "opened" =>
            /\ log[k].fees = Zero /\ log[k].perf = Zero
            /\ Minus(Zero, log[k].delta) \in Amounts
            /\ \A j \in 1 .. n : log[j].position = log[k].position => k <= j
      BY <1>4, <3>1 DEF Opens
    <3>5. log[k].name = "opened" =>
            \A j \in 1 .. (n + 1) : log'[j].position = log[k].position => k <= j
      BY <1>4, <2>2, <3>4
    <3> QED
      BY <3>1, <3>3, <3>4, <3>5
  <2> QED
    BY <2>1, <2>2
<1>9. Opens'
  BY <1>4, <1>7, <1>8 DEF Opens, Minus, Zero
<1>10. \A k \in DOMAIN log' : k \in DOMAIN log \/ log'[k].ts > clock
  BY <1>1, <1>4, <1>5
<1> QED
  BY <1>9, <1>10

LEMMA OpensStay ==
  ASSUME ChainInv, Opens, UNCHANGED <<log, unclaimed>>, clock' \in Nat, clock <= clock'
  PROVE  Opens'
<1>1. \A k \in DOMAIN log : log[k].ts \in Nat /\ clock \in Nat
  BY LogTyped DEF ChainInv, TypeOK
<1>2. \A k \in DOMAIN log : log[k].ts <= clock'
  BY <1>1 DEF Opens
<1> QED
  BY <1>2 DEF Opens, MinedOf, Minus, Zero

Verbs(p) == OpenPosition(p) \/ Increase(p) \/ Collect(p) \/ Decrease(p)

LEMMA VerbsInv ==
  ASSUME ChainInv, Opens, NEW p \in Positions, Verbs(p)
  PROVE  /\ ChainInv' /\ Opens' /\ Grows
         /\ \A k \in DOMAIN log' : k \in DOMAIN log \/ log'[k].ts > clock
         /\ clock' = clock + 1 /\ (MinedOf(p) = {} \/ Open(p))
         /\ UNCHANGED <<accrued, indexed, candles, marks, navs, pass, passes, request>>
<1>1. held[p] \in Amounts /\ Zero \in Amounts /\ Deposits \subseteq Amounts
  BY ConstantsAssumption DEF ChainInv, TypeOK, Zero, Amounts
<1>2. \A in \in Amounts :
        /\ Zero.quote <= held[p].quote + in.quote
        /\ Zero.base <= held[p].base + in.base
  BY <1>1, AmountIs DEF Zero
<1>3. SUFFICES ASSUME NEW name \in {"opened", "increased", "decreased", "collected"},
                      NEW in \in Amounts, NEW out \in Amounts, NEW closed \in BOOLEAN,
                      out.quote <= held[p].quote + in.quote, out.base <= held[p].base + in.base,
                      closed => Minus(Plus(held[p], in), out) = Zero,
                      MinedOf(p) = {} \/ Open(p),
                      name = "opened" => MinedOf(p) = {} /\ out = Zero,
                      Verb(p, name, in, out, closed)
               PROVE  /\ ChainInv' /\ Opens' /\ Grows
                      /\ \A k \in DOMAIN log' : k \in DOMAIN log \/ log'[k].ts > clock
                      /\ clock' = clock + 1 /\ (MinedOf(p) = {} \/ Open(p))
                      /\ UNCHANGED <<accrued, indexed, candles, marks, navs, pass, passes, request>>
  <2>1. CASE OpenPosition(p)
    <3>1. PICK in \in Deposits : Verb(p, "opened", in, Zero, FALSE)
      BY <2>1 DEF OpenPosition
    <3> QED
      BY <1>1, <1>2, <1>3, <2>1, <3>1 DEF OpenPosition
  <2>2. CASE Increase(p)
    <3>1. PICK in \in Deposits : Verb(p, "increased", in, Zero, FALSE)
      BY <2>2 DEF Increase
    <3> QED
      BY <1>1, <1>2, <1>3, <2>2, <3>1 DEF Increase
  <2>3. CASE Collect(p)
    BY <1>1, <1>2, <1>3, <2>3 DEF Collect
  <2>4. CASE Decrease(p)
    <3>1. CASE Verb(p, "decreased", Zero, held[p], TRUE)
      <4>1. Minus(Plus(held[p], Zero), held[p]) = Zero
        BY <1>1, AmountIs DEF Minus, Plus, Zero
      <4>2. held[p].quote <= held[p].quote + Zero.quote /\ held[p].base <= held[p].base + Zero.base
        BY <1>1, AmountIs DEF Zero
      <4> QED
        BY <1>1, <1>3, <2>4, <3>1, <4>1, <4>2 DEF Decrease
    <3>2. CASE \E out \in Deposits :
                 /\ out.quote <= held[p].quote /\ out.base <= held[p].base /\ out # held[p]
                 /\ Verb(p, "decreased", Zero, out, FALSE)
      <4>1. PICK out \in Deposits :
              /\ out.quote <= held[p].quote /\ out.base <= held[p].base
              /\ Verb(p, "decreased", Zero, out, FALSE)
        BY <3>2
      <4>2. out \in Amounts
        BY <1>1
      <4>3. out.quote <= held[p].quote + Zero.quote /\ out.base <= held[p].base + Zero.base
        BY <1>1, <4>1, <4>2, AmountIs DEF Zero
      <4> QED
        BY <1>1, <1>3, <2>4, <4>1, <4>2, <4>3 DEF Decrease
    <3> QED
      BY <2>4, <3>1, <3>2 DEF Decrease
  <2> QED
    BY <2>1, <2>2, <2>3, <2>4 DEF Verbs
<1>4. ChainInv' /\ Grows
  BY <1>3, VerbInv
<1>5. Opens' /\ \A k \in DOMAIN log' : k \in DOMAIN log \/ log'[k].ts > clock
  BY <1>3, <1>4, VerbOpens
<1>6. clock' = clock + 1 /\ UNCHANGED <<accrued, indexed, candles, marks, navs, pass, passes, request>>
  BY <1>3 DEF Verb, d1
<1> QED
  BY <1>3, <1>4, <1>5, <1>6

(* The balance depends on the chain alone.                                 *)
LEMMA BalanceStays ==
  ASSUME Conserved, ClosedRests, UNCHANGED chain
  PROVE  Conserved' /\ ClosedRests'
<1>1. held' = held /\ unclaimed' = unclaimed /\ accrued' = accrued /\ log' = log
  BY DEF chain
<1>2. Conserved'
  BY <1>1 DEF Conserved, Earned, AtPar, PaidOut, FeesOf, Total, MinedOf
<1>3. ClosedRests'
  BY <1>1 DEF ClosedRests
<1> QED
  BY <1>2, <1>3

(* A trade adds its fee to what was earned, and turns the rest at par.     *)
LEMMA TradeInv ==
  ASSUME ChainInv, NEW p \in Positions, NEW turned \in Turns, NEW close \in Price,
         Trade(p, turned, close)
  PROVE  ChainInv'
<1> DEFINE after == [quote |-> held[p].quote - turned, base |-> held[p].base + turned]
           fees == Plus(unclaimed[p], Fee)
<1>1. /\ held \in [Positions -> Amounts] /\ unclaimed \in [Positions -> Amounts]
      /\ accrued \in [Positions -> Nat] /\ log \in Seq(Event) /\ clock \in Nat
      /\ passes \in 0 .. MaxPasses
  BY DEF ChainInv, TypeOK
<1>2. /\ held[p] \in Amounts /\ unclaimed[p] \in Amounts /\ Fee \in Amounts /\ turned \in Int
      /\ accrued[p] \in Nat
  BY <1>1, ConstantsAssumption
<1>3. /\ Open(p)
      /\ clock - Len(log) - passes < MaxTrades
      /\ clock' = clock + 1
      /\ unclaimed' = [unclaimed EXCEPT ![p] = fees]
      /\ held' = [held EXCEPT ![p] = after]
      /\ held'[p].quote >= 0 /\ held'[p].base >= 0
      /\ accrued' = [accrued EXCEPT ![p] = accrued[p] + AtPar(Fee)]
      /\ candles' = candles \cup {[ts |-> clock', price |-> close]}
      /\ log' = log /\ indexed' = indexed /\ marks' = marks /\ navs' = navs
      /\ pass' = pass /\ passes' = passes /\ request' = request
  BY DEF Trade
<1>4. held'[p] = after
  BY <1>1, <1>3
<1>5. after \in Amounts
  <2>1. after.quote \in Int /\ after.base \in Int
    BY <1>2, AmountIs
  <2>2. after.quote >= 0 /\ after.base >= 0
    BY <1>3, <1>4
  <2> QED
    BY <2>1, <2>2 DEF Amounts
<1>6. fees \in Amounts /\ AtPar(fees) = AtPar(unclaimed[p]) + AtPar(Fee)
  BY <1>2, AmountIs DEF Plus, Amounts, AtPar
<1>7. AtPar(after) = AtPar(held[p])
  BY <1>2, AmountIs DEF AtPar
<1>8. AtPar(Fee) \in Nat
  BY <1>2, AmountIs DEF AtPar
<1> HIDE DEF after, fees
<1>9. /\ held' \in [Positions -> Amounts] /\ unclaimed' \in [Positions -> Amounts]
      /\ accrued' \in [Positions -> Nat]
      /\ unclaimed'[p] = fees /\ accrued'[p] = accrued[p] + AtPar(Fee)
      /\ \A q \in Positions \ {p} :
           held'[q] = held[q] /\ unclaimed'[q] = unclaimed[q] /\ accrued'[q] = accrued[q]
  BY <1>1, <1>2, <1>3, <1>5, <1>6, <1>8
<1>10. Len(log) \in Nat /\ MaxVerbs \in Nat /\ MaxTrades \in Nat /\ MaxPasses \in Nat
  BY <1>1, ConstantsAssumption
<1>11. Ticks'
  BY <1>1, <1>3, <1>10 DEF ChainInv, Ticks
<1>12. TypeOK'
  <2>1. clock' \in 0 .. MaxVerbs + MaxTrades + MaxPasses
    BY <1>1, <1>3, <1>10, <1>11 DEF Ticks
  <2>2. [ts |-> clock', price |-> close] \in [ts : Nat, price : Price]
    BY <1>1, <1>3
  <2>3. \A c \in candles' : c \in [ts : Nat, price : Price]
    BY <1>3, <2>2 DEF ChainInv, TypeOK
  <2> QED
    BY <1>3, <1>9, <2>1, <2>3 DEF ChainInv, TypeOK
<1>13. Conserved'
  <2> SUFFICES ASSUME NEW q \in Positions
               PROVE  /\ (AtPar(held[q]) + AtPar(unclaimed[q]) + AtPar(PaidOut(MinedOf(q))))' = Earned(q)'
                      /\ (AtPar(unclaimed[q]) + AtPar(FeesOf(MinedOf(q))))' = accrued'[q]
    BY DEF Conserved
  <2>1. /\ AtPar(held[q]) + AtPar(unclaimed[q]) + AtPar(PaidOut(MinedOf(q))) = Earned(q)
        /\ AtPar(unclaimed[q]) + AtPar(FeesOf(MinedOf(q))) = accrued[q]
    BY DEF ChainInv, Conserved
  <2>2. /\ AtPar(PaidOut(MinedOf(q)))' = AtPar(PaidOut(MinedOf(q)))
        /\ AtPar(FeesOf(MinedOf(q)))' = AtPar(FeesOf(MinedOf(q)))
        /\ AtPar(PerfOf(MinedOf(q)))' = AtPar(PerfOf(MinedOf(q)))
    BY <1>3 DEF MinedOf, PaidOut, FeesOf, PerfOf, Total, AtPar
  <2>3. Earned(q) = accrued[q] - AtPar(PerfOf(MinedOf(q)))
    BY <1>1, EarnedIs
  <2>4. Earned(q)' = accrued'[q] - AtPar(PerfOf(MinedOf(q)))'
    BY <1>1, <1>3, EarnedIsNext
  <2>5. MinedOf(q) \in SUBSET DOMAIN log
    BY DEF MinedOf
  <2>6. PaidOut(MinedOf(q)) \in Legs /\ FeesOf(MinedOf(q)) \in Legs /\ PerfOf(MinedOf(q)) \in Legs
    BY <1>1, <2>5, SumsTyped
  <2>7. /\ AtPar(PaidOut(MinedOf(q))) \in Int /\ AtPar(FeesOf(MinedOf(q))) \in Int
        /\ AtPar(PerfOf(MinedOf(q))) \in Int
    BY <2>6 DEF Legs, AtPar
  <2>8. AtPar(held[q]) \in Int /\ AtPar(unclaimed[q]) \in Int /\ accrued[q] \in Int
    BY <1>1, AmountIs DEF AtPar
  <2>9. CASE q # p
    BY <1>9, <2>1, <2>2, <2>3, <2>4, <2>9
  <2>10. CASE q = p
    BY <1>4, <1>6, <1>7, <1>8, <1>9, <2>1, <2>2, <2>3, <2>4, <2>7, <2>8, <2>10
  <2> QED
    BY <2>9, <2>10
<1>14. ClosedRests'
  <2> SUFFICES ASSUME NEW k \in DOMAIN log, log[k].closed
               PROVE  /\ held'[log[k].position] = Zero
                      /\ unclaimed'[log[k].position] = Zero
                      /\ \A j \in DOMAIN log : log[j].position = log[k].position => j <= k
    BY <1>3 DEF ClosedRests
  <2>1. log[k].position \in Positions /\ log[k].position # p
    BY <1>1, <1>3, LogTyped DEF Open, MinedOf
  <2>2. /\ held[log[k].position] = Zero
        /\ unclaimed[log[k].position] = Zero
        /\ \A j \in DOMAIN log : log[j].position = log[k].position => j <= k
    BY DEF ChainInv, ClosedRests
  <2> QED
    BY <1>9, <2>1, <2>2
<1> QED
  BY <1>11, <1>12, <1>13, <1>14 DEF ChainInv

LEMMA TradeOpens ==
  ASSUME ChainInv, Opens, NEW p \in Positions, NEW turned, NEW close, Trade(p, turned, close)
  PROVE  Opens'
<1>1. /\ unclaimed \in [Positions -> Amounts] /\ clock \in Nat
      /\ \A k \in DOMAIN log : log[k].ts \in Nat
  BY LogTyped DEF ChainInv, TypeOK
<1>2. /\ MinedOf(p) # {} /\ clock' = clock + 1 /\ log' = log
      /\ unclaimed' = [unclaimed EXCEPT ![p] = Plus(unclaimed[p], Fee)]
  BY DEF Trade, Open
<1>3. \A q \in Positions : MinedOf(q)' = MinedOf(q) /\ (q # p => unclaimed'[q] = unclaimed[q])
  BY <1>1, <1>2 DEF MinedOf
<1>4. \A q \in Positions : MinedOf(q)' = {} => unclaimed'[q] = Zero
  BY <1>2, <1>3 DEF Opens
<1>5. \A k \in DOMAIN log : log[k].ts <= clock'
  BY <1>1, <1>2 DEF Opens
<1> QED
  BY <1>2, <1>4, <1>5 DEF Opens, Minus, Zero

-----------------------------------------------------------------------------
(* Types of what is read and answered.                                     *)

LEMMA MarkIs ==
  ASSUME NEW m \in MarkType
  PROVE  /\ m.position \in Positions /\ m.ts \in Nat /\ m.price \in Price
         /\ m.amount \in Amounts /\ m.fees \in Amounts /\ m.seen \in Nat /\ m.earned \in Int
         /\ PriceOf(m) \in {0, Par}
BY DEF MarkType, PriceOf, MarkPrice, Price, Par

LEMMA ValTyped ==
  ASSUME NEW a \in Legs, NEW px \in {0, Par, Limit}
  PROVE  Val(a, px) \in Int
<1>1. px \in Int
  BY ConstantsAssumption DEF Par
<1>2. a.quote \in Int /\ a.base \in Int
  BY DEF Legs
<1>3. a.base * px \in Int
  BY <1>1, <1>2
<1> QED
  BY <1>2, <1>3 DEF Val

(* At par the value is the amount at par; without a price, the quote leg.  *)
LEMMA ValIs ==
  ASSUME NEW a \in Legs
  PROVE  Val(a, Par) = AtPar(a) /\ Val(a, 0) = a.quote /\ AtPar(a) \in Int
BY DEF Val, Par, AtPar, Legs

LEMMA ValNat ==
  ASSUME NEW a \in Amounts, NEW px \in {0, Par}
  PROVE  Val(a, px) \in Nat
BY AmountIs DEF Val, Par

LEMMA NavPartTyped ==
  ASSUME NEW m \in MarkType
  PROVE  NavPart(m) \in Nat
<1>1. Val(m.amount, PriceOf(m)) \in Nat /\ Val(m.fees, PriceOf(m)) \in Nat
  BY MarkIs, ValNat
<1>2. \A x \in Nat : Kept(x) \in Nat
  <2> SUFFICES ASSUME NEW x \in Nat PROVE Kept(x) \in Nat
    OBVIOUS
  <2>1. 100 - PerfPercent \in Nat
    BY ConstantsAssumption
  <2>2. x * (100 - PerfPercent) \in Nat
    BY <2>1
  <2>3. \A y \in Nat : y \div 100 \in Nat
    OBVIOUS
  <2> QED
    BY <2>2, <2>3 DEF Kept
<1> QED
  BY <1>1, <1>2 DEF NavPart

LEMMA PlusTyped ==
  ASSUME NEW a \in Amounts, NEW b \in Amounts
  PROVE  Plus(a, b) \in Amounts /\ AtPar(Plus(a, b)) = AtPar(a) + AtPar(b)
BY AmountIs DEF Plus, Amounts, AtPar

LEMMA RowAtTyped ==
  ASSUME log \in Seq(Event), NEW p, NEW n \in 0 .. Len(log)
  PROVE  RowAt(p, n) \in RowType
<1>1. UpTo(p, n) \in SUBSET DOMAIN log
  BY LogTyped DEF UpTo
<1>2. PaidOut(UpTo(p, n)) \in Legs /\ FeesOf(UpTo(p, n)) \in Legs /\ PerfOf(UpTo(p, n)) \in Legs
  BY <1>1, SumsTyped
<1>3. (\E k \in UpTo(p, n) : log[k].closed) \in BOOLEAN
  OBVIOUS
<1>4. RowAt(p, n) \in RowType
  BY <1>2, <1>3 DEF RowAt, RowType
<1> QED
  BY <1>4

LEMMA RowIs ==
  ASSUME log \in Seq(Event), NEW p
  PROVE  Row(p) = RowAt(p, indexed)
BY Prefixes DEF Row, RowAt, PaidOut, FeesOf, PerfOf

(* The price of a summary.                                                 *)
PriceIn(snap) == IF snap = None THEN 0 ELSE PriceOf(snap)

FeesIn(snap) == IF snap = None THEN Zero ELSE snap.fees

ValueIn(snap) ==
  IF snap = None THEN 0 ELSE Val(Plus(snap.amount, snap.fees), PriceOf(snap))

LEMMA SnapIs ==
  ASSUME NEW snap \in MarkType \cup {None}
  PROVE  PriceIn(snap) \in {0, Par} /\ FeesIn(snap) \in Amounts /\ ValueIn(snap) \in Nat
<1>1. CASE snap = None
  BY <1>1 DEF PriceIn, FeesIn, ValueIn, Zero, Amounts
<1>2. CASE snap # None /\ snap \in MarkType
  BY <1>2, MarkIs, PlusTyped, ValNat DEF PriceIn, FeesIn, ValueIn
<1> QED
  BY <1>1, <1>2

LEMMA SummaryIs ==
  ASSUME NEW row \in RowType, NEW snap \in MarkType \cup {None}
  PROVE  LET px == PriceIn(snap)
             s == Summarize(row, snap)
         IN  /\ s \in SummaryType
             /\ s.value = ValueIn(snap)
             /\ s.feesNet = Val(row.fees, px) + Val(FeesIn(snap), px) - Val(row.perf, px)
<1> DEFINE px == PriceIn(snap)
           fees == FeesIn(snap)
           value == ValueIn(snap)
           feesNet == Val(row.fees, px) + Val(fees, px) - Val(row.perf, px)
           pnl == value + Val(row.cash, px)
<1>1. Summarize(row, snap) =
        [value |-> value, cashflow |-> Val(row.cash, px), invested |-> 0, pnl |-> pnl,
         feesNet |-> feesNet, inventory |-> pnl - feesNet]
  BY DEF Summarize, PriceIn, FeesIn, ValueIn
<1>2. row.cash \in Legs /\ row.fees \in Legs /\ row.perf \in Legs
  BY DEF RowType
<1>3. px \in {0, Par, Limit} /\ fees \in Legs /\ value \in Int
  <2>1. PriceIn(snap) \in {0, Par} /\ FeesIn(snap) \in Amounts /\ ValueIn(snap) \in Nat
    BY SnapIs
  <2> QED
    BY <2>1, AmountIs
<1> HIDE DEF px, fees, value
<1>4. Val(row.fees, px) \in Int /\ Val(fees, px) \in Int /\ Val(row.perf, px) \in Int
      /\ Val(row.cash, px) \in Int
  BY <1>2, <1>3, ValTyped
<1>5. feesNet \in Int /\ pnl \in Int /\ pnl - feesNet \in Int
  BY <1>3, <1>4
<1>6. Summarize(row, snap) \in SummaryType
  BY <1>1, <1>3, <1>4, <1>5 DEF SummaryType
<1>7. Summarize(row, snap).value = value /\ Summarize(row, snap).feesNet = feesNet
  BY <1>1
<1> QED
  BY <1>6, <1>7 DEF px, fees, value

-----------------------------------------------------------------------------
(* The price at a time is one of the series.                               *)

LEMMA PriceAtIs ==
  ASSUME NEW series, series # {}, \A s \in series : s.ts \in Nat, NEW ts \in Nat
  PROVE  \E s \in series : PriceAt(series, ts) = s.price
<1> DEFINE distance(s) == IF s.ts < ts THEN ts - s.ts ELSE s.ts - ts
           nearest == {s \in series : \A t \in series : distance(s) <= distance(t)}
           Ds == {distance(s) : s \in series}
<1>1. Ds \in SUBSET Nat /\ Ds # {}
  OBVIOUS
<1>2. PICK d \in Ds : \A j \in Ds : d <= j
  <2> HIDE DEF Ds
  <2> QED
    BY <1>1, Least
<1>3. PICK s \in series : distance(s) = d
  BY <1>2
<1>4. s \in nearest
  BY <1>2, <1>3
<1> DEFINE Ts == {t.ts : t \in nearest}
<1>5. Ts \in SUBSET Nat /\ Ts # {}
  BY <1>4
<1>6. PICK u \in Ts : \A j \in Ts : u <= j
  <2> HIDE DEF Ts
  <2> QED
    BY <1>5, Least
<1>7. PICK x \in nearest : x.ts = u
  BY <1>6
<1>8. \A t \in nearest : x.ts <= t.ts
  BY <1>6, <1>7
<1> DEFINE y == CHOOSE z \in nearest : \A t \in nearest : z.ts <= t.ts
<1>9. y \in nearest
  <2> HIDE DEF nearest
  <2> QED
    BY <1>7, <1>8
<1>10. PriceAt(series, ts) = y.price
  BY DEF PriceAt
<1>11. y \in series
  BY <1>9
<1> QED
  BY <1>10, <1>11

Series == SUBSET [ts : Nat, price : {0, Par, Limit}]

LEMMA PriceAtTyped ==
  ASSUME NEW series \in Series, NEW ts \in Nat
  PROVE  PriceAt(series, ts) \in {0, Par, Limit}
<1>1. CASE series = {}
  BY <1>1 DEF PriceAt
<1>2. CASE series # {}
  <2>1. \A s \in series : s.ts \in Nat /\ s.price \in {0, Par, Limit}
    BY DEF Series
  <2>2. \E s \in series : PriceAt(series, ts) = s.price
    BY <1>2, <2>1, PriceAtIs
  <2> QED
    BY <2>1, <2>2
<1> QED
  BY <1>1, <1>2

(* The value of an event at a series' price.                               *)
ValueAt(series, k) == Val(log[k].delta, PriceAt(series, log[k].ts))

LEMMA ValueAtTyped ==
  ASSUME log \in Seq(Event), NEW series \in Series, NEW k \in DOMAIN log
  PROVE  ValueAt(series, k) \in Int
<1>1. log[k].delta \in Legs /\ log[k].ts \in Nat
  BY LogTyped
<1>2. PriceAt(series, log[k].ts) \in {0, Par, Limit}
  BY <1>1, PriceAtTyped
<1> QED
  BY <1>1, <1>2, ValTyped DEF ValueAt

LEMMA CashflowIs ==
  ASSUME log \in Seq(Event), NEW series \in Series, NEW evs \in SUBSET DOMAIN log
  PROVE  LET f == FixedCashflow(evs, series)
         IN  /\ f.total = SumFunctionOnSet([k \in evs |-> ValueAt(series, k)], evs)
             /\ f.total \in Int
             /\ f.invested \in Nat
<1> DEFINE v == [k \in evs |-> ValueAt(series, k)]
           lost == {k \in evs : v[k] < 0}
           w == [k \in lost |-> -v[k]]
<1>1. IsFiniteSet(evs)
  BY SumsTyped
<1>2. \A k \in evs : v[k] \in Int
  BY ValueAtTyped
<1>3. IsFiniteSet(lost)
  BY <1>1, FS_Subset
<1>4. \A k \in lost : w[k] \in Nat
  BY <1>2
<1>5. FixedCashflow(evs, series)
        = [total |-> SumFunctionOnSet(v, evs), invested |-> SumFunctionOnSet(w, lost)]
  BY DEF FixedCashflow, ValueAt, SumFunction
<1> HIDE DEF v, lost, w
<1>6. SumFunctionOnSet(v, evs) \in Int
  BY <1>1, <1>2, SumType DEF Integral
<1>7. SumFunctionOnSet(w, lost) \in Nat
  BY <1>3, <1>4, SumNat
<1> QED
  BY <1>5, <1>6, <1>7 DEF v

LEMMA FixedIs ==
  ASSUME log \in Seq(Event), NEW s \in SummaryType, NEW series \in Series,
         NEW evs \in SUBSET DOMAIN log
  PROVE  /\ Fixed(s, evs, series) \in SummaryType
         /\ Fixed(s, evs, series).feesNet = s.feesNet
         /\ evs # {} =>
              Fixed(s, evs, series).pnl =
                s.value + SumFunctionOnSet([k \in evs |-> ValueAt(series, k)], evs)
<1> DEFINE f == FixedCashflow(evs, series)
           pnl == s.value + f.total
           r == [value |-> s.value, cashflow |-> f.total, invested |-> f.invested, pnl |-> pnl,
                 feesNet |-> s.feesNet, inventory |-> pnl - s.feesNet]
<1>1. /\ f.total = SumFunctionOnSet([k \in evs |-> ValueAt(series, k)], evs)
      /\ f.total \in Int /\ f.invested \in Nat
  BY CashflowIs
<1>2. CASE evs = {}
  BY <1>2 DEF Fixed
<1>3. CASE evs # {}
  <2>1. Fixed(s, evs, series) =
          [s EXCEPT !.cashflow = f.total, !.invested = f.invested, !.pnl = pnl,
                    !.inventory = pnl - s.feesNet]
    BY <1>3 DEF Fixed
  <2> HIDE DEF f
  <2>2. s.value \in Int /\ s.feesNet \in Int
    BY DEF SummaryType
  <2>3. Fixed(s, evs, series) = r
    BY <2>1 DEF SummaryType
  <2>4. pnl \in Int /\ pnl - s.feesNet \in Int
    BY <1>1, <2>2
  <2>5. r \in SummaryType
    <3> HIDE DEF pnl
    <3> QED
      BY <1>1, <2>2, <2>4 DEF SummaryType
  <2>6. r.feesNet = s.feesNet /\ r.pnl = s.value + f.total
    OBVIOUS
  <2> QED
    BY <1>1, <2>3, <2>5, <2>6
<1> QED
  BY <1>2, <1>3

-----------------------------------------------------------------------------
(* The other steps leave the chain alone.                                  *)

LEMMA PassIs ==
  ASSUME NEW pss \in PassType
  PROVE  /\ pss.ts \in Nat /\ pss.todo \subseteq Positions /\ pss.price \in Price
         /\ pss.drafts \subseteq MarkType /\ pss.skip \in BOOLEAN
         /\ pss # None
  BY ConstantsAssumption DEF PassType

LEMMA DraftsAre ==
  ASSUME pass \in PassType \cup {None}
  PROVE  Drafts \subseteq MarkType /\ (pass # None => pass \in PassType /\ Drafts = pass.drafts)
BY PassIs DEF Drafts

LEMMA IndexInv ==
  ASSUME ChainInv, Index
  PROVE  ChainInv'
<1>1. UNCHANGED chain /\ clock' = clock /\ passes' = passes /\ log' = log
  BY DEF Index, chain
<1>2. Conserved' /\ ClosedRests'
  BY <1>1, BalanceStays DEF ChainInv
<1>3. Ticks'
  BY <1>1 DEF ChainInv, Ticks
<1>4. indexed' \in 0 .. Len(log')
  BY <1>1, LogTyped DEF ChainInv, TypeOK, Index
<1>5. TypeOK'
  BY <1>4 DEF ChainInv, TypeOK, Index, chain
<1> QED
  BY <1>2, <1>3, <1>5 DEF ChainInv

(* A mark of an opening, and what it knows.                                *)
LEMMA OpeningIs ==
  ASSUME ChainInv, Opens, NEW k \in DOMAIN log, log[k].name = "opened", NEW m \in OpeningMarks(k)
  PROVE  /\ m \in MarkType /\ m.position = log[k].position /\ m.ts = log[k].ts
         /\ Knows(m, k) /\ k \in 0 .. Len(log)
<1> DEFINE in == Minus(Zero, log[k].delta)
<1>1. log \in Seq(Event)
  BY DEF ChainInv, TypeOK
<1>2. /\ Len(log) \in Nat /\ DOMAIN log = 1 .. Len(log)
      /\ log[k].position \in Positions /\ log[k].ts \in Nat /\ log[k].delta \in Legs
  BY <1>1, LogTyped
<1>3. /\ log[k].fees = Zero /\ log[k].perf = Zero /\ in \in Amounts
      /\ \A j \in DOMAIN log : log[j].position = log[k].position => k <= j
  BY DEF Opens
<1>4. AtPar(in) = -AtPar(log[k].delta) /\ AtPar(in) \in Nat /\ AtPar(log[k].delta) \in Int
  <2>1. PICK a \in Legs : a = log[k].delta
    BY <1>2
  <2>2. a.quote \in Int /\ a.base \in Int
    BY DEF Legs
  <2>3. in = [quote |-> -a.quote, base |-> -a.base]
    BY <2>1, <2>2 DEF Minus, Zero
  <2>4. AtPar(in) \in Nat
    BY <1>3, AmountIs DEF AtPar
  <2>5. AtPar(in) = -a.quote + -a.base
    BY <2>3 DEF AtPar
  <2> QED
    BY <2>1, <2>2, <2>4, <2>5 DEF AtPar
<1>5. PICK price \in Price, amount \in Amounts :
        AtPar(amount) = AtPar(in) /\ m = OpeningMark(k, price, amount)
  <2>1. Par \in Price /\ Limit \in Price
    BY DEF Price
  <2>2. PICK x \in Nat : x = AtPar(in)
    BY <1>4
  <2>3. /\ [quote |-> x, base |-> 0] \in Amounts /\ [quote |-> 0, base |-> x] \in Amounts
        /\ AtPar([quote |-> x, base |-> 0]) = x /\ AtPar([quote |-> 0, base |-> x]) = x
    BY DEF Amounts, AtPar
  <2>4. \/ m = OpeningMark(k, Par, in)
        \/ m = OpeningMark(k, Limit, [quote |-> x, base |-> 0])
        \/ m = OpeningMark(k, Limit, [quote |-> 0, base |-> x])
    BY <2>2 DEF OpeningMarks
  <2> HIDE DEF in
  <2> QED
    BY <1>3, <2>1, <2>2, <2>3, <2>4
<1>6. m = [position |-> log[k].position, ts |-> log[k].ts, price |-> price, amount |-> amount,
           fees |-> Zero, seen |-> 1, earned |-> 0]
  BY <1>5 DEF OpeningMark
<1>7. Zero \in Amounts /\ AtPar(Zero) = 0
  BY DEF Zero, Amounts, AtPar
<1>8. m \in MarkType
  BY <1>2, <1>5, <1>6, <1>7 DEF MarkType
<1>9. PICK p : p = log[k].position
  OBVIOUS
<1>10. UpTo(p, k) = {k}
  BY <1>2, <1>3, <1>9 DEF UpTo
<1>11. Cardinality({k}) = 1
  BY FS_Singleton
<1>12. /\ AtPar(PaidOut({k})) = AtPar(log[k].delta)
       /\ AtPar(FeesOf({k})) = 0
       /\ AtPar(PerfOf({k})) = 0
  <2>1. ASSUME NEW a \in Legs
        PROVE  AtPar(Total([j \in {k} |-> a])) = AtPar(a)
    <3>1. PICK f : f = [j \in {k} |-> a]
      OBVIOUS
    <3>2. AtPar(Total(f)) = SumFunctionOnSet([j \in {k} |-> AtPar(f[j])], {k})
      BY <3>1, FS_Singleton, TotalPar
    <3>3. PICK g : g = [j \in {k} |-> AtPar(f[j])]
      OBVIOUS
    <3>4. g[k] = AtPar(a) /\ AtPar(a) \in Int
      BY <3>1, <3>3 DEF AtPar, Legs
    <3>5. SumFunctionOnSet(g, {k}) = g[k]
      BY <3>4, SumSingle
    <3> QED
      BY <3>1, <3>2, <3>3, <3>4, <3>5
  <2>2. Zero \in Legs
    BY <1>7, AmountIs
  <2>3. /\ [j \in {k} |-> log[j].delta] = [j \in {k} |-> log[k].delta]
        /\ [j \in {k} |-> log[j].fees] = [j \in {k} |-> Zero]
        /\ [j \in {k} |-> log[j].perf] = [j \in {k} |-> Zero]
    BY <1>3
  <2> QED
    BY <1>2, <1>7, <2>1, <2>2, <2>3 DEF PaidOut, FeesOf, PerfOf
<1>13. /\ m.position = p /\ m.seen = 1 /\ m.amount = amount /\ m.fees = Zero /\ m.earned = 0
       /\ m.ts = log[k].ts
  BY <1>6, <1>9
<1>14. Knows(m, k)
  <2>1. UpTo(m.position, k) = {k}
    BY <1>10, <1>13
  <2>2. AtPar(m.amount) + AtPar(m.fees) + AtPar(PaidOut({k})) = m.earned
    <3> HIDE DEF in
    <3> QED
      BY <1>4, <1>5, <1>7, <1>12, <1>13
  <2>3. AtPar(m.fees) + AtPar(FeesOf({k})) - AtPar(PerfOf({k})) = m.earned
    BY <1>7, <1>12, <1>13
  <2> QED
    BY <1>11, <1>13, <2>1, <2>2, <2>3 DEF Knows
<1> QED
  BY <1>2, <1>8, <1>9, <1>13, <1>14

LEMMA IngestOpenedInv ==
  ASSUME ChainInv, Opens, NEW k, IngestOpened(k)
  PROVE  /\ ChainInv'
         /\ k \in DOMAIN log /\ log[k].name = "opened"
         /\ indexed' \in Nat /\ indexed <= indexed' /\ k \in 1 .. indexed'
         /\ \E m \in OpeningMarks(k) :
              marks' = {n \in marks : n.position # m.position \/ n.ts # m.ts} \cup {m}
         /\ UNCHANGED <<clock, chain, candles, navs, pass, passes, request>>
         /\ log' = log
<1>1. /\ k \in DOMAIN log /\ k <= indexed + 1 /\ log[k].name = "opened"
      /\ indexed' = IF k > indexed THEN k ELSE indexed
      /\ UNCHANGED <<clock, chain, candles, navs, pass, passes, request>>
  BY DEF IngestOpened
<1>2. PICK m \in OpeningMarks(k) :
        marks' = {n \in marks : n.position # m.position \/ n.ts # m.ts} \cup {m}
  BY DEF IngestOpened
<1>3. log \in Seq(Event) /\ indexed \in 0 .. Len(log) /\ Len(log) \in Nat
      /\ k \in 1 .. Len(log) /\ log' = log
  BY <1>1, LogTyped DEF ChainInv, TypeOK, chain
<1>4. indexed' \in 0 .. Len(log') /\ indexed' \in Nat /\ indexed <= indexed' /\ k \in 1 .. indexed'
  BY <1>1, <1>3
<1>5. m \in MarkType
  BY <1>1, <1>2, OpeningIs
<1>6. Conserved' /\ ClosedRests'
  BY <1>1, BalanceStays DEF ChainInv
<1>7. Ticks'
  BY <1>1 DEF ChainInv, Ticks, chain
<1>8. \A n \in marks' : n \in MarkType
  BY <1>2, <1>5 DEF ChainInv, TypeOK
<1>9. TypeOK'
  BY <1>1, <1>4, <1>8 DEF ChainInv, TypeOK, chain
<1> QED
  BY <1>1, <1>2, <1>3, <1>4, <1>6, <1>7, <1>9 DEF ChainInv

LEMMA BeginPassInv ==
  ASSUME ChainInv, BeginPass
  PROVE  /\ ChainInv'
         /\ \E price \in Price :
              pass' = [ts |-> clock + 1, todo |-> OpenRows, price |-> price, drafts |-> {},
                       skip |-> FALSE]
         /\ OpenRows # {} /\ pass = None /\ clock' = clock + 1
         /\ UNCHANGED <<held, unclaimed, accrued, log, indexed, candles, marks, navs, request>>
<1>1. UNCHANGED chain /\ log' = log /\ clock' = clock + 1 /\ passes' = passes + 1 /\ passes < MaxPasses
  BY DEF BeginPass, chain
<1>2. Conserved' /\ ClosedRests'
  BY <1>1, BalanceStays DEF ChainInv
<1>3. clock \in Nat /\ passes \in Nat /\ MaxPasses \in Nat /\ MaxTrades \in Nat /\ MaxVerbs \in Nat
      /\ Len(log) \in Nat
  BY ConstantsAssumption, LogTyped DEF ChainInv, TypeOK
<1>4. Ticks'
  BY <1>1, <1>3 DEF ChainInv, Ticks
<1>5. PICK price \in Price :
        pass' = [ts |-> clock', todo |-> OpenRows, price |-> price, drafts |-> {}, skip |-> FALSE]
  BY DEF BeginPass, ReferencePrice
<1>6. pass' \in PassType
  <2>1. OpenRows \in SUBSET Positions /\ clock' \in Nat
    BY <1>1, <1>3 DEF OpenRows
  <2>2. {} \in SUBSET MarkType
    OBVIOUS
  <2> QED
    BY <1>5, <2>1, <2>2 DEF PassType
<1>7. clock' \in 0 .. MaxVerbs + MaxTrades + MaxPasses /\ passes' \in 0 .. MaxPasses
  BY <1>1, <1>3, <1>4 DEF Ticks
<1>8. TypeOK'
  BY <1>6, <1>7 DEF ChainInv, TypeOK, BeginPass, chain, d1
<1>9. UNCHANGED <<held, unclaimed, accrued, log, indexed, candles, marks, navs, request>>
  BY DEF BeginPass, chain, d1
<1>10. OpenRows # {} /\ pass = None
  BY DEF BeginPass
<1> QED
  BY <1>1, <1>2, <1>4, <1>5, <1>8, <1>9, <1>10 DEF ChainInv

(* A step of a pass changes nothing but the pass.                          *)
LEMMA PassStepInv ==
  ASSUME ChainInv, pass' \in PassType \cup {None},
         UNCHANGED <<clock, chain, d1, passes, request>>
  PROVE  ChainInv'
<1>1. Conserved' /\ ClosedRests'
  BY BalanceStays DEF ChainInv
<1>2. Ticks' /\ TypeOK'
  BY DEF ChainInv, Ticks, TypeOK, chain, d1
<1> QED
  BY <1>1, <1>2 DEF ChainInv

(* The mark of a position as it is read.                                   *)
MarkOf(p) ==
  [position |-> p, ts |-> pass.ts, price |-> pass.price,
   amount |-> held[p], fees |-> unclaimed[p], seen |-> Cardinality(MinedOf(p)),
   earned |-> Earned(p)]

LEMMA MarkOfTyped ==
  ASSUME ChainInv, pass # None, NEW p \in Positions
  PROVE  MarkOf(p) \in MarkType
<1>1. /\ held[p] \in Amounts /\ unclaimed[p] \in Amounts /\ accrued[p] \in Nat
      /\ log \in Seq(Event) /\ pass \in PassType
  BY DEF ChainInv, TypeOK
<1>2. pass.ts \in Nat /\ pass.price \in Price
  BY <1>1, PassIs
<1>3. MinedOf(p) \in SUBSET DOMAIN log
  BY DEF MinedOf
<1>4. Cardinality(MinedOf(p)) \in Nat
  BY <1>1, <1>3, SumsTyped, FS_CardinalityType
<1>5. Earned(p) \in Int
  <2>1. PerfOf(MinedOf(p)) \in Legs
    BY <1>1, <1>3, SumsTyped
  <2>2. AtPar(PerfOf(MinedOf(p))) \in Int
    BY <2>1 DEF Legs, AtPar
  <2> QED
    BY <1>1, <2>2, EarnedIs
<1> QED
  BY <1>1, <1>2, <1>4, <1>5 DEF MarkOf, MarkType

LEMMA MarkPositionInv ==
  ASSUME ChainInv, NEW p \in Positions, MarkPosition(p)
  PROVE  /\ ChainInv'
         /\ pass # None /\ pass \in PassType /\ pass' \in PassType /\ p \in pass.todo
         /\ pass'.ts = pass.ts /\ pass'.todo = pass.todo \ {p}
         /\ \/ pass'.drafts = pass.drafts /\ pass'.skip
            \/ /\ pass'.drafts = pass.drafts \cup {MarkOf(p)}
               /\ ~pass'.skip => ~pass.skip /\ PriceOf(MarkOf(p)) = Par
         /\ MarkOf(p) \in MarkType
         /\ UNCHANGED <<clock, chain, d1, passes, request>>
<1>1. pass # None /\ pass \in PassType /\ p \in pass.todo
  BY DEF MarkPosition, ChainInv, TypeOK
<1>2. MarkOf(p) \in MarkType
  BY <1>1, MarkOfTyped
<1>3. PICK skip \in BOOLEAN : skip = (pass.skip \/ ~Open(p) \/ PriceOf(MarkOf(p)) = 0)
  OBVIOUS
<1>4. PICK drafts : drafts = IF Open(p) THEN pass.drafts \cup {MarkOf(p)} ELSE pass.drafts
  OBVIOUS
<1>5. pass' = [pass EXCEPT !.todo = pass.todo \ {p}, !.drafts = drafts, !.skip = skip]
  <2>1. pass' = [pass EXCEPT !.todo = @ \ {p},
                             !.drafts = IF Open(p) THEN @ \cup {MarkOf(p)} ELSE @,
                             !.skip = @ \/ ~Open(p) \/ PriceOf(MarkOf(p)) = 0]
    BY DEF MarkPosition, MarkOf
  <2> QED
    BY <1>3, <1>4, <2>1
<1>6. drafts \in SUBSET MarkType /\ pass.todo \ {p} \in SUBSET Positions
  BY <1>1, <1>2, <1>4, PassIs
<1>7. pass' = [ts |-> pass.ts, todo |-> pass.todo \ {p}, price |-> pass.price, drafts |-> drafts,
               skip |-> skip]
  BY <1>1, <1>5 DEF PassType
<1>8. pass.ts \in Nat /\ pass.price \in Price
  BY <1>1, PassIs
<1>9. pass' \in PassType
  BY <1>3, <1>6, <1>7, <1>8 DEF PassType
<1>10. UNCHANGED <<clock, chain, d1, passes, request>>
  BY DEF MarkPosition
<1>11. ChainInv'
  BY <1>9, <1>10, PassStepInv
<1>12. \/ pass'.drafts = pass.drafts /\ pass'.skip
       \/ /\ pass'.drafts = pass.drafts \cup {MarkOf(p)}
          /\ ~pass'.skip => ~pass.skip /\ PriceOf(MarkOf(p)) = Par
  <2>1. pass'.drafts = drafts /\ pass'.skip = skip /\ PriceOf(MarkOf(p)) \in {0, Par}
    BY <1>2, <1>7, MarkIs
  <2>2. CASE Open(p)
    BY <1>3, <1>4, <2>1, <2>2
  <2>3. CASE ~Open(p)
    BY <1>3, <1>4, <2>1, <2>3
  <2> QED
    BY <2>2, <2>3
<1> QED
  BY <1>1, <1>2, <1>7, <1>9, <1>10, <1>11, <1>12

LEMMA SkipPositionInv ==
  ASSUME ChainInv, NEW p \in Positions, SkipPosition(p)
  PROVE  /\ ChainInv'
         /\ pass # None /\ pass \in PassType /\ pass' \in PassType
         /\ pass'.ts = pass.ts /\ pass'.todo = pass.todo \ {p} /\ pass'.drafts = pass.drafts
         /\ pass'.skip
         /\ UNCHANGED <<clock, chain, d1, passes, request>>
<1>1. pass # None /\ pass \in PassType /\ p \in pass.todo
  BY DEF SkipPosition, ChainInv, TypeOK
<1>2. pass' = [pass EXCEPT !.todo = pass.todo \ {p}, !.skip = TRUE]
  BY DEF SkipPosition
<1>3. pass' = [ts |-> pass.ts, todo |-> pass.todo \ {p}, price |-> pass.price,
               drafts |-> pass.drafts, skip |-> TRUE]
  BY <1>1, <1>2 DEF PassType
<1>4. /\ pass.ts \in Nat /\ pass.price \in Price /\ pass.drafts \in SUBSET MarkType
      /\ pass.todo \ {p} \in SUBSET Positions
  BY <1>1, PassIs
<1>5. pass' \in PassType
  BY <1>3, <1>4 DEF PassType
<1>6. UNCHANGED <<clock, chain, d1, passes, request>>
  BY DEF SkipPosition
<1>7. ChainInv'
  BY <1>5, <1>6, PassStepInv
<1> QED
  BY <1>1, <1>3, <1>5, <1>6, <1>7

(* What a complete pass records.                                           *)
Recorded(drafts) == SumFunction([m \in drafts |-> NavPart(m)])

LEMMA RecordedTyped ==
  ASSUME NEW drafts \in SUBSET MarkType, IsFiniteSet(drafts)
  PROVE  Recorded(drafts) \in Nat
<1>1. PICK f : f = [m \in drafts |-> NavPart(m)]
  OBVIOUS
<1>2. \A m \in drafts : f[m] \in Nat
  BY <1>1, NavPartTyped
<1>3. SumFunctionOnSet(f, drafts) \in Nat
  BY <1>2, SumNat
<1> QED
  BY <1>1, <1>3 DEF Recorded, SumFunction

LEMMA EndPassInv ==
  ASSUME ChainInv, Finite, EndPass
  PROVE  /\ ChainInv'
         /\ pass # None /\ pass \in PassType /\ pass.todo = {} /\ pass' = None
         /\ marks' = marks \cup pass.drafts
         /\ \/ navs' = navs
            \/ /\ ~pass.skip
               /\ navs' = navs \cup {[ts |-> pass.ts, positions |-> Recorded(pass.drafts)]}
         /\ UNCHANGED <<clock, chain, indexed, candles, passes, request>>
<1>1. pass # None /\ pass \in PassType /\ pass.todo = {} /\ pass' = None
  BY DEF EndPass, ChainInv, TypeOK
<1>2. marks' = marks \cup pass.drafts
  BY DEF EndPass
<1>3. UNCHANGED <<clock, chain, indexed, candles, passes, request>>
  BY DEF EndPass
<1>4. \/ navs' = navs
      \/ /\ ~pass.skip
         /\ navs' = navs \cup {[ts |-> pass.ts, positions |-> Recorded(pass.drafts)]}
  BY DEF EndPass, Recorded, NavPart
<1>5. pass.drafts \in SUBSET MarkType /\ IsFiniteSet(pass.drafts) /\ pass.ts \in Nat
  BY <1>1, PassIs DEF Finite, Drafts
<1>6. Recorded(pass.drafts) \in Nat
  BY <1>5, RecordedTyped
<1>7. \A m \in marks' : m \in MarkType
  BY <1>2, <1>5 DEF ChainInv, TypeOK
<1>8. \A n \in navs' : n \in [ts : Nat, positions : Nat]
  BY <1>4, <1>5, <1>6 DEF ChainInv, TypeOK
<1>9. TypeOK'
  BY <1>1, <1>3, <1>7, <1>8 DEF ChainInv, TypeOK, chain
<1>10. Ticks'
  BY <1>3 DEF ChainInv, Ticks, chain
<1>11. Conserved' /\ ClosedRests'
  BY <1>3, BalanceStays DEF ChainInv
<1> QED
  BY <1>1, <1>2, <1>3, <1>4, <1>9, <1>10, <1>11 DEF ChainInv

LEMMA DieInPassInv ==
  ASSUME ChainInv, DieInPass
  PROVE  /\ ChainInv' /\ pass' = None
         /\ UNCHANGED <<clock, chain, d1, passes, request>>
<1>1. pass' = None /\ UNCHANGED <<clock, chain, d1, passes, request>>
  BY DEF DieInPass
<1> QED
  BY <1>1, PassStepInv

(* A read of a request changes nothing but the request.                    *)
LEMMA RequestStepInv ==
  ASSUME ChainInv, request' \in RequestType,
         UNCHANGED <<clock, chain, d1, pass, passes>>
  PROVE  ChainInv'
<1>1. Conserved' /\ ClosedRests'
  BY BalanceStays DEF ChainInv
<1>2. Ticks' /\ TypeOK'
  BY DEF ChainInv, Ticks, TypeOK, chain, d1
<1> QED
  BY <1>1, <1>2 DEF ChainInv

-----------------------------------------------------------------------------
(* Marks, passes and what they record.                                     *)

BookInv == MarksTrue /\ Finite /\ PassesApart /\ TimesApart /\ PassesComplete /\ NavsTrue

(* What was indexed stays so.                                              *)
LEMMA RowsStay ==
  ASSUME Grows, indexed \in 0 .. Len(log), indexed' \in Nat, indexed <= indexed', NEW p
  PROVE  /\ EventsOf(p) \subseteq EventsOf(p)'
         /\ EventsOf(p) \subseteq DOMAIN log
         /\ \A k \in EventsOf(p) : log'[k] = log[k]
         /\ HasRow(p) => HasRow(p)'
BY LogTyped DEF Grows, EventsOf, HasRow

LEMMA ExcusedStays ==
  ASSUME Grows, indexed \in 0 .. Len(log), indexed' \in Nat, indexed <= indexed', NEW m,
         Excused(m)
  PROVE  Excused(m)'
<1>1. PICK p : p = m.position
  OBVIOUS
<1>2. /\ EventsOf(p) \subseteq EventsOf(p)'
      /\ \A k \in EventsOf(p) : log'[k] = log[k]
  BY RowsStay
<1>3. /\ EventsOf(m.position) = EventsOf(p) /\ EventsOf(m.position)' = EventsOf(p)'
  BY <1>1
<1> QED
  BY <1>2, <1>3 DEF Excused, MarkedAtOpening

LEMMA RowsSame ==
  ASSUME UNCHANGED <<log, indexed>>
  PROVE  /\ \A m : Excused(m)' <=> Excused(m)
         /\ \A p : HasRow(p)' <=> HasRow(p)
<1>1. \A p : EventsOf(p)' = EventsOf(p)
  BY DEF EventsOf
<1> QED
  BY <1>1 DEF Excused, MarkedAtOpening, HasRow

(* And what is written stays complete.                                     *)
LEMMA CompleteStays ==
  ASSUME Grows, indexed \in 0 .. Len(log), indexed' \in Nat, indexed <= indexed',
         PassesComplete, UNCHANGED <<marks, navs, pass>>
  PROVE  PassesComplete'
<1>1. \A m \in marks : Excused(m) => Excused(m)'
  BY ExcusedStays
<1>2. \A p : HasRow(p) => HasRow(p)'
  BY RowsStay
<1> QED
  BY <1>1, <1>2 DEF PassesComplete

LEMMA KnowsStays ==
  ASSUME Grows, NEW m, NEW n \in 0 .. Len(log), Knows(m, n)
  PROVE  Knows(m, n)'
<1>1. PICK p : p = m.position
  OBVIOUS
<1>2. UpTo(p, n)' = UpTo(p, n)
  BY PrefixStays
<1>3. /\ PaidOut(UpTo(p, n))' = PaidOut(UpTo(p, n))
      /\ FeesOf(UpTo(p, n))' = FeesOf(UpTo(p, n))
      /\ PerfOf(UpTo(p, n))' = PerfOf(UpTo(p, n))
  BY SumsStay
<1>4. PICK S, a, b, c : /\ S = UpTo(p, n) /\ S = UpTo(p, n)'
                        /\ a = PaidOut(UpTo(p, n)) /\ a = PaidOut(UpTo(p, n))'
                        /\ b = FeesOf(UpTo(p, n)) /\ b = FeesOf(UpTo(p, n))'
                        /\ c = PerfOf(UpTo(p, n)) /\ c = PerfOf(UpTo(p, n))'
  BY <1>2, <1>3
<1>5. /\ m.seen = Cardinality(S)
      /\ AtPar(m.amount) + AtPar(m.fees) + AtPar(a) = m.earned
      /\ AtPar(m.fees) + AtPar(b) - AtPar(c) = m.earned
  BY <1>1, <1>4 DEF Knows
<1> QED
  BY <1>1, <1>4, <1>5 DEF Knows, AtPar

(* A mark of now knows all of the log.                                     *)
LEMMA KnowsNow ==
  ASSUME ChainInv, NEW p \in Positions
  PROVE  Knows(MarkOf(p), Len(log))
<1>1. log \in Seq(Event) /\ held[p] \in Amounts /\ unclaimed[p] \in Amounts /\ accrued[p] \in Nat
  BY DEF ChainInv, TypeOK
<1>2. MinedOf(p) = UpTo(p, Len(log))
  BY <1>1, Prefixes
<1>3. /\ AtPar(held[p]) + AtPar(unclaimed[p]) + AtPar(PaidOut(MinedOf(p))) = Earned(p)
      /\ AtPar(unclaimed[p]) + AtPar(FeesOf(MinedOf(p))) = accrued[p]
  BY DEF ChainInv, Conserved
<1>4. Earned(p) = accrued[p] - AtPar(PerfOf(MinedOf(p)))
  BY <1>1, EarnedIs
<1>5. /\ AtPar(FeesOf(MinedOf(p))) \in Int /\ AtPar(PerfOf(MinedOf(p))) \in Int
      /\ AtPar(unclaimed[p]) \in Int
  <2>1. MinedOf(p) \in SUBSET DOMAIN log
    BY DEF MinedOf
  <2>2. FeesOf(MinedOf(p)) \in Legs /\ PerfOf(MinedOf(p)) \in Legs /\ unclaimed[p] \in Legs
    BY <1>1, <2>1, SumsTyped, AmountIs
  <2> QED
    BY <2>2 DEF Legs, AtPar
<1>6. AtPar(unclaimed[p]) + AtPar(FeesOf(MinedOf(p))) - AtPar(PerfOf(MinedOf(p))) = Earned(p)
  BY <1>1, <1>3, <1>4, <1>5
<1>7. /\ MarkOf(p).position = p /\ MarkOf(p).seen = Cardinality(MinedOf(p))
      /\ MarkOf(p).amount = held[p] /\ MarkOf(p).fees = unclaimed[p]
      /\ MarkOf(p).earned = Earned(p)
  BY DEF MarkOf
<1> QED
  BY <1>2, <1>3, <1>7, <1>6 DEF Knows

LEMMA MarksStay ==
  ASSUME Grows, MarksTrue, NEW o, \E n \in 0 .. Len(log) : Knows(o, n),
         marks' \cup Drafts' \subseteq marks \cup Drafts \cup {o}
  PROVE  MarksTrue'
<1> SUFFICES ASSUME NEW m \in marks' \cup Drafts' PROVE \E n \in 0 .. Len(log') : Knows(m, n)'
  BY DEF MarksTrue
<1>1. PICK n \in 0 .. Len(log) : Knows(m, n)
  BY DEF MarksTrue
<1>2. Knows(m, n)'
  BY <1>1, KnowsStays
<1>3. n \in 0 .. Len(log')
  BY LogTyped DEF Grows
<1> QED
  BY <1>2, <1>3

LEMMA MarksFewer ==
  ASSUME Grows, MarksTrue, marks' \cup Drafts' \subseteq marks \cup Drafts
  PROVE  MarksTrue'
<1> SUFFICES ASSUME NEW m \in marks' \cup Drafts' PROVE \E n \in 0 .. Len(log') : Knows(m, n)'
  BY DEF MarksTrue
<1>1. \E n \in 0 .. Len(log) : Knows(m, n)
  BY DEF MarksTrue
<1>2. marks' \cup Drafts' \subseteq marks \cup Drafts \cup {m}
  OBVIOUS
<1>3. MarksTrue'
  BY <1>1, <1>2, MarksStay
<1> QED
  BY <1>3 DEF MarksTrue

(* Steps of the chain, the indexer and the requests.                       *)
LEMMA BookStays ==
  ASSUME ChainInv, BookInv, Grows, clock' \in Nat, clock <= clock',
         indexed' \in Nat, indexed <= indexed',
         \A k \in DOMAIN log' : k \in DOMAIN log \/ log'[k].ts > clock,
         UNCHANGED <<marks, navs, pass>>
  PROVE  BookInv'
<1>1. Drafts' = Drafts
  BY DEF Drafts
<1>2. MarksTrue'
  <2>1. marks' \cup Drafts' \subseteq marks \cup Drafts
    BY <1>1
  <2> QED
    BY <2>1, MarksFewer DEF BookInv
<1>3. Finite'
  BY <1>1 DEF BookInv, Finite
<1>4. PassesApart'
  <2>1. /\ \A m \in marks : m.ts \in Nat
        /\ \A n \in navs : n.ts \in Nat
        /\ pass # None => pass.ts \in Nat
        /\ clock \in Nat
    BY MarkIs, PassIs DEF ChainInv, TypeOK
  <2>2. (\A m \in marks : m.ts <= clock') /\ (\A n \in navs : n.ts <= clock')
    BY <2>1 DEF BookInv, PassesApart
  <2>3. pass # None => pass.ts <= clock'
    BY <2>1 DEF BookInv, PassesApart
  <2> QED
    BY <1>1, <2>2, <2>3 DEF BookInv, PassesApart, PriceOf, MarkPrice
<1>5. NavsTrue'
  BY DEF BookInv, NavsTrue, NavPart, Val, PriceOf, MarkPrice, Kept
<1>6. TimesApart'
  <2>1. /\ \A n \in navs : n.ts \in Nat /\ n.ts <= clock
        /\ pass # None => pass.ts \in Nat /\ pass.ts <= clock
        /\ clock \in Nat
    BY PassIs DEF ChainInv, TypeOK, BookInv, PassesApart
  <2>2. ASSUME NEW k \in DOMAIN log'
        PROVE  (pass # None => log'[k].ts # pass.ts) /\ \A n \in navs : log'[k].ts # n.ts
    <3>1. CASE k \in DOMAIN log
      <4>1. log'[k] = log[k]
        BY <3>1 DEF Grows
      <4> QED
        BY <3>1, <4>1 DEF BookInv, TimesApart
    <3>2. CASE k \notin DOMAIN log
      <4>1. log'[k].ts > clock /\ log'[k].ts \in Nat
        <5>1. log'[k] \in Event
          BY ElementOfSeq DEF Grows
        <5> QED
          BY <3>2, <5>1 DEF Event
      <4> QED
        BY <2>1, <4>1
    <3> QED
      BY <3>1, <3>2
  <2> QED
    BY <2>2 DEF TimesApart
<1>7. PassesComplete'
  BY CompleteStays DEF ChainInv, TypeOK, BookInv
<1> QED
  BY <1>2, <1>3, <1>4, <1>5, <1>6, <1>7 DEF BookInv

(* Navs stay true as long as no mark or nav is written.                    *)
LEMMA NavsStay ==
  ASSUME NavsTrue, UNCHANGED <<marks, navs>>
  PROVE  NavsTrue'
BY DEF NavsTrue, NavPart, Val, PriceOf, MarkPrice, Kept

(* The mark of an opening takes no other's place, and no pass's time.      *)
LEMMA IngestOpenedBook ==
  ASSUME ChainInv, Opens, BookInv, NEW k, IngestOpened(k)
  PROVE  BookInv'
<1>1. /\ ChainInv'
      /\ k \in DOMAIN log /\ log[k].name = "opened"
      /\ indexed' \in Nat /\ indexed <= indexed' /\ k \in 1 .. indexed'
      /\ UNCHANGED <<clock, chain, candles, navs, pass, passes, request>>
      /\ log' = log
  BY IngestOpenedInv
<1>2. PICK m \in OpeningMarks(k) :
        marks' = {n \in marks : n.position # m.position \/ n.ts # m.ts} \cup {m}
  BY IngestOpenedInv
<1>3. /\ m \in MarkType /\ m.position = log[k].position /\ m.ts = log[k].ts
      /\ Knows(m, k) /\ k \in 0 .. Len(log)
  BY <1>1, <1>2, OpeningIs
<1>4. /\ log \in Seq(Event) /\ indexed \in 0 .. Len(log) /\ Grows /\ Drafts' = Drafts
  BY <1>1, GrowsSame DEF ChainInv, TypeOK, Drafts
<1>5. /\ pass # None => m.ts # pass.ts
      /\ \A n \in navs : m.ts # n.ts
      /\ m.ts <= clock
  BY <1>1, <1>3 DEF BookInv, TimesApart, Opens
<1>6. /\ m \in marks'
      /\ \A o \in marks' : o = m \/ o \in marks
      /\ \A o \in marks : o \in marks' \/ o.ts = m.ts
      /\ \A o \in marks' : o.position = m.position /\ o.ts = m.ts => o = m
  BY <1>2
<1> HIDE DEF IngestOpened
<1>7. MarksTrue'
  <2>1. \E n \in 0 .. Len(log) : Knows(m, n)
    BY <1>3
  <2>2. marks' \cup Drafts' \subseteq marks \cup Drafts \cup {m}
    BY <1>4, <1>6
  <2> QED
    BY <1>4, <2>1, <2>2, MarksStay DEF BookInv
<1>8. Finite'
  <2>1. IsFiniteSet(marks \cup {m})
    BY FS_AddElement DEF BookInv, Finite
  <2>2. IsFiniteSet(marks')
    BY <1>6, <2>1, FS_Subset
  <2> QED
    BY <1>1, <1>4, <2>2 DEF BookInv, Finite
<1>9. PassesApart'
  <2>1. \A o \in marks' : o.ts <= clock
    BY <1>5, <1>6 DEF BookInv, PassesApart
  <2>2. pass # None => \A o \in marks' : o.ts # pass.ts
    BY <1>5, <1>6 DEF BookInv, PassesApart
  <2>3. \A d \in Drafts : pass # None /\ d.ts = pass.ts
    BY DEF Drafts, BookInv, PassesApart
  <2>4. \A d, o \in marks' \cup Drafts : d.position = o.position /\ d.ts = o.ts => d = o
    <3>1. \A d \in Drafts : d.ts # m.ts
      BY <1>5, <2>3
    <3>2. \A d, o \in marks \cup Drafts : d.position = o.position /\ d.ts = o.ts => d = o
      BY DEF BookInv, PassesApart
    <3> QED
      BY <1>6, <3>1, <3>2
  <2>5. \A d : PriceOf(d)' = PriceOf(d)
    BY DEF PriceOf, MarkPrice
  <2> QED
    BY <1>1, <1>4, <2>1, <2>2, <2>4, <2>5 DEF BookInv, PassesApart
<1>10. TimesApart'
  BY <1>1 DEF BookInv, TimesApart
<1>11. ASSUME NEW n \in navs PROVE {o \in marks' : o.ts = n.ts} = {o \in marks : o.ts = n.ts}
  BY <1>5, <1>6
<1>12. NavsTrue'
  BY <1>1, <1>11 DEF BookInv, NavsTrue, NavPart, Val, PriceOf, MarkPrice, Kept
<1>13. PassesComplete'
  <2>1. \A o : Excused(o) => Excused(o)'
    BY <1>1, <1>4, ExcusedStays
  <2>2. \A p : HasRow(p) => HasRow(p)'
    BY <1>1, <1>4, RowsStay
  <2>3. k \in EventsOf(m.position)'
    BY <1>1, <1>3 DEF EventsOf
  <2>4. Excused(m)' /\ HasRow(m.position)'
    BY <1>1, <1>3, <2>3 DEF Excused, MarkedAtOpening, HasRow
  <2>5. /\ \A o \in marks : HasRow(o.position)
        /\ \A n \in navs, d \in marks :
             d.ts < n.ts => Excused(d) \/ \E o \in marks : o.position = d.position /\ o.ts = n.ts
    BY DEF BookInv, PassesComplete
  <2>6. \A o \in marks' : HasRow(o.position)'
    BY <1>6, <2>2, <2>4, <2>5
  <2>7. pass # None =>
          /\ \A p \in pass.todo : HasRow(p)'
          /\ \A d \in pass.drafts : HasRow(d.position)'
          /\ ~pass.skip => \A d \in marks' :
               \/ Excused(d)'
               \/ d.position \in pass.todo
               \/ \E o \in pass.drafts : o.position = d.position
    BY <1>6, <2>1, <2>2, <2>4 DEF BookInv, PassesComplete
  <2>8. ASSUME NEW n \in navs, NEW d \in marks', d.ts < n.ts
        PROVE  Excused(d)' \/ \E o \in marks' : o.position = d.position /\ o.ts = n.ts
    BY <1>5, <1>6, <2>1, <2>4, <2>5, <2>8
  <2> QED
    BY <1>1, <2>6, <2>7, <2>8 DEF PassesComplete
<1> QED
  BY <1>7, <1>8, <1>9, <1>10, <1>12, <1>13 DEF BookInv

LEMMA BeginPassBook ==
  ASSUME ChainInv, Opens, BookInv, BeginPass
  PROVE  BookInv'
<1>1. /\ \E price \in Price :
           pass' = [ts |-> clock + 1, todo |-> OpenRows, price |-> price, drafts |-> {},
                    skip |-> FALSE]
      /\ OpenRows # {} /\ pass = None /\ clock' = clock + 1
      /\ UNCHANGED <<held, unclaimed, accrued, log, indexed, candles, marks, navs, request>>
  BY BeginPassInv
<1>2. pass'.ts = clock + 1 /\ pass'.todo = OpenRows /\ pass'.drafts = {} /\ ~pass'.skip
  BY <1>1
<1>3. Drafts = {} /\ Drafts' = {}
  BY <1>1, <1>2 DEF Drafts
<1>4. MarksTrue'
  <2>1. marks' \cup Drafts' \subseteq marks \cup Drafts
    BY <1>1, <1>3
  <2>2. Grows
    BY <1>1, GrowsSame DEF ChainInv, TypeOK
  <2> QED
    BY <2>1, <2>2, MarksFewer DEF BookInv
<1>5. Finite'
  BY <1>1, <1>3 DEF BookInv, Finite
<1>6. PassesApart'
  <2>1. /\ \A m \in marks : m.ts \in Nat
        /\ \A n \in navs : n.ts \in Nat
        /\ clock \in Nat
    BY MarkIs DEF ChainInv, TypeOK
  <2>2. (\A m \in marks : m.ts <= clock') /\ (\A n \in navs : n.ts <= clock')
    BY <1>1, <2>1 DEF BookInv, PassesApart
  <2>3. (\A m \in marks : m.ts # pass'.ts) /\ (\A n \in navs : n.ts < pass'.ts)
    BY <1>2, <2>1 DEF BookInv, PassesApart
  <2>4. pass'.ts <= clock'
    BY <1>1, <1>2, <2>1
  <2>5. \A m, o \in marks' \cup Drafts' : m.position = o.position /\ m.ts = o.ts => m = o
    BY <1>1, <1>3 DEF BookInv, PassesApart
  <2> QED
    BY <1>1, <1>2, <2>2, <2>3, <2>4, <2>5 DEF PassesApart
<1>7. NavsTrue'
  BY <1>1, NavsStay DEF BookInv
<1>8. TimesApart'
  <2>1. \A k \in DOMAIN log : log[k].ts \in Nat /\ log[k].ts <= clock /\ clock \in Nat
    BY LogTyped DEF Opens, ChainInv, TypeOK
  <2>2. \A k \in DOMAIN log : log[k].ts # pass'.ts
    BY <1>2, <2>1
  <2> QED
    BY <1>1, <2>2 DEF BookInv, TimesApart
<1>9. PassesComplete'
  <2>1. \A m : Excused(m)' <=> Excused(m)
    BY <1>1, RowsSame
  <2>2. \A p : HasRow(p)' <=> HasRow(p)
    BY <1>1, RowsSame
  <2>3. ASSUME NEW m \in marks PROVE Excused(m) \/ m.position \in OpenRows
    <3>1. m.position \in Positions /\ HasRow(m.position)
      BY MarkIs DEF ChainInv, TypeOK, BookInv, PassesComplete
    <3> QED
      BY <3>1 DEF OpenRows, Excused
  <2>4. \A p \in OpenRows : HasRow(p)
    BY DEF OpenRows
  <2>5. /\ \A m \in marks : HasRow(m.position)
        /\ \A n \in navs, m \in marks :
             m.ts < n.ts => Excused(m) \/ \E o \in marks : o.position = m.position /\ o.ts = n.ts
    BY DEF BookInv, PassesComplete
  <2> QED
    BY <1>1, <1>2, <2>1, <2>2, <2>3, <2>4, <2>5 DEF PassesComplete
<1> QED
  BY <1>4, <1>5, <1>6, <1>7, <1>8, <1>9 DEF BookInv

LEMMA MarkPositionBook ==
  ASSUME ChainInv, BookInv, NEW p \in Positions, MarkPosition(p)
  PROVE  BookInv'
<1>1. /\ ChainInv'
      /\ pass # None /\ pass \in PassType /\ pass' \in PassType /\ p \in pass.todo
      /\ pass'.ts = pass.ts /\ pass'.todo = pass.todo \ {p}
      /\ \/ pass'.drafts = pass.drafts /\ pass'.skip
         \/ /\ pass'.drafts = pass.drafts \cup {MarkOf(p)}
            /\ ~pass'.skip => ~pass.skip /\ PriceOf(MarkOf(p)) = Par
      /\ MarkOf(p) \in MarkType
      /\ UNCHANGED <<clock, chain, d1, passes, request>>
  BY MarkPositionInv
<1>2. /\ log' = log /\ marks' = marks /\ navs' = navs /\ candles' = candles /\ clock' = clock
      /\ indexed' = indexed
  BY <1>1 DEF chain, d1
<1>3. Drafts = pass.drafts /\ Drafts' = pass'.drafts /\ pass' # None
  BY <1>1, PassIs DEF Drafts
<1>4. PICK m : m = MarkOf(p)
  OBVIOUS
<1>5. m.position = p /\ m.ts = pass.ts
  BY <1>4 DEF MarkOf
<1>6. /\ pass'.drafts \subseteq pass.drafts \cup {m}
      /\ pass.drafts \subseteq pass'.drafts
      /\ ~pass'.skip => m \in pass'.drafts /\ ~pass.skip /\ PriceOf(m) = Par
  BY <1>1, <1>4
<1>7. Knows(m, Len(log)) /\ Len(log) \in 0 .. Len(log)
  BY <1>4, KnowsNow, LogTyped DEF ChainInv, TypeOK
<1>8. MarksTrue'
  <2>1. marks' \cup Drafts' \subseteq marks \cup Drafts \cup {m}
    BY <1>2, <1>3, <1>6
  <2>2. Grows
    BY <1>2, GrowsSame DEF ChainInv, TypeOK
  <2>3. \E n \in 0 .. Len(log) : Knows(m, n)
    BY <1>7
  <2> QED
    BY <2>1, <2>2, <2>3, MarksStay DEF BookInv
<1>9. Finite'
  <2>1. IsFiniteSet(Drafts \cup {m})
    BY FS_AddElement DEF BookInv, Finite
  <2>2. IsFiniteSet(Drafts')
    BY <1>3, <1>6, <2>1, FS_Subset
  <2> QED
    BY <1>2, <2>2 DEF BookInv, Finite
<1>10. PassesApart'
  <2>1. \A d \in pass.drafts : d.ts = pass.ts /\ d.position \notin pass.todo
    BY <1>1 DEF BookInv, PassesApart
  <2>2. \A d \in pass'.drafts : d.ts = pass'.ts /\ d.position \notin pass'.todo
    BY <1>1, <1>5, <1>6, <2>1
  <2>3. \A d \in marks \cup pass.drafts : ~(d.position = m.position /\ d.ts = m.ts)
    <3>1. \A d \in pass.drafts : d.position # m.position
      BY <1>1, <1>5, <2>1
    <3>2. \A d \in marks : d.ts # m.ts
      BY <1>1, <1>5 DEF BookInv, PassesApart
    <3> QED
      BY <3>1, <3>2
  <2>4. \A d, o \in marks \cup pass.drafts : d.position = o.position /\ d.ts = o.ts => d = o
    BY <1>3 DEF BookInv, PassesApart
  <2>5. \A d, o \in marks' \cup Drafts' : d.position = o.position /\ d.ts = o.ts => d = o
    BY <1>2, <1>3, <1>6, <2>3, <2>4
  <2>6. ~pass'.skip => pass'.todo # {} \/ pass'.drafts # {}
    BY <1>6
  <2>7. /\ \A d \in marks : d.ts <= clock
        /\ \A n \in navs : n.ts <= clock
        /\ pass.ts <= clock
        /\ \A d \in marks : d.ts # pass.ts
        /\ \A n \in navs : n.ts < pass.ts
        /\ ~pass.skip => \A d \in pass.drafts : PriceOf(d) = Par
    BY <1>1 DEF BookInv, PassesApart
  <2>8. ~pass'.skip => \A d \in pass'.drafts : PriceOf(d) = Par
    BY <1>6, <2>7
  <2>9. \A d : PriceOf(d)' = PriceOf(d)
    BY DEF PriceOf, MarkPrice
  <2> QED
    BY <1>1, <1>2, <2>2, <2>5, <2>6, <2>7, <2>8, <2>9 DEF PassesApart
<1>11. NavsTrue'
  BY <1>2, NavsStay DEF BookInv
<1>12. TimesApart'
  BY <1>1, <1>2 DEF BookInv, TimesApart
<1>13. PassesComplete'
  <2>1. \A d : Excused(d)' <=> Excused(d)
    BY <1>2, RowsSame
  <2>2. \A q : HasRow(q)' <=> HasRow(q)
    BY <1>2, RowsSame
  <2>3. /\ \A d \in marks : HasRow(d.position)
        /\ \A q \in pass.todo : HasRow(q)
        /\ \A d \in pass.drafts : HasRow(d.position)
        /\ ~pass.skip => \A d \in marks :
             \/ Excused(d)
             \/ d.position \in pass.todo
             \/ \E o \in pass.drafts : o.position = d.position
        /\ \A n \in navs, d \in marks :
             d.ts < n.ts => Excused(d) \/ \E o \in marks : o.position = d.position /\ o.ts = n.ts
    BY <1>1 DEF BookInv, PassesComplete
  <2>4. \A d \in pass'.drafts : HasRow(d.position)
    BY <1>1, <1>5, <1>6, <2>3
  <2>5. ASSUME ~pass'.skip, NEW d \in marks
        PROVE  \/ Excused(d)
               \/ d.position \in pass'.todo
               \/ \E o \in pass'.drafts : o.position = d.position
    BY <1>1, <1>5, <1>6, <2>3, <2>5
  <2> QED
    BY <1>1, <1>2, <2>1, <2>2, <2>3, <2>4, <2>5 DEF PassesComplete
<1> QED
  BY <1>8, <1>9, <1>10, <1>11, <1>12, <1>13 DEF BookInv

LEMMA SkipPositionBook ==
  ASSUME ChainInv, BookInv, NEW p \in Positions, SkipPosition(p)
  PROVE  BookInv'
<1>1. /\ pass # None /\ pass \in PassType /\ pass' \in PassType
      /\ pass'.ts = pass.ts /\ pass'.todo = pass.todo \ {p} /\ pass'.drafts = pass.drafts
      /\ pass'.skip
      /\ UNCHANGED <<clock, chain, d1, passes, request>>
  BY SkipPositionInv
<1>2. /\ log' = log /\ marks' = marks /\ navs' = navs /\ candles' = candles /\ clock' = clock
      /\ indexed' = indexed
  BY <1>1 DEF chain, d1
<1>3. Drafts = pass.drafts /\ Drafts' = pass.drafts /\ pass' # None
  BY <1>1, PassIs DEF Drafts
<1>4. MarksTrue'
  <2>1. marks' \cup Drafts' \subseteq marks \cup Drafts
    BY <1>2, <1>3
  <2>2. Grows
    BY <1>2, GrowsSame DEF ChainInv, TypeOK
  <2> QED
    BY <2>1, <2>2, MarksFewer DEF BookInv
<1>5. Finite'
  BY <1>2, <1>3 DEF BookInv, Finite
<1>6. PassesApart'
  <2>1. /\ \A d \in marks : d.ts <= clock
        /\ \A n \in navs : n.ts <= clock
        /\ pass.ts <= clock
        /\ \A d \in marks : d.ts # pass.ts
        /\ \A n \in navs : n.ts < pass.ts
        /\ \A d \in pass.drafts : d.ts = pass.ts /\ d.position \notin pass.todo
        /\ \A d, o \in marks \cup Drafts : d.position = o.position /\ d.ts = o.ts => d = o
    BY <1>1 DEF BookInv, PassesApart
  <2> QED
    BY <1>1, <1>2, <1>3, <2>1 DEF PassesApart
<1>7. NavsTrue'
  BY <1>2, NavsStay DEF BookInv
<1>8. TimesApart'
  BY <1>1, <1>2 DEF BookInv, TimesApart
<1>9. PassesComplete'
  <2>1. \A d : Excused(d)' <=> Excused(d)
    BY <1>2, RowsSame
  <2>2. \A q : HasRow(q)' <=> HasRow(q)
    BY <1>2, RowsSame
  <2> QED
    BY <1>1, <1>2, <2>1, <2>2 DEF BookInv, PassesComplete
<1> QED
  BY <1>4, <1>5, <1>6, <1>7, <1>8, <1>9 DEF BookInv

LEMMA DieInPassBook ==
  ASSUME ChainInv, BookInv, DieInPass
  PROVE  BookInv'
<1>1. pass' = None /\ UNCHANGED <<clock, chain, d1, passes, request>>
  BY DieInPassInv
<1>2. /\ log' = log /\ marks' = marks /\ navs' = navs /\ candles' = candles /\ clock' = clock
      /\ indexed' = indexed
  BY <1>1 DEF chain, d1
<1>3. Drafts' = {}
  BY <1>1 DEF Drafts
<1>4. MarksTrue'
  <2>1. marks' \cup Drafts' \subseteq marks \cup Drafts
    BY <1>2, <1>3
  <2>2. Grows
    BY <1>2, GrowsSame DEF ChainInv, TypeOK
  <2> QED
    BY <2>1, <2>2, MarksFewer DEF BookInv
<1>5. Finite'
  BY <1>2, <1>3, FS_EmptySet DEF BookInv, Finite
<1>6. PassesApart'
  BY <1>1, <1>2, <1>3 DEF BookInv, PassesApart
<1>7. NavsTrue'
  BY <1>2, NavsStay DEF BookInv
<1>8. TimesApart'
  BY <1>1, <1>2 DEF BookInv, TimesApart
<1>9. PassesComplete'
  <2>1. \A d : Excused(d)' <=> Excused(d)
    BY <1>2, RowsSame
  <2>2. \A q : HasRow(q)' <=> HasRow(q)
    BY <1>2, RowsSame
  <2> QED
    BY <1>1, <1>2, <2>1, <2>2 DEF BookInv, PassesComplete
<1> QED
  BY <1>4, <1>5, <1>6, <1>7, <1>8, <1>9 DEF BookInv

(* What a pass writes was marked in it, and nothing else has its time.     *)
LEMMA EndPassBook ==
  ASSUME ChainInv, BookInv, EndPass
  PROVE  BookInv'
<1>1. /\ pass # None /\ pass \in PassType /\ pass.todo = {} /\ pass' = None
      /\ marks' = marks \cup pass.drafts
      /\ \/ navs' = navs
         \/ /\ ~pass.skip
            /\ navs' = navs \cup {[ts |-> pass.ts, positions |-> Recorded(pass.drafts)]}
      /\ UNCHANGED <<clock, chain, indexed, candles, passes, request>>
  BY EndPassInv DEF BookInv
<1>2. log' = log /\ candles' = candles /\ clock' = clock /\ indexed' = indexed
  BY <1>1 DEF chain
<1>3. Drafts = pass.drafts /\ Drafts' = {}
  BY <1>1 DEF Drafts
<1>4. /\ \A d \in marks : d.ts <= clock /\ d.ts # pass.ts /\ d.ts \in Nat
      /\ \A n \in navs : n.ts <= clock /\ n.ts < pass.ts /\ n.ts \in Nat
      /\ pass.ts <= clock /\ pass.ts \in Nat /\ clock \in Nat
      /\ \A d \in pass.drafts : d.ts = pass.ts
      /\ ~pass.skip => pass.drafts # {} /\ \A d \in pass.drafts : PriceOf(d) = Par
      /\ \A d, o \in marks \cup Drafts : d.position = o.position /\ d.ts = o.ts => d = o
  BY <1>1, MarkIs, PassIs DEF BookInv, PassesApart, ChainInv, TypeOK
<1>5. MarksTrue'
  <2>1. marks' \cup Drafts' \subseteq marks \cup Drafts
    BY <1>1, <1>3
  <2>2. Grows
    BY <1>2, GrowsSame DEF ChainInv, TypeOK
  <2> QED
    BY <2>1, <2>2, MarksFewer DEF BookInv
<1>6. Finite'
  <2>1. IsFiniteSet(marks \cup pass.drafts)
    BY <1>3, FS_Union DEF BookInv, Finite
  <2>2. IsFiniteSet(navs')
    BY <1>1, FS_AddElement DEF BookInv, Finite
  <2> QED
    BY <1>1, <1>2, <1>3, <2>1, <2>2, FS_EmptySet DEF BookInv, Finite
<1>7. PassesApart'
  <2>1. \A d \in marks' : d.ts <= clock'
    BY <1>1, <1>2, <1>4
  <2>2. \A n \in navs' : n.ts <= clock'
    BY <1>1, <1>2, <1>4
  <2>3. \A d, o \in marks' \cup Drafts' : d.position = o.position /\ d.ts = o.ts => d = o
    BY <1>1, <1>3, <1>4
  <2> QED
    BY <1>1, <2>1, <2>2, <2>3 DEF PassesApart
<1>8. NavsTrue'
  <2> SUFFICES ASSUME NEW n \in navs'
               PROVE  LET last == {m \in marks' : m.ts = n.ts}
                      IN  /\ last # {}
                          /\ \A m \in last : PriceOf(m) = Par
                          /\ n.positions = SumFunction([m \in last |-> NavPart(m)])
    BY DEF NavsTrue, NavPart, Val, PriceOf, MarkPrice, Kept
  <2>1. CASE n \in navs
    <3>1. {m \in marks' : m.ts = n.ts} = {m \in marks : m.ts = n.ts}
      BY <1>1, <1>4, <2>1
    <3> QED
      BY <2>1, <3>1 DEF BookInv, NavsTrue
  <2>2. CASE n \notin navs
    <3>1. /\ ~pass.skip
          /\ n = [ts |-> pass.ts, positions |-> Recorded(pass.drafts)]
      BY <1>1, <2>2
    <3>2. n.ts = pass.ts /\ n.positions = Recorded(pass.drafts)
      BY <3>1
    <3>3. {m \in marks' : m.ts = n.ts} = pass.drafts
      BY <1>1, <1>4, <3>2
    <3> QED
      BY <1>4, <3>1, <3>2, <3>3 DEF Recorded
  <2> QED
    BY <2>1, <2>2
<1>9. TimesApart'
  BY <1>1, <1>2 DEF BookInv, TimesApart
<1>10. PassesComplete'
  <2>1. \A d : Excused(d)' <=> Excused(d)
    BY <1>2, RowsSame
  <2>2. \A q : HasRow(q)' <=> HasRow(q)
    BY <1>2, RowsSame
  <2>3. /\ \A d \in marks : HasRow(d.position)
        /\ \A d \in pass.drafts : HasRow(d.position)
        /\ ~pass.skip => \A d \in marks :
             Excused(d) \/ \E o \in pass.drafts : o.position = d.position
        /\ \A n \in navs, d \in marks :
             d.ts < n.ts => Excused(d) \/ \E o \in marks : o.position = d.position /\ o.ts = n.ts
    BY <1>1 DEF BookInv, PassesComplete
  <2>4. ASSUME NEW n \in navs', NEW d \in marks', d.ts < n.ts
        PROVE  Excused(d) \/ \E o \in marks' : o.position = d.position /\ o.ts = n.ts
    <3>1. CASE n \in navs
      <4>1. d \in marks
        BY <1>1, <1>4, <2>4, <3>1
      <4> QED
        BY <1>1, <2>3, <2>4, <3>1, <4>1
    <3>2. CASE n \notin navs
      <4>1. ~pass.skip /\ n.ts = pass.ts
        BY <1>1, <3>2
      <4>2. d \in marks
        BY <1>1, <1>4, <2>4, <4>1
      <4>3. Excused(d) \/ \E o \in pass.drafts : o.position = d.position
        BY <2>3, <4>1, <4>2
      <4> QED
        BY <1>1, <1>4, <4>1, <4>3
    <3> QED
      BY <3>1, <3>2
  <2> QED
    BY <1>1, <2>1, <2>2, <2>3, <2>4 DEF PassesComplete
<1> QED
  BY <1>5, <1>6, <1>7, <1>8, <1>9, <1>10 DEF BookInv

-----------------------------------------------------------------------------
(* Requests.                                                               *)

AskInv == Asked /\ Snapped

LEMMA FixedStays ==
  ASSUME Grows, NEW s, NEW series, NEW evs \in SUBSET DOMAIN log
  PROVE  Fixed(s, evs, series)' = Fixed(s, evs, series)
<1>1. \A k \in evs : log'[k] = log[k]
  BY DEF Grows
<1>2. [k \in evs |-> Val(log'[k].delta, PriceAt(series, log'[k].ts))]
        = [k \in evs |-> Val(log[k].delta, PriceAt(series, log[k].ts))]
  BY <1>1
<1>3. PICK v : /\ v = [k \in evs |-> Val(log'[k].delta, PriceAt(series, log'[k].ts))]
               /\ v = [k \in evs |-> Val(log[k].delta, PriceAt(series, log[k].ts))]
  BY <1>2
<1>4. PICK f : f = [total |-> SumFunction(v),
                    invested |-> SumFunction([k \in {k \in evs : v[k] < 0} |-> -v[k]])]
  OBVIOUS
<1>5. FixedCashflow(evs, series) = f
  BY <1>3, <1>4 DEF FixedCashflow
<1>6. FixedCashflow(evs, series)' = f
  BY <1>3, <1>4 DEF FixedCashflow
<1> QED
  BY <1>5, <1>6 DEF Fixed

(* The events a request has read are in the log.                           *)
LEMMA EventsRead ==
  ASSUME ChainInv, Asked, request.pc \in {"series", "candles", "answered"}
  PROVE  request.events \in SUBSET DOMAIN log
<1>1. log \in Seq(Event) /\ indexed \in 0 .. Len(log)
  BY DEF ChainInv, TypeOK
<1>2. PICK n \in 0 .. indexed : \E e \in n .. indexed : request.events = UpTo(request.position, e)
  BY DEF Asked
<1>3. PICK e \in n .. indexed : request.events = UpTo(request.position, e)
  BY <1>2
<1> QED
  BY <1>1, <1>3, LogTyped DEF UpTo

(* What a request knows stays so while the world moves on.                 *)
LEMMA AskStays ==
  ASSUME ChainInv, AskInv, Grows, request' = request, indexed' \in Nat, indexed <= indexed'
  PROVE  AskInv'
<1> DEFINE p == request.position
<1>1. log \in Seq(Event) /\ indexed \in 0 .. Len(log) /\ Len(log) \in Nat /\ indexed \in Nat
  BY LogTyped DEF ChainInv, TypeOK
<1>2. Asked'
  <2> SUFFICES ASSUME request.pc # "row"
               PROVE  /\ p \in Positions
                      /\ \E n \in 0 .. indexed' :
                           /\ UpTo(p, n)' # {}
                           /\ request.row = RowAt(p, n)'
                           /\ request.seen = Cardinality(UpTo(p, n)')
                           /\ request.pc \in {"series", "candles", "answered"} =>
                                \E e \in n .. indexed' : request.events = UpTo(p, e)'
    BY DEF Asked
  <2>1. p \in Positions
    BY DEF AskInv, Asked
  <2>2. PICK n \in 0 .. indexed :
           /\ UpTo(p, n) # {}
           /\ request.row = RowAt(p, n)
           /\ request.seen = Cardinality(UpTo(p, n))
           /\ request.pc \in {"series", "candles", "answered"} =>
                \E e \in n .. indexed : request.events = UpTo(p, e)
    BY DEF AskInv, Asked
  <2>3. PICK q : q = p /\ q = p'
    OBVIOUS
  <2>4. \A k \in 0 .. indexed : UpTo(q, k)' = UpTo(q, k)
    BY <1>1, PrefixStays
  <2>5. RowAt(q, n)' = RowAt(q, n)
    BY <1>1, RowStays
  <2>6. UpTo(q, n)' # {} /\ request.row = RowAt(q, n)' /\ request.seen = Cardinality(UpTo(q, n)')
    BY <2>2, <2>3, <2>4, <2>5
  <2>7. ASSUME request.pc \in {"series", "candles", "answered"}
        PROVE  \E e \in n .. indexed' : request.events = UpTo(q, e)'
    <3>1. PICK e \in n .. indexed : request.events = UpTo(q, e)
      BY <2>2, <2>3, <2>7
    <3>2. e \in 0 .. indexed /\ e \in n .. indexed'
      BY <1>1, <2>2, <3>1
    <3> QED
      BY <2>4, <3>1, <3>2
  <2>8. n \in 0 .. indexed'
    BY <1>1, <2>2
  <2>9. /\ UpTo(p, n)' = UpTo(q, n)' /\ RowAt(p, n)' = RowAt(q, n)'
        /\ \A e : UpTo(p, e)' = UpTo(q, e)'
    BY <2>3
  <2> HIDE DEF p
  <2> QED
    BY <2>1, <2>6, <2>7, <2>8, <2>9
<1>3. Snapped'
  <2>2. \A row, snap : Summarize(row, snap)' = Summarize(row, snap)
    BY DEF Summarize, PriceOf, MarkPrice, Val, Plus, Zero
  <2>3. ASSUME request.pc = "answered"
        PROVE  request.summary =
            Fixed(Summarize(request.row, request.snap), request.events, request.series)'
    <3>1. PICK s, evs, series : /\ s = Summarize(request.row, request.snap)
                                /\ evs = request.events /\ series = request.series
      OBVIOUS
    <3>2. evs \in SUBSET DOMAIN log
      BY <2>3, <3>1, EventsRead DEF AskInv
    <3>3. Fixed(s, evs, series)' = Fixed(s, evs, series)
      BY <3>2, FixedStays
    <3>4. request.summary = Fixed(s, evs, series)
      BY <2>3, <3>1 DEF AskInv, Snapped
    <3>5. s = Summarize(request.row, request.snap)' /\ evs = request.events' /\ series = request.series'
      BY <3>1 DEF Summarize, PriceOf, MarkPrice, Val, Plus, Zero
    <3> QED
      BY <3>1, <3>3, <3>4, <3>5 DEF Fixed, FixedCashflow
  <2>4. ASSUME request.pc \in {"events", "series", "candles", "answered"},
               ~request.row.closed, request.snap # None
        PROVE  \E n \in 0 .. Len(log') : Knows(request.snap, n)'
    <3>1. PICK n \in 0 .. Len(log) : Knows(request.snap, n)
      BY <2>4 DEF AskInv, Snapped
    <3>2. PICK m : m = request.snap /\ m = request.snap'
      OBVIOUS
    <3>3. Knows(m, n)'
      BY <3>1, <3>2, KnowsStays
    <3>4. n \in 0 .. Len(log')
      BY LogTyped DEF Grows
    <3>5. Knows(request.snap, n)' <=> Knows(m, n)'
      BY <3>2 DEF Knows, PaidOut, FeesOf, PerfOf, Total, AtPar, UpTo
    <3> QED
      BY <3>3, <3>4, <3>5
  <2> QED
    BY <2>2, <2>3, <2>4 DEF AskInv, Snapped, Zero
<1> QED
  BY <1>2, <1>3 DEF AskInv

(* The newest mark of a position.                                          *)
LEMMA LatestIs ==
  ASSUME ChainInv, BookInv, NEW p, MarksOf(p) # {}
  PROVE  /\ LatestSnapshot(p) \in MarksOf(p)
         /\ \A n \in MarksOf(p) : n.ts <= LatestSnapshot(p).ts
<1>1. clock \in Nat
  BY DEF ChainInv, TypeOK
<1>2. \A m \in MarksOf(p) : m.ts \in Nat /\ m.ts <= clock
  BY MarkIs DEF MarksOf, ChainInv, TypeOK, BookInv, PassesApart
<1> DEFINE Ts == {m.ts : m \in MarksOf(p)}
<1>3. Ts \in SUBSET (0 .. clock) /\ Ts # {}
  BY <1>1, <1>2
<1>4. PICK t \in Ts : \A j \in Ts : j <= t
  <2> HIDE DEF Ts
  <2> QED
    BY <1>1, <1>3, Greatest
<1>5. PICK m \in MarksOf(p) : m.ts = t
  BY <1>4
<1>6. \A n \in MarksOf(p) : n.ts <= m.ts
  BY <1>4, <1>5
<1>7. LatestSnapshot(p) = CHOOSE x \in MarksOf(p) : \A n \in MarksOf(p) : n.ts <= x.ts
  BY DEF LatestSnapshot
<1> QED
  BY <1>5, <1>6, <1>7

(* What a request reads of the marks.                                      *)
LEMMA SnapshotForIs ==
  ASSUME ChainInv, BookInv, NEW p, NEW closed \in BOOLEAN
  PROVE  LET snap == SnapshotFor(p, closed)
         IN  /\ snap \in MarkType \cup {None}
             /\ closed /\ snap # None => snap.amount = Zero /\ snap.fees = Zero
             /\ ~closed /\ snap # None => snap \in MarksOf(p)
<1> DEFINE snap == SnapshotFor(p, closed)
<1>1. CASE MarksOf(p) = {}
  <2>1. LatestSnapshot(p) = None
    BY <1>1 DEF LatestSnapshot
  <2>2. snap = None
    BY <2>1 DEF SnapshotFor, ClosedFeeSnapshot
  <2> QED
    BY <2>2
<1>2. CASE MarksOf(p) # {}
  <2>1. PICK m \in MarksOf(p) : m = LatestSnapshot(p)
    BY <1>2, LatestIs
  <2>2. m \in MarkType /\ m # None
    BY ConstantsAssumption DEF MarksOf, ChainInv, TypeOK
  <2>3. CASE ~closed
    <3>1. snap = m
      BY <2>1, <2>3 DEF SnapshotFor
    <3> QED
      BY <2>2, <2>3, <3>1
  <2>4. CASE closed
    <3>1. snap = [m EXCEPT !.amount = Zero, !.fees = Zero]
      BY <2>1, <2>2, <2>4 DEF SnapshotFor, ClosedFeeSnapshot
    <3>2. snap = [position |-> m.position, ts |-> m.ts, price |-> m.price, amount |-> Zero,
                  fees |-> Zero, seen |-> m.seen, earned |-> m.earned]
      BY <2>2, <3>1 DEF MarkType
    <3>3. Zero \in Amounts
      BY DEF Zero, Amounts
    <3>4. snap \in MarkType
      BY <2>2, <3>2, <3>3, MarkIs DEF MarkType
    <3>5. snap.amount = Zero /\ snap.fees = Zero
      BY <3>2
    <3> HIDE DEF snap
    <3>6. QED
      BY <2>4, <3>4, <3>5 DEF snap
  <2> QED
    BY <2>3, <2>4
<1> QED
  BY <1>1, <1>2

LEMMA RequestIs ==
  ASSUME request \in RequestType
  PROVE  /\ request.position \in Positions \cup {None} /\ request.row \in RowType \cup {None}
         /\ request.seen \in Nat /\ request.snap \in MarkType \cup {None}
         /\ request.summary \in SummaryType \cup {None} /\ request.events \in SUBSET Nat
         /\ request.series \in Series
         /\ request = [pc |-> request.pc, position |-> request.position, row |-> request.row,
                       seen |-> request.seen, snap |-> request.snap,
                       summary |-> request.summary, events |-> request.events,
                       series |-> request.series]
BY DEF RequestType, Series

LEMMA RequestTyped ==
  ASSUME NEW pc \in {"row", "snapshot", "events", "series", "candles", "answered"},
         NEW position \in Positions \cup {None}, NEW row \in RowType \cup {None},
         NEW seen \in Nat, NEW snap \in MarkType \cup {None},
         NEW summary \in SummaryType \cup {None}, NEW events \in SUBSET Nat,
         NEW series \in Series
  PROVE  [pc |-> pc, position |-> position, row |-> row, seen |-> seen, snap |-> snap,
          summary |-> summary, events |-> events, series |-> series] \in RequestType
BY DEF RequestType, Series

LEMMA ReadRowInv ==
  ASSUME ChainInv, AskInv, NEW p \in Positions, ReadRow(p)
  PROVE  ChainInv' /\ AskInv'
<1>1. /\ request' = [request EXCEPT !.pc = "snapshot", !.position = p, !.row = Row(p),
                                    !.seen = Cardinality(EventsOf(p))]
      /\ UNCHANGED <<clock, chain, d1, pass, passes>>
      /\ EventsOf(p) # {}
  BY DEF ReadRow, HasRow
<1>2. log \in Seq(Event) /\ indexed \in 0 .. Len(log) /\ request \in RequestType
      /\ indexed \in 0 .. indexed /\ indexed \in Nat
  BY LogTyped DEF ChainInv, TypeOK
<1>3. Row(p) = RowAt(p, indexed) /\ Row(p) \in RowType /\ EventsOf(p) = UpTo(p, indexed)
  BY <1>2, RowIs, RowAtTyped, Prefixes
<1>4. Cardinality(EventsOf(p)) \in Nat
  BY <1>2, <1>3, UpToFinite, FS_CardinalityType
<1>5. request' = [pc |-> "snapshot", position |-> p, row |-> Row(p),
                  seen |-> Cardinality(EventsOf(p)), snap |-> request.snap,
                  summary |-> request.summary, events |-> request.events,
                  series |-> request.series]
  BY <1>1, <1>2, RequestIs
<1>6. request' \in RequestType
  BY <1>2, <1>3, <1>4, <1>5, RequestIs, RequestTyped
<1>7. ChainInv'
  BY <1>1, <1>6, RequestStepInv
<1>8. log' = log /\ indexed' = indexed
  BY <1>1 DEF chain, d1
<1>9. /\ request'.pc = "snapshot" /\ request'.position = p /\ request'.row = RowAt(p, indexed)
      /\ request'.seen = Cardinality(UpTo(p, indexed))
  BY <1>3, <1>5
<1>10. Asked'
  <2> SUFFICES /\ p \in Positions
               /\ \E n \in 0 .. indexed' :
                    /\ UpTo(p, n)' # {}
                    /\ request'.row = RowAt(p, n)'
                    /\ request'.seen = Cardinality(UpTo(p, n)')
    BY <1>9 DEF Asked, UpTo, RowAt
  <2>1. PICK n : n = indexed
    OBVIOUS
  <2>2. Grows
    BY <1>2, <1>8, GrowsSame
  <2>3. UpTo(p, n)' = UpTo(p, n) /\ RowAt(p, n)' = RowAt(p, n)
    BY <1>2, <2>1, <2>2, PrefixStays, RowStays
  <2> QED
    BY <1>1, <1>2, <1>3, <1>8, <1>9, <2>1, <2>3
<1>11. Snapped'
  BY <1>9 DEF Snapped
<1> QED
  BY <1>7, <1>10, <1>11 DEF AskInv

LEMMA AskedMoves ==
  ASSUME ChainInv, Asked, request.pc # "row", log' = log, indexed' = indexed,
         request'.position = request.position, request'.row = request.row,
         request'.seen = request.seen,
         \/ request'.pc = "events"
         \/ request.pc \in {"series", "candles"} /\ request'.events = request.events
         \/ request'.events = UpTo(request.position, indexed)
  PROVE  Asked'
<1>1. PICK p : p = request.position /\ p = request'.position
  OBVIOUS
<1>2. indexed \in Nat
  BY LogTyped DEF ChainInv, TypeOK
<1>3. PICK n \in 0 .. indexed :
         /\ UpTo(p, n) # {}
         /\ request.row = RowAt(p, n)
         /\ request.seen = Cardinality(UpTo(p, n))
         /\ request.pc \in {"series", "candles", "answered"} =>
              \E e \in n .. indexed : request.events = UpTo(p, e)
  BY <1>1 DEF Asked
<1>4. request'.pc # "events" => \E e \in n .. indexed : request'.events = UpTo(p, e)
  <2>1. indexed \in n .. indexed
    BY <1>2, <1>3
  <2> QED
    BY <1>1, <1>3, <2>1
<1>5. p \in Positions
  BY <1>1 DEF Asked
<1>6. \A e : UpTo(p, e)' = UpTo(p, e)
  BY DEF UpTo
<1>7. RowAt(p, n)' = RowAt(p, n)
  BY DEF RowAt, UpTo, PaidOut, FeesOf, PerfOf, Total
<1>8. \E k \in 0 .. indexed :
         /\ UpTo(p, k)' # {}
         /\ request'.row = RowAt(p, k)'
         /\ request'.seen = Cardinality(UpTo(p, k)')
         /\ request'.pc \in {"series", "candles", "answered"} =>
              \E e \in k .. indexed : request'.events = UpTo(p, e)'
  BY <1>3, <1>4, <1>6, <1>7
<1>9. /\ \A k : UpTo(request.position, k)' = UpTo(p, k)'
      /\ \A k : RowAt(request.position, k)' = RowAt(p, k)'
  BY <1>1 DEF UpTo, RowAt, PaidOut, FeesOf, PerfOf, Total
<1> QED
  BY <1>1, <1>5, <1>8, <1>9 DEF Asked

LEMMA ReadSnapshotInv ==
  ASSUME ChainInv, BookInv, AskInv, ReadSnapshot
  PROVE  ChainInv' /\ AskInv'
<1>1. PICK snap : snap = SnapshotFor(request.position, request.row.closed)
  OBVIOUS
<1>2. PICK summary : summary = Summarize(request.row, snap)
  OBVIOUS
<1>3. /\ request' = [request EXCEPT !.pc = "events", !.snap = snap, !.summary = summary]
      /\ UNCHANGED <<clock, chain, d1, pass, passes>>
      /\ request.pc = "snapshot"
  BY <1>1, <1>2 DEF ReadSnapshot
<1>4. log \in Seq(Event) /\ indexed \in 0 .. Len(log) /\ request \in RequestType
  BY DEF ChainInv, TypeOK
<1>5. PICK n \in 0 .. indexed : request.row = RowAt(request.position, n)
  BY <1>3 DEF AskInv, Asked
<1>6. request.row \in RowType
  BY <1>4, <1>5, LogTyped, RowAtTyped
<1>7. request.row.closed \in BOOLEAN
  BY <1>6 DEF RowType
<1>8. /\ snap \in MarkType \cup {None}
      /\ request.row.closed /\ snap # None => snap.amount = Zero /\ snap.fees = Zero
      /\ ~request.row.closed /\ snap # None => snap \in MarksOf(request.position)
  BY <1>1, <1>7, SnapshotForIs
<1>9. summary \in SummaryType
  BY <1>2, <1>6, <1>8, SummaryIs
<1>10. request' = [pc |-> "events", position |-> request.position, row |-> request.row,
                   seen |-> request.seen, snap |-> snap, summary |-> summary,
                   events |-> request.events, series |-> request.series]
  BY <1>3, <1>4, RequestIs
<1>11. request' \in RequestType
  BY <1>4, <1>8, <1>9, <1>10, RequestIs, RequestTyped
<1>12. ChainInv'
  BY <1>3, <1>11, RequestStepInv
<1>13. log' = log /\ indexed' = indexed /\ marks' = marks
  BY <1>3 DEF chain, d1
<1>14. /\ request'.pc = "events" /\ request'.position = request.position
       /\ request'.row = request.row /\ request'.seen = request.seen
       /\ request'.snap = snap /\ request'.summary = summary
  BY <1>10
<1>15. Asked'
  BY <1>3, <1>13, <1>14, AskedMoves DEF AskInv
<1>16. Snapped'
  <2>1. Summarize(request.row, request.snap)' = summary
    BY <1>2, <1>14 DEF Summarize, PriceOf, MarkPrice, Val, Plus, Zero
  <2>2. ASSUME ~request.row.closed, snap # None
        PROVE  snap.position = request.position /\ \E k \in 0 .. Len(log) : Knows(snap, k)
    BY <1>8, <2>2 DEF MarksOf, BookInv, MarksTrue
  <2>3. \A k : Knows(request.snap, k)' <=> Knows(snap, k)
    BY <1>13, <1>14 DEF Knows, PaidOut, FeesOf, PerfOf, Total, AtPar, UpTo
  <2> QED
    BY <1>8, <1>13, <1>14, <2>1, <2>2, <2>3 DEF Snapped, Zero
<1> QED
  BY <1>12, <1>15, <1>16 DEF AskInv

(* A step that keeps what the request has of the marks.                    *)
LEMMA SnappedKeeps ==
  ASSUME Snapped, log' = log, request.pc \in {"events", "series", "candles"},
         request'.pc \in {"events", "series", "candles", "answered"},
         request'.position = request.position, request'.row = request.row,
         request'.snap = request.snap,
         request'.pc # "answered" => request'.summary = request.summary,
         request'.pc = "answered" =>
           request'.summary =
             Fixed(Summarize(request.row, request.snap), request.events, request.series)'
  PROVE  Snapped'
<1>1. Summarize(request.row, request.snap)' = Summarize(request.row, request.snap)
  BY DEF Summarize, PriceOf, MarkPrice, Val, Plus, Zero
<1>2. \A n : Knows(request.snap, n)' <=> Knows(request.snap, n)
  BY DEF Knows, PaidOut, FeesOf, PerfOf, Total, AtPar, UpTo
<1> QED
  BY <1>1, <1>2 DEF Snapped, Zero

LEMMA ReadEventsInv ==
  ASSUME ChainInv, AskInv, ReadEvents
  PROVE  ChainInv' /\ AskInv'
<1>1. /\ request' = [request EXCEPT !.pc = "series", !.events = EventsOf(request.position)]
      /\ UNCHANGED <<clock, chain, d1, pass, passes>>
      /\ request.pc = "events"
  BY DEF ReadEvents
<1>2. log \in Seq(Event) /\ indexed \in 0 .. Len(log) /\ request \in RequestType /\ indexed \in Nat
  BY LogTyped DEF ChainInv, TypeOK
<1>3. PICK evs : evs = EventsOf(request.position) /\ evs = UpTo(request.position, indexed)
  BY <1>2, Prefixes
<1>4. evs \in SUBSET Nat
  BY <1>2, <1>3, UpToFinite
<1>5. request' = [pc |-> "series", position |-> request.position, row |-> request.row,
                  seen |-> request.seen, snap |-> request.snap, summary |-> request.summary,
                  events |-> evs, series |-> request.series]
  BY <1>1, <1>2, <1>3, RequestIs
<1>6. request' \in RequestType
  BY <1>2, <1>4, <1>5, RequestIs, RequestTyped
<1>7. ChainInv'
  BY <1>1, <1>6, RequestStepInv
<1>8. log' = log /\ indexed' = indexed /\ marks' = marks
  BY <1>1 DEF chain, d1
<1>9. /\ request'.pc = "series" /\ request'.position = request.position
      /\ request'.row = request.row /\ request'.seen = request.seen
      /\ request'.snap = request.snap /\ request'.summary = request.summary
      /\ request'.events = evs
  BY <1>5
<1>10. Asked'
  BY <1>1, <1>3, <1>8, <1>9, AskedMoves DEF AskInv
<1>11. Snapped'
  BY <1>1, <1>8, <1>9, SnappedKeeps DEF AskInv
<1> QED
  BY <1>7, <1>10, <1>11 DEF AskInv

(* An answer is put together from what was read and the series.            *)
LEMMA AnswerInv ==
  ASSUME ChainInv, AskInv, request.pc \in {"series", "candles"}, NEW series \in Series,
         Answer(series), UNCHANGED <<clock, chain, d1, pass, passes>>
  PROVE  ChainInv' /\ AskInv'
<1>1. PICK summary : summary = Fixed(request.summary, request.events, series)
  OBVIOUS
<1>2. request' = [request EXCEPT !.pc = "answered", !.summary = summary, !.series = series]
  BY <1>1 DEF Answer
<1>3. log \in Seq(Event) /\ indexed \in 0 .. Len(log) /\ request \in RequestType /\ indexed \in Nat
  BY LogTyped DEF ChainInv, TypeOK
<1>4. PICK n \in 0 .. indexed : request.row = RowAt(request.position, n)
  BY DEF AskInv, Asked
<1>5. request.row \in RowType
  BY <1>3, <1>4, LogTyped, RowAtTyped
<1>6. request.summary = Summarize(request.row, request.snap)
  BY DEF AskInv, Snapped
<1>7. request.summary \in SummaryType
  BY <1>3, <1>5, <1>6, RequestIs, SummaryIs
<1>8. request.events \in SUBSET DOMAIN log
  BY EventsRead DEF AskInv
<1>9. summary \in SummaryType
  BY <1>1, <1>3, <1>7, <1>8, FixedIs
<1>10. request' = [pc |-> "answered", position |-> request.position, row |-> request.row,
                   seen |-> request.seen, snap |-> request.snap, summary |-> summary,
                   events |-> request.events, series |-> series]
  BY <1>2, <1>3, RequestIs
<1>11. request' \in RequestType
  BY <1>3, <1>9, <1>10, RequestIs, RequestTyped
<1>12. ChainInv'
  BY <1>11, RequestStepInv
<1>13. log' = log /\ indexed' = indexed /\ marks' = marks
  BY DEF chain, d1
<1>14. /\ request'.pc = "answered" /\ request'.position = request.position
       /\ request'.row = request.row /\ request'.seen = request.seen
       /\ request'.snap = request.snap /\ request'.summary = summary
       /\ request'.events = request.events /\ request'.series = series
  BY <1>10
<1>15. Asked'
  BY <1>13, <1>14, AskedMoves DEF AskInv
<1>16. Snapped'
  <2>1. Fixed(Summarize(request.row, request.snap), request.events, request.series)' = summary
    <3>1. PICK s, evs : /\ s = Summarize(request.row, request.snap)
                        /\ s = Summarize(request.row, request.snap)'
                        /\ evs = request.events /\ evs = request.events'
      BY <1>14 DEF Summarize, PriceOf, MarkPrice, Val, Plus, Zero
    <3>2. Grows
      BY <1>3, <1>13, GrowsSame
    <3>3. Fixed(s, evs, series)' = Fixed(s, evs, series)
      BY <1>8, <3>1, <3>2, FixedStays
    <3>4. summary = Fixed(s, evs, series)
      BY <1>1, <1>6, <3>1
    <3>5. series = request.series'
      BY <1>14
    <3> QED
      BY <3>1, <3>3, <3>4, <3>5 DEF Fixed, FixedCashflow
  <2> QED
    BY <1>13, <1>14, <2>1, SnappedKeeps DEF AskInv
<1> QED
  BY <1>12, <1>15, <1>16 DEF AskInv

LEMMA ReadSeriesInv ==
  ASSUME ChainInv, AskInv, ReadSeries
  PROVE  ChainInv' /\ AskInv'
<1> DEFINE p == request.position
<1>1. request.pc = "series" /\ UNCHANGED <<clock, chain, d1, pass, passes>>
  BY DEF ReadSeries
<1>2. CASE MarksOf(p) # {}
  <2>1. Answer(SnapshotPrices(p))
    BY <1>2 DEF ReadSeries
  <2>2. \A m \in MarksOf(p) : m.ts \in Nat /\ PriceOf(m) \in {0, Par, Limit}
    BY MarkIs DEF MarksOf, ChainInv, TypeOK
  <2>3. SnapshotPrices(p) \in Series
    BY <2>2 DEF SnapshotPrices, Series
  <2> HIDE DEF p
  <2> QED
    BY <1>1, <2>1, <2>3, AnswerInv
<1>3. CASE MarksOf(p) = {}
  <2>1. request' = [request EXCEPT !.pc = "candles"]
    BY <1>3 DEF ReadSeries
  <2>3. log \in Seq(Event) /\ request \in RequestType
    BY DEF ChainInv, TypeOK
  <2>4. request' = [pc |-> "candles", position |-> request.position, row |-> request.row,
                    seen |-> request.seen, snap |-> request.snap, summary |-> request.summary,
                    events |-> request.events, series |-> request.series]
    BY <2>1, <2>3, RequestIs
  <2>5. request' \in RequestType
    BY <2>3, <2>4, RequestIs, RequestTyped
  <2>6. ChainInv'
    BY <1>1, <2>5, RequestStepInv
  <2>7. log' = log /\ indexed' = indexed /\ marks' = marks
    BY <1>1 DEF chain, d1
  <2>8. /\ request'.pc = "candles" /\ request'.position = request.position
        /\ request'.row = request.row /\ request'.seen = request.seen
        /\ request'.snap = request.snap /\ request'.summary = request.summary
        /\ request'.events = request.events
    BY <2>4
  <2>9. Asked'
    BY <1>1, <2>7, <2>8, AskedMoves DEF AskInv
  <2>10. Snapped'
    BY <1>1, <2>7, <2>8, SnappedKeeps DEF AskInv
  <2> QED
    BY <2>6, <2>9, <2>10 DEF AskInv
<1> QED
  BY <1>2, <1>3

LEMMA ReadCandlesInv ==
  ASSUME ChainInv, AskInv, ReadCandles
  PROVE  ChainInv' /\ AskInv'
<1>1. request.pc = "candles" /\ Answer(candles) /\ UNCHANGED <<clock, chain, d1, pass, passes>>
  BY DEF ReadCandles
<1>2. \A c \in candles : c \in [ts : Nat, price : {0, Par, Limit}]
  BY DEF ChainInv, TypeOK, Price
<1>3. candles \in Series
  BY <1>2 DEF Series
<1> QED
  BY <1>1, <1>3, AnswerInv

-----------------------------------------------------------------------------
(* The invariant.                                                          *)

LEMMA Grouped == IInv <=> ChainInv /\ Opens /\ BookInv /\ AskInv
BY DEF IInv, ChainInv, BookInv, AskInv

LEMMA InitInv == Init => IInv
<1> SUFFICES ASSUME Init PROVE IInv
  OBVIOUS
<1>1. /\ clock = 0 /\ held = [p \in Positions |-> Zero] /\ unclaimed = [p \in Positions |-> Zero]
      /\ accrued = [p \in Positions |-> 0] /\ log = <<>> /\ indexed = 0 /\ candles = {}
      /\ marks = {} /\ navs = {} /\ pass = None /\ passes = 0 /\ request = Unasked
  BY DEF Init
<1>2. Zero \in Amounts /\ AtPar(Zero) = 0
  BY DEF Zero, Amounts, AtPar
<1>3. log \in Seq(Event) /\ Len(log) = 0 /\ DOMAIN log = {}
  BY <1>1
<1>4. MaxVerbs \in Nat /\ MaxTrades \in Nat /\ MaxPasses \in Nat
  BY ConstantsAssumption
<1>5. request \in RequestType
  BY <1>1 DEF Unasked, RequestType
<1>6. TypeOK
  BY <1>1, <1>2, <1>3, <1>4, <1>5 DEF TypeOK
<1>7. Ticks
  BY <1>1, <1>3, <1>4 DEF Ticks
<1>8. Conserved
  <2> SUFFICES ASSUME NEW p \in Positions
               PROVE  /\ AtPar(held[p]) + AtPar(unclaimed[p]) + AtPar(PaidOut(MinedOf(p))) = Earned(p)
                      /\ AtPar(unclaimed[p]) + AtPar(FeesOf(MinedOf(p))) = accrued[p]
    BY DEF Conserved
  <2>1. MinedOf(p) = {}
    BY <1>3 DEF MinedOf
  <2>2. /\ AtPar(PaidOut(MinedOf(p))) = 0 /\ AtPar(FeesOf(MinedOf(p))) = 0
        /\ AtPar(PerfOf(MinedOf(p))) = 0
    BY <2>1, TotalNone DEF PaidOut, FeesOf, PerfOf
  <2>3. Earned(p) = accrued[p] - AtPar(PerfOf(MinedOf(p)))
    BY <1>3, EarnedIs
  <2>4. held[p] = Zero /\ unclaimed[p] = Zero /\ accrued[p] = 0
    BY <1>1
  <2> QED
    BY <1>2, <2>2, <2>3, <2>4
<1>9. ClosedRests
  BY <1>3 DEF ClosedRests
<1>10. Drafts = {}
  BY <1>1 DEF Drafts
<1>11. BookInv
  BY <1>1, <1>3, <1>10, FS_EmptySet
     DEF BookInv, MarksTrue, Finite, PassesApart, TimesApart, PassesComplete, NavsTrue
<1>12. AskInv
  BY <1>1 DEF AskInv, Asked, Snapped, Unasked
<1>13. Opens
  BY <1>1, <1>3 DEF Opens
<1> QED
  BY <1>6, <1>7, <1>8, <1>9, <1>11, <1>12, <1>13, Grouped DEF ChainInv

(* Every step keeps the three parts; one lemma for each action.            *)
LEMMA StepInv == IInv /\ [Next]_vars => IInv'
<1> SUFFICES ASSUME ChainInv, Opens, BookInv, AskInv, [Next]_vars
             PROVE  ChainInv' /\ Opens' /\ BookInv' /\ AskInv'
  BY Grouped DEF IInv, ChainInv, BookInv, AskInv
<1>1. /\ log \in Seq(Event) /\ indexed \in 0 .. Len(log) /\ indexed \in Nat /\ clock \in Nat
      /\ Len(log) \in Nat
  BY LogTyped DEF ChainInv, TypeOK
<1>2. ASSUME NEW p \in Positions, Verbs(p) PROVE ChainInv' /\ Opens' /\ BookInv' /\ AskInv'
  <2>1. /\ ChainInv' /\ Opens' /\ Grows /\ clock' = clock + 1
        /\ \A k \in DOMAIN log' : k \in DOMAIN log \/ log'[k].ts > clock
        /\ UNCHANGED <<accrued, indexed, candles, marks, navs, pass, passes, request>>
    BY <1>2, VerbsInv
  <2>2. BookInv'
    BY <1>1, <2>1, BookStays
  <2>3. AskInv'
    BY <1>1, <2>1, AskStays
  <2> QED
    BY <2>1, <2>2, <2>3
<1>3. ASSUME NEW p \in Positions, NEW turned \in Turns, NEW close \in Price,
             Trade(p, turned, close)
      PROVE  ChainInv' /\ Opens' /\ BookInv' /\ AskInv'
  <2>1. ChainInv' /\ Opens'
    BY <1>3, TradeInv, TradeOpens
  <2>2. clock' = clock + 1 /\ UNCHANGED <<log, indexed, marks, navs, pass, passes, request>>
    BY <1>3 DEF Trade
  <2>3. Grows
    BY <1>1, <2>2, GrowsSame
  <2>4. BookInv'
    BY <1>1, <2>2, <2>3, BookStays
  <2>5. AskInv'
    BY <1>1, <2>2, <2>3, AskStays
  <2> QED
    BY <2>1, <2>4, <2>5
<1>4. ASSUME Index PROVE ChainInv' /\ Opens' /\ BookInv' /\ AskInv'
  <2>1. ChainInv'
    BY <1>4, IndexInv
  <2>2. indexed' = indexed + 1 /\ UNCHANGED <<clock, unclaimed, log, marks, navs, pass, request>>
    BY <1>4 DEF Index, chain
  <2>3. Grows
    BY <1>1, <2>2, GrowsSame
  <2>4. BookInv'
    BY <1>1, <2>2, <2>3, BookStays
  <2>5. AskInv'
    BY <1>1, <2>2, <2>3, AskStays
  <2>6. Opens'
    BY <1>1, <2>2, OpensStay
  <2> QED
    BY <2>1, <2>4, <2>5, <2>6
<1>5. ASSUME UNCHANGED <<log, unclaimed, indexed, request>>, clock' \in Nat, clock <= clock'
      PROVE  Opens' /\ AskInv'
  <2>1. Grows
    BY <1>1, <1>5, GrowsSame
  <2>2. AskInv'
    BY <1>1, <1>5, <2>1, AskStays
  <2> QED
    BY <1>5, <2>2, OpensStay
<1>6. ASSUME BeginPass PROVE ChainInv' /\ Opens' /\ BookInv' /\ AskInv'
  BY <1>1, <1>5, <1>6, BeginPassInv, BeginPassBook
<1>7. ASSUME NEW p \in Positions, MarkPosition(p)
      PROVE  ChainInv' /\ Opens' /\ BookInv' /\ AskInv'
  <2>1. ChainInv' /\ UNCHANGED <<clock, chain, d1, passes, request>>
    BY <1>7, MarkPositionInv
  <2> QED
    BY <1>1, <1>5, <1>7, <2>1, MarkPositionBook DEF chain, d1
<1>8. ASSUME NEW p \in Positions, SkipPosition(p)
      PROVE  ChainInv' /\ Opens' /\ BookInv' /\ AskInv'
  <2>1. ChainInv' /\ UNCHANGED <<clock, chain, d1, passes, request>>
    BY <1>8, SkipPositionInv
  <2> QED
    BY <1>1, <1>5, <1>8, <2>1, SkipPositionBook DEF chain, d1
<1>9. ASSUME EndPass PROVE ChainInv' /\ Opens' /\ BookInv' /\ AskInv'
  <2>1. ChainInv' /\ UNCHANGED <<clock, chain, indexed, candles, passes, request>>
    BY <1>9, EndPassInv DEF BookInv
  <2> QED
    BY <1>1, <1>5, <1>9, <2>1, EndPassBook DEF chain
<1>10. ASSUME DieInPass PROVE ChainInv' /\ Opens' /\ BookInv' /\ AskInv'
  <2>1. ChainInv' /\ UNCHANGED <<clock, chain, d1, passes, request>>
    BY <1>10, DieInPassInv
  <2> QED
    BY <1>1, <1>5, <1>10, <2>1, DieInPassBook DEF chain, d1
<1>11. ASSUME UNCHANGED <<clock, chain, d1, pass, passes>> PROVE Opens' /\ BookInv'
  <2>1. Grows /\ clock' = clock /\ UNCHANGED <<log, unclaimed, indexed, marks, navs, pass>>
    BY <1>1, <1>11, GrowsSame DEF chain, d1
  <2>2. BookInv'
    BY <1>1, <2>1, BookStays
  <2> QED
    BY <1>1, <2>1, <2>2, OpensStay
<1>12. ASSUME NEW p \in Positions, ReadRow(p)
       PROVE  ChainInv' /\ Opens' /\ BookInv' /\ AskInv'
  <2>1. UNCHANGED <<clock, chain, d1, pass, passes>>
    BY <1>12 DEF ReadRow
  <2> QED
    BY <1>11, <1>12, <2>1, ReadRowInv
<1>13. ASSUME ReadSnapshot PROVE ChainInv' /\ Opens' /\ BookInv' /\ AskInv'
  <2>1. UNCHANGED <<clock, chain, d1, pass, passes>>
    BY <1>13 DEF ReadSnapshot
  <2> QED
    BY <1>11, <1>13, <2>1, ReadSnapshotInv
<1>14. ASSUME ReadEvents PROVE ChainInv' /\ Opens' /\ BookInv' /\ AskInv'
  <2>1. UNCHANGED <<clock, chain, d1, pass, passes>>
    BY <1>14 DEF ReadEvents
  <2> QED
    BY <1>11, <1>14, <2>1, ReadEventsInv
<1>15. ASSUME ReadSeries PROVE ChainInv' /\ Opens' /\ BookInv' /\ AskInv'
  <2>1. UNCHANGED <<clock, chain, d1, pass, passes>>
    BY <1>15 DEF ReadSeries
  <2> QED
    BY <1>11, <1>15, <2>1, ReadSeriesInv
<1>16. ASSUME ReadCandles PROVE ChainInv' /\ Opens' /\ BookInv' /\ AskInv'
  <2>1. UNCHANGED <<clock, chain, d1, pass, passes>>
    BY <1>16 DEF ReadCandles
  <2> QED
    BY <1>11, <1>16, <2>1, ReadCandlesInv
<1>17. ASSUME NEW k, IngestOpened(k) PROVE ChainInv' /\ Opens' /\ BookInv' /\ AskInv'
  <2>1. /\ ChainInv' /\ indexed' \in Nat /\ indexed <= indexed' /\ log' = log
        /\ UNCHANGED <<clock, chain, candles, navs, pass, passes, request>>
    BY <1>17, IngestOpenedInv
  <2>2. BookInv'
    BY <1>17, IngestOpenedBook
  <2>3. Grows
    BY <1>1, <2>1, GrowsSame
  <2>4. AskInv'
    BY <2>1, <2>3, AskStays
  <2>5. Opens'
    BY <1>1, <2>1, OpensStay DEF chain
  <2> QED
    BY <2>1, <2>2, <2>4, <2>5
<1>18. CASE UNCHANGED vars
  <2>1. UNCHANGED <<clock, chain, d1, pass, passes, request>>
    BY <1>18 DEF vars
  <2>2. request' \in RequestType
    BY <2>1 DEF ChainInv, TypeOK
  <2>3. ChainInv'
    BY <2>1, <2>2, RequestStepInv
  <2> QED
    BY <1>1, <1>5, <1>11, <2>1, <2>3 DEF chain, d1
<1>19. CASE Next
  BY <1>2, <1>3, <1>4, <1>6, <1>7, <1>8, <1>9, <1>10, <1>12, <1>13, <1>14, <1>15, <1>16, <1>17,
     <1>19
     DEF Next, Verbs
<1> QED
  BY <1>18, <1>19

(* What a position holds, has paid out and is owed always add up, and what *)
(* marks, passes and requests know of it was so once.                      *)
THEOREM Invariance == Spec => []IInv
BY InitInv, StepInv, PTL DEF Spec

(* The types of the chain, of D1's tables, of a pass and of a request.     *)
THEOREM TypeCorrect == Spec => []TypeOK
<1>1. IInv => TypeOK
  BY DEF IInv
<1> QED
  BY <1>1, Invariance, PTL

-----------------------------------------------------------------------------
(* The profit of an answer.                                                *)

(* At par the flows of a position are worth what they are; where a price   *)
(* is missing they are worth less, as long as nothing was paid in then.    *)
LEMMA FlowsPriced ==
  ASSUME log \in Seq(Event), NEW series \in Series, NEW M \in SUBSET DOMAIN log
  PROVE  LET f == SumFunctionOnSet([k \in M |-> ValueAt(series, k)], M)
         IN  /\ f \in Int
             /\ Priced(series) => f = AtPar(PaidOut(M))
             /\ (/\ \A k \in M : log[k].delta.base >= 0
                 /\ \A s \in series : s.price # Limit) => f <= AtPar(PaidOut(M))
<1> DEFINE v == [k \in M |-> ValueAt(series, k)]
           d == [k \in M |-> AtPar(log[k].delta)]
<1>1. IsFiniteSet(M) /\ AtPar(PaidOut(M)) = SumFunctionOnSet(d, M)
  BY SumsTyped
<1>2. \A k \in M : log[k].delta \in Legs /\ log[k].ts \in Nat
  BY LogTyped
<1>3. Integral(v, M)
  BY <1>1, ValueAtTyped DEF Integral
<1>4. Integral(d, M)
  BY <1>1, <1>2, ValIs DEF Integral
<1>5. SumFunctionOnSet(v, M) \in Int
  <2> HIDE DEF v
  <2> QED
    BY <1>3, SumType
<1>6. \A s \in series : s.ts \in Nat /\ s.price \in {0, Par, Limit}
  BY DEF Series
<1>7. ASSUME Priced(series) PROVE SumFunctionOnSet(v, M) = AtPar(PaidOut(M))
  <2>1. ASSUME NEW k \in M PROVE v[k] = d[k]
    <3>1. \E s \in series : PriceAt(series, log[k].ts) = s.price
      BY <1>2, <1>6, <1>7, PriceAtIs DEF Priced
    <3>2. PriceAt(series, log[k].ts) = Par
      BY <1>7, <3>1 DEF Priced
    <3> QED
      BY <1>2, <3>2, ValIs DEF ValueAt
  <2> HIDE DEF v, d
  <2>2. SumFunctionOnSet(v, M) = SumFunctionOnSet(d, M)
    BY <1>3, <2>1, SumSame
  <2> QED
    BY <1>1, <2>2
<1>8. ASSUME \A k \in M : log[k].delta.base >= 0, \A s \in series : s.price # Limit
      PROVE  SumFunctionOnSet(v, M) <= AtPar(PaidOut(M))
  <2>1. ASSUME NEW k \in M PROVE v[k] <= d[k]
    <3>1. PriceAt(series, log[k].ts) \in {0, Par}
      <4>1. CASE series = {}
        BY <4>1 DEF PriceAt
      <4>2. CASE series # {}
        <5>1. \E s \in series : PriceAt(series, log[k].ts) = s.price
          BY <1>2, <1>6, <4>2, PriceAtIs
        <5> QED
          BY <1>6, <1>8, <5>1
      <4> QED
        BY <4>1, <4>2
    <3>2. PICK a : a = log[k].delta
      OBVIOUS
    <3>3. a \in Legs /\ a.base >= 0
      BY <1>2, <1>8, <3>2
    <3>4. Val(a, 0) <= AtPar(a) /\ Val(a, Par) <= AtPar(a)
      BY <3>3, ValIs DEF AtPar, Legs
    <3>5. v[k] = Val(a, PriceAt(series, log[k].ts)) /\ d[k] = AtPar(a)
      BY <3>2 DEF ValueAt
    <3> QED
      BY <3>1, <3>4, <3>5
  <2> HIDE DEF v, d
  <2>2. SumFunctionOnSet(v, M) <= SumFunctionOnSet(d, M)
    BY <1>3, <1>4, <2>1, SumAtMost
  <2> QED
    BY <1>1, <2>2
<1> QED
  BY <1>5, <1>7, <1>8

(* A closed position has paid out what it earned, all of it fees.          *)
LEMMA ClosedBalance ==
  ASSUME ChainInv, NEW p \in Positions, \E k \in MinedOf(p) : log[k].closed
  PROVE  /\ Earned(p) = AtPar(PaidOut(MinedOf(p)))
         /\ Earned(p) = AtPar(FeesOf(MinedOf(p))) - AtPar(PerfOf(MinedOf(p)))
<1>1. log \in Seq(Event) /\ accrued[p] \in Nat
  BY DEF ChainInv, TypeOK
<1>2. held[p] = Zero /\ unclaimed[p] = Zero
  BY DEF ChainInv, ClosedRests, MinedOf
<1>3. AtPar(Zero) = 0
  BY DEF AtPar, Zero
<1>4. /\ AtPar(held[p]) + AtPar(unclaimed[p]) + AtPar(PaidOut(MinedOf(p))) = Earned(p)
      /\ AtPar(unclaimed[p]) + AtPar(FeesOf(MinedOf(p))) = accrued[p]
  BY DEF ChainInv, Conserved
<1>5. Earned(p) = accrued[p] - AtPar(PerfOf(MinedOf(p)))
  BY <1>1, EarnedIs
<1>6. MinedOf(p) \in SUBSET DOMAIN log
  BY DEF MinedOf
<1>7. PaidOut(MinedOf(p)) \in Legs /\ FeesOf(MinedOf(p)) \in Legs /\ PerfOf(MinedOf(p)) \in Legs
  BY <1>1, <1>6, SumsTyped
<1>8. /\ AtPar(PaidOut(MinedOf(p))) \in Int /\ AtPar(FeesOf(MinedOf(p))) \in Int
      /\ AtPar(PerfOf(MinedOf(p))) \in Int
  BY <1>7 DEF Legs, AtPar
<1> QED
  BY <1>1, <1>2, <1>3, <1>4, <1>5, <1>8

(* Equally many events of a position are the same events.                  *)
LEMMA SamePrefix ==
  ASSUME log \in Seq(Event), NEW p, NEW n \in 0 .. Len(log),
         Cardinality(UpTo(p, n)) = Cardinality(MinedOf(p))
  PROVE  UpTo(p, n) = MinedOf(p)
<1>1. Len(log) \in Nat /\ MinedOf(p) = UpTo(p, Len(log)) /\ n \in Nat
  BY LogTyped, Prefixes
<1>2. UpTo(p, n) \subseteq MinedOf(p)
  BY <1>1 DEF UpTo
<1>3. IsFiniteSet(MinedOf(p))
  BY <1>1, UpToFinite
<1> QED
  BY <1>2, <1>3, FS_Subset

(* What a settled answer has read.                                         *)
LEMMA SettledKnows ==
  ASSUME ChainInv, AskInv, Settled
  PROVE  LET M == MinedOf(request.position)
         IN  /\ request.position \in Positions
             /\ M # {} /\ M \in SUBSET DOMAIN log
             /\ request.events = M
             /\ request.row.closed = \E k \in M : log[k].closed
             /\ request.row.fees = FeesOf(M) /\ request.row.perf = PerfOf(M)
             /\ request.row \in RowType
<1> DEFINE p == request.position
           M == MinedOf(p)
<1>1. log \in Seq(Event) /\ indexed \in 0 .. Len(log) /\ Len(log) \in Nat /\ indexed \in Nat
  BY LogTyped DEF ChainInv, TypeOK
<1>2. request.pc = "answered" /\ request.seen = Cardinality(M)
  BY DEF Settled
<1>3. p \in Positions
  BY <1>2 DEF AskInv, Asked
<1>4. PICK n \in 0 .. indexed :
         /\ UpTo(p, n) # {}
         /\ request.row = RowAt(p, n)
         /\ request.seen = Cardinality(UpTo(p, n))
         /\ \E e \in n .. indexed : request.events = UpTo(p, e)
  BY <1>2 DEF AskInv, Asked
<1>5. PICK e \in n .. indexed : request.events = UpTo(p, e)
  BY <1>4
<1>6. n \in 0 .. Len(log) /\ e \in 0 .. Len(log) /\ n <= e
  BY <1>1, <1>4, <1>5
<1>7. UpTo(p, n) = M
  BY <1>1, <1>2, <1>4, <1>6, SamePrefix
<1>8. M = UpTo(p, Len(log))
  BY <1>1, Prefixes
<1>9. UpTo(p, n) \subseteq UpTo(p, e) /\ UpTo(p, e) \subseteq UpTo(p, Len(log))
  BY <1>1, <1>6 DEF UpTo
<1>10. request.events = M
  BY <1>5, <1>7, <1>8, <1>9
<1>11. request.row \in RowType
  BY <1>1, <1>4, <1>6, RowAtTyped
<1>12. /\ request.row.closed = \E k \in M : log[k].closed
       /\ request.row.fees = FeesOf(M) /\ request.row.perf = PerfOf(M)
  BY <1>4, <1>7 DEF RowAt
<1>13. M \in SUBSET DOMAIN log
  BY DEF MinedOf
<1> QED
  BY <1>3, <1>4, <1>7, <1>10, <1>11, <1>12, <1>13

(* A mark that knows all events of its position accounts for what it had   *)
(* earned.                                                                 *)
LEMMA MarkBalance ==
  ASSUME ChainInv, NEW m, \E n \in 0 .. Len(log) : Knows(m, n),
         m.seen = Cardinality(MinedOf(m.position))
  PROVE  LET M == MinedOf(m.position)
         IN  /\ AtPar(m.amount) + AtPar(m.fees) + AtPar(PaidOut(M)) = m.earned
             /\ AtPar(m.fees) + AtPar(FeesOf(M)) - AtPar(PerfOf(M)) = m.earned
<1>1. log \in Seq(Event)
  BY DEF ChainInv, TypeOK
<1>2. PICK n \in 0 .. Len(log) : Knows(m, n)
  OBVIOUS
<1>3. UpTo(m.position, n) = MinedOf(m.position)
  BY <1>1, <1>2, SamePrefix DEF Knows
<1> QED
  BY <1>2, <1>3 DEF Knows

(* Value and fees of the snapshot of a settled answer.                     *)
LEMMA SettledBalance ==
  ASSUME ChainInv, AskInv, Settled
  PROVE  LET M == MinedOf(request.position)
             snap == request.snap
             fees == AtPar(FeesOf(M)) - AtPar(PerfOf(M))
         IN  /\ EarnedThen \in Int
             /\ ValueIn(snap) + AtPar(PaidOut(M)) <= EarnedThen
             /\ snap # None /\ PriceOf(snap) = Par =>
                  /\ ValueIn(snap) + AtPar(PaidOut(M)) = EarnedThen
                  /\ AtPar(snap.fees) + fees = EarnedThen
             /\ snap = None => AtPar(PaidOut(M)) = EarnedThen
<1> DEFINE p == request.position
           M == MinedOf(p)
           snap == request.snap
           out == AtPar(PaidOut(M))
           fees == AtPar(FeesOf(M)) - AtPar(PerfOf(M))
<1>1. log \in Seq(Event) /\ p \in Positions /\ snap \in MarkType \cup {None}
  BY SettledKnows, RequestIs DEF ChainInv, TypeOK
<1>2. out \in Int /\ fees \in Int
  <2>1. M \in SUBSET DOMAIN log
    BY DEF MinedOf
  <2>2. PaidOut(M) \in Legs /\ FeesOf(M) \in Legs /\ PerfOf(M) \in Legs
    BY <1>1, <2>1, SumsTyped
  <2>3. \A a \in Legs : AtPar(a) \in Int
    BY DEF Legs, AtPar
  <2> QED
    BY <2>2, <2>3
<1>3. request.row.closed = \E k \in M : log[k].closed
  BY SettledKnows
<1>4. request.pc = "answered"
  BY DEF Settled
<1>5. CASE request.row.closed
  <2>1. EarnedThen = out /\ EarnedThen = fees
    BY <1>1, <1>3, <1>5, ClosedBalance DEF EarnedThen
  <2>2. snap # None => snap.amount = Zero /\ snap.fees = Zero
    BY <1>4, <1>5 DEF AskInv, Snapped
  <2>3. Plus(Zero, Zero) = Zero /\ \A px : px \in {0, Par} => Val(Zero, px) = 0
    BY DEF Plus, Zero, Val, Par
  <2>4. AtPar(Zero) = 0
    BY DEF AtPar, Zero
  <2>5. ValueIn(snap) = 0
    <3>1. CASE snap = None
      BY <3>1 DEF ValueIn
    <3>2. CASE snap # None
      <4>1. PriceOf(snap) \in {0, Par}
        BY <1>1, <3>2, MarkIs
      <4> QED
        BY <2>2, <2>3, <3>2, <4>1 DEF ValueIn
    <3> QED
      BY <3>1, <3>2
  <2>6. snap # None => AtPar(snap.fees) = 0
    BY <2>2, <2>4
  <2> HIDE DEF out, fees, snap
  <2> QED
    BY <1>2, <2>1, <2>5, <2>6 DEF out, fees, snap
<1>6. CASE ~request.row.closed
  <2>1. snap # None /\ snap.seen = Cardinality(M)
    BY <1>6 DEF Settled
  <2>2. snap.position = p /\ \E n \in 0 .. Len(log) : Knows(snap, n)
    BY <1>4, <1>6, <2>1 DEF AskInv, Snapped
  <2>3. /\ AtPar(snap.amount) + AtPar(snap.fees) + out = snap.earned
        /\ AtPar(snap.fees) + AtPar(FeesOf(M)) - AtPar(PerfOf(M)) = snap.earned
    BY <2>1, <2>2, MarkBalance
  <2>4. EarnedThen = snap.earned /\ snap \in MarkType
    BY <1>1, <1>6, <2>1 DEF EarnedThen
  <2>5. /\ snap.amount \in Amounts /\ snap.fees \in Amounts /\ snap.earned \in Int
        /\ PriceOf(snap) \in {0, Par}
    BY <2>4, MarkIs
  <2>6. PICK a : a = Plus(snap.amount, snap.fees)
    OBVIOUS
  <2>7. a \in Amounts /\ AtPar(a) = AtPar(snap.amount) + AtPar(snap.fees)
    BY <2>5, <2>6, PlusTyped
  <2>8. Val(a, 0) <= AtPar(a) /\ Val(a, Par) = AtPar(a) /\ Val(a, 0) \in Int /\ AtPar(a) \in Int
    BY <2>7, AmountIs DEF Val, Par, AtPar
  <2>9. ValueIn(snap) = Val(a, PriceOf(snap))
    BY <2>1, <2>6 DEF ValueIn
  <2>10. AtPar(a) + out = EarnedThen
    BY <2>3, <2>4, <2>7
  <2>11. AtPar(snap.fees) + fees = EarnedThen
    <3>1. AtPar(snap.fees) \in Int /\ AtPar(FeesOf(M)) \in Int /\ AtPar(PerfOf(M)) \in Int
      <4>1. M \in SUBSET DOMAIN log
        BY DEF MinedOf
      <4>2. FeesOf(M) \in Legs /\ PerfOf(M) \in Legs /\ snap.fees \in Legs
        BY <1>1, <2>5, <4>1, SumsTyped, AmountIs
      <4>3. \A b \in Legs : AtPar(b) \in Int
        BY DEF Legs, AtPar
      <4> QED
        BY <4>2, <4>3
    <3> QED
      BY <2>3, <2>4, <3>1
  <2> HIDE DEF out, fees, snap
  <2>12. ValueIn(snap) + out <= EarnedThen /\ (PriceOf(snap) = Par => ValueIn(snap) + out = EarnedThen)
    BY <1>2, <2>5, <2>8, <2>9, <2>10
  <2>13. EarnedThen \in Int
    BY <2>4, <2>5
  <2> QED
    BY <2>1, <2>11, <2>12, <2>13 DEF out, fees, snap
<1> QED
  BY <1>5, <1>6

LEMMA PnlHolds == IInv => PnlAsEarned
<1> SUFFICES ASSUME ChainInv, AskInv, Settled
             PROVE  /\ Priced(request.series) /\ PricedMark(request.snap) =>
                         /\ request.summary.pnl = EarnedThen
                         /\ request.snap # None => request.summary.feesNet = EarnedThen
                    /\ DepositsPriced => request.summary.pnl <= EarnedThen
  BY Grouped DEF PnlAsEarned
<1> DEFINE M == MinedOf(request.position)
           snap == request.snap
           series == request.series
           s == Summarize(request.row, snap)
           px == PriceIn(snap)
           f == SumFunctionOnSet([k \in M |-> ValueAt(series, k)], M)
           out == AtPar(PaidOut(M))
<1>1. log \in Seq(Event) /\ request \in RequestType
  BY DEF ChainInv, TypeOK
<1>2. /\ M # {} /\ M \in SUBSET DOMAIN log /\ request.events = M
      /\ request.row.fees = FeesOf(M) /\ request.row.perf = PerfOf(M)
      /\ request.row \in RowType
  BY SettledKnows
<1>3. snap \in MarkType \cup {None} /\ series \in Series
  BY <1>1, RequestIs
<1>4. /\ s \in SummaryType /\ s.value = ValueIn(snap)
      /\ s.feesNet = Val(request.row.fees, px) + Val(FeesIn(snap), px) - Val(request.row.perf, px)
  BY <1>2, <1>3, SummaryIs
<1>5. request.summary = Fixed(s, M, series)
  BY <1>2 DEF AskInv, Snapped, Settled
<1>6. request.summary.feesNet = s.feesNet /\ request.summary.pnl = s.value + f
  <2> HIDE DEF M, s, series
  <2>1. Fixed(s, M, series).feesNet = s.feesNet
    BY <1>1, <1>2, <1>3, <1>4, FixedIs
  <2>2. Fixed(s, M, series).pnl = s.value + SumFunctionOnSet([k \in M |-> ValueAt(series, k)], M)
    BY <1>1, <1>2, <1>3, <1>4, FixedIs
  <2> QED
    BY <1>5, <2>1, <2>2
<1>7. /\ f \in Int
      /\ Priced(series) => f = out
      /\ (/\ \A k \in M : log[k].delta.base >= 0
          /\ \A t \in series : t.price # Limit) => f <= out
  <2> HIDE DEF M, series
  <2> QED
    BY <1>1, <1>2, <1>3, FlowsPriced
<1>8. /\ EarnedThen \in Int
      /\ ValueIn(snap) + out <= EarnedThen
      /\ snap # None /\ PriceOf(snap) = Par =>
           /\ ValueIn(snap) + out = EarnedThen
           /\ AtPar(snap.fees) + (AtPar(FeesOf(M)) - AtPar(PerfOf(M))) = EarnedThen
      /\ snap = None => out = EarnedThen
  BY SettledBalance
<1>9. ValueIn(snap) \in Nat
  BY <1>3, SnapIs
<1>10. PricedMark(snap) /\ snap # None => PriceOf(snap) = Par
  BY DEF PricedMark
<1>11. out \in Int /\ FeesOf(M) \in Legs /\ PerfOf(M) \in Legs
  <2>1. PaidOut(M) \in Legs /\ FeesOf(M) \in Legs /\ PerfOf(M) \in Legs
    BY <1>1, <1>2, SumsTyped
  <2> QED
    BY <2>1, ValIs
<1>12. ASSUME Priced(series), PricedMark(snap) PROVE request.summary.pnl = EarnedThen
  <2>1. CASE snap = None
    <3>1. ValueIn(snap) = 0
      BY <2>1 DEF ValueIn
    <3> HIDE DEF f, out, s, snap, series, M
    <3> QED
      BY <1>4, <1>6, <1>7, <1>8, <1>11, <1>12, <2>1, <3>1
  <2>2. CASE snap # None
    <3> HIDE DEF f, out, s, snap, series, M
    <3> QED
      BY <1>4, <1>6, <1>7, <1>8, <1>10, <1>12, <2>2
  <2> QED
    BY <2>1, <2>2
<1>13. ASSUME PricedMark(snap), snap # None PROVE request.summary.feesNet = EarnedThen
  <2>1. px = Par /\ FeesIn(snap) = snap.fees
    BY <1>10, <1>13 DEF PriceIn, FeesIn
  <2>2. snap.fees \in Legs
    BY <1>3, <1>13, MarkIs, AmountIs
  <2>3. s.feesNet = AtPar(FeesOf(M)) + AtPar(snap.fees) - AtPar(PerfOf(M))
    BY <1>2, <1>4, <1>11, <2>1, <2>2, ValIs
  <2>4. AtPar(FeesOf(M)) \in Int /\ AtPar(PerfOf(M)) \in Int /\ AtPar(snap.fees) \in Int
    BY <1>11, <2>2, ValIs
  <2> HIDE DEF s, snap, series, M
  <2> QED
    BY <1>6, <1>8, <1>10, <1>13, <2>3, <2>4
<1>14. ASSUME DepositsPriced PROVE request.summary.pnl <= EarnedThen
  <2>1. /\ \A k \in M : log[k].delta.base >= 0
        /\ \A t \in series : t.price # Limit
    BY <1>2, <1>14 DEF DepositsPriced
  <2> HIDE DEF f, out, s, snap, series, M
  <2> QED
    BY <1>4, <1>6, <1>7, <1>8, <1>9, <1>11, <2>1
<1> QED
  BY <1>12, <1>13, <1>14

(* The profit of every settled answer is what its position has earned, at  *)
(* par, and never more where a price is missing: for any number of         *)
(* positions, deposits and passes, and whatever is indexed or marked       *)
(* between the reads of the request.                                       *)
THEOREM PnlAsEarnedSafe == Spec => []PnlAsEarned
BY Invariance, PnlHolds, PTL

-----------------------------------------------------------------------------
(* The tiles and the charts.                                               *)

LEMMA SeriesTyped ==
  ASSUME ChainInv, NEW p
  PROVE  SeriesOf(p) \in Series
<1>1. \A m \in MarksOf(p) : m.ts \in Nat /\ PriceOf(m) \in {0, Par, Limit}
  BY MarkIs DEF MarksOf, ChainInv, TypeOK
<1>2. \A c \in candles : c \in [ts : Nat, price : {0, Par, Limit}]
  BY DEF ChainInv, TypeOK, Price
<1>3. SnapshotPrices(p) \in Series
  BY <1>1 DEF SnapshotPrices, Series
<1>4. candles \in Series
  BY <1>2 DEF Series
<1> QED
  BY <1>3, <1>4 DEF SeriesOf

(* D1 has all of a position whose close it has.                            *)
LEMMA ClosedIsKnown ==
  ASSUME ChainInv, NEW p \in Positions, NEW c \in EventsOf(p), log[c].closed
  PROVE  EventsOf(p) = MinedOf(p) /\ MinedOf(p) \in SUBSET DOMAIN log
<1>1. log \in Seq(Event) /\ indexed \in 0 .. Len(log) /\ DOMAIN log = 1 .. Len(log)
  BY LogTyped DEF ChainInv, TypeOK
<1>2. Len(log) \in Nat /\ indexed \in Nat
  BY <1>1, LogTyped
<1>3. c \in 1 .. indexed /\ log[c].position = p /\ c \in DOMAIN log
  BY <1>1, <1>2 DEF EventsOf
<1>4. \A j \in DOMAIN log : log[j].position = p => j <= c
  BY <1>3 DEF ChainInv, ClosedRests
<1>5. \A j \in DOMAIN log : log[j].position = p => j \in 1 .. indexed
  BY <1>1, <1>2, <1>3, <1>4
<1>6. \A j \in 1 .. indexed : j \in DOMAIN log
  BY <1>1, <1>2
<1> QED
  BY <1>5, <1>6 DEF EventsOf, MinedOf

(* The profit on the tile of a closed position is what it earned.          *)
LEMMA ClosedSummary ==
  ASSUME ChainInv, BookInv, NEW p \in Positions, NEW c \in EventsOf(p), log[c].closed
  PROVE  /\ SummaryOf(p).pnl \in Int
         /\ Priced(SeriesOf(p)) => SummaryOf(p).pnl = Earned(p)
<1> DEFINE M == MinedOf(p)
           row == Row(p)
           snap == SnapshotFor(p, row.closed)
           s == Summarize(row, snap)
           series == SeriesOf(p)
           f == SumFunctionOnSet([k \in M |-> ValueAt(series, k)], M)
<1>1. log \in Seq(Event) /\ indexed \in 0 .. Len(log)
  BY DEF ChainInv, TypeOK
<1>2. EventsOf(p) = M /\ M \in SUBSET DOMAIN log /\ M # {} /\ log[c].closed /\ c \in M
  BY ClosedIsKnown
<1>3. row \in RowType
  BY <1>1, RowIs, RowAtTyped
<1>4. row.closed \in BOOLEAN /\ row.closed
  BY <1>2, <1>3 DEF RowType, Row
<1>5. /\ snap \in MarkType \cup {None}
      /\ snap # None => snap.amount = Zero /\ snap.fees = Zero
  BY <1>4, SnapshotForIs
<1>6. s \in SummaryType /\ s.value = ValueIn(snap)
  <2> HIDE DEF row, snap
  <2> QED
    BY <1>3, <1>5, SummaryIs
<1>7. ValueIn(snap) = 0
  <2> HIDE DEF snap
  <2>1. CASE snap = None
    BY <2>1 DEF ValueIn
  <2>2. CASE snap # None
    <3>1. PriceOf(snap) \in {0, Par}
      BY <1>5, <2>2, MarkIs
    <3>2. Plus(Zero, Zero) = Zero /\ \A px : px \in {0, Par} => Val(Zero, px) = 0
      BY DEF Plus, Zero, Val, Par
    <3> QED
      BY <1>5, <2>2, <3>1, <3>2 DEF ValueIn
  <2> QED
    BY <2>1, <2>2
<1>8. series \in Series
  BY SeriesTyped
<1>9. SummaryOf(p) = Fixed(s, M, series)
  BY <1>2 DEF SummaryOf
<1>10. SummaryOf(p).pnl = s.value + f
  <2> HIDE DEF M, s, series
  <2> QED
    BY <1>1, <1>2, <1>6, <1>8, <1>9, FixedIs
<1>11. f \in Int /\ (Priced(series) => f = AtPar(PaidOut(M)))
  <2> HIDE DEF M, series
  <2> QED
    BY <1>1, <1>2, <1>8, FlowsPriced
<1>12. Earned(p) = AtPar(PaidOut(M))
  BY <1>2, ClosedBalance
<1> HIDE DEF f, s, snap, row, M
<1>13. SummaryOf(p).pnl = f
  BY <1>6, <1>7, <1>10, <1>11
<1> QED
  BY <1>11, <1>12, <1>13

LEMMA TilesHold ==
  ASSUME ChainInv, BookInv, \A p \in Realized.closed : Priced(SeriesOf(p))
  PROVE  Realized.pnl = SumFunction([p \in Realized.closed |-> Earned(p)])
<1> DEFINE C == {p \in Positions : \E k \in EventsOf(p) : log[k].closed}
           pnl == [p \in C |-> SummaryOf(p).pnl]
           earned == [p \in C |-> Earned(p)]
<1>1. Realized.closed = C
  BY DEF Realized
<1>2. Realized.pnl = SumFunctionOnSet(pnl, C)
  <2>1. Realized.pnl = SumFunction([p \in C |-> [q \in C |-> SummaryOf(q)][p].pnl])
    BY DEF Realized
  <2>2. [p \in C |-> [q \in C |-> SummaryOf(q)][p].pnl] = pnl
    OBVIOUS
  <2> HIDE DEF C
  <2> QED
    BY <2>1, <2>2 DEF SumFunction
<1>3. IsFiniteSet(C)
  BY ConstantsAssumption, FS_Subset
<1>4. \A p \in C : pnl[p] \in Int /\ pnl[p] = earned[p]
  <2> SUFFICES ASSUME NEW p \in C PROVE SummaryOf(p).pnl \in Int /\ SummaryOf(p).pnl = Earned(p)
    OBVIOUS
  <2>1. PICK c \in EventsOf(p) : log[c].closed
    OBVIOUS
  <2>2. p \in Positions /\ Priced(SeriesOf(p))
    BY <1>1
  <2> QED
    BY <2>1, <2>2, ClosedSummary
<1>5. DOMAIN earned = C
  OBVIOUS
<1>6. SumFunction([p \in Realized.closed |-> Earned(p)]) = SumFunctionOnSet(earned, C)
  BY <1>1, <1>5 DEF SumFunction
<1> HIDE DEF pnl, earned, C
<1>7. SumFunctionOnSet(pnl, C) = SumFunctionOnSet(earned, C)
  BY <1>3, <1>4, SumSame DEF Integral
<1> QED
  BY <1>2, <1>6, <1>7

(* The newest value of all is the last of its bucket.                      *)
LEMMA NewestIsCharted ==
  ASSUME ChainInv, BookInv, NEW n \in navs
  PROVE  \E o \in NavPoints : o.ts >= n.ts
<1> DEFINE Ts == {o.ts : o \in navs}
<1>1. clock \in Nat /\ \A o \in navs : o.ts \in Nat /\ o.ts <= clock
  BY DEF ChainInv, TypeOK, BookInv, PassesApart
<1>2. Ts \in SUBSET (0 .. clock) /\ Ts # {}
  BY <1>1
<1>3. PICK t \in Ts : \A j \in Ts : j <= t
  <2> HIDE DEF Ts
  <2> QED
    BY <1>1, <1>2, Greatest
<1>4. PICK o \in navs : o.ts = t
  BY <1>3
<1>5. \A s \in navs : s.ts <= o.ts
  BY <1>3, <1>4
<1>6. o \in NavPoints
  BY <1>5 DEF NavPoints, LastOfBucket
<1> QED
  BY <1>1, <1>5, <1>6

(* The marks that were written with a value of the owner.                  *)
WrittenAt(n) == {m \in marks : m.ts = n.ts}

(* A mark's part of a chart, fees and all.                                 *)
Worth(m) == Val(Plus(m.amount, m.fees), PriceOf(m))

(* What both charts take for the last word of a bucket.                    *)
LastWord(n) ==
  /\ n \in navs
  /\ \A m \in marks : BucketOf(m) = BucketOf(n) => m.ts <= n.ts

LEMMA WorthTyped ==
  ASSUME NEW m \in MarkType
  PROVE  Worth(m) \in Nat
BY MarkIs, PlusTyped, ValNat DEF Worth

LEMMA WorthIs ==
  ASSUME NEW m \in MarkType, PriceOf(m) = Par
  PROVE  /\ Worth(m) \in Nat
         /\ TreasuryPart(m) \in Int
         /\ Worth(m) = NavPart(m) + TreasuryPart(m)
<1>1. m.amount \in Amounts /\ m.fees \in Amounts
  BY MarkIs
<1>2. PICK a : a = Plus(m.amount, m.fees)
  OBVIOUS
<1>3. a \in Amounts /\ AtPar(a) = AtPar(m.amount) + AtPar(m.fees)
  BY <1>1, <1>2, PlusTyped
<1>4. /\ Val(a, Par) = AtPar(a) /\ Val(m.amount, Par) = AtPar(m.amount)
      /\ Val(m.fees, Par) = AtPar(m.fees)
  BY <1>1, <1>3, AmountIs, ValIs
<1>5. AtPar(m.amount) \in Nat /\ AtPar(m.fees) \in Nat /\ AtPar(a) \in Nat
  BY <1>1, <1>3, AmountIs DEF AtPar
<1>6. PICK k : k = Kept(AtPar(m.fees))
  OBVIOUS
<1>7. k \in Int
  <2>1. 100 - PerfPercent \in Int
    BY ConstantsAssumption
  <2>2. AtPar(m.fees) * (100 - PerfPercent) \in Int
    BY <1>5, <2>1
  <2> QED
    BY <1>6, <2>2 DEF Kept
<1>8. Worth(m) = AtPar(a) /\ TreasuryPart(m) = AtPar(m.fees) - k
  BY <1>2, <1>4, <1>6 DEF Worth, TreasuryPart
<1>9. NavPart(m) = AtPar(m.amount) + k
  BY <1>4, <1>6 DEF NavPart
<1> QED
  BY <1>3, <1>5, <1>7, <1>8, <1>9

(* They were written at par.                                               *)
LEMMA WrittenIs ==
  ASSUME ChainInv, BookInv, NEW n, LastWord(n)
  PROVE  LET L == WrittenAt(n)
         IN  /\ L # {} /\ IsFiniteSet(L) /\ L \in SUBSET MarkType
             /\ \A m \in L : PriceOf(m) = Par
             /\ n.positions = SumFunctionOnSet([m \in L |-> NavPart(m)], L)
<1> DEFINE L == WrittenAt(n)
<1>1. n \in navs
  BY DEF LastWord
<1>2. L \subseteq marks
  BY DEF WrittenAt
<1>3. IsFiniteSet(L) /\ L \in SUBSET MarkType
  BY <1>2, FS_Subset DEF BookInv, Finite, ChainInv, TypeOK
<1>4. /\ L # {} /\ (\A m \in L : PriceOf(m) = Par)
      /\ n.positions = SumFunction([m \in L |-> NavPart(m)])
  BY <1>1 DEF BookInv, NavsTrue, WrittenAt
<1>5. n.positions = SumFunctionOnSet([m \in L |-> NavPart(m)], L)
  BY <1>4 DEF SumFunction
<1> QED
  BY <1>3, <1>4, <1>5

(* What else the history counts is older, and its position is closed or    *)
(* was marked at its opening.                                              *)
LEMMA LingeringIs ==
  ASSUME ChainInv, BookInv, NEW n, LastWord(n)
  PROVE  LET L == WrittenAt(n)
             G == Lingering(BucketOf(n), n.ts)
         IN  /\ L \cap G = {}
             /\ IsFiniteSet(L \cup G) /\ L \cup G \in SUBSET MarkType
             /\ \A p \in Positions :
                  {m \in LastOfBucket(MarksOf(p)) : BucketOf(m) = BucketOf(n)}
                    = {m \in L \cup G : m.position = p}
             /\ \A m \in G : Excused(m)
<1> DEFINE L == WrittenAt(n)
           b == BucketOf(n)
           G == Lingering(b, n.ts)
<1>1. n \in navs /\ (\A m \in marks : BucketOf(m) = b => m.ts <= n.ts)
  BY DEF LastWord
<1>2. /\ \A m \in marks : m \in MarkType /\ m.ts \in Nat /\ m.position \in Positions
      /\ n.ts \in Nat
  BY <1>1, MarkIs DEF ChainInv, TypeOK
<1>3. \A m : m.ts = n.ts => BucketOf(m) = b
  BY DEF BucketOf
<1>4. L \cup G \subseteq marks
  BY DEF WrittenAt, Lingering
<1>5. IsFiniteSet(L \cup G) /\ L \cup G \in SUBSET MarkType
  BY <1>2, <1>4, FS_Subset DEF BookInv, Finite
<1>6. L \cap G = {}
  BY <1>2 DEF WrittenAt, Lingering
<1>7. \A m \in L : m \in LastOfBucket(MarksOf(m.position)) /\ BucketOf(m) = b
  BY <1>1, <1>3 DEF WrittenAt, LastOfBucket, MarksOf
<1>8. ASSUME NEW p \in Positions
      PROVE  {m \in LastOfBucket(MarksOf(p)) : BucketOf(m) = b} = {m \in L \cup G : m.position = p}
  <2>1. ASSUME NEW m \in L \cup G, m.position = p
        PROVE  m \in LastOfBucket(MarksOf(p)) /\ BucketOf(m) = b
    BY <1>7, <2>1 DEF Lingering
  <2>2. ASSUME NEW m \in LastOfBucket(MarksOf(p)), BucketOf(m) = b
        PROVE  m \in L \cup G /\ m.position = p
    <3>1. m \in marks /\ m.position = p
      BY DEF LastOfBucket, MarksOf
    <3>2. m.ts = n.ts \/ m.ts < n.ts
      BY <1>1, <1>2, <2>2, <3>1
    <3> QED
      BY <2>2, <3>1, <3>2 DEF WrittenAt, Lingering
  <2> HIDE DEF L, G, b
  <2> QED
    BY <2>1, <2>2
<1>9. ASSUME NEW m \in G PROVE Excused(m)
  <2>1. /\ m \in marks /\ BucketOf(m) = b /\ m.ts < n.ts
        /\ \A s \in MarksOf(m.position) : BucketOf(s) = BucketOf(m) => s.ts <= m.ts
    BY DEF Lingering, LastOfBucket
  <2>2. Excused(m) \/ \E o \in marks : o.position = m.position /\ o.ts = n.ts
    BY <1>1, <2>1 DEF BookInv, PassesComplete
  <2>3. ASSUME NEW o \in marks, o.position = m.position, o.ts = n.ts PROVE FALSE
    <3>1. BucketOf(o) = b /\ o \in MarksOf(m.position)
      BY <1>3, <2>3 DEF MarksOf
    <3>2. n.ts <= m.ts
      BY <2>1, <2>3, <3>1
    <3> QED
      BY <1>2, <2>1, <3>2
  <2> QED
    BY <2>2, <2>3
<1> QED
  BY <1>5, <1>6, <1>8, <1>9

LEMMA HistoryIs ==
  ASSUME ChainInv, BookInv, NEW n, LastWord(n)
  PROVE  LET L == WrittenAt(n)
             G == Lingering(BucketOf(n), n.ts)
         IN  History(BucketOf(n)) = SumFunctionOnSet([m \in L |-> Worth(m)], L)
                                      + SumFunctionOnSet([m \in G |-> Worth(m)], G)
<1> DEFINE L == WrittenAt(n)
           b == BucketOf(n)
           G == Lingering(b, n.ts)
           All == L \cup G
           worth == [m \in All |-> Worth(m)]
           of == [m \in All |-> m.position]
           In(p) == {m \in LastOfBucket(MarksOf(p)) : BucketOf(m) = b}
           t == [p \in Positions |-> SumFunction([m \in In(p) |-> Val(Plus(m.amount, m.fees), PriceOf(m))])]
<1>1. /\ L \cap G = {} /\ IsFiniteSet(All) /\ All \in SUBSET MarkType
      /\ \A p \in Positions : In(p) = {m \in All : m.position = p}
  BY LingeringIs
<1>2. Integral(worth, All)
  BY <1>1, WorthTyped DEF Integral
<1>3. \A m \in All : of[m] \in Positions
  BY <1>1, MarkIs
<1>4. History(b) = SumFunctionOnSet(t, Positions)
  BY DEF History, SumFunction
<1>5. ASSUME NEW p \in Positions PROVE t[p] = SumFunctionOnSet(worth, MembersOf(All, of, p))
  <2>1. PICK T : T = MembersOf(All, of, p)
    OBVIOUS
  <2>2. T = In(p) /\ T \in SUBSET All
    BY <1>1, <2>1 DEF MembersOf
  <2>3. PICK g : g = [m \in T |-> Worth(m)]
    OBVIOUS
  <2>4. g = [m \in In(p) |-> Val(Plus(m.amount, m.fees), PriceOf(m))] /\ DOMAIN g = T
    BY <2>2, <2>3 DEF Worth
  <2>5. t[p] = SumFunctionOnSet(g, T)
    BY <2>4 DEF SumFunction
  <2>6. \A m \in T : g[m] = worth[m]
    BY <2>2, <2>3
  <2>7. Integral(worth, T)
    BY <1>2, <2>2, FS_Subset DEF Integral
  <2> HIDE DEF worth, t, All, of, In
  <2>8. SumFunctionOnSet(worth, T) = SumFunctionOnSet(g, T)
    BY <2>6, <2>7, SumSame
  <2> QED
    BY <2>1, <2>5, <2>8
<1>6. SumFunctionOnSet(t, Positions) = SumFunctionOnSet(worth, All)
  <2> HIDE DEF worth, t, All, of
  <2> QED
    BY <1>2, <1>3, <1>5, SumOfGroups, ConstantsAssumption
<1>7. SumFunctionOnSet(worth, All) = SumFunctionOnSet(worth, L) + SumFunctionOnSet(worth, G)
  <2> HIDE DEF worth, L, G
  <2> QED
    BY <1>1, <1>2, SumUnion
<1>8. ASSUME NEW T \in SUBSET All
      PROVE  SumFunctionOnSet(worth, T) = SumFunctionOnSet([m \in T |-> Worth(m)], T)
  <2>1. PICK g : g = [m \in T |-> Worth(m)]
    OBVIOUS
  <2>2. Integral(worth, T)
    BY <1>2, FS_Subset DEF Integral
  <2>3. \A m \in T : worth[m] = g[m]
    BY <2>1
  <2> HIDE DEF worth, All
  <2> QED
    BY <2>1, <2>2, <2>3, SumSame
<1>9. L \in SUBSET All /\ G \in SUBSET All
  OBVIOUS
<1> HIDE DEF worth, L, G, All, b, t
<1> QED
  BY <1>4, <1>6, <1>7, <1>8, <1>9 DEF L, G, b

(* What they are worth is the owner's value and the treasury's part.       *)
LEMMA ChartsAgree ==
  ASSUME ChainInv, BookInv, NEW n, LastWord(n)
  PROVE  SumFunctionOnSet([m \in WrittenAt(n) |-> Worth(m)], WrittenAt(n))
           = n.positions + SumFunction([m \in WrittenAt(n) |-> TreasuryPart(m)])
<1> DEFINE L == WrittenAt(n)
           worth == [m \in L |-> Worth(m)]
           nav == [m \in L |-> NavPart(m)]
           part == [m \in L |-> TreasuryPart(m)]
<1>1. /\ IsFiniteSet(L) /\ L \in SUBSET MarkType
      /\ \A m \in L : PriceOf(m) = Par
      /\ n.positions = SumFunctionOnSet(nav, L)
  BY WrittenIs
<1>2. \A m \in L : /\ worth[m] = nav[m] + part[m]
                   /\ nav[m] \in Int /\ part[m] \in Int
  BY <1>1, WorthIs, NavPartTyped
<1>3. Integral(nav, L) /\ Integral(part, L)
  BY <1>1, <1>2 DEF Integral
<1>4. SumFunction([m \in WrittenAt(n) |-> TreasuryPart(m)]) = SumFunctionOnSet(part, L)
  BY DEF SumFunction
<1>5. SumFunctionOnSet(worth, L) = SumFunctionOnSet(nav, L) + SumFunctionOnSet(part, L)
  <2> HIDE DEF worth, nav, part, L
  <2> QED
    BY <1>2, <1>3, SumPlus
<1> QED
  BY <1>1, <1>4, <1>5

(* Where the marks are the newest of the open positions, the pool's value  *)
(* adds up the same.                                                       *)
LEMMA TvlIs ==
  ASSUME ChainInv, BookInv, NEW n, LastWord(n),
         OpenRows = {m.position : m \in WrittenAt(n)}, \A m \in marks : m.ts <= n.ts
  PROVE  Tvl = SumFunctionOnSet([m \in WrittenAt(n) |-> Worth(m)], WrittenAt(n))
<1> DEFINE L == WrittenAt(n)
           worth == [m \in L |-> Worth(m)]
           of == [m \in L |-> m.position]
           t == [p \in OpenRows |-> Summarize(Row(p), LatestSnapshot(p)).value]
<1>1. /\ IsFiniteSet(L) /\ L \in SUBSET MarkType
      /\ \A m \in L : PriceOf(m) = Par
  BY WrittenIs
<1>2. L \subseteq marks /\ \A m \in L : m.ts = n.ts
  BY DEF WrittenAt
<1>3. Integral(worth, L)
  BY <1>1, WorthIs DEF Integral
<1>4. \A m \in L : of[m] \in OpenRows
  OBVIOUS
<1>5. IsFiniteSet(OpenRows)
  BY ConstantsAssumption, FS_Subset DEF OpenRows
<1>6. Tvl = SumFunctionOnSet(t, OpenRows)
  BY DEF Tvl, SumFunction
<1>7. n \in navs /\ n.ts \in Nat /\ \A m \in marks : m.ts \in Nat /\ m \in MarkType
  BY MarkIs DEF LastWord, ChainInv, TypeOK
<1>8. ASSUME NEW p \in OpenRows PROVE t[p] = SumFunctionOnSet(worth, MembersOf(L, of, p))
  <2>1. PICK m \in L : m.position = p
    OBVIOUS
  <2>2. m \in MarksOf(p)
    BY <1>2, <2>1 DEF MarksOf
  <2>3. PICK s : s = LatestSnapshot(p)
    OBVIOUS
  <2>4. s \in MarksOf(p) /\ m.ts <= s.ts
    BY <2>2, <2>3, LatestIs
  <2>5. s \in marks /\ s.position = p /\ s.ts = n.ts
    BY <1>2, <1>7, <2>4 DEF MarksOf
  <2>6. \A o \in L : o.position = p => o = s
    BY <1>2, <2>5 DEF BookInv, PassesApart
  <2>7. s = m
    BY <2>1, <2>6
  <2>8. MembersOf(L, of, p) = {m}
    BY <2>1, <2>6, <2>7 DEF MembersOf
  <2>9. worth[m] \in Int /\ worth[m] = Worth(m)
    BY <1>3 DEF Integral
  <2>10. SumFunctionOnSet(worth, {m}) = Worth(m)
    <3> HIDE DEF worth
    <3> QED
      BY <2>9, SumSingle
  <2>11. Row(p) \in RowType
    BY RowIs, RowAtTyped DEF ChainInv, TypeOK
  <2>12. m \in MarkType \cup {None} /\ m # None
    BY <1>1, ConstantsAssumption
  <2>13. Summarize(Row(p), m).value = ValueIn(m)
    BY <2>11, <2>12, SummaryIs
  <2>14. ValueIn(m) = Worth(m)
    BY <2>12 DEF ValueIn, Worth
  <2>15. t[p] = Summarize(Row(p), m).value
    BY <2>3, <2>7
  <2> HIDE DEF worth, t, L, of
  <2> QED
    BY <2>8, <2>10, <2>13, <2>14, <2>15
<1>9. SumFunctionOnSet(t, OpenRows) = SumFunctionOnSet(worth, L)
  <2> HIDE DEF worth, t, L, of
  <2> QED
    BY <1>3, <1>4, <1>5, <1>8, SumOfGroups
<1> QED
  BY <1>6, <1>9

LEMMA BookHolds == IInv => BookAddsUp
<1> SUFFICES ASSUME ChainInv, BookInv PROVE BookAddsUp
  BY Grouped
<1>1. (\A p \in Realized.closed : Priced(SeriesOf(p))) =>
        Realized.pnl = SumFunction([p \in Realized.closed |-> Earned(p)])
  BY TilesHold
<1>2. \A n \in navs : \E o \in NavPoints : o.ts >= n.ts
  BY NewestIsCharted
<1>3. ASSUME NEW n \in NavPoints, \A m \in marks : BucketOf(m) = BucketOf(n) => m.ts <= n.ts
      PROVE  LET last == {m \in marks : m.ts = n.ts}
                 worth == n.positions + SumFunction([m \in last |-> TreasuryPart(m)])
                 lingering == Lingering(BucketOf(n), n.ts)
             IN  /\ History(BucketOf(n)) = worth + SumFunction([m \in lingering |->
                                              Val(Plus(m.amount, m.fees), PriceOf(m))])
                 /\ \A m \in lingering : m.position \notin OpenRows \/ MarkedAtOpening(m)
                 /\ OpenRows = {m.position : m \in last} /\ (\A m \in marks : m.ts <= n.ts) =>
                      Tvl = worth
  <2> DEFINE G == Lingering(BucketOf(n), n.ts)
             worth == n.positions + SumFunction([m \in WrittenAt(n) |-> TreasuryPart(m)])
  <2>1. LastWord(n)
    BY <1>3 DEF LastWord, NavPoints, LastOfBucket
  <2>2. WrittenAt(n) = {m \in marks : m.ts = n.ts}
    BY DEF WrittenAt
  <2>3. SumFunctionOnSet([m \in WrittenAt(n) |-> Worth(m)], WrittenAt(n)) = worth
    BY <2>1, ChartsAgree
  <2>4. History(BucketOf(n)) = SumFunctionOnSet([m \in WrittenAt(n) |-> Worth(m)], WrittenAt(n))
                                 + SumFunctionOnSet([m \in G |-> Worth(m)], G)
    BY <2>1, HistoryIs
  <2>5. SumFunctionOnSet([m \in G |-> Worth(m)], G)
          = SumFunction([m \in G |-> Val(Plus(m.amount, m.fees), PriceOf(m))])
    BY DEF SumFunction, Worth
  <2>6. \A m \in G : m.position \notin OpenRows \/ MarkedAtOpening(m)
    BY <2>1, LingeringIs DEF Excused, OpenRows
  <2>7. ASSUME OpenRows = {m.position : m \in WrittenAt(n)}, \A m \in marks : m.ts <= n.ts
        PROVE  Tvl = worth
    BY <2>1, <2>3, <2>7, TvlIs
  <2> HIDE DEF G
  <2> QED
    BY <2>2, <2>3, <2>4, <2>5, <2>6, <2>7 DEF G
<1> QED
  BY <1>1, <1>2, <1>3 DEF BookAddsUp

(* What the tiles and the charts say adds up, whatever is open, half       *)
(* indexed or half marked: the tile of the closed positions to what they   *)
(* earned, and the two charts of a bucket to each other, up to the         *)
(* treasury's part of the unclaimed fees and what the history still counts *)
(* of positions that were closed, or marked at their opening.              *)
THEOREM BookAddsUpSafe == Spec => []BookAddsUp
BY Invariance, BookHolds, PTL
=============================================================================
