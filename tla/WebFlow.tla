------------------------------ MODULE WebFlow ------------------------------
(***************************************************************************)
(* The web app's guided transactions: the form that plans a position while *)
(* it is edited (OpenPosition.tsx), the exit of a position and the sale of *)
(* what an exit left (PositionActions.tsx, SellToQuote.tsx), and the       *)
(* steppers that sign one transaction after another (TxStepper,            *)
(* StepperHost.tsx), over a wallet that may refuse or lose a transaction   *)
(* and a chain that mines the others in order.                             *)
(*                                                                         *)
(* One behaviour visits one screen: the form, a position, or an agent's call of the SDK. *)
(***************************************************************************)
EXTENDS BinPlan, SequencesExt

CONSTANTS
  Requests,    \* what the form may hold at first, or an agent asks
  Forms,       \* requests that are edited and signed (bound)
  Wallets,     \* what the wallet may hold at first
  Payout,      \* the base that the position's close pays
  GasReserve,  \* GAS_RESERVE
  Runs,        \* steppers, by number
  MaxTrouble   \* bound for each screen: edits, refusals, losses, timeouts

(* What the planner of its caller makes of a request.                      *)
PlanOf(i) == IF i.caller = "sdk" THEN SdkPlan(Resolve(i)) ELSE WebPlan(Resolve(i))

VARIABLES
  screen,    \* which one, or "gone"
  form,      \* what the form holds
  plan,      \* the request of the plan on the screen, or None
  terms,     \* that plan
  timer,     \* the debounce of the last edit runs
  planning,  \* the button is disabled
  asked,     \* requests the debounce has planned for, unanswered
  tracked,   \* requests the live replan has planned for, unanswered
  seen,      \* balances and allowances as they were last read
  looking,   \* exits that still look for a venue
  runs,      \* the steppers
  hosted,    \* the one that is on the screen
  mempool,   \* transactions that were sent, in order
  chain,     \* the wallet's balances and allowances, and the position
  trouble    \* how much may still go wrong

shown == <<plan, terms>>
planned == <<form, shown, timer, planning, asked, tracked>>
vars == <<screen, planned, seen, looking, runs, hosted, mempool, chain, trouble>>

Kinds == {"wrap", "wing", "approveBase", "approveQuote", "open",
          "close", "closeZap", "approveRouter", "swap"}

Terms ==
  [error : BOOLEAN, quoteIs0 : BOOLEAN, spacing : Nat,
   bins : Seq([lower : Int, upper : Int, liquidity : Nat]), anchor : Int, sync : BOOLEAN,
   route : {"v4", "router", None}, wing : Nat, base : Nat, needsQuote : Nat, needsBase : Nat]

Run ==
  [steps : Seq(Kinds), atomic : BOOLEAN, of : Ask \cup {None}, terms : Terms, wrap : Nat,
   at : Nat, stage : {"wallet", "mining", "failed", "done", "stopped"},
   try : Nat, mined : BOOLEAN, cancelled : BOOLEAN]

Reads == {"native", "quote", "base", "toQuote", "toBase"}

Chain ==
  [native : Nat, quote : Nat, base : Nat, toQuote : Nat, toBase : Nat, toRouter : Nat,
   granted : Nat, opened : [Runs -> Nat], closed : BOOLEAN, refused : SUBSET Runs]

ASSUME WebAssumption ==
  /\ Requests \subseteq Ask /\ Forms \subseteq Requests
  /\ \A i \in Requests : IsFiniteSet(i.listed) /\ IsFiniteSet(i.pools)
  /\ DefaultSpacing \in [Currencies -> Nat \ {0}]
  /\ Runs \subseteq Nat /\ IsFiniteSet(Runs) /\ MaxTrouble \in [{"open", "position", "agent", "gone"} -> Nat]
  /\ Payout \in Nat /\ GasReserve \in Nat
  /\ Wallets \subseteq [native : Nat, quote : Nat, base : Nat] /\ Wallets # {}
  /\ None \notin Ask \cup Run \cup Chain \cup Runs

(* Bound: what is asked for stays between the first tick and the last,     *)
(* where getSqrtPriceAtTick throws, and so does the price once it moved.   *)
ASSUME TicksAssumption ==
  /\ \A i \in Requests :
       ~Refused(Resolve(i)) => Edges(Resolve(i)) \cup Priced(Resolve(i)) \subseteq DOMAIN SqrtPrice
  /\ \A i \in Forms :
       ~PlanOf(i).error => PlanOf(i).anchor - 1 .. PlanOf(i).anchor + 1 \subseteq DOMAIN SqrtPrice

TypeOK ==
  /\ screen \in {"open", "position", "agent", "gone"}
  /\ {form} \cup ({plan} \ {None}) \cup asked \cup tracked \subseteq Ask
  /\ terms \in Terms
  /\ timer \in BOOLEAN /\ planning \in BOOLEAN
  /\ seen \in [Reads -> Nat] \cup {None}
  /\ looking \in 0 .. 2
  /\ \A r \in Runs : runs[r] \in Run \cup {None}
  /\ hosted \in Runs \cup {None}
  /\ mempool \in Seq([run : Runs, try : Nat, amount : Nat])
  /\ chain \in Chain
  /\ trouble \in Nat

Init ==
  /\ screen \in {"open", "position", "agent", "gone"}
  /\ form \in {i \in Requests : (i.caller = "sdk") = (screen = "agent")}
  /\ screen \in {"position", "gone"} => form = CHOOSE i \in Forms : i.caller = "web"
  /\ plan = None /\ terms = NoPlan
  /\ timer = (screen = "open")
  /\ planning = (screen = "open")
  /\ asked = IF screen = "agent" THEN {form} ELSE {}
  /\ tracked = {}
  /\ seen = None
  /\ looking = 0
  /\ runs = [r \in Runs |-> None]
  /\ hosted = None
  /\ mempool = <<>>
  /\ \E w \in IF screen = "gone" THEN {CHOOSE v \in Wallets : TRUE} ELSE Wallets :
       chain = [native |-> w.native, quote |-> w.quote, base |-> w.base,
                toQuote |-> 0, toBase |-> 0, toRouter |-> 0, granted |-> 0,
                opened |-> [r \in Runs |-> 0], closed |-> FALSE, refused |-> {}]
  /\ trouble = MaxTrouble[screen]

(* The next stepper.  Bound: the form is left alone once there is none.    *)
Fresh == {r \in Runs : runs[r] = None /\ \A o \in Runs : o < r => runs[o] # None}

Trouble == trouble > 0 /\ trouble' = trouble - 1

-----------------------------------------------------------------------------
(* The form.                                                               *)

Edit(f) ==
  /\ screen = "open" /\ hosted = None /\ Fresh # {}
  /\ f \in Forms /\ form \in Forms /\ f # form /\ f.caller = "web"
  /\ Trouble
  /\ form' = f
  /\ timer' = TRUE
  /\ planning' = TRUE
  /\ UNCHANGED <<screen, shown, asked, tracked, seen, looking, runs, hosted, mempool, chain>>

(* 400 ms after the last edit.                                             *)
Debounced ==
  /\ screen = "open"
  /\ timer
  /\ timer' = FALSE
  /\ asked' = asked \cup {form}
  /\ UNCHANGED <<screen, form, shown, planning, tracked, seen, looking, runs, hosted,
                 mempool, chain, trouble>>

(* A plan that was asked for arrives, or fails: in the order of the        *)
(* answers, not of the questions.                                          *)
Arrives(i) ==
  /\ screen \in {"open", "agent"}
  /\ i \in asked
  /\ asked' = asked \ {i}
  /\ planning' = FALSE
  /\ UNCHANGED <<screen, form, timer, tracked, seen, looking, runs, hosted, mempool, chain>>

Answered(i) ==
  /\ Arrives(i)
  /\ \/ plan' = i /\ terms' = PlanOf(i) /\ UNCHANGED trouble
     \/ plan' = None /\ terms' = NoPlan /\ Trouble

(* Faulty: plans again what is shown.                                      *)
ReplanShown ==
  /\ screen = "open" /\ Fresh # {}
  /\ tracked = {}
  /\ tracked' = tracked \cup {IF plan = None THEN form ELSE plan}
  /\ UNCHANGED <<screen, form, shown, timer, planning, asked, seen, looking, runs, hosted,
                 mempool, chain, trouble>>

(* Every 6 s the form as it is now is planned again.  Bound: one of these  *)
(* plans is computed at a time.                                            *)
Replan ==
  /\ screen = "open" /\ Fresh # {}
  /\ tracked = {}
  /\ tracked' = tracked \cup {form}
  /\ UNCHANGED <<screen, form, shown, timer, planning, asked, seen, looking, runs, hosted,
                 mempool, chain, trouble>>

(* A plan of the timer arrives and is shown, whatever the form says by now. *)
ShownAgain(i) ==
  /\ screen = "open"
  /\ i \in tracked
  /\ tracked' = tracked \ {i}
  /\ plan' = i
  /\ UNCHANGED <<screen, form, timer, planning, asked, seen, looking, runs, hosted,
                 mempool, chain, trouble>>

Replanned(i) == ShownAgain(i) /\ terms' = PlanOf(i)

ReplanFails(i) ==
  /\ screen = "open"
  /\ i \in tracked
  /\ tracked' = tracked \ {i}
  /\ UNCHANGED <<screen, form, shown, timer, planning, asked, seen, looking, runs, hosted,
                 mempool, chain, trouble>>

(* The polls of balances and allowances.  Bound: none while a stepper      *)
(* covers the form.                                                        *)
Read ==
  /\ screen = "open" /\ hosted = None /\ Fresh # {}
  /\ seen' = [f \in Reads |-> chain[f]]
  /\ UNCHANGED <<screen, planned, looking, runs, hosted, mempool, chain, trouble>>

-----------------------------------------------------------------------------
(* Steppers.                                                               *)

(* A stepper that leaves the screen is cancelled: it starts no more steps. *)
Hidden(rs, r) ==
  IF r = None THEN rs
  ELSE [rs EXCEPT ![r].cancelled = TRUE,
                  ![r].stage = IF @ = "failed" THEN "stopped" ELSE @]

NewRun(steps, atomic, i, wrap) ==
  [steps |-> steps, atomic |-> atomic, of |-> i,
   terms |-> IF i = None THEN NoPlan ELSE terms, wrap |-> wrap, at |-> 1,
   stage |-> "wallet", try |-> 1, mined |-> FALSE, cancelled |-> FALSE]

Show(r, run) ==
  /\ runs' = [Hidden(runs, hosted) EXCEPT ![r] = run]
  /\ hosted' = r

(* Faulty: goes below zero.                                                *)
ShortSigned(need, have) == need - have

Short(need, have) == IF have < need THEN need - have ELSE 0

(* preflight(): judged by the form and by what was last read.              *)
WrapAmount(i) ==
  LET short == Short(i.quote, seen.quote)
  IN IF seen.native > short + GasReserve THEN short ELSE 0

Preflight(i) ==
  /\ seen # None
  /\ seen.native > 0
  /\ Short(i.quote, seen.quote) > 0 => WrapAmount(i) > 0
  /\ i.mode = "both" => seen.base >= i.base

If(condition, step) == IF condition THEN <<step>> ELSE <<>>

(* Faulty: a multiple of the cap.                                          *)
QuoteApprovalTwice(p) == 2 * p.needsQuote

(* Exactly the cap, never a multiple of it.                                *)
QuoteApproval(p) == p.needsQuote

NeedQuoteApproval(p) == p.needsQuote > 0 /\ seen.toQuote < p.needsQuote
NeedBaseApproval(i, p) == i.mode = "both" /\ p.needsBase > 0 /\ seen.toBase < p.needsBase

(* The router's own allowance is granted once, before.                     *)
OpenSteps(i, p) ==
  If(WrapAmount(i) > 0, "wrap")
    \o If(p.route = "router", "wing") \o If(p.route = "router", "approveBase")
    \o If(NeedQuoteApproval(p), "approveQuote") \o If(NeedBaseApproval(i, p), "approveBase")
    \o <<"open">>

(* An atomic batch is on its way, or failed on chain: it is never success. *)
BatchBusy == \E r \in Runs : runs[r] # None /\ runs[r].atomic /\ runs[r].stage \in {"wallet", "mining"}

(* The click: with the plan that is on the screen, whosever it is.  Bound: *)
(* the second click waits until no plan is asked for.                      *)
StartWith(r) ==
  LET steps == OpenSteps(form, terms)
  IN /\ ~terms.error /\ ~planning /\ ~BatchBusy /\ Preflight(form)
     /\ \/ Show(r, NewRun(steps, FALSE, plan, WrapAmount(form)))
        \/ /\ runs' = [runs EXCEPT ![r] = NewRun(steps, TRUE, plan, WrapAmount(form))]
           /\ UNCHANGED hosted

StartOpen(r) ==
  /\ screen = "open" /\ hosted = None /\ r \in Fresh
  /\ {form, plan} \subseteq Forms
  /\ (\E o \in Runs : runs[o] # None) => plan = form /\ ~timer /\ asked \cup tracked = {}
  /\ StartWith(r)
  /\ UNCHANGED <<screen, planned, seen, looking, mempool, chain, trouble>>

(* What an agent is handed: exact approvals where its wallet's allowances  *)
(* are short, in the order of the pool's currencies, and the open.         *)
AgentSteps(p) ==
  LET quote == If(p.needsQuote > 0 /\ chain.toQuote < p.needsQuote, "approveQuote")
      base == If(p.needsBase > 0 /\ chain.toBase < p.needsBase, "approveBase")
  IN (IF p.quoteIs0 THEN quote \o base ELSE base \o quote) \o <<"open">>

(* A build of an open.  The agent may ask for another while the last one   *)
(* is mined: it then signs no more of the one before.                      *)
StartAgent(r) ==
  /\ screen = "agent" /\ r \in Fresh
  /\ plan \in Forms
  /\ hosted # None => runs[hosted].stage # "wallet"
  /\ ~terms.error
  /\ LET steps == AgentSteps(terms)
     IN Show(r, NewRun(steps, FALSE, plan, 0))
  /\ UNCHANGED <<screen, planned, seen, looking, mempool, chain, trouble>>

Busy == \E r \in Runs : /\ runs[r] # None
                        /\ runs[r].stage = "wallet" \/ (runs[r].stage = "mining" /\ ~runs[r].mined)

(* "Close + zap" looks for a venue first, and may be clicked again.        *)
Click ==
  /\ screen = "position" /\ hosted = None
  /\ ~Busy
  /\ looking < 2
  /\ looking' = looking + 1
  /\ UNCHANGED <<screen, planned, seen, runs, hosted, mempool, chain, trouble>>

(* In the unlock through a v4 venue, else in three steps, else not at all. *)
StartExit(r) ==
  /\ looking > 0 /\ r \in Fresh
  /\ looking' = looking - 1
  /\ \/ /\ runs' = [runs EXCEPT ![r] = NewRun(<<"closeZap">>, FALSE, None, 0)]
        /\ UNCHANGED hosted
     \/ Show(r, NewRun(<<"close", "approveRouter", "swap">>, FALSE, None, 0))
     \/ UNCHANGED <<runs, hosted>>
  /\ UNCHANGED <<screen, planned, seen, mempool, chain, trouble>>

(* "Close" keeps the tokens.                                               *)
StartClose(r) ==
  /\ screen = "position" /\ hosted = None /\ r \in Fresh
  /\ ~Busy
  /\ runs' = [runs EXCEPT ![r] = NewRun(<<"close">>, FALSE, None, 0)]
  /\ UNCHANGED <<screen, planned, seen, looking, hosted, mempool, chain, trouble>>

(* What was kept is sold from the closed view.  Bound: not while an exit   *)
(* looks for a venue.                                                      *)
StartSell(r) ==
  /\ screen = "position" /\ hosted = None /\ looking = 0 /\ r \in Fresh
  /\ chain.closed /\ chain.base > 0
  /\ Show(r, NewRun(<<"approveRouter", "swap">>, FALSE, None, 0))
  /\ UNCHANGED <<screen, planned, seen, looking, mempool, chain, trouble>>

(* Faulty: what the close was to pay, not what is there.                   *)
PayoutOnly(run) ==
  IF run.of = None /\ run.steps[run.at] \in {"approveRouter", "swap"} THEN Payout ELSE 0

(* What a transaction carries: the balance, if it is read when it is made. *)
AmountOf(run) ==
  IF run.of = None /\ run.steps[run.at] \in {"approveRouter", "swap"} THEN chain.base ELSE 0

(* The wallet signs; what it does not relay nobody will ever mine.         *)
Sign(r) ==
  /\ runs[r] # None /\ runs[r].stage = "wallet"
  /\ runs' = [runs EXCEPT ![r].stage = "mining", ![r].mined = FALSE]
  /\ \/ /\ mempool' = Append(mempool, [run |-> r, try |-> runs[r].try, amount |-> AmountOf(runs[r])])
        /\ UNCHANGED trouble
     \/ Trouble /\ UNCHANGED mempool
  /\ UNCHANGED <<screen, planned, seen, looking, hosted, chain>>

Alone(run) == run.atomic \/ run.steps \in {<<"close">>, <<"closeZap">>}

(* Refused in the wallet.                                                  *)
Reject(r) ==
  /\ runs[r] # None /\ runs[r].stage = "wallet"
  /\ Trouble
  /\ runs' = [runs EXCEPT ![r].stage =
                IF Alone(runs[r]) \/ runs[r].cancelled THEN "stopped" ELSE "failed"]
  /\ UNCHANGED <<screen, planned, seen, looking, hosted, mempool, chain>>

(* The wait for the receipt gives up, whatever became of the transaction.  *)
GiveUp(r) ==
  /\ runs[r] # None /\ runs[r].stage = "mining" /\ ~Alone(runs[r])
  /\ Trouble
  /\ runs' = [runs EXCEPT ![r].stage = IF runs[r].cancelled THEN "stopped" ELSE "failed"]
  /\ UNCHANGED <<screen, planned, seen, looking, hosted, mempool, chain>>

Retry(r) ==
  /\ hosted = r /\ runs[r].stage = "failed"
  /\ runs' = [runs EXCEPT ![r].stage = "wallet", ![r].try = @ + 1]
  /\ UNCHANGED <<screen, planned, seen, looking, hosted, mempool, chain, trouble>>

Cancel(r) ==
  /\ hosted = r /\ runs[r].stage # "done"
  /\ hosted' = None
  /\ runs' = Hidden(runs, r)
  /\ UNCHANGED <<screen, planned, seen, looking, mempool, chain, trouble>>

(* The receipt is there: the next step, or all is done.  A receipt says    *)
(* that a transaction was mined, not that it succeeded.  The stepper that  *)
(* finishes takes whichever is hosted in its place off the screen, and an  *)
(* open leaves the form.                                                   *)
Place(run) ==
  IF run.of # None THEN "form" ELSE IF run.steps[1] = "approveRouter" THEN "sale" ELSE "host"

Receipt(r) ==
  LET run == runs[r]
      last == run.atomic \/ run.at = Len(run.steps)
      opens == run.of # None
      over == hosted # None /\ (opens \/ (~Alone(run) /\ Place(runs[hosted]) = Place(run)))
  IN /\ run # None /\ run.stage = "mining" /\ run.mined
     /\ IF last
        THEN /\ hosted' = IF over THEN None ELSE hosted
             /\ runs' = [Hidden(runs, IF over THEN hosted ELSE None) EXCEPT ![r].stage = "done"]
             /\ screen' = IF opens THEN "gone" ELSE screen
        ELSE /\ runs' = [runs EXCEPT ![r] =
                  IF run.cancelled THEN [run EXCEPT !.stage = "stopped"]
                  ELSE [run EXCEPT !.stage = "wallet", !.at = @ + 1, !.try = 1]]
             /\ UNCHANGED <<screen, hosted>>
     /\ UNCHANGED <<planned, seen, looking, mempool, chain, trouble>>

-----------------------------------------------------------------------------
(* The chain.                                                              *)

(* The bins pull what they need at the price of the moment; a swap in the  *)
(* unlock pays for its wing first, and its base is used before the wallet's. *)
Pulled(p, tick) ==
  LET v == CostPosition(p.bins, SqrtPrice[tick])
      q == IF p.quoteIs0 THEN v.amount0 ELSE v.amount1
      b == IF p.quoteIs0 THEN v.amount1 ELSE v.amount0
  IN [quote |-> q + (IF p.route = "v4" THEN p.wing ELSE 0),
      base |-> IF p.route = "v4" THEN Max({b - p.base, 0}) ELSE b]

(* The forms are of about one size: the position of any takes more than    *)
(* half of the quote that any approves.                                    *)
FormsAlike ==
  \A i, j \in Forms :
    ~PlanOf(i).error /\ ~PlanOf(j).error =>
      \A tick \in PlanOf(i).anchor - 1 .. PlanOf(i).anchor + 1 :
        2 * Pulled(PlanOf(i), tick).quote > PlanOf(j).needsQuote

(* The chain after a step of a run, None if it must revert.                *)
Do(c, r, kind, amount, tick) ==
  LET run == runs[r]
      p == run.terms
      pull == Pulled(p, tick)
  IN CASE kind = "wrap" ->
            IF c.native < run.wrap THEN None
            ELSE [c EXCEPT !.native = @ - run.wrap, !.quote = @ + run.wrap]
       [] kind = "wing" ->
            IF c.quote < p.wing THEN None
            ELSE [c EXCEPT !.quote = @ - p.wing, !.base = @ + p.base]
       [] kind = "approveQuote" -> [c EXCEPT !.toQuote = QuoteApproval(p), !.granted = @ + 1]
       [] kind = "approveBase" -> [c EXCEPT !.toBase = p.needsBase]
       [] kind = "open" ->
            IF \/ Len(p.bins) > MaxBins
               \/ pull.quote > Min({p.needsQuote, c.toQuote, c.quote})
               \/ pull.base > Min({p.needsBase, c.toBase, c.base})
            THEN None
            ELSE [c EXCEPT !.quote = @ - pull.quote, !.toQuote = @ - pull.quote,
                           !.base = @ - pull.base, !.toBase = @ - pull.base,
                           !.opened[r] = @ + 1]
       [] kind = "close" ->
            IF c.closed THEN None ELSE [c EXCEPT !.closed = TRUE, !.base = @ + Payout]
       [] kind = "closeZap" -> IF c.closed THEN None ELSE [c EXCEPT !.closed = TRUE]
       [] kind = "approveRouter" -> [c EXCEPT !.toRouter = amount]
       [] kind = "swap" ->
            IF amount > Min({c.toRouter, c.base}) THEN None
            ELSE [c EXCEPT !.toRouter = @ - amount, !.base = @ - amount]

(* A batch does all of its steps or none.                                  *)
DoBatch(c, r, amount, tick) ==
  LET Step(before, kind) == IF before = None THEN None ELSE Do(before, r, kind, amount, tick)
  IN FoldLeft(Step, c, runs[r].steps)

DoRun(c, r, amount, tick) ==
  IF runs[r].atomic THEN DoBatch(c, r, amount, tick)
  ELSE Do(c, r, runs[r].steps[runs[r].at], amount, tick)

(* Whatever calls a pool, its hook or a venue may revert for their reasons. *)
MayRevert(run) ==
  \E k \in DOMAIN run.steps :
    /\ run.steps[k] \in {"wing", "open", "close", "closeZap", "swap"}
    /\ run.atomic \/ k = run.at

(* The next transaction, at a price that moved by a tick or did not.  A    *)
(* batch that failed keeps its caller waiting; any other transaction has a *)
(* receipt, which says of a stepper's next step that it may follow.        *)
Mined(tx, run, refused, c) ==
  /\ chain' = IF c # None THEN c
              ELSE [chain EXCEPT !.refused = @ \cup (IF refused /\ run.of = None THEN {tx.run} ELSE {})]
  /\ runs' = [runs EXCEPT ![tx.run].mined = @ \/ (tx.try = run.try /\ ~(run.atomic /\ c = None))]

Mine ==
  /\ mempool # <<>>
  /\ LET tx == Head(mempool)
         run == runs[tx.run]
     IN \E tick \in run.terms.anchor - 1 .. run.terms.anchor + 1,
           refused \in IF MayRevert(run) THEN BOOLEAN ELSE {FALSE} :
          Mined(tx, run, refused,
                IF refused THEN None ELSE DoRun(chain, tx.run, tx.amount, tick))
  /\ mempool' = Tail(mempool)
  /\ UNCHANGED <<screen, planned, seen, looking, hosted, trouble>>

-----------------------------------------------------------------------------
(* Specification.                                                          *)

FormStep ==
  \/ \E f \in Forms : Edit(f)
  \/ Debounced
  \/ \E i \in asked : Answered(i)
  \/ Replan
  \/ \E i \in tracked : Replanned(i) \/ ReplanFails(i)
  \/ Read

StepperStep ==
  \/ Click
  \/ \E r \in Runs :
       \/ StartOpen(r) \/ StartAgent(r) \/ StartExit(r) \/ StartClose(r) \/ StartSell(r)
       \/ Sign(r) \/ Reject(r) \/ GiveUp(r) \/ Retry(r) \/ Cancel(r) \/ Receipt(r)

Next == FormStep \/ StepperStep \/ Mine

(* Timers fire, requests are answered, and not every replan fails.         *)
Fairness ==
  /\ WF_vars(Debounced) /\ WF_vars(Replan)
  /\ \A i \in Forms : WF_asked(Arrives(i)) /\ SF_tracked(ShownAgain(i))

Spec == Init /\ [][Next]_vars /\ Fairness

-----------------------------------------------------------------------------
(* Properties.                                                             *)

(* What the bins hold at the price they were planned for.                  *)
Needs(p) ==
  LET v == ValuePosition(p.bins, SqrtPrice[p.anchor])
  IN [quote |-> IF p.quoteIs0 THEN v.amount0 ELSE v.amount1,
      base |-> IF p.quoteIs0 THEN v.amount1 ELSE v.amount0]

(* A plan asks for no more than was offered of either currency, the wing   *)
(* included, and of the base no more than a swap is sure to give.          *)
WithinBudget(i, p) ==
  LET n == Needs(p)
  IN n.quote + p.wing <= i.quote /\ n.base <= p.base /\ n.quote <= p.needsQuote

(* On the grid, and no tick in two bins.                                   *)
OnGrid(p) ==
  /\ \A k \in DOMAIN p.bins :
       /\ p.bins[k].lower < p.bins[k].upper
       /\ p.bins[k].lower % p.spacing = 0 /\ p.bins[k].upper % p.spacing = 0
  /\ \A k, l \in DOMAIN p.bins :
       k # l => p.bins[k].upper <= p.bins[l].lower \/ p.bins[l].upper <= p.bins[k].lower

(* A simple range that need not be clamped to the ticks there are.         *)
Unclamped(r) ==
  LET down == IF r.quoteIs0 THEN r.above ELSE r.below
      up == IF r.quoteIs0 THEN r.below ELSE r.above
  IN {((AnchorOf(r) - down) \div r.spacing) * r.spacing, Ceiling(AnchorOf(r) + up, r.spacing) * r.spacing}
       \subseteq DOMAIN SqrtPrice

(* Amounts that give every bin some liquidity: the SDK leaves the others   *)
(* out, where the web app has no plan at all.                              *)
NoneLeftOut(r) ==
  r.caller = "sdk" => LET bins == Bins(r, r.quote, r.base)
                      IN \A k \in DOMAIN bins : bins[k].liquidity > 0

(* What the bins can only reach their depths with.                         *)
Roomy(r) == IF r.style = "simple" THEN Unclamped(r) ELSE NoneLeftOut(r)

(* The bins reach both depths, and no tick between two of them is left     *)
(* out but those of the bucket whose lower edge is the price.              *)
Reaches(i, p) ==
  LET down == IF p.quoteIs0 THEN i.above ELSE i.below
      up == IF p.quoteIs0 THEN i.below ELSE i.above
      spared == IF p.anchor % p.spacing = 0 THEN p.anchor .. p.anchor + p.spacing - 1 ELSE {}
  IN /\ down > 0 => \E k \in DOMAIN p.bins : p.bins[k].lower <= p.anchor - down
     /\ up > 0 => \E k \in DOMAIN p.bins : p.bins[k].upper >= p.anchor + up
     /\ \A k, l \in DOMAIN p.bins : \A t \in p.bins[k].upper .. p.bins[l].lower - 1 :
          t \in spared \/ \E m \in DOMAIN p.bins : p.bins[m].lower <= t /\ t < p.bins[m].upper

(* What a wing comes to at the price of a tick, in base.                   *)
InBase(p, tick) ==
  LET s == SqrtPrice[tick]
  IN IF p.quoteIs0 THEN (p.wing * s * s) \div (Scale * Scale)
     ELSE (p.wing * Scale * Scale) \div (s * s)

(* What the unlock buys is worth three quarters of what its price where    *)
(* the bins are says of it, but for three truncated units and the fee of   *)
(* the venue, which the planner counts and never refuses: a deep pool off  *)
(* the market, as the one position 13 was sold to, is passed over.  And    *)
(* the bins count on no more than the venue gives after that fee.          *)
FairWing(i, p) ==
  LET venue == VenueOf(Resolve(i))
      net == 100 - venue.fee
  IN /\ p.route = "v4" => InBase(p, p.anchor) * net * 3 <= (p.base + 3) * 400
     /\ p.route # None => p.base * 100 <= (InBase(p, venue.tick) + 1) * net

(* Listed pairs that agree on the token's worth in dollars, each in the    *)
(* units of its own quote.                                                 *)
Honest(i) ==
  /\ i.listed # {} /\ First(i.listed).usd # None /\ i.rate # None /\ i.api
  /\ \A p \in i.listed :
       /\ p.usd = First(i.listed).usd
       /\ p.quote \in {"WETH", "NATIVE"} => p.price = p.usd - i.rate
       /\ p.quote = "USDG" => p.price = p.usd

(* Unless the pool was brought, the bins are put where the market is: not  *)
(* where a stale pool was left, nor where a pair in another currency seems *)
(* to say.                                                                 *)
AtMarket(i, p) ==
  LET usd == First(i.listed).usd
      market == OfPool(i, IF QuoteSide(i) = "WETH" THEN usd - i.rate ELSE usd)
  IN i.caller = "web" /\ i.choice # "bring" /\ QuoteSide(i) \in Rails /\ Honest(i)
       => p.anchor - market <= StaleTicks /\ market - p.anchor <= StaleTicks

Fits(i, p) ==
  p.error \/ /\ WithinBudget(i, p) /\ FairWing(i, p) /\ AtMarket(i, p) /\ OnGrid(p)
             /\ Roomy(Resolve(i)) => Reaches(i, p)

(* A plan that is shown or handed to an agent fits the budgets and the     *)
(* range it was asked for, in either orientation of the pool, whether or   *)
(* not the pool must be created or synchronised and wherever the base is   *)
(* to come from, is placed at the market and buys that base there: plan.ts *)
(* of the web app and of the SDK.  The range it reaches if it has room:    *)
(* the SDK silently leaves out the bins that so little money gives no      *)
(* liquidity to (plan.ts:141), and a simple range ends with the ticks.     *)
PlanFits == plan # None => Fits(plan, terms)

(* An approval of the quote pays for at most one position, whatever was    *)
(* lost, timed out, cancelled or retried: the wait for the receipt of an   *)
(* open may give up on a transaction that is mined later, and the retry    *)
(* signs it again (TxStepper); what an earlier stepper left in the wallet  *)
(* may be signed after it.  It needs FormsAlike: an approval that is much  *)
(* larger than what a retry opens is there for several.                    *)
OpensOnce == SumFunction(chain.opened) <= chain.granted

(* An exit in three steps, or a sale, that reports that all is done has    *)
(* closed the position and left no base in the wallet, unless one of its   *)
(* own transactions was refused by the pool, its hook or the venue when it *)
(* was mined: the stepper goes on and reports done all the same, for it    *)
(* waits for the receipt and does not look at its status                   *)
(* (OpenPosition.tsx:1190).  Dust, retries, double clicks and what other   *)
(* steppers were refused are included (PositionActions.tsx,                *)
(* SellToQuote.tsx).                                                       *)
ExitSells ==
  \A r \in Runs :
    LET run == runs[r]
    IN run # None /\ run.stage = "done" /\ run.steps[Len(run.steps)] = "swap"
         => r \in chain.refused \/ (chain.closed /\ chain.base = 0)

(* Whatever answers arrive late or out of order, the form shows its own    *)
(* plan in the end: the live replan of OpenPosition.tsx.                   *)
PlanCatchesUp == <>[](screen = "open" /\ form \in Forms => plan = form)

=============================================================================
