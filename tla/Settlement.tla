----------------------------- MODULE Settlement -----------------------------
(***************************************************************************)
(* The money of one verb of contracts/src/FriarPositionManager.sol: how    *)
(* unlockCallback turns what Uniswap v4 credits and charges the manager    *)
(* into the treasury's share and the owner's receipt or payment, and what  *)
(* the verb checks before it lets the transaction stand.                   *)
(*                                                                         *)
(* Every call into v4 may run foreign code: the hooks of the pool and of   *)
(* the venue of a swap may credit or charge the manager anything, a token  *)
(* may keep a part of what it moves, in either direction, and may call     *)
(* back while it moves it, and whoever is the treasury may hand the role   *)
(* over in the middle of a verb.  Each call is a step of its own, and at   *)
(* each of them the transaction may revert.  v4's accounts and the wallets *)
(* are therefore two sides: "sent" is what v4 booked, "flow" what the      *)
(* owner's wallet saw of it.  Which bins a verb touches is the subject of  *)
(* PositionManager.tla; here a bin is what v4 credits for it and the fees  *)
(* v4 reports with it.                                                     *)
(***************************************************************************)
EXTENDS Integers

CONSTANTS
  Accounts,      \* addresses that are or may become the treasury
  Nobody,        \* address(0)
  NoOp,          \* no verb: none was carried out yet, or the last one reverted
  Ops,           \* the verbs owners ask for
  BinOutcomes,   \* what v4 may answer to modifyLiquidity of a bin
  SwapOutcomes,  \* what v4 may answer to a swap
  Gifts,         \* what a token's callback may settle for the manager
  PerfFeeBps,    \* rate of a position with several bins
  SimpleFeeBps   \* rate of a position with a single bin

BPS == 10000

MaxPerfFeeBps == 2000

Currencies == {1, 2}   \* currency0 and currency1 of the pool's key

Other(c) == 3 - c

Amounts == [Currencies -> Nat]

Deltas == [Currencies -> Int]

Zero == [c \in Currencies |-> 0]

Exits == {"decrease", "collect"}

(* Op with the bounds of its verb.  size is the number of bins of the      *)
(* position, touched the number of them in the verb's list; out is the     *)
(* currency a swap-in or a zap buys; taxed are the currencies whose token  *)
(* may keep a part of what it moves (FeeOnTransferToken, ReturnsFalseToken *)
(* among the repository's mocks).                                          *)
OpType ==
  [verb : {"open", "increase"} \cup Exits, exempt : BOOLEAN,
   size : Nat \ {0}, touched : Nat, swapIn : BOOLEAN, zap : BOOLEAN, out : Currencies,
   taxed : SUBSET Currencies, minAmountOut : Nat, minReceive : Amounts, maxPay : Amounts]

OutcomeType == [credit : Deltas, fees : Amounts]

ASSUME ConstantsAssumption ==
  /\ Nobody \notin Accounts
  /\ NoOp \notin Ops
  /\ Ops \subseteq OpType
  /\ \A op \in Ops : /\ op.swapIn => op.verb \notin Exits
                     /\ op.zap => op.verb \in Exits
  /\ BinOutcomes \subseteq OutcomeType
  /\ SwapOutcomes \subseteq Deltas
  /\ Gifts \subseteq Amounts
  /\ PerfFeeBps \in 0 .. MaxPerfFeeBps
  /\ SimpleFeeBps \in 0 .. MaxPerfFeeBps

VARIABLES
  treasury,
  pendingTreasury,
  op,         \* the verb inside, or the last one that was committed
  step,       \* what unlockCallback does next, "idle" outside a transaction
  todo,       \* bins left to modify
  delta,      \* v4: currencyDelta of the manager
  fees,       \* r.fees0, r.fees1
  perf,       \* r.perf0, r.perf1
  net,        \* r.delta0, r.delta1
  credited,   \* history: all that v4 credited or charged the manager for
  earned,     \* history: all fees that v4 reported
  named,      \* the treasury the event PerfFeeCharged names
  shares,     \* history: what v4 sent to each account as a treasury
  sent,       \* history: what v4 sent the owner (> 0) or got from him (< 0)
  flow,       \* history: what the owner's wallet got (> 0) or gave (< 0)
  handed,     \* history: the treasury changed while the verb ran
  saved       \* the treasury roles a revert brings back

roles == <<treasury, pendingTreasury>>

result == <<fees, perf, net, named>>

history == <<credited, earned, shares, sent, flow, handed>>

vars == <<roles, op, step, todo, delta, result, history, saved>>

Steps == {"idle", "swapIn", "bins", "perf1", "perf2", "zap", "resolve1", "resolve2", "exit"}

(* Types; and what a revert restores is kept exactly while a verb runs.    *)
TypeOK ==
  /\ treasury \in Accounts
  /\ pendingTreasury \in Accounts \cup {Nobody}
  /\ op \in Ops \cup {NoOp}
  /\ step \in Steps
  /\ step # "idle" => op \in Ops
  /\ todo \in Nat
  /\ delta \in Deltas
  /\ fees \in Amounts
  /\ perf \in Amounts
  /\ net \in Deltas
  /\ named \in Accounts \cup {Nobody}
  /\ credited \in Deltas
  /\ earned \in Amounts
  /\ shares \in [Accounts -> Amounts]
  /\ sent \in Deltas
  /\ flow \in Deltas
  /\ handed \in BOOLEAN
  /\ IF step = "idle" THEN saved = NoOp ELSE saved \in Accounts \X (Accounts \cup {Nobody})

Init ==
  /\ treasury \in Accounts
  /\ pendingTreasury = Nobody
  /\ op = NoOp
  /\ step = "idle"
  /\ todo = 0
  /\ delta = Zero
  /\ fees = Zero
  /\ perf = Zero
  /\ net = Zero
  /\ named = Nobody
  /\ credited = Zero
  /\ earned = Zero
  /\ shares = [a \in Accounts |-> Zero]
  /\ sent = Zero
  /\ flow = Zero
  /\ handed = FALSE
  /\ saved = NoOp

(* Amounts of both currencies added.                                       *)
Plus(f, g) == [c \in Currencies |-> f[c] + g[c]]

(* _feeRate: exempt accounts pay nothing.                                  *)
FeeRate(o) ==
  IF o.exempt THEN 0 ELSE IF o.size = 1 THEN SimpleFeeBps ELSE PerfFeeBps

(* "r.fees0 * op.feeBps / BPS": rounded down.                              *)
Share(o, amount) == (amount * FeeRate(o)) \div BPS

-----------------------------------------------------------------------------
NothingMoved ==
  /\ delta' = Zero
  /\ fees' = Zero
  /\ perf' = Zero
  /\ net' = Zero
  /\ named' = Nobody
  /\ credited' = Zero
  /\ earned' = Zero
  /\ shares' = [a \in Accounts |-> Zero]
  /\ sent' = Zero
  /\ flow' = Zero
  /\ handed' = FALSE

(* The verb's entry: the records are done, v4 calls back.                  *)
Enter ==
  /\ step = "idle"
  /\ \E o \in Ops :
       /\ op' = o
       /\ todo' = o.touched
       /\ step' = IF o.swapIn THEN "swapIn" ELSE "bins"
  /\ NothingMoved
  /\ saved' = roles
  /\ UNCHANGED roles

(* v4 credits (> 0) or charges (< 0) the manager.                          *)
Credit(d) ==
  /\ delta' = Plus(delta, d)
  /\ credited' = Plus(credited, d)

(* The entry swap and its floor.                                           *)
SwapIn ==
  /\ step = "swapIn"
  /\ \E d \in SwapOutcomes :
       /\ Credit(d)
       /\ delta'[op.out] >= op.minAmountOut
  /\ step' = "bins"
  /\ UNCHANGED <<roles, op, todo, result, earned, shares, sent, flow, handed, saved>>

(* Faulty: the loop runs once too often.                                    *)
ModifyBinOnceMore ==
  /\ step = "bins"
  /\ todo >= 0
  /\ \E o \in BinOutcomes :
       /\ Credit(o.credit)
       /\ fees' = Plus(fees, o.fees)
       /\ earned' = Plus(earned, o.fees)
  /\ todo' = todo - 1
  /\ UNCHANGED <<roles, op, step, perf, net, named, shares, sent, flow, handed, saved>>

(* One bin: v4 credits or charges it, and reports the fees in that amount. *)
ModifyBin ==
  /\ step = "bins"
  /\ todo > 0
  /\ \E o \in BinOutcomes :
       /\ Credit(o.credit)
       /\ fees' = Plus(fees, o.fees)
       /\ earned' = Plus(earned, o.fees)
  /\ todo' = todo - 1
  /\ UNCHANGED <<roles, op, step, perf, net, named, shares, sent, flow, handed, saved>>

(* Faulty: takes the share of everything v4 credited, principal included.   *)
ChargePerfOnCredit ==
  /\ step = "bins"
  /\ todo = 0
  /\ perf' = [c \in Currencies |-> IF delta[c] > 0 THEN Share(op, delta[c]) ELSE 0]
  /\ step' = "perf1"
  /\ UNCHANGED <<roles, op, todo, delta, fees, net, named, history, saved>>

(* The share of the fees of all bins, in each currency.                    *)
ChargePerf ==
  /\ step = "bins"
  /\ todo = 0
  /\ perf' = [c \in Currencies |-> Share(op, fees[c])]
  /\ step' = "perf1"
  /\ UNCHANGED <<roles, op, todo, delta, fees, net, named, history, saved>>

(* A token moves "sum" for v4.  It may call back, and settle a gift for    *)
(* the manager in any currency before the call returns.                    *)
Transfer(c, sum) ==
  \E g \in Gifts :
    /\ delta' = Plus(g, [delta EXCEPT ![c] = @ - sum])
    /\ credited' = Plus(g, credited)

(* What goes to whoever is the treasury at this very moment.               *)
TakePerf(c) ==
  \/ /\ perf[c] > 0
     /\ Transfer(c, perf[c])
     /\ shares' = [shares EXCEPT ![treasury][c] = @ + perf[c]]
  \/ /\ perf[c] = 0
     /\ UNCHANGED <<delta, credited, shares>>

TakePerf1 ==
  /\ step = "perf1"
  /\ TakePerf(1)
  /\ step' = "perf2"
  /\ UNCHANGED <<roles, op, todo, result, earned, sent, flow, handed, saved>>

TakePerf2 ==
  /\ step = "perf2"
  /\ TakePerf(2)
  /\ step' = "zap"
  /\ UNCHANGED <<roles, op, todo, result, earned, sent, flow, handed, saved>>

(* The exit swap of the whole credit in the other currency.                *)
Zap ==
  /\ step = "zap"
  /\ IF op.zap /\ delta[Other(op.out)] > 0
       THEN \E d \in SwapOutcomes : Credit(d)
       ELSE UNCHANGED <<delta, credited>>
  /\ step' = "resolve1"
  /\ UNCHANGED <<roles, op, todo, result, earned, shares, sent, flow, handed, saved>>

(* What may come out of moving n: all of it, unless the token is taxed.    *)
Moved(c, n) == IF c \in op.taxed THEN 0 .. n ELSE {n}

(* v4 sends the owner his credit and books all of it as sent; the wallet   *)
(* gets what the token delivers.                                           *)
Take(c) ==
  /\ delta[c] > 0
  /\ Transfer(c, delta[c])
  /\ sent' = [sent EXCEPT ![c] = @ + delta[c]]
  /\ \E arrived \in Moved(c, delta[c]) : flow' = [flow EXCEPT ![c] = @ + arrived]

(* The owner's token is asked to pay a debit; v4 counts what arrives.      *)
Settle(c) ==
  /\ delta[c] < 0
  /\ \E paid \in Moved(c, -delta[c]), arrived \in Moved(c, -delta[c]) :
       /\ Transfer(c, -arrived)
       /\ sent' = [sent EXCEPT ![c] = @ - arrived]
       /\ flow' = [flow EXCEPT ![c] = @ - paid]

(* Faulty: the share is added back to what the verb reports.                *)
ResolveGross(c) ==
  /\ net' = [net EXCEPT ![c] = delta[c] + perf[c]]
  /\ \/ Take(c)
     \/ Settle(c)
     \/ delta[c] = 0 /\ UNCHANGED <<delta, credited, sent, flow>>

(* _resolve: the owner is sent his credit or pays his debit.               *)
Resolve(c) ==
  /\ net' = [net EXCEPT ![c] = delta[c]]
  /\ \/ Take(c)
     \/ Settle(c)
     \/ delta[c] = 0 /\ UNCHANGED <<delta, credited, sent, flow>>

Resolve1 ==
  /\ step = "resolve1"
  /\ Resolve(1)
  /\ step' = "resolve2"
  /\ UNCHANGED <<roles, op, todo, fees, perf, named, earned, shares, handed, saved>>

Resolve2 ==
  /\ step = "resolve2"
  /\ Resolve(2)
  /\ step' = "exit"
  /\ UNCHANGED <<roles, op, todo, fees, perf, named, earned, shares, handed, saved>>

(* _checkPay and _checkReceive.                                            *)
Pay(n) == IF n < 0 THEN -n ELSE 0

Got(n) == IF n > 0 THEN n ELSE 0

(* Faulty: the cap on payments is left to the entry verbs.                  *)
ExitUncapped ==
  /\ step = "exit"
  /\ delta = Zero
  /\ op.verb \notin Exits => \A c \in Currencies : Pay(net[c]) <= op.maxPay[c]
  /\ op.verb \in Exits => \A c \in Currencies : Got(net[c]) >= op.minReceive[c]
  /\ named' = IF perf = Zero THEN Nobody ELSE treasury
  /\ step' = "idle"
  /\ saved' = NoOp
  /\ UNCHANGED <<roles, op, todo, delta, fees, perf, net, history>>

(* unlock returns only with all deltas settled; then the verb's bounds,    *)
(* and the event of the share, with whoever is the treasury by now.        *)
Exit ==
  /\ step = "exit"
  /\ delta = Zero
  /\ \A c \in Currencies : Pay(net[c]) <= op.maxPay[c]
  /\ op.verb \in Exits => \A c \in Currencies : Got(net[c]) >= op.minReceive[c]
  /\ named' = IF perf = Zero THEN Nobody ELSE treasury
  /\ step' = "idle"
  /\ saved' = NoOp
  /\ UNCHANGED <<roles, op, todo, delta, fees, perf, net, history>>

(* The transaction reverts, with every handover made inside it.            *)
Revert ==
  /\ step # "idle"
  /\ step' = "idle"
  /\ op' = NoOp
  /\ todo' = 0
  /\ NothingMoved
  /\ treasury' = saved[1]
  /\ pendingTreasury' = saved[2]
  /\ saved' = NoOp

-----------------------------------------------------------------------------
(* The treasury's two-step handover, from outside or inside a verb.        *)
SetTreasury(by, to) ==
  /\ by = treasury
  /\ pendingTreasury' = to
  /\ UNCHANGED <<treasury, op, step, todo, delta, result, history, saved>>

AcceptTreasury(by) ==
  /\ by = pendingTreasury
  /\ treasury' = by
  /\ pendingTreasury' = Nobody
  /\ handed' = (handed \/ step # "idle")
  /\ UNCHANGED <<op, step, todo, delta, result, credited, earned, shares, sent, flow, saved>>

Next ==
  \/ Enter
  \/ SwapIn
  \/ ModifyBin
  \/ ChargePerf
  \/ TakePerf1
  \/ TakePerf2
  \/ Zap
  \/ Resolve1
  \/ Resolve2
  \/ Exit
  \/ Revert
  \/ \E a \in Accounts, to \in Accounts \cup {Nobody} : SetTreasury(a, to)
  \/ \E a \in Accounts : AcceptTreasury(a)

Spec == Init /\ [][Next]_vars

-----------------------------------------------------------------------------
(* Properties of a verb whose transaction stands.                          *)

Committed == step = "idle" /\ op # NoOp

(* The owner's tokens move within the bounds the verb was called with,     *)
(* whatever a hostile venue, pool hook or callback answers: an exit can    *)
(* not be turned into a withdrawal from the owner's wallet, and v4 sends   *)
(* him the minimum.  The wallet gets the minimum too if the token delivers *)
(* what v4 sends; no check of the manager measures what a taxed token does *)
(* deliver.                                                                *)
WithinBounds ==
  Committed =>
    \A c \in Currencies :
      /\ -flow[c] <= op.maxPay[c]
      /\ op.verb \in Exits /\ op.minReceive[c] > 0 =>
           /\ sent[c] >= op.minReceive[c]
           /\ c \notin op.taxed => flow[c] >= op.minReceive[c]

(* The treasury's share is the rate on the sum of the fees, rounded down   *)
(* once per currency, and everything else that v4 credited it sends to the *)
(* owner: the principal is never touched and the manager keeps nothing,    *)
(* gifts of a callback included.                                           *)
PaidExactly ==
  Committed =>
    \A c \in Currencies :
      /\ sent[c] = credited[c] - Share(op, earned[c])
      /\ \E a \in Accounts :
           /\ shares[a][c] = Share(op, earned[c])
           /\ \A b \in Accounts \ {a} : shares[b][c] = 0

(* The events say what happened: delta0/1 are what v4 sent and the owner's *)
(* wallet got or gave, fees0/1 what v4 paid in fees, perf0/1 what left for *)
(* a treasury.  A taxed token can only make the wallet get or give less    *)
(* than was reported, and v4 then got the rest of a payment from others.   *)
(* PerfFeeCharged comes whenever a share was taken.  It names the treasury *)
(* at the end of the verb: that one got the shares, unless the role was    *)
(* handed over while the verb ran.                                         *)
ReportedAsPaid ==
  Committed =>
    /\ fees = earned
    /\ \A c \in Currencies :
         /\ c \notin op.taxed => net[c] = sent[c] /\ net[c] = flow[c]
         /\ net[c] >= 0 => net[c] = sent[c] /\ flow[c] \in 0 .. net[c]
         /\ net[c] <= 0 => sent[c] \in net[c] .. 0 /\ flow[c] \in net[c] .. 0
         /\ \E a \in Accounts : shares[a][c] = perf[c]
    /\ named = Nobody <=> perf = Zero
    /\ named # Nobody /\ ~handed => shares[named] = perf

(* An exit without a zap never charges its owner, so maxPay of zero can    *)
(* not block it: all it takes is that v4 credited the fees it reported.    *)
ExitNeverCharges ==
  /\ step = "resolve1"
  /\ op.verb \in Exits
  /\ ~op.zap
  /\ \A c \in Currencies : credited[c] >= earned[c]
  => \A c \in Currencies : delta[c] >= 0
=============================================================================
