--------------------------- MODULE ContractsProofs ---------------------------
(***************************************************************************)
(* Theorems about the contracts, each model by itself.                     *)
(*                                                                         *)
(* Settlement.tla: for every set of verbs, every answer of v4 and every    *)
(* pair of rates below the cap, for tokens that keep a part or call back.  *)
(* The inductive invariant follows one currency through the callback.  As  *)
(* long as the treasury has not been paid, the manager's delta is all that *)
(* v4 credited; from then on it is that less the share; and once the       *)
(* currency is resolved, what v4 sent and what is still open make that up. *)
(* The wallet's side moved as much as was reported, or less by what a      *)
(* taxed token kept.                                                       *)
(*                                                                         *)
(* FriarV2.tla: for any numbers of users and proposals, any constants of   *)
(* the mathematics and any ticks.                                          *)
(***************************************************************************)
EXTENDS Settlement, FriarV2, TLAPS

-----------------------------------------------------------------------------
(* The settlement of the position manager.                                 *)

(* Currency c before the treasury's share was taken.                       *)
Before(c) ==
  /\ delta[c] = credited[c]
  /\ sent[c] = 0
  /\ flow[c] = 0
  /\ \A a \in Accounts : shares[a][c] = 0

(* The treasury's share of the fees is known.                              *)
Charged == \A c \in Currencies : perf[c] = Share(op, earned[c])

(* Exactly one account got the share in currency c: today's treasury,      *)
(* unless the role has been handed over.                                   *)
SharePaid(c) ==
  /\ \E a \in Accounts : /\ shares[a][c] = perf[c]
                         /\ \A b \in Accounts \ {a} : shares[b][c] = 0
  /\ ~handed => shares[treasury][c] = perf[c]

(* The share was taken, the owner has not been paid.                       *)
Taken(c) ==
  /\ delta[c] = credited[c] - perf[c]
  /\ sent[c] = 0
  /\ flow[c] = 0
  /\ SharePaid(c)

(* What moved for a reported n: all of it with an untaxed token, all of it *)
(* on v4's side when v4 paid, and never more than n.                       *)
MovedFor(c, n) ==
  /\ c \notin op.taxed => n = sent[c] /\ n = flow[c]
  /\ n >= 0 => n = sent[c] /\ flow[c] \in 0 .. n
  /\ n <= 0 => sent[c] \in n .. 0 /\ flow[c] \in n .. 0

(* The owner was sent his credit, or paid as much as arrived.              *)
Resolved(c) ==
  /\ delta[c] + sent[c] = credited[c] - perf[c]
  /\ MovedFor(c, net[c])
  /\ SharePaid(c)

Inside ==
  /\ fees = earned
  /\ named = Nobody
  /\ step \in {"swapIn", "bins"} => Before(1) /\ Before(2)
  /\ step \in {"perf1", "perf2", "zap", "resolve1", "resolve2", "exit"} => Charged
  /\ step = "perf1" => Before(1) /\ Before(2)
  /\ step = "perf2" => Taken(1) /\ Before(2)
  /\ step \in {"zap", "resolve1"} => Taken(1) /\ Taken(2)
  /\ step = "resolve2" => Resolved(1) /\ Taken(2)
  /\ step = "exit" => Resolved(1) /\ Resolved(2)

IInv ==
  /\ TypeOK
  /\ step # "idle" => Inside
  /\ WithinBounds
  /\ PaidExactly
  /\ ReportedAsPaid

-----------------------------------------------------------------------------
(* The share of an amount is part of it: the rates are below the cap.      *)
LEMMA ShareBound ==
  ASSUME NEW o \in Ops, NEW n \in Nat
  PROVE  Share(o, n) \in Nat /\ Share(o, n) <= n
<1>1. FeeRate(o) \in 0 .. 2000
  BY ConstantsAssumption DEF FeeRate, MaxPerfFeeBps
<1>2. PICK r \in 0 .. 2000 : r = FeeRate(o)
  BY <1>1
<1>3. n * r \in Nat /\ n * r <= n * 2000
  BY <1>2
<1>4. (n * r) \div 10000 \in Nat /\ (n * r) \div 10000 <= n
  BY <1>3
<1>5. QED
  BY <1>2, <1>4 DEF Share, BPS

(* Initially no verb was carried out.                                      *)
LEMMA InitInv == Init => IInv
<1> SUFFICES ASSUME Init PROVE IInv
  OBVIOUS
<1>1. Zero \in Amounts /\ Zero \in Deltas
  BY DEF Zero, Amounts, Deltas
<1>2. TypeOK
  BY <1>1 DEF Init, TypeOK, Steps
<1>3. ~Committed
  BY DEF Init, Committed
<1>4. QED
  BY <1>2, <1>3 DEF IInv, Init, WithinBounds, PaidExactly, ReportedAsPaid

(* A handover moves no money, and is noted while a verb runs.              *)
LEMMA HandoverInv ==
  ASSUME IInv, treasury' \in Accounts, pendingTreasury' \in Accounts \cup {Nobody},
         handed' \in BOOLEAN,
         step # "idle" => handed' \/ (handed' = handed /\ treasury' = treasury),
         step = "idle" => handed' = handed,
         UNCHANGED <<op, step, todo, delta, result, credited, earned, shares, sent, flow, saved>>
  PROVE  IInv'
<1>1. TypeOK'
  BY DEF IInv, TypeOK, result
<1>2. ASSUME step # "idle", NEW c \in Currencies
      PROVE  /\ Before(c) => Before(c)'
             /\ Taken(c) => Taken(c)'
             /\ Resolved(c) => Resolved(c)'
  <2>1. SharePaid(c) => SharePaid(c)'
    BY <1>2 DEF SharePaid, result
  <2>2. QED
    BY <2>1 DEF Before, Taken, Resolved, MovedFor, result
<1>3. Charged => Charged'
  BY DEF Charged, Share, FeeRate, result
<1>4. step' # "idle" => Inside'
  BY <1>2, <1>3 DEF IInv, Inside, Currencies, result
<1>5. WithinBounds' /\ PaidExactly'
  BY DEF IInv, WithinBounds, PaidExactly, Committed, Share, FeeRate, result
<1>6. ReportedAsPaid'
  BY DEF IInv, ReportedAsPaid, Committed, result
<1>7. QED
  BY <1>1, <1>4, <1>5, <1>6 DEF IInv

(* Nothing has moved when a verb begins or is undone.                      *)
LEMMA NothingMovedInv ==
  ASSUME NothingMoved
  PROVE  /\ delta' \in Deltas /\ fees' \in Amounts /\ perf' \in Amounts /\ net' \in Deltas
         /\ credited' \in Deltas /\ earned' \in Amounts
         /\ shares' \in [Accounts -> Amounts] /\ sent' \in Deltas /\ flow' \in Deltas
         /\ named' = Nobody /\ handed' = FALSE
         /\ fees' = earned'
         /\ \A c \in Currencies : Before(c)'
<1>1. Zero \in Amounts /\ Zero \in Deltas /\ \A c \in Currencies : Zero[c] = 0
  BY DEF Zero, Amounts, Deltas
<1>2. QED
  BY <1>1 DEF NothingMoved, Before

(* The entry of a verb.                                                    *)
LEMMA EnterInv ==
  ASSUME IInv, Enter
  PROVE  IInv'
<1>1. /\ step' \in {"swapIn", "bins"} /\ op' \in Ops /\ todo' \in Nat
      /\ saved' = <<treasury, pendingTreasury>>
      /\ treasury' = treasury /\ pendingTreasury' = pendingTreasury
  BY ConstantsAssumption DEF Enter, roles, OpType
<1>2. TypeOK'
  BY <1>1, NothingMovedInv DEF Enter, IInv, TypeOK, Steps
<1>3. Inside'
  BY <1>1, NothingMovedInv DEF Enter, Inside, Currencies
<1>4. QED
  BY <1>1, <1>2, <1>3 DEF IInv, Committed, WithinBounds, PaidExactly, ReportedAsPaid

(* A revert leaves no verb behind.                                         *)
LEMMA RevertInv ==
  ASSUME IInv, Revert
  PROVE  IInv'
<1>1. step' = "idle" /\ op' = NoOp /\ todo' = 0 /\ saved' = NoOp
  BY DEF Revert
<1>2. treasury' \in Accounts /\ pendingTreasury' \in Accounts \cup {Nobody}
  BY DEF Revert, IInv, TypeOK
<1>3. TypeOK'
  BY <1>1, <1>2, NothingMovedInv DEF Revert, TypeOK, Steps
<1>4. QED
  BY <1>1, <1>3 DEF IInv, Committed, WithinBounds, PaidExactly, ReportedAsPaid

(* Inside a verb only the invariant of the callback is at stake.           *)
LEMMA InsideInv ==
  ASSUME step' # "idle", TypeOK', Inside'
  PROVE  IInv'
BY DEF IInv, Committed, WithinBounds, PaidExactly, ReportedAsPaid

(* Sums of deltas are deltas, of amounts amounts.                          *)
LEMMA PlusType ==
  /\ \A f, g \in Deltas : Plus(f, g) \in Deltas
  /\ \A f, g \in Amounts : Plus(f, g) \in Amounts
  /\ \A f, g : \A c \in Currencies : Plus(f, g)[c] = f[c] + g[c]
BY DEF Plus, Deltas, Amounts

(* v4 credits the manager: the credit shows in the delta and the history.  *)
LEMMA CreditInv ==
  ASSUME TypeOK, NEW d \in Deltas, Credit(d)
  PROVE  /\ delta' \in Deltas
         /\ credited' \in Deltas
         /\ \A c \in Currencies : delta'[c] = delta[c] + d[c] /\ credited'[c] = credited[c] + d[c]
BY PlusType DEF Credit, TypeOK

(* The entry swap.                                                         *)
LEMMA SwapInInv ==
  ASSUME IInv, SwapIn
  PROVE  IInv'
<1>1. TypeOK /\ Inside /\ step = "swapIn" /\ step' = "bins"
  BY DEF IInv, SwapIn
<1>2. PICK d \in Deltas : Credit(d)
  BY ConstantsAssumption DEF SwapIn
<1>3. /\ delta' \in Deltas /\ credited' \in Deltas
      /\ \A c \in Currencies : delta'[c] = delta[c] + d[c] /\ credited'[c] = credited[c] + d[c]
  BY <1>1, <1>2, CreditInv
<1>4. UNCHANGED <<treasury, pendingTreasury, op, todo, fees, perf, net, named, earned, shares, sent, flow, handed, saved>>
  BY DEF SwapIn, roles, result
<1>5. TypeOK'
  BY <1>1, <1>3, <1>4 DEF TypeOK, Steps
<1>6. \A c \in Currencies : Before(c)'
  BY <1>1, <1>3, <1>4 DEF Inside, Before, Currencies
<1>7. Inside'
  BY <1>1, <1>4, <1>6 DEF Inside, Currencies
<1>8. QED
  BY <1>1, <1>5, <1>7, InsideInv

(* One bin.                                                                *)
LEMMA ModifyBinInv ==
  ASSUME IInv, ModifyBin
  PROVE  IInv'
<1>1. TypeOK /\ Inside /\ step = "bins" /\ step' = "bins" /\ todo' \in Nat
  BY DEF IInv, ModifyBin, TypeOK
<1>2. PICK o \in OutcomeType : /\ Credit(o.credit)
                               /\ fees' = Plus(fees, o.fees)
                               /\ earned' = Plus(earned, o.fees)
  BY ConstantsAssumption DEF ModifyBin
<1>3. o.credit \in Deltas /\ o.fees \in Amounts
  BY DEF OutcomeType
<1>4. /\ delta' \in Deltas /\ credited' \in Deltas
      /\ \A c \in Currencies : /\ delta'[c] = delta[c] + o.credit[c]
                               /\ credited'[c] = credited[c] + o.credit[c]
  BY <1>1, <1>2, <1>3, CreditInv
<1>5. UNCHANGED <<treasury, pendingTreasury, op, perf, net, named, shares, sent, flow, handed, saved>>
  BY DEF ModifyBin, roles
<1>6. fees' \in Amounts /\ earned' \in Amounts /\ fees' = earned'
  BY <1>1, <1>2, <1>3, PlusType DEF TypeOK, Inside
<1>7. TypeOK'
  BY <1>1, <1>4, <1>5, <1>6 DEF TypeOK
<1>8. \A c \in Currencies : Before(c)'
  BY <1>1, <1>4, <1>5 DEF Inside, Before, Currencies
<1>9. Inside'
  BY <1>1, <1>5, <1>6, <1>8 DEF Inside, Currencies
<1>10. QED
  BY <1>1, <1>7, <1>9, InsideInv

(* The share of the fees is computed.                                      *)
LEMMA ChargePerfInv ==
  ASSUME IInv, ChargePerf
  PROVE  IInv'
<1>1. TypeOK /\ Inside /\ step = "bins" /\ step' = "perf1" /\ op \in Ops
  BY DEF IInv, ChargePerf, TypeOK
<1>2. UNCHANGED <<treasury, pendingTreasury, op, todo, delta, fees, net, named, credited,
                  earned, shares, sent, flow, handed, saved>>
  BY DEF ChargePerf, roles, history
<1>3. \A c \in Currencies : fees[c] \in Nat /\ fees = earned
  BY <1>1 DEF TypeOK, Amounts, Inside
<1>4. perf' \in Amounts /\ \A c \in Currencies : perf'[c] = Share(op, earned[c])
  BY <1>1, <1>3, ShareBound DEF ChargePerf, Amounts
<1>5. TypeOK'
  BY <1>1, <1>2, <1>4 DEF TypeOK, Steps
<1>6. Charged'
  BY <1>2, <1>4 DEF Charged, Share, FeeRate
<1>7. Before(1)' /\ Before(2)'
  BY <1>1, <1>2 DEF Inside, Before
<1>8. Inside'
  BY <1>1, <1>2, <1>6, <1>7 DEF Inside
<1>9. QED
  BY <1>1, <1>5, <1>8, InsideInv

(* What a difference that is kept, or shrinks by p, says of the terms.     *)
LEMMA Differences ==
  /\ \A a, b, x, y, p \in Int : a - b = x - y - p /\ x = y => a = b - p
  /\ \A a, b, x, y, p \in Int : a - b = x - y /\ x = y - p => a = b - p
OBVIOUS

(* A token's move takes its sum out of the delta; a gift of its callback   *)
(* shows in the delta and the history alike.                               *)
LEMMA TransferInv ==
  ASSUME TypeOK, NEW c \in Currencies, NEW sum \in Int, Transfer(c, sum)
  PROVE  /\ delta' \in Deltas /\ credited' \in Deltas
         /\ delta'[c] - credited'[c] = delta[c] - credited[c] - sum
         /\ \A d \in Currencies \ {c} : delta'[d] - credited'[d] = delta[d] - credited[d]
<1>1. PICK g \in Gifts : /\ delta' = Plus(g, [delta EXCEPT ![c] = delta[c] - sum])
                         /\ credited' = Plus(g, credited)
  BY DEF Transfer
<1>2. g \in Deltas
  BY ConstantsAssumption DEF Amounts, Deltas
<1>3. [delta EXCEPT ![c] = delta[c] - sum] \in Deltas /\ credited \in Deltas
  BY DEF TypeOK, Deltas
<1>4. delta' \in Deltas /\ credited' \in Deltas
  BY <1>1, <1>2, <1>3, PlusType
<1>5. \A d \in Currencies :
        /\ credited'[d] = g[d] + credited[d]
        /\ delta'[d] = g[d] + [delta EXCEPT ![c] = delta[c] - sum][d]
  BY <1>1, PlusType
<1>6. QED
  BY <1>2, <1>4, <1>5 DEF TypeOK, Deltas

(* The share in currency c is taken, the other currency is left alone.     *)
LEMMA TakePerfInv ==
  ASSUME TypeOK, NEW c \in Currencies, NEW other \in Currencies \ {c},
         Before(c), TakePerf(c), treasury \in Accounts,
         UNCHANGED <<treasury, perf, sent, flow, earned, op, handed>>
  PROVE  /\ delta' \in Deltas /\ credited' \in Deltas /\ shares' \in [Accounts -> Amounts]
         /\ Taken(c)'
         /\ Taken(other) => Taken(other)'
         /\ Before(other) => Before(other)'
         /\ Charged => Charged'
<1>1. perf[c] \in Nat /\ perf[other] \in Nat
  BY DEF TypeOK, Amounts
<1>2. /\ delta' \in Deltas /\ credited' \in Deltas
      /\ delta'[c] - credited'[c] = delta[c] - credited[c] - perf[c]
      /\ delta'[other] - credited'[other] = delta[other] - credited[other]
  <2>1. CASE perf[c] > 0
    BY <1>1, <2>1, TransferInv DEF TakePerf
  <2>2. CASE perf[c] = 0
    BY <1>1, <2>2 DEF TakePerf, TypeOK, Deltas
  <2>3. QED
    BY <1>1, <2>1, <2>2
<1>3. /\ shares' \in [Accounts -> Amounts]
      /\ shares'[treasury][c] = shares[treasury][c] + perf[c]
      /\ \A a \in Accounts \ {treasury} : shares'[a][c] = shares[a][c]
      /\ \A a \in Accounts : shares'[a][other] = shares[a][other]
  BY <1>1 DEF TakePerf, TypeOK, Amounts
<1>4. shares'[treasury][c] = perf[c] /\ \A a \in Accounts \ {treasury} : shares'[a][c] = 0
  BY <1>1, <1>3 DEF Before
<1>5. SharePaid(c)'
  BY <1>4 DEF SharePaid
<1>6. /\ delta[c] \in Int /\ credited[c] \in Int /\ delta'[c] \in Int /\ credited'[c] \in Int
      /\ delta[other] \in Int /\ credited[other] \in Int
      /\ delta'[other] \in Int /\ credited'[other] \in Int
  BY <1>2 DEF TypeOK, Deltas
<1>7. Taken(c)'
  <2>1. delta'[c] = credited'[c] - perf[c]
    <3>1. delta[c] = credited[c]
      BY DEF Before
    <3>2. QED
      BY <1>1, <1>2, <1>6, <3>1, Differences
  <2>2. QED
    BY <1>5, <2>1 DEF Before, Taken
<1>8. SharePaid(other) => SharePaid(other)'
  BY <1>3 DEF SharePaid
<1>9. Taken(other) => Taken(other)'
  <2>1. delta[other] = credited[other] - perf[other] =>
          delta'[other] = credited'[other] - perf[other]
    BY <1>1, <1>2, <1>6
  <2>2. QED
    BY <1>8, <2>1 DEF Taken
<1>10. Before(other) => Before(other)'
  <2>1. delta[other] = credited[other] => delta'[other] = credited'[other]
    BY <1>2, <1>6
  <2>2. QED
    BY <1>3, <2>1 DEF Before
<1>11. QED
  BY <1>2, <1>3, <1>7, <1>9, <1>10 DEF Charged, Share, FeeRate

(* The share in currency0.                                                 *)
LEMMA TakePerf1Inv ==
  ASSUME IInv, TakePerf1
  PROVE  IInv'
<1>1. TypeOK /\ Inside /\ step = "perf1" /\ step' = "perf2" /\ treasury \in Accounts
  BY DEF IInv, TakePerf1, TypeOK
<1>2. UNCHANGED <<treasury, pendingTreasury, op, todo, fees, perf, net, named, earned,
                  sent, flow, handed, saved>>
  BY DEF TakePerf1, roles, result
<1>3. /\ delta' \in Deltas /\ credited' \in Deltas /\ shares' \in [Accounts -> Amounts]
      /\ Taken(1)' /\ Before(2)' /\ Charged'
  <2>1. 1 \in Currencies /\ 2 \in Currencies \ {1} /\ Before(1) /\ Before(2) /\ Charged
    BY <1>1 DEF Currencies, Inside
  <2>2. TakePerf(1)
    BY DEF TakePerf1
  <2>3. QED
    BY <1>1, <1>2, <2>1, <2>2, TakePerfInv
<1>4. TypeOK'
  BY <1>1, <1>2, <1>3 DEF TypeOK, Steps
<1>5. Inside'
  BY <1>1, <1>2, <1>3 DEF Inside
<1>6. QED
  BY <1>1, <1>4, <1>5, InsideInv

(* The share in currency1.                                                 *)
LEMMA TakePerf2Inv ==
  ASSUME IInv, TakePerf2
  PROVE  IInv'
<1>1. TypeOK /\ Inside /\ step = "perf2" /\ step' = "zap" /\ treasury \in Accounts
  BY DEF IInv, TakePerf2, TypeOK
<1>2. UNCHANGED <<treasury, pendingTreasury, op, todo, fees, perf, net, named, earned,
                  sent, flow, handed, saved>>
  BY DEF TakePerf2, roles, result
<1>3. /\ delta' \in Deltas /\ credited' \in Deltas /\ shares' \in [Accounts -> Amounts]
      /\ Taken(1)' /\ Taken(2)' /\ Charged'
  <2>1. 2 \in Currencies /\ 1 \in Currencies \ {2} /\ Taken(1) /\ Before(2) /\ Charged
    BY <1>1 DEF Currencies, Inside
  <2>2. TakePerf(2)
    BY DEF TakePerf2
  <2>3. QED
    BY <1>1, <1>2, <2>1, <2>2, TakePerfInv
<1>4. TypeOK'
  BY <1>1, <1>2, <1>3 DEF TypeOK, Steps
<1>5. Inside'
  BY <1>1, <1>2, <1>3 DEF Inside
<1>6. QED
  BY <1>1, <1>4, <1>5, InsideInv

(* The exit swap: it changes delta and history alike.                      *)
LEMMA ZapInv ==
  ASSUME IInv, Zap
  PROVE  IInv'
<1>1. TypeOK /\ Inside /\ step = "zap" /\ step' = "resolve1"
  BY DEF IInv, Zap
<1>2. UNCHANGED <<treasury, pendingTreasury, op, todo, fees, perf, net, named, earned, shares,
                  sent, flow, handed, saved>>
  BY DEF Zap, roles, result
<1>3. /\ delta' \in Deltas /\ credited' \in Deltas
      /\ \A c \in Currencies : delta'[c] - credited'[c] = delta[c] - credited[c]
  <2>1. ASSUME NEW d \in Deltas, Credit(d)
        PROVE  /\ delta' \in Deltas /\ credited' \in Deltas
               /\ \A c \in Currencies : delta'[c] - credited'[c] = delta[c] - credited[c]
    BY <1>1, <2>1, CreditInv DEF TypeOK, Deltas
  <2>2. CASE UNCHANGED <<delta, credited>>
    BY <1>1, <2>2 DEF TypeOK
  <2>3. QED
    BY <2>1, <2>2, ConstantsAssumption DEF Zap
<1>4. TypeOK'
  BY <1>1, <1>2, <1>3 DEF TypeOK, Steps
<1>5. ASSUME NEW c \in Currencies, Taken(c) PROVE Taken(c)'
  <2>1. /\ delta[c] \in Int /\ credited[c] \in Int /\ perf[c] \in Nat
        /\ delta'[c] \in Int /\ credited'[c] \in Int
    BY <1>1, <1>3 DEF TypeOK, Deltas, Amounts
  <2>2. delta'[c] = credited'[c] - perf[c]
    BY <1>3, <1>5, <2>1 DEF Taken
  <2>3. QED
    BY <1>2, <1>5, <2>2 DEF Taken, SharePaid
<1>6. Taken(1)' /\ Taken(2)' /\ Charged'
  BY <1>1, <1>2, <1>5 DEF Inside, Currencies, Charged, Share, FeeRate
<1>7. Inside'
  BY <1>1, <1>2, <1>6 DEF Inside
<1>8. QED
  BY <1>1, <1>4, <1>7, InsideInv

(* The owner is sent his credit or pays his debit in currency c: what v4   *)
(* sent and what is open still make up the credit less the share, and the  *)
(* wallet moved by as much, or by less if the token is taxed.              *)
LEMMA ResolveMoves ==
  ASSUME TypeOK, NEW c \in Currencies, NEW other \in Currencies \ {c},
         Resolve(c), sent[c] = 0, flow[c] = 0
  PROVE  /\ delta' \in Deltas /\ credited' \in Deltas /\ sent' \in Deltas /\ flow' \in Deltas
         /\ delta'[c] + sent'[c] - credited'[c] = delta[c] - credited[c]
         /\ delta'[other] - credited'[other] = delta[other] - credited[other]
         /\ sent'[other] = sent[other] /\ flow'[other] = flow[other]
         /\ c \notin op.taxed => delta[c] = sent'[c] /\ delta[c] = flow'[c]
         /\ delta[c] >= 0 => delta[c] = sent'[c] /\ flow'[c] \in 0 .. delta[c]
         /\ delta[c] <= 0 => sent'[c] \in delta[c] .. 0 /\ flow'[c] \in delta[c] .. 0
<1>1. /\ delta \in [Currencies -> Int] /\ flow \in [Currencies -> Int]
      /\ sent \in [Currencies -> Int] /\ credited \in [Currencies -> Int]
      /\ delta[c] \in Int /\ credited[c] \in Int
  BY DEF TypeOK, Deltas
<1>2. CASE Take(c)
  <2>1. /\ delta[c] > 0
        /\ Transfer(c, delta[c])
        /\ sent' = [sent EXCEPT ![c] = sent[c] + delta[c]]
    BY <1>2 DEF Take
  <2>2. PICK arrived \in Moved(c, delta[c]) : flow' = [flow EXCEPT ![c] = flow[c] + arrived]
    BY <1>2 DEF Take
  <2>3. arrived \in 0 .. delta[c] /\ (c \notin op.taxed => arrived = delta[c])
    BY <1>1, <2>1, <2>2 DEF Moved
  <2>4. sent'[c] = delta[c] /\ flow'[c] = arrived
    BY <1>1, <2>1, <2>2, <2>3
  <2>5. /\ sent' \in Deltas /\ flow' \in Deltas
        /\ sent'[other] = sent[other] /\ flow'[other] = flow[other]
    BY <1>1, <2>1, <2>2, <2>3 DEF Deltas
  <2>6. /\ delta' \in Deltas /\ credited' \in Deltas
        /\ delta'[c] - credited'[c] = delta[c] - credited[c] - delta[c]
        /\ delta'[other] - credited'[other] = delta[other] - credited[other]
    BY <1>1, <2>1, TransferInv
  <2>7. delta'[c] \in Int /\ credited'[c] \in Int
    BY <2>6 DEF Deltas
  <2>8. delta'[c] + sent'[c] - credited'[c] = delta[c] - credited[c]
    BY <1>1, <2>4, <2>6, <2>7
  <2>9. QED
    BY <1>1, <2>1, <2>3, <2>4, <2>5, <2>6, <2>8
<1>3. CASE Settle(c)
  <2>1. PICK paid \in Moved(c, -delta[c]), arrived \in Moved(c, -delta[c]) :
          /\ Transfer(c, -arrived)
          /\ sent' = [sent EXCEPT ![c] = sent[c] - arrived]
          /\ flow' = [flow EXCEPT ![c] = flow[c] - paid]
    BY <1>3 DEF Settle
  <2>2. delta[c] < 0
    BY <1>3 DEF Settle
  <2>3. /\ paid \in 0 .. -delta[c] /\ arrived \in 0 .. -delta[c]
        /\ c \notin op.taxed => paid = -delta[c] /\ arrived = -delta[c]
    BY <1>1, <2>1, <2>2 DEF Moved
  <2>4. sent'[c] = -arrived /\ flow'[c] = -paid
    BY <1>1, <2>1, <2>3
  <2>5. /\ sent' \in Deltas /\ flow' \in Deltas
        /\ sent'[other] = sent[other] /\ flow'[other] = flow[other]
    BY <1>1, <2>1, <2>3 DEF Deltas
  <2>6. /\ delta' \in Deltas /\ credited' \in Deltas
        /\ delta'[c] - credited'[c] = delta[c] - credited[c] - (-arrived)
        /\ delta'[other] - credited'[other] = delta[other] - credited[other]
    BY <1>1, <2>1, <2>3, TransferInv
  <2>7. delta'[c] \in Int /\ credited'[c] \in Int
    BY <2>6 DEF Deltas
  <2>8. delta'[c] + sent'[c] - credited'[c] = delta[c] - credited[c]
    BY <1>1, <2>3, <2>4, <2>6, <2>7
  <2>9. QED
    BY <1>1, <2>2, <2>3, <2>4, <2>5, <2>6, <2>8
<1>4. CASE delta[c] = 0 /\ UNCHANGED <<delta, credited, sent, flow>>
  BY <1>1, <1>4 DEF Deltas
<1>5. QED
  BY <1>2, <1>3, <1>4 DEF Resolve

LEMMA ResolveInv ==
  ASSUME TypeOK, NEW c \in Currencies, NEW other \in Currencies \ {c},
         Taken(c), Resolve(c), UNCHANGED <<treasury, perf, shares, earned, op, handed>>
  PROVE  /\ delta' \in Deltas /\ credited' \in Deltas
         /\ sent' \in Deltas /\ flow' \in Deltas /\ net' \in Deltas
         /\ Resolved(c)'
         /\ Taken(other) => Taken(other)'
         /\ Resolved(other) => Resolved(other)'
         /\ Charged => Charged'
<1>1. /\ net' \in Deltas /\ net'[c] = delta[c] /\ net'[other] = net[other]
      /\ sent[c] = 0 /\ flow[c] = 0 /\ delta[c] = credited[c] - perf[c]
  BY DEF Resolve, TypeOK, Deltas, Taken
<1>2. /\ delta' \in Deltas /\ credited' \in Deltas /\ sent' \in Deltas /\ flow' \in Deltas
      /\ delta'[c] + sent'[c] - credited'[c] = delta[c] - credited[c]
      /\ delta'[other] - credited'[other] = delta[other] - credited[other]
      /\ sent'[other] = sent[other] /\ flow'[other] = flow[other]
      /\ c \notin op.taxed => delta[c] = sent'[c] /\ delta[c] = flow'[c]
      /\ delta[c] >= 0 => delta[c] = sent'[c] /\ flow'[c] \in 0 .. delta[c]
      /\ delta[c] <= 0 => sent'[c] \in delta[c] .. 0 /\ flow'[c] \in delta[c] .. 0
  BY <1>1, ResolveMoves
<1>3. /\ delta[c] \in Int /\ credited[c] \in Int /\ perf[c] \in Int
      /\ delta'[c] \in Int /\ credited'[c] \in Int /\ sent'[c] \in Int
      /\ delta[other] \in Int /\ credited[other] \in Int /\ sent[other] \in Int
      /\ delta'[other] \in Int /\ credited'[other] \in Int
      /\ perf[other] \in Int
  BY <1>2 DEF TypeOK, Deltas, Amounts
<1>4. (SharePaid(c) => SharePaid(c)') /\ (SharePaid(other) => SharePaid(other)')
  BY DEF SharePaid
<1>5. MovedFor(c, net[c])'
  BY <1>1, <1>2 DEF MovedFor
<1>6. delta'[c] + sent'[c] = credited'[c] - perf[c]
  BY <1>1, <1>2, <1>3
<1>7. Resolved(c)'
  BY <1>4, <1>5, <1>6 DEF Taken, Resolved
<1>8. Taken(other) => Taken(other)'
  <2>1. delta[other] = credited[other] - perf[other] =>
          delta'[other] = credited'[other] - perf[other]
    BY <1>2, <1>3, Differences
  <2>2. QED
    BY <1>2, <1>4, <2>1 DEF Taken
<1>9. Resolved(other) => Resolved(other)'
  <2>1. delta[other] + sent[other] = credited[other] - perf[other] =>
          delta'[other] + sent'[other] = credited'[other] - perf[other]
    BY <1>2, <1>3
  <2>2. MovedFor(other, net[other]) => MovedFor(other, net[other])'
    BY <1>1, <1>2 DEF MovedFor
  <2>3. QED
    BY <1>4, <2>1, <2>2 DEF Resolved
<1>10. QED
  BY <1>1, <1>2, <1>7, <1>8, <1>9 DEF Charged, Share, FeeRate

(* currency0 is resolved.                                                  *)
LEMMA Resolve1Inv ==
  ASSUME IInv, Resolve1
  PROVE  IInv'
<1>1. TypeOK /\ Inside /\ step = "resolve1" /\ step' = "resolve2"
  BY DEF IInv, Resolve1
<1>2. UNCHANGED <<treasury, pendingTreasury, op, todo, fees, perf, named, earned, shares,
                  handed, saved>>
  BY DEF Resolve1, roles
<1>3. /\ delta' \in Deltas /\ credited' \in Deltas
      /\ sent' \in Deltas /\ flow' \in Deltas /\ net' \in Deltas
      /\ Resolved(1)' /\ Taken(2)' /\ Charged'
  <2>1. 1 \in Currencies /\ 2 \in Currencies \ {1} /\ Taken(1) /\ Taken(2) /\ Charged
    BY <1>1 DEF Currencies, Inside
  <2>2. Resolve(1)
    BY DEF Resolve1
  <2>3. QED
    BY <1>1, <1>2, <2>1, <2>2, ResolveInv
<1>4. TypeOK'
  BY <1>1, <1>2, <1>3 DEF TypeOK, Steps
<1>5. Inside'
  BY <1>1, <1>2, <1>3 DEF Inside
<1>6. QED
  BY <1>1, <1>4, <1>5, InsideInv

(* currency1 is resolved.                                                  *)
LEMMA Resolve2Inv ==
  ASSUME IInv, Resolve2
  PROVE  IInv'
<1>1. TypeOK /\ Inside /\ step = "resolve2" /\ step' = "exit"
  BY DEF IInv, Resolve2
<1>2. UNCHANGED <<treasury, pendingTreasury, op, todo, fees, perf, named, earned, shares,
                  handed, saved>>
  BY DEF Resolve2, roles
<1>3. /\ delta' \in Deltas /\ credited' \in Deltas
      /\ sent' \in Deltas /\ flow' \in Deltas /\ net' \in Deltas
      /\ Resolved(1)' /\ Resolved(2)' /\ Charged'
  <2>1. 2 \in Currencies /\ 1 \in Currencies \ {2} /\ Resolved(1) /\ Taken(2) /\ Charged
    BY <1>1 DEF Currencies, Inside
  <2>2. Resolve(2)
    BY DEF Resolve2
  <2>3. QED
    BY <1>1, <1>2, <2>1, <2>2, ResolveInv
<1>4. TypeOK'
  BY <1>1, <1>2, <1>3 DEF TypeOK, Steps
<1>5. Inside'
  BY <1>1, <1>2, <1>3 DEF Inside
<1>6. QED
  BY <1>1, <1>4, <1>5, InsideInv

(* The verb's bounds hold and all deltas are settled: the transaction      *)
(* stands, and the reports say what moved.                                 *)
LEMMA ExitInv ==
  ASSUME IInv, Exit
  PROVE  IInv'
<1>1. TypeOK /\ Inside /\ step = "exit" /\ step' = "idle" /\ saved' = NoOp /\ op \in Ops
  BY DEF IInv, Exit, TypeOK
<1>2. UNCHANGED <<treasury, pendingTreasury, op, todo, delta, fees, perf, net, credited,
                  earned, shares, sent, flow, handed>>
  BY DEF Exit, roles, history
<1>3. fees = earned /\ Charged /\ \A c \in Currencies : Resolved(c)
  BY <1>1 DEF Inside, Currencies
<1>4. \A c \in Currencies : sent[c] \in Int /\ credited[c] \in Int /\ perf[c] \in Nat
  BY <1>1 DEF TypeOK, Deltas, Amounts
<1>5. \A c \in Currencies : /\ sent[c] = credited[c] - Share(op, earned[c])
                            /\ perf[c] = Share(op, earned[c])
                            /\ MovedFor(c, net[c])
                            /\ SharePaid(c)
  BY <1>3, <1>4 DEF Exit, Zero, Resolved, Charged
<1>6. TypeOK'
  BY <1>1, <1>2 DEF TypeOK, Steps, Exit
<1>7. ASSUME NEW c \in Currencies
      PROVE  /\ -flow[c] <= op.maxPay[c]
             /\ op.verb \in Exits /\ op.minReceive[c] > 0 =>
                  /\ sent[c] >= op.minReceive[c]
                  /\ c \notin op.taxed => flow[c] >= op.minReceive[c]
  <2>1. /\ flow[c] \in Int /\ sent[c] \in Int /\ net[c] \in Int
        /\ op.maxPay[c] \in Nat /\ op.minReceive[c] \in Nat
    BY <1>1, ConstantsAssumption DEF TypeOK, Deltas, OpType, Amounts
  <2>2. Pay(net[c]) <= op.maxPay[c] /\ (op.verb \in Exits => Got(net[c]) >= op.minReceive[c])
    BY DEF Exit
  <2>3. MovedFor(c, net[c])
    BY <1>5
  <2>4. QED
    BY <2>1, <2>2, <2>3 DEF Pay, Got, MovedFor
<1>8. WithinBounds'
  BY <1>2, <1>7 DEF WithinBounds
<1>9. PaidExactly'
  BY <1>2, <1>5 DEF PaidExactly, SharePaid, Share, FeeRate
<1>10. named' = IF perf = Zero THEN Nobody ELSE treasury
  BY DEF Exit
<1>11. ~handed => shares[treasury] = perf
  <2>1. shares[treasury] \in [Currencies -> Nat] /\ perf \in [Currencies -> Nat]
    BY <1>1 DEF TypeOK, Amounts
  <2>2. QED
    BY <1>5, <2>1 DEF SharePaid
<1>12. ReportedAsPaid'
  <2>1. treasury # Nobody
    BY <1>1, ConstantsAssumption DEF TypeOK
  <2>2. (named' = Nobody <=> perf = Zero) /\ (named' # Nobody => named' = treasury)
    BY <1>10, <2>1
  <2>3. \A c \in Currencies :
         /\ c \notin op.taxed => net[c] = sent[c] /\ net[c] = flow[c]
         /\ net[c] >= 0 => net[c] = sent[c] /\ flow[c] \in 0 .. net[c]
         /\ net[c] <= 0 => sent[c] \in net[c] .. 0 /\ flow[c] \in net[c] .. 0
         /\ \E a \in Accounts : shares[a][c] = perf[c]
    BY <1>5 DEF MovedFor, SharePaid
  <2>4. QED
    BY <1>2, <1>3, <1>11, <2>2, <2>3 DEF ReportedAsPaid
<1>13. QED
  BY <1>1, <1>6, <1>8, <1>9, <1>12 DEF IInv

-----------------------------------------------------------------------------
(* No step breaks the inductive invariant.                                 *)
LEMMA StepInv == IInv /\ [Next]_vars => IInv'
<1> SUFFICES ASSUME IInv, [Next]_vars PROVE IInv'
  OBVIOUS
<1>1. ASSUME NEW a \in Accounts, NEW to \in Accounts \cup {Nobody}, SetTreasury(a, to)
      PROVE  IInv'
  BY <1>1, HandoverInv DEF SetTreasury, IInv, TypeOK, history
<1>2. ASSUME NEW a \in Accounts, AcceptTreasury(a) PROVE IInv'
  BY <1>2, HandoverInv DEF AcceptTreasury, IInv, TypeOK
<1>3. CASE UNCHANGED vars
  BY <1>3, HandoverInv DEF vars, roles, history, IInv, TypeOK
<1>4. QED
  BY <1>1, <1>2, <1>3, EnterInv, SwapInInv, ModifyBinInv, ChargePerfInv, TakePerf1Inv,
     TakePerf2Inv, ZapInv, Resolve1Inv, Resolve2Inv, ExitInv, RevertInv DEF Next

(* The inductive invariant holds in every reachable state.                 *)
THEOREM Invariance == Spec => []IInv
BY InitInv, StepInv, PTL DEF Spec

(* The roles, the amounts and the histories always have their types.       *)
THEOREM TypeCorrect == Spec => []TypeOK
BY Invariance, PTL DEF IInv

(* No venue, hook or token makes a verb move more of the owner's tokens    *)
(* than maxPay0/1, and v4 sends an exit minReceive0/1 or more; an untaxed  *)
(* token delivers it.                                                      *)
THEOREM WithinBoundsSafe == Spec => []WithinBounds
BY Invariance, PTL DEF IInv

(* v4 sends the treasury its rate of the fees and the owner all the rest.  *)
THEOREM PaidExactlySafe == Spec => []PaidExactly
BY Invariance, PTL DEF IInv

(* The amounts in the events are those that changed hands, but for what a  *)
(* taxed token kept; the treasury they name got the shares, but for a      *)
(* handover inside of the verb.                                            *)
THEOREM ReportedAsPaidSafe == Spec => []ReportedAsPaid
BY Invariance, PTL DEF IInv

(* The share alone can never make an exit charge its owner.                *)
THEOREM ExitNeverChargesSafe == Spec => []ExitNeverCharges
<1>1. IInv => ExitNeverCharges
  <2> SUFFICES ASSUME IInv, step = "resolve1", NEW c \in Currencies, credited[c] >= earned[c]
               PROVE  delta[c] >= 0
    BY DEF ExitNeverCharges
  <2>1. op \in Ops /\ Charged /\ Taken(c)
    BY DEF IInv, TypeOK, Inside, Currencies
  <2>2. earned[c] \in Nat /\ credited[c] \in Int
    BY DEF IInv, TypeOK, Amounts, Deltas
  <2>3. perf[c] \in Nat /\ perf[c] <= earned[c]
    BY <2>1, <2>2, ShareBound DEF Charged
  <2>4. QED
    BY <2>1, <2>2, <2>3 DEF Taken
<1>2. QED
  BY <1>1, Invariance, PTL

-----------------------------------------------------------------------------
(* The fee hook: arithmetic.                                               *)

LEMMA ProductNat == ASSUME NEW a \in Nat, NEW b \in Nat PROVE a * b \in Nat
  OBVIOUS

LEMMA ProductMonotone ==
  ASSUME NEW a \in Nat, NEW b \in Nat, NEW c \in Nat, a <= b
  PROVE  a * c <= b * c
  OBVIOUS

LEMMA DivInt == ASSUME NEW x \in Int, NEW d \in Nat \ {0} PROVE x \div d \in Int
  OBVIOUS

LEMMA DivBelow ==
  ASSUME NEW x \in Int, NEW d \in Nat \ {0}
  PROVE  (x \div d) * d <= x /\ x < (x \div d) * d + d
  OBVIOUS

LEMMA DivAtLeast ==
  ASSUME NEW x \in Int, NEW d \in Nat \ {0}, NEW b \in Int, b * d <= x
  PROVE  b <= x \div d
  OBVIOUS

LEMMA DivMonotone ==
  ASSUME NEW x \in Int, NEW y \in Int, NEW d \in Nat \ {0}, x <= y
  PROVE  x \div d <= y \div d
  OBVIOUS

LEMMA DivNat == ASSUME NEW x \in Nat, NEW d \in Nat \ {0} PROVE x \div d \in Nat
  OBVIOUS

LEMMA RemainderInRange ==
  ASSUME NEW x \in Int, NEW d \in Nat \ {0}
  PROVE  x % d \in 0 .. d - 1
  OBVIOUS

LEMMA RemainderOfSmall ==
  ASSUME NEW d \in Nat \ {0}, NEW x \in 0 .. d - 1
  PROVE  x % d = x
  OBVIOUS

-----------------------------------------------------------------------------
(* The mathematics of the hook.                                            *)

LEMMA SmallerBounds ==
  ASSUME NEW x \in Int, NEW y \in Int
  PROVE  Smaller(x, y) \in {x, y} /\ Smaller(x, y) <= x /\ Smaller(x, y) <= y
  BY DEF Smaller

LEMMA DistanceNat ==
  ASSUME NEW x \in Int, NEW y \in Int
  PROVE  Distance(x, y) \in Nat /\ (x >= y => Distance(x, y) = x - y)
  BY DEF Distance

LEMMA BucketInt == ASSUME NEW t \in Int PROVE BucketOf(t, TickSpacing) \in Int
  BY HookAssumption, DivInt DEF BucketOf

(* The cap of the accumulator fits its bits.                               *)
LEMMA CapFits ==
  ASSUME NEW c \in ConfigType
  PROVE  LbParams(c).maxVolatilityAccumulator \in 0 .. Uint24 - 1
  <1> DEFINE m == (c.maxVolatilityTicks * BasisPointMax) \div TickSpacing
  <1>1. c.maxVolatilityTicks \in Nat /\ BasisPointMax \in Nat
    BY MathAssumption DEF ConfigType
  <1>2. c.maxVolatilityTicks * BasisPointMax \in Nat
    BY <1>1, ProductNat
  <1>3. m \in Nat
    BY <1>2, DivNat, HookAssumption
  <1>4. LbParams(c).maxVolatilityAccumulator = Smaller(m, Uint24 - 1)
    BY DEF LbParams
  <1> HIDE DEF m
  <1> QED
    BY <1>3, <1>4, MathAssumption DEF Smaller

(* The accumulator is never wrapped.                                       *)
LEMMA AccumulatedIs ==
  ASSUME NEW s \in VolatilityState, NEW c \in ConfigType, NEW b \in Int
  PROVE  LET a == s.volatilityReference + Distance(b, s.bucketReference) * BasisPointMax
         IN  /\ a \in Nat
             /\ Accumulated(s, LbParams(c), b) =
                   Smaller(a, LbParams(c).maxVolatilityAccumulator)
             /\ Accumulated(s, LbParams(c), b) \in 0 .. Uint24 - 1
  <1> DEFINE d == Distance(b, s.bucketReference)
             a == s.volatilityReference + d * BasisPointMax
             m == LbParams(c).maxVolatilityAccumulator
  <1>1. s.volatilityReference \in 0 .. Uint24 - 1 /\ s.bucketReference \in Int
    BY DEF VolatilityState
  <1>2. d \in Nat
    BY <1>1, DistanceNat
  <1>3. m \in 0 .. Uint24 - 1
    BY CapFits
  <1>4. Accumulated(s, LbParams(c), b) = Smaller(a, m) % Uint24
    BY DEF Accumulated
  <1> HIDE DEF d, m
  <1>5. d * BasisPointMax \in Nat
    BY <1>2, ProductNat, MathAssumption
  <1>6. a \in Nat
    BY <1>1, <1>5, MathAssumption
  <1> HIDE DEF a
  <1>7. Smaller(a, m) \in 0 .. Uint24 - 1
    BY <1>3, <1>6, MathAssumption DEF Smaller
  <1>8. Smaller(a, m) % Uint24 = Smaller(a, m)
    BY <1>7, RemainderOfSmall, MathAssumption
  <1> QED
    BY <1>4, <1>6, <1>7, <1>8 DEF a, d, m

LEMMA VariableFeeNat ==
  ASSUME NEW c \in ConfigType, NEW va \in Nat
  PROVE  VariableFee(LbParams(c), va, TickSpacing) \in Nat
  <1> DEFINE k == LbParams(c).variableFeeControl
  <1>1. k \in Nat
    BY DEF LbParams, ConfigType
  <1>2. TickSpacing \in Nat
    BY HookAssumption
  <1>3. va * TickSpacing * va * TickSpacing * k \in Nat
    BY <1>1, <1>2, ProductNat
  <1>4. (va * TickSpacing * va * TickSpacing * k + 99) \div 100 \in Nat
    BY <1>3, DivNat
  <1> QED
    BY <1>4 DEF VariableFee

(* The fee is the capped sum, and within its bounds: no cast wraps it.     *)
LEMMA FeeForIs ==
  ASSUME NEW c \in ConfigType, Valid(c), NEW va \in Nat
  PROVE  LET f == c.baseFeePips * PipsDivisor + VariableFee(LbParams(c), va, TickSpacing)
         IN  /\ f \in Nat
             /\ FeeFor(c, va) = Smaller(f, MaxFee) \div PipsDivisor
             /\ FeeFor(c, va) \in c.baseFeePips .. MaxFeePips
  <1> DEFINE v == VariableFee(LbParams(c), va, TickSpacing)
             b == c.baseFeePips
             f == b * PipsDivisor + v
             q == Smaller(f, MaxFee) \div PipsDivisor
  <1>1. v \in Nat
    BY VariableFeeNat
  <1>2. b \in Nat /\ b <= MaxFeePips
    BY DEF Valid, ConfigType
  <1>3. FeeFor(c, va) = q % Uint24
    BY DEF FeeFor
  <1> HIDE DEF v, b
  <1>4. b * PipsDivisor \in Nat
    BY <1>2, ProductNat, MathAssumption
  <1>5. f \in Nat
    BY <1>1, <1>4
  <1>6. MaxFeePips \in Nat /\ MaxFeePips < Uint24 /\ MaxFeePips * PipsDivisor <= MaxFee
    BY MathAssumption, DivNat, DivBelow DEF MaxFeePips
  <1>7. b * PipsDivisor <= MaxFeePips * PipsDivisor
    BY <1>2, <1>6, ProductMonotone, MathAssumption
  <1>8. b * PipsDivisor <= f
    BY <1>1, <1>4
  <1> HIDE DEF f
  <1>9. Smaller(f, MaxFee) \in Nat /\ b * PipsDivisor <= Smaller(f, MaxFee)
          /\ Smaller(f, MaxFee) <= MaxFee
    BY <1>4, <1>5, <1>6, <1>7, <1>8, MathAssumption, ProductNat DEF Smaller
  <1>10. b <= q
    BY <1>2, <1>9, DivAtLeast, MathAssumption
  <1>11. q <= MaxFeePips
    BY <1>9, DivMonotone, MathAssumption DEF MaxFeePips
  <1>12. q \in Nat
    BY <1>9, DivNat, MathAssumption
  <1> HIDE DEF q
  <1>13. q % Uint24 = q
    BY <1>6, <1>11, <1>12, RemainderOfSmall, MathAssumption
  <1>14. FeeFor(c, va) = q /\ q \in b .. MaxFeePips
    BY <1>2, <1>3, <1>6, <1>10, <1>11, <1>12, <1>13
  <1> QED
    BY <1>5, <1>14 DEF f, v, b, q

(* A larger accumulator never makes the fee smaller.                       *)
LEMMA FeeForMonotone ==
  ASSUME NEW c \in ConfigType, Valid(c), NEW va \in Nat, NEW vb \in Nat, va <= vb
  PROVE  FeeFor(c, va) <= FeeFor(c, vb)
  <1> DEFINE k == LbParams(c).variableFeeControl
             T == TickSpacing
             W(x) == VariableFee(LbParams(c), x, T)
             b == c.baseFeePips * PipsDivisor
  <1>1. k \in Nat /\ T \in Nat
    BY HookAssumption DEF LbParams, ConfigType
  <1>2. \A x \in Nat : W(x) = (x * T * x * T * k + 99) \div 100
    BY DEF VariableFee
  <1>3. b \in Nat
    BY ProductNat, MathAssumption DEF ConfigType
  <1>4. W(va) \in Nat /\ W(vb) \in Nat
    BY VariableFeeNat
  <1>5. /\ b + W(va) \in Nat
        /\ FeeFor(c, va) = Smaller(b + W(va), MaxFee) \div PipsDivisor
    BY FeeForIs
  <1>6. /\ b + W(vb) \in Nat
        /\ FeeFor(c, vb) = Smaller(b + W(vb), MaxFee) \div PipsDivisor
    BY FeeForIs
  <1> HIDE DEF k, T, W, b
  <1>7. va * T \in Nat /\ vb * T \in Nat /\ va * T <= vb * T
    BY <1>1, ProductNat, ProductMonotone
  <1>8. va * T * va \in Nat /\ vb * T * vb \in Nat /\ va * T * va <= vb * T * vb
    <2>1. va * T * va \in Nat /\ vb * T * va \in Nat /\ va * T * va <= vb * T * va
      BY <1>7, ProductNat, ProductMonotone
    <2>2. va * (vb * T) <= vb * (vb * T)
      BY <1>7, ProductMonotone
    <2>3. vb * T * va = va * (vb * T) /\ vb * T * vb = vb * (vb * T)
      BY <1>1, <1>7
    <2> QED
      BY <1>7, <2>1, <2>2, <2>3, ProductNat
  <1>9. va * T * va * T \in Nat /\ vb * T * vb * T \in Nat /\ va * T * va * T <= vb * T * vb * T
    BY <1>1, <1>8, ProductNat, ProductMonotone
  <1>10. /\ va * T * va * T * k \in Nat /\ vb * T * vb * T * k \in Nat
         /\ va * T * va * T * k <= vb * T * vb * T * k
    BY <1>1, <1>9, ProductNat, ProductMonotone
  <1>11. W(va) <= W(vb)
    BY <1>2, <1>10, DivMonotone
  <1>12. /\ Smaller(b + W(va), MaxFee) \in Int /\ Smaller(b + W(vb), MaxFee) \in Int
         /\ Smaller(b + W(va), MaxFee) <= Smaller(b + W(vb), MaxFee)
    BY <1>3, <1>4, <1>11, MathAssumption DEF Smaller
  <1> QED
    BY <1>5, <1>6, <1>12, DivMonotone, MathAssumption

(* What refreshing the references makes of a state.                        *)
LEMMA RefreshedIs ==
  ASSUME NEW s \in VolatilityState, NEW c \in ConfigType, NEW b \in Int, NEW dt \in Nat
  PROVE  LET r == UpdateReferences(s, LbParams(c), b, dt)
         IN  /\ r \in VolatilityState
             /\ dt >= c.filterPeriod => r.bucketReference = b
             /\ dt < c.filterPeriod => r = s
             /\ dt >= c.filterPeriod /\ dt >= c.decayPeriod => r.volatilityReference = 0
  <1> DEFINE p == LbParams(c)
             kept == ((s.volatilityAccumulator * p.reductionFactor) \div BasisPointMax) % Uint24
             ref == IF dt < p.decayPeriod THEN kept ELSE 0
             r == UpdateReferences(s, p, b, dt)
  <1>1. /\ p.filterPeriod = c.filterPeriod /\ p.decayPeriod = c.decayPeriod
        /\ c.filterPeriod \in Nat /\ c.decayPeriod \in Nat /\ p.reductionFactor \in Nat
    BY DEF LbParams, ConfigType
  <1>2. s.volatilityAccumulator \in Nat /\ s.volatilityAccumulator \in 0 .. Uint24 - 1
    BY MathAssumption DEF VolatilityState
  <1>3. s.volatilityAccumulator * p.reductionFactor \in Nat
    BY <1>1, <1>2, ProductNat
  <1>4. (s.volatilityAccumulator * p.reductionFactor) \div BasisPointMax \in Int
    BY <1>3, DivInt, MathAssumption
  <1>5. kept \in 0 .. Uint24 - 1
    BY <1>4, RemainderInRange, MathAssumption
  <1>6. r = IF dt >= p.filterPeriod
              THEN [s EXCEPT !.bucketReference = b, !.volatilityReference = ref]
              ELSE s
    BY DEF UpdateReferences
  <1> HIDE DEF kept, p, r
  <1>7. ref \in 0 .. Uint24 - 1 /\ (dt >= p.decayPeriod => ref = 0)
    BY <1>1, <1>5, MathAssumption
  <1> HIDE DEF ref
  <1>8. [s EXCEPT !.bucketReference = b, !.volatilityReference = ref]
          = [volatilityAccumulator |-> s.volatilityAccumulator, volatilityReference |-> ref,
             bucketReference |-> b]
    <2> DEFINE z == [s EXCEPT !.bucketReference = b, !.volatilityReference = ref]
    <2>1. s = [volatilityAccumulator |-> s.volatilityAccumulator,
               volatilityReference |-> s.volatilityReference,
               bucketReference |-> s.bucketReference]
      BY DEF VolatilityState
    <2>2. DOMAIN s = {"volatilityAccumulator", "volatilityReference", "bucketReference"}
      BY <2>1
    <2>3. z = [i \in DOMAIN s |-> IF i = "bucketReference" THEN b
                                  ELSE IF i = "volatilityReference" THEN ref ELSE s[i]]
      BY <2>2
    <2> QED
      BY <2>2, <2>3
  <1>9. r = IF dt >= c.filterPeriod
              THEN [volatilityAccumulator |-> s.volatilityAccumulator,
                    volatilityReference |-> ref, bucketReference |-> b]
              ELSE s
    BY <1>1, <1>6, <1>8
  <1>10. r \in VolatilityState
    BY <1>2, <1>7, <1>9 DEF VolatilityState
  <1>11. /\ dt >= c.filterPeriod => r.bucketReference = b
         /\ dt < c.filterPeriod => r = s
         /\ dt >= c.filterPeriod /\ dt >= c.decayPeriod => r.volatilityReference = 0
    BY <1>1, <1>7, <1>9
  <1> QED
    BY <1>10, <1>11 DEF r, p

(* The state after a swap, and the accumulator its fee is for.             *)
LEMMA UpdateIs ==
  ASSUME NEW s \in VolatilityState, NEW c \in ConfigType, NEW b \in Int, NEW dt \in Nat
  PROVE  LET u == Update(s, LbParams(c), b, dt)
             r == UpdateReferences(s, LbParams(c), b, dt)
         IN  /\ u \in VolatilityState
             /\ r \in VolatilityState
             /\ u.volatilityAccumulator = Accumulated(r, LbParams(c), b)
             /\ u.volatilityAccumulator \in Nat
  <1> DEFINE p == LbParams(c)
             r == UpdateReferences(s, p, b, dt)
             u == Update(s, p, b, dt)
             a == Accumulated(r, p, b)
  <1>1. r \in VolatilityState
    BY RefreshedIs
  <1>2. u = [r EXCEPT !.volatilityAccumulator = a]
    BY DEF Update, UpdateVolatilityAccumulator
  <1> HIDE DEF r, u
  <1>3. a \in 0 .. Uint24 - 1
    BY <1>1, AccumulatedIs
  <1> HIDE DEF a
  <1>4. u \in VolatilityState /\ u.volatilityAccumulator = a
    BY <1>1, <1>2, <1>3 DEF VolatilityState
  <1>5. a \in Nat
    BY <1>3, MathAssumption
  <1> QED
    BY <1>1, <1>4, <1>5 DEF a, r, u, p

-----------------------------------------------------------------------------
(* The invariant.                                                          *)

(* Whatever can be adopted and whatever was adopted is valid, and before   *)
(* the pool exists there is no proposal in the name of the manager, which  *)
(* all its users would share.                                              *)
PendingValid == \A r \in Registrants : pending[r] # None => Valid(pending[r])

ConfigValid == config # None => config \in ConfigType /\ Valid(config)

ManagerProposesNothing == config = None => pending[Manager] = None

HookIInv ==
  /\ HookTypeOK
  /\ PendingValid
  /\ ConfigValid
  /\ ManagerProposesNothing
  /\ LaunchedAsAsked

LEMMA InitIInv == HookInit => HookIInv
  <1> SUFFICES ASSUME HookInit PROVE HookIInv
    OBVIOUS
  <1>1. HookTypeOK
    BY HookAssumption DEF HookInit, HookTypeOK
  <1>2. PendingValid /\ ConfigValid /\ ManagerProposesNothing /\ LaunchedAsAsked
    BY DEF HookInit, PendingValid, ConfigValid, ManagerProposesNothing, LaunchedAsAsked, Registrants
  <1> QED
    BY <1>1, <1>2 DEF HookIInv

(* What is adopted is a valid configuration.                               *)
LEMMA AdoptedValid ==
  ASSUME NEW f \in [Registrants -> Proposals \cup {None}], NEW by \in Registrants,
         f[by] # None => Valid(f[by]) \/ hook # "FriarV2"
  PROVE  /\ Adopted(f, by) \in Proposals \cup {DefaultConfig}
         /\ Adopted(f, by) \in ConfigType
         /\ Adopted(f, by) # None
         /\ Valid(Adopted(f, by))
  BY HookAssumption DEF Adopted

LEMMA CalmType == ASSUME NEW t \in Ticks PROVE Calm(t) \in VolatilityState
  BY HookAssumption, MathAssumption, BucketInt DEF Calm, VolatilityState

LEMMA SetPoolConfigIInv ==
  ASSUME HookIInv, NEW by \in Users, NEW c \in Proposals, SetPoolConfig(by, c)
  PROVE  HookIInv'
  <1>1. HookTypeOK'
    BY DEF HookIInv, HookTypeOK, SetPoolConfig, pool, Registrants
  <1>2. PendingValid'
    BY DEF HookIInv, HookTypeOK, PendingValid, SetPoolConfig, Registrants
  <1>3. ManagerProposesNothing'
    BY HookAssumption DEF HookIInv, HookTypeOK, ManagerProposesNothing, SetPoolConfig, Registrants
  <1>4. ConfigValid' /\ LaunchedAsAsked'
    BY DEF HookIInv, ConfigValid, LaunchedAsAsked, SetPoolConfig, pool
  <1> QED
    BY <1>1, <1>2, <1>3, <1>4 DEF HookIInv

(* Whoever creates it and however, the pool begins typed and valid.        *)
LEMMA CreatedType ==
  ASSUME HookIInv, NEW f \in [Registrants -> Proposals \cup {None}], NEW by \in Registrants,
         NEW t \in Ticks, f[by] # None => Valid(f[by]) \/ hook # "FriarV2",
         Created(f, by, t)
  PROVE  /\ config' = Adopted(f, by)
         /\ config' \in Proposals \cup {DefaultConfig}
         /\ config' # None
         /\ tick' \in Ticks /\ tick' # None
         /\ vol' \in VolatilityState /\ vol' # None
         /\ age' \in 0 .. MaxDecayPeriod
         /\ ConfigValid'
  <1>1. config' = Adopted(f, by) /\ tick' = t /\ vol' = Calm(t) /\ age' = 0
    BY DEF Created
  <1>2. /\ Adopted(f, by) \in Proposals \cup {DefaultConfig}
        /\ Adopted(f, by) \in ConfigType /\ Adopted(f, by) # None /\ Valid(Adopted(f, by))
    BY AdoptedValid
  <1>3. Calm(t) \in VolatilityState /\ Calm(t) # None
    BY CalmType, HookAssumption
  <1>4. t # None /\ 0 \in 0 .. MaxDecayPeriod
    BY HookAssumption
  <1>5. ConfigValid'
    BY <1>1, <1>2 DEF ConfigValid
  <1> QED
    BY <1>1, <1>2, <1>3, <1>4, <1>5

LEMMA InitializeIInv ==
  ASSUME HookIInv, NEW by \in Users, NEW t \in Ticks, Initialize(by, t)
  PROVE  HookIInv'
  <1>1. /\ pending \in [Registrants -> Proposals \cup {None}] /\ by \in Registrants
        /\ pending[by] # None => Valid(pending[by])
    BY DEF HookIInv, HookTypeOK, PendingValid, Registrants
  <1>2. Created(pending, by, t) /\ UNCHANGED <<hook, pending>>
        /\ launch' = [by |-> by, how |-> "initialize", asked |-> pending[by]]
    BY DEF Initialize
  <1>3. /\ config' = Adopted(pending, by)
        /\ config' \in Proposals \cup {DefaultConfig} /\ config' # None
        /\ tick' \in Ticks /\ tick' # None
        /\ vol' \in VolatilityState /\ vol' # None
        /\ age' \in 0 .. MaxDecayPeriod
        /\ ConfigValid'
    BY <1>1, <1>2, CreatedType
  <1>4. launch' \in LaunchType /\ launch' # None
    BY <1>1, <1>2, HookAssumption DEF LaunchType
  <1>5. HookTypeOK'
    BY <1>2, <1>3, <1>4 DEF HookIInv, HookTypeOK
  <1>6. PendingValid' /\ ManagerProposesNothing'
    BY <1>2, <1>3 DEF HookIInv, PendingValid, ManagerProposesNothing
  <1>7. LaunchedAsAsked'
    BY <1>2, <1>3 DEF LaunchedAsAsked, Adopted
  <1> QED
    BY <1>3, <1>5, <1>6, <1>7 DEF HookIInv

LEMMA OpenNewIInv ==
  ASSUME HookIInv, NEW by \in Users, NEW t \in Ticks, OpenNew(by, t)
  PROVE  HookIInv'
  <1>1. /\ pending \in [Registrants -> Proposals \cup {None}] /\ Manager \in Registrants
        /\ pending[Manager] = None
    BY DEF HookIInv, HookTypeOK, ManagerProposesNothing, Registrants, OpenNew, Created
  <1>2. Created(pending, Manager, t) /\ UNCHANGED <<hook, pending>>
        /\ launch' = [by |-> by, how |-> "openNew", asked |-> None]
    BY DEF OpenNew
  <1>3. /\ config' = Adopted(pending, Manager)
        /\ config' \in Proposals \cup {DefaultConfig} /\ config' # None
        /\ tick' \in Ticks /\ tick' # None
        /\ vol' \in VolatilityState /\ vol' # None
        /\ age' \in 0 .. MaxDecayPeriod
        /\ ConfigValid'
    BY <1>1, <1>2, CreatedType
  <1>4. launch' \in LaunchType /\ launch' # None
    BY <1>1, <1>2, HookAssumption DEF LaunchType
  <1>5. HookTypeOK'
    BY <1>2, <1>3, <1>4 DEF HookIInv, HookTypeOK
  <1>6. PendingValid' /\ ManagerProposesNothing'
    BY <1>2, <1>3 DEF HookIInv, PendingValid, ManagerProposesNothing
  <1>7. LaunchedAsAsked'
    BY <1>1, <1>2, <1>3 DEF LaunchedAsAsked, Adopted
  <1> QED
    BY <1>3, <1>5, <1>6, <1>7 DEF HookIInv

LEMMA OpenNewConfiguredIInv ==
  ASSUME HookIInv, NEW by \in Users, NEW c \in Proposals, NEW t \in Ticks,
         OpenNewConfigured(by, c, t)
  PROVE  HookIInv'
  <1>1. /\ Manager \in Registrants /\ pending \in [Registrants -> Proposals \cup {None}]
        /\ pending' = [pending EXCEPT ![Manager] = c]
        /\ pending' \in [Registrants -> Proposals \cup {None}] /\ pending'[Manager] = c
        /\ \A r \in Registrants \ {Manager} : pending'[r] = pending[r]
    BY DEF HookIInv, HookTypeOK, Registrants, OpenNewConfigured
  <1>2. /\ Created(pending', Manager, t) /\ hook' = hook
        /\ hook = "FriarV2" => Valid(c)
        /\ config' = c
        /\ launch' = [by |-> by, how |-> "openNewConfigured", asked |-> c]
    BY DEF OpenNewConfigured
  <1>3. /\ config' \in Proposals \cup {DefaultConfig} /\ config' # None
        /\ tick' \in Ticks /\ tick' # None
        /\ vol' \in VolatilityState /\ vol' # None
        /\ age' \in 0 .. MaxDecayPeriod
        /\ ConfigValid'
    <2> DEFINE f == pending'
    <2>1. f \in [Registrants -> Proposals \cup {None}] /\ Created(f, Manager, t)
          /\ (f[Manager] # None => Valid(f[Manager]) \/ hook # "FriarV2")
      BY <1>1, <1>2
    <2> HIDE DEF f
    <2> QED
      BY <1>1, <2>1, CreatedType
  <1>4. launch' \in LaunchType /\ launch' # None
    BY <1>2, HookAssumption DEF LaunchType
  <1>5. HookTypeOK'
    BY <1>1, <1>2, <1>3, <1>4 DEF HookIInv, HookTypeOK
  <1>6. Valid(c)
    BY <1>2, <1>3 DEF ConfigValid
  <1>7. PendingValid' /\ ManagerProposesNothing'
    BY <1>1, <1>3, <1>6 DEF HookIInv, PendingValid, ManagerProposesNothing
  <1>8. LaunchedAsAsked'
    BY <1>2 DEF LaunchedAsAsked
  <1> QED
    BY <1>3, <1>5, <1>7, <1>8 DEF HookIInv

LEMMA SwapIInv ==
  ASSUME HookIInv, NEW t \in Ticks, Swap(t)
  PROVE  HookIInv'
  <1>1. /\ config # None /\ config \in ConfigType /\ vol \in VolatilityState
        /\ tick \in Int /\ age \in Nat
    BY HookAssumption DEF HookIInv, HookTypeOK, ConfigValid, Swap
  <1>2. BucketOf(tick, TickSpacing) \in Int
    BY <1>1, BucketInt
  <1>3. Accrued(tick) \in VolatilityState
    BY <1>1, <1>2, UpdateIs DEF Accrued
  <1>4. vol' \in VolatilityState /\ vol' # None /\ tick' \in Ticks /\ tick' # None
        /\ age' \in 0 .. MaxDecayPeriod
    BY <1>3, HookAssumption DEF Swap
  <1>5. UNCHANGED <<hook, pending, config, launch>>
    BY DEF Swap
  <1>6. HookTypeOK'
    BY <1>1, <1>4, <1>5 DEF HookIInv, HookTypeOK
  <1>7. PendingValid' /\ ConfigValid' /\ ManagerProposesNothing' /\ LaunchedAsAsked'
    BY <1>5 DEF HookIInv, PendingValid, ConfigValid, ManagerProposesNothing, LaunchedAsAsked
  <1> QED
    BY <1>6, <1>7 DEF HookIInv

LEMMA WaitIInv ==
  ASSUME HookIInv, Wait
  PROVE  HookIInv'
  <1>1. age \in 0 .. MaxDecayPeriod /\ age' = (IF age < MaxDecayPeriod THEN age + 1 ELSE age)
    BY DEF HookIInv, HookTypeOK, Wait
  <1>2. age' \in 0 .. MaxDecayPeriod
    BY <1>1, HookAssumption
  <1>3. UNCHANGED <<hook, pending, config, tick, vol, launch>>
    BY DEF Wait
  <1>4. HookTypeOK'
    BY <1>2, <1>3 DEF HookIInv, HookTypeOK
  <1>5. PendingValid' /\ ConfigValid' /\ ManagerProposesNothing' /\ LaunchedAsAsked'
    BY <1>3 DEF HookIInv, PendingValid, ConfigValid, ManagerProposesNothing, LaunchedAsAsked
  <1> QED
    BY <1>4, <1>5 DEF HookIInv

LEMMA NextIInv == HookIInv /\ [HookNext]_hookVars => HookIInv'
  <1> SUFFICES ASSUME HookIInv, [HookNext]_hookVars PROVE HookIInv'
    OBVIOUS
  <1>1. CASE \E by \in Users, c \in Proposals : SetPoolConfig(by, c)
    BY <1>1, SetPoolConfigIInv
  <1>2. CASE \E by \in Users, t \in Ticks : Initialize(by, t)
    BY <1>2, InitializeIInv
  <1>3. CASE \E by \in Users, t \in Ticks : OpenNew(by, t)
    BY <1>3, OpenNewIInv
  <1>4. CASE \E by \in Users, t \in Ticks, c \in Proposals : OpenNewConfigured(by, c, t)
    BY <1>4, OpenNewConfiguredIInv
  <1>5. CASE \E t \in Ticks : Swap(t)
    BY <1>5, SwapIInv
  <1>6. CASE Wait
    BY <1>6, WaitIInv
  <1>7. CASE UNCHANGED hookVars
    BY <1>7 DEF HookIInv, HookTypeOK, PendingValid, ConfigValid, ManagerProposesNothing,
                LaunchedAsAsked, hookVars, pool
  <1> QED
    BY <1>1, <1>2, <1>3, <1>4, <1>5, <1>6, <1>7 DEF HookNext

(* Valid proposals, and none in the shared name, through every step.       *)
THEOREM HookInvariance == HookSpec => []HookIInv
  BY InitIInv, NextIInv, PTL DEF HookSpec

-----------------------------------------------------------------------------
(* Theorems.                                                               *)

(* Every value has its type; in particular accumulator and reference fit   *)
(* the 24 bits they are stored in.                                         *)
THEOREM HookTypeCorrect == HookSpec => []HookTypeOK
  <1>1. HookIInv => HookTypeOK
    BY DEF HookIInv
  <1> QED
    BY <1>1, HookInvariance, PTL

(* Whoever runs ahead of whom, who created the pool got what was asked for.*)
THEOREM Launch == HookSpec => []LaunchedAsAsked
  <1>1. HookIInv => LaunchedAsAsked
    BY DEF HookIInv
  <1> QED
    BY <1>1, HookInvariance, PTL

(* Facts about a pool that swaps.                                          *)
LEMMA Trading ==
  ASSUME HookIInv, config # None, NEW t \in Ticks
  PROVE  LET b == BucketOf(t, TickSpacing)
             r == UpdateReferences(vol, LbParams(config), b, age)
             a == Accumulated(r, LbParams(config), b)
         IN  /\ config \in ConfigType /\ Valid(config)
             /\ vol \in VolatilityState /\ age \in Nat /\ b \in Int
             /\ r \in VolatilityState
             /\ a \in Nat
             /\ FeeAt(t) = FeeFor(config, a)
  <1>1. /\ config \in ConfigType /\ Valid(config) /\ vol \in VolatilityState /\ age \in Nat
    BY HookAssumption DEF HookIInv, HookTypeOK, ConfigValid
  <1>2. BucketOf(t, TickSpacing) \in Int
    BY BucketInt, HookAssumption
  <1> DEFINE b == BucketOf(t, TickSpacing)
             r == UpdateReferences(vol, LbParams(config), b, age)
             a == Accumulated(r, LbParams(config), b)
  <1>3. FeeAt(t) = FeeFor(config, Update(vol, LbParams(config), b, age).volatilityAccumulator)
    BY DEF FeeAt, Accrued
  <1>4. /\ r \in VolatilityState
        /\ Update(vol, LbParams(config), b, age).volatilityAccumulator = a
        /\ a \in Nat
    <2> HIDE DEF b
    <2>1. b \in Int
      BY <1>2 DEF b
    <2> QED
      BY <1>1, <2>1, UpdateIs
  <1> QED
    BY <1>1, <1>2, <1>3, <1>4

(* No swap pays less than the base fee or more than the cap.               *)
THEOREM Bounded == HookSpec => []FeeWithinBounds
  <1>1. HookIInv => FeeWithinBounds
    <2> SUFFICES ASSUME HookIInv, config # None
                 PROVE  FeeAt(tick) \in config.baseFeePips .. MaxFeePips
      BY DEF FeeWithinBounds
    <2>1. tick \in Ticks
      BY DEF HookIInv, HookTypeOK
    <2> DEFINE b == BucketOf(tick, TickSpacing)
               a == Accumulated(UpdateReferences(vol, LbParams(config), b, age), LbParams(config), b)
    <2>2. config \in ConfigType /\ Valid(config) /\ a \in Nat /\ FeeAt(tick) = FeeFor(config, a)
      BY <2>1, Trading
    <2> HIDE DEF a
    <2> QED
      BY <2>2, FeeForIs
  <1> QED
    BY <1>1, HookInvariance, PTL

(* A price further from the reference never pays less.                     *)
THEOREM Further == HookSpec => []FurtherCostsMore
  <1>1. HookIInv => FurtherCostsMore
    <2> SUFFICES ASSUME HookIInv, config # None, NEW t \in Ticks, NEW u \in Ticks, t <= u,
                        BucketOf(t, TickSpacing) >= vol.bucketReference
                 PROVE  FeeAt(t) <= FeeAt(u)
      BY DEF FurtherCostsMore
    <2> DEFINE p == LbParams(config)
               m == p.maxVolatilityAccumulator
               B(x) == BucketOf(x, TickSpacing)
               R(x) == UpdateReferences(vol, p, B(x), age)
               D(x) == Distance(B(x), R(x).bucketReference)
               A(x) == Accumulated(R(x), p, B(x))
    <2>1. /\ config \in ConfigType /\ Valid(config) /\ vol \in VolatilityState /\ age \in Nat
          /\ B(t) \in Int /\ R(t) \in VolatilityState /\ A(t) \in Nat /\ FeeAt(t) = FeeFor(config, A(t))
          /\ B(u) \in Int /\ R(u) \in VolatilityState /\ A(u) \in Nat /\ FeeAt(u) = FeeFor(config, A(u))
      BY Trading
    <2>2. B(t) <= B(u)
      BY HookAssumption, DivMonotone DEF BucketOf
    <2>3. R(t).volatilityReference = R(u).volatilityReference
      BY DEF UpdateReferences
    <2>4. D(t) \in Nat /\ D(u) \in Nat /\ D(t) <= D(u)
      <3>1. config.filterPeriod \in Nat
        BY <2>1 DEF ConfigType
      <3>2. R(t).bucketReference \in Int /\ R(u).bucketReference \in Int
        BY <2>1 DEF VolatilityState
      <3>3. /\ D(t) = Distance(B(t), R(t).bucketReference)
            /\ D(u) = Distance(B(u), R(u).bucketReference)
        OBVIOUS
      <3> HIDE DEF B, D
      <3>4. CASE age >= config.filterPeriod
        <4>1. R(t).bucketReference = B(t) /\ R(u).bucketReference = B(u)
          BY <2>1, <3>4, RefreshedIs
        <4> HIDE DEF R
        <4>2. D(t) = B(t) - B(t) /\ D(u) = B(u) - B(u)
          BY <2>1, <3>3, <4>1 DEF Distance
        <4> QED
          BY <2>1, <4>2
      <3>5. CASE age < config.filterPeriod
        <4>1. R(t) = vol /\ R(u) = vol
          BY <2>1, <3>5, RefreshedIs
        <4>2. vol.bucketReference \in Int /\ B(t) >= vol.bucketReference
          BY <2>1 DEF VolatilityState, B
        <4> HIDE DEF R
        <4>3. D(t) = B(t) - vol.bucketReference /\ D(u) = B(u) - vol.bucketReference
          BY <2>1, <2>2, <3>3, <4>1, <4>2 DEF Distance
        <4> QED
          BY <2>1, <2>2, <4>2, <4>3
      <3> QED
        BY <2>1, <3>1, <3>4, <3>5
    <2>5. /\ R(t).volatilityReference + D(t) * BasisPointMax \in Nat
          /\ A(t) = Smaller(R(t).volatilityReference + D(t) * BasisPointMax, m)
      BY <2>1, AccumulatedIs
    <2>6. /\ R(u).volatilityReference + D(u) * BasisPointMax \in Nat
          /\ A(u) = Smaller(R(u).volatilityReference + D(u) * BasisPointMax, m)
      BY <2>1, AccumulatedIs
    <2>7. m \in Int
      BY <2>1, CapFits, MathAssumption
    <2>8. A(t) <= A(u)
      <3>1. D(t) * BasisPointMax <= D(u) * BasisPointMax
        BY <2>4, ProductMonotone, MathAssumption
      <3>2. R(t).volatilityReference \in Int
        BY <2>1, MathAssumption DEF VolatilityState
      <3>3. D(t) * BasisPointMax \in Int /\ D(u) * BasisPointMax \in Int
        BY <2>4, MathAssumption
      <3> HIDE DEF R, D, A, m
      <3>4. R(t).volatilityReference + D(t) * BasisPointMax
              <= R(u).volatilityReference + D(u) * BasisPointMax
        BY <2>3, <3>1, <3>2, <3>3
      <3> QED
        BY <2>5, <2>6, <2>7, <3>4 DEF Smaller
    <2> QED
      BY <2>1, <2>8, FeeForMonotone
  <1> QED
    BY <1>1, HookInvariance, PTL

(* A decay period without a swap ends the surge, whatever the price did.   *)
THEOREM Quiet == HookSpec => []QuietResets
  <1>1. HookIInv => QuietResets
    <2> SUFFICES ASSUME HookIInv, config # None, age >= config.decayPeriod
                 PROVE  FeeAt(tick) = config.baseFeePips
      BY DEF QuietResets
    <2> DEFINE b == BucketOf(tick, TickSpacing)
               r == UpdateReferences(vol, LbParams(config), b, age)
               m == LbParams(config).maxVolatilityAccumulator
               a == Accumulated(r, LbParams(config), b)
               f == config.baseFeePips
    <2>1. tick \in Ticks
      BY DEF HookIInv, HookTypeOK
    <2>2. /\ config \in ConfigType /\ Valid(config) /\ vol \in VolatilityState /\ age \in Nat
          /\ b \in Int /\ r \in VolatilityState /\ FeeAt(tick) = FeeFor(config, a)
      BY <2>1, Trading
    <2>3. /\ f \in Nat /\ f <= MaxFeePips /\ age >= config.filterPeriod
      BY <2>2 DEF ConfigType, Valid
    <2> HIDE DEF b, f
    <2>4. r.bucketReference = b /\ r.volatilityReference = 0
      BY <2>2, <2>3, RefreshedIs
    <2>5. a = Smaller(r.volatilityReference + Distance(b, r.bucketReference) * BasisPointMax, m)
      BY <2>2, AccumulatedIs
    <2>6. m \in 0 .. Uint24 - 1
      BY <2>2, CapFits
    <2> HIDE DEF r, m, a
    <2>7. Distance(b, r.bucketReference) = 0
      BY <2>2, <2>4 DEF Distance
    <2>8. a = 0
      BY <2>4, <2>5, <2>6, <2>7, MathAssumption DEF Smaller
    <2>9. VariableFee(LbParams(config), 0, TickSpacing) = 0
      BY <2>2, HookAssumption DEF VariableFee, LbParams, ConfigType
    <2>10. FeeFor(config, 0) = Smaller(f * PipsDivisor + 0, MaxFee) \div PipsDivisor
      BY <2>2, <2>9, FeeForIs DEF f
    <2>11. MaxFeePips \in Int /\ f * PipsDivisor <= MaxFeePips * PipsDivisor
             /\ MaxFeePips * PipsDivisor <= MaxFee
      BY <2>3, MathAssumption, DivNat, DivBelow, ProductMonotone DEF MaxFeePips
    <2>12. f * PipsDivisor \in Nat
      BY <2>3, ProductNat, MathAssumption
    <2>13. Smaller(f * PipsDivisor + 0, MaxFee) = f * PipsDivisor
      BY <2>11, <2>12, MathAssumption DEF Smaller
    <2>14. (f * PipsDivisor) \div PipsDivisor = f
      <3>1. (f * PipsDivisor) \div PipsDivisor \in Int /\ f <= (f * PipsDivisor) \div PipsDivisor
        BY <2>3, <2>12, DivAtLeast, DivInt, MathAssumption
      <3>2. ((f * PipsDivisor) \div PipsDivisor) * PipsDivisor <= f * PipsDivisor
        BY <2>12, DivBelow, MathAssumption
      <3> QED
        BY <2>3, <3>1, <3>2, MathAssumption
    <2> QED
      BY <2>2, <2>8, <2>10, <2>13, <2>14 DEF f
  <1> QED
    BY <1>1, HookInvariance, PTL
=============================================================================
