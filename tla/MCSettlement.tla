---------------------------- MODULE MCSettlement ----------------------------
(* An instance of Settlement for TLC: verbs with and without swaps, bins   *)
(* that pay principal, fees, both or neither, answers no honest pool would *)
(* give, and tokens that keep a part or call back.                         *)
EXTENDS Settlement, TLC

\* No action names an account.
AccountSymmetry == Permutations(Accounts)

Ops1 ==
  [verb : {"open", "increase", "decrease", "collect"}, exempt : BOOLEAN,
   size : {1, 2}, touched : {1, 2}, swapIn : BOOLEAN, zap : BOOLEAN, out : Currencies,
   taxed : {{}, {1, 2}}, minAmountOut : {0, 2}, minReceive : {<<0, 0>>, <<4, 0>>}, maxPay : {<<0, 0>>, <<3, 1>>}]

MCOps ==
  {o \in Ops1 :
     /\ o.touched <= o.size
     /\ o.exempt => o.touched = 2 /\ o.verb = "collect"
     /\ o.swapIn => o.verb \notin Exits
     /\ o.zap => o.verb \in Exits
     /\ o.minAmountOut > 0 => o.swapIn
     /\ o.out = 2 => o.swapIn \/ o.zap
     /\ o.minReceive[1] > 0 => o.verb \in Exits
     /\ o.taxed # {} => o.size = 1 /\ ~o.swapIn /\ o.verb \in {"open", "decrease"}}

MCBinOutcomes ==
  {[credit |-> <<7, 0>>, fees |-> <<7, 0>>],     \* a poke
   [credit |-> <<9, 7>>, fees |-> <<4, 7>>] ,    \* principal and fees
   [credit |-> <<-2, -1>>, fees |-> <<0, 0>>],   \* a deposit
   [credit |-> <<0, -1>>, fees |-> <<6, 6>>]}    \* a hook keeps the fees

MCSwapOutcomes ==
  {<<-8, 3>>,       \* an honest sale of currency 1
   <<2, -1>>,       \* a purchase of it
   <<-6, -2>>}      \* a hostile venue

\* Nothing, or what a taxed token may have kept.
MCGifts == {Zero, <<1, 1>>}
=============================================================================
