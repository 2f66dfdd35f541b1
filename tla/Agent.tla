------------------------------- MODULE Agent -------------------------------
(***************************************************************************)
(* An agent that manages a position through the MCP server and the SDK     *)
(* (apps/mcp/src/worker.ts, packages/sdk/src/client.ts, reads.ts, tx.ts):  *)
(* every tool finds the position on whichever manager holds it and builds  *)
(* transactions for that manager, which the agent's wallet sends in order. *)
(* Meanwhile the owner may act through the web app, the price may move,    *)
(* and reads may fail.  Fees are left out.                                 *)
(***************************************************************************)
EXTENDS BinPlan, SequencesExt

CONSTANTS
  Managers,  \* MANAGERS, the oldest first
  Capped,    \* those whose exits take pay caps: exitAbi "v2"
  Positions, \* what the owner may hold at first: a manager and bins
  Percents,  \* bps that an agent asks for
  Purse,     \* what the owner has of each currency
  Patience   \* bound: failed reads, refusals, changes, and calls but closes

ManagerSet == {Managers[m] : m \in DOMAIN Managers}

Slots == {0, 1}

Bin == [lower : DOMAIN SqrtPrice, upper : DOMAIN SqrtPrice, liquidity : Nat]

Holding ==
  {h \in [manager : ManagerSet, bins : Seq(Bin)] :
     \A k \in DOMAIN h.bins : h.bins[k].lower < h.bins[k].upper}

VARIABLES
  held,        \* the position, or None
  poolTick,    \* the tick of its pool
  known,       \* the agent has its id
  call,        \* the tool call the server works on, or None
  todo,        \* transactions it handed out and the agent has not sent
  allowed,     \* what each manager may pull of each currency
  purse,       \* the owner's balances
  undisturbed, \* nobody else changed anything since the call
  failed,      \* one of its transactions reverted all the same
  patience

agentVars == <<held, poolTick, known, call, todo, allowed, purse, undisturbed, failed, patience>>

Call ==
  [tool : {"increase", "decrease", "close", "collect", "status"}, bps : Percents,
   left : Seq(ManagerSet) \ {<<>>}, found : Holding \cup {None}]

Tx ==
  [kind : {"approve", "increase", "decrease", "close", "collect"}, to : ManagerSet,
   capped : BOOLEAN, deltas : Seq(Nat), pay : [Slots -> Nat]]

ASSUME AgentAssumption ==
  /\ \A bps \in Percents : bps \in Nat \ {0} /\ bps <= 10000
  /\ Patience \in Nat /\ Capped \subseteq ManagerSet
  /\ Managers \in Seq(ManagerSet) /\ Managers # <<>> /\ Purse \in [Slots -> Nat]
  /\ Positions \subseteq Holding /\ None \notin Holding \cup Call

AgentTypeOK ==
  /\ held \in Holding \cup {None}
  /\ poolTick \in DOMAIN SqrtPrice
  /\ {known, undisturbed, failed} \subseteq BOOLEAN
  /\ call \in Call \cup {None}
  /\ todo \in Seq(Tx)
  /\ allowed \in [ManagerSet -> [Slots -> Nat]]
  /\ purse \in [Slots -> Nat]
  /\ patience \in Nat

(* With no position there is no agent.                                     *)
AgentInit ==
  /\ held \in Positions \cup {None}
  /\ poolTick = 0
  /\ known = FALSE
  /\ call = None
  /\ todo = <<>>
  /\ allowed = [m \in ManagerSet |-> [c \in Slots |-> 0]]
  /\ purse = Purse
  /\ undisturbed = TRUE
  /\ failed = FALSE
  /\ patience = IF held = None THEN 0 ELSE Patience

Impatient == patience > 0 /\ patience' = patience - 1

-----------------------------------------------------------------------------
(* The server.                                                             *)

(* The union over the managers: one that does not answer holds nothing.    *)
Listed(reached) == held # None /\ held.manager \in reached

(* The agent learns the id from the chain, or from the API, which may be   *)
(* down or behind the chain.                                               *)
Find ==
  /\ ~known /\ held # None
  /\ \/ known' = Listed(ManagerSet) /\ UNCHANGED patience
     \/ \E m \in ManagerSet : known' = Listed(ManagerSet \ {m}) /\ Impatient
     \/ known' = FALSE /\ Impatient
  /\ UNCHANGED <<held, poolTick, call, todo, allowed, purse, undisturbed, failed>>

(* Bound: one call at a time, and none while transactions wait.            *)
CallTool(tool, bps) ==
  /\ known /\ call = None /\ todo = <<>>
  /\ IF tool = "close" THEN UNCHANGED patience ELSE Impatient
  /\ call' = [tool |-> tool, bps |-> bps, left |-> Reverse(Managers), found |-> None]
  /\ undisturbed' = TRUE
  /\ UNCHANGED <<held, poolTick, known, todo, allowed, purse, failed>>

(* The newest manager is asked first.  One that reverts, as it does for an *)
(* id it does not hold, and one that cannot be read both send the search   *)
(* to the next; after the last the agent gets the error.                   *)
Probe ==
  /\ call # None /\ call.found = None
  /\ LET there == held # None /\ held.manager = Head(call.left)
     IN \/ /\ there
           /\ call' = [call EXCEPT !.found = held]
           /\ UNCHANGED patience
        \/ /\ call' = IF Len(call.left) = 1 THEN None ELSE [call EXCEPT !.left = Tail(@)]
           /\ IF there THEN Impatient ELSE UNCHANGED patience
  /\ UNCHANGED <<held, poolTick, known, todo, allowed, purse, undisturbed, failed>>

ProportionalDeltas(bins, bps) == [k \in DOMAIN bins |-> (bins[k].liquidity * bps) \div 10000]

(* What liquidity deltas are worth, by currency.                           *)
Worth(bins, deltas, tick) ==
  LET v == ValuePosition([k \in DOMAIN bins |-> [bins[k] EXCEPT !.liquidity = deltas[k]]],
                         SqrtPrice[tick])
  IN [c \in Slots |-> IF c = 0 THEN v.amount0 ELSE v.amount1]

(* And what v4 charges for adding them.                                    *)
Charge(bins, deltas, tick) ==
  LET v == CostPosition([k \in DOMAIN bins |-> [bins[k] EXCEPT !.liquidity = deltas[k]]],
                        SqrtPrice[tick])
  IN [c \in Slots |-> IF c = 0 THEN v.amount0 ELSE v.amount1]

Nothing == [c \in Slots |-> 0]

(* Faulty: granted to the manager that takes the opens.                    *)
ApprovalToCurrent(m, c, pay) ==
  IF pay[c] > 0 /\ allowed[m][c] < pay[c]
  THEN <<[kind |-> "approve", to |-> Last(Managers), capped |-> FALSE, deltas |-> <<>>,
          pay |-> [Nothing EXCEPT ![c] = pay[c]]]>>
  ELSE <<>>

(* Exactly what is short, to the manager that will pull it.                *)
Approval(m, c, pay) ==
  IF pay[c] > 0 /\ allowed[m][c] < pay[c]
  THEN <<[kind |-> "approve", to |-> m, capped |-> FALSE, deltas |-> <<>>,
          pay |-> [Nothing EXCEPT ![c] = pay[c]]]>>
  ELSE <<>>

IncreaseTxs(found, bps) ==
  LET deltas == ProportionalDeltas(found.bins, bps)
      needs == Worth(found.bins, deltas, poolTick)
      pay == [c \in Slots |-> Headroom(needs[c])]
  IN Approval(found.manager, 0, pay) \o Approval(found.manager, 1, pay)
       \o <<[kind |-> "increase", to |-> found.manager, capped |-> TRUE, deltas |-> deltas, pay |-> pay]>>

(* Faulty: as if every position were on the manager that takes the opens.  *)
ExitOnCurrent(kind, found, deltas) ==
  [kind |-> kind, to |-> Last(Managers), capped |-> Last(Managers) \in Capped, deltas |-> deltas,
   pay |-> Nothing]

(* An exit goes to the manager that holds the position, in its own ABI,    *)
(* and may not charge anything.                                            *)
Exit(kind, found, deltas) ==
  [kind |-> kind, to |-> found.manager, capped |-> found.manager \in Capped, deltas |-> deltas,
   pay |-> Nothing]

Built ==
  LET found == call.found
  IN CASE call.tool = "increase" -> IncreaseTxs(found, call.bps)
       [] call.tool = "decrease" ->
            <<Exit("decrease", found, ProportionalDeltas(found.bins, call.bps))>>
       [] call.tool \in {"close", "collect"} -> <<Exit(call.tool, found, <<>>)>>
       [] call.tool = "status" -> <<>>

(* The pool and the allowances are read for an increase, the pool and the  *)
(* bins for a status; those reads may fail.                                *)
Build ==
  /\ call # None /\ call.found # None
  /\ \/ todo' = Built /\ UNCHANGED patience
     \/ call.tool \in {"increase", "status"} /\ Impatient /\ UNCHANGED todo
  /\ call' = None
  /\ UNCHANGED <<held, poolTick, known, allowed, purse, undisturbed, failed>>

-----------------------------------------------------------------------------
(* The chain.                                                              *)

Grown(position, deltas) ==
  [position EXCEPT !.bins =
     [k \in DOMAIN position.bins |-> [position.bins[k] EXCEPT !.liquidity = @ + deltas[k]]]]

Without(position, deltas) ==
  LET bins == [k \in DOMAIN position.bins |-> [position.bins[k] EXCEPT !.liquidity = @ - deltas[k]]]
  IN IF \A k \in DOMAIN bins : bins[k].liquidity = 0 THEN None ELSE [position EXCEPT !.bins = bins]

All(position) == [k \in DOMAIN position.bins |-> position.bins[k].liquidity]

(* A manager knows only its own positions, and only its own ABI.           *)
Accepted(tx) ==
  \/ tx.kind = "approve"
  \/ /\ held # None /\ held.manager = tx.to
     /\ tx.kind # "increase" => tx.capped = (tx.to \in Capped)
     /\ tx.kind = "decrease" => \A k \in DOMAIN held.bins : tx.deltas[k] <= held.bins[k].liquidity
     /\ tx.kind = "increase" =>
          \A c \in Slots :
            Charge(held.bins, tx.deltas, poolTick)[c] <= Min({tx.pay[c], allowed[tx.to][c], purse[c]})

Carried(tx) ==
  CASE tx.kind = "approve" ->
         /\ allowed' = [allowed EXCEPT ![tx.to] =
                          [c \in Slots |-> IF tx.pay[c] > 0 THEN tx.pay[c] ELSE @[c]]]
         /\ UNCHANGED <<held, purse>>
    [] tx.kind = "increase" ->
         LET pulled == Charge(held.bins, tx.deltas, poolTick)
         IN /\ held' = Grown(held, tx.deltas)
            /\ allowed' = [allowed EXCEPT ![tx.to] = [c \in Slots |-> @[c] - pulled[c]]]
            /\ purse' = [c \in Slots |-> purse[c] - pulled[c]]
    [] tx.kind \in {"decrease", "close"} ->
         LET deltas == IF tx.kind = "close" THEN All(held) ELSE tx.deltas
             paid == Worth(held.bins, deltas, poolTick)
         IN /\ held' = Without(held, deltas)
            /\ purse' = [c \in Slots |-> purse[c] + paid[c]]
            /\ UNCHANGED allowed
    [] tx.kind = "collect" -> UNCHANGED <<held, allowed, purse>>

(* An increase large enough that one percent covers what v4 rounds up, at  *)
(* most a unit for each bin.                                               *)
Sizable(tx) ==
  tx.kind = "increase" =>
    \A c \in Slots : \/ Worth(held.bins, tx.deltas, poolTick)[c] >= 100 * Len(held.bins)
                     \/ Charge(held.bins, tx.deltas, poolTick)[c] = 0

(* The next transaction is refused by the wallet, or mined; the agent      *)
(* gives up on the others if it is refused or reverts.                     *)
Send ==
  /\ todo # <<>>
  /\ \/ /\ Impatient
        /\ todo' = <<>>
        /\ UNCHANGED <<held, allowed, purse, failed>>
     \/ /\ Accepted(Head(todo))
        /\ Carried(Head(todo))
        /\ todo' = Tail(todo)
        /\ UNCHANGED <<failed, patience>>
     \/ /\ ~Accepted(Head(todo))
        /\ todo' = <<>>
        /\ failed' = \/ failed
                     \/ /\ undisturbed /\ Sizable(Head(todo))
                        /\ \A c \in Slots : Head(todo).pay[c] <= purse[c]
        /\ UNCHANGED <<held, allowed, purse, patience>>
  /\ UNCHANGED <<poolTick, known, call, undisturbed>>

(* The owner grows, halves or closes the position in the web app, or       *)
(* others move the price by a tick.                                        *)
Elsewhere ==
  /\ held # None
  /\ Impatient
  /\ undisturbed' = FALSE
  /\ \/ /\ held' \in {Grown(held, All(held)), Without(held, ProportionalDeltas(held.bins, 5000)), None}
        /\ UNCHANGED poolTick
     \/ /\ poolTick' \in {poolTick - 1, poolTick + 1} \cap DOMAIN SqrtPrice
        /\ UNCHANGED held
  /\ UNCHANGED <<known, call, todo, allowed, purse, failed>>

-----------------------------------------------------------------------------

AgentNext ==
  \/ Find
  \/ \E bps \in Percents :
       \/ CallTool("increase", bps) \/ CallTool("decrease", bps) \/ CallTool("close", bps)
       \/ CallTool("collect", bps) \/ CallTool("status", bps)
  \/ Probe
  \/ Build
  \/ Send
  \/ Elsewhere

(* The agent keeps at it, the server answers, and the chain mines.         *)
AgentFairness ==
  /\ WF_agentVars(Find) /\ \A bps \in Percents : WF_agentVars(CallTool("close", bps))
  /\ WF_agentVars(Probe) /\ WF_agentVars(Build) /\ WF_agentVars(Send)

(* What a tool builds goes through if nobody else touches the position or  *)
(* its pool meanwhile, the wallet holds what it may cost, and an increase  *)
(* takes nothing of a currency or a hundred units of it for each bin:      *)
(* whichever manager holds the position, and whatever was sent before it   *)
(* (fetchPositionRecord and the builders of the SDK).  The cap of an       *)
(* increase is one percent above the amounts rounded down                  *)
(* (client.ts:130-132), while v4 rounds each bin up, so that an increase   *)
(* by dust reverts.                                                        *)
BuiltGoesThrough == ~failed

(* An agent that keeps asking to close gets the owner out of the position, *)
(* on an old manager as on the current one, whatever the API does: "the    *)
(* on-chain record is sufficient to get your money out" (reads.ts).        *)
GetsOut == <>(held = None)

=============================================================================
