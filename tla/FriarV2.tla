------------------------------- MODULE FriarV2 -------------------------------
(***************************************************************************)
(* One pool of the fee hook contracts/src/FriarV2.sol, from the proposals  *)
(* made for it, through the race to create it, to the fees of its swaps.   *)
(* It is created by anybody who calls PoolManager.initialize, or through   *)
(* openNew and openNewConfigured of FriarPositionManager.sol, which create *)
(* it in the manager's own name for whoever calls them.                    *)
(*                                                                         *)
(* Every action is a transaction; one that would revert is not enabled.    *)
(* The manager also works with other hooks of the same interface: here     *)
(* one that takes a proposal and ignores it.  FriarTier.sol is the case in *)
(* which nobody makes a proposal and the default is the tier.              *)
(***************************************************************************)
EXTENDS FriarMath

CONSTANTS
  Users,
  Manager,             \* the position manager, as a caller of hook and v4
  Proposals,           \* configurations that callers may pass, invalid ones included
  DefaultConfig,
  None,                \* no proposal, no configuration, not created
  Hooks,               \* {"FriarV2"}, or with "ignoring"
  TickSpacing,         \* of the pool's key
  Ticks,               \* ticks the price may be at
  MaxDecayPeriod,      \* MAX_DECAY_PERIOD
  MaxVolatilityTicks   \* MAX_VOLATILITY_TICKS

ConfigType ==
  [baseFeePips : Nat, filterPeriod : Nat, decayPeriod : Nat, reductionFactor : Nat,
   variableFeeControl : Nat, maxVolatilityTicks : Nat]

(* Faulty: forgets to relate the periods.                                  *)
ValidUnrelated(c) ==
  /\ c.baseFeePips \in 1 .. MaxFeePips
  /\ c.filterPeriod > 0
  /\ c.decayPeriod <= MaxDecayPeriod
  /\ c.reductionFactor <= BasisPointMax
  /\ c.maxVolatilityTicks \in 1 .. MaxVolatilityTicks

(* _validate                                                               *)
Valid(c) ==
  /\ c.baseFeePips \in 1 .. MaxFeePips
  /\ c.filterPeriod > 0
  /\ c.decayPeriod <= MaxDecayPeriod
  /\ c.filterPeriod <= c.decayPeriod
  /\ c.reductionFactor <= BasisPointMax
  /\ c.maxVolatilityTicks \in 1 .. MaxVolatilityTicks

VolatilityState ==
  [volatilityAccumulator : 0 .. Uint24 - 1, volatilityReference : 0 .. Uint24 - 1,
   bucketReference : Int]

LaunchType ==
  [by : Users, how : {"initialize", "openNew", "openNewConfigured"},
   asked : Proposals \cup {None}]

ASSUME HookAssumption ==
  /\ Manager \notin Users
  /\ Proposals \subseteq ConfigType
  /\ DefaultConfig \in ConfigType
  /\ Valid(DefaultConfig)
  /\ None \notin ConfigType \cup VolatilityState \cup LaunchType \cup Ticks
  /\ Hooks \subseteq {"FriarV2", "ignoring"}
  /\ TickSpacing \in Nat \ {0}
  /\ Ticks \subseteq Int
  /\ MaxDecayPeriod \in Nat
  /\ MaxVolatilityTicks \in Nat

VARIABLES
  hook,      \* the hook in the pool's key
  pending,   \* _pending of the pool, by registrant
  config,    \* _config of the pool once it is locked, else None
  tick,      \* v4: the price
  vol,       \* _volatility of the pool without lastUpdate
  age,       \* seconds since lastUpdate, as far as a period can tell
  launch     \* history: how the pool was created, and by whom

pool == <<config, tick, vol, age, launch>>

hookVars == <<hook, pending, pool>>

Registrants == Users \cup {Manager}

Calm(t) ==
  [volatilityAccumulator |-> 0, volatilityReference |-> 0,
   bucketReference |-> BucketOf(t, TickSpacing)]

(* Types; accumulator and reference fit their 24 bits.                     *)
HookTypeOK ==
  /\ hook \in Hooks
  /\ pending \in [Registrants -> Proposals \cup {None}]
  /\ config \in Proposals \cup {DefaultConfig, None}
  /\ tick \in Ticks \cup {None}
  /\ vol \in VolatilityState \cup {None}
  /\ age \in 0 .. MaxDecayPeriod
  /\ launch \in LaunchType \cup {None}
  /\ config = None <=> launch = None
  /\ config = None <=> vol = None
  /\ config = None <=> tick = None

HookInit ==
  /\ hook \in Hooks
  /\ pending = [r \in Registrants |-> None]
  /\ config = None
  /\ tick = None
  /\ vol = None
  /\ age = 0
  /\ launch = None

-----------------------------------------------------------------------------
(* Before the pool exists, and its creation.                               *)

SetPoolConfig(by, c) ==
  /\ config = None
  /\ Valid(c)
  /\ pending' = [pending EXCEPT ![by] = c]
  /\ UNCHANGED <<hook, pool>>

(* Faulty: any registrant's proposal will do.                              *)
AdoptedOfAnybody(proposals, by) ==
  IF \A r \in Registrants : proposals[r] = None
    THEN DefaultConfig
    ELSE proposals[CHOOSE r \in Registrants : proposals[r] # None]

(* What the hook freezes if by initialises the pool: by's proposal or the  *)
(* default.                                                                *)
Adopted(proposals, by) ==
  IF hook = "FriarV2" /\ proposals[by] # None THEN proposals[by] ELSE DefaultConfig

(* Faulty: the accumulator is not set up.                                  *)
CreatedUnseeded(proposals, by, t) ==
  /\ config = None
  /\ config' = Adopted(proposals, by)
  /\ tick' = t
  /\ UNCHANGED <<vol, age>>

(* v4 initialises a pool once, then runs afterInitialize.                  *)
Created(proposals, by, t) ==
  /\ config = None
  /\ config' = Adopted(proposals, by)
  /\ tick' = t
  /\ vol' = Calm(t)
  /\ age' = 0

Initialize(by, t) ==
  /\ Created(pending, by, t)
  /\ launch' = [by |-> by, how |-> "initialize", asked |-> pending[by]]
  /\ UNCHANGED <<hook, pending>>

OpenNew(by, t) ==
  /\ Created(pending, Manager, t)
  /\ launch' = [by |-> by, how |-> "openNew", asked |-> None]
  /\ UNCHANGED <<hook, pending>>

(* setPoolConfig, initialize and _assertConfigApplied: all or nothing.     *)
OpenNewConfigured(by, c, t) ==
  /\ config = None
  /\ hook = "FriarV2" => Valid(c)
  /\ pending' = [pending EXCEPT ![Manager] = c]
  /\ Created(pending', Manager, t)
  /\ config' = c
  /\ launch' = [by |-> by, how |-> "openNewConfigured", asked |-> c]
  /\ UNCHANGED hook

-----------------------------------------------------------------------------
(* Fees.                                                                   *)

(* _lbParams: the saturation point in ticks becomes one in buckets.        *)
LbParams(c) ==
  [filterPeriod |-> c.filterPeriod,
   decayPeriod |-> c.decayPeriod,
   reductionFactor |-> c.reductionFactor,
   variableFeeControl |-> c.variableFeeControl,
   maxVolatilityAccumulator |->
     Smaller((c.maxVolatilityTicks * BasisPointMax) \div TickSpacing, Uint24 - 1)]

(* Faulty: the cap of the variable part only.                              *)
FeeForCappedApart(c, va) ==
  ((c.baseFeePips * PipsDivisor + Smaller(VariableFee(LbParams(c), va, TickSpacing), MaxFee))
     \div PipsDivisor) % Uint24

(* _feeFor                                                                 *)
FeeFor(c, va) ==
  (Smaller(c.baseFeePips * PipsDivisor + VariableFee(LbParams(c), va, TickSpacing), MaxFee)
     \div PipsDivisor) % Uint24

(* The state after a swap that begins now with the price at tick t.        *)
Accrued(t) == Update(vol, LbParams(config), BucketOf(t, TickSpacing), age)

(* previewFee and beforeSwap: what a swap pays with the price at tick t.   *)
FeeAt(t) == FeeFor(config, Accrued(t).volatilityAccumulator)

(* The fee is accrued before the swap, which then moves the price.         *)
Swap(t) ==
  /\ config # None
  /\ vol' = Accrued(tick)
  /\ age' = 0
  /\ tick' = t
  /\ UNCHANGED <<hook, pending, config, launch>>

(* A second passes.                                                        *)
Wait ==
  /\ config # None
  /\ age' = IF age < MaxDecayPeriod THEN age + 1 ELSE age
  /\ UNCHANGED <<hook, pending, config, tick, vol, launch>>

HookNext ==
  \/ \E by \in Users, c \in Proposals : SetPoolConfig(by, c)
  \/ \E by \in Users, t \in Ticks :
       \/ Initialize(by, t)
       \/ OpenNew(by, t)
       \/ \E c \in Proposals : OpenNewConfigured(by, c, t)
  \/ \E t \in Ticks : Swap(t)
  \/ Wait

(* Time passes.                                                            *)
HookSpec == HookInit /\ [][HookNext]_hookVars /\ WF_hookVars(Wait)

-----------------------------------------------------------------------------
(* Properties.                                                             *)

(* Whoever runs ahead of whom, the pool that a transaction created is the  *)
(* one its sender asked for: with openNewConfigured exactly the requested  *)
(* configuration, whatever the hook; with openNew the default, as nobody   *)
(* ever leaves a proposal in the name all users of the manager share; and  *)
(* with initialize the sender's own proposal, if the hook is FriarV2.      *)
LaunchedAsAsked ==
  launch # None =>
    \/ launch.how = "openNewConfigured" /\ config = launch.asked
    \/ launch.how = "openNew" /\ config = DefaultConfig
    \/ launch.how = "initialize" /\ launch.asked = None /\ config = DefaultConfig
    \/ launch.how = "initialize" /\ launch.asked # None /\
         (hook = "FriarV2" => config = launch.asked)

(* No swap ever pays less than the base fee or more than 10%, through any  *)
(* sequence of moves, bursts and pauses: no cast wraps, no cap is missed.  *)
FeeWithinBounds ==
  config # None => FeeAt(tick) \in config.baseFeePips .. MaxFeePips

(* The further the price stands from the reference, the higher the fee: no *)
(* move is so large that the surge collapses.                              *)
FurtherCostsMore ==
  config # None =>
    \A t, u \in Ticks :
      (t <= u /\ BucketOf(t, TickSpacing) >= vol.bucketReference) => FeeAt(t) <= FeeAt(u)

(* After a whole decay period without a swap the surge is over, whatever   *)
(* the price did.                                                          *)
QuietResets ==
  config # None /\ age >= config.decayPeriod => FeeAt(tick) = config.baseFeePips

(* "After a move, calm flow must return the fee to base": once the price   *)
(* stays in its bucket and swaps leave the filter period time to pass now  *)
(* and then, the surge ends for good, unless its reduction is switched off.*)
SurgeEnds ==
  \A b \in {BucketOf(t, TickSpacing) : t \in Ticks} :
    /\ <>[](config # None /\ BucketOf(tick, TickSpacing) = b)
    /\ []<>(config # None /\ age >= config.filterPeriod)
    => <>[](config # None /\ (config.reductionFactor = BasisPointMax
                              \/ FeeAt(tick) = config.baseFeePips))
=============================================================================
