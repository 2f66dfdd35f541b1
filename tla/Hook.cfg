\* Two accounts race to create a pool, which then swaps and rests.
SPECIFICATION HookSpec
CONSTANTS
  BasisPointMax = 10
  MaxFee = 200
  PipsDivisor = 10
  Uint24 = 32
  Users = {a1, a2}
  Manager = Manager
  Proposals <- MCProposals
  DefaultConfig <- MCDefault
  None = None
  Hooks = {"FriarV2", "ignoring"}
  TickSpacing = 2
  Ticks <- MCTicks
  MaxDecayPeriod = 3
  MaxVolatilityTicks = 10
INVARIANTS
  LaunchedAsAsked
  FurtherCostsMore
PROPERTIES
  SurgeEnds
