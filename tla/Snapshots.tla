------------------------------ MODULE Snapshots ------------------------------
(***************************************************************************)
(* A pass of apps/indexer/src/snapshots.ts: it marks every position that   *)
(* D1 calls open and adds the marks up to the net asset value of owners.   *)
(* Each await is a step of its own, between which the chain moves on and   *)
(* the indexer writes to D1.  A pass may die at any of them.               *)
(*                                                                         *)
(* A unit of liquidity is worth one quote unit, a unit of fee growth is    *)
(* one quote unit of fees per unit of liquidity, and one currency stands   *)
(* for both.  Loose tokens, which are read last and added on top, are left *)
(* out, and a position has its pool to itself.                             *)
(***************************************************************************)
EXTENDS Integers, FiniteSets, Functions

CONSTANTS
  Owners,
  Positions,
  OwnerOf,          \* [Positions -> Owners]
  Bins,             \* of every position
  MaxLiquidity,     \* of a bin
  Wrap,             \* 2^256: fee growth and its differences are remainders
  KeepSimple,       \* percent of the fees that an owner keeps, of one bin
  KeepShaped,       \* and of several
  None,
  MaxEvents         \* bound on the trades and verbs of a behaviour

ASSUME ConstantsAssumption ==
  /\ OwnerOf \in [Positions -> Owners]
  /\ IsFiniteSet(Positions) /\ IsFiniteSet(Bins) /\ Bins # {}
  /\ MaxLiquidity \in Nat
  /\ Wrap \in Nat \ {0}
  /\ KeepShaped \in 0 .. 100 /\ KeepSimple \in KeepShaped .. 100
  /\ None \notin Nat
  /\ MaxEvents \in Nat

(* Growth comes full circle at no position that nobody touches.            *)
ASSUME GrowthAssumption == MaxEvents < Wrap

VARIABLES
  liquidity,   \* v4: of each bin of each position
  inside,      \* v4: fee growth inside the bin's range
  last,        \* v4: the growth at the bin's last touch
  ended,       \* positions that were closed
  wallet,      \* of each owner
  events,      \* how many trades and verbs there were
  known,       \* D1: position_bins.liquidity
  open,        \* D1: positions with closed_ts null
  snapshots,   \* D1: the snapshots of this pass
  navs,        \* D1: the nav_snapshots of this pass
  stage,       \* of the pass: "idle" when none runs
  todo,        \* positions still to mark
  unreadable,  \* positions whose pool's slot0 could not be read
  unpriced,    \* positions whose pool stands at a price limit
  current,     \* the position being marked
  bins,        \* its bins that D1 says hold liquidity
  insides,     \* the answer of the first multicall
  infos,       \* the answer of the second
  stmts,       \* the snapshots to write
  sums,        \* navPositions
  skip,        \* navSkipOwners
  legs,        \* the wallets read
  restless,    \* history: owners who acted since the pass began, or of whom
               \* D1 did not know everything when it did
  before,      \* history: what owners were worth then
  accrued,     \* history: fees that ever accrued to a position
  owed,        \* history: unclaimed fees when insides was read
  touched      \* history: current was touched between its two reads

chain == <<liquidity, inside, last, ended, wallet, events, accrued>>

d1 == <<known, open>>

marking == <<current, bins, insides, infos, owed, touched>>

pass == <<todo, unreadable, unpriced, stmts, sums, skip, legs>>

vars == <<chain, d1, snapshots, navs, stage, marking, pass, restless, before>>

-----------------------------------------------------------------------------
(* Marks.                                                                  *)

Amount(l, S) == SumFunctionOnSet(l, S)

(* Faulty: differences below zero are not wrapped.                         *)
UnclaimedSigned(l, now, then, S) == SumFunction([b \in S |-> (now[b] - then[b]) * l[b]])

(* unclaimedFees, summed over the bins as markPosition does                *)
Unclaimed(l, now, then, S) ==
  SumFunction([b \in S |-> ((now[b] - then[b]) % Wrap) * l[b]])

Kept(fees, percent) == (fees * percent) \div 100

KeepFor(count) == IF count = 1 THEN KeepSimple ELSE KeepShaped

Owed(p, S) == Unclaimed(liquidity[p], inside[p], last[p], S)

Value(p, fees, percent) == Amount(liquidity[p], Bins) + Kept(fees, percent)

PositionsOf(o) == {p \in Positions : OwnerOf[p] = o}

(* What an owner has, if of the fees that percent is kept.                 *)
Worth(o, percent) ==
  wallet[o] + SumFunctionOnSet([p \in Positions |-> Value(p, Owed(p, Bins), percent)],
                               PositionsOf(o))

(* D1 has a row for every bin with liquidity.                              *)
Known(o) ==
  \A p \in Positions, b \in Bins :
    OwnerOf[p] = o /\ liquidity[p][b] > 0 => p \in open /\ known[p][b] > 0

-----------------------------------------------------------------------------
(* The chain, and the indexer.                                             *)

Growth == 0 .. Wrap - 1

RowType ==
  [position : Positions, amount : Nat, fees : Nat, owed : Nat, accrued : Nat, touched : BOOLEAN]

NavType == [owner : Owners, liquid : Nat, positions : Nat]

TypeOK ==
  /\ liquidity \in [Positions -> [Bins -> 0 .. MaxLiquidity]]
  /\ inside \in [Positions -> [Bins -> Growth]]
  /\ last \in [Positions -> [Bins -> Growth]]
  /\ ended \subseteq Positions
  /\ wallet \in [Owners -> Nat]
  /\ events \in 0 .. MaxEvents
  /\ known \in [Positions -> [Bins -> 0 .. MaxLiquidity]]
  /\ open \subseteq Positions
  /\ snapshots \subseteq RowType
  /\ navs \subseteq NavType
  /\ stage \in {"idle", "pools", "next", "reads", "legs", "nav"}
  /\ todo \subseteq Positions
  /\ unreadable \subseteq Positions
  /\ unpriced \subseteq Positions
  /\ current \in Positions \cup {None}
  /\ bins \subseteq Bins
  /\ insides \in [Bins -> Growth] \cup {None}
  /\ infos \in [liquidity : [Bins -> 0 .. MaxLiquidity], last : [Bins -> Growth]] \cup {None}
  /\ stmts \subseteq RowType
  /\ sums \in [Owners -> Nat \cup {None}]
  /\ skip \subseteq Owners
  /\ legs \in [Owners -> Nat \cup {None}]
  /\ restless \subseteq Owners
  /\ before \in [Owners -> Nat]
  /\ accrued \in [Positions -> Nat]
  /\ owed \in Nat
  /\ touched \in BOOLEAN

(* Some positions are open, with growth about to wrap, and D1 knows them.  *)
Init ==
  /\ open \in SUBSET Positions
  /\ liquidity = [p \in Positions |-> [b \in Bins |-> IF p \in open THEN MaxLiquidity ELSE 0]]
  /\ inside = [p \in Positions |-> [b \in Bins |-> Wrap - 1]]
  /\ last = inside
  /\ ended = {}
  /\ wallet = [o \in Owners |-> MaxLiquidity]
  /\ events = 0
  /\ known = liquidity
  /\ snapshots = {}
  /\ navs = {}
  /\ stage = "idle"
  /\ todo = {}
  /\ unreadable = {}
  /\ unpriced = {}
  /\ current = None
  /\ bins = {}
  /\ insides = None
  /\ infos = None
  /\ owed = 0
  /\ touched = FALSE
  /\ stmts = {}
  /\ sums = [o \in Owners |-> None]
  /\ skip = {}
  /\ legs = [o \in Owners |-> None]
  /\ restless = {}
  /\ before = [o \in Owners |-> 0]
  /\ accrued = [p \in Positions |-> 0]

(* A trade in the range of a bin.                                          *)
Trade(p, b) ==
  /\ events < MaxEvents
  /\ events' = events + 1
  /\ inside' = [inside EXCEPT ![p][b] = (@ + 1) % Wrap]
  /\ accrued' = [accrued EXCEPT ![p] = @ + liquidity[p][b]]
  /\ UNCHANGED <<liquidity, last, ended, wallet, d1, snapshots, navs, stage, marking, pass,
                 restless, before>>

(* A verb of the position manager brings p to new: it opens, closes,       *)
(* increases, decreases or only collects, and pays fees for every bin with *)
(* liquidity.                                                              *)
Verb(p, new) ==
  LET o == OwnerOf[p]
      balance == wallet[o] + Amount(liquidity[p], Bins)
                 + Kept(Owed(p, Bins), KeepFor(Cardinality(Bins))) - Amount(new, Bins)
  IN  /\ events < MaxEvents
      /\ p \notin ended
      /\ \E b \in Bins : liquidity[p][b] + new[b] > 0
      /\ balance >= 0
      /\ events' = events + 1
      /\ liquidity' = [liquidity EXCEPT ![p] = new]
      /\ last' = [last EXCEPT ![p] =
                    [b \in Bins |-> IF liquidity[p][b] + new[b] > 0 THEN inside[p][b] ELSE @[b]]]
      /\ ended' = IF \A b \in Bins : new[b] = 0 THEN ended \cup {p} ELSE ended
      /\ wallet' = [wallet EXCEPT ![o] = balance]
      /\ restless' = restless \cup {o}
      /\ touched' = (touched \/ (p = current /\ (insides # None \/ infos # None)))
      /\ UNCHANGED <<inside, accrued, d1, snapshots, navs, stage, current, bins, insides, infos,
                     owed, pass, before>>

(* The indexer brings D1's rows of a position up to date.                  *)
Index(p) ==
  /\ p \in ended \/ Amount(liquidity[p], Bins) > 0
  /\ known' = [known EXCEPT ![p] = liquidity[p]]
  /\ open' = IF p \in ended THEN open \ {p} ELSE open \cup {p}
  /\ UNCHANGED <<chain, snapshots, navs, stage, marking, pass, restless, before>>

-----------------------------------------------------------------------------
(* The pass.                                                               *)

PassEnds ==
  /\ stage' = "idle"
  /\ todo' = {}
  /\ unreadable' = {}
  /\ unpriced' = {}
  /\ stmts' = {}
  /\ sums' = [o \in Owners |-> None]
  /\ skip' = {}
  /\ legs' = [o \in Owners |-> None]

(* The list of open positions is read.                                     *)
Begin ==
  /\ stage = "idle"
  /\ open # {}
  /\ stage' = "pools"
  /\ todo' = open
  /\ snapshots' = {}
  /\ navs' = {}
  /\ restless' = {o \in Owners : ~Known(o)}
  /\ before' = [o \in Owners |-> Worth(o, KeepShaped)]
  /\ UNCHANGED <<chain, d1, marking, unreadable, unpriced, stmts, sums, skip, legs>>

(* The prices of all pools: each may be unreadable or at its limit.        *)
ReadPools(bad, pinned) ==
  /\ stage = "pools"
  /\ stage' = "next"
  /\ unreadable' = bad
  /\ unpriced' = pinned
  /\ UNCHANGED <<chain, d1, snapshots, navs, marking, todo, stmts, sums, skip, legs,
                 restless, before>>

SkipUnreadable(p) ==
  /\ stage = "next"
  /\ p \in todo \cap unreadable
  /\ todo' = todo \ {p}
  /\ skip' = skip \cup {OwnerOf[p]}
  /\ UNCHANGED <<chain, d1, snapshots, navs, stage, marking, unreadable, unpriced, stmts, sums,
                 legs, restless, before>>

(* The bins with liquidity, as D1 has them.  A position without any is     *)
(* passed over.                                                            *)
ReadBins(p) ==
  LET S == {b \in Bins : known[p][b] > 0}
  IN  /\ stage = "next"
      /\ p \in todo \ unreadable
      /\ todo' = todo \ {p}
      /\ \/ S = {} /\ UNCHANGED <<stage, marking>>
         \/ /\ S # {}
            /\ stage' = "reads"
            /\ current' = p
            /\ bins' = S
            /\ UNCHANGED <<insides, infos, owed, touched>>
      /\ UNCHANGED <<chain, d1, snapshots, navs, unreadable, unpriced, stmts, sums, skip, legs,
                     restless, before>>

(* The two multicalls are sent together; either is answered first.         *)
ReadInside ==
  /\ stage = "reads"
  /\ insides = None
  /\ insides' = inside[current]
  /\ owed' = Owed(current, bins)
  /\ UNCHANGED <<chain, d1, snapshots, navs, stage, current, bins, infos, touched, pass,
                 restless, before>>

MarkingEnds ==
  /\ current' = None
  /\ bins' = {}
  /\ insides' = None
  /\ infos' = None
  /\ owed' = 0
  /\ touched' = FALSE

(* Faulty: the liquidity of D1's rows.                                     *)
ReadInfosOfRows ==
  /\ stage = "reads"
  /\ infos = None
  /\ infos' = [liquidity |-> known[current], last |-> last[current]]
  /\ UNCHANGED <<chain, d1, snapshots, navs, stage, current, bins, insides, owed, touched, pass,
                 restless, before>>

ReadInfos ==
  /\ stage = "reads"
  /\ infos = None
  /\ infos' = [liquidity |-> liquidity[current], last |-> last[current]]
  /\ UNCHANGED <<chain, d1, snapshots, navs, stage, current, bins, insides, owed, touched, pass,
                 restless, before>>

(* Faulty: only this position's snapshot is given up.                      *)
SkipMarkQuietly ==
  /\ stage = "reads"
  /\ stage' = "next"
  /\ MarkingEnds
  /\ UNCHANGED <<chain, d1, snapshots, navs, pass, restless, before>>

(* A multicall fails for good, or every bin turns out to be empty: the     *)
(* position is not marked, and its owner's value not recorded.             *)
SkipMark ==
  /\ stage = "reads"
  /\ stage' = "next"
  /\ skip' = skip \cup {OwnerOf[current]}
  /\ MarkingEnds
  /\ UNCHANGED <<chain, d1, snapshots, navs, todo, unreadable, unpriced, stmts, sums, legs,
                 restless, before>>

Mark ==
  LET fees == Unclaimed(infos.liquidity, insides, infos.last, bins)
      amount == Amount(infos.liquidity, bins)
      o == OwnerOf[current]
  IN  /\ stage = "reads"
      /\ insides # None
      /\ infos # None
      /\ amount > 0
      /\ stage' = "next"
      /\ stmts' = stmts \cup {[position |-> current, amount |-> amount, fees |-> fees,
                                owed |-> owed, accrued |-> accrued[current],
                                touched |-> touched]}
      /\ \/ /\ current \in unpriced
            /\ skip' = skip \cup {o}
            /\ UNCHANGED sums
         \/ /\ current \notin unpriced
            /\ sums' = [sums EXCEPT ![o] = (IF @ = None THEN 0 ELSE @) + amount
                                            + Kept(fees, KeepFor(Cardinality(bins)))]
            /\ UNCHANGED skip
      /\ MarkingEnds
      /\ UNCHANGED <<chain, d1, snapshots, navs, todo, unreadable, unpriced, legs,
                     restless, before>>

(* The loop is over: the snapshots are written at once.                    *)
Batch ==
  /\ stage = "next"
  /\ todo = {}
  /\ snapshots' = stmts
  /\ \/ /\ \E o \in Owners \ skip : sums[o] # None
        /\ stage' = "legs"
        /\ UNCHANGED pass
     \/ /\ \A o \in Owners \ skip : sums[o] = None
        /\ PassEnds
  /\ UNCHANGED <<chain, d1, navs, marking, restless, before>>

(* The wallets of the owners that are left, in one multicall of which      *)
(* single answers may be missing.                                          *)
ReadLegs(missing) ==
  /\ stage = "legs"
  /\ stage' = "nav"
  /\ legs' = [o \in Owners |-> IF sums[o] # None /\ o \notin skip \cup missing
                                 THEN wallet[o] ELSE None]
  /\ UNCHANGED <<chain, d1, snapshots, navs, marking, todo, unreadable, unpriced, stmts, sums, skip,
                 restless, before>>

WriteNavs ==
  /\ stage = "nav"
  /\ navs' = {[owner |-> o, liquid |-> legs[o], positions |-> sums[o]] :
                o \in {x \in Owners : legs[x] # None}}
  /\ PassEnds
  /\ UNCHANGED <<chain, d1, snapshots, marking, restless, before>>

(* An error that is not caught, or that is after the snapshots.            *)
Die ==
  /\ stage # "idle"
  /\ PassEnds
  /\ MarkingEnds
  /\ UNCHANGED <<chain, d1, snapshots, navs, restless, before>>

Chain ==
  \/ \E p \in Positions, b \in Bins : Trade(p, b)
  \/ \E p \in Positions, new \in [Bins -> 0 .. MaxLiquidity] : Verb(p, new)

Next ==
  \/ Chain
  \/ \E p \in Positions : Index(p) \/ SkipUnreadable(p) \/ ReadBins(p)
  \/ Begin
  \/ \E bad \in SUBSET todo : \E pinned \in SUBSET (todo \ bad) : ReadPools(bad, pinned)
  \/ ReadInside \/ ReadInfos \/ SkipMark \/ Mark
  \/ Batch
  \/ \E missing \in SUBSET Owners : ReadLegs(missing)
  \/ WriteNavs
  \/ Die

Spec == Init /\ [][Next]_vars

-----------------------------------------------------------------------------
(* Properties.                                                             *)

(* The fees of a snapshot are those that its position was owed when the    *)
(* growth was read, through the growth's wraparound and however late D1 is *)
(* with the position's bins, unless a verb came between the two reads.     *)
FeesAsOwed == \A r \in snapshots : ~r.touched => r.fees = r.owed

(* "CHAIN liquidity, not b.liquidity from D1 ... so the bin marks to       *)
(* zero": no snapshot shows more fees than ever accrued to its position.   *)
FeesNeverWrap == \A r \in snapshots : r.fees <= r.accrued

(* "All-or-nothing per OWNER": the value recorded for an owner who did     *)
(* nothing meanwhile, and of whom D1 knew every bin, leaves nothing out    *)
(* and counts nothing twice, whichever reads failed: it lies between what  *)
(* the owner was worth when the pass began and what the owner is worth     *)
(* now, up to the fee rate that is guessed from the bins in use.           *)
NavComplete ==
  \A r \in navs :
    r.owner \notin restless =>
      r.liquid + r.positions \in before[r.owner] .. Worth(r.owner, KeepSimple)
=============================================================================
