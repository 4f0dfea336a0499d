--------------------------- MODULE RewardedMarket ---------------------------
(***************************************************************************)
(* MoneyMarket with the COMP distribution running: every transaction of a  *)
(* market takes its flywheel writes with it, the Reservoir drips COMP to   *)
(* the Comptroller, and claims pay it out.                                 *)
(***************************************************************************)
EXTENDS MoneyMarket, CompFlywheel

CONSTANTS
    ReservoirAddress,       \* the Reservoir as a holder of COMP
    dripRate,               \* COMP per block since block 0
    initialReserve,         \* COMP in the Reservoir at first
    compUnlockTimestamp

CONSTANTS                   \* what callers try
    Claimants, ClaimSides, CompSpeeds, CompWeights, Grants, ContributorSpeeds,
    MaxGranted              \* no grant is tried that takes compClaimed beyond it

ASSUME RewardedMarketAssumption ==
    /\ RewardMarkets = Markets
    /\ ReservoirAddress \notin Holders
    /\ dripRate \in Nat /\ initialReserve \in Nat /\ compUnlockTimestamp \in Nat
    /\ Claimants \subseteq Holders /\ ClaimSides \subseteq SUBSET Sides
    /\ CompSpeeds \subseteq Nat /\ CompWeights \subseteq Nat
    /\ Grants \subseteq Nat /\ MaxGranted \in Nat /\ ContributorSpeeds \subseteq Nat

VARIABLES
    flywheel,       \* the Comptroller's COMP storage
    compBalance,    \* balances of the COMP token
    dripped,        \* the Reservoir's count of what it dripped
    compClaimed     \* the Comptroller's count of what it paid

compVars == <<compBalance, dripped, compClaimed>>
rewardedVars == <<vars, flywheel, compVars>>

CompHolders == Holders \cup {ReservoirAddress}

RewardsTypeOK ==
    /\ flywheel \in FlywheelStorage
    /\ compBalance \in [CompHolders -> Nat]
    /\ dripped \in Nat
    /\ compClaimed \in Nat

CompInit ==
    /\ compBalance = [h \in CompHolders |-> IF h = ReservoirAddress THEN initialReserve ELSE 0]
    /\ dripped = 0
    /\ compClaimed = 0

RewardedInit == Init /\ flywheel = initialFlywheel /\ CompInit

\* Where deploy/ leaves the flywheel: every market initialized and weighted,
\* and only the Comptroller, for its seed, with an index of its own.
deployedFlywheel(weights) ==
    [initialFlywheel EXCEPT
        !.compState = [side \in Sides |->
            [m \in Markets |-> [index |-> compInitialIndex, block |-> 0]]],
        !.accountIndex["supply"] = [m \in Markets |->
            [h \in Holders |-> IF h = ComptrollerAddress THEN compInitialIndex ELSE 0]],
        !.compWeight = weights]

DeployedRewardedInit(collateralFactors, reserveFactors, etherSeed, weights) ==
    /\ DeployedInit(collateralFactors, reserveFactors, etherSeed)
    /\ flywheel = deployedFlywheel(weights)
    /\ CompInit
-----------------------------------------------------------------------------
(* The hooks' writes *)

Turn(newFlywheel) == flywheel' = newFlywheel /\ UNCHANGED compVars

spun(f, side, m, account) == spin(f, side, m, accrued(m), block, account)

\* Faulty variant: the receiver's index does not catch up.
spunForSource(f, m, src, dst) == spin(f, "supply", m, ctoken[m], block, src)

\* transferAllowed and seizeAllowed: one update, then the two accounts.  A
\* transfer does not accrue interest; cTokens are the same with or without.
spunForBoth(f, m, src, dst) ==
    distributeComp(spin(f, "supply", m, ctoken[m], block, src), "supply", m, ctoken[m], dst)

SupplySteps(m, a) ==
    /\ \/ \E amount \in Amounts : Mint(m, a, amount) \/ RedeemUnderlying(m, a, amount)
       \/ \E tokens \in TokenAmounts : Redeem(m, a, tokens)
    /\ Turn(spun(flywheel, "supply", m, a))

TransferSteps(m, a) ==
    \E tokens \in TransferAmounts, src \in Accounts, dst \in Accounts :
        /\ Transfer(m, a, src, dst, tokens)
        /\ Turn(spunForBoth(flywheel, m, src, dst))

BorrowSteps(m, borrower) ==
    /\ \/ \E amount \in Amounts : Borrow(m, borrower, amount)
       \/ \E amount \in Amounts \cup {UintMax}, payer \in Accounts :
             RepayBorrow(m, payer, borrower, amount)
    /\ Turn(spun(flywheel, "borrow", m, borrower))

\* repayBorrowAllowed in the borrowed market, then seizeAllowed in the other
LiquidationSteps(m, borrower) ==
    \E amount \in Amounts, liquidator \in Accounts, c \in Markets :
        /\ LiquidateBorrow(m, c, liquidator, borrower, amount)
        /\ Turn(spunForBoth(spun(flywheel, "borrow", m, borrower), c, borrower, liquidator))

ListingSteps(m) ==
    \E value \in Amounts :
        /\ SupportMarket(m, value)
        /\ Turn(spun(initializeMarket(flywheel, m, block), "supply", m, ComptrollerAddress))

\* No hook, or one that leaves the flywheel alone
QuietSteps ==
    /\ \/ \E m \in Markets : \E a \in Suppliers[m] :
             \/ \E amount \in Approvals, spender \in Accounts \ {a} : Approve(m, a, spender, amount)
             \/ \E amount \in Donations : Donate(m, a, amount) \/ AddReserves(m, a, amount)
       \/ \E a \in Accounts : MembershipStep(a)
       \/ \E m \in Markets :
             \/ AccrueInterest(m)
             \/ \E factor \in ReserveFactors : SetReserveFactor(m, factor)
             \/ \E amount \in ReserveAmounts : ReduceReserves(m, amount)
             \/ \E irm \in RateModels : SetInterestRateModel(m, irm)
       \/ AdminComptrollerStep
       \/ NextBlock
    /\ UNCHANGED <<flywheel, compVars>>
-----------------------------------------------------------------------------
(* Paying out *)

compMoved(balance, src, dst, amount) ==
    [[balance EXCEPT ![src] = @ - amount] EXCEPT ![dst] = @ + amount]

\* Reservoir.drip: what the rate allows since the start, as far as it has it
toDrip ==
    LET deltaDrip        == dripRate * block - dripped
        reservoirBalance == compBalance[ReservoirAddress]
    IN  IF reservoirBalance < deltaDrip THEN reservoirBalance ELSE deltaDrip

drippedBalance == compMoved(compBalance, ReservoirAddress, ComptrollerAddress, toDrip)

Drip ==
    /\ toDrip # 0       \* else it changes nothing
    /\ compBalance' = drippedBalance
    /\ dripped' = dripped + toDrip
    /\ UNCHANGED <<vars, flywheel, compClaimed>>

\* Faulty variant: the Comptroller's balance is not checked.
grantedUnchecked(g, user) ==
    LET amount == g.compAccrued[user]
    IN  [compAccrued |-> [g.compAccrued EXCEPT ![user] = 0],
         compBalance |-> compMoved(g.compBalance, ComptrollerAddress, user, amount),
         compClaimed |-> g.compClaimed + amount]

\* Faulty variant: what is not paid is forgotten.
grantedOrLost(g, user) ==
    LET amount == g.compAccrued[user]
    IN  IF amount > g.compBalance[ComptrollerAddress]
        THEN [g EXCEPT !.compAccrued[user] = 0]
        ELSE grantedUnchecked(g, user)

\* What grantCompInternal(user, compAccrued[user]) and the assignment of its
\* result write: all of it is paid, or nothing is.
granted(g, user) ==
    LET amount == g.compAccrued[user]
    IN  IF amount > g.compBalance[ComptrollerAddress] THEN g
        ELSE [compAccrued |-> [g.compAccrued EXCEPT ![user] = 0],
              compBalance |-> compMoved(g.compBalance, ComptrollerAddress, user, amount),
              compClaimed |-> g.compClaimed + amount]

\* claimComp's visit to one side of one market; it reads stored data, without
\* the interest since the market's last accrual.
collected(f, side, m, first, second) ==
    distributeComp(spin(f, side, m, ctoken[m], block, first), side, m, ctoken[m], second)

collectedMarket(f, m, first, second, sides) ==
    LET borrowSide == IF "borrow" \in sides THEN collected(f, "borrow", m, first, second) ELSE f
    IN  IF "supply" \in sides THEN collected(borrowSide, "supply", m, first, second)
        ELSE borrowSide

\* claimComp([first, second], [m, c], borrowers, suppliers) by anyone; sides
\* has the sides whose flag is set.  A holder or a market named twice gets
\* nothing more, so the shorter lists are the calls with first = second, m = c.
ClaimComp(first, second, m, c, sides) ==
    LET f == collectedMarket(collectedMarket(flywheel, m, first, second, sides),
                             c, first, second, sides)
        g == granted(granted([compAccrued |-> f.compAccrued,
                              compBalance |-> drippedBalance,
                              compClaimed |-> compClaimed], first), second)
    IN  /\ block > compUnlockTimestamp
        /\ isListed(m) /\ isListed(c)
        /\ flywheel' = [f EXCEPT !.compAccrued = g.compAccrued]
        /\ compBalance' = g.compBalance
        /\ compClaimed' = g.compClaimed
        /\ dripped' = dripped + toDrip
        /\ UNCHANGED vars

\* _grantComp, by the Admin
GrantComp(recipient, amount) ==
    /\ amount <= compBalance[ComptrollerAddress]
    /\ compBalance' = compMoved(compBalance, ComptrollerAddress, recipient, amount)
    /\ compClaimed' = compClaimed + amount
    /\ UNCHANGED <<vars, flywheel, dripped>>
-----------------------------------------------------------------------------
(* Speeds and weights *)

listedMarkets == {m \in Markets : isListed(m)}

\* Faulty variant: every entry that is not over allows its speed.
mayChooseLater(caller, supplySpeed, borrowSpeed) ==
    \/ \E i \in DOMAIN distributionSchedule :
          /\ block < distributionSchedule[i].timestamp
          /\ supplySpeed = distributionSchedule[i].compSpeed /\ borrowSpeed = supplySpeed
    \/ /\ \A i \in DOMAIN distributionSchedule : block >= distributionSchedule[i].timestamp
       /\ caller = Admin

\* Anyone may apply the schedule's current entry; after the last the Admin
\* chooses.
maySetCompSpeeds(caller, supplySpeed, borrowSpeed) ==
    \/ \E i \in DOMAIN distributionSchedule :
          /\ block < distributionSchedule[i].timestamp
          /\ \A j \in 1 .. i - 1 : block >= distributionSchedule[j].timestamp
          /\ supplySpeed = distributionSchedule[i].compSpeed /\ borrowSpeed = supplySpeed
    \/ /\ \A i \in DOMAIN distributionSchedule : block >= distributionSchedule[i].timestamp
       /\ caller = Admin

SetCompSpeeds(caller, supplySpeed, borrowSpeed) ==
    LET speeds == [side \in Sides |-> IF side = "supply" THEN supplySpeed ELSE borrowSpeed]
    IN  /\ maySetCompSpeeds(caller, supplySpeed, borrowSpeed)
        /\ Turn(setCompSpeedInternal(flywheel, speeds, listedMarkets, ctoken, block))
        /\ UNCHANGED vars

\* The last weight is not taken away, but an error code does not undo the
\* updates before it.
SetCompWeight(m, newCompWeightMantissa) ==
    LET updated == updateAll(flywheel, Sides, listedMarkets, ctoken, block)
        totalCompWeightOfOthers == SumFunctionOnSet(flywheel.compWeight, Markets \ {m})
    IN  /\ isListed(m)
        /\ Turn(IF newCompWeightMantissa = 0 /\ totalCompWeightOfOthers = 0 THEN updated
                ELSE [updated EXCEPT !.compWeight[m] = newCompWeightMantissa])
        /\ UNCHANGED vars

UpdateContributorRewards(contributor) ==
    /\ Turn(contributorRewarded(flywheel, contributor, block))
    /\ UNCHANGED vars

SetContributorCompSpeed(contributor, compSpeed) ==
    /\ Turn([contributorRewarded(flywheel, contributor, block) EXCEPT
               !.contributorSpeed[contributor] = compSpeed,
               !.lastContributorBlock[contributor] = IF compSpeed = 0 THEN 0 ELSE block])
    /\ UNCHANGED vars
-----------------------------------------------------------------------------
FlywheelStep ==
    \/ Drip
    \/ \E first, second \in Claimants, m, c \in Markets, sides \in ClaimSides :
          ClaimComp(first, second, m, c, sides)
    \/ \E recipient \in Claimants, amount \in Grants :
          compClaimed + amount <= MaxGranted /\ GrantComp(recipient, amount)
    \/ \E caller \in Accounts, supplySpeed, borrowSpeed \in CompSpeeds :
          SetCompSpeeds(caller, supplySpeed, borrowSpeed)
    \/ \E m \in Markets, weight \in CompWeights : SetCompWeight(m, weight)
    \/ \E contributor \in Claimants :
          \/ UpdateContributorRewards(contributor)
          \/ \E speed \in ContributorSpeeds : SetContributorCompSpeed(contributor, speed)

RewardedNext ==
    \/ \E m \in Markets : \E a \in Suppliers[m] : SupplySteps(m, a) \/ TransferSteps(m, a)
    \/ \E m \in Markets : \E a \in Borrowers[m] : BorrowSteps(m, a) \/ LiquidationSteps(m, a)
    \/ \E m \in Markets : ListingSteps(m)
    \/ QuietSteps
    \/ FlywheelStep

RewardedSpec == RewardedInit /\ [][RewardedNext]_rewardedVars
-----------------------------------------------------------------------------
(* Properties *)

\* The flywheel's subtractions never underflow, so that no hook of the
\* Comptroller and no drip reverts for the sake of COMP: blocks and indexes
\* that were recorded are past, in every order of listings, claims and hooks.
RecordsArePast ==
    /\ dripped <= dripRate * block
    /\ recordsArePast(flywheel, block)

\* An account that holds cTokens or owes in a market was given an index there:
\* nobody is paid for blocks before it came.
HoldersHaveIndexes ==
    \A m \in Markets, h \in Holders :
        /\ ctoken[m].accountTokens[h] > 0 => flywheel.accountIndex["supply"][m][h] > 0
        /\ ctoken[m].accountBorrows[h].principal > 0 => flywheel.accountIndex["borrow"][m][h] > 0

\* The speed of an entry of the schedule cannot be had before the entry before
\* it is over, although anyone may call _setCompSpeeds at any time.
SpeedsAreScheduled ==
    (\E i \in DOMAIN distributionSchedule : block < distributionSchedule[i].timestamp) =>
        \E i \in DOMAIN distributionSchedule :
            /\ \A side \in Sides : flywheel.compSpeed[side] = distributionSchedule[i].compSpeed
            /\ \A j \in 1 .. i - 1 : block >= distributionSchedule[j].timestamp

\* The flywheel as if every market and contributor were brought up to date now
upToDate == updateAll(flywheel, Sides, listedMarkets, ctoken, block)

\* What h would be owed if it claimed everywhere now
owedComp(h) ==
    LET f == upToDate
    IN  contributorRewarded(f, h, block).compAccrued[h]
        + SumFunction([m \in listedMarkets |-> distribution(f, "supply", m, ctoken[m], h)
                                               + distribution(f, "borrow", m, ctoken[m], h)])

\* What the Comptroller has and can be dripped now pays every claim at once, if
\* the Reservoir drips what the speeds and the grants add up to: whatever the
\* order of mints, transfers, speeds and weights, no COMP is promised twice.
ClaimsAreCovered ==
    SumFunction([h \in Holders |-> owedComp(h)]) <= compBalance[ComptrollerAddress] + toDrip

\* Nothing takes away COMP that an account has earned: neither the mints,
\* redemptions and seizures of others, which change the totals it is shared
\* by, nor new speeds and weights, nor a claim the Comptroller cannot pay.
\* The rounding of a debt's share may move when its market accrues interest.
RewardsNeverShrink ==
    [][\A h \in Accounts :
          \/ owedComp(h)' + compBalance'[h] >= owedComp(h) + compBalance[h]
          \/ \E m \in Markets : /\ ctoken[m].accountBorrows[h].principal > 0
                                /\ ctoken'[m].borrowIndex # ctoken[m].borrowIndex]_rewardedVars
=============================================================================
