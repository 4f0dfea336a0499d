---------------------------- MODULE CompFlywheel ----------------------------
(***************************************************************************)
(* The COMP distribution of contracts/Comptroller.sol as operators on its  *)
(* storage.  Its supply and borrow halves are the same code over different *)
(* amounts, so one operator with a side stands for both.  Indexes are      *)
(* Doubles: mantissas at doubleScale.  A timestamp is a block number, one  *)
(* unit of time per block.                                                 *)
(***************************************************************************)
EXTENDS CToken, Sequences

CONSTANTS
    RewardMarkets,          \* the cToken contracts
    doubleScale,            \* the mantissa of one of a Double
    distributionSchedule    \* a sequence of [timestamp, compSpeed], timestamps rising

Sides == {"supply", "borrow"}

ASSUME CompFlywheelAssumption ==
    /\ IsFiniteSet(RewardMarkets)
    /\ doubleScale \in Nat \ {0}
    /\ distributionSchedule \in Seq([timestamp : Nat, compSpeed : Nat])
    /\ distributionSchedule # << >>

compInitialIndex == doubleScale

CompMarketState == [index : Nat, block : Nat]

FlywheelStorage ==
    [compState : [Sides -> [RewardMarkets -> CompMarketState]],
     accountIndex : [Sides -> [RewardMarkets -> [Holders -> Nat]]],
     compAccrued : [Holders -> Nat],
     compSpeed : [Sides -> Nat],
     compWeight : [RewardMarkets -> Nat],
     contributorSpeed : [Holders -> Nat],
     lastContributorBlock : [Holders -> Nat]]

\* After _initializeCompParameters, before the first listing
initialFlywheel ==
    [compState |-> [side \in Sides |-> [m \in RewardMarkets |-> [index |-> 0, block |-> 0]]],
     accountIndex |-> [side \in Sides |-> [m \in RewardMarkets |-> [h \in Holders |-> 0]]],
     compAccrued |-> [h \in Holders |-> 0],
     compSpeed |-> [side \in Sides |-> distributionSchedule[1].compSpeed],
     compWeight |-> [m \in RewardMarkets |-> 0],
     contributorSpeed |-> [h \in Holders |-> 0],
     lastContributorBlock |-> [h \in Holders |-> 0]]
-----------------------------------------------------------------------------
(* What a side distributes over: cTokens, or debts without their interest  *)

totalShares(side, s) ==
    IF side = "supply" THEN s.totalSupply ELSE div_Exp(s.totalBorrows, s.borrowIndex)

shares(side, s, account) ==
    IF side = "supply" THEN s.accountTokens[account]
    ELSE div_Exp(borrowBalanceStored(s, account), s.borrowIndex)

\* The weights of markets that are not listed are zero.
getTotalCompWeight(f) ==
    LET totalCompWeight == SumFunctionOnSet(f.compWeight, RewardMarkets)
    IN  IF totalCompWeight = 0 THEN 1 ELSE totalCompWeight

marketSpeed(f, side, m) ==
    mul_Exp(f.compSpeed[side], div_Exp(f.compWeight[m], getTotalCompWeight(f)))

\* Faulty variant: the index starts anew with every update.
updatedIndexAnew(f, side, m, s, now) ==
    LET compAccrued == (now - f.compState[side][m].block) * marketSpeed(f, side, m)
    IN  [index |-> IF totalShares(side, s) = 0 THEN 0
                   ELSE (compAccrued * doubleScale) \div totalShares(side, s),
         block |-> now]

\* The state of market m's side after updateCompSupplyIndex or
\* updateCompBorrowIndex in block now, the market's storage being s.
updatedIndex(f, side, m, s, now) ==
    LET state       == f.compState[side][m]
        compAccrued == (now - state.block) * marketSpeed(f, side, m)
        ratio       == IF totalShares(side, s) = 0 THEN 0
                       ELSE (compAccrued * doubleScale) \div totalShares(side, s)
    IN  [index |-> state.index + ratio, block |-> now]

updateCompIndex(f, side, m, s, now) ==
    [f EXCEPT !.compState[side][m] = updatedIndex(f, side, m, s, now)]

\* COMP that account gets when its index catches up with the market's
distribution(f, side, m, s, account) ==
    LET index == f.compState[side][m].index
        prior == f.accountIndex[side][m][account]
        since == IF prior = 0 /\ index >= compInitialIndex THEN compInitialIndex ELSE prior
    IN  (shares(side, s, account) * (index - since)) \div doubleScale

\* Faulty variant: the account's index does not catch up.
distributeCompAgain(f, side, m, s, account) ==
    [f EXCEPT !.compAccrued[account] = @ + distribution(f, side, m, s, account)]

\* distributeSupplierComp, distributeBorrowerComp
distributeComp(f, side, m, s, account) ==
    [f EXCEPT !.accountIndex[side][m][account] = f.compState[side][m].index,
              !.compAccrued[account] = @ + distribution(f, side, m, s, account)]

\* "Keep the flywheel moving": what each hook does for one account
spin(f, side, m, s, now, account) ==
    distributeComp(updateCompIndex(f, side, m, s, now), side, m, s, account)

\* _initializeMarket; _supportMarket has set the weight to zero before.
initializeMarket(f, m, now) ==
    LET initialized(state) ==
            [index |-> IF state.index = 0 THEN compInitialIndex ELSE state.index, block |-> now]
    IN  [f EXCEPT !.compState["supply"][m] = initialized(@),
                  !.compState["borrow"][m] = initialized(@),
                  !.compWeight[m] = 0]

\* Every listed market's index on the given sides, brought up to block now
updateAll(f, sides, listed, ct, now) ==
    [f EXCEPT !.compState =
        [side \in Sides |-> [m \in RewardMarkets |->
            IF side \in sides /\ m \in listed THEN updatedIndex(f, side, m, ct[m], now)
            ELSE f.compState[side][m]]]]

\* Faulty variant: a new speed applies to the blocks since the last update.
setCompSpeedAtOnce(f, speeds, listed, ct, now) == [f EXCEPT !.compSpeed = speeds]

\* setCompSpeedInternal: a side whose speed changes is brought up to date first.
setCompSpeedInternal(f, speeds, listed, ct, now) ==
    LET changed == {side \in Sides : f.compSpeed[side] # speeds[side]}
    IN  [updateAll(f, changed, listed, ct, now) EXCEPT !.compSpeed = speeds]

\* updateContributorRewards
contributorRewarded(f, contributor, now) ==
    LET delta == now - f.lastContributorBlock[contributor]
    IN  IF delta = 0 \/ f.contributorSpeed[contributor] = 0 THEN f
        ELSE [f EXCEPT
                !.compAccrued[contributor] = @ + delta * f.contributorSpeed[contributor],
                !.lastContributorBlock[contributor] = now]
-----------------------------------------------------------------------------
\* Every block that f records is past by now, and no account's index is ahead
\* of its market's.
recordsArePast(f, now) ==
    /\ \A side \in Sides, m \in RewardMarkets :
          /\ f.compState[side][m].block <= now
          /\ \A h \in Holders : f.accountIndex[side][m][h] <= f.compState[side][m].index
    /\ \A h \in Holders : f.lastContributorBlock[h] <= now
=============================================================================
