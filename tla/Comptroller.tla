----------------------------- MODULE Comptroller -----------------------------
(***************************************************************************)
(* contracts/Comptroller.sol without the COMP flywheel: the markets an     *)
(* account has entered, the account-liquidity computation, the policy      *)
(* hooks the cTokens call, and the admin's setters.  No hook reads         *)
(* flywheel state to decide, so the flywheel calls inside the hooks are    *)
(* projected out here.                                                     *)
(*                                                                         *)
(* A hook is an operator: TRUE iff the Comptroller returns 0.  It reads    *)
(* the cTokens through ct, the function from markets to market storage     *)
(* that the call sees (interest of the calling market already accrued).    *)
(***************************************************************************)
EXTENDS CToken, Sequences

CONSTANTS
    Markets,                    \* the cToken contracts
    Admin,                      \* the administrator's address
    collateralFactorMaxMantissa,
    NoAddress                   \* address(0)

VARIABLES
    comptroller,        \* the fields the setters write
    accountMembership,  \* markets[m].accountMembership, as a set of accounts
    accountAssets,      \* accountAssets[a]: the list of markets a is in
    price               \* what oracle.getUnderlyingPrice answers; 0: no price

comptrollerVars == <<comptroller, accountMembership, accountAssets, price>>

ComptrollerStorage ==
    [isListed : [Markets -> BOOLEAN],
     collateralFactorMantissa : [Markets -> 0 .. collateralFactorMaxMantissa],
     closeFactorMantissa : Nat,
     liquidationIncentiveMantissa : Nat,
     borrowCaps : [Markets -> Nat],
     mintGuardianPaused : [Markets -> BOOLEAN],
     borrowGuardianPaused : [Markets -> BOOLEAN],
     transferGuardianPaused : BOOLEAN,
     seizeGuardianPaused : BOOLEAN,
     pauseGuardian : Holders \cup {NoAddress},
     borrowCapGuardian : Holders \cup {NoAddress}]

ComptrollerTypeOK ==
    /\ comptroller \in ComptrollerStorage
    /\ accountMembership \in [Markets -> SUBSET Holders]
    /\ accountAssets \in [Holders -> Seq(Markets)]
    /\ price \in [Markets -> Nat]

deployedComptroller(closeFactor, incentive) ==
    [isListed |-> [m \in Markets |-> FALSE],
     collateralFactorMantissa |-> [m \in Markets |-> 0],
     closeFactorMantissa |-> closeFactor,
     liquidationIncentiveMantissa |-> incentive,
     borrowCaps |-> [m \in Markets |-> 0],
     mintGuardianPaused |-> [m \in Markets |-> FALSE],
     borrowGuardianPaused |-> [m \in Markets |-> FALSE],
     transferGuardianPaused |-> FALSE,
     seizeGuardianPaused |-> FALSE,
     pauseGuardian |-> NoAddress,
     borrowCapGuardian |-> NoAddress]

NobodyInAnyMarket ==
    /\ accountMembership = [m \in Markets |-> {}]
    /\ accountAssets = [h \in Holders |-> << >>]

\* As deploy/002-comptroller.js configures it before the first listing
ComptrollerInit(closeFactor, incentive, prices) ==
    /\ comptroller = deployedComptroller(closeFactor, incentive)
    /\ price = prices
    /\ NobodyInAnyMarket

isListed(m) == comptroller.isListed[m]
-----------------------------------------------------------------------------
(* Account liquidity *)

tokensToDenom(ct, m) ==
    mul_Exp(mul_Exp(comptroller.collateralFactorMantissa[m], exchangeRateStored(ct[m])),
            price[m])

\* What one asset adds to the collateral of account, and to its borrows after
\* redeeming redeemTokens and borrowing borrowAmount in cTokenModify
collateralIn(ct, asset, account) ==
    mul_ScalarTruncate(tokensToDenom(ct, asset), ct[asset].accountTokens[account])

borrowPlusEffectsIn(ct, asset, account, cTokenModify, redeemTokens, borrowAmount) ==
    mul_ScalarTruncate(price[asset], borrowBalanceStored(ct[asset], account))
    + IF asset # cTokenModify THEN 0
      ELSE mul_ScalarTruncate(tokensToDenom(ct, asset), redeemTokens)
           + mul_ScalarTruncate(price[asset], borrowAmount)

sumCollateral(ct, assets, account) ==
    SumFunction([i \in DOMAIN assets |-> collateralIn(ct, assets[i], account)])

sumBorrowPlusEffects(ct, assets, account, cTokenModify, redeemTokens, borrowAmount) ==
    SumFunction([i \in DOMAIN assets |->
        borrowPlusEffectsIn(ct, assets[i], account, cTokenModify, redeemTokens, borrowAmount)])

\* No asset lacks a price (PRICE_ERROR) or makes the snapshot revert.
liquidityDefined(ct, assets) ==
    \A i \in DOMAIN assets : price[assets[i]] # 0 /\ exchangeRateDefined(ct[assets[i]])

\* getHypotheticalAccountLiquidityInternal: a shortfall
hypotheticalShortfall(ct, assets, account, cTokenModify, redeemTokens, borrowAmount) ==
    LET collateral == sumCollateral(ct, assets, account)
        borrows    == sumBorrowPlusEffects(ct, assets, account, cTokenModify,
                                           redeemTokens, borrowAmount)
    IN  IF collateral > borrows THEN 0 ELSE borrows - collateral

shortfall(ct, account) ==
    LET assets == accountAssets[account]
    IN  hypotheticalShortfall(ct, assets, account, NoAddress, 0, 0)
-----------------------------------------------------------------------------
(* Policy hooks *)

\* The two redundant structures that record who is in which market
positions == [membership |-> accountMembership, assets |-> accountAssets]

\* Faulty variant: a market already joined is joined again.
addToMarketAgain(p, m, account) ==
    IF ~isListed(m) THEN p
    ELSE [membership |-> [p.membership EXCEPT ![m] = @ \cup {account}],
          assets     |-> [p.assets EXCEPT ![account] = Append(@, m)]]

addToMarketInternal(p, m, account) ==
    IF ~isListed(m) \/ account \in p.membership[m] THEN p
    ELSE [membership |-> [p.membership EXCEPT ![m] = @ \cup {account}],
          assets     |-> [p.assets EXCEPT ![account] = Append(@, m)]]

SetPositions(p) ==
    accountMembership' = p.membership /\ accountAssets' = p.assets

\* Faulty variant: the listing is not checked.
mintAllowedAnywhere(m) == ~comptroller.mintGuardianPaused[m]

mintAllowed(m) == ~comptroller.mintGuardianPaused[m] /\ isListed(m)

\* Faulty variant: the liquidity of a member is not checked.
redeemAllowedWhenListed(ct, m, redeemer, redeemTokens) == isListed(m)

redeemAllowedInternal(ct, m, redeemer, redeemTokens) ==
    /\ isListed(m)
    /\ redeemer \in accountMembership[m] =>
          /\ liquidityDefined(ct, accountAssets[redeemer])
          /\ hypotheticalShortfall(ct, accountAssets[redeemer], redeemer, m, redeemTokens, 0) = 0

\* Faulty variant: the pause is not checked.
borrowAllowedWhilePaused(ct, m, borrower, borrowAmount) ==
    LET assets == addToMarketInternal(positions, m, borrower).assets[borrower]
    IN  /\ isListed(m)
        /\ price[m] # 0
        /\ liquidityDefined(ct, assets)
        /\ hypotheticalShortfall(ct, assets, borrower, m, 0, borrowAmount) = 0

\* Called by the cToken itself, so a borrower outside the market joins it first.
borrowAllowed(ct, m, borrower, borrowAmount) ==
    LET assets == addToMarketInternal(positions, m, borrower).assets[borrower]
    IN  /\ ~comptroller.borrowGuardianPaused[m]
        /\ isListed(m)
        /\ price[m] # 0
        /\ comptroller.borrowCaps[m] # 0 =>
              ct[m].totalBorrows + borrowAmount < comptroller.borrowCaps[m]
        /\ liquidityDefined(ct, assets)
        /\ hypotheticalShortfall(ct, assets, borrower, m, 0, borrowAmount) = 0

repayBorrowAllowed(m) == isListed(m)

isDeprecated(ct, m) ==
    /\ comptroller.collateralFactorMantissa[m] = 0
    /\ comptroller.borrowGuardianPaused[m]
    /\ ct[m].reserveFactorMantissa = mantissaOne

liquidateBorrowAllowed(ct, cTokenBorrowed, cTokenCollateral, borrower, repayAmount) ==
    LET borrowBalance == borrowBalanceStored(ct[cTokenBorrowed], borrower)
    IN  /\ isListed(cTokenBorrowed) /\ isListed(cTokenCollateral)
        /\ IF isDeprecated(ct, cTokenBorrowed)
           THEN borrowBalance >= repayAmount
           ELSE /\ liquidityDefined(ct, accountAssets[borrower])
                /\ shortfall(ct, borrower) # 0
                /\ repayAmount <= mul_ScalarTruncate(comptroller.closeFactorMantissa,
                                                     borrowBalance)

\* Both markets have this Comptroller.
seizeAllowed(cTokenCollateral, cTokenBorrowed) ==
    /\ ~comptroller.seizeGuardianPaused
    /\ isListed(cTokenCollateral) /\ isListed(cTokenBorrowed)

\* Faulty variant: the pause is not checked.
transferAllowedWhilePaused(ct, m, src, transferTokens_) ==
    redeemAllowedInternal(ct, m, src, transferTokens_)

transferAllowed(ct, m, src, transferTokens_) ==
    /\ ~comptroller.transferGuardianPaused
    /\ redeemAllowedInternal(ct, m, src, transferTokens_)

seizeDenominator(ct, cTokenCollateral) ==
    mul_Exp(price[cTokenCollateral], exchangeRateStored(ct[cTokenCollateral]))

\* Neither PRICE_ERROR nor a revert (underflow in the rate, division by zero)
seizeTokensDefined(ct, cTokenBorrowed, cTokenCollateral) ==
    /\ price[cTokenBorrowed] # 0 /\ price[cTokenCollateral] # 0
    /\ exchangeRateDefined(ct[cTokenCollateral])
    /\ seizeDenominator(ct, cTokenCollateral) # 0

liquidateCalculateSeizeTokens(ct, cTokenBorrowed, cTokenCollateral, actualRepayAmount) ==
    LET numerator == mul_Exp(comptroller.liquidationIncentiveMantissa, price[cTokenBorrowed])
    IN  mul_ScalarTruncate(div_Exp(numerator, seizeDenominator(ct, cTokenCollateral)),
                           actualRepayAmount)
-----------------------------------------------------------------------------
(* The Comptroller's own entry points *)

\* enterMarkets([first, second]); a market already entered or not listed is
\* skipped, so first = second is the call with one market.
EnterMarkets(account, first, second) ==
    /\ \E m \in {first, second} : account \notin accountMembership[m]
    /\ SetPositions(addToMarketInternal(addToMarketInternal(positions, first, account),
                                        second, account))
    /\ UNCHANGED <<comptroller, price>>

\* The list without the entry at index: the last one takes its place.
swapAndPop(list, index) ==
    SubSeq([list EXCEPT ![index] = list[Len(list)]], 1, Len(list) - 1)

\* Faulty variant: the debt in the market is not checked.
ExitMarketInDebt(ct, account, m) ==
    /\ account \in accountMembership[m]
    /\ exchangeRateDefined(ct[m])
    /\ redeemAllowedInternal(ct, m, account, ct[m].accountTokens[account])
    /\ accountMembership' = [accountMembership EXCEPT ![m] = @ \ {account}]
    /\ accountAssets' = [accountAssets EXCEPT ![account] = SelectSeq(@, LAMBDA c : c # m)]
    /\ UNCHANGED <<comptroller, price>>

\* exitMarket of a market the account is in; elsewhere it changes nothing.
\* The assert that the list has the market is the range of index.
ExitMarket(ct, account, m) ==
    /\ account \in accountMembership[m]
    /\ exchangeRateDefined(ct[m])
    /\ borrowBalanceStored(ct[m], account) = 0
    /\ redeemAllowedInternal(ct, m, account, ct[m].accountTokens[account])
    /\ accountMembership' = [accountMembership EXCEPT ![m] = @ \ {account}]
    /\ \E index \in DOMAIN accountAssets[account] :
          /\ accountAssets[account][index] = m
          /\ \A i \in 1 .. index - 1 : accountAssets[account][i] # m
          /\ accountAssets' = [accountAssets EXCEPT ![account] = swapAndPop(@, index)]
    /\ UNCHANGED <<comptroller, price>>
-----------------------------------------------------------------------------
(* Admin functions *)

Configure(newComptroller) ==
    /\ comptroller' = newComptroller
    /\ UNCHANGED <<accountMembership, accountAssets, price>>

SetCloseFactor(newCloseFactorMantissa) ==
    Configure([comptroller EXCEPT !.closeFactorMantissa = newCloseFactorMantissa])

SetLiquidationIncentive(newLiquidationIncentiveMantissa) ==
    Configure([comptroller EXCEPT
                 !.liquidationIncentiveMantissa = newLiquidationIncentiveMantissa])

SetCollateralFactor(m, newCollateralFactorMantissa) ==
    /\ isListed(m)
    /\ newCollateralFactorMantissa <= collateralFactorMaxMantissa
    /\ newCollateralFactorMantissa # 0 => price[m] # 0
    /\ Configure([comptroller EXCEPT
                    !.collateralFactorMantissa[m] = newCollateralFactorMantissa])

\* The call with one market; longer arrays write the same map entry by entry.
SetMarketBorrowCap(caller, m, newBorrowCap) ==
    /\ caller \in {Admin, comptroller.borrowCapGuardian}
    /\ Configure([comptroller EXCEPT !.borrowCaps[m] = newBorrowCap])

SetBorrowCapGuardian(newBorrowCapGuardian) ==
    Configure([comptroller EXCEPT !.borrowCapGuardian = newBorrowCapGuardian])

SetPauseGuardian(newPauseGuardian) ==
    Configure([comptroller EXCEPT !.pauseGuardian = newPauseGuardian])

mayPause(caller, state) ==
    /\ caller \in {Admin, comptroller.pauseGuardian}
    /\ caller = Admin \/ state

SetMintPaused(caller, m, state) ==
    /\ isListed(m) /\ mayPause(caller, state)
    /\ Configure([comptroller EXCEPT !.mintGuardianPaused[m] = state])

SetBorrowPaused(caller, m, state) ==
    /\ isListed(m) /\ mayPause(caller, state)
    /\ Configure([comptroller EXCEPT !.borrowGuardianPaused[m] = state])

SetTransferPaused(caller, state) ==
    /\ mayPause(caller, state)
    /\ Configure([comptroller EXCEPT !.transferGuardianPaused = state])

SetSeizePaused(caller, state) ==
    /\ mayPause(caller, state)
    /\ Configure([comptroller EXCEPT !.seizeGuardianPaused = state])

\* The oracle behind the proxy interface answers anew, or _setPriceOracle
\* installs another one: either way the answers change.
SetPrices(newPrices) ==
    /\ price' = newPrices
    /\ UNCHANGED <<comptroller, accountMembership, accountAssets>>
-----------------------------------------------------------------------------
Positions ==
    [membership : [Markets -> SUBSET Holders], assets : [Holders -> Seq(Markets)]]

noRepetition(list) == \A i, j \in DOMAIN list : list[i] = list[j] => i = j

contains(list, m) == \E i \in DOMAIN list : list[i] = m

\* The two structures say the same, and no list has a market twice.
matching(p) ==
    \A h \in Holders :
        /\ noRepetition(p.assets[h])
        /\ \A m \in Markets : h \in p.membership[m] <=> contains(p.assets[h], m)
=============================================================================
