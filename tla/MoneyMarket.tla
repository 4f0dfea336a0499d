----------------------------- MODULE MoneyMarket -----------------------------
(***************************************************************************)
(* The lending protocol: the cTokens, the Comptroller and the underlying   *)
(* tokens composed.  An action is a whole transaction of the EVM, which    *)
(* happens completely or reverts completely: every require, custom error   *)
(* and checked subtraction on its path is a guard.  nonReentrant and the   *)
(* freshness checks are met because accrueInterest runs first.             *)
(***************************************************************************)
EXTENDS Comptroller

CONSTANTS
    Accounts,               \* externally owned accounts, Admin among them
    ComptrollerAddress,     \* the Comptroller as holder of its seed cTokens
    EtherMarkets,           \* the markets that are CEther
    initialExchangeRate,    \* per market
    initialModel,           \* per market, its first interest rate model
    initialUnderlying,      \* per market and holder
    initialPrices, initialCloseFactor, initialLiquidationIncentive,
    transferFee             \* per market: the fee rate of its underlying

CONSTANTS                   \* what callers try
    Suppliers, Borrowers,   \* per market: who supplies to it, who borrows from it
    Entered,                \* per account: the markets it enters by enterMarkets
    MaxBlock, Amounts, TokenAmounts, TransferAmounts, Approvals, Donations, PriceVectors,
    CollateralFactors, CloseFactors, LiquidationIncentives, BorrowCaps,
    ReserveFactors, ReserveAmounts, RateModels, Guardians, Pausers,
    Switches                \* the pauses tried: "mint", "borrow", "transfer", "seize"

ASSUME MoneyMarketAssumption ==
    /\ Holders = Accounts \cup {ComptrollerAddress}
    /\ ComptrollerAddress \notin Accounts
    /\ Admin \in Accounts
    /\ NoAddress \notin Markets \cup Holders
    /\ EtherMarkets \subseteq Markets
    /\ initialExchangeRate \in [Markets -> Nat \ {0}]
    /\ initialModel \in [Markets -> InterestRateModel]
    /\ initialUnderlying \in [Markets -> [Holders -> Nat]]
    /\ initialPrices \in [Markets -> Nat]
    /\ initialCloseFactor \in Nat /\ initialLiquidationIncentive \in Nat
    /\ transferFee \in [Markets -> 0 .. expScale]
    /\ \A m \in EtherMarkets : transferFee[m] = 0
    /\ collateralFactorMaxMantissa \in Nat
    /\ Suppliers \in [Markets -> SUBSET Accounts]
    /\ Borrowers \in [Markets -> SUBSET Accounts]
    /\ Entered \in [Accounts -> SUBSET Markets]
    /\ MaxBlock \in Nat
    /\ Amounts \subseteq Nat
    /\ TokenAmounts \subseteq Nat \ {0}     \* redeem(0) is redeemUnderlying(0)
    /\ TransferAmounts \subseteq Nat
    /\ Approvals \subseteq Nat /\ Donations \subseteq Nat
    /\ PriceVectors \subseteq [Markets -> Nat]
    /\ CollateralFactors \subseteq Nat /\ CloseFactors \subseteq Nat
    /\ LiquidationIncentives \subseteq Nat /\ BorrowCaps \subseteq Nat
    /\ ReserveFactors \subseteq Nat /\ ReserveAmounts \subseteq Nat
    /\ RateModels \subseteq InterestRateModel
    /\ Guardians \subseteq Holders \cup {NoAddress}
    /\ Pausers \subseteq Accounts

VARIABLES
    ctoken,         \* the storage of every market
    underlying,     \* balances of the underlying tokens outside the markets
    block           \* block.number

vars == <<ctoken, underlying, block, comptrollerVars>>

TypeOK ==
    /\ ctoken \in [Markets -> CTokenStorage]
    /\ underlying \in [Markets -> [Holders -> Nat]]
    /\ block \in Nat
    /\ ComptrollerTypeOK

\* The cTokens are initialized and the Comptroller configured; none is listed.
Init ==
    /\ ctoken = [m \in Markets |-> initialize(initialExchangeRate[m], initialModel[m], 0)]
    /\ underlying = initialUnderlying
    /\ block = 0
    /\ ComptrollerInit(initialCloseFactor, initialLiquidationIncentive, initialPrices)

\* doTransferIn: what arrives of amount when the token takes its fee
received(m, amount) == amount - mul_Exp(amount, transferFee[m])

\* The seed a CErc20 is listed with: one cToken's worth of underlying, or 1
seedAmount(s) ==
    LET mintAmount == exchangeRateStored(s) \div expScale
    IN  IF mintAmount = 0 THEN 1 ELSE mintAmount

\* Where deploy/ leaves the protocol: every market listed with its seed (of
\* etherSeed in a CEther) and with its collateral and reserve factors.
DeployedInit(collateralFactors, reserveFactors, etherSeed) ==
    LET fresh(m)  == initialize(initialExchangeRate[m], initialModel[m], 0)
        seed(m)   == IF m \in EtherMarkets THEN etherSeed ELSE seedAmount(fresh(m))
        seeded(m) == mintFresh(fresh(m), ComptrollerAddress, received(m, seed(m)))
    IN  /\ ctoken = [m \in Markets |->
                        [seeded(m) EXCEPT !.reserveFactorMantissa = reserveFactors[m]]]
        /\ underlying = initialUnderlying
        /\ block = 0
        /\ comptroller = [deployedComptroller(initialCloseFactor, initialLiquidationIncentive)
                            EXCEPT !.isListed = [m \in Markets |-> TRUE],
                                   !.collateralFactorMantissa = collateralFactors]
        /\ price = initialPrices
        /\ NobodyInAnyMarket
-----------------------------------------------------------------------------
(* Every operation of a cToken starts from its state after accrueInterest. *)

accrued(m) == accrueInterest(ctoken[m], block)
withAccrued(m) == [ctoken EXCEPT ![m] = accrued(m)]

canPay(m, payer, amount) == underlying[m][payer] >= amount

\* underlying after payer's doTransferIn, and after a doTransferOut
paid(m, payer, amount) == [underlying EXCEPT ![m][payer] = @ - amount]
sent(m, to, amount) == [underlying EXCEPT ![m][to] = @ + received(m, amount)]

AccrueInterest(m) ==
    /\ ctoken[m].accrualBlockNumber # block     \* else it changes nothing
    /\ canAccrue(ctoken[m], block)
    /\ ctoken' = withAccrued(m)
    /\ UNCHANGED <<underlying, block, comptrollerVars>>

Mint(m, minter, mintAmount) ==
    LET s == accrued(m)
    IN  /\ canAccrue(ctoken[m], block)
        /\ mintAllowed(m)
        /\ exchangeRateDefined(s) /\ exchangeRateStored(s) # 0
        /\ canPay(m, minter, mintAmount)
        /\ ctoken' = [ctoken EXCEPT ![m] = mintFresh(s, minter, received(m, mintAmount))]
        /\ underlying' = paid(m, minter, mintAmount)
        /\ UNCHANGED <<block, comptrollerVars>>

\* redeemFresh with the tokens and the amount its two callers compute
RedeemFresh(m, redeemer, redeemTokens, redeemAmount) ==
    LET s == accrued(m)
    IN  /\ s.accountTokens[redeemer] >= redeemTokens
        /\ s.totalSupply >= redeemTokens
        /\ s.cash >= redeemAmount
        /\ redeemTokens # 0 \/ redeemAmount = 0     \* redeemVerify
        /\ redeemAllowedInternal(withAccrued(m), m, redeemer, redeemTokens)
        /\ ctoken' = [ctoken EXCEPT ![m] = redeemFresh(s, redeemer, redeemTokens, redeemAmount)]
        /\ underlying' = sent(m, redeemer, redeemAmount)
        /\ UNCHANGED <<block, comptrollerVars>>

Redeem(m, redeemer, redeemTokens) ==
    /\ ctoken[m].accountTokens[redeemer] >= redeemTokens
    /\ canAccrue(ctoken[m], block)
    /\ exchangeRateDefined(accrued(m))
    /\ RedeemFresh(m, redeemer, redeemTokens,
                   mul_ScalarTruncate(exchangeRateStored(accrued(m)), redeemTokens))

RedeemUnderlying(m, redeemer, redeemAmount) ==
    /\ canAccrue(ctoken[m], block)
    /\ exchangeRateDefined(accrued(m)) /\ exchangeRateStored(accrued(m)) # 0
    /\ RedeemFresh(m, redeemer, div_Exp(redeemAmount, exchangeRateStored(accrued(m))),
                   redeemAmount)

Borrow(m, borrower, borrowAmount) ==
    LET s == accrued(m)
    IN  /\ canAccrue(ctoken[m], block)
        /\ s.cash >= borrowAmount
        /\ borrowAllowed(withAccrued(m), m, borrower, borrowAmount)
        /\ ctoken' = [ctoken EXCEPT ![m] = borrowFresh(s, borrower, borrowAmount)]
        /\ underlying' = sent(m, borrower, borrowAmount)
        /\ SetPositions(addToMarketInternal(positions, m, borrower))
        /\ UNCHANGED <<block, comptroller, price>>

\* Faulty variant: the debt falls by what was sent, not by what arrived.
RepayBorrowBySentAmount(m, payer, borrower, repayAmount) ==
    LET s == accrued(m)
        fee == repayAmount - received(m, repayAmount)
    IN  /\ canAccrue(ctoken[m], block)
        /\ repayBorrowAllowed(m)
        /\ canPay(m, payer, repayAmount)
        /\ canRepay(s, borrower, repayAmount)
        /\ ctoken' = [ctoken EXCEPT ![m] = [repayBorrowFresh(s, borrower, repayAmount)
                                               EXCEPT !.cash = @ - fee]]
        /\ underlying' = paid(m, payer, repayAmount)
        /\ UNCHANGED <<block, comptrollerVars>>

\* repayBorrow (payer = borrower) and repayBorrowBehalf.  CEther's payable
\* versions take msg.value, so UintMax stands for the full debt in CErc20 only.
RepayBorrow(m, payer, borrower, repayAmount) ==
    LET s == accrued(m)
        repayAmountFinal == IF repayAmount = UintMax /\ m \notin EtherMarkets
                            THEN borrowBalanceStored(s, borrower) ELSE repayAmount
    IN  /\ canAccrue(ctoken[m], block)
        /\ repayBorrowAllowed(m)
        /\ canPay(m, payer, repayAmountFinal)
        /\ canRepay(s, borrower, received(m, repayAmountFinal))
        /\ ctoken' = [ctoken EXCEPT
                        ![m] = repayBorrowFresh(s, borrower, received(m, repayAmountFinal))]
        /\ underlying' = paid(m, payer, repayAmountFinal)
        /\ UNCHANGED <<block, comptrollerVars>>

\* In a call that carries Ether, getCashPrior subtracts msg.value only in the
\* CEther's own frame: the Comptroller's calls back see the payment as cash.
seenByComptroller(ct, m, msgValue) ==
    IF m \in EtherMarkets THEN [ct EXCEPT ![m].cash = @ + msgValue] ELSE ct

seizeRate(ct, cTokenBorrowed, cTokenCollateral, msgValue) ==
    LET s == ct[cTokenCollateral]
    IN  exchangeRateStored(IF cTokenCollateral = cTokenBorrowed
                              /\ cTokenCollateral \in EtherMarkets
                           THEN [s EXCEPT !.cash = @ - msgValue] ELSE s)

seizeRateDefined(ct, cTokenBorrowed, cTokenCollateral, msgValue) ==
    LET s == ct[cTokenCollateral]
    IN  (cTokenCollateral = cTokenBorrowed /\ cTokenCollateral \in EtherMarkets) =>
            s.totalSupply = 0 \/ s.cash + s.totalBorrows >= s.totalReserves + msgValue

LiquidateBorrow(m, cTokenCollateral, liquidator, borrower, repayAmount) ==
    LET bothAccrued == [ctoken EXCEPT ![m] = accrued(m),
                                      ![cTokenCollateral] = accrued(cTokenCollateral)]
        actualRepayAmount == received(m, repayAmount)
        repaid == [bothAccrued EXCEPT
                     ![m] = repayBorrowFresh(bothAccrued[m], borrower,
                                            actualRepayAmount)]
        seizeTokens == liquidateCalculateSeizeTokens(repaid, m, cTokenCollateral,
                                                     actualRepayAmount)
    IN  /\ borrower # liquidator
        /\ repayAmount # 0 /\ repayAmount # UintMax
        /\ canPay(m, liquidator, repayAmount)
        /\ canAccrue(ctoken[m], block) /\ canAccrue(ctoken[cTokenCollateral], block)
        /\ canRepay(bothAccrued[m], borrower, actualRepayAmount)
        /\ liquidateBorrowAllowed(seenByComptroller(bothAccrued, m, repayAmount),
                                  m, cTokenCollateral, borrower, repayAmount)
        /\ seizeTokensDefined(repaid, m, cTokenCollateral)
        /\ repaid[cTokenCollateral].accountTokens[borrower] >= seizeTokens
        /\ seizeAllowed(cTokenCollateral, m)
        /\ seizeRateDefined(repaid, m, cTokenCollateral, repayAmount)
        /\ repaid[cTokenCollateral].totalSupply
              >= mul_Exp(seizeTokens, protocolSeizeShareMantissa)
        /\ ctoken' = [repaid EXCEPT ![cTokenCollateral] =
                        seizeInternal(repaid[cTokenCollateral], liquidator, borrower, seizeTokens,
                                      seizeRate(repaid, m, cTokenCollateral, repayAmount))]
        /\ underlying' = paid(m, liquidator, repayAmount)
        /\ UNCHANGED <<block, comptrollerVars>>

\* Faulty variant: the allowance is spent but not checked.
TransferBeyondAllowance(m, spender, src, dst, tokens) ==
    /\ transferAllowed(ctoken, m, src, tokens)
    /\ src # dst
    /\ ctoken[m].accountTokens[src] >= tokens
    /\ ctoken' = [ctoken EXCEPT ![m] = transferTokens(ctoken[m], spender, src, dst, tokens)]
    /\ UNCHANGED <<underlying, block, comptrollerVars>>

\* transfer (spender = src) and transferFrom; they do not accrue interest
Transfer(m, spender, src, dst, tokens) ==
    LET s == ctoken[m]
    IN  /\ transferAllowed(ctoken, m, src, tokens)
        /\ src # dst
        /\ startingAllowance(s, spender, src) >= tokens
        /\ s.accountTokens[src] >= tokens
        /\ ctoken' = [ctoken EXCEPT ![m] = transferTokens(s, spender, src, dst, tokens)]
        /\ UNCHANGED <<underlying, block, comptrollerVars>>

Approve(m, src, spender, amount) ==
    /\ ctoken' = [ctoken EXCEPT ![m].transferAllowances[src][spender] = amount]
    /\ UNCHANGED <<underlying, block, comptrollerVars>>
-----------------------------------------------------------------------------
(* Reserves and parameters of a market *)

\* Faulty variant: the reserves grow by what was sent, not by what arrived.
AddSentToReserves(m, payer, addAmount) ==
    LET fee == addAmount - received(m, addAmount)
    IN  /\ canAccrue(ctoken[m], block)
        /\ canPay(m, payer, addAmount)
        /\ ctoken' = [ctoken EXCEPT ![m] = [addReservesFresh(accrued(m), addAmount)
                                               EXCEPT !.cash = @ - fee]]
        /\ underlying' = paid(m, payer, addAmount)
        /\ UNCHANGED <<block, comptrollerVars>>

AddReserves(m, payer, addAmount) ==
    /\ canAccrue(ctoken[m], block)
    /\ canPay(m, payer, addAmount)
    /\ ctoken' = [ctoken EXCEPT ![m] = addReservesFresh(accrued(m), received(m, addAmount))]
    /\ underlying' = paid(m, payer, addAmount)
    /\ UNCHANGED <<block, comptrollerVars>>

ReduceReserves(m, reduceAmount) ==
    LET s == accrued(m)
    IN  /\ canAccrue(ctoken[m], block)
        /\ s.cash >= reduceAmount
        /\ reduceAmount <= s.totalReserves
        /\ ctoken' = [ctoken EXCEPT ![m] = reduceReservesFresh(s, reduceAmount)]
        /\ underlying' = sent(m, Admin, reduceAmount)
        /\ UNCHANGED <<block, comptrollerVars>>

\* Faulty variant: the new factor applies to the blocks before it, too.
SetReserveFactorBackdated(m, newReserveFactorMantissa) ==
    /\ newReserveFactorMantissa <= reserveFactorMaxMantissa
    /\ ctoken' = [ctoken EXCEPT ![m].reserveFactorMantissa = newReserveFactorMantissa]
    /\ UNCHANGED <<underlying, block, comptrollerVars>>

SetReserveFactor(m, newReserveFactorMantissa) ==
    /\ canAccrue(ctoken[m], block)
    /\ newReserveFactorMantissa <= reserveFactorMaxMantissa
    /\ ctoken' = [ctoken EXCEPT
                    ![m] = [accrued(m) EXCEPT !.reserveFactorMantissa = newReserveFactorMantissa]]
    /\ UNCHANGED <<underlying, block, comptrollerVars>>

SetInterestRateModel(m, newInterestRateModel) ==
    /\ canAccrue(ctoken[m], block)
    /\ ctoken' = [ctoken EXCEPT
                    ![m] = [accrued(m) EXCEPT !.interestRateModel = newInterestRateModel]]
    /\ UNCHANGED <<underlying, block, comptrollerVars>>

\* A plain transfer of the underlying token to the market's address, or Ether
\* that a contract forces upon it when it destroys itself
Donate(m, from, amount) ==
    /\ canPay(m, from, amount)
    /\ ctoken' = [ctoken EXCEPT ![m].cash = @ + received(m, amount)]
    /\ underlying' = paid(m, from, amount)
    /\ UNCHANGED <<block, comptrollerVars>>

\* Faulty variant: the seed belongs to the Admin, who can redeem it.
SupportMarketForAdmin(m, msgValue) ==
    LET payer      == IF m \in EtherMarkets THEN Admin ELSE ComptrollerAddress
        mintAmount == IF m \in EtherMarkets THEN msgValue ELSE seedAmount(ctoken[m])
    IN  /\ ~isListed(m)
        /\ canAccrue(ctoken[m], block)
        /\ ~comptroller.mintGuardianPaused[m]
        /\ canPay(m, payer, mintAmount)
        /\ comptroller' = [comptroller EXCEPT !.isListed[m] = TRUE]
        /\ ctoken' = [ctoken EXCEPT
                        ![m] = mintFresh(accrued(m), Admin, received(m, mintAmount))]
        /\ underlying' = paid(m, payer, mintAmount)
        /\ UNCHANGED <<block, accountMembership, accountAssets, price>>

\* _supportMarket lists the market, then the Comptroller mints its seed: the
\* Admin's Ether in a CEther, else from its own balance of the underlying.
SupportMarket(m, msgValue) ==
    LET s          == accrued(m)
        payer      == IF m \in EtherMarkets THEN Admin ELSE ComptrollerAddress
        mintAmount == IF m \in EtherMarkets THEN msgValue ELSE seedAmount(ctoken[m])
    IN  /\ ~isListed(m)
        /\ m \in EtherMarkets => msgValue > 0
        /\ canAccrue(ctoken[m], block)
        /\ ~comptroller.mintGuardianPaused[m]
        /\ canPay(m, payer, mintAmount)
        /\ comptroller' = [comptroller EXCEPT !.isListed[m] = TRUE,
                                              !.collateralFactorMantissa[m] = 0]
        /\ ctoken' = [ctoken EXCEPT
                        ![m] = mintFresh(s, ComptrollerAddress, received(m, mintAmount))]
        /\ underlying' = paid(m, payer, mintAmount)
        /\ UNCHANGED <<block, accountMembership, accountAssets, price>>

NextBlock ==
    /\ block < MaxBlock
    /\ block' = block + 1
    /\ UNCHANGED <<ctoken, underlying, comptrollerVars>>
-----------------------------------------------------------------------------
marketVars == <<ctoken, underlying, block>>

SupplierStep(m, a) ==
    \/ \E amount \in Amounts : Mint(m, a, amount) \/ RedeemUnderlying(m, a, amount)
    \/ \E tokens \in TokenAmounts : Redeem(m, a, tokens)
    \/ \E tokens \in TransferAmounts, src \in Accounts, dst \in Accounts :
          Transfer(m, a, src, dst, tokens)
    \/ \E amount \in Approvals, spender \in Accounts \ {a} :   \* transferTokens never
          Approve(m, a, spender, amount)                        \* reads a's own approval
    \/ \E amount \in Donations : Donate(m, a, amount) \/ AddReserves(m, a, amount)

BorrowerStep(m, borrower) ==
    \/ \E amount \in Amounts : Borrow(m, borrower, amount)
    \/ \E amount \in Amounts \cup {UintMax}, payer \in Accounts :
          RepayBorrow(m, payer, borrower, amount)
    \/ \E amount \in Amounts, liquidator \in Accounts, c \in Markets :
          LiquidateBorrow(m, c, liquidator, borrower, amount)

MembershipStep(a) ==
    /\ \/ \E first, second \in Entered[a] : EnterMarkets(a, first, second)
       \/ \E m \in Markets : ExitMarket(ctoken, a, m)
    /\ UNCHANGED marketVars

AdminMarketStep(m) ==
    \/ \E value \in Amounts : SupportMarket(m, value)
    \/ \E factor \in ReserveFactors : SetReserveFactor(m, factor)
    \/ \E amount \in ReserveAmounts : ReduceReserves(m, amount)
    \/ \E irm \in RateModels : SetInterestRateModel(m, irm)

AdminComptrollerStep ==
    /\ \/ \E factor \in CloseFactors : SetCloseFactor(factor)
       \/ \E incentive \in LiquidationIncentives : SetLiquidationIncentive(incentive)
       \/ \E m \in Markets, factor \in CollateralFactors : SetCollateralFactor(m, factor)
       \/ \E caller \in Accounts, m \in Markets, cap \in BorrowCaps :
             SetMarketBorrowCap(caller, m, cap)
       \/ \E guardian \in Guardians :
             SetBorrowCapGuardian(guardian) \/ SetPauseGuardian(guardian)
       \/ \E caller \in Pausers, m \in Markets, state \in BOOLEAN :
             \/ "mint" \in Switches /\ SetMintPaused(caller, m, state)
             \/ "borrow" \in Switches /\ SetBorrowPaused(caller, m, state)
             \/ "transfer" \in Switches /\ SetTransferPaused(caller, state)
             \/ "seize" \in Switches /\ SetSeizePaused(caller, state)
       \/ \E prices \in PriceVectors : SetPrices(prices)
    /\ UNCHANGED marketVars

Next ==
    \/ \E m \in Markets : \E a \in Suppliers[m] : SupplierStep(m, a)
    \/ \E m \in Markets : \E a \in Borrowers[m] : BorrowerStep(m, a)
    \/ \E a \in Accounts : MembershipStep(a)
    \/ \E m \in Markets : AccrueInterest(m) \/ AdminMarketStep(m)
    \/ AdminComptrollerStep
    \/ NextBlock

Spec == Init /\ [][Next]_vars
-----------------------------------------------------------------------------
(* Properties *)

\* cTokens are neither created nor lost by any path (mint, redeem, transfer,
\* the split of a seizure between liquidator and reserves, the seed).
TokensAddUp == \A m \in Markets : tokensAddUp(ctoken[m])

\* The membership map and the list of assets say the same, whatever order of
\* enterMarkets, exitMarket (swap with the last, pop) and borrow produced
\* them: the assert in exitMarket cannot fail, and the liquidity computation
\* counts every entered market once.
AssetsMatchMembership == matching(positions)

\* A debt is always counted in its borrower's liquidity: nobody leaves a
\* market while owing there, although exitMarket looks at stored data, at a
\* quotient that truncates, and not at the principal itself.
BorrowersAreMembers ==
    \A m \in Markets, h \in Holders :
        ctoken[m].accountBorrows[h].principal > 0 => h \in accountMembership[m]

\* The interest index of a debt is one the market had: a debt never reads as
\* less than its principal, and no market has accrued beyond the present.
SnapshotsArePast ==
    \A m \in Markets :
        ctoken[m].accrualBlockNumber <= block /\ validSnapshots(ctoken[m])

\* Until it is listed a market stays empty: no hook of the Comptroller lets a
\* cToken mint, lend or be entered, and no collateral factor is set for it.
UnlistedIsInert ==
    \A m \in Markets : ~isListed(m) =>
        /\ ctoken[m].totalSupply = 0 /\ ctoken[m].totalBorrows = 0
        /\ accountMembership[m] = {}
        /\ comptroller.collateralFactorMantissa[m] = 0

\* The inductive invariant of the proofs.  The facts need one another:
\* exitMarket reads a balance that is zero only for a debt that is zero if the
\* snapshots are past, and an unlisted market stays without borrows because
\* its borrowers would be members.
IndInv ==
    /\ TypeOK
    /\ SnapshotsArePast
    /\ TokensAddUp
    /\ UnlistedIsInert
    /\ AssetsMatchMembership
    /\ BorrowersAreMembers

\* Whatever a market can be listed with buys at least one cToken at its first
\* exchange rate: a CErc20's seed, less the fee of its underlying, and any
\* Ether sent with the listing of a CEther.  (The code does not ensure it.)
SeedIsEnough ==
  \A m \in Markets :
     LET mintAmount == initialExchangeRate[m] \div expScale
         seeds == IF m \in EtherMarkets THEN Amounts \ {0}
                  ELSE {IF mintAmount = 0 THEN 1 ELSE mintAmount}
     IN  \A x \in seeds : div_Exp(received(m, x), initialExchangeRate[m]) > 0

\* A listed market cannot be bricked: the Comptroller's seed stays, so the
\* supply is never zero again, and reserves never reach cash + borrows, so
\* neither the exchange rate nor the utilization rate reverts.
ListedMarketStaysOpen ==
    \A m \in Markets : isListed(m) =>
        /\ ctoken[m].accountTokens[ComptrollerAddress] > 0
        /\ ctoken[m].cash + ctoken[m].totalBorrows > ctoken[m].totalReserves

\* Only redeemUnderlying, which rounds the tokens it burns down, lowers an
\* exchange rate, and by less than the value of one cToken.
ExchangeRateFallsOnlyByRounding ==
    [][\A m \in Markets :
          LET s == ctoken[m]  pool == cashPlusBorrowsMinusReserves(s)
              pool_ == cashPlusBorrowsMinusReserves(ctoken'[m])
          IN  s.totalSupply > 0 =>
                \/ exchangeRateStored(ctoken'[m]) >= exchangeRateStored(s)
                \/ /\ \E a \in Accounts, amount \in Amounts : RedeemUnderlying(m, a, amount)
                   /\ pool_ * s.totalSupply > pool * (ctoken'[m].totalSupply - 1)]_vars

\* The book of a market, as it is after the interest until now
bookOf(s) ==
    [cash |-> s.cash, lent |-> s.totalBorrows, reserves |-> s.totalReserves,
     supply |-> s.totalSupply, firstPrice |-> s.initialExchangeRateMantissa,
     tokens |-> s.accountTokens, owed |-> [h \in Holders |-> borrowBalanceStored(s, h)]]
books == [m \in Markets |-> bookOf(accrued(m))]

Ledger == INSTANCE LendingLedger WITH Scale <- expScale, book <- books, wallet <- underlying

\* Every transaction is an entry in the books of LendingLedger.
MarketsKeepTheBooks == Ledger!LedgerSpec

\* No debt is ever forgiven: what an account owes falls by no more than the
\* market received in the same transaction.
DebtFallsOnlyByPayment ==
    [][\A m \in Markets, h \in Holders :
          LET owed  == borrowBalanceStored(ctoken[m], h)
              owed_ == borrowBalanceStored(ctoken'[m], h)
          IN  owed_ >= owed \/ owed - owed_ <= ctoken'[m].cash - ctoken[m].cash]_vars

\* An account that owes nothing anywhere loses cTokens only by its own
\* redeem or transfer, or to a spender within the approval it gave.
DebtFreeKeepsTokens ==
    [][\A m \in Markets, h \in Holders :
          /\ ctoken'[m].accountTokens[h] < ctoken[m].accountTokens[h]
          /\ \A c \in Markets : ctoken[c].accountBorrows[h].principal = 0
          => \/ \E tokens \in TokenAmounts : Redeem(m, h, tokens)
             \/ \E amount \in Amounts : RedeemUnderlying(m, h, amount)
             \/ \E tokens \in TransferAmounts, spender \in Accounts, dst \in Accounts :
                   /\ Transfer(m, spender, h, dst, tokens)
                   /\ spender # h => tokens <= ctoken[m].transferAllowances[h][spender]]_vars

\* Every path of the cTokens respects the Comptroller's pauses: no cTokens are
\* created while minting is paused, no debt grows other than by interest while
\* borrowing is, and while transfers and seizures are paused an account gets
\* no more cTokens than the step creates.
PausesBind ==
    [][\A m \in Markets :
          LET s == ctoken[m]  s_ == ctoken'[m]
          IN  /\ comptroller.mintGuardianPaused[m] => s_.totalSupply <= s.totalSupply
              /\ comptroller.borrowGuardianPaused[m] =>
                    \A h \in Holders :
                       \/ s_.accountBorrows[h].principal <= s.accountBorrows[h].principal
                       \/ s_.accountBorrows[h].principal <= borrowBalanceStored(accrued(m), h)
              /\ comptroller.transferGuardianPaused /\ comptroller.seizeGuardianPaused =>
                    \A h \in Holders :
                       \/ s_.accountTokens[h] <= s.accountTokens[h]
                       \/ s_.accountTokens[h] - s.accountTokens[h]
                             <= s_.totalSupply - s.totalSupply]_vars

\* h borrows, its tokens of a market it is in are redeemed or leave it, or it
\* leaves the market.
WeakeningStep(h) ==
    \/ \E m \in Markets, amount \in Amounts : Borrow(m, h, amount)
    \/ \E m \in Markets :
          /\ h \in accountMembership[m]
          /\ \/ \E tokens \in TokenAmounts : Redeem(m, h, tokens)
             \/ \E tokens \in TransferAmounts, spender \in Accounts, dst \in Accounts :
                   Transfer(m, spender, h, dst, tokens)
             \/ ExitMarket(ctoken, h, m) /\ UNCHANGED marketVars

\* What the rate of m, as it was and as it becomes, makes the tokens lose that h keeps
lostToRounding(m, h) ==
    LET kept == ctoken'[m].accountTokens[h]
    IN  mul_ScalarTruncate(tokensToDenom(withAccrued(m), m), kept)
        - mul_ScalarTruncate(tokensToDenom(ctoken', m), kept)

\* No account drives itself below water: after its own borrow, redeem,
\* transfer or exit, its collateral covers its debts, up to the unit that
\* truncating a sum instead of its terms can cost.  redeemUnderlying rounds
\* the tokens it burns down, and can cost what its other tokens lose by it.
NoSelfInflictedShortfall ==
    [][\A h \in Accounts :
          \/ \A m \in Markets : ctoken'[m].accountBorrows[h].principal = 0
          \/ shortfall(ctoken, h)' <= 1
          \/ /\ ~WeakeningStep(h)
             /\ \A m \in Markets, amount \in Amounts :
                   h \in accountMembership[m] /\ RedeemUnderlying(m, h, amount) =>
                       shortfall(ctoken, h)' <= 1 + lostToRounding(m, h)]_vars
-----------------------------------------------------------------------------
(* What the comments of the code say and its arithmetic does not do: each of *)
(* these fails, in a run of its own.                                         *)

\* _supportMarket "mints small amount of cToken to prevent empty market
\* exploit": a listed market has a supply.
ListedMarketHasSupply ==
    \A m \in Markets : isListed(m) => ctoken[m].totalSupply > 0

\* repayBorrow takes "-1 for the full outstanding amount": the subtraction
\* from totalBorrows never refuses to take the debt of one account.
FullRepaymentPossible ==
    \A m \in Markets, h \in Holders :
        canRepay(ctoken[m], h, borrowBalanceStored(ctoken[m], h))

\* getCashPrior of CEther "excludes the value of the current message": the
\* Comptroller allows a liquidation that pays Ether exactly when it would
\* allow it in the state before the payment.
PaymentIsNotCash ==
    \A m \in EtherMarkets, h \in Accounts, value \in Amounts :
        LET ct == withAccrued(m)
        IN  canAccrue(ctoken[m], block) =>
                (liquidateBorrowAllowed(seenByComptroller(ct, m, value), m, m, h, value)
                   <=> liquidateBorrowAllowed(ct, m, m, h, value))
=============================================================================
