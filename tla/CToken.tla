------------------------------- MODULE CToken -------------------------------
(***************************************************************************)
(* One market of contracts/CToken.sol (with the underlying-token layer of  *)
(* CErc20.sol and CEther.sol) as pure operators: the views, the interest   *)
(* accrual and the EFFECTS sections of the *Fresh functions map a market   *)
(* record to a market record.  The guards that read other contracts, and   *)
(* the transfers of underlying, are in MoneyMarket.                        *)
(***************************************************************************)
EXTENDS JumpRateModel, Functions, FiniteSets

CONSTANTS
    Holders,                    \* every address that can hold cTokens
    borrowRateMaxMantissa,      \* highest borrow rate accrueInterest accepts
    protocolSeizeShareMantissa, \* share of a seizure that goes to reserves
    UintMax                     \* type(uint).max, as allowance and as repay amount

ASSUME CTokenAssumption ==
    /\ IsFiniteSet(Holders)
    /\ borrowRateMaxMantissa \in Nat
    /\ protocolSeizeShareMantissa \in 0 .. expScale
    /\ UintMax \in Nat

reserveFactorMaxMantissa == expScale
mantissaOne == expScale

BorrowSnapshot == [principal : Nat, interestIndex : Nat]

\* The storage of a market; cash is the market's own balance of underlying.
CTokenStorage ==
    [initialExchangeRateMantissa : Nat \ {0},
     interestRateModel : InterestRateModel,
     reserveFactorMantissa : 0 .. reserveFactorMaxMantissa,
     accrualBlockNumber : Nat,
     borrowIndex : Nat \ {0},
     totalBorrows : Nat,
     totalReserves : Nat,
     totalSupply : Nat,
     cash : Nat,
     accountTokens : [Holders -> Nat],
     accountBorrows : [Holders -> BorrowSnapshot],
     transferAllowances : [Holders -> [Holders -> Nat]]]

initialize(rate, irm, now) ==
    [initialExchangeRateMantissa |-> rate,
     interestRateModel |-> irm,
     reserveFactorMantissa |-> 0,
     accrualBlockNumber |-> now,
     borrowIndex |-> mantissaOne,
     totalBorrows |-> 0,
     totalReserves |-> 0,
     totalSupply |-> 0,
     cash |-> 0,
     accountTokens |-> [h \in Holders |-> 0],
     accountBorrows |-> [h \in Holders |-> [principal |-> 0, interestIndex |-> 0]],
     transferAllowances |-> [h \in Holders |-> [g \in Holders |-> 0]]]
-----------------------------------------------------------------------------
(* Views on stored data *)

\* totalCash + totalBorrows - totalReserves underflows, and the call reverts,
\* unless this holds.
exchangeRateDefined(s) ==
    s.totalSupply = 0 \/ s.cash + s.totalBorrows >= s.totalReserves

cashPlusBorrowsMinusReserves(s) == s.cash + s.totalBorrows - s.totalReserves

exchangeRateStored(s) ==
    IF s.totalSupply = 0 THEN s.initialExchangeRateMantissa
    ELSE (cashPlusBorrowsMinusReserves(s) * expScale) \div s.totalSupply

borrowBalanceStored(s, account) ==
    LET snapshot == s.accountBorrows[account]
    IN  IF snapshot.principal = 0 THEN 0
        ELSE (snapshot.principal * s.borrowIndex) \div snapshot.interestIndex
-----------------------------------------------------------------------------
(* Interest *)

borrowRatePerBlock(s) ==
    getBorrowRate(s.interestRateModel, s.cash, s.totalBorrows, s.totalReserves)

\* accrueInterest does not revert; a second call in a block changes nothing
canAccrue(s, now) ==
    \/ s.accrualBlockNumber = now
    \/ /\ utilizationDefined(s.cash, s.totalBorrows, s.totalReserves)
       /\ borrowRatePerBlock(s) <= borrowRateMaxMantissa

\* Faulty variant: the interest replaces the index instead of raising it.
accrueInterestReplacing(s, now) ==
    LET simpleInterestFactor == borrowRatePerBlock(s) * (now - s.accrualBlockNumber)
        interestAccumulated  == mul_ScalarTruncate(simpleInterestFactor, s.totalBorrows)
    IN  IF s.accrualBlockNumber = now THEN s
        ELSE [s EXCEPT
                !.accrualBlockNumber = now,
                !.totalBorrows = interestAccumulated + @,
                !.totalReserves = mul_ScalarTruncateAddUInt(s.reserveFactorMantissa,
                                                            interestAccumulated, @),
                !.borrowIndex = mul_ScalarTruncate(simpleInterestFactor, @)]

accrueInterest(s, now) ==
    LET simpleInterestFactor == borrowRatePerBlock(s) * (now - s.accrualBlockNumber)
        interestAccumulated  == mul_ScalarTruncate(simpleInterestFactor, s.totalBorrows)
    IN  IF s.accrualBlockNumber = now THEN s
        ELSE [s EXCEPT
                !.accrualBlockNumber = now,
                !.totalBorrows = interestAccumulated + @,
                !.totalReserves = mul_ScalarTruncateAddUInt(s.reserveFactorMantissa,
                                                            interestAccumulated, @),
                !.borrowIndex = mul_ScalarTruncateAddUInt(simpleInterestFactor, @, @)]
-----------------------------------------------------------------------------
(* The effects of each operation on the market that executes it *)

\* Faulty variant: the rate is read when the underlying has arrived.
mintFreshAtNewRate(s, minter, actualMintAmount) ==
    LET arrived    == [s EXCEPT !.cash = @ + actualMintAmount]
        mintTokens == div_Exp(actualMintAmount, exchangeRateStored(arrived))
    IN  [arrived EXCEPT !.totalSupply = @ + mintTokens,
                        !.accountTokens[minter] = @ + mintTokens]

\* mintTokens is computed from the rate before the transfer and from the
\* amount that actually arrived.
mintFresh(s, minter, actualMintAmount) ==
    LET mintTokens == div_Exp(actualMintAmount, exchangeRateStored(s))
    IN  [s EXCEPT !.cash = @ + actualMintAmount,
                  !.totalSupply = @ + mintTokens,
                  !.accountTokens[minter] = @ + mintTokens]

redeemFresh(s, redeemer, redeemTokens, redeemAmount) ==
    [s EXCEPT !.totalSupply = @ - redeemTokens,
              !.accountTokens[redeemer] = @ - redeemTokens,
              !.cash = @ - redeemAmount]

borrowFresh(s, borrower, borrowAmount) ==
    [s EXCEPT !.accountBorrows[borrower] =
                  [principal |-> borrowBalanceStored(s, borrower) + borrowAmount,
                   interestIndex |-> s.borrowIndex],
              !.totalBorrows = @ + borrowAmount,
              !.cash = @ - borrowAmount]

\* Faulty variant: the subtractions are unchecked, as in an unchecked block.
canRepayUnchecked(s, borrower, actualRepayAmount) == TRUE

\* The two checked subtractions of repayBorrowFresh
canRepay(s, borrower, actualRepayAmount) ==
    /\ actualRepayAmount <= borrowBalanceStored(s, borrower)
    /\ actualRepayAmount <= s.totalBorrows

repayBorrowFresh(s, borrower, actualRepayAmount) ==
    [s EXCEPT !.accountBorrows[borrower] =
                  [principal |-> borrowBalanceStored(s, borrower) - actualRepayAmount,
                   interestIndex |-> s.borrowIndex],
              !.totalBorrows = @ - actualRepayAmount,
              !.cash = @ + actualRepayAmount]

\* Faulty variant: the protocol's share leaves the accounts but not the supply.
seizeWithoutBurning(s, liquidator, borrower, seizeTokens, exchangeRate) ==
    LET protocolSeizeTokens == mul_Exp(seizeTokens, protocolSeizeShareMantissa)
    IN  [s EXCEPT !.totalReserves = @ + mul_ScalarTruncate(exchangeRate, protocolSeizeTokens),
                  !.accountTokens =
                      [s.accountTokens EXCEPT ![borrower] = @ - seizeTokens,
                                              ![liquidator] = @ + (seizeTokens - protocolSeizeTokens)]]

\* Faulty variant: the reserves are credited with the whole seizure.
seizeForReserves(s, liquidator, borrower, seizeTokens, exchangeRate) ==
    LET protocolSeizeTokens == mul_Exp(seizeTokens, protocolSeizeShareMantissa)
    IN  [s EXCEPT !.totalReserves = @ + mul_ScalarTruncate(exchangeRate, seizeTokens),
                  !.totalSupply = @ - protocolSeizeTokens,
                  !.accountTokens =
                      [s.accountTokens EXCEPT ![borrower] = @ - seizeTokens,
                                              ![liquidator] = @ + (seizeTokens - protocolSeizeTokens)]]

\* Faulty variant: liquidator and borrower are swapped.
seizeFromLiquidator(s, liquidator, borrower, seizeTokens, exchangeRate) ==
    LET protocolSeizeTokens == mul_Exp(seizeTokens, protocolSeizeShareMantissa)
    IN  [s EXCEPT !.totalReserves = @ + mul_ScalarTruncate(exchangeRate, protocolSeizeTokens),
                  !.totalSupply = @ - protocolSeizeTokens,
                  !.accountTokens =
                      [s.accountTokens EXCEPT ![liquidator] = @ - seizeTokens,
                                              ![borrower] = @ + (seizeTokens - protocolSeizeTokens)]]

\* exchangeRate is the caller's reading of exchangeRateStoredInternal.
seizeInternal(s, liquidator, borrower, seizeTokens, exchangeRate) ==
    LET protocolSeizeTokens == mul_Exp(seizeTokens, protocolSeizeShareMantissa)
    IN  [s EXCEPT !.totalReserves = @ + mul_ScalarTruncate(exchangeRate, protocolSeizeTokens),
                  !.totalSupply = @ - protocolSeizeTokens,
                  !.accountTokens =
                      [s.accountTokens EXCEPT ![borrower] = @ - seizeTokens,
                                              ![liquidator] = @ + (seizeTokens - protocolSeizeTokens)]]

startingAllowance(s, spender, src) ==
    IF spender = src THEN UintMax ELSE s.transferAllowances[src][spender]

transferTokens(s, spender, src, dst, tokens) ==
    [s EXCEPT !.accountTokens = [s.accountTokens EXCEPT ![src] = @ - tokens,
                                                        ![dst] = @ + tokens],
              !.transferAllowances[src][spender] =
                  IF startingAllowance(s, spender, src) = UintMax THEN @ ELSE @ - tokens]

addReservesFresh(s, actualAddAmount) ==
    [s EXCEPT !.totalReserves = @ + actualAddAmount, !.cash = @ + actualAddAmount]

reduceReservesFresh(s, reduceAmount) ==
    [s EXCEPT !.totalReserves = @ - reduceAmount, !.cash = @ - reduceAmount]
-----------------------------------------------------------------------------
\* The index of a debt's snapshot was the market's borrowIndex once.
validSnapshots(s) ==
    \A h \in Holders :
        s.accountBorrows[h].principal > 0 =>
            s.accountBorrows[h].interestIndex \in 1 .. s.borrowIndex

\* The cTokens of all accounts are the supply.
tokensAddUp(s) == s.totalSupply = SumFunctionOnSet(s.accountTokens, Holders)

\* What every transaction finds in a market, and leaves there
validMarket(s, now) ==
    /\ s \in CTokenStorage
    /\ s.accrualBlockNumber <= now
    /\ validSnapshots(s)
    /\ tokensAddUp(s)
=============================================================================
