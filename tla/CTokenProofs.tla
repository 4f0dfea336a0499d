---------------------------- MODULE CTokenProofs ----------------------------
(***************************************************************************)
(* What the operators of CToken return, for every scale, model and state:  *)
(* each one maps a market record to a market record when its guards hold,  *)
(* and accrueInterest and the effects keep every snapshot valid.           *)
(***************************************************************************)
EXTENDS CToken, SumProofs

(* Arithmetic of truncated quotients *)

\* A product of naturals is a natural (expScale and mantissas throughout).
LEMMA ProductNat ==
  ASSUME NEW a \in Nat, NEW b \in Nat
  PROVE  a * b \in Nat
OBVIOUS

\* A truncated quotient of naturals with a positive divisor is a natural.
LEMMA QuotientNat ==
  ASSUME NEW a \in Nat, NEW b \in Nat, b # 0
  PROVE  a \div b \in Nat
OBVIOUS

\* Scaling by a fraction at most 1 (the protocol's share, a transfer fee)
\* does not increase an amount.
LEMMA FractionBound ==
  ASSUME NEW a \in Nat, NEW b \in Nat, NEW c \in Nat, c # 0, b <= c
  PROVE  (a * b) \div c <= a
<1>1. a * b <= a * c
  OBVIOUS
<1>2. (a * c) \div c = a
  OBVIOUS
<1>3. QED
  BY <1>1, <1>2

\* Scaling by a ratio at least 1 (index now over index then) does not
\* decrease an amount.
LEMMA RatioBound ==
  ASSUME NEW p \in Nat, NEW i \in Nat, NEW j \in Nat, j # 0, i >= j
  PROVE  (p * i) \div j >= p
<1>1. p * i >= p * j
  OBVIOUS
<1>2. (p * j) \div j = p
  OBVIOUS
<1>3. QED
  BY <1>1, <1>2
-----------------------------------------------------------------------------
(* The views *)

\* mul_(a, Exp) of naturals
LEMMA MulExpNat ==
  ASSUME NEW a \in Nat, NEW b \in Nat
  PROVE  mul_Exp(a, b) \in Nat
<1>1. a * b \in Nat
  BY ProductNat
<1>2. QED
  BY <1>1, QuotientNat, ExpScaleAssumption DEF mul_Exp

\* mul_ScalarTruncate of naturals
LEMMA ScalarTruncateNat ==
  ASSUME NEW a \in Nat, NEW b \in Nat
  PROVE  mul_ScalarTruncate(a, b) \in Nat
<1>1. a * b \in Nat
  BY ProductNat
<1>2. QED
  BY <1>1, QuotientNat, ExpScaleAssumption DEF mul_ScalarTruncate, truncate

\* div_(a, Exp) of naturals
LEMMA DivExpNat ==
  ASSUME NEW a \in Nat, NEW b \in Nat, b # 0
  PROVE  div_Exp(a, b) \in Nat
<1>1. a * expScale \in Nat
  BY ProductNat, ExpScaleAssumption
<1>2. QED
  BY <1>1, QuotientNat DEF div_Exp

\* Where exchangeRateStored does not revert it returns a natural.
LEMMA ExchangeRateNat ==
  ASSUME NEW s \in CTokenStorage, exchangeRateDefined(s)
  PROVE  exchangeRateStored(s) \in Nat
<1>1. /\ s.cash \in Nat /\ s.totalBorrows \in Nat /\ s.totalReserves \in Nat
      /\ s.totalSupply \in Nat /\ s.initialExchangeRateMantissa \in Nat
  BY DEF CTokenStorage
<1>2. CASE s.totalSupply = 0
  BY <1>1, <1>2 DEF exchangeRateStored
<1>3. CASE s.totalSupply # 0
  <2>1. cashPlusBorrowsMinusReserves(s) \in Nat
    BY <1>1, <1>3 DEF exchangeRateDefined, cashPlusBorrowsMinusReserves
  <2>2. cashPlusBorrowsMinusReserves(s) * expScale \in Nat
    BY <2>1, ProductNat, ExpScaleAssumption
  <2>3. QED
    BY <1>1, <1>3, <2>2, QuotientNat DEF exchangeRateStored
<1>4. QED
  BY <1>2, <1>3

\* A stored borrow balance is a natural, and never less than the principal:
\* a debt that is not zero never reads as zero.
LEMMA BorrowBalanceBound ==
  ASSUME NEW s \in CTokenStorage, validSnapshots(s), NEW h \in Holders
  PROVE  /\ borrowBalanceStored(s, h) \in Nat
         /\ borrowBalanceStored(s, h) >= s.accountBorrows[h].principal
<1> DEFINE p == s.accountBorrows[h].principal
           i == s.accountBorrows[h].interestIndex
<1>1. p \in Nat /\ i \in Nat /\ s.borrowIndex \in Nat
  BY DEF CTokenStorage, BorrowSnapshot
<1>2. CASE p = 0
  BY <1>1, <1>2 DEF borrowBalanceStored
<1>3. CASE p # 0
  <2>1. i # 0 /\ s.borrowIndex >= i
    BY <1>1, <1>3 DEF validSnapshots
  <2>2. borrowBalanceStored(s, h) = (p * s.borrowIndex) \div i
    BY <1>3 DEF borrowBalanceStored
  <2>3. p * s.borrowIndex \in Nat
    BY <1>1, ProductNat
  <2>4. QED
    BY <1>1, <2>1, <2>2, <2>3, RatioBound, QuotientNat
<1>4. QED
  BY <1>2, <1>3

\* Where getBorrowRate does not revert it returns a natural.
LEMMA BorrowRateNat ==
  ASSUME NEW s \in CTokenStorage,
         utilizationDefined(s.cash, s.totalBorrows, s.totalReserves)
  PROVE  borrowRatePerBlock(s) \in Nat
<1> DEFINE irm  == s.interestRateModel
           util == utilizationRate(s.cash, s.totalBorrows, s.totalReserves)
<1>1. /\ s.cash \in Nat /\ s.totalBorrows \in Nat /\ s.totalReserves \in Nat
      /\ irm \in InterestRateModel
  BY DEF CTokenStorage
<1>2. /\ irm.baseRatePerBlock \in Nat /\ irm.multiplierPerBlock \in Nat
      /\ irm.jumpMultiplierPerBlock \in Nat /\ irm.kink \in Nat
  BY <1>1 DEF InterestRateModel
<1>3. util \in Nat
  <2>1. CASE s.totalBorrows = 0
    BY <2>1 DEF utilizationRate
  <2>2. CASE s.totalBorrows # 0
    <3>1. /\ s.cash + s.totalBorrows - s.totalReserves \in Nat
          /\ s.cash + s.totalBorrows - s.totalReserves # 0
      BY <1>1, <2>2 DEF utilizationDefined
    <3>2. s.totalBorrows * expScale \in Nat
      BY <1>1, ProductNat, ExpScaleAssumption
    <3>3. QED
      BY <2>2, <3>1, <3>2, QuotientNat DEF utilizationRate
  <2>3. QED
    BY <2>1, <2>2
<1>4. /\ mul_Exp(util, irm.multiplierPerBlock) \in Nat
      /\ mul_Exp(irm.kink, irm.multiplierPerBlock) \in Nat
  BY <1>2, <1>3, MulExpNat
<1>5. ~(util <= irm.kink) => mul_Exp(util - irm.kink, irm.jumpMultiplierPerBlock) \in Nat
  <2>1. ~(util <= irm.kink) => util - irm.kink \in Nat
    BY <1>2, <1>3
  <2>2. QED
    BY <1>2, <2>1, MulExpNat
<1>6. QED
  BY <1>2, <1>4, <1>5 DEF borrowRatePerBlock, getBorrowRate
-----------------------------------------------------------------------------
(* The transitions of a market *)

\* The accounts' cTokens are as many as the supply, in numbers that add up.
LEMMA HoldersFinite == IsFiniteSet(Holders)
BY CTokenAssumption

\* Tokens that one account gets (delta > 0) or gives up move the sum with them.
LEMMA OneBalanceChanges ==
  ASSUME NEW s \in CTokenStorage, tokensAddUp(s), NEW h \in Holders, NEW delta \in Int,
         NEW e \in [Holders -> Int], e[h] = s.accountTokens[h] + delta,
         \A k \in Holders \ {h} : e[k] = s.accountTokens[k]
  PROVE  SumFunctionOnSet(e, Holders) = s.totalSupply + delta
<1> DEFINE f == s.accountTokens
<1>1. \A k \in Holders : f[k] \in Int /\ e[k] \in Int
  BY DEF CTokenStorage
<1>2. f[h] \in Int /\ e[h] = f[h] + delta /\ \A k \in Holders \ {h} : e[k] = f[k]
  BY <1>1
<1>3. s.totalSupply = SumFunctionOnSet(f, Holders) /\ s.totalSupply \in Int
  BY DEF tokensAddUp, CTokenStorage
<1> HIDE DEF f
<1>4. SumFunctionOnSet(e, Holders) = SumFunctionOnSet(f, Holders) - f[h] + e[h]
  BY <1>1, <1>2, HoldersFinite, SumChange
<1>5. QED
  BY <1>2, <1>3, <1>4

\* Two accounts change.
LEMMA TwoBalancesChange ==
  ASSUME NEW s \in CTokenStorage, tokensAddUp(s),
         NEW src \in Holders, NEW dst \in Holders, src # dst,
         NEW lost \in Int, NEW gained \in Int
  PROVE  SumFunctionOnSet([s.accountTokens EXCEPT ![src] = @ - lost, ![dst] = @ + gained],
                          Holders) = s.totalSupply - lost + gained
<1> DEFINE f == s.accountTokens
           e == [f EXCEPT ![src] = @ - lost]
           d == [f EXCEPT ![src] = @ - lost, ![dst] = @ + gained]
<1>1. f \in [Holders -> Nat] /\ s.totalSupply \in Nat
  BY DEF CTokenStorage
<1>2. /\ e \in [Holders -> Int] /\ e[src] = f[src] - lost /\ e[dst] = f[dst]
      /\ \A k \in Holders \ {src} : e[k] = f[k]
  BY <1>1
<1>3. /\ d \in [Holders -> Int] /\ d[dst] = e[dst] + gained
      /\ \A k \in Holders \ {dst} : d[k] = e[k]
  BY <1>1
<1>4. f[src] - lost = f[src] + (-lost) /\ -lost \in Int
  BY <1>1
<1> HIDE DEF e, d
<1>5. SumFunctionOnSet(e, Holders) = s.totalSupply + (-lost)
  BY <1>2, <1>4, OneBalanceChanges
<1>6. \A k \in Holders : d[k] \in Int /\ e[k] \in Int
  BY <1>2, <1>3
<1>7. SumFunctionOnSet(d, Holders) = SumFunctionOnSet(e, Holders) - e[dst] + d[dst]
  BY <1>3, <1>6, HoldersFinite, SumChange
<1>8. SumFunctionOnSet(d, Holders) = s.totalSupply - lost + gained
  BY <1>1, <1>3, <1>5, <1>6, <1>7
<1>9. QED
  BY <1>8 DEF d


\* A market starts valid and empty.
LEMMA InitializeValid ==
  ASSUME NEW rate \in Nat \ {0}, NEW irm \in InterestRateModel, NEW now \in Nat
  PROVE  LET s == initialize(rate, irm, now)
         IN  /\ validMarket(s, now)
             /\ s.totalSupply = 0 /\ s.totalBorrows = 0
             /\ \A h \in Holders : s.accountBorrows[h].principal = 0
<1> DEFINE s == initialize(rate, irm, now)
<1>1. /\ s.totalSupply = 0 /\ s.totalBorrows = 0
      /\ \A h \in Holders : s.accountBorrows[h].principal = 0
  BY DEF initialize
<1>2. validMarket(s, now)
  <2>1. s \in CTokenStorage /\ s.accrualBlockNumber <= now /\ validSnapshots(s)
    BY ExpScaleAssumption
       DEF validSnapshots, initialize, CTokenStorage, BorrowSnapshot,
           reserveFactorMaxMantissa, mantissaOne
  <2>2. s.totalSupply = 0 /\ \A h \in Holders : s.accountTokens[h] = 0
    BY DEF initialize
  <2> HIDE DEF s
  <2>3. SumFunctionOnSet(s.accountTokens, Holders) = 0
    BY <2>2, HoldersFinite, SumZeros
  <2>4. QED
    BY <2>1, <2>2, <2>3 DEF validMarket, tokensAddUp
<1>3. QED
  BY <1>1, <1>2

\* accrueInterest returns a valid market accrued to the present block; it
\* moves no tokens, and makes no debt where there was none.
LEMMA AccrueValid ==
  ASSUME NEW s, NEW now \in Nat, validMarket(s, now), canAccrue(s, now)
  PROVE  /\ validMarket(accrueInterest(s, now), now)
         /\ accrueInterest(s, now).totalSupply = s.totalSupply
         /\ accrueInterest(s, now).accountTokens = s.accountTokens
         /\ accrueInterest(s, now).accountBorrows = s.accountBorrows
         /\ s.totalBorrows = 0 => accrueInterest(s, now).totalBorrows = 0
<1> DEFINE factor   == borrowRatePerBlock(s) * (now - s.accrualBlockNumber)
           interest == mul_ScalarTruncate(factor, s.totalBorrows)
           reserves == mul_ScalarTruncateAddUInt(s.reserveFactorMantissa, interest,
                                                 s.totalReserves)
           index    == mul_ScalarTruncateAddUInt(factor, s.borrowIndex, s.borrowIndex)
           t        == [s EXCEPT !.accrualBlockNumber = now,
                                 !.totalBorrows = interest + s.totalBorrows,
                                 !.totalReserves = reserves,
                                 !.borrowIndex = index]
<1>0. /\ s \in CTokenStorage /\ validSnapshots(s)
      /\ s.accrualBlockNumber \in Nat /\ s.accrualBlockNumber <= now
      /\ s.totalBorrows \in Nat /\ s.totalReserves \in Nat
      /\ s.borrowIndex \in Nat \ {0} /\ s.reserveFactorMantissa \in Nat
  BY ExpScaleAssumption DEF validMarket, CTokenStorage, reserveFactorMaxMantissa
<1>1. CASE s.accrualBlockNumber = now
  <2>1. accrueInterest(s, now) = s
    BY <1>1 DEF accrueInterest
  <2>2. QED
    BY <2>1, <1>0 DEF validMarket
<1>2. CASE s.accrualBlockNumber # now
  <2>1. accrueInterest(s, now) = t
    BY <1>2 DEF accrueInterest
  <2>2. factor \in Nat
    <3>1. borrowRatePerBlock(s) \in Nat
      BY <1>0, <1>2, BorrowRateNat DEF canAccrue
    <3>2. now - s.accrualBlockNumber \in Nat
      BY <1>0
    <3>3. QED
      BY <3>1, <3>2, ProductNat
  <2>3. interest \in Nat
    BY <1>0, <2>2, ScalarTruncateNat
  <2>4. reserves \in Nat
    <3>1. mul_ScalarTruncate(s.reserveFactorMantissa, interest) \in Nat
      BY <1>0, <2>3, ScalarTruncateNat
    <3>2. QED
      BY <3>1, <1>0 DEF mul_ScalarTruncateAddUInt, mul_ScalarTruncate
  <2>5. index \in Nat /\ index >= s.borrowIndex
    <3>1. mul_ScalarTruncate(factor, s.borrowIndex) \in Nat
      BY <1>0, <2>2, ScalarTruncateNat
    <3>2. QED
      BY <3>1, <1>0 DEF mul_ScalarTruncateAddUInt, mul_ScalarTruncate
  <2> HIDE DEF factor, interest, reserves, index
  <2>6. t \in CTokenStorage
    <3>1. interest + s.totalBorrows \in Nat /\ index \in Nat \ {0}
      BY <1>0, <2>3, <2>5
    <3>2. QED
      BY <1>0, <2>4, <3>1 DEF CTokenStorage
  <2>7. validSnapshots(t)
    <3>1. t.accountBorrows = s.accountBorrows /\ t.borrowIndex = index
      BY <1>0 DEF CTokenStorage
    <3>2. SUFFICES ASSUME NEW h \in Holders, t.accountBorrows[h].principal > 0
                   PROVE  t.accountBorrows[h].interestIndex \in 1 .. t.borrowIndex
      BY DEF validSnapshots
    <3>3. s.accountBorrows[h].interestIndex \in 1 .. s.borrowIndex
      BY <1>0, <3>1, <3>2 DEF validSnapshots
    <3>4. QED
      BY <1>0, <2>5, <3>1, <3>3
  <2>8. s.totalBorrows = 0 => t.totalBorrows = 0
    <3>1. ASSUME s.totalBorrows = 0
          PROVE  interest = 0
      <4>1. factor * 0 = 0
        BY <2>2
      <4>2. 0 \div expScale = 0
        BY ExpScaleAssumption
      <4>3. QED
        BY <3>1, <4>1, <4>2 DEF interest, mul_ScalarTruncate, truncate
    <3>2. QED
      BY <3>1, <1>0 DEF CTokenStorage
  <2>9. /\ t.accrualBlockNumber = now /\ t.totalSupply = s.totalSupply
        /\ t.accountTokens = s.accountTokens /\ t.accountBorrows = s.accountBorrows
    BY <1>0 DEF CTokenStorage
  <2>10. now <= now
    OBVIOUS
  <2>11. validMarket(t, now)
    BY <2>6, <2>7, <2>9, <2>10 DEF validMarket, tokensAddUp
  <2>12. QED
    BY <2>1, <2>8, <2>9, <2>11
<1>3. QED
  BY <1>1, <1>2

\* mintFresh, with a rate that is defined and not zero
LEMMA MintValid ==
  ASSUME NEW s, NEW now \in Nat, validMarket(s, now),
         exchangeRateDefined(s), exchangeRateStored(s) # 0,
         NEW minter \in Holders, NEW amount \in Nat
  PROVE  /\ validMarket(mintFresh(s, minter, amount), now)
         /\ mintFresh(s, minter, amount).accountBorrows = s.accountBorrows
<1> DEFINE tokens == div_Exp(amount, exchangeRateStored(s))
           t      == [s EXCEPT !.cash = @ + amount,
                               !.totalSupply = @ + tokens,
                               !.accountTokens[minter] = @ + tokens]
<1>1. s \in CTokenStorage
  BY DEF validMarket
<1>2. tokens \in Nat
  BY <1>1, ExchangeRateNat, DivExpNat
<1>3. mintFresh(s, minter, amount) = t
  BY DEF mintFresh
<1> HIDE DEF tokens
<1>4. /\ s.cash + amount \in Nat /\ s.totalSupply + tokens \in Nat
      /\ [s.accountTokens EXCEPT ![minter] = @ + tokens] \in [Holders -> Nat]
  BY <1>1, <1>2 DEF CTokenStorage
<1>5. t \in CTokenStorage
  BY <1>1, <1>4 DEF CTokenStorage
<1>6. /\ t.accountBorrows = s.accountBorrows /\ t.borrowIndex = s.borrowIndex
      /\ t.accrualBlockNumber = s.accrualBlockNumber
  BY <1>1 DEF CTokenStorage
<1>7. tokensAddUp(t)
  <2> DEFINE e == [s.accountTokens EXCEPT ![minter] = @ + tokens]
  <2>1. /\ e \in [Holders -> Int] /\ e[minter] = s.accountTokens[minter] + tokens
        /\ \A k \in Holders \ {minter} : e[k] = s.accountTokens[k]
    BY <1>1, <1>2 DEF CTokenStorage
  <2>2. t.accountTokens = e /\ t.totalSupply = s.totalSupply + tokens
    BY <1>1 DEF CTokenStorage
  <2> HIDE DEF e, t
  <2>3. SumFunctionOnSet(e, Holders) = s.totalSupply + tokens
    BY <1>1, <1>2, <2>1, OneBalanceChanges DEF validMarket
  <2>4. QED
    BY <2>2, <2>3 DEF tokensAddUp
<1>8. QED
  BY <1>3, <1>5, <1>6, <1>7 DEF validMarket, validSnapshots

\* redeemFresh, of tokens and cash that are there
LEMMA RedeemValid ==
  ASSUME NEW s, NEW now \in Nat, validMarket(s, now),
         NEW redeemer \in Holders, NEW tokens \in Nat, NEW amount \in Nat,
         s.accountTokens[redeemer] >= tokens, s.totalSupply >= tokens, s.cash >= amount
  PROVE  /\ validMarket(redeemFresh(s, redeemer, tokens, amount), now)
         /\ redeemFresh(s, redeemer, tokens, amount).accountBorrows = s.accountBorrows
<1> DEFINE t == [s EXCEPT !.totalSupply = @ - tokens,
                          !.accountTokens[redeemer] = @ - tokens,
                          !.cash = @ - amount]
<1>1. s \in CTokenStorage
  BY DEF validMarket
<1>2. redeemFresh(s, redeemer, tokens, amount) = t
  BY DEF redeemFresh
<1>3. /\ s.cash - amount \in Nat /\ s.totalSupply - tokens \in Nat
      /\ [s.accountTokens EXCEPT ![redeemer] = @ - tokens] \in [Holders -> Nat]
  BY <1>1 DEF CTokenStorage
<1>4. t \in CTokenStorage
  BY <1>1, <1>3 DEF CTokenStorage
<1>5. /\ t.accountBorrows = s.accountBorrows /\ t.borrowIndex = s.borrowIndex
      /\ t.accrualBlockNumber = s.accrualBlockNumber
  BY <1>1 DEF CTokenStorage
<1>6. tokensAddUp(t)
  <2> DEFINE e == [s.accountTokens EXCEPT ![redeemer] = @ - tokens]
  <2>1. /\ e \in [Holders -> Int] /\ e[redeemer] = s.accountTokens[redeemer] + (-tokens)
        /\ \A k \in Holders \ {redeemer} : e[k] = s.accountTokens[k]
    BY <1>1 DEF CTokenStorage
  <2>2. t.accountTokens = e /\ t.totalSupply = s.totalSupply - tokens
    BY <1>1 DEF CTokenStorage
  <2>3. -tokens \in Int /\ s.totalSupply - tokens = s.totalSupply + (-tokens)
    BY <1>1 DEF CTokenStorage
  <2> HIDE DEF e, t
  <2>4. SumFunctionOnSet(e, Holders) = s.totalSupply + (-tokens)
    BY <1>1, <2>1, <2>3, OneBalanceChanges DEF validMarket
  <2>5. QED
    BY <2>2, <2>3, <2>4 DEF tokensAddUp
<1>7. QED
  BY <1>2, <1>4, <1>5, <1>6 DEF validMarket, validSnapshots

\* borrowFresh, of cash that is there; nobody else's debt changes.
LEMMA BorrowValid ==
  ASSUME NEW s, NEW now \in Nat, validMarket(s, now),
         NEW borrower \in Holders, NEW amount \in Nat, s.cash >= amount
  PROVE  /\ validMarket(borrowFresh(s, borrower, amount), now)
         /\ \A h \in Holders \ {borrower} :
               borrowFresh(s, borrower, amount).accountBorrows[h] = s.accountBorrows[h]
<1> DEFINE debt == [principal |-> borrowBalanceStored(s, borrower) + amount,
                    interestIndex |-> s.borrowIndex]
           t    == [s EXCEPT !.accountBorrows[borrower] = debt,
                             !.totalBorrows = @ + amount,
                             !.cash = @ - amount]
<1>1. s \in CTokenStorage /\ validSnapshots(s)
  BY DEF validMarket
<1>2. borrowFresh(s, borrower, amount) = t
  BY DEF borrowFresh
<1>3. s.borrowIndex \in Nat \ {0}
  BY <1>1 DEF CTokenStorage
<1>4. debt \in BorrowSnapshot /\ debt.interestIndex = s.borrowIndex
  BY <1>1, <1>3, BorrowBalanceBound DEF BorrowSnapshot
<1> HIDE DEF debt
<1>5. /\ s.cash - amount \in Nat /\ s.totalBorrows + amount \in Nat
      /\ [s.accountBorrows EXCEPT ![borrower] = debt] \in [Holders -> BorrowSnapshot]
  BY <1>1, <1>4 DEF CTokenStorage
<1>6. t \in CTokenStorage
  BY <1>1, <1>5 DEF CTokenStorage
<1>7. /\ t.accountBorrows = [s.accountBorrows EXCEPT ![borrower] = debt]
      /\ t.borrowIndex = s.borrowIndex /\ t.accrualBlockNumber = s.accrualBlockNumber
      /\ t.accountTokens = s.accountTokens /\ t.totalSupply = s.totalSupply
  BY <1>1 DEF CTokenStorage
<1>8. \A h \in Holders : t.accountBorrows[h] =
                            IF h = borrower THEN debt ELSE s.accountBorrows[h]
  BY <1>1, <1>7 DEF CTokenStorage
<1>9. validSnapshots(t)
  BY <1>1, <1>3, <1>4, <1>7, <1>8 DEF validSnapshots
<1>10. QED
  BY <1>2, <1>6, <1>7, <1>8, <1>9 DEF validMarket, tokensAddUp

\* repayBorrowFresh, within the debt and the total; it makes nobody a debtor.
LEMMA RepayValid ==
  ASSUME NEW s, NEW now \in Nat, validMarket(s, now),
         NEW borrower \in Holders, NEW amount \in Nat, canRepay(s, borrower, amount)
  PROVE  /\ validMarket(repayBorrowFresh(s, borrower, amount), now)
         /\ \A h \in Holders :
               repayBorrowFresh(s, borrower, amount).accountBorrows[h].principal > 0
                 => s.accountBorrows[h].principal > 0
         /\ repayBorrowFresh(s, borrower, amount).accountTokens = s.accountTokens
         /\ repayBorrowFresh(s, borrower, amount).totalSupply = s.totalSupply
<1> DEFINE debt == [principal |-> borrowBalanceStored(s, borrower) - amount,
                    interestIndex |-> s.borrowIndex]
           t    == [s EXCEPT !.accountBorrows[borrower] = debt,
                             !.totalBorrows = @ - amount,
                             !.cash = @ + amount]
<1>1. s \in CTokenStorage /\ validSnapshots(s)
  BY DEF validMarket
<1>2. repayBorrowFresh(s, borrower, amount) = t
  BY DEF repayBorrowFresh
<1>3. s.borrowIndex \in Nat \ {0} /\ s.totalBorrows \in Nat
      /\ s.accountBorrows[borrower].principal \in Nat
  BY <1>1 DEF CTokenStorage, BorrowSnapshot
<1>4. borrowBalanceStored(s, borrower) \in Nat
  BY <1>1, BorrowBalanceBound
<1>5. borrowBalanceStored(s, borrower) - amount \in Nat
  BY <1>4 DEF canRepay
<1>6. /\ debt \in BorrowSnapshot /\ debt.interestIndex = s.borrowIndex
      /\ debt.principal > 0 => s.accountBorrows[borrower].principal > 0
  <2>1. debt \in BorrowSnapshot /\ debt.interestIndex = s.borrowIndex
    BY <1>3, <1>5 DEF BorrowSnapshot
  <2>2. s.accountBorrows[borrower].principal = 0 => borrowBalanceStored(s, borrower) = 0
    BY DEF borrowBalanceStored
  <2>3. debt.principal = borrowBalanceStored(s, borrower) - amount
    OBVIOUS
  <2>4. QED
    BY <1>3, <1>4, <1>5, <2>1, <2>2, <2>3
<1> HIDE DEF debt
<1>7. /\ s.cash + amount \in Nat /\ s.totalBorrows - amount \in Nat
      /\ [s.accountBorrows EXCEPT ![borrower] = debt] \in [Holders -> BorrowSnapshot]
  BY <1>1, <1>6 DEF CTokenStorage, canRepay
<1>8. t \in CTokenStorage
  BY <1>1, <1>7 DEF CTokenStorage
<1>9. /\ t.accountBorrows = [s.accountBorrows EXCEPT ![borrower] = debt]
      /\ t.borrowIndex = s.borrowIndex /\ t.accrualBlockNumber = s.accrualBlockNumber
      /\ t.accountTokens = s.accountTokens /\ t.totalSupply = s.totalSupply
  BY <1>1 DEF CTokenStorage
<1>10. \A h \in Holders : t.accountBorrows[h] =
                             IF h = borrower THEN debt ELSE s.accountBorrows[h]
  BY <1>1, <1>9 DEF CTokenStorage
<1>11. validSnapshots(t)
  BY <1>1, <1>3, <1>6, <1>9, <1>10 DEF validSnapshots
<1>12. QED
  BY <1>2, <1>6, <1>8, <1>9, <1>10, <1>11 DEF validMarket, tokensAddUp

\* seizeInternal, of tokens the borrower holds and a protocol share the supply
\* covers; at most the seized tokens change hands.
LEMMA SeizeValid ==
  ASSUME NEW s, NEW now \in Nat, validMarket(s, now),
         NEW liquidator \in Holders, NEW borrower \in Holders, liquidator # borrower,
         NEW tokens \in Nat, NEW rate \in Nat,
         s.accountTokens[borrower] >= tokens,
         s.totalSupply >= mul_Exp(tokens, protocolSeizeShareMantissa)
  PROVE  /\ validMarket(seizeInternal(s, liquidator, borrower, tokens, rate), now)
         /\ seizeInternal(s, liquidator, borrower, tokens, rate).accountBorrows
              = s.accountBorrows
<1> DEFINE share    == mul_Exp(tokens, protocolSeizeShareMantissa)
           reserves == mul_ScalarTruncate(rate, share)
           t        == [s EXCEPT !.totalReserves = @ + reserves,
                                 !.totalSupply = @ - share,
                                 !.accountTokens =
                                    [s.accountTokens EXCEPT ![borrower] = @ - tokens,
                                                            ![liquidator] = @ + (tokens - share)]]
<1>1. s \in CTokenStorage
  BY DEF validMarket
<1>2. seizeInternal(s, liquidator, borrower, tokens, rate) = t
  BY DEF seizeInternal
<1>3. share \in Nat /\ share <= tokens
  <2>1. /\ protocolSeizeShareMantissa \in Nat /\ protocolSeizeShareMantissa <= expScale
        /\ expScale \in Nat /\ expScale # 0
    BY CTokenAssumption, ExpScaleAssumption
  <2>2. share \in Nat
    BY <2>1, MulExpNat
  <2>3. (tokens * protocolSeizeShareMantissa) \div expScale <= tokens
    BY <2>1, FractionBound
  <2>4. QED
    BY <2>2, <2>3 DEF mul_Exp
<1>4. reserves \in Nat
  BY <1>3, ScalarTruncateNat
<1>5. s.totalSupply - share \in Nat /\ s.totalReserves + reserves \in Nat
  BY <1>1, <1>3, <1>4 DEF CTokenStorage
<1> HIDE DEF share, reserves
<1>6. [s.accountTokens EXCEPT ![borrower] = @ - tokens,
                              ![liquidator] = @ + (tokens - share)] \in [Holders -> Nat]
  BY <1>1, <1>3 DEF CTokenStorage
<1>7. t \in CTokenStorage
  BY <1>1, <1>5, <1>6 DEF CTokenStorage
<1>8. /\ t.accountBorrows = s.accountBorrows /\ t.borrowIndex = s.borrowIndex
      /\ t.accrualBlockNumber = s.accrualBlockNumber
  BY <1>1 DEF CTokenStorage
<1>9. tokensAddUp(t)
  <2> DEFINE e == [s.accountTokens EXCEPT ![borrower] = @ - tokens,
                                          ![liquidator] = @ + (tokens - share)]
  <2>1. t.accountTokens = e /\ t.totalSupply = s.totalSupply - share
    BY <1>1 DEF CTokenStorage
  <2>2. tokens \in Int /\ tokens - share \in Int
    BY <1>3
  <2>3. SumFunctionOnSet(e, Holders) = s.totalSupply - tokens + (tokens - share)
    BY <1>1, <2>2, TwoBalancesChange DEF validMarket
  <2>4. s.totalSupply - tokens + (tokens - share) = s.totalSupply - share
    BY <1>1, <1>3 DEF CTokenStorage
  <2> HIDE DEF e, t
  <2>5. QED
    BY <2>1, <2>3, <2>4 DEF tokensAddUp
<1>10. QED
  BY <1>2, <1>7, <1>8, <1>9 DEF validMarket, validSnapshots

\* transferTokens, within the balance and the allowance
LEMMA TransferValid ==
  ASSUME NEW s, NEW now \in Nat, validMarket(s, now),
         NEW spender \in Holders, NEW src \in Holders, NEW dst \in Holders, src # dst,
         NEW tokens \in Nat, s.accountTokens[src] >= tokens,
         startingAllowance(s, spender, src) >= tokens
  PROVE  /\ validMarket(transferTokens(s, spender, src, dst, tokens), now)
         /\ transferTokens(s, spender, src, dst, tokens).accountBorrows = s.accountBorrows
<1> DEFINE left == IF startingAllowance(s, spender, src) = UintMax
                   THEN s.transferAllowances[src][spender]
                   ELSE s.transferAllowances[src][spender] - tokens
           t    == [s EXCEPT !.accountTokens = [s.accountTokens EXCEPT ![src] = @ - tokens,
                                                                       ![dst] = @ + tokens],
                             !.transferAllowances[src][spender] = left]
<1>1. s \in CTokenStorage
  BY DEF validMarket
<1>2. s.transferAllowances \in [Holders -> [Holders -> Nat]]
      /\ s.accountTokens \in [Holders -> Nat]
  BY <1>1 DEF CTokenStorage
<1>3. transferTokens(s, spender, src, dst, tokens) = t
  BY DEF transferTokens
<1>4. left \in Nat
  <2>1. s.transferAllowances[src][spender] \in Nat
    BY <1>2
  <2>2. startingAllowance(s, spender, src) # UintMax
          => startingAllowance(s, spender, src) = s.transferAllowances[src][spender]
    BY DEF startingAllowance
  <2>3. QED
    BY <2>1, <2>2
<1> HIDE DEF left
<1>5. /\ [s.accountTokens EXCEPT ![src] = @ - tokens, ![dst] = @ + tokens] \in [Holders -> Nat]
      /\ [s.transferAllowances EXCEPT ![src][spender] = left]
            \in [Holders -> [Holders -> Nat]]
  BY <1>2, <1>4
<1>6. t \in CTokenStorage
  BY <1>1, <1>5 DEF CTokenStorage
<1>7. /\ t.accountBorrows = s.accountBorrows /\ t.borrowIndex = s.borrowIndex
      /\ t.accrualBlockNumber = s.accrualBlockNumber
  BY <1>1 DEF CTokenStorage
<1>8. tokensAddUp(t)
  <2> DEFINE e == [s.accountTokens EXCEPT ![src] = @ - tokens, ![dst] = @ + tokens]
  <2>1. t.accountTokens = e /\ t.totalSupply = s.totalSupply
    BY <1>1 DEF CTokenStorage
  <2>2. SumFunctionOnSet(e, Holders) = s.totalSupply - tokens + tokens
    BY <1>1, TwoBalancesChange DEF validMarket
  <2>3. s.totalSupply - tokens + tokens = s.totalSupply
    BY <1>1 DEF CTokenStorage
  <2> HIDE DEF e, t
  <2>4. QED
    BY <2>1, <2>2, <2>3 DEF tokensAddUp
<1>9. QED
  BY <1>3, <1>6, <1>7, <1>8 DEF validMarket, validSnapshots

\* The parts of a market no operation on its reserves or parameters touches
sameBook(s, t) ==
  /\ t.accountBorrows = s.accountBorrows
  /\ t.accountTokens = s.accountTokens
  /\ t.totalSupply = s.totalSupply
  /\ t.totalBorrows = s.totalBorrows

\* Adding to the reserves, and taking from them what is there
LEMMA ReservesValid ==
  ASSUME NEW s, NEW now \in Nat, validMarket(s, now), NEW amount \in Nat
  PROVE  /\ validMarket(addReservesFresh(s, amount), now)
         /\ sameBook(s, addReservesFresh(s, amount))
         /\ s.cash >= amount /\ amount <= s.totalReserves
              => /\ validMarket(reduceReservesFresh(s, amount), now)
                 /\ sameBook(s, reduceReservesFresh(s, amount))
<1> DEFINE t == [s EXCEPT !.totalReserves = @ + amount, !.cash = @ + amount]
           u == [s EXCEPT !.totalReserves = @ - amount, !.cash = @ - amount]
<1>1. s \in CTokenStorage
  BY DEF validMarket
<1>2. /\ t \in CTokenStorage
      /\ sameBook(s, t) /\ t.borrowIndex = s.borrowIndex
      /\ t.accrualBlockNumber = s.accrualBlockNumber
  <2>1. s.totalReserves + amount \in Nat /\ s.cash + amount \in Nat
    BY <1>1 DEF CTokenStorage
  <2>2. QED
    BY <1>1, <2>1 DEF CTokenStorage, sameBook
<1>3. validMarket(t, now) /\ sameBook(s, t)
  BY <1>2 DEF validMarket, validSnapshots, tokensAddUp, sameBook
<1>4. ASSUME s.cash >= amount, amount <= s.totalReserves
      PROVE  validMarket(u, now) /\ sameBook(s, u)
  <2>1. /\ u \in CTokenStorage
        /\ sameBook(s, u) /\ u.borrowIndex = s.borrowIndex
        /\ u.accrualBlockNumber = s.accrualBlockNumber
    <3>1. s.totalReserves - amount \in Nat /\ s.cash - amount \in Nat
      BY <1>1, <1>4 DEF CTokenStorage
    <3>2. QED
      BY <1>1, <3>1 DEF CTokenStorage, sameBook
  <2>2. QED
    BY <2>1 DEF validMarket, validSnapshots, tokensAddUp, sameBook
<1>5. QED
  BY <1>3, <1>4 DEF addReservesFresh, reduceReservesFresh

\* The fields that approve, _setReserveFactor, _setInterestRateModel and a
\* plain transfer of underlying write
LEMMA SettersValid ==
  ASSUME NEW s, NEW now \in Nat, validMarket(s, now)
  PROVE  /\ \A factor \in 0 .. reserveFactorMaxMantissa :
               LET t == [s EXCEPT !.reserveFactorMantissa = factor]
               IN  validMarket(t, now) /\ sameBook(s, t)
         /\ \A irm \in InterestRateModel :
               LET t == [s EXCEPT !.interestRateModel = irm]
               IN  validMarket(t, now) /\ sameBook(s, t)
         /\ \A amount \in Nat :
               LET t == [s EXCEPT !.cash = @ + amount]
               IN  validMarket(t, now) /\ sameBook(s, t)
         /\ \A src \in Holders, spender \in Holders, amount \in Nat :
               LET t == [s EXCEPT !.transferAllowances[src][spender] = amount]
               IN  validMarket(t, now) /\ sameBook(s, t)
<1>1. s \in CTokenStorage
  BY DEF validMarket
<1>2. ASSUME NEW factor \in 0 .. reserveFactorMaxMantissa
      PROVE  LET t == [s EXCEPT !.reserveFactorMantissa = factor]
             IN  validMarket(t, now) /\ sameBook(s, t)
  BY <1>1 DEF validMarket, validSnapshots, tokensAddUp, CTokenStorage, sameBook
<1>3. ASSUME NEW irm \in InterestRateModel
      PROVE  LET t == [s EXCEPT !.interestRateModel = irm]
             IN  validMarket(t, now) /\ sameBook(s, t)
  BY <1>1 DEF validMarket, validSnapshots, tokensAddUp, CTokenStorage, sameBook
<1>4. ASSUME NEW amount \in Nat
      PROVE  LET t == [s EXCEPT !.cash = @ + amount]
             IN  validMarket(t, now) /\ sameBook(s, t)
  BY <1>1 DEF validMarket, validSnapshots, tokensAddUp, CTokenStorage, sameBook
<1>5. ASSUME NEW src \in Holders, NEW spender \in Holders, NEW amount \in Nat
      PROVE  LET t == [s EXCEPT !.transferAllowances[src][spender] = amount]
             IN  validMarket(t, now) /\ sameBook(s, t)
  <2>1. [s.transferAllowances EXCEPT ![src][spender] = amount]
          \in [Holders -> [Holders -> Nat]]
    BY <1>1 DEF CTokenStorage
  <2>2. QED
    BY <1>1, <2>1 DEF validMarket, validSnapshots, tokensAddUp, CTokenStorage, sameBook
<1>6. QED
  BY <1>2, <1>3, <1>4, <1>5
-----------------------------------------------------------------------------
(* The exchange rate: what truncated quotients leave in the pool *)

\* A truncated quotient times its divisor
LEMMA QuotientBounds ==
  ASSUME NEW a \in Nat, NEW b \in Nat, b # 0
  PROVE  /\ a \div b \in Nat
         /\ (a \div b) * b <= a
         /\ a < (a \div b + 1) * b
OBVIOUS

\* The quotient is the greatest number that does not exceed.
LEMMA QuotientGreatest ==
  ASSUME NEW a \in Nat, NEW b \in Nat, b # 0, NEW q \in Nat, q * b <= a
  PROVE  q <= a \div b
<1> DEFINE d == a \div b
<1>1. d \in Nat /\ a < (d + 1) * b
  BY QuotientBounds
<1> HIDE DEF d
<1>2. SUFFICES ASSUME d < q PROVE FALSE
  BY <1>1 DEF d
<1>3. d + 1 <= q
  BY <1>1, <1>2
<1>4. (d + 1) * b <= q * b
  BY <1>1, <1>3
<1> QED  BY <1>1, <1>4

\* Products grow with their factors, and shrink only with them.
LEMMA ProductMonotone ==
  ASSUME NEW a \in Nat, NEW b \in Nat, NEW c \in Nat
  PROVE  /\ a <= b => a * c <= b * c
         /\ a < b /\ c # 0 => a * c < b * c
         /\ a * c < b * c => a < b
         /\ a * c <= b * c /\ c # 0 => a <= b
<1>1. a <= b => a * c <= b * c
  OBVIOUS
<1>2. b <= a => b * c <= a * c
  OBVIOUS
<1>3. a < b /\ c # 0 => a * c < b * c
  OBVIOUS
<1>4. b < a /\ c # 0 => b * c < a * c
  OBVIOUS
<1>5. a * c \in Nat /\ b * c \in Nat
  OBVIOUS
<1> QED  BY <1>1, <1>2, <1>3, <1>4, <1>5

\* A quotient grows with its dividend.
LEMMA QuotientMonotone ==
  ASSUME NEW a \in Nat, NEW b \in Nat, a <= b, NEW c \in Nat, c # 0
  PROVE  a \div c <= b \div c
<1> DEFINE q == a \div c
<1>1. q \in Nat /\ q * c <= a
  BY QuotientBounds
<1> HIDE DEF q
<1>2. q * c <= b
  <2>1. q * c \in Nat
    BY <1>1, ProductNat
  <2> QED  BY <1>1, <2>1
<1> QED  BY <1>1, <1>2, QuotientGreatest DEF q

\* Truncating a sum gives at most one more than the sum of what is truncated.
LEMMA TruncatedSum ==
  ASSUME NEW a \in Nat, NEW b \in Nat, NEW c \in Nat, c # 0
  PROVE  (a + b) \div c <= a \div c + b \div c + 1
<1> DEFINE q == a \div c
           r == b \div c
           s == (a + b) \div c
<1>1. /\ q \in Nat /\ a < (q + 1) * c
      /\ r \in Nat /\ b < (r + 1) * c
  BY QuotientBounds
<1>2. a + b \in Nat
  OBVIOUS
<1>3. s \in Nat /\ s * c <= a + b
  BY <1>2, QuotientBounds
<1> HIDE DEF q, r, s
<1>4. /\ s * c \in Nat /\ (q + 1) * c \in Nat /\ (r + 1) * c \in Nat
      /\ (q + r + 2) * c = (q + 1) * c + (r + 1) * c
  BY <1>1, <1>3
<1>5. s * c < (q + r + 2) * c
  BY <1>1, <1>3, <1>4
<1>6. s < q + r + 2
  BY <1>1, <1>3, <1>5, ProductMonotone
<1> QED  BY <1>1, <1>3, <1>6 DEF q, r, s

\* What leaves the pool for n of its S tokens, at a rate r that is at most
\* pool * scale / S, leaves some of the pool and does not lower the rate.
LEMMA TokensLeave ==
  ASSUME NEW pool \in Nat, NEW S \in Nat, NEW E \in Nat, E # 0, NEW r \in Nat, r * S <= pool * E,
         NEW n \in Nat, n < S, NEW x \in Nat, x * E <= r * n, pool # 0
  PROVE  x < pool /\ r * (S - n) <= (pool - x) * E
<1>1. r * n <= r * S /\ (r # 0 => r * n < r * S) /\ r * n \in Nat /\ r * S \in Nat
  BY ProductMonotone
<1>2. pool * E \in Nat /\ pool * E # 0 /\ x * E \in Nat
  OBVIOUS
<1>3. x * E < pool * E
  <2>1. CASE r = 0
    BY <1>2, <2>1
  <2>2. CASE r # 0
    BY <1>1, <1>2, <2>2
  <2> QED  BY <2>1, <2>2
<1>4. x < pool
  BY <1>3, ProductMonotone
<1>5. r * (S - n) = r * S - r * n /\ (pool - x) * E = pool * E - x * E
  BY <1>4
<1> QED  BY <1>1, <1>2, <1>4, <1>5

\* An amount that is paid for with n tokens, rounded down, is less than the
\* worth of n + 1.
LEMMA AmountLeaves ==
  ASSUME NEW pool \in Nat, NEW S \in Nat, NEW E \in Nat, E # 0, NEW r \in Nat, r * S <= pool * E,
         NEW n \in Nat, n < S, NEW x \in Nat, x * E < (n + 1) * r, pool # 0
  PROVE  x < pool /\ x * S < (n + 1) * pool
<1>1. (n + 1) * r \in Nat /\ r * S \in Nat /\ pool * E \in Nat /\ x * E \in Nat /\ x * S \in Nat
      /\ (n + 1) * pool \in Nat
  OBVIOUS
<1>2. (n + 1) * r <= S * r
  <2>1. n + 1 \in Nat /\ n + 1 <= S
    OBVIOUS
  <2> QED  BY <2>1, ProductMonotone
<1>3. S * r = r * S
  OBVIOUS
<1>4. x * E < pool * E
  BY <1>1, <1>2, <1>3
<1>5. x < pool
  BY <1>4, ProductMonotone
<1>6. S # 0 /\ (x * E) * S < ((n + 1) * r) * S
  BY <1>1, ProductMonotone
<1>7. (x * E) * S = (x * S) * E /\ ((n + 1) * r) * S = (n + 1) * (r * S)
  OBVIOUS
<1>8. (n + 1) * (r * S) <= (n + 1) * (pool * E)
  <2>1. (r * S) * (n + 1) <= (pool * E) * (n + 1)
    BY <1>1, ProductMonotone
  <2> QED  BY <1>1, <2>1
<1>9. (n + 1) * (pool * E) = ((n + 1) * pool) * E
  OBVIOUS
<1>10. (x * S) * E < ((n + 1) * pool) * E
  <2>1. ((n + 1) * pool) * E \in Nat /\ (x * S) * E \in Nat /\ ((n + 1) * r) * S \in Nat
    BY <1>1
  <2> QED  BY <1>6, <1>7, <1>8, <1>9, <2>1
<1>11. x * S < (n + 1) * pool
  BY <1>1, <1>10, ProductMonotone
<1> QED  BY <1>5, <1>11

\* The underlying that the tokens of a market stand for
pool(s) == cashPlusBorrowsMinusReserves(s)

\* The numbers of a market, and the pool as their difference
LEMMA PoolInt ==
  ASSUME NEW s \in CTokenStorage
  PROVE  /\ pool(s) \in Int /\ pool(s) = s.cash + s.totalBorrows - s.totalReserves
         /\ s.totalSupply \in Nat /\ s.cash \in Nat /\ s.borrowIndex \in Nat
         /\ s.totalBorrows \in Nat /\ s.totalReserves \in Nat
BY DEF CTokenStorage, pool, cashPlusBorrowsMinusReserves

\* The rate of a market with tokens
LEMMA RateBounds ==
  ASSUME NEW s \in CTokenStorage, s.totalSupply # 0, pool(s) \in Nat
  PROVE  /\ exchangeRateStored(s) \in Nat
         /\ exchangeRateStored(s) * s.totalSupply <= pool(s) * expScale
         /\ pool(s) * expScale < (exchangeRateStored(s) + 1) * s.totalSupply
<1>1. s.totalSupply \in Nat /\ expScale \in Nat
  BY PoolInt, ExpScaleAssumption
<1>2. exchangeRateStored(s) = (pool(s) * expScale) \div s.totalSupply
  BY DEF exchangeRateStored, pool
<1>3. pool(s) * expScale \in Nat
  BY <1>1, ProductNat
<1> QED  BY <1>1, <1>2, <1>3, QuotientBounds

\* The rate does not fall as long as the pool covers the tokens at the old one.
LEMMA RateHolds ==
  ASSUME NEW t \in CTokenStorage, t.totalSupply # 0, pool(t) \in Nat,
         NEW r \in Nat, r * t.totalSupply <= pool(t) * expScale
  PROVE  r <= exchangeRateStored(t)
<1>1. t.totalSupply \in Nat /\ expScale \in Nat
  BY PoolInt, ExpScaleAssumption
<1>2. exchangeRateStored(t) = (pool(t) * expScale) \div t.totalSupply
  BY DEF exchangeRateStored, pool
<1>3. pool(t) * expScale \in Nat
  BY <1>1, ProductNat
<1> QED  BY <1>1, <1>2, <1>3, QuotientGreatest

\* Interest: no tokens move, no debt is settled, and what the borrowers owe
\* more is at least what the reserves get.
aged(s, t) ==
  /\ t.accountTokens = s.accountTokens /\ t.totalSupply = s.totalSupply
  /\ t.accountBorrows = s.accountBorrows /\ t.borrowIndex >= s.borrowIndex
  /\ t.cash = s.cash /\ pool(t) >= pool(s)
  /\ t.initialExchangeRateMantissa = s.initialExchangeRateMantissa

\* accrueInterest only ages a market.
LEMMA AccrueAges ==
  ASSUME NEW s, NEW now \in Nat, validMarket(s, now), canAccrue(s, now)
  PROVE  aged(s, accrueInterest(s, now))
<1> DEFINE factor   == borrowRatePerBlock(s) * (now - s.accrualBlockNumber)
           interest == mul_ScalarTruncate(factor, s.totalBorrows)
           share    == mul_ScalarTruncate(s.reserveFactorMantissa, interest)
           reserves == share + s.totalReserves
           index    == mul_ScalarTruncateAddUInt(factor, s.borrowIndex, s.borrowIndex)
           t        == [s EXCEPT !.accrualBlockNumber = now,
                                 !.totalBorrows = interest + s.totalBorrows,
                                 !.totalReserves = reserves,
                                 !.borrowIndex = index]
<1>0. /\ s \in CTokenStorage
      /\ s.accrualBlockNumber \in Nat /\ s.accrualBlockNumber <= now
      /\ s.totalBorrows \in Nat /\ s.totalReserves \in Nat /\ s.cash \in Nat
      /\ s.borrowIndex \in Nat \ {0} /\ s.reserveFactorMantissa \in 0 .. expScale
      /\ expScale \in Nat /\ expScale # 0
  BY ExpScaleAssumption DEF validMarket, CTokenStorage, reserveFactorMaxMantissa
<1>1. CASE s.accrualBlockNumber = now
  <2>1. accrueInterest(s, now) = s
    BY <1>1 DEF accrueInterest
  <2> QED  BY <1>0, <2>1, PoolInt DEF aged
<1>2. CASE s.accrualBlockNumber # now
  <2>1. accrueInterest(s, now) = t
    BY <1>2 DEF accrueInterest, mul_ScalarTruncateAddUInt, mul_ScalarTruncate
  <2>2. factor \in Nat
    <3>1. borrowRatePerBlock(s) \in Nat
      BY <1>0, <1>2, BorrowRateNat DEF canAccrue
    <3>2. now - s.accrualBlockNumber \in Nat
      BY <1>0
    <3> QED  BY <3>1, <3>2, ProductNat
  <2>3. interest \in Nat
    BY <1>0, <2>2, ScalarTruncateNat
  <2>4. index \in Nat /\ index >= s.borrowIndex
    <3>1. mul_ScalarTruncate(factor, s.borrowIndex) \in Nat
      BY <1>0, <2>2, ScalarTruncateNat
    <3> QED  BY <3>1, <1>0 DEF mul_ScalarTruncateAddUInt, mul_ScalarTruncate
  <2> HIDE DEF factor, interest, index
  <2>5. share \in Nat /\ share <= interest
    <3>0. s.reserveFactorMantissa \in Nat /\ s.reserveFactorMantissa <= expScale
      BY <1>0
    <3>1. share \in Nat
      BY <2>3, <3>0, ScalarTruncateNat
    <3>2. (interest * s.reserveFactorMantissa) \div expScale <= interest
      BY <1>0, <2>3, <3>0, FractionBound
    <3>3. s.reserveFactorMantissa * interest = interest * s.reserveFactorMantissa
      BY <2>3, <3>0
    <3> QED  BY <3>1, <3>2, <3>3 DEF mul_ScalarTruncate, truncate
  <2> HIDE DEF share
  <2>6. /\ t.accountTokens = s.accountTokens /\ t.totalSupply = s.totalSupply
        /\ t.accountBorrows = s.accountBorrows /\ t.borrowIndex = index /\ t.cash = s.cash
        /\ t.totalBorrows = interest + s.totalBorrows /\ t.totalReserves = share + s.totalReserves
        /\ t.initialExchangeRateMantissa = s.initialExchangeRateMantissa
    BY <1>0 DEF CTokenStorage
  <2> HIDE DEF t
  <2>7. pool(t) >= pool(s)
    <3>1. \A c, b, i, p, r \in Nat : p <= i => c + (i + b) - (p + r) >= c + b - r
      OBVIOUS
    <3> QED  BY <1>0, <2>3, <2>5, <2>6, <3>1 DEF pool, cashPlusBorrowsMinusReserves
  <2> QED  BY <2>1, <2>4, <2>6, <2>7 DEF aged
<1> QED  BY <1>1, <1>2
-----------------------------------------------------------------------------
(* What the operations do to tokens, debts and pool *)

\* No balance of cTokens, no debt, and not the first rate of an empty market
sameTokens(s, t) == t.accountTokens = s.accountTokens /\ t.totalSupply = s.totalSupply
sameDebts(s, t) ==
  /\ t.accountBorrows = s.accountBorrows /\ t.borrowIndex = s.borrowIndex
  /\ t.totalBorrows = s.totalBorrows
sameStart(s, t) == t.initialExchangeRateMantissa = s.initialExchangeRateMantissa

\* The reserves and parameters change, or underlying is given to the market.
quiet(s, t) ==
  sameTokens(s, t) /\ sameDebts(s, t) /\ sameStart(s, t) /\ pool(t) >= pool(s)

\* minter gets n tokens for the amount x.
tokensMinted(s, t, minter, n, x) ==
  /\ sameDebts(s, t) /\ sameStart(s, t) /\ pool(t) = pool(s) + x
  /\ t.totalSupply = s.totalSupply + n
  /\ t.accountTokens = [s.accountTokens EXCEPT ![minter] = @ + n]

\* redeemer gives n tokens for the amount x.
tokensRedeemed(s, t, redeemer, n, x) ==
  /\ sameDebts(s, t) /\ sameStart(s, t) /\ pool(t) = pool(s) - x
  /\ t.totalSupply = s.totalSupply - n /\ n <= s.accountTokens[redeemer]
  /\ t.accountTokens = [s.accountTokens EXCEPT ![redeemer] = @ - n]

\* src gives n tokens to dst.
tokensMoved(s, t, src, dst, n) ==
  /\ sameDebts(s, t) /\ sameStart(s, t) /\ pool(t) = pool(s)
  /\ t.totalSupply = s.totalSupply /\ n <= s.accountTokens[src] /\ src # dst
  /\ t.accountTokens = [s.accountTokens EXCEPT ![src] = @ - n, ![dst] = @ + n]

\* The borrower's debt is now balance; the market's debts change by as much.
debtSettled(s, t, borrower, balance) ==
  /\ sameTokens(s, t) /\ sameStart(s, t) /\ pool(t) = pool(s)
  /\ t.borrowIndex = s.borrowIndex
  /\ t.totalBorrows + borrowBalanceStored(s, borrower) = s.totalBorrows + balance
  /\ t.accountBorrows = [s.accountBorrows EXCEPT ![borrower] =
                            [principal |-> balance, interestIndex |-> s.borrowIndex]]

\* The borrower loses n tokens, of which the reserves get p, worth x.
tokensSeized(s, t, borrower, liquidator, n, p, x) ==
  /\ sameDebts(s, t) /\ sameStart(s, t) /\ pool(t) = pool(s) - x /\ t.cash = s.cash
  /\ t.totalSupply = s.totalSupply - p /\ n <= s.accountTokens[borrower] /\ p <= n
  /\ borrower # liquidator
  /\ t.accountTokens = [s.accountTokens EXCEPT ![borrower] = @ - n, ![liquidator] = @ + (n - p)]

\* mintFresh mints at the rate the market has before it.
LEMMA MintEffect ==
  ASSUME NEW s \in CTokenStorage, NEW minter \in Holders, NEW amount \in Nat
  PROVE  tokensMinted(s, mintFresh(s, minter, amount), minter,
                      div_Exp(amount, exchangeRateStored(s)), amount)
<1> DEFINE n == div_Exp(amount, exchangeRateStored(s))
           t == mintFresh(s, minter, amount)
<1>1. t = [s EXCEPT !.cash = @ + amount, !.totalSupply = @ + n, !.accountTokens[minter] = @ + n]
  BY DEF mintFresh
<1> HIDE DEF n, t
<1>2. /\ t.cash = s.cash + amount /\ t.totalBorrows = s.totalBorrows
      /\ t.totalReserves = s.totalReserves /\ t.totalSupply = s.totalSupply + n
      /\ t.accountTokens = [s.accountTokens EXCEPT ![minter] = @ + n]
      /\ sameDebts(s, t) /\ sameStart(s, t)
  BY <1>1 DEF CTokenStorage, sameDebts, sameStart
<1>3. pool(t) = pool(s) + amount
  <2>1. \A c, b, r, x \in Nat : c + x + b - r = c + b - r + x
    OBVIOUS
  <2> QED  BY <1>2, <2>1, PoolInt DEF pool, cashPlusBorrowsMinusReserves
<1>4. tokensMinted(s, t, minter, n, amount)
  BY <1>2, <1>3 DEF tokensMinted
<1> QED  BY <1>4 DEF n, t

\* redeemFresh takes the tokens and pays the amount.
LEMMA RedeemEffect ==
  ASSUME NEW s \in CTokenStorage, NEW redeemer \in Holders, NEW n \in Nat, NEW x \in Nat,
         n <= s.accountTokens[redeemer]
  PROVE  tokensRedeemed(s, redeemFresh(s, redeemer, n, x), redeemer, n, x)
<1> DEFINE t == redeemFresh(s, redeemer, n, x)
<1>1. t = [s EXCEPT !.totalSupply = @ - n, !.accountTokens[redeemer] = @ - n, !.cash = @ - x]
  BY DEF redeemFresh
<1> HIDE DEF t
<1>2. /\ t.cash = s.cash - x /\ t.totalBorrows = s.totalBorrows
      /\ t.totalReserves = s.totalReserves /\ t.totalSupply = s.totalSupply - n
      /\ t.accountTokens = [s.accountTokens EXCEPT ![redeemer] = @ - n]
      /\ sameDebts(s, t) /\ sameStart(s, t)
  BY <1>1 DEF CTokenStorage, sameDebts, sameStart
<1>3. pool(t) = pool(s) - x
  <2>1. \A c, b, r, y \in Nat : c - y + b - r = c + b - r - y
    OBVIOUS
  <2> QED  BY <1>2, <2>1, PoolInt DEF pool, cashPlusBorrowsMinusReserves
<1>4. tokensRedeemed(s, t, redeemer, n, x)
  BY <1>2, <1>3 DEF tokensRedeemed
<1> QED  BY <1>4 DEF t

\* transferTokens moves tokens, whoever spends them.
LEMMA TransferEffect ==
  ASSUME NEW s \in CTokenStorage, NEW spender \in Holders, NEW src \in Holders, NEW dst \in Holders,
         src # dst, NEW n \in Nat, n <= s.accountTokens[src]
  PROVE  tokensMoved(s, transferTokens(s, spender, src, dst, n), src, dst, n)
<1> DEFINE t == transferTokens(s, spender, src, dst, n)
           left == IF startingAllowance(s, spender, src) = UintMax
                   THEN s.transferAllowances[src][spender]
                   ELSE s.transferAllowances[src][spender] - n
<1>1. t = [s EXCEPT !.accountTokens = [s.accountTokens EXCEPT ![src] = @ - n, ![dst] = @ + n],
                    !.transferAllowances[src][spender] = left]
  BY DEF transferTokens
<1> HIDE DEF t, left
<1>2. /\ t.cash = s.cash /\ t.totalBorrows = s.totalBorrows
      /\ t.totalReserves = s.totalReserves /\ t.totalSupply = s.totalSupply
      /\ t.accountTokens = [s.accountTokens EXCEPT ![src] = @ - n, ![dst] = @ + n]
      /\ sameDebts(s, t) /\ sameStart(s, t)
  BY <1>1 DEF CTokenStorage, sameDebts, sameStart
<1>3. pool(t) = pool(s)
  BY <1>2 DEF pool, cashPlusBorrowsMinusReserves
<1>4. tokensMoved(s, t, src, dst, n)
  BY <1>2, <1>3 DEF tokensMoved
<1> QED  BY <1>4 DEF t

\* borrowFresh settles the debt at what was owed and the amount borrowed.
LEMMA BorrowEffect ==
  ASSUME NEW s \in CTokenStorage, validSnapshots(s), NEW borrower \in Holders, NEW x \in Nat
  PROVE  debtSettled(s, borrowFresh(s, borrower, x), borrower, borrowBalanceStored(s, borrower) + x)
<1> DEFINE t == borrowFresh(s, borrower, x)
           b == borrowBalanceStored(s, borrower) + x
<1>1. t = [s EXCEPT !.accountBorrows[borrower] = [principal |-> b, interestIndex |-> s.borrowIndex],
                    !.totalBorrows = @ + x, !.cash = @ - x]
  BY DEF borrowFresh
<1> HIDE DEF t, b
<1>2. /\ t.cash = s.cash - x /\ t.totalBorrows = s.totalBorrows + x
      /\ t.totalReserves = s.totalReserves /\ t.borrowIndex = s.borrowIndex
      /\ t.accountBorrows = [s.accountBorrows EXCEPT ![borrower] =
                                [principal |-> b, interestIndex |-> s.borrowIndex]]
      /\ sameTokens(s, t) /\ sameStart(s, t)
  BY <1>1 DEF CTokenStorage, sameTokens, sameStart
<1>3. pool(t) = pool(s)
  <2>1. \A c, d, r, y \in Nat : c - y + (d + y) - r = c + d - r
    OBVIOUS
  <2> QED  BY <1>2, <2>1, PoolInt DEF pool, cashPlusBorrowsMinusReserves
<1>4. t.totalBorrows + borrowBalanceStored(s, borrower) = s.totalBorrows + b
  <2>1. borrowBalanceStored(s, borrower) \in Nat /\ s.totalBorrows \in Nat
    BY BorrowBalanceBound DEF CTokenStorage
  <2> QED  BY <1>2, <2>1 DEF b
<1>5. debtSettled(s, t, borrower, b)
  BY <1>2, <1>3, <1>4 DEF debtSettled
<1> QED  BY <1>5 DEF t, b

\* repayBorrowFresh settles the debt at what was owed less what arrived.
LEMMA RepayEffect ==
  ASSUME NEW s \in CTokenStorage, validSnapshots(s), NEW borrower \in Holders, NEW x \in Nat
  PROVE  /\ debtSettled(s, repayBorrowFresh(s, borrower, x), borrower,
                        borrowBalanceStored(s, borrower) - x)
         /\ repayBorrowFresh(s, borrower, x).cash = s.cash + x
<1> DEFINE t == repayBorrowFresh(s, borrower, x)
           b == borrowBalanceStored(s, borrower) - x
<1>1. t = [s EXCEPT !.accountBorrows[borrower] = [principal |-> b, interestIndex |-> s.borrowIndex],
                    !.totalBorrows = @ - x, !.cash = @ + x]
  BY DEF repayBorrowFresh
<1> HIDE DEF t, b
<1>2. /\ t.cash = s.cash + x /\ t.totalBorrows = s.totalBorrows - x
      /\ t.totalReserves = s.totalReserves /\ t.borrowIndex = s.borrowIndex
      /\ t.accountBorrows = [s.accountBorrows EXCEPT ![borrower] =
                                [principal |-> b, interestIndex |-> s.borrowIndex]]
      /\ sameTokens(s, t) /\ sameStart(s, t)
  BY <1>1 DEF CTokenStorage, sameTokens, sameStart
<1>3. pool(t) = pool(s)
  <2>1. \A c, d, r, y \in Nat : c + y + (d - y) - r = c + d - r
    OBVIOUS
  <2> QED  BY <1>2, <2>1, PoolInt DEF pool, cashPlusBorrowsMinusReserves
<1>4. t.totalBorrows + borrowBalanceStored(s, borrower) = s.totalBorrows + b
  <2>1. borrowBalanceStored(s, borrower) \in Nat /\ s.totalBorrows \in Nat
    BY BorrowBalanceBound DEF CTokenStorage
  <2> QED  BY <1>2, <2>1 DEF b
<1>5. debtSettled(s, t, borrower, b)
  BY <1>2, <1>3, <1>4 DEF debtSettled
<1> QED  BY <1>2, <1>5 DEF t, b

\* seizeInternal takes no more from the pool than the protocol's tokens are
\* worth at the rate it reads.
LEMMA SeizeEffect ==
  ASSUME NEW s \in CTokenStorage, NEW borrower \in Holders, NEW liquidator \in Holders,
         borrower # liquidator, NEW n \in Nat, n <= s.accountTokens[borrower], NEW rate \in Nat
  PROVE  LET p == mul_Exp(n, protocolSeizeShareMantissa)
             x == mul_ScalarTruncate(rate, p)
         IN  /\ p \in Nat /\ x \in Nat /\ x * expScale <= rate * p
             /\ tokensSeized(s, seizeInternal(s, liquidator, borrower, n, rate),
                             borrower, liquidator, n, p, x)
<1> DEFINE p == mul_Exp(n, protocolSeizeShareMantissa)
           x == mul_ScalarTruncate(rate, p)
           t == seizeInternal(s, liquidator, borrower, n, rate)
<1>0. /\ protocolSeizeShareMantissa \in Nat /\ protocolSeizeShareMantissa <= expScale
      /\ expScale \in Nat /\ expScale # 0
  BY CTokenAssumption, ExpScaleAssumption
<1>1. p \in Nat /\ p <= n
  BY <1>0, MulExpNat, FractionBound DEF mul_Exp
<1>2. t = [s EXCEPT !.totalReserves = @ + x, !.totalSupply = @ - p,
                    !.accountTokens = [s.accountTokens EXCEPT ![borrower] = @ - n,
                                                              ![liquidator] = @ + (n - p)]]
  BY DEF seizeInternal
<1> HIDE DEF p
<1>3. x \in Nat /\ x * expScale <= rate * p
  <2>1. rate * p \in Nat
    BY <1>1, ProductNat
  <2>2. x = (rate * p) \div expScale
    BY DEF mul_ScalarTruncate, truncate
  <2> QED  BY <1>0, <2>1, <2>2, QuotientBounds
<1> HIDE DEF x, t
<1>4. /\ t.cash = s.cash /\ t.totalBorrows = s.totalBorrows
      /\ t.totalReserves = s.totalReserves + x /\ t.totalSupply = s.totalSupply - p
      /\ t.accountTokens = [s.accountTokens EXCEPT ![borrower] = @ - n, ![liquidator] = @ + (n - p)]
      /\ sameDebts(s, t) /\ sameStart(s, t)
  BY <1>2 DEF CTokenStorage, sameDebts, sameStart
<1>5. pool(t) = pool(s) - x
  <2>1. \A c, d, r, y \in Nat : c + d - (r + y) = c + d - r - y
    OBVIOUS
  <2> QED  BY <1>3, <1>4, <2>1, PoolInt DEF pool, cashPlusBorrowsMinusReserves
<1>6. tokensSeized(s, t, borrower, liquidator, n, p, x)
  BY <1>1, <1>4, <1>5 DEF tokensSeized
<1> QED  BY <1>1, <1>3, <1>6 DEF p, x, t

\* Reserves, parameters, donations and approvals
LEMMA QuietEffects ==
  ASSUME NEW s \in CTokenStorage, NEW x \in Nat
  PROVE  /\ quiet(s, s)
         /\ quiet(s, addReservesFresh(s, x)) /\ quiet(s, reduceReservesFresh(s, x))
         /\ \A factor : quiet(s, [s EXCEPT !.reserveFactorMantissa = factor])
         /\ \A irm : quiet(s, [s EXCEPT !.interestRateModel = irm])
         /\ quiet(s, [s EXCEPT !.cash = @ + x])
         /\ \A src, spender, amount : quiet(s, [s EXCEPT !.transferAllowances[src][spender] = amount])
<1>1. quiet(s, s)
  BY PoolInt DEF quiet, sameTokens, sameDebts, sameStart
<1>2. /\ \A factor : quiet(s, [s EXCEPT !.reserveFactorMantissa = factor])
      /\ \A irm : quiet(s, [s EXCEPT !.interestRateModel = irm])
      /\ \A src, spender, amount : quiet(s, [s EXCEPT !.transferAllowances[src][spender] = amount])
  BY PoolInt DEF quiet, sameTokens, sameDebts, sameStart, CTokenStorage, pool, cashPlusBorrowsMinusReserves
<1>3. quiet(s, addReservesFresh(s, x))
  <2> DEFINE t == addReservesFresh(s, x)
  <2>1. /\ t.cash = s.cash + x /\ t.totalBorrows = s.totalBorrows /\ t.totalReserves = s.totalReserves + x
        /\ sameTokens(s, t) /\ sameDebts(s, t) /\ sameStart(s, t)
    BY DEF CTokenStorage, sameTokens, sameDebts, sameStart, addReservesFresh
  <2> HIDE DEF t
  <2>2. \A c, d, r, y \in Nat : c + y + d - (r + y) = c + d - r
    OBVIOUS
  <2>3. pool(t) = pool(s)
    BY <2>1, <2>2, PoolInt DEF pool, cashPlusBorrowsMinusReserves
  <2>4. quiet(s, t)
    BY <2>1, <2>3, PoolInt DEF quiet
  <2> QED  BY <2>4 DEF t
<1>4. quiet(s, reduceReservesFresh(s, x))
  <2> DEFINE t == reduceReservesFresh(s, x)
  <2>1. /\ t.cash = s.cash - x /\ t.totalBorrows = s.totalBorrows /\ t.totalReserves = s.totalReserves - x
        /\ sameTokens(s, t) /\ sameDebts(s, t) /\ sameStart(s, t)
    BY DEF CTokenStorage, sameTokens, sameDebts, sameStart, reduceReservesFresh
  <2> HIDE DEF t
  <2>2. \A c, d, r, y \in Nat : c - y + d - (r - y) = c + d - r
    OBVIOUS
  <2>3. pool(t) = pool(s)
    BY <2>1, <2>2, PoolInt DEF pool, cashPlusBorrowsMinusReserves
  <2>4. quiet(s, t)
    BY <2>1, <2>3, PoolInt DEF quiet
  <2> QED  BY <2>4 DEF t
<1>5. quiet(s, [s EXCEPT !.cash = @ + x])
  <2> DEFINE t == [s EXCEPT !.cash = @ + x]
  <2>1. /\ t.cash = s.cash + x /\ t.totalBorrows = s.totalBorrows /\ t.totalReserves = s.totalReserves
        /\ sameTokens(s, t) /\ sameDebts(s, t) /\ sameStart(s, t)
    BY DEF CTokenStorage, sameTokens, sameDebts, sameStart
  <2> HIDE DEF t
  <2>2. \A c, d, r, y \in Nat : c + y + d - r >= c + d - r
    OBVIOUS
  <2>3. pool(t) >= pool(s)
    BY <2>1, <2>2, PoolInt DEF pool, cashPlusBorrowsMinusReserves
  <2>4. quiet(s, t)
    BY <2>1, <2>3 DEF quiet
  <2> QED  BY <2>4 DEF t
<1> QED  BY <1>1, <1>2, <1>3, <1>4, <1>5
-----------------------------------------------------------------------------
(* What that means for debts and for the exchange rate *)

\* A debt reads as no less when the index has risen.
LEMMA BalanceGrows ==
  ASSUME NEW s \in CTokenStorage, NEW t \in CTokenStorage, NEW h \in Holders, validSnapshots(s),
         t.accountBorrows[h] = s.accountBorrows[h], t.borrowIndex >= s.borrowIndex
  PROVE  /\ borrowBalanceStored(s, h) \in Nat /\ borrowBalanceStored(t, h) \in Nat
         /\ borrowBalanceStored(t, h) >= borrowBalanceStored(s, h)
<1> DEFINE p == s.accountBorrows[h].principal
           i == s.accountBorrows[h].interestIndex
           a == p * s.borrowIndex
           b == p * t.borrowIndex
<1>1. p \in Nat /\ i \in Nat /\ s.borrowIndex \in Nat /\ t.borrowIndex \in Nat
  BY DEF CTokenStorage, BorrowSnapshot
<1>2. CASE p = 0
  BY <1>1, <1>2 DEF borrowBalanceStored
<1>3. CASE p # 0
  <2>1. i # 0
    BY <1>1, <1>3 DEF validSnapshots
  <2>2. borrowBalanceStored(s, h) = a \div i /\ borrowBalanceStored(t, h) = b \div i
    BY <1>3 DEF borrowBalanceStored
  <2> HIDE DEF i
  <2>3. a \in Nat /\ b \in Nat /\ a <= b
    <3> HIDE DEF p
    <3> QED  BY <1>1
  <2> HIDE DEF a, b
  <2>4. a \div i \in Nat /\ (a \div i) * i <= a /\ b \div i \in Nat
    BY <1>1, <2>1, <2>3, QuotientBounds
  <2>5. (a \div i) * i <= b
    <3>1. (a \div i) * i \in Nat
      BY <1>1, <2>4, ProductNat
    <3> QED  BY <2>3, <2>4, <3>1
  <2>6. a \div i <= b \div i
    BY <1>1, <2>1, <2>3, <2>4, <2>5, QuotientGreatest
  <2> QED  BY <2>2, <2>4, <2>6
<1> QED  BY <1>2, <1>3

\* A debt that was just settled reads as its principal; the others stay.
LEMMA SettledBalance ==
  ASSUME NEW s \in CTokenStorage, NEW t \in CTokenStorage, NEW h \in Holders, NEW b \in Nat,
         debtSettled(s, t, h, b)
  PROVE  /\ t.accountBorrows[h].principal = b /\ borrowBalanceStored(t, h) = b
         /\ \A k \in Holders \ {h} : t.accountBorrows[k] = s.accountBorrows[k]
<1>1. /\ s.accountBorrows \in [Holders -> BorrowSnapshot] /\ s.borrowIndex \in Nat /\ s.borrowIndex # 0
      /\ t.borrowIndex = s.borrowIndex
      /\ t.accountBorrows = [s.accountBorrows EXCEPT ![h] =
                                [principal |-> b, interestIndex |-> s.borrowIndex]]
  BY DEF CTokenStorage, debtSettled
<1>2. t.accountBorrows[h].principal = b /\ t.accountBorrows[h].interestIndex = s.borrowIndex
  BY <1>1
<1>3. \A k \in Holders \ {h} : t.accountBorrows[k] = s.accountBorrows[k]
  BY <1>1
<1>4. borrowBalanceStored(t, h) = b
  <2>1. \A p \in Nat : \A i \in Nat : i # 0 => (p * i) \div i = p
    OBVIOUS
  <2>2. (b * s.borrowIndex) \div s.borrowIndex = b
    BY <1>1, <2>1
  <2> QED  BY <1>1, <1>2, <2>2 DEF borrowBalanceStored
<1> QED  BY <1>2, <1>3, <1>4

\* The pool grows and the tokens stay.
LEMMA RateOfPool ==
  ASSUME NEW s \in CTokenStorage, NEW t \in CTokenStorage, s.totalSupply # 0, pool(s) \in Nat,
         t.totalSupply = s.totalSupply, pool(t) >= pool(s)
  PROVE  exchangeRateStored(t) >= exchangeRateStored(s) /\ exchangeRateStored(s) \in Nat
<1>1. /\ exchangeRateStored(s) \in Nat /\ exchangeRateStored(s) * s.totalSupply <= pool(s) * expScale
      /\ s.totalSupply \in Nat /\ pool(t) \in Nat /\ expScale \in Nat
  BY RateBounds, PoolInt, ExpScaleAssumption
<1>2. pool(s) * expScale <= pool(t) * expScale
  BY <1>1, ProductMonotone
<1>3. exchangeRateStored(s) * t.totalSupply <= pool(t) * expScale
  <2>1. exchangeRateStored(s) * s.totalSupply \in Nat /\ pool(s) * expScale \in Nat /\ pool(t) * expScale \in Nat
    BY <1>1, ProductNat
  <2> QED  BY <1>1, <1>2, <2>1
<1>4. exchangeRateStored(s) <= exchangeRateStored(t)
  BY <1>1, <1>3, RateHolds
<1>5. exchangeRateStored(t) \in Nat
  BY <1>1, RateBounds
<1> QED  BY <1>1, <1>4, <1>5

\* Tokens for an amount at the rate, rounded down
LEMMA RateOfMint ==
  ASSUME NEW s \in CTokenStorage, NEW t \in CTokenStorage, s.totalSupply # 0, pool(s) \in Nat,
         exchangeRateStored(s) # 0, NEW h \in Holders, NEW x \in Nat,
         tokensMinted(s, t, h, div_Exp(x, exchangeRateStored(s)), x)
  PROVE  exchangeRateStored(t) >= exchangeRateStored(s)
<1> DEFINE r == exchangeRateStored(s)
           S == s.totalSupply
           P == pool(s)
           n == div_Exp(x, r)
<1>1. r \in Nat /\ r # 0 /\ r * S <= P * expScale /\ S \in Nat /\ P \in Nat /\ expScale \in Nat /\ S # 0
  BY RateBounds, PoolInt, ExpScaleAssumption
<1>2. n \in Nat /\ n * r <= x * expScale
  <2>1. x * expScale \in Nat
    BY <1>1, ProductNat
  <2> HIDE DEF r
  <2> QED  BY <1>1, <2>1, QuotientBounds DEF div_Exp
<1>3. t.totalSupply = S + n /\ pool(t) = P + x
  BY DEF tokensMinted
<1> HIDE DEF r, S, P, n
<1>4. r * (S + n) <= (P + x) * expScale /\ S + n # 0
  <2>1. r * (S + n) = r * S + n * r /\ (P + x) * expScale = P * expScale + x * expScale
    BY <1>1, <1>2
  <2>2. r * S \in Nat /\ n * r \in Nat /\ P * expScale \in Nat /\ x * expScale \in Nat
    BY <1>1, <1>2, ProductNat
  <2> QED  BY <1>1, <1>2, <2>1, <2>2
<1>5. r <= exchangeRateStored(t)
  <2>1. pool(t) \in Nat
    BY <1>1, <1>3
  <2> QED  BY <1>1, <1>3, <1>4, <2>1, RateHolds
<1>6. exchangeRateStored(t) \in Nat
  <2>1. pool(t) \in Nat /\ t.totalSupply # 0
    BY <1>1, <1>3, <1>4
  <2> QED  BY <2>1, RateBounds
<1> QED  BY <1>1, <1>5, <1>6 DEF r

\* Tokens that leave, for at most their worth at the rate
LEMMA RateOfTokens ==
  ASSUME NEW s \in CTokenStorage, NEW t \in CTokenStorage, pool(s) \in Nat, pool(s) # 0,
         NEW n \in Nat, n < s.totalSupply, NEW x \in Nat, x * expScale <= exchangeRateStored(s) * n,
         t.totalSupply = s.totalSupply - n, pool(t) = pool(s) - x
  PROVE  pool(t) > 0 /\ exchangeRateStored(t) >= exchangeRateStored(s)
<1> DEFINE r == exchangeRateStored(s)
           S == s.totalSupply
           P == pool(s)
<1>0. S \in Nat /\ S # 0 /\ expScale \in Nat /\ expScale # 0
  <2>1. S \in Nat
    BY PoolInt
  <2> QED  BY <2>1, ExpScaleAssumption
<1>1. r \in Nat /\ r * S <= P * expScale /\ P \in Nat /\ P # 0
  BY <1>0, RateBounds
<1>2. t.totalSupply = S - n /\ pool(t) = P - x /\ x * expScale <= r * n /\ n < S
  OBVIOUS
<1> HIDE DEF r, S, P
<1>3. x < P /\ r * (S - n) <= (P - x) * expScale
  BY <1>0, <1>1, <1>2, TokensLeave
<1>4. pool(t) \in Nat /\ pool(t) > 0 /\ t.totalSupply # 0
  BY <1>0, <1>1, <1>2, <1>3
<1>5. r <= exchangeRateStored(t) /\ exchangeRateStored(t) \in Nat
  BY <1>1, <1>2, <1>3, <1>4, RateHolds, RateBounds
<1> QED  BY <1>1, <1>4, <1>5 DEF r

\* An amount that leaves for tokens that are rounded down
LEMMA RateOfAmount ==
  ASSUME NEW s \in CTokenStorage, NEW t \in CTokenStorage, pool(s) \in Nat, pool(s) # 0,
         NEW n \in Nat, n < s.totalSupply, NEW x \in Nat,
         x * expScale < (n + 1) * exchangeRateStored(s),
         t.totalSupply = s.totalSupply - n, pool(t) = pool(s) - x
  PROVE  pool(t) > 0 /\ pool(t) * s.totalSupply > pool(s) * (t.totalSupply - 1)
<1> DEFINE r == exchangeRateStored(s)
           S == s.totalSupply
           P == pool(s)
<1>0. S \in Nat /\ S # 0 /\ expScale \in Nat /\ expScale # 0
  <2>1. S \in Nat
    BY PoolInt
  <2> QED  BY <2>1, ExpScaleAssumption
<1>1. r \in Nat /\ r * S <= P * expScale /\ P \in Nat /\ P # 0
  BY <1>0, RateBounds
<1>2. t.totalSupply = S - n /\ pool(t) = P - x /\ x * expScale < (n + 1) * r /\ n < S
  OBVIOUS
<1> HIDE DEF r, S, P
<1>3. x < P /\ x * S < (n + 1) * P
  BY <1>0, <1>1, <1>2, AmountLeaves
<1>4. (P - x) * S > P * (S - n - 1)
  <2>1. (P - x) * S = P * S - x * S /\ P * (S - n - 1) = P * S - (n + 1) * P
    BY <1>0, <1>1
  <2>2. P * S \in Nat /\ x * S \in Nat /\ (n + 1) * P \in Nat
    BY <1>0, <1>1
  <2> QED  BY <1>3, <2>1, <2>2
<1> QED  BY <1>0, <1>1, <1>2, <1>3, <1>4 DEF S, P
=============================================================================
