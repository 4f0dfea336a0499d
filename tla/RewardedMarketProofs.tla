------------------------ MODULE RewardedMarketProofs ------------------------
(***************************************************************************)
(* The COMP distribution for every set of markets and accounts, every      *)
(* schedule, speed, weight and drip rate: what its operators return, that  *)
(* the market with it behaves as the market without it, that neither its   *)
(* subtractions nor its speeds go wrong, that whoever holds something has  *)
(* an index, and that nothing an account has earned is ever lost.          *)
(***************************************************************************)
EXTENDS RewardedMarket, MoneyMarketProofs

\* A flywheel that every hook may work on in block now
wellKept(f, now) == f \in FlywheelStorage /\ recordsArePast(f, now)

\* The speeds that only their setters change
speedsOf(f) == <<f.compSpeed, f.contributorSpeed>>

\* The types of the fields, one by one
LEMMA FlywheelFields ==
  ASSUME NEW f \in FlywheelStorage
  PROVE  /\ f.compState \in [Sides -> [RewardMarkets -> CompMarketState]]
         /\ f.accountIndex \in [Sides -> [RewardMarkets -> [Holders -> Nat]]]
         /\ f.compAccrued \in [Holders -> Nat]
         /\ f.compSpeed \in [Sides -> Nat]
         /\ f.compWeight \in [RewardMarkets -> Nat]
         /\ f.contributorSpeed \in [Holders -> Nat]
         /\ f.lastContributorBlock \in [Holders -> Nat]
BY DEF FlywheelStorage

\* The cTokens or debts that a side distributes over are naturals.
LEMMA SharesNat ==
  ASSUME NEW s \in CTokenStorage, validSnapshots(s), NEW side \in Sides
  PROVE  totalShares(side, s) \in Nat /\ \A h \in Holders : shares(side, s, h) \in Nat
<1>1. /\ s.totalSupply \in Nat /\ s.totalBorrows \in Nat
      /\ \A h \in Holders : s.accountTokens[h] \in Nat
      /\ s.borrowIndex \in Nat /\ s.borrowIndex # 0
  BY DEF CTokenStorage
<1>2. \A h \in Holders : borrowBalanceStored(s, h) \in Nat
  BY BorrowBalanceBound
<1>3. /\ div_Exp(s.totalBorrows, s.borrowIndex) \in Nat
      /\ \A h \in Holders : div_Exp(borrowBalanceStored(s, h), s.borrowIndex) \in Nat
  BY <1>1, <1>2, DivExpNat
<1>4. QED
  BY <1>1, <1>3 DEF totalShares, shares

\* A market's part of a speed is a natural: the divisor is never zero.
LEMMA MarketSpeedNat ==
  ASSUME NEW f \in FlywheelStorage, NEW side \in Sides, NEW m \in RewardMarkets
  PROVE  marketSpeed(f, side, m) \in Nat
<1>1. /\ f.compSpeed[side] \in Nat /\ f.compWeight[m] \in Nat
      /\ \A k \in RewardMarkets : f.compWeight[k] \in Nat
  BY FlywheelFields
<1>2. SumFunctionOnSet(f.compWeight, RewardMarkets) \in Nat
  BY <1>1, CompFlywheelAssumption, SumNat
<1>3. getTotalCompWeight(f) \in Nat /\ getTotalCompWeight(f) # 0
  BY <1>2 DEF getTotalCompWeight
<1>4. div_Exp(f.compWeight[m], getTotalCompWeight(f)) \in Nat
  BY <1>1, <1>3, DivExpNat
<1>5. QED
  BY <1>1, <1>4, MulExpNat DEF marketSpeed

\* An update moves an index up and its block to the present.
LEMMA UpdatedIndexGrows ==
  ASSUME NEW now \in Nat, NEW f, wellKept(f, now), NEW side \in Sides,
         NEW m \in RewardMarkets, NEW s \in CTokenStorage, validSnapshots(s)
  PROVE  LET state == updatedIndex(f, side, m, s, now)
         IN  /\ state \in CompMarketState
             /\ state.index >= f.compState[side][m].index
             /\ state.block = now
<1> DEFINE old     == f.compState[side][m]
           amount  == (now - old.block) * marketSpeed(f, side, m)
           divisor == totalShares(side, s)
           ratio   == IF divisor = 0 THEN 0 ELSE (amount * doubleScale) \div divisor
           new     == [index |-> old.index + ratio, block |-> now]
<1>1. f \in FlywheelStorage
  BY DEF wellKept
<1>2. old.index \in Nat /\ old.block \in Nat /\ old.block <= now
  BY <1>1, FlywheelFields DEF wellKept, recordsArePast, CompMarketState
<1>3. amount \in Nat
  <2>1. now - old.block \in Nat
    BY <1>2
  <2>2. QED
    BY <1>1, <2>1, MarketSpeedNat, ProductNat
<1>4. divisor \in Nat
  BY SharesNat
<1> HIDE DEF amount, divisor
<1>5. ratio \in Nat
  <2>1. amount * doubleScale \in Nat
    BY <1>3, ProductNat, CompFlywheelAssumption
  <2>2. QED
    BY <1>4, <2>1, QuotientNat
<1> HIDE DEF ratio, old
<1>6. old.index + ratio \in Nat /\ old.index + ratio >= old.index
  BY <1>2, <1>5
<1>7. new \in CompMarketState /\ new.index >= old.index /\ new.block = now
  BY <1>6 DEF CompMarketState
<1>8. updatedIndex(f, side, m, s, now) = new
  BY DEF updatedIndex, old, amount, divisor, ratio
<1>9. QED
  BY <1>7, <1>8 DEF old

\* What an account gets is a natural: its index is not ahead of the market's.
LEMMA DistributionNat ==
  ASSUME NEW now \in Nat, NEW f, wellKept(f, now), NEW side \in Sides,
         NEW m \in RewardMarkets, NEW s \in CTokenStorage, validSnapshots(s),
         NEW h \in Holders
  PROVE  distribution(f, side, m, s, h) \in Nat
<1> DEFINE index == f.compState[side][m].index
           prior == f.accountIndex[side][m][h]
           since == IF prior = 0 /\ index >= compInitialIndex THEN compInitialIndex ELSE prior
<1>1. index \in Nat /\ prior \in Nat /\ prior <= index
  BY FlywheelFields DEF wellKept, recordsArePast, CompMarketState
<1>2. compInitialIndex \in Nat /\ doubleScale \in Nat /\ doubleScale # 0
  BY CompFlywheelAssumption DEF compInitialIndex
<1> HIDE DEF index, prior
<1>3. index - since \in Nat
  BY <1>1, <1>2
<1> HIDE DEF since
<1>4. shares(side, s, h) * (index - since) \in Nat
  BY <1>3, SharesNat, ProductNat
<1>5. (shares(side, s, h) * (index - since)) \div doubleScale \in Nat
  BY <1>2, <1>4, QuotientNat
<1>6. QED
  BY <1>5 DEF distribution, index, prior, since

\* Updating a market's index keeps the records past.
LEMMA UpdateKeeps ==
  ASSUME NEW now \in Nat, NEW f, wellKept(f, now), NEW side \in Sides,
         NEW m \in RewardMarkets, NEW s \in CTokenStorage, validSnapshots(s)
  PROVE  /\ wellKept(updateCompIndex(f, side, m, s, now), now)
         /\ speedsOf(updateCompIndex(f, side, m, s, now)) = speedsOf(f)
<1> DEFINE state == updatedIndex(f, side, m, s, now)
           cs    == [f.compState EXCEPT ![side][m] = state]
           t     == [f EXCEPT !.compState[side][m] = state]
<1>1. f \in FlywheelStorage /\ recordsArePast(f, now)
  BY DEF wellKept
<1>2. /\ state \in CompMarketState /\ state.block <= now
      /\ state.index >= f.compState[side][m].index
  BY UpdatedIndexGrows
<1>3. updateCompIndex(f, side, m, s, now) = t
  BY DEF updateCompIndex
<1> HIDE DEF state
<1>4. f.compState \in [Sides -> [RewardMarkets -> CompMarketState]]
  BY <1>1, FlywheelFields
<1>5. /\ cs \in [Sides -> [RewardMarkets -> CompMarketState]]
      /\ \A d \in Sides, k \in RewardMarkets :
            cs[d][k] = IF d = side /\ k = m THEN state ELSE f.compState[d][k]
  BY <1>2, <1>4
<1>6. t \in FlywheelStorage
  BY <1>1, <1>5 DEF FlywheelStorage
<1>7. /\ t.compState = cs /\ t.accountIndex = f.accountIndex /\ speedsOf(t) = speedsOf(f)
      /\ t.lastContributorBlock = f.lastContributorBlock
  BY <1>1 DEF FlywheelStorage, speedsOf
<1> HIDE DEF cs, t
<1>8. ASSUME NEW d \in Sides, NEW k \in RewardMarkets
      PROVE  /\ t.compState[d][k].block <= now
             /\ \A h \in Holders : t.accountIndex[d][k][h] <= t.compState[d][k].index
  <2>1. /\ f.compState[d][k].block <= now
        /\ \A h \in Holders : f.accountIndex[d][k][h] <= f.compState[d][k].index
    BY <1>1 DEF recordsArePast
  <2>2. /\ f.compState[d][k].index \in Nat /\ state.index \in Nat
        /\ \A h \in Holders : f.accountIndex[d][k][h] \in Nat
    BY <1>1, <1>2, <1>4, FlywheelFields DEF CompMarketState
  <2>3. t.compState[d][k] = f.compState[d][k]
        \/ (d = side /\ k = m /\ t.compState[d][k] = state)
    BY <1>5, <1>7
  <2>4. QED
    BY <1>2, <1>7, <2>1, <2>2, <2>3
<1>9. recordsArePast(t, now)
  BY <1>1, <1>7, <1>8 DEF recordsArePast
<1>10. QED
  BY <1>3, <1>6, <1>7, <1>9 DEF wellKept

\* Distributing to an account brings its index up to the market's.
LEMMA DistributeKeeps ==
  ASSUME NEW now \in Nat, NEW f, wellKept(f, now), NEW side \in Sides,
         NEW m \in RewardMarkets, NEW s \in CTokenStorage, validSnapshots(s),
         NEW account \in Holders
  PROVE  /\ wellKept(distributeComp(f, side, m, s, account), now)
         /\ speedsOf(distributeComp(f, side, m, s, account)) = speedsOf(f)
<1> DEFINE index == f.compState[side][m].index
           ai    == [f.accountIndex EXCEPT ![side][m][account] = index]
           ca    == [f.compAccrued EXCEPT ![account] = @ + distribution(f, side, m, s, account)]
           t     == [f EXCEPT !.accountIndex[side][m][account] = index,
                              !.compAccrued[account] = @ + distribution(f, side, m, s, account)]
<1>1. f \in FlywheelStorage /\ recordsArePast(f, now)
  BY DEF wellKept
<1>2. distributeComp(f, side, m, s, account) = t
  BY DEF distributeComp
<1>3. distribution(f, side, m, s, account) \in Nat
  BY DistributionNat
<1>4. index \in Nat
  BY <1>1, FlywheelFields DEF CompMarketState
<1>5. /\ f.accountIndex \in [Sides -> [RewardMarkets -> [Holders -> Nat]]]
      /\ f.compAccrued \in [Holders -> Nat]
  BY <1>1, FlywheelFields
<1> HIDE DEF index
<1>6. /\ ai \in [Sides -> [RewardMarkets -> [Holders -> Nat]]]
      /\ \A d \in Sides, k \in RewardMarkets, h \in Holders :
            ai[d][k][h] = IF d = side /\ k = m /\ h = account THEN index
                          ELSE f.accountIndex[d][k][h]
  BY <1>4, <1>5
<1>7. ca \in [Holders -> Nat]
  BY <1>3, <1>5
<1>8. t \in FlywheelStorage
  BY <1>1, <1>6, <1>7 DEF FlywheelStorage
<1>9. /\ t.compState = f.compState /\ t.accountIndex = ai /\ speedsOf(t) = speedsOf(f)
      /\ t.lastContributorBlock = f.lastContributorBlock
  BY <1>1 DEF FlywheelStorage, speedsOf
<1> HIDE DEF ai, ca, t
<1>10. \A d \in Sides, k \in RewardMarkets, h \in Holders :
          ai[d][k][h] <= f.compState[d][k].index
  <2> TAKE d \in Sides, k \in RewardMarkets, h \in Holders
  <2>1. f.accountIndex[d][k][h] <= f.compState[d][k].index
    BY <1>1 DEF recordsArePast
  <2>2. CASE d = side /\ k = m /\ h = account
    BY <1>4, <1>6, <2>2 DEF index
  <2>3. CASE ~(d = side /\ k = m /\ h = account)
    BY <1>6, <2>1, <2>3
  <2>4. QED
    BY <2>2, <2>3
<1>11. recordsArePast(t, now)
  BY <1>1, <1>9, <1>10 DEF recordsArePast
<1>12. QED
  BY <1>2, <1>8, <1>9, <1>11 DEF wellKept

\* What a hook does for one account
LEMMA SpinKeeps ==
  ASSUME NEW now \in Nat, NEW f, wellKept(f, now), NEW side \in Sides,
         NEW m \in RewardMarkets, NEW s \in CTokenStorage, validSnapshots(s),
         NEW account \in Holders
  PROVE  /\ wellKept(spin(f, side, m, s, now, account), now)
         /\ speedsOf(spin(f, side, m, s, now, account)) = speedsOf(f)
BY UpdateKeeps, DistributeKeeps DEF spin

\* New states of the markets, none of them behind the old, keep the records
\* past, whatever the weights and speeds that come with them.
LEMMA NewStatesKeep ==
  ASSUME NEW now \in Nat, NEW f, wellKept(f, now),
         NEW t \in FlywheelStorage,
         t.accountIndex = f.accountIndex, t.lastContributorBlock = f.lastContributorBlock,
         \A d \in Sides, k \in RewardMarkets :
            /\ t.compState[d][k].block <= now
            /\ t.compState[d][k].index >= f.compState[d][k].index
  PROVE  wellKept(t, now)
<1>1. f \in FlywheelStorage /\ recordsArePast(f, now)
  BY DEF wellKept
<1>2. ASSUME NEW d \in Sides, NEW k \in RewardMarkets, NEW h \in Holders
      PROVE  t.accountIndex[d][k][h] <= t.compState[d][k].index
  <2>1. f.accountIndex[d][k][h] <= f.compState[d][k].index
    BY <1>1 DEF recordsArePast
  <2>2. /\ f.accountIndex[d][k][h] \in Nat /\ f.compState[d][k].index \in Nat
        /\ t.compState[d][k].index \in Nat
    BY <1>1, FlywheelFields DEF CompMarketState
  <2>3. QED
    BY <2>1, <2>2
<1>3. recordsArePast(t, now)
  BY <1>1, <1>2 DEF recordsArePast
<1>4. QED
  BY <1>3 DEF wellKept

\* Listing a market again would not take its index back.
LEMMA InitializeMarketKeeps ==
  ASSUME NEW now \in Nat, NEW f, wellKept(f, now), NEW m \in RewardMarkets
  PROVE  /\ wellKept(initializeMarket(f, m, now), now)
         /\ speedsOf(initializeMarket(f, m, now)) = speedsOf(f)
<1> DEFINE new(side) == [index |-> IF f.compState[side][m].index = 0 THEN compInitialIndex
                                   ELSE f.compState[side][m].index,
                         block |-> now]
           cs == [f.compState EXCEPT !["supply"][m] = new("supply"),
                                     !["borrow"][m] = new("borrow")]
           cw == [f.compWeight EXCEPT ![m] = 0]
           t  == [f EXCEPT !.compState = cs, !.compWeight = cw]
<1>1. f \in FlywheelStorage /\ recordsArePast(f, now)
  BY DEF wellKept
<1>2. /\ f.compState \in [Sides -> [RewardMarkets -> CompMarketState]]
      /\ f.compWeight \in [RewardMarkets -> Nat]
  BY <1>1, FlywheelFields
<1>3. \A side \in Sides : /\ new(side) \in CompMarketState /\ new(side).block = now
                         /\ new(side).index >= f.compState[side][m].index
  <2>1. compInitialIndex \in Nat
    BY CompFlywheelAssumption DEF compInitialIndex
  <2>2. \A side \in Sides : f.compState[side][m].index \in Nat
    BY <1>2 DEF CompMarketState
  <2>3. QED
    BY <2>1, <2>2 DEF CompMarketState
<1>4. initializeMarket(f, m, now) = t
  BY <1>1, <1>2 DEF initializeMarket, FlywheelStorage, Sides
<1> HIDE DEF new
<1>5. /\ cs \in [Sides -> [RewardMarkets -> CompMarketState]]
      /\ \A d \in Sides, k \in RewardMarkets :
            cs[d][k] = IF k = m THEN new(d) ELSE f.compState[d][k]
  BY <1>2, <1>3 DEF Sides
<1>6. cw \in [RewardMarkets -> Nat]
  BY <1>2
<1>7. t \in FlywheelStorage
  BY <1>1, <1>5, <1>6 DEF FlywheelStorage
<1>8. /\ t.compState = cs /\ t.accountIndex = f.accountIndex /\ speedsOf(t) = speedsOf(f)
      /\ t.lastContributorBlock = f.lastContributorBlock
  BY <1>1 DEF FlywheelStorage, speedsOf
<1> HIDE DEF cs, cw, t
<1>9. ASSUME NEW d \in Sides, NEW k \in RewardMarkets
      PROVE  /\ t.compState[d][k].block <= now
             /\ t.compState[d][k].index >= f.compState[d][k].index
  <2>1. f.compState[d][k].block <= now /\ f.compState[d][k].index \in Nat
    BY <1>1, <1>2 DEF recordsArePast, CompMarketState
  <2>2. t.compState[d][k] = IF k = m THEN new(d) ELSE f.compState[d][k]
    BY <1>5, <1>8
  <2>3. QED
    BY <1>3, <2>1, <2>2
<1>10. QED
  BY <1>4, <1>7, <1>8, <1>9, NewStatesKeep

\* Bringing all listed markets up to date
LEMMA UpdateAllKeeps ==
  ASSUME NEW now \in Nat, NEW f, wellKept(f, now), NEW sides, NEW listed,
         NEW ct, \A m \in RewardMarkets : ct[m] \in CTokenStorage /\ validSnapshots(ct[m])
  PROVE  /\ wellKept(updateAll(f, sides, listed, ct, now), now)
         /\ speedsOf(updateAll(f, sides, listed, ct, now)) = speedsOf(f)
<1> DEFINE new(side, m) == updatedIndex(f, side, m, ct[m], now)
           cs == [side \in Sides |-> [m \in RewardMarkets |->
                    IF side \in sides /\ m \in listed THEN new(side, m)
                    ELSE f.compState[side][m]]]
           t  == [f EXCEPT !.compState = cs]
<1>1. f \in FlywheelStorage /\ recordsArePast(f, now)
  BY DEF wellKept
<1>2. updateAll(f, sides, listed, ct, now) = t
  BY DEF updateAll
<1>3. \A side \in Sides, m \in RewardMarkets :
         /\ new(side, m) \in CompMarketState /\ new(side, m).block = now
         /\ new(side, m).index >= f.compState[side][m].index
  BY UpdatedIndexGrows
<1> HIDE DEF new
<1>4. f.compState \in [Sides -> [RewardMarkets -> CompMarketState]]
  BY <1>1, FlywheelFields
<1>5. \A d \in Sides, k \in RewardMarkets :
         cs[d][k] = IF d \in sides /\ k \in listed THEN new(d, k) ELSE f.compState[d][k]
  OBVIOUS
<1>6. \A d \in Sides, k \in RewardMarkets : cs[d][k] \in CompMarketState
  BY <1>3, <1>4, <1>5
<1>7. cs \in [Sides -> [RewardMarkets -> CompMarketState]]
  BY <1>6
<1>8. t \in FlywheelStorage
  <2> HIDE DEF cs
  <2>1. QED
    BY <1>1, <1>7 DEF FlywheelStorage
<1>9. /\ t.compState = cs /\ t.accountIndex = f.accountIndex /\ speedsOf(t) = speedsOf(f)
      /\ t.lastContributorBlock = f.lastContributorBlock
  <2> HIDE DEF cs
  <2>1. QED
    BY <1>1 DEF FlywheelStorage, speedsOf
<1> HIDE DEF cs, t
<1>10. ASSUME NEW d \in Sides, NEW k \in RewardMarkets
       PROVE  /\ t.compState[d][k].block <= now
              /\ t.compState[d][k].index >= f.compState[d][k].index
  <2>1. f.compState[d][k].block <= now /\ f.compState[d][k].index \in Nat
    BY <1>1, <1>4 DEF recordsArePast, CompMarketState
  <2>2. t.compState[d][k] = new(d, k) \/ t.compState[d][k] = f.compState[d][k]
    BY <1>5, <1>9
  <2>3. QED
    BY <1>3, <2>1, <2>2
<1>11. QED
  BY <1>2, <1>8, <1>9, <1>10, NewStatesKeep

\* New speeds or a new weight touch nothing that is recorded.
LEMMA RatesKeep ==
  ASSUME NEW now \in Nat, NEW f, wellKept(f, now)
  PROVE  /\ \A speeds \in [Sides -> Nat] :
               wellKept([f EXCEPT !.compSpeed = speeds], now)
         /\ \A m \in RewardMarkets, weight \in Nat :
               /\ wellKept([f EXCEPT !.compWeight[m] = weight], now)
               /\ speedsOf([f EXCEPT !.compWeight[m] = weight]) = speedsOf(f)
<1>1. f \in FlywheelStorage /\ recordsArePast(f, now)
  BY DEF wellKept
<1>2. ASSUME NEW speeds \in [Sides -> Nat]
      PROVE  wellKept([f EXCEPT !.compSpeed = speeds], now)
  BY <1>1, <1>2 DEF wellKept, recordsArePast, FlywheelStorage
<1>3. ASSUME NEW m \in RewardMarkets, NEW weight \in Nat
      PROVE  /\ wellKept([f EXCEPT !.compWeight[m] = weight], now)
             /\ speedsOf([f EXCEPT !.compWeight[m] = weight]) = speedsOf(f)
  <2>1. [f.compWeight EXCEPT ![m] = weight] \in [RewardMarkets -> Nat]
    BY <1>1, FlywheelFields
  <2>2. QED
    BY <1>1, <2>1 DEF wellKept, recordsArePast, FlywheelStorage, speedsOf
<1>4. QED
  BY <1>2, <1>3

\* Contributors are paid by blocks that have passed.
LEMMA ContributorKeeps ==
  ASSUME NEW now \in Nat, NEW f, wellKept(f, now), NEW c \in Holders
  PROVE  /\ wellKept(contributorRewarded(f, c, now), now)
         /\ speedsOf(contributorRewarded(f, c, now)) = speedsOf(f)
<1> DEFINE delta  == now - f.lastContributorBlock[c]
           reward == delta * f.contributorSpeed[c]
           ca     == [f.compAccrued EXCEPT ![c] = @ + reward]
           lb     == [f.lastContributorBlock EXCEPT ![c] = now]
           t      == [f EXCEPT !.compAccrued = ca, !.lastContributorBlock = lb]
<1>1. f \in FlywheelStorage /\ recordsArePast(f, now)
  BY DEF wellKept
<1>2. /\ f.compAccrued \in [Holders -> Nat] /\ f.lastContributorBlock \in [Holders -> Nat]
      /\ f.contributorSpeed[c] \in Nat /\ f.lastContributorBlock[c] <= now
  BY <1>1, FlywheelFields DEF recordsArePast
<1>3. reward \in Nat
  <2>1. delta \in Nat
    BY <1>2
  <2>2. QED
    BY <1>2, <2>1, ProductNat
<1>4. contributorRewarded(f, c, now) = f \/ contributorRewarded(f, c, now) = t
  BY <1>1 DEF contributorRewarded, FlywheelStorage
<1> HIDE DEF reward
<1>5. ca \in [Holders -> Nat] /\ lb \in [Holders -> Nat]
  BY <1>2, <1>3
<1>6. \A h \in Holders : lb[h] <= now
  BY <1>1, <1>2 DEF recordsArePast
<1> HIDE DEF ca, lb
<1>7. /\ t \in FlywheelStorage /\ speedsOf(t) = speedsOf(f)
      /\ t.compState = f.compState /\ t.accountIndex = f.accountIndex
      /\ t.lastContributorBlock = lb
  BY <1>1, <1>5 DEF FlywheelStorage, speedsOf
<1>8. wellKept(t, now)
  BY <1>1, <1>6, <1>7 DEF wellKept, recordsArePast
<1>9. QED
  BY <1>4, <1>7, <1>8
-----------------------------------------------------------------------------
(* The market with its rewards behaves as the market without them. *)

\* Every step of RewardedMarket is a step of MoneyMarket or leaves it alone.
LEMMA RewardedStepsAreSteps ==
  ASSUME [RewardedNext]_rewardedVars
  PROVE  [Next]_vars
<1>1. CASE \E m \in Markets : \E a \in Suppliers[m] : SupplySteps(m, a) \/ TransferSteps(m, a)
  BY <1>1 DEF SupplySteps, TransferSteps, Next, SupplierStep
<1>2. CASE \E m \in Markets : \E a \in Borrowers[m] : BorrowSteps(m, a) \/ LiquidationSteps(m, a)
  BY <1>2 DEF BorrowSteps, LiquidationSteps, Next, BorrowerStep
<1>3. CASE \E m \in Markets : ListingSteps(m)
  BY <1>3 DEF ListingSteps, Next, AdminMarketStep
<1>4. CASE QuietSteps
  BY <1>4 DEF QuietSteps, Next, SupplierStep, AdminMarketStep
<1>5. CASE FlywheelStep
  <2>1. Drip => UNCHANGED vars
    BY DEF Drip
  <2>2. \A first, second \in Claimants, m, c \in Markets, sides \in ClaimSides :
           ClaimComp(first, second, m, c, sides) => UNCHANGED vars
    BY DEF ClaimComp
  <2>3. \A recipient \in Claimants, amount \in Grants :
           GrantComp(recipient, amount) => UNCHANGED vars
    BY DEF GrantComp
  <2>4. \A caller \in Accounts, supplySpeed, borrowSpeed \in CompSpeeds :
           SetCompSpeeds(caller, supplySpeed, borrowSpeed) => UNCHANGED vars
    BY DEF SetCompSpeeds
  <2>5. \A m \in Markets, weight \in CompWeights : SetCompWeight(m, weight) => UNCHANGED vars
    BY DEF SetCompWeight
  <2>6. \A contributor \in Claimants :
           /\ UpdateContributorRewards(contributor) => UNCHANGED vars
           /\ \A speed \in ContributorSpeeds :
                 SetContributorCompSpeed(contributor, speed) => UNCHANGED vars
    BY DEF UpdateContributorRewards, SetContributorCompSpeed
  <2>7. QED
    BY <1>5, <2>1, <2>2, <2>3, <2>4, <2>5, <2>6 DEF FlywheelStep
<1>6. CASE UNCHANGED rewardedVars
  BY <1>6 DEF rewardedVars
<1>7. QED
  BY <1>1, <1>2, <1>3, <1>4, <1>5, <1>6 DEF RewardedNext

\* The distribution changes nothing about lending: RewardedMarket implements
\* MoneyMarket, so that whatever holds of the one holds of the other.
THEOREM RewardsChangeNoMarket == RewardedSpec => Spec
<1>1. RewardedInit => Init
  BY DEF RewardedInit
<1>2. [RewardedNext]_rewardedVars => [Next]_vars
  BY RewardedStepsAreSteps
<1>3. QED
  BY <1>1, <1>2, PTL DEF RewardedSpec, Spec

\* So the markets that hand out COMP on the way keep the books of LendingLedger.
THEOREM RewardedMarketsAreLedgers ==
  ASSUME SeedIsEnough
  PROVE  RewardedSpec => MarketsKeepTheBooks
<1>1. RewardedSpec => Spec
  BY RewardsChangeNoMarket
<1>2. Spec => MarketsKeepTheBooks
  BY MarketsAreLedgers
<1>3. QED
  BY <1>1, <1>2, PTL
-----------------------------------------------------------------------------
(* The invariant of the distribution *)

\* Types and records, which every step keeps
RewardsInv == RewardsTypeOK /\ RecordsArePast

\* Contributors earn what they did, or what the Admin may choose for them.
contributorsChosen ==
  \A h \in Holders :
     \/ flywheel'.contributorSpeed[h] = flywheel.contributorSpeed[h]
     \/ h \in Claimants /\ flywheel'.contributorSpeed[h] \in ContributorSpeeds

\* What a step that only turns the flywheel leaves behind
Turned ==
  /\ RewardsInv' /\ block' = block
  /\ flywheel'.compSpeed = flywheel.compSpeed /\ contributorsChosen

\* Holders of cTokens hold COMP, and the markets that reward are all.
LEMMA RewardConstants ==
  /\ RewardMarkets = Markets /\ Holders \subseteq CompHolders
  /\ ReservoirAddress \in CompHolders /\ ComptrollerAddress \in CompHolders
  /\ Claimants \subseteq Holders /\ dripRate \in Nat
BY RewardedMarketAssumption, MoneyMarketAssumption DEF CompHolders

\* The flywheel's part of the invariant
LEMMA FlywheelKept ==
  ASSUME RewardsInv
  PROVE  wellKept(flywheel, block)
BY DEF RewardsInv, RewardsTypeOK, RecordsArePast, wellKept

\* A step that turns the flywheel to one with its records past keeps the
\* invariant.
LEMMA TurnSuffices ==
  ASSUME RewardsInv, NEW f, Turn(f), wellKept(f, block), block' = block
  PROVE  RewardsInv'
BY DEF RewardsInv, RewardsTypeOK, RecordsArePast, wellKept, Turn, compVars

\* If it leaves the speeds alone, it only turns the flywheel.
LEMMA TurnedSuffices ==
  ASSUME RewardsInv, NEW f, Turn(f), wellKept(f, block), speedsOf(f) = speedsOf(flywheel),
         block' = block
  PROVE  Turned
<1>1. RewardsInv' /\ flywheel' = f
  BY TurnSuffices DEF Turn
<1>2. f.compSpeed = flywheel.compSpeed /\ f.contributorSpeed = flywheel.contributorSpeed
  BY DEF speedsOf
<1> QED  BY <1>1, <1>2 DEF Turned, contributorsChosen

\* Each hook's turn of the flywheel, of accrued or of stored data
LEMMA SpunKeeps ==
  ASSUME IndInv, NEW f, wellKept(f, block), NEW m \in Markets, NEW account \in Holders
  PROVE  /\ \A side \in Sides : canAccrue(ctoken[m], block) =>
               /\ wellKept(spun(f, side, m, account), block)
               /\ speedsOf(spun(f, side, m, account)) = speedsOf(f)
         /\ \A dst \in Holders :
               /\ wellKept(spunForBoth(f, m, account, dst), block)
               /\ speedsOf(spunForBoth(f, m, account, dst)) = speedsOf(f)
<1>1. block \in Nat /\ m \in RewardMarkets /\ "supply" \in Sides
  BY RewardConstants DEF IndInv, TypeOK, Sides
<1>2. ctoken[m] \in CTokenStorage /\ validSnapshots(ctoken[m])
  BY MarketsSound DEF validMarket
<1>3. canAccrue(ctoken[m], block) => accrued(m) \in CTokenStorage /\ validSnapshots(accrued(m))
  BY AccruedSound DEF validMarket
<1>4. \A side \in Sides : canAccrue(ctoken[m], block) =>
         /\ wellKept(spun(f, side, m, account), block)
         /\ speedsOf(spun(f, side, m, account)) = speedsOf(f)
  BY <1>1, <1>3, SpinKeeps DEF spun
<1>5. ASSUME NEW dst \in Holders
      PROVE  /\ wellKept(spunForBoth(f, m, account, dst), block)
             /\ speedsOf(spunForBoth(f, m, account, dst)) = speedsOf(f)
  <2> DEFINE g == spin(f, "supply", m, ctoken[m], block, account)
  <2>1. wellKept(g, block) /\ speedsOf(g) = speedsOf(f)
    BY <1>1, <1>2, SpinKeeps
  <2> HIDE DEF g
  <2>2. /\ wellKept(distributeComp(g, "supply", m, ctoken[m], dst), block)
        /\ speedsOf(distributeComp(g, "supply", m, ctoken[m], dst)) = speedsOf(g)
    BY <1>1, <1>2, <2>1, DistributeKeeps
  <2>3. QED
    BY <2>1, <2>2 DEF spunForBoth, g
<1>6. QED
  BY <1>4, <1>5

\* mint, redeem and redeemUnderlying
LEMMA SupplyStepsTurn ==
  ASSUME IndInv, RewardsInv, NEW m \in Markets, NEW a \in Accounts, SupplySteps(m, a)
  PROVE  Turned
<1>1. canAccrue(ctoken[m], block) /\ block' = block
  BY DEF SupplySteps, Mint, Redeem, RedeemUnderlying, RedeemFresh
<1> DEFINE f == spun(flywheel, "supply", m, a)
<1>2. Turn(f)
  BY DEF SupplySteps
<1>3. wellKept(f, block) /\ speedsOf(f) = speedsOf(flywheel)
  BY <1>1, SpunKeeps, FlywheelKept, AccountsAreHolders DEF Sides
<1> HIDE DEF f
<1>4. QED
  BY <1>1, <1>2, <1>3, TurnedSuffices

\* transfer and transferFrom
LEMMA TransferStepsTurn ==
  ASSUME IndInv, RewardsInv, NEW m \in Markets, NEW a \in Accounts, TransferSteps(m, a)
  PROVE  Turned
<1>1. PICK src \in Accounts, dst \in Accounts :
         Turn(spunForBoth(flywheel, m, src, dst)) /\ block' = block
  BY DEF TransferSteps, Transfer
<1> DEFINE f == spunForBoth(flywheel, m, src, dst)
<1>2. wellKept(f, block) /\ speedsOf(f) = speedsOf(flywheel)
  BY SpunKeeps, FlywheelKept, AccountsAreHolders
<1> HIDE DEF f
<1>3. QED
  BY <1>1, <1>2, TurnedSuffices DEF f

\* borrow, repayBorrow and repayBorrowBehalf
LEMMA BorrowStepsTurn ==
  ASSUME IndInv, RewardsInv, NEW m \in Markets, NEW a \in Accounts, BorrowSteps(m, a)
  PROVE  Turned
<1>1. canAccrue(ctoken[m], block) /\ block' = block
  BY DEF BorrowSteps, Borrow, RepayBorrow
<1> DEFINE f == spun(flywheel, "borrow", m, a)
<1>2. Turn(f)
  BY DEF BorrowSteps
<1>3. wellKept(f, block) /\ speedsOf(f) = speedsOf(flywheel)
  BY <1>1, SpunKeeps, FlywheelKept, AccountsAreHolders DEF Sides
<1> HIDE DEF f
<1>4. QED
  BY <1>1, <1>2, <1>3, TurnedSuffices

\* liquidateBorrow: a turn for the debt, then two for the cTokens
LEMMA LiquidationStepsTurn ==
  ASSUME IndInv, RewardsInv, NEW m \in Markets, NEW a \in Accounts, LiquidationSteps(m, a)
  PROVE  Turned
<1> DEFINE g == spun(flywheel, "borrow", m, a)
<1>1. PICK liquidator \in Accounts, c \in Markets :
         /\ canAccrue(ctoken[m], block) /\ block' = block
         /\ Turn(spunForBoth(g, c, a, liquidator))
  BY DEF LiquidationSteps, LiquidateBorrow
<1>2. wellKept(g, block) /\ speedsOf(g) = speedsOf(flywheel)
  BY <1>1, SpunKeeps, FlywheelKept, AccountsAreHolders DEF Sides
<1> HIDE DEF g
<1> DEFINE f == spunForBoth(g, c, a, liquidator)
<1>3. wellKept(f, block) /\ speedsOf(f) = speedsOf(g)
  BY <1>2, SpunKeeps, AccountsAreHolders
<1> HIDE DEF f
<1>4. QED
  BY <1>1, <1>2, <1>3, TurnedSuffices DEF f

\* _supportMarket: the market's state starts, then its seed is minted.
LEMMA ListingStepsTurn ==
  ASSUME IndInv, RewardsInv, NEW m \in Markets, ListingSteps(m)
  PROVE  Turned
<1> DEFINE g == initializeMarket(flywheel, m, block)
           f == spun(g, "supply", m, ComptrollerAddress)
<1>1. canAccrue(ctoken[m], block) /\ block' = block /\ Turn(f)
  BY DEF ListingSteps, SupportMarket
<1>2. wellKept(g, block) /\ speedsOf(g) = speedsOf(flywheel)
  BY FlywheelKept, InitializeMarketKeeps, RewardConstants DEF IndInv, TypeOK
<1> HIDE DEF g
<1>3. wellKept(f, block) /\ speedsOf(f) = speedsOf(g)
  BY <1>1, <1>2, SpunKeeps, AccountsAreHolders DEF Sides
<1> HIDE DEF f
<1>4. QED
  BY <1>1, <1>2, <1>3, TurnedSuffices

\* A transaction that leaves the flywheel alone, or a new block
LEMMA QuietStepsTurn ==
  ASSUME IndInv, RewardsInv, QuietSteps
  PROVE  /\ RewardsInv' /\ flywheel' = flywheel
         /\ block' = block \/ block' = block + 1
<1>1. block \in Nat /\ UNCHANGED <<flywheel, compVars>>
  BY DEF QuietSteps, IndInv, TypeOK
<1>2. block' = block \/ block' = block + 1
  <2>1. CASE \E m \in Markets : \E a \in Suppliers[m] :
                \/ \E amount \in Approvals, spender \in Accounts \ {a} :
                      Approve(m, a, spender, amount)
                \/ \E amount \in Donations : Donate(m, a, amount) \/ AddReserves(m, a, amount)
    BY <2>1 DEF Approve, Donate, AddReserves
  <2>2. CASE \E a \in Accounts : MembershipStep(a)
    BY <2>2 DEF MembershipStep, marketVars
  <2>3. CASE \E m \in Markets :
                \/ AccrueInterest(m)
                \/ \E factor \in ReserveFactors : SetReserveFactor(m, factor)
                \/ \E amount \in ReserveAmounts : ReduceReserves(m, amount)
                \/ \E irm \in RateModels : SetInterestRateModel(m, irm)
    BY <2>3 DEF AccrueInterest, SetReserveFactor, ReduceReserves, SetInterestRateModel
  <2>4. CASE AdminComptrollerStep
    BY <2>4 DEF AdminComptrollerStep, marketVars
  <2>5. CASE NextBlock
    BY <2>5 DEF NextBlock
  <2>6. QED
    BY <2>1, <2>2, <2>3, <2>4, <2>5 DEF QuietSteps
<1>3. RewardsTypeOK'
  BY <1>1 DEF RewardsInv, RewardsTypeOK, compVars
<1>4. recordsArePast(flywheel, block')
  <2>1. recordsArePast(flywheel, block) /\ flywheel \in FlywheelStorage
    BY DEF RewardsInv, RewardsTypeOK, RecordsArePast
  <2>2. \A side \in Sides, m \in RewardMarkets :
           flywheel.compState[side][m].block \in Nat
    BY <2>1, FlywheelFields DEF CompMarketState
  <2>3. \A h \in Holders : flywheel.lastContributorBlock[h] \in Nat
    BY <2>1, FlywheelFields
  <2>4. QED
    BY <1>1, <1>2, <2>1, <2>2, <2>3 DEF recordsArePast
<1>5. dripped <= dripRate * block'
  <2>1. dripRate * block <= dripRate * (block + 1)
    BY <1>1, RewardConstants
  <2>2. /\ dripRate * block \in Nat /\ dripRate * (block + 1) \in Nat
        /\ dripped \in Nat /\ dripped <= dripRate * block
    BY <1>1, RewardConstants, ProductNat DEF RewardsInv, RewardsTypeOK, RecordsArePast
  <2>3. QED
    BY <1>2, <2>1, <2>2
<1>6. QED
  BY <1>1, <1>2, <1>3, <1>4, <1>5 DEF RewardsInv, RecordsArePast, compVars

\* What is dripped is there, and within the rate.
LEMMA DripBounds ==
  ASSUME IndInv, RewardsInv
  PROVE  /\ toDrip \in Nat
         /\ drippedBalance \in [CompHolders -> Nat]
         /\ dripped + toDrip \in Nat /\ dripped + toDrip <= dripRate * block
<1> DEFINE deltaDrip == dripRate * block - dripped
           reserve   == compBalance[ReservoirAddress]
<1>1. dripRate * block \in Nat /\ dripped \in Nat /\ dripped <= dripRate * block
  BY RewardConstants, ProductNat
     DEF IndInv, TypeOK, RewardsInv, RewardsTypeOK, RecordsArePast
<1>2. compBalance \in [CompHolders -> Nat] /\ reserve \in Nat
  BY RewardConstants DEF RewardsInv, RewardsTypeOK
<1>3. toDrip = IF reserve < deltaDrip THEN reserve ELSE deltaDrip
  BY DEF toDrip
<1>4. toDrip \in Nat /\ toDrip <= reserve /\ toDrip <= deltaDrip
  BY <1>1, <1>2, <1>3
<1>5. drippedBalance \in [CompHolders -> Nat]
  BY <1>2, <1>4, RewardConstants DEF drippedBalance, compMoved
<1>6. QED
  BY <1>1, <1>4, <1>5

\* Reservoir.drip
LEMMA DripTurns ==
  ASSUME IndInv, RewardsInv, Drip
  PROVE  Turned
<1>1. /\ flywheel' = flywheel /\ compClaimed' = compClaimed /\ block' = block
      /\ compBalance' = drippedBalance /\ dripped' = dripped + toDrip
  BY DEF Drip, vars
<1>2. QED
  BY <1>1, DripBounds DEF Turned, contributorsChosen, RewardsInv, RewardsTypeOK, RecordsArePast

\* _grantComp, of COMP the Comptroller has
LEMMA GrantCompTurns ==
  ASSUME IndInv, RewardsInv, NEW recipient \in Holders, NEW amount \in Nat,
         GrantComp(recipient, amount)
  PROVE  Turned
<1>1. /\ flywheel' = flywheel /\ dripped' = dripped /\ block' = block
      /\ compClaimed' = compClaimed + amount
      /\ compBalance' = compMoved(compBalance, ComptrollerAddress, recipient, amount)
      /\ amount <= compBalance[ComptrollerAddress]
  BY DEF GrantComp, vars
<1>2. compBalance \in [CompHolders -> Nat] /\ compClaimed \in Nat
  BY DEF RewardsInv, RewardsTypeOK
<1>3. compBalance' \in [CompHolders -> Nat] /\ compClaimed' \in Nat
  BY <1>1, <1>2, RewardConstants DEF compMoved
<1>4. QED
  BY <1>1, <1>3 DEF Turned, contributorsChosen, RewardsInv, RewardsTypeOK, RecordsArePast

\* grantCompInternal pays what is there, or nothing.
LEMMA GrantedTyped ==
  ASSUME NEW g, NEW user \in Holders,
         g \in [compAccrued : [Holders -> Nat], compBalance : [CompHolders -> Nat],
                compClaimed : Nat]
  PROVE  granted(g, user) \in [compAccrued : [Holders -> Nat],
                                compBalance : [CompHolders -> Nat], compClaimed : Nat]
<1> DEFINE amount == g.compAccrued[user]
           paidOut == compMoved(g.compBalance, ComptrollerAddress, user, amount)
<1>1. amount \in Nat /\ g.compClaimed + amount \in Nat
  OBVIOUS
<1>2. [g.compAccrued EXCEPT ![user] = 0] \in [Holders -> Nat]
  OBVIOUS
<1>3. amount <= g.compBalance[ComptrollerAddress] => paidOut \in [CompHolders -> Nat]
  BY <1>1, RewardConstants DEF compMoved
<1>4. g.compBalance[ComptrollerAddress] \in Nat
  BY RewardConstants
<1>5. CASE amount > g.compBalance[ComptrollerAddress]
  BY <1>5 DEF granted
<1>6. CASE ~(amount > g.compBalance[ComptrollerAddress])
  <2>1. granted(g, user) = [compAccrued |-> [g.compAccrued EXCEPT ![user] = 0],
                            compBalance |-> paidOut, compClaimed |-> g.compClaimed + amount]
    BY <1>6 DEF granted
  <2>2. amount <= g.compBalance[ComptrollerAddress]
    BY <1>1, <1>4, <1>6
  <2> HIDE DEF amount, paidOut
  <2>3. QED
    BY <1>1, <1>2, <1>3, <2>1, <2>2
<1>7. QED
  BY <1>5, <1>6

\* claimComp's visit to one market, on the sides that are claimed
LEMMA CollectedKeeps ==
  ASSUME IndInv, NEW f, wellKept(f, block), NEW m \in Markets, NEW sides,
         NEW first \in Holders, NEW second \in Holders
  PROVE  /\ wellKept(collectedMarket(f, m, first, second, sides), block)
         /\ speedsOf(collectedMarket(f, m, first, second, sides)) = speedsOf(f)
<1>1. block \in Nat /\ m \in RewardMarkets
  BY RewardConstants DEF IndInv, TypeOK
<1>2. ctoken[m] \in CTokenStorage /\ validSnapshots(ctoken[m])
  BY MarketsSound DEF validMarket
<1>3. ASSUME NEW g, wellKept(g, block), NEW side \in Sides
      PROVE  /\ wellKept(collected(g, side, m, first, second), block)
             /\ speedsOf(collected(g, side, m, first, second)) = speedsOf(g)
  <2> DEFINE e == spin(g, side, m, ctoken[m], block, first)
  <2>1. wellKept(e, block) /\ speedsOf(e) = speedsOf(g)
    BY <1>1, <1>2, <1>3, SpinKeeps
  <2> HIDE DEF e
  <2>2. /\ wellKept(distributeComp(e, side, m, ctoken[m], second), block)
        /\ speedsOf(distributeComp(e, side, m, ctoken[m], second)) = speedsOf(e)
    BY <1>1, <1>2, <1>3, <2>1, DistributeKeeps
  <2>3. QED
    BY <2>1, <2>2 DEF collected, e
<1> DEFINE g == IF "borrow" \in sides THEN collected(f, "borrow", m, first, second) ELSE f
<1>4. wellKept(g, block) /\ speedsOf(g) = speedsOf(f)
  BY <1>3 DEF Sides
<1>5. collectedMarket(f, m, first, second, sides)
        = IF "supply" \in sides THEN collected(g, "supply", m, first, second) ELSE g
  BY DEF collectedMarket
<1> HIDE DEF g
<1>6. QED
  BY <1>3, <1>4, <1>5 DEF Sides

\* claimComp: the drip, the visits, the payments
LEMMA ClaimCompTurns ==
  ASSUME IndInv, RewardsInv, NEW first \in Holders, NEW second \in Holders,
         NEW m \in Markets, NEW c \in Markets, NEW sides,
         ClaimComp(first, second, m, c, sides)
  PROVE  Turned
<1> DEFINE e  == collectedMarket(flywheel, m, first, second, sides)
           f  == collectedMarket(e, c, first, second, sides)
           g0 == [compAccrued |-> f.compAccrued, compBalance |-> drippedBalance,
                  compClaimed |-> compClaimed]
           g  == granted(granted(g0, first), second)
           t  == [f EXCEPT !.compAccrued = g.compAccrued]
<1>1. /\ flywheel' = t /\ compBalance' = g.compBalance /\ compClaimed' = g.compClaimed
      /\ dripped' = dripped + toDrip /\ UNCHANGED vars
  BY DEF ClaimComp
<1>2. block' = block
  BY <1>1 DEF vars
<1>3. wellKept(e, block) /\ speedsOf(e) = speedsOf(flywheel)
  BY FlywheelKept, CollectedKeeps
<1> HIDE DEF e
<1>4. wellKept(f, block) /\ speedsOf(f) = speedsOf(e)
  BY <1>3, CollectedKeeps
<1> HIDE DEF f
<1>5. f \in FlywheelStorage /\ recordsArePast(f, block) /\ f.compAccrued \in [Holders -> Nat]
  BY <1>4, FlywheelFields DEF wellKept
<1>6. g0 \in [compAccrued : [Holders -> Nat], compBalance : [CompHolders -> Nat],
              compClaimed : Nat]
  BY <1>5, DripBounds DEF RewardsInv, RewardsTypeOK
<1> HIDE DEF g0
<1>7. g \in [compAccrued : [Holders -> Nat], compBalance : [CompHolders -> Nat],
             compClaimed : Nat]
  BY <1>6, GrantedTyped
<1> HIDE DEF g
<1>8. t \in FlywheelStorage /\ speedsOf(t) = speedsOf(f)
  BY <1>5, <1>7 DEF FlywheelStorage, speedsOf
<1>9. recordsArePast(t, block)
  <2>1. /\ t.compState = f.compState /\ t.accountIndex = f.accountIndex
        /\ t.lastContributorBlock = f.lastContributorBlock
    BY <1>5 DEF FlywheelStorage
  <2>2. QED
    BY <1>5, <2>1 DEF recordsArePast
<1> HIDE DEF t
<1>10. RewardsTypeOK'
  BY <1>1, <1>7, <1>8, DripBounds DEF RewardsTypeOK
<1>11. RecordsArePast'
  BY <1>1, <1>2, <1>9, DripBounds DEF RecordsArePast
<1>12. speedsOf(t) = speedsOf(flywheel)
  BY <1>3, <1>4, <1>8
<1>13. QED
  BY <1>1, <1>2, <1>10, <1>11, <1>12 DEF Turned, contributorsChosen, RewardsInv, speedsOf

\* The markets as claimComp and the setters read them
LEMMA StoredMarkets ==
  ASSUME IndInv
  PROVE  /\ block \in Nat
         /\ \A m \in RewardMarkets : ctoken[m] \in CTokenStorage /\ validSnapshots(ctoken[m])
BY MarketsSound, RewardConstants DEF IndInv, TypeOK, validMarket

\* _setCompSpeeds brings the indexes up to date, then sets the speeds.
LEMMA SetCompSpeedsKeeps ==
  ASSUME IndInv, RewardsInv, NEW caller, NEW supplySpeed \in Nat, NEW borrowSpeed \in Nat,
         SetCompSpeeds(caller, supplySpeed, borrowSpeed)
  PROVE  /\ RewardsInv' /\ block' = block
         /\ maySetCompSpeeds(caller, supplySpeed, borrowSpeed)
         /\ flywheel'.compSpeed["supply"] = supplySpeed
         /\ flywheel'.compSpeed["borrow"] = borrowSpeed
         /\ flywheel'.contributorSpeed = flywheel.contributorSpeed
<1> DEFINE speeds == [side \in Sides |-> IF side = "supply" THEN supplySpeed ELSE borrowSpeed]
           changed == {side \in Sides : flywheel.compSpeed[side] # speeds[side]}
           g == updateAll(flywheel, changed, listedMarkets, ctoken, block)
           f == [g EXCEPT !.compSpeed = speeds]
<1>1. /\ Turn(setCompSpeedInternal(flywheel, speeds, listedMarkets, ctoken, block))
      /\ UNCHANGED vars /\ maySetCompSpeeds(caller, supplySpeed, borrowSpeed)
  BY DEF SetCompSpeeds
<1>2. Turn(f)
  BY <1>1 DEF setCompSpeedInternal
<1>3. block' = block
  BY <1>1 DEF vars
<1>4. speeds \in [Sides -> Nat] /\ speeds["supply"] = supplySpeed
      /\ speeds["borrow"] = borrowSpeed
  BY DEF Sides
<1> HIDE DEF changed, speeds
<1>5. wellKept(g, block) /\ g.contributorSpeed = flywheel.contributorSpeed
  BY FlywheelKept, StoredMarkets, UpdateAllKeeps DEF speedsOf
<1> HIDE DEF g
<1>6. wellKept(f, block)
  BY <1>4, <1>5, StoredMarkets, RatesKeep
<1>7. f.compSpeed = speeds /\ f.contributorSpeed = g.contributorSpeed
  BY <1>5 DEF wellKept, FlywheelStorage
<1> HIDE DEF f
<1>8. RewardsInv'
  BY <1>2, <1>3, <1>6, TurnSuffices
<1>9. QED
  BY <1>1, <1>2, <1>3, <1>4, <1>5, <1>7, <1>8 DEF Turn

\* _setCompWeight, with the weight set or refused
LEMMA SetCompWeightTurns ==
  ASSUME IndInv, RewardsInv, NEW m \in Markets, NEW weight \in Nat, SetCompWeight(m, weight)
  PROVE  Turned
<1> DEFINE g == updateAll(flywheel, Sides, listedMarkets, ctoken, block)
           f == [g EXCEPT !.compWeight[m] = weight]
<1>1. (Turn(g) \/ Turn(f)) /\ UNCHANGED vars
  BY DEF SetCompWeight
<1>2. block' = block
  BY <1>1 DEF vars
<1>3. wellKept(g, block) /\ speedsOf(g) = speedsOf(flywheel)
  BY FlywheelKept, StoredMarkets, UpdateAllKeeps
<1> HIDE DEF g
<1>4. wellKept(f, block) /\ speedsOf(f) = speedsOf(g)
  BY <1>3, StoredMarkets, RewardConstants, RatesKeep
<1> HIDE DEF f
<1>5. QED
  BY <1>1, <1>2, <1>3, <1>4, TurnedSuffices

\* updateContributorRewards and _setContributorCompSpeed
LEMMA ContributorStepsTurn ==
  ASSUME IndInv, RewardsInv, NEW contributor \in Claimants
  PROVE  /\ UpdateContributorRewards(contributor) => Turned
         /\ \A speed \in ContributorSpeeds :
               SetContributorCompSpeed(contributor, speed) => Turned
<1> DEFINE g == contributorRewarded(flywheel, contributor, block)
<1>0. contributor \in Holders /\ ContributorSpeeds \subseteq Nat
  BY RewardedMarketAssumption
<1>1. wellKept(g, block) /\ speedsOf(g) = speedsOf(flywheel)
  BY <1>0, FlywheelKept, StoredMarkets, ContributorKeeps
<1>2. ASSUME UpdateContributorRewards(contributor)
      PROVE  Turned
  <2>1. Turn(g) /\ block' = block
    BY <1>2 DEF UpdateContributorRewards, vars
  <2> HIDE DEF g
  <2>2. QED
    BY <1>1, <2>1, TurnedSuffices
<1>3. ASSUME NEW speed \in ContributorSpeeds, SetContributorCompSpeed(contributor, speed)
      PROVE  Turned
  <2> DEFINE last == IF speed = 0 THEN 0 ELSE block
             f == [g EXCEPT !.contributorSpeed[contributor] = speed,
                            !.lastContributorBlock[contributor] = last]
  <2>1. Turn(f) /\ block' = block
    BY <1>3 DEF SetContributorCompSpeed, vars
  <2> HIDE DEF g
  <2>2. g \in FlywheelStorage /\ recordsArePast(g, block) /\ speed \in Nat
    BY <1>0, <1>1 DEF wellKept
  <2>3. last \in Nat /\ last <= block
    BY StoredMarkets
  <2> HIDE DEF last
  <2> DEFINE chosen == [g.contributorSpeed EXCEPT ![contributor] = speed]
  <2>4. /\ [g.contributorSpeed EXCEPT ![contributor] = speed] \in [Holders -> Nat]
        /\ [g.lastContributorBlock EXCEPT ![contributor] = last] \in [Holders -> Nat]
        /\ \A h \in Holders : chosen[h] = g.contributorSpeed[h] \/ (h = contributor /\ chosen[h] = speed)
    BY <1>0, <2>2, <2>3, FlywheelFields
  <2>5. /\ f \in FlywheelStorage /\ f.compSpeed = g.compSpeed /\ f.contributorSpeed = chosen
        /\ f.compState = g.compState /\ f.accountIndex = g.accountIndex
        /\ f.lastContributorBlock = [g.lastContributorBlock EXCEPT ![contributor] = last]
    BY <2>2, <2>4 DEF FlywheelStorage
  <2> HIDE DEF f, chosen
  <2>6. \A h \in Holders : f.lastContributorBlock[h] <= block
    BY <2>2, <2>3, <2>5, FlywheelFields DEF recordsArePast
  <2>7. wellKept(f, block)
    BY <2>2, <2>5, <2>6 DEF wellKept, recordsArePast
  <2>8. contributorsChosen /\ flywheel'.compSpeed = flywheel.compSpeed
    BY <1>1, <2>1, <2>4, <2>5 DEF contributorsChosen, speedsOf, Turn
  <2>9. QED
    BY <2>1, <2>7, <2>8, TurnSuffices DEF Turned
<1>4. QED
  BY <1>2, <1>3
-----------------------------------------------------------------------------
(* The invariants of every behaviour *)

\* A step leaves speeds and block alone, is one of the quiet ones, or sets the
\* speeds.
LEMMA StepsTurn ==
  ASSUME IndInv, RewardsInv, [RewardedNext]_rewardedVars
  PROVE  \/ Turned
         \/ QuietSteps
         \/ \E caller \in Accounts, supplySpeed, borrowSpeed \in CompSpeeds :
               SetCompSpeeds(caller, supplySpeed, borrowSpeed)
<1>1. CASE \E m \in Markets : \E a \in Suppliers[m] : SupplySteps(m, a) \/ TransferSteps(m, a)
  <2>1. \A m \in Markets : Suppliers[m] \subseteq Accounts
    BY MoneyMarketAssumption
  <2>2. QED
    BY <1>1, <2>1, SupplyStepsTurn, TransferStepsTurn
<1>2. CASE \E m \in Markets : \E a \in Borrowers[m] : BorrowSteps(m, a) \/ LiquidationSteps(m, a)
  <2>1. \A m \in Markets : Borrowers[m] \subseteq Accounts
    BY MoneyMarketAssumption
  <2>2. QED
    BY <1>2, <2>1, BorrowStepsTurn, LiquidationStepsTurn
<1>3. CASE \E m \in Markets : ListingSteps(m)
  BY <1>3, ListingStepsTurn
<1>4. CASE FlywheelStep
  <2>1. /\ Claimants \subseteq Holders /\ Grants \subseteq Nat /\ CompWeights \subseteq Nat
        /\ CompSpeeds \subseteq Nat /\ ContributorSpeeds \subseteq Nat
    BY RewardedMarketAssumption
  <2>2. CASE \E first, second \in Claimants, m, c \in Markets, sides \in ClaimSides :
                ClaimComp(first, second, m, c, sides)
    BY <2>1, <2>2, ClaimCompTurns
  <2>3. CASE \E recipient \in Claimants, amount \in Grants : GrantComp(recipient, amount)
    BY <2>1, <2>3, GrantCompTurns
  <2>4. CASE \E m \in Markets, weight \in CompWeights : SetCompWeight(m, weight)
    BY <2>1, <2>4, SetCompWeightTurns
  <2>5. CASE \E contributor \in Claimants :
                \/ UpdateContributorRewards(contributor)
                \/ \E speed \in ContributorSpeeds : SetContributorCompSpeed(contributor, speed)
    BY <2>1, <2>5, ContributorStepsTurn
  <2>6. CASE \E caller \in Accounts, supplySpeed, borrowSpeed \in CompSpeeds :
                SetCompSpeeds(caller, supplySpeed, borrowSpeed)
    BY <2>1, <2>6
  <2>7. QED
    BY <1>4, <2>2, <2>3, <2>4, <2>5, <2>6, DripTurns DEF FlywheelStep
<1>5. CASE UNCHANGED rewardedVars
  <2>1. flywheel' = flywheel /\ UNCHANGED compVars /\ block' = block
    BY <1>5 DEF rewardedVars, vars
  <2>2. QED
    BY <2>1 DEF Turned, contributorsChosen, RewardsInv, RewardsTypeOK, RecordsArePast, compVars
<1>6. QED
  BY <1>1, <1>2, <1>3, <1>4, <1>5 DEF RewardedNext

\* The schedule has a first entry, and times and speeds for all of them.
LEMMA ScheduleEntries ==
  /\ 1 \in DOMAIN distributionSchedule
  /\ \A i \in DOMAIN distributionSchedule :
        /\ distributionSchedule[i].timestamp \in Nat
        /\ distributionSchedule[i].compSpeed \in Nat
        /\ i \in Nat /\ \A j \in 1 .. i - 1 : j \in DOMAIN distributionSchedule
<1> DEFINE Entry == [timestamp : Nat, compSpeed : Nat]
<1>1. distributionSchedule \in Seq(Entry) /\ distributionSchedule # << >>
  BY CompFlywheelAssumption
<1>2. \A e \in Entry : e.timestamp \in Nat /\ e.compSpeed \in Nat
  OBVIOUS
<1> HIDE DEF Entry
<1>3. /\ Len(distributionSchedule) \in Nat \ {0}
      /\ DOMAIN distributionSchedule = 1 .. Len(distributionSchedule)
      /\ \A i \in 1 .. Len(distributionSchedule) : distributionSchedule[i] \in Entry
  BY <1>1
<1>4. QED
  BY <1>2, <1>3

\* At first nothing is recorded, and the speeds are those of the first entry.
LEMMA RewardsInitially ==
  ASSUME RewardedInit
  PROVE  RewardsInv /\ SpeedsAreScheduled
<1>1. /\ 1 \in DOMAIN distributionSchedule /\ distributionSchedule[1].compSpeed \in Nat
      /\ doubleScale \in Nat
  BY ScheduleEntries, CompFlywheelAssumption
<1>2. initialFlywheel \in FlywheelStorage
  BY <1>1 DEF initialFlywheel, FlywheelStorage, CompMarketState
<1>3. recordsArePast(initialFlywheel, 0)
  BY DEF initialFlywheel, recordsArePast
<1>4. block = 0 /\ flywheel = initialFlywheel
  BY DEF RewardedInit, Init
<1>5. RewardsTypeOK
  BY <1>2, <1>4, RewardedMarketAssumption DEF RewardedInit, CompInit, RewardsTypeOK, CompHolders
<1>6. dripped <= dripRate * block
  BY <1>4, RewardedMarketAssumption DEF RewardedInit, CompInit
<1>7. SpeedsAreScheduled
  <2>1. \A side \in Sides : flywheel.compSpeed[side] = distributionSchedule[1].compSpeed
    BY <1>4 DEF initialFlywheel
  <2>2. QED
    BY <1>1, <2>1 DEF SpeedsAreScheduled
<1>8. QED
  BY <1>3, <1>4, <1>5, <1>6, <1>7 DEF RewardsInv, RecordsArePast

\* Whatever the schedule says, only the entry in force can be chosen while one
\* is, and an entry once over stays over.
LEMMA SpeedsStay ==
  ASSUME IndInv, RewardsInv, SpeedsAreScheduled, [RewardedNext]_rewardedVars
  PROVE  SpeedsAreScheduled'
<1>1. /\ block \in Nat
      /\ \A i \in DOMAIN distributionSchedule :
            /\ distributionSchedule[i].timestamp \in Nat
            /\ i \in Nat /\ \A j \in 1 .. i - 1 : j \in DOMAIN distributionSchedule
  BY ScheduleEntries DEF IndInv, TypeOK
<1>2. ASSUME flywheel'.compSpeed = flywheel.compSpeed, block' \in Nat, block' >= block
      PROVE  SpeedsAreScheduled'
  <2> SUFFICES ASSUME \E i \in DOMAIN distributionSchedule :
                         block' < distributionSchedule[i].timestamp
               PROVE  \E i \in DOMAIN distributionSchedule :
                         /\ \A side \in Sides :
                               flywheel'.compSpeed[side] = distributionSchedule[i].compSpeed
                         /\ \A j \in 1 .. i - 1 : block' >= distributionSchedule[j].timestamp
    BY DEF SpeedsAreScheduled
  <2>1. \E i \in DOMAIN distributionSchedule : block < distributionSchedule[i].timestamp
    BY <1>1, <1>2
  <2>2. PICK i \in DOMAIN distributionSchedule :
           /\ \A side \in Sides : flywheel.compSpeed[side] = distributionSchedule[i].compSpeed
           /\ \A j \in 1 .. i - 1 : block >= distributionSchedule[j].timestamp
    BY <2>1 DEF SpeedsAreScheduled
  <2>3. \A j \in 1 .. i - 1 : block' >= distributionSchedule[j].timestamp
    BY <1>1, <1>2, <2>2
  <2>4. QED
    BY <1>2, <2>2, <2>3
<1>3. CASE Turned
  BY <1>1, <1>2, <1>3 DEF Turned
<1>4. CASE QuietSteps
  BY <1>1, <1>2, <1>4, QuietStepsTurn
<1>5. ASSUME NEW caller \in Accounts, NEW supplySpeed \in Nat, NEW borrowSpeed \in Nat,
             SetCompSpeeds(caller, supplySpeed, borrowSpeed)
      PROVE  SpeedsAreScheduled'
  <2>1. /\ block' = block /\ maySetCompSpeeds(caller, supplySpeed, borrowSpeed)
        /\ \A side \in Sides :
              flywheel'.compSpeed[side] = IF side = "supply" THEN supplySpeed ELSE borrowSpeed
    BY <1>5, SetCompSpeedsKeeps DEF Sides
  <2>2. CASE \E i \in DOMAIN distributionSchedule :
                /\ block < distributionSchedule[i].timestamp
                /\ \A j \in 1 .. i - 1 : block >= distributionSchedule[j].timestamp
                /\ supplySpeed = distributionSchedule[i].compSpeed /\ borrowSpeed = supplySpeed
    <3>1. PICK i \in DOMAIN distributionSchedule :
             /\ \A j \in 1 .. i - 1 : block >= distributionSchedule[j].timestamp
             /\ supplySpeed = distributionSchedule[i].compSpeed /\ borrowSpeed = supplySpeed
      BY <2>2
    <3>2. \A side \in Sides : flywheel'.compSpeed[side] = distributionSchedule[i].compSpeed
      BY <2>1, <3>1
    <3>3. QED
      BY <2>1, <3>1, <3>2 DEF SpeedsAreScheduled
  <2>3. CASE \A i \in DOMAIN distributionSchedule : block >= distributionSchedule[i].timestamp
    <3>1. ~ \E i \in DOMAIN distributionSchedule : block < distributionSchedule[i].timestamp
      BY <1>1, <2>3
    <3>2. QED
      BY <2>1, <3>1 DEF SpeedsAreScheduled
  <2>4. QED
    BY <2>1, <2>2, <2>3 DEF maySetCompSpeeds
<1>6. QED
  BY <1>3, <1>4, <1>5, StepsTurn, RewardedMarketAssumption

\* The three invariants hold together in every behaviour.
LEMMA RewardsInvariance == RewardedSpec => [](RewardsInv /\ SpeedsAreScheduled)
<1>1. RewardedInit => RewardsInv /\ SpeedsAreScheduled
  BY RewardsInitially
<1>2. ASSUME IndInv, RewardsInv, SpeedsAreScheduled, [RewardedNext]_rewardedVars
      PROVE  RewardsInv' /\ SpeedsAreScheduled'
  <2>1. RewardsInv'
    BY <1>2, StepsTurn, QuietStepsTurn, SetCompSpeedsKeeps, RewardedMarketAssumption
       DEF Turned
  <2>2. QED
    BY <1>2, <2>1, SpeedsStay
<1>3. RewardedSpec => []IndInv
  BY RewardsChangeNoMarket, Invariance, PTL
<1>4. QED
  BY <1>1, <1>2, <1>3, PTL DEF RewardedSpec

\* The storage of the distribution has its types in every reachable state: no
\* subtraction of the hooks, of the drip or of a payment goes below zero.
THEOREM RewardsTypeCorrect == RewardedSpec => []RewardsTypeOK
<1>1. RewardsInv => RewardsTypeOK
  BY DEF RewardsInv
<1>2. QED
  BY <1>1, RewardsInvariance, PTL

\* No hook reverts for the sake of COMP: blocks and indexes that were recorded
\* are past in every reachable state, whatever the market's storage.
THEOREM RecordsStayPast == RewardedSpec => []RecordsArePast
<1>1. RewardsInv => RecordsArePast
  BY DEF RewardsInv
<1>2. QED
  BY <1>1, RewardsInvariance, PTL

\* For every schedule, even one whose timestamps do not rise: no speed of an
\* entry is in force before the entries before it are over.
THEOREM SpeedsStayScheduled == RewardedSpec => []SpeedsAreScheduled
<1>1. QED
  BY RewardsInvariance, PTL
-----------------------------------------------------------------------------
(* Indexes only grow, and what an account was promised. *)

\* No index of g is behind that of f.
notBehind(f, g) ==
  \A side \in Sides, m \in RewardMarkets :
     /\ g.compState[side][m].index >= f.compState[side][m].index
     /\ \A h \in Holders : g.accountIndex[side][m][h] >= f.accountIndex[side][m][h]

\* Only the states of the markets may differ.
sameButStates(f, g) ==
  /\ g.accountIndex = f.accountIndex /\ g.compAccrued = f.compAccrued
  /\ g.compSpeed = f.compSpeed /\ g.compWeight = f.compWeight
  /\ g.contributorSpeed = f.contributorSpeed /\ g.lastContributorBlock = f.lastContributorBlock

\* What updateCompSupplyIndex and updateCompBorrowIndex write
LEMMA UpdateFields ==
  ASSUME NEW now \in Nat, NEW f, wellKept(f, now), NEW side \in Sides,
         NEW m \in RewardMarkets, NEW s \in CTokenStorage, validSnapshots(s),
         NEW g, g = updateCompIndex(f, side, m, s, now)
  PROVE  /\ sameButStates(f, g) /\ wellKept(g, now)
         /\ g.compState[side][m] = updatedIndex(f, side, m, s, now)
         /\ \A d \in Sides, k \in RewardMarkets :
               d # side \/ k # m => g.compState[d][k] = f.compState[d][k]
<1> DEFINE state == updatedIndex(f, side, m, s, now)
<1>1. f \in FlywheelStorage
  BY DEF wellKept
<1>2. f.compState \in [Sides -> [RewardMarkets -> CompMarketState]]
  BY <1>1, FlywheelFields
<1> HIDE DEF state
<1>3. g = [f EXCEPT !.compState[side][m] = state]
  BY DEF updateCompIndex, state
<1>4. wellKept(g, now)
  BY UpdateKeeps
<1>5. sameButStates(f, g) /\ g.compState = [f.compState EXCEPT ![side][m] = state]
  BY <1>1, <1>3 DEF FlywheelStorage, sameButStates
<1>6. /\ g.compState[side][m] = state
      /\ \A d \in Sides, k \in RewardMarkets :
            d # side \/ k # m => g.compState[d][k] = f.compState[d][k]
  BY <1>2, <1>5
<1> QED  BY <1>4, <1>5, <1>6 DEF state

\* What distributeSupplierComp and distributeBorrowerComp write
distributed(f, g, now, side, m, s, a) ==
  /\ wellKept(g, now)
  /\ g.compState = f.compState /\ g.compSpeed = f.compSpeed /\ g.compWeight = f.compWeight
  /\ g.contributorSpeed = f.contributorSpeed
  /\ g.lastContributorBlock = f.lastContributorBlock
  /\ g.accountIndex[side][m][a] = f.compState[side][m].index
  /\ \A d \in Sides, k \in RewardMarkets, h \in Holders :
        d # side \/ k # m \/ h # a => g.accountIndex[d][k][h] = f.accountIndex[d][k][h]
  /\ g.compAccrued[a] = f.compAccrued[a] + distribution(f, side, m, s, a)
  /\ \A h \in Holders : h # a => g.compAccrued[h] = f.compAccrued[h]

LEMMA DistributeFields ==
  ASSUME NEW now \in Nat, NEW f, wellKept(f, now), NEW side \in Sides,
         NEW m \in RewardMarkets, NEW s \in CTokenStorage, validSnapshots(s),
         NEW a \in Holders, NEW g, g = distributeComp(f, side, m, s, a)
  PROVE  distributed(f, g, now, side, m, s, a)
<1> DEFINE index == f.compState[side][m].index
           gain  == distribution(f, side, m, s, a)
<1>1. f \in FlywheelStorage
  BY DEF wellKept
<1>2. /\ f.accountIndex \in [Sides -> [RewardMarkets -> [Holders -> Nat]]]
      /\ f.compAccrued \in [Holders -> Nat]
  BY <1>1, FlywheelFields
<1>3. g = [f EXCEPT !.accountIndex[side][m][a] = index, !.compAccrued[a] = @ + gain]
  BY DEF distributeComp
<1>4. wellKept(g, now)
  BY DistributeKeeps
<1> HIDE DEF index, gain
<1>5. /\ g.compState = f.compState /\ g.compSpeed = f.compSpeed /\ g.compWeight = f.compWeight
      /\ g.contributorSpeed = f.contributorSpeed
      /\ g.lastContributorBlock = f.lastContributorBlock
      /\ g.accountIndex = [f.accountIndex EXCEPT ![side][m][a] = index]
      /\ g.compAccrued = [f.compAccrued EXCEPT ![a] = @ + gain]
  BY <1>1, <1>3 DEF FlywheelStorage
<1>6. /\ g.accountIndex[side][m][a] = index
      /\ \A d \in Sides, k \in RewardMarkets, h \in Holders :
            d # side \/ k # m \/ h # a => g.accountIndex[d][k][h] = f.accountIndex[d][k][h]
  BY <1>2, <1>5
<1>7. /\ g.compAccrued[a] = f.compAccrued[a] + gain
      /\ \A h \in Holders : h # a => g.compAccrued[h] = f.compAccrued[h]
  BY <1>2, <1>5
<1> QED  BY <1>4, <1>5, <1>6, <1>7 DEF distributed, index, gain

\* The indexes are numbers.
LEMMA IndexesNat ==
  ASSUME NEW now \in Nat, NEW f, wellKept(f, now), NEW side \in Sides, NEW m \in RewardMarkets
  PROVE  /\ f.compState[side][m].index \in Nat /\ f.compState[side][m].block \in Nat
         /\ f.compState[side][m].block <= now
         /\ \A h \in Holders : /\ f.accountIndex[side][m][h] \in Nat
                               /\ f.accountIndex[side][m][h] <= f.compState[side][m].index
BY FlywheelFields DEF wellKept, recordsArePast, CompMarketState

\* An update moves indexes forward,
LEMMA UpdateNotBehind ==
  ASSUME NEW now \in Nat, NEW f, wellKept(f, now), NEW side \in Sides,
         NEW m \in RewardMarkets, NEW s \in CTokenStorage, validSnapshots(s),
         NEW g, g = updateCompIndex(f, side, m, s, now)
  PROVE  notBehind(f, g)
<1>1. /\ sameButStates(f, g)
      /\ g.compState[side][m] = updatedIndex(f, side, m, s, now)
      /\ \A d \in Sides, k \in RewardMarkets :
            d # side \/ k # m => g.compState[d][k] = f.compState[d][k]
  BY UpdateFields
<1>2. g.compState[side][m].index >= f.compState[side][m].index
  BY <1>1, UpdatedIndexGrows
<1> SUFFICES ASSUME NEW d \in Sides, NEW k \in RewardMarkets
             PROVE  /\ g.compState[d][k].index >= f.compState[d][k].index
                    /\ \A h \in Holders : g.accountIndex[d][k][h] >= f.accountIndex[d][k][h]
  BY DEF notBehind
<1>3. /\ f.compState[d][k].index \in Nat
      /\ \A h \in Holders : f.accountIndex[d][k][h] \in Nat
  BY IndexesNat
<1>4. g.compState[d][k].index >= f.compState[d][k].index
  BY <1>1, <1>2, <1>3
<1> QED  BY <1>1, <1>3, <1>4 DEF sameButStates

\* and so does a distribution.
LEMMA DistributeNotBehind ==
  ASSUME NEW now \in Nat, NEW f, wellKept(f, now), NEW side \in Sides,
         NEW m \in RewardMarkets, NEW s \in CTokenStorage, validSnapshots(s),
         NEW a \in Holders, NEW g, g = distributeComp(f, side, m, s, a)
  PROVE  notBehind(f, g)
<1>1. /\ g.compState = f.compState
      /\ g.accountIndex[side][m][a] = f.compState[side][m].index
      /\ \A d \in Sides, k \in RewardMarkets, h \in Holders :
            d # side \/ k # m \/ h # a => g.accountIndex[d][k][h] = f.accountIndex[d][k][h]
  BY DistributeFields DEF distributed
<1> SUFFICES ASSUME NEW d \in Sides, NEW k \in RewardMarkets
             PROVE  /\ g.compState[d][k].index >= f.compState[d][k].index
                    /\ \A h \in Holders : g.accountIndex[d][k][h] >= f.accountIndex[d][k][h]
  BY DEF notBehind
<1>2. /\ f.compState[d][k].index \in Nat
      /\ \A h \in Holders : /\ f.accountIndex[d][k][h] \in Nat
                            /\ f.accountIndex[d][k][h] <= f.compState[d][k].index
  BY IndexesNat
<1>3. ASSUME NEW h \in Holders PROVE g.accountIndex[d][k][h] >= f.accountIndex[d][k][h]
  <2>1. CASE d = side /\ k = m /\ h = a
    BY <1>1, <1>2, <2>1
  <2>2. CASE ~(d = side /\ k = m /\ h = a)
    BY <1>1, <1>2, <2>2
  <2> QED  BY <2>1, <2>2
<1> QED  BY <1>1, <1>2, <1>3

\* Moving forward twice is moving forward.
LEMMA NotBehindTransitive ==
  ASSUME NEW now \in Nat, NEW f, wellKept(f, now), NEW g, wellKept(g, now), NEW e, wellKept(e, now),
         notBehind(f, g), notBehind(g, e)
  PROVE  notBehind(f, e)
<1> SUFFICES ASSUME NEW d \in Sides, NEW k \in RewardMarkets
             PROVE  /\ e.compState[d][k].index >= f.compState[d][k].index
                    /\ \A h \in Holders : e.accountIndex[d][k][h] >= f.accountIndex[d][k][h]
  BY DEF notBehind
<1>1. /\ f.compState[d][k].index \in Nat /\ g.compState[d][k].index \in Nat
      /\ e.compState[d][k].index \in Nat
      /\ \A h \in Holders : /\ f.accountIndex[d][k][h] \in Nat /\ g.accountIndex[d][k][h] \in Nat
                            /\ e.accountIndex[d][k][h] \in Nat
  BY IndexesNat
<1>2. /\ e.compState[d][k].index >= g.compState[d][k].index
      /\ g.compState[d][k].index >= f.compState[d][k].index
      /\ \A h \in Holders : /\ e.accountIndex[d][k][h] >= g.accountIndex[d][k][h]
                            /\ g.accountIndex[d][k][h] >= f.accountIndex[d][k][h]
  BY DEF notBehind
<1> QED  BY <1>1, <1>2
-----------------------------------------------------------------------------
(* What an account would get for its shares now, in one market and in all  *)

\* An account's part of what an index has grown since its own
earned(index, prior, n) ==
  LET since == IF prior = 0 /\ index >= compInitialIndex THEN compInitialIndex ELSE prior
  IN  (n * (index - since)) \div doubleScale

\* What h gets when side of market m, whose storage is s, is brought up to now
pending(f, side, m, s, now, h) ==
  earned(updatedIndex(f, side, m, s, now).index, f.accountIndex[side][m][h], shares(side, s, h))

\* and of both sides of the market
marketPending(f, m, s, now, h) ==
  pending(f, "supply", m, s, now, h) + pending(f, "borrow", m, s, now, h)

\* owedComp as a function of the storage
worth(f, ct, now, L, h) ==
  f.compAccrued[h] + (now - f.lastContributorBlock[h]) * f.contributorSpeed[h]
  + SumFunctionOnSet([m \in L |-> marketPending(f, m, ct[m], now, h)], L)

\* It is a natural, nothing for no shares or an index that is up to date, and
\* grows with the index.
LEMMA EarnedBounds ==
  ASSUME NEW index \in Nat, NEW prior \in Nat, prior <= index, NEW n \in Nat
  PROVE  /\ earned(index, prior, n) \in Nat
         /\ n = 0 => earned(index, prior, n) = 0
         /\ prior = index => earned(index, prior, n) = 0
<1> DEFINE since == IF prior = 0 /\ index >= compInitialIndex THEN compInitialIndex ELSE prior
<1>1. compInitialIndex \in Nat /\ doubleScale \in Nat /\ doubleScale # 0 /\ compInitialIndex # 0
  BY CompFlywheelAssumption DEF compInitialIndex
<1>2. index - since \in Nat /\ (prior = index => index - since = 0)
  BY <1>1
<1>3. earned(index, prior, n) = (n * (index - since)) \div doubleScale
  BY DEF earned
<1> HIDE DEF since
<1> DEFINE d == index - since
<1>4. d \in Nat /\ (prior = index => d = 0)
  BY <1>2
<1> HIDE DEF d
<1>5. n * d \in Nat
  BY <1>4, ProductNat
<1>6. (n * d) \div doubleScale \in Nat
  BY <1>1, <1>5, QuotientNat
<1>7. 0 \div doubleScale = 0
  BY <1>1
<1>8. n = 0 => n * d = 0
  BY <1>4
<1>9. d = 0 => n * d = 0
  OBVIOUS
<1> QED  BY <1>3, <1>4, <1>6, <1>7, <1>8, <1>9 DEF d

\* Nothing is lost while the index grows.
LEMMA EarnedGrows ==
  ASSUME NEW old \in Nat, NEW new \in Nat, old <= new, compInitialIndex <= old,
         NEW prior \in Nat, prior <= old, NEW n \in Nat
  PROVE  earned(old, prior, n) <= earned(new, prior, n)
<1> DEFINE since == IF prior = 0 THEN compInitialIndex ELSE prior
<1>1. compInitialIndex \in Nat /\ doubleScale \in Nat /\ doubleScale # 0
  BY CompFlywheelAssumption DEF compInitialIndex
<1>2. /\ earned(old, prior, n) = (n * (old - since)) \div doubleScale
      /\ earned(new, prior, n) = (n * (new - since)) \div doubleScale
  BY <1>1 DEF earned
<1> DEFINE d == old - since
           e == new - since
<1>3. d \in Nat /\ e \in Nat /\ d <= e
  BY <1>1
<1> HIDE DEF d, e, since
<1>4. /\ n * d \in Nat /\ n * e \in Nat /\ n * d <= n * e
  <2>1. d * n \in Nat /\ e * n \in Nat /\ d * n <= e * n
    BY <1>3, ProductNat, ProductMonotone
  <2>2. d * n = n * d /\ e * n = n * e
    BY <1>3
  <2> QED  BY <2>1, <2>2
<1> DEFINE a == n * d
           b == n * e
<1>5. a \in Nat /\ b \in Nat /\ a <= b
  BY <1>4
<1> HIDE DEF a, b
<1>6. a \div doubleScale \in Nat /\ (a \div doubleScale) * doubleScale <= a
  BY <1>1, <1>5, QuotientBounds
<1>7. (a \div doubleScale) * doubleScale <= b
  <2>1. (a \div doubleScale) * doubleScale \in Nat
    BY <1>1, <1>6, ProductNat
  <2> QED  BY <1>5, <1>6, <2>1
<1>8. a \div doubleScale <= b \div doubleScale
  BY <1>1, <1>5, <1>6, <1>7, QuotientGreatest
<1> QED  BY <1>2, <1>8 DEF a, b, d, e

\* distribution is what is earned at the stored index.
LEMMA DistributionIsEarned ==
  ASSUME NEW f, NEW side, NEW m, NEW s, NEW h
  PROVE  distribution(f, side, m, s, h)
           = earned(f.compState[side][m].index, f.accountIndex[side][m][h], shares(side, s, h))
BY DEF distribution, earned

\* What is pending is a natural.
LEMMA PendingNat ==
  ASSUME NEW now \in Nat, NEW f, wellKept(f, now), NEW side \in Sides,
         NEW m \in RewardMarkets, NEW s \in CTokenStorage, validSnapshots(s), NEW h \in Holders
  PROVE  /\ pending(f, side, m, s, now, h) \in Nat
         /\ shares(side, s, h) = 0 => pending(f, side, m, s, now, h) = 0
<1> DEFINE index == updatedIndex(f, side, m, s, now).index
           prior == f.accountIndex[side][m][h]
           n     == shares(side, s, h)
<1>1. updatedIndex(f, side, m, s, now) \in CompMarketState /\ index >= f.compState[side][m].index
  BY UpdatedIndexGrows
<1>2. index \in Nat
  BY <1>1 DEF CompMarketState
<1>3. /\ f.compState[side][m].index \in Nat /\ prior \in Nat
      /\ prior <= f.compState[side][m].index
  BY IndexesNat
<1>4. n \in Nat
  BY SharesNat
<1>5. pending(f, side, m, s, now, h) = earned(index, prior, n)
  BY DEF pending
<1> HIDE DEF index, prior, n
<1>6. prior <= index
  BY <1>1, <1>2, <1>3 DEF index
<1>7. /\ earned(index, prior, n) \in Nat
      /\ n = 0 => earned(index, prior, n) = 0
  BY <1>2, <1>3, <1>4, <1>6, EarnedBounds
<1> QED  BY <1>5, <1>7 DEF n

\* An index that is up to date does not move.
LEMMA UpToDateStays ==
  ASSUME NEW now \in Nat, NEW f, wellKept(f, now), NEW side \in Sides,
         NEW m \in RewardMarkets, NEW s \in CTokenStorage, validSnapshots(s),
         f.compState[side][m].block = now
  PROVE  updatedIndex(f, side, m, s, now).index = f.compState[side][m].index
<1> DEFINE amount  == (now - f.compState[side][m].block) * marketSpeed(f, side, m)
           divisor == totalShares(side, s)
           ratio   == IF divisor = 0 THEN 0 ELSE (amount * doubleScale) \div divisor
<1>1. marketSpeed(f, side, m) \in Nat
  BY MarketSpeedNat DEF wellKept
<1>2. amount = 0
  <2>1. now - f.compState[side][m].block = 0
    OBVIOUS
  <2> QED  BY <1>1, <2>1
<1>3. divisor \in Nat /\ doubleScale \in Nat
  BY SharesNat, CompFlywheelAssumption
<1>4. updatedIndex(f, side, m, s, now).index = f.compState[side][m].index + ratio
  BY DEF updatedIndex
<1> HIDE DEF amount, divisor
<1>5. ratio = 0
  <2>1. amount * doubleScale = 0
    BY <1>2, <1>3
  <2>2. divisor # 0 => 0 \div divisor = 0
    BY <1>3
  <2> QED  BY <2>1, <2>2
<1> HIDE DEF ratio
<1>6. f.compState[side][m].index \in Nat
  BY IndexesNat
<1> QED  BY <1>4, <1>5, <1>6
-----------------------------------------------------------------------------
(* What a transaction moves in one market *)

\* From s to t, cTokens move for the accounts in A only and debts for those in
\* B only; the totals stay if there are none.
moved(s, t, A, B) ==
  /\ \A h \in Holders \ A : t.accountTokens[h] = s.accountTokens[h]
  /\ A = {} => t.totalSupply = s.totalSupply
  /\ t.borrowIndex = s.borrowIndex
  /\ \A h \in Holders \ B : t.accountBorrows[h] = s.accountBorrows[h]
  /\ B = {} => t.totalBorrows = s.totalBorrows

\* mintFresh moves the minter's tokens,
LEMMA MintMoves ==
  ASSUME NEW s \in CTokenStorage, NEW minter \in Holders, NEW x
  PROVE  moved(s, mintFresh(s, minter, x), {minter}, {})
<1> DEFINE n == div_Exp(x, exchangeRateStored(s))
           t == mintFresh(s, minter, x)
<1>1. t = [s EXCEPT !.cash = @ + x, !.totalSupply = @ + n, !.accountTokens[minter] = @ + n]
  BY DEF mintFresh
<1> HIDE DEF n, t
<1>2. /\ t.accountTokens = [s.accountTokens EXCEPT ![minter] = @ + n]
      /\ t.borrowIndex = s.borrowIndex /\ t.accountBorrows = s.accountBorrows
      /\ t.totalBorrows = s.totalBorrows
  BY <1>1 DEF CTokenStorage
<1>3. moved(s, t, {minter}, {})
  BY <1>2 DEF moved, CTokenStorage
<1> QED  BY <1>3 DEF t

\* redeemFresh the redeemer's,
LEMMA RedeemMoves ==
  ASSUME NEW s \in CTokenStorage, NEW redeemer \in Holders, NEW n, NEW x
  PROVE  moved(s, redeemFresh(s, redeemer, n, x), {redeemer}, {})
<1> DEFINE t == redeemFresh(s, redeemer, n, x)
<1>1. t = [s EXCEPT !.totalSupply = @ - n, !.accountTokens[redeemer] = @ - n, !.cash = @ - x]
  BY DEF redeemFresh
<1> HIDE DEF t
<1>2. /\ t.accountTokens = [s.accountTokens EXCEPT ![redeemer] = @ - n]
      /\ t.borrowIndex = s.borrowIndex /\ t.accountBorrows = s.accountBorrows
      /\ t.totalBorrows = s.totalBorrows
  BY <1>1 DEF CTokenStorage
<1>3. moved(s, t, {redeemer}, {})
  BY <1>2 DEF moved, CTokenStorage
<1> QED  BY <1>3 DEF t

\* transferTokens those of the two accounts,
LEMMA TransferMoves ==
  ASSUME NEW s \in CTokenStorage, NEW spender, NEW src \in Holders, NEW dst \in Holders, NEW n
  PROVE  moved(s, transferTokens(s, spender, src, dst, n), {src, dst}, {})
<1> DEFINE t == transferTokens(s, spender, src, dst, n)
           left == IF startingAllowance(s, spender, src) = UintMax
                   THEN s.transferAllowances[src][spender]
                   ELSE s.transferAllowances[src][spender] - n
<1>1. t = [s EXCEPT !.accountTokens = [s.accountTokens EXCEPT ![src] = @ - n, ![dst] = @ + n],
                    !.transferAllowances[src][spender] = left]
  BY DEF transferTokens
<1> HIDE DEF t, left
<1>2. /\ t.accountTokens = [s.accountTokens EXCEPT ![src] = @ - n, ![dst] = @ + n]
      /\ t.borrowIndex = s.borrowIndex /\ t.accountBorrows = s.accountBorrows
      /\ t.totalBorrows = s.totalBorrows
  BY <1>1 DEF CTokenStorage
<1>3. moved(s, t, {src, dst}, {})
  BY <1>2 DEF moved, CTokenStorage
<1> QED  BY <1>3 DEF t

\* seizeInternal those of the borrower and the liquidator,
LEMMA SeizeMoves ==
  ASSUME NEW s \in CTokenStorage, NEW borrower \in Holders, NEW liquidator \in Holders,
         NEW n, NEW rate
  PROVE  moved(s, seizeInternal(s, liquidator, borrower, n, rate), {borrower, liquidator}, {})
<1> DEFINE p == mul_Exp(n, protocolSeizeShareMantissa)
           x == mul_ScalarTruncate(rate, p)
           t == seizeInternal(s, liquidator, borrower, n, rate)
<1>1. t = [s EXCEPT !.totalReserves = @ + x, !.totalSupply = @ - p,
                    !.accountTokens = [s.accountTokens EXCEPT ![borrower] = @ - n,
                                                              ![liquidator] = @ + (n - p)]]
  BY DEF seizeInternal
<1> HIDE DEF p, x, t
<1>2. /\ t.accountTokens = [s.accountTokens EXCEPT ![borrower] = @ - n, ![liquidator] = @ + (n - p)]
      /\ t.borrowIndex = s.borrowIndex /\ t.accountBorrows = s.accountBorrows
      /\ t.totalBorrows = s.totalBorrows
  BY <1>1 DEF CTokenStorage
<1>3. moved(s, t, {borrower, liquidator}, {})
  BY <1>2 DEF moved, CTokenStorage
<1> QED  BY <1>3 DEF t

\* and borrowFresh and repayBorrowFresh the borrower's debt.
LEMMA DebtsMove ==
  ASSUME NEW s \in CTokenStorage, NEW borrower \in Holders, NEW x
  PROVE  /\ moved(s, borrowFresh(s, borrower, x), {}, {borrower})
         /\ moved(s, repayBorrowFresh(s, borrower, x), {}, {borrower})
<1> DEFINE t == borrowFresh(s, borrower, x)
           b == borrowBalanceStored(s, borrower) + x
           r == repayBorrowFresh(s, borrower, x)
           d == borrowBalanceStored(s, borrower) - x
<1>1. t = [s EXCEPT !.accountBorrows[borrower] = [principal |-> b, interestIndex |-> s.borrowIndex],
                    !.totalBorrows = @ + x, !.cash = @ - x]
  BY DEF borrowFresh
<1>2. r = [s EXCEPT !.accountBorrows[borrower] = [principal |-> d, interestIndex |-> s.borrowIndex],
                    !.totalBorrows = @ - x, !.cash = @ + x]
  BY DEF repayBorrowFresh
<1> HIDE DEF t, b, r, d
<1>3. /\ t.accountTokens = s.accountTokens /\ t.totalSupply = s.totalSupply
      /\ t.borrowIndex = s.borrowIndex
      /\ t.accountBorrows = [s.accountBorrows EXCEPT ![borrower] =
                                [principal |-> b, interestIndex |-> s.borrowIndex]]
  BY <1>1 DEF CTokenStorage
<1>4. /\ r.accountTokens = s.accountTokens /\ r.totalSupply = s.totalSupply
      /\ r.borrowIndex = s.borrowIndex
      /\ r.accountBorrows = [s.accountBorrows EXCEPT ![borrower] =
                                [principal |-> d, interestIndex |-> s.borrowIndex]]
  BY <1>2 DEF CTokenStorage
<1>5. moved(s, t, {}, {borrower})
  BY <1>3 DEF moved, CTokenStorage
<1>6. moved(s, r, {}, {borrower})
  BY <1>4 DEF moved, CTokenStorage
<1> QED  BY <1>5, <1>6 DEF t, r

\* Reserves, parameters, donations and approvals
LEMMA NothingMoves ==
  ASSUME NEW s \in CTokenStorage
  PROVE  /\ moved(s, s, {}, {})
         /\ \A x : /\ moved(s, addReservesFresh(s, x), {}, {})
                   /\ moved(s, reduceReservesFresh(s, x), {}, {})
                   /\ moved(s, [s EXCEPT !.reserveFactorMantissa = x], {}, {})
                   /\ moved(s, [s EXCEPT !.interestRateModel = x], {}, {})
                   /\ moved(s, [s EXCEPT !.cash = @ + x], {}, {})
         /\ \A src, spender, amount :
               moved(s, [s EXCEPT !.transferAllowances[src][spender] = amount], {}, {})
BY DEF moved, CTokenStorage, addReservesFresh, reduceReservesFresh

\* One operation after another
LEMMA MovedTwice ==
  ASSUME NEW s, NEW r, NEW t, NEW A, NEW B, NEW C, NEW D, moved(s, r, A, B), moved(r, t, C, D)
  PROVE  moved(s, t, A \cup C, B \cup D)
BY DEF moved
-----------------------------------------------------------------------------
(* Interest that leaves an index where it was *)

\* An index of at least one that does not rise had no factor to rise by, and
\* then no debt grew either.
LEMMA AccrueIdle ==
  ASSUME NEW s, NEW now \in Nat, validMarket(s, now), canAccrue(s, now),
         NEW t, t = accrueInterest(s, now)
  PROVE  /\ t.accountTokens = s.accountTokens /\ t.totalSupply = s.totalSupply
         /\ t.accountBorrows = s.accountBorrows
         /\ (s.borrowIndex >= expScale /\ t.borrowIndex = s.borrowIndex) =>
               t.totalBorrows = s.totalBorrows
<1> DEFINE factor   == borrowRatePerBlock(s) * (now - s.accrualBlockNumber)
           interest == mul_ScalarTruncate(factor, s.totalBorrows)
           reserves == mul_ScalarTruncateAddUInt(s.reserveFactorMantissa, interest, s.totalReserves)
           index    == mul_ScalarTruncateAddUInt(factor, s.borrowIndex, s.borrowIndex)
<1>0. /\ s \in CTokenStorage
      /\ s.accrualBlockNumber \in Nat /\ s.accrualBlockNumber <= now
      /\ s.totalBorrows \in Nat /\ s.borrowIndex \in Nat
      /\ expScale \in Nat /\ expScale # 0
  BY ExpScaleAssumption DEF validMarket, CTokenStorage
<1>1. CASE s.accrualBlockNumber = now
  BY <1>1 DEF accrueInterest
<1>2. CASE s.accrualBlockNumber # now
  <2>1. t = [s EXCEPT !.accrualBlockNumber = now,
                      !.totalBorrows = interest + s.totalBorrows,
                      !.totalReserves = reserves,
                      !.borrowIndex = index]
    BY <1>2 DEF accrueInterest
  <2>2. factor \in Nat
    <3>1. borrowRatePerBlock(s) \in Nat
      BY <1>0, <1>2, BorrowRateNat DEF canAccrue
    <3>2. now - s.accrualBlockNumber \in Nat
      BY <1>0
    <3> QED  BY <3>1, <3>2, ProductNat
  <2> HIDE DEF factor
  <2>3. index = (factor * s.borrowIndex) \div expScale + s.borrowIndex
    BY DEF mul_ScalarTruncateAddUInt, mul_ScalarTruncate, truncate
  <2>4. interest = (factor * s.totalBorrows) \div expScale
    BY DEF mul_ScalarTruncate, truncate
  <2> HIDE DEF interest, index, reserves
  <2>5. /\ t.accountTokens = s.accountTokens /\ t.totalSupply = s.totalSupply
        /\ t.accountBorrows = s.accountBorrows /\ t.borrowIndex = index
        /\ t.totalBorrows = interest + s.totalBorrows
    BY <1>0, <2>1 DEF CTokenStorage
  <2>6. ASSUME s.borrowIndex >= expScale, index = s.borrowIndex PROVE factor = 0
    <3> SUFFICES ASSUME factor # 0 PROVE FALSE
      OBVIOUS
    <3>1. 1 * s.borrowIndex <= factor * s.borrowIndex
      <4>1. 1 \in Nat /\ 1 <= factor
        BY <2>2
      <4> QED  BY <1>0, <2>2, <4>1, ProductMonotone
    <3>2. factor * s.borrowIndex \in Nat /\ expScale <= factor * s.borrowIndex
      <4>1. factor * s.borrowIndex \in Nat /\ 1 * s.borrowIndex = s.borrowIndex
        BY <1>0, <2>2, ProductNat
      <4> QED  BY <1>0, <2>6, <3>1, <4>1
    <3> DEFINE product == factor * s.borrowIndex
    <3>3. product \in Nat /\ expScale <= product
      BY <3>2
    <3>4. index = product \div expScale + s.borrowIndex
      BY <2>3
    <3> HIDE DEF product
    <3>5. 1 <= product \div expScale /\ product \div expScale \in Nat
      <4>1. 1 * expScale <= product
        BY <1>0, <3>3
      <4> QED  BY <1>0, <3>3, <4>1, QuotientGreatest, QuotientNat
    <3> QED  BY <1>0, <2>6, <3>4, <3>5
  <2>7. factor = 0 => interest = 0
    <3>1. factor = 0 => factor * s.totalBorrows = 0
      BY <1>0
    <3>2. 0 \div expScale = 0
      BY <1>0
    <3> QED  BY <2>4, <3>1, <3>2
  <2> QED  BY <1>0, <2>5, <2>6, <2>7
<1> QED  BY <1>1, <1>2

\* For h, s and ct distribute the same on a side.
agrees(side, s, c, h) ==
  /\ shares(side, s, h) = shares(side, c, h)
  /\ totalShares(side, s) = totalShares(side, c) \/ shares(side, c, h) = 0

\* An account that owes nothing has no share of the borrow side.
LEMMA NoDebtNoShare ==
  ASSUME NEW s \in CTokenStorage, NEW h \in Holders, s.accountBorrows[h].principal = 0
  PROVE  shares("borrow", s, h) = 0
<1>1. borrowBalanceStored(s, h) = 0
  BY DEF borrowBalanceStored
<1>2. s.borrowIndex \in Nat /\ s.borrowIndex # 0 /\ expScale \in Nat
  BY ExpScaleAssumption DEF CTokenStorage
<1>3. 0 * expScale = 0 /\ 0 \div s.borrowIndex = 0
  BY <1>2
<1>4. shares("borrow", s, h) = (0 * expScale) \div s.borrowIndex
  BY <1>1 DEF shares, div_Exp
<1> QED  BY <1>3, <1>4

\* With interest, a market agrees with itself for an account that owes nothing
\* or when its index stays.
LEMMA AccruedAgrees ==
  ASSUME NEW c, NEW now \in Nat, validMarket(c, now), canAccrue(c, now), c.borrowIndex >= expScale,
         NEW s \in CTokenStorage, s = accrueInterest(c, now), NEW side \in Sides, NEW h \in Holders,
         c.accountBorrows[h].principal > 0 => s.borrowIndex = c.borrowIndex
  PROVE  agrees(side, s, c, h)
<1>1. /\ s.accountTokens = c.accountTokens /\ s.totalSupply = c.totalSupply
      /\ s.accountBorrows = c.accountBorrows
      /\ s.borrowIndex = c.borrowIndex => s.totalBorrows = c.totalBorrows
  BY AccrueIdle
<1>2. c \in CTokenStorage /\ c.accountBorrows[h].principal \in Nat
  BY DEF validMarket, CTokenStorage, BorrowSnapshot
<1>3. CASE side = "supply"
  BY <1>1, <1>3 DEF agrees, shares, totalShares
<1>4. CASE side = "borrow" /\ c.accountBorrows[h].principal = 0
  BY <1>1, <1>2, <1>4, NoDebtNoShare DEF agrees
<1>5. CASE side = "borrow" /\ c.accountBorrows[h].principal # 0
  <2>1. s.borrowIndex = c.borrowIndex /\ s.totalBorrows = c.totalBorrows
    BY <1>1, <1>2, <1>5
  <2> QED  BY <1>1, <1>5, <2>1 DEF agrees, shares, totalShares, borrowBalanceStored
<1> QED  BY <1>3, <1>4, <1>5 DEF Sides
-----------------------------------------------------------------------------
(* What is pending in one market *)

\* Shares and totals are all that it takes from the market.
LEMMA PendingAgrees ==
  ASSUME NEW now \in Nat, NEW f, wellKept(f, now), NEW side \in Sides, NEW m \in RewardMarkets,
         NEW s \in CTokenStorage, validSnapshots(s), NEW c \in CTokenStorage, validSnapshots(c),
         NEW h \in Holders, agrees(side, s, c, h)
  PROVE  pending(f, side, m, s, now, h) = pending(f, side, m, c, now, h)
<1>1. CASE totalShares(side, s) = totalShares(side, c)
  <2>1. updatedIndex(f, side, m, s, now) = updatedIndex(f, side, m, c, now)
    BY <1>1 DEF updatedIndex
  <2> QED  BY <2>1 DEF pending, agrees
<1>2. CASE shares(side, c, h) = 0
  BY <1>2, PendingNat DEF agrees
<1> QED  BY <1>1, <1>2 DEF agrees

\* Its own state, speed and index are all that it takes from the flywheel.
LEMMA PendingDepends ==
  ASSUME NEW f, NEW g, NEW side, NEW m, NEW h,
         g.compState[side][m] = f.compState[side][m], g.compSpeed[side] = f.compSpeed[side],
         g.compWeight = f.compWeight, g.accountIndex[side][m][h] = f.accountIndex[side][m][h]
  PROVE  \A s, now : pending(g, side, m, s, now, h) = pending(f, side, m, s, now, h)
<1>1. marketSpeed(g, side, m) = marketSpeed(f, side, m)
  BY DEF marketSpeed, getTotalCompWeight
<1>2. ASSUME NEW s, NEW now
      PROVE  updatedIndex(g, side, m, s, now) = updatedIndex(f, side, m, s, now)
  BY <1>1 DEF updatedIndex
<1> QED  BY <1>2 DEF pending

\* In a state of this block it is what is earned at the stored index: nothing,
\* if the account has been served.
LEMMA PendingStored ==
  ASSUME NEW now \in Nat, NEW f, wellKept(f, now), NEW side \in Sides, NEW m \in RewardMarkets,
         NEW s \in CTokenStorage, validSnapshots(s), NEW h \in Holders,
         f.compState[side][m].block = now
  PROVE  /\ pending(f, side, m, s, now, h)
              = earned(f.compState[side][m].index, f.accountIndex[side][m][h], shares(side, s, h))
         /\ f.accountIndex[side][m][h] = f.compState[side][m].index =>
              pending(f, side, m, s, now, h) = 0
<1> DEFINE index == f.compState[side][m].index
           prior == f.accountIndex[side][m][h]
           n     == shares(side, s, h)
<1>1. updatedIndex(f, side, m, s, now).index = index
  BY UpToDateStays
<1>2. pending(f, side, m, s, now, h) = earned(index, prior, n)
  BY <1>1 DEF pending
<1>3. index \in Nat /\ prior \in Nat /\ prior <= index /\ n \in Nat
  BY IndexesNat, SharesNat
<1> HIDE DEF index, prior, n
<1>4. prior = index => earned(index, prior, n) = 0
  BY <1>3, EarnedBounds
<1> QED  BY <1>2, <1>4 DEF index, prior, n

\* An update leaves what is pending: it moves the index to where it would be.
LEMMA UpdatePending ==
  ASSUME NEW now \in Nat, NEW f, wellKept(f, now), NEW side \in Sides, NEW m \in RewardMarkets,
         NEW s \in CTokenStorage, validSnapshots(s), NEW c \in CTokenStorage, validSnapshots(c),
         NEW h \in Holders, agrees(side, s, c, h),
         NEW g, wellKept(g, now), g.compState[side][m] = updatedIndex(f, side, m, s, now),
         g.accountIndex[side][m][h] = f.accountIndex[side][m][h]
  PROVE  pending(g, side, m, c, now, h) = pending(f, side, m, c, now, h)
<1>1. g.compState[side][m].block = now
  BY DEF updatedIndex
<1>2. pending(g, side, m, c, now, h)
        = earned(g.compState[side][m].index, g.accountIndex[side][m][h], shares(side, c, h))
  BY <1>1, PendingStored
<1>3. pending(f, side, m, s, now, h)
        = earned(updatedIndex(f, side, m, s, now).index, f.accountIndex[side][m][h],
                 shares(side, s, h))
  BY DEF pending
<1>4. pending(f, side, m, s, now, h) = pending(f, side, m, c, now, h)
  BY PendingAgrees
<1> QED  BY <1>2, <1>3, <1>4 DEF agrees
-----------------------------------------------------------------------------
(* Worth *)

\* A book of markets the flywheel can read
wellStored(ct) == \A k \in RewardMarkets : ct[k] \in CTokenStorage /\ validSnapshots(ct[k])

\* The contributors' records are the same.
sameContributors(f, g) ==
  g.contributorSpeed = f.contributorSpeed /\ g.lastContributorBlock = f.lastContributorBlock

\* The summands are naturals.
LEMMA MarketPendingNat ==
  ASSUME NEW now \in Nat, NEW f, wellKept(f, now), NEW ct, wellStored(ct), NEW h \in Holders
  PROVE  \A k \in RewardMarkets : marketPending(f, k, ct[k], now, h) \in Nat
<1> SUFFICES ASSUME NEW k \in RewardMarkets PROVE marketPending(f, k, ct[k], now, h) \in Nat
  OBVIOUS
<1>1. ct[k] \in CTokenStorage /\ validSnapshots(ct[k]) /\ "supply" \in Sides /\ "borrow" \in Sides
  BY DEF wellStored, Sides
<1>2. /\ pending(f, "supply", k, ct[k], now, h) \in Nat
      /\ pending(f, "borrow", k, ct[k], now, h) \in Nat
  BY <1>1, PendingNat
<1> QED  BY <1>2 DEF marketPending

\* What a contributor has earned is a natural.
LEMMA ContributionNat ==
  ASSUME NEW now \in Nat, NEW f, wellKept(f, now), NEW h \in Holders
  PROVE  /\ (now - f.lastContributorBlock[h]) * f.contributorSpeed[h] \in Nat
         /\ now - f.lastContributorBlock[h] \in Nat /\ f.contributorSpeed[h] \in Nat
         /\ f.compAccrued[h] \in Nat
<1>1. /\ f.lastContributorBlock[h] \in Nat /\ f.lastContributorBlock[h] <= now
      /\ f.contributorSpeed[h] \in Nat /\ f.compAccrued[h] \in Nat
  BY FlywheelFields DEF wellKept, recordsArePast
<1>2. now - f.lastContributorBlock[h] \in Nat
  BY <1>1
<1> QED  BY <1>1, <1>2, ProductNat

\* Worth is a natural.
LEMMA WorthNat ==
  ASSUME NEW now \in Nat, NEW f, wellKept(f, now), NEW ct, wellStored(ct),
         NEW L \in SUBSET RewardMarkets, NEW h \in Holders
  PROVE  worth(f, ct, now, L, h) \in Nat
<1> DEFINE F == [k \in L |-> marketPending(f, k, ct[k], now, h)]
           cf == (now - f.lastContributorBlock[h]) * f.contributorSpeed[h]
<1>1. IsFiniteSet(L)
  BY CompFlywheelAssumption, FS_Subset
<1>2. \A k \in L : F[k] \in Nat
  BY MarketPendingNat
<1>3. cf \in Nat /\ f.compAccrued[h] \in Nat
  BY ContributionNat
<1>4. worth(f, ct, now, L, h) = f.compAccrued[h] + cf + SumFunctionOnSet(F, L)
  BY DEF worth
<1> HIDE DEF F, cf
<1>5. SumFunctionOnSet(F, L) \in Nat
  BY <1>1, <1>2, SumNat
<1> QED  BY <1>3, <1>4, <1>5

\* What is pending in one market may pass to the account, and the other way
\* round.
LEMMA WorthAtOne ==
  ASSUME NEW now \in Nat, NEW f, wellKept(f, now), NEW g, wellKept(g, now),
         NEW ct, wellStored(ct), NEW L \in SUBSET RewardMarkets, NEW m \in L, NEW h \in Holders,
         sameContributors(f, g),
         \A k \in L \ {m} : marketPending(g, k, ct[k], now, h) = marketPending(f, k, ct[k], now, h),
         g.compAccrued[h] + marketPending(g, m, ct[m], now, h)
           = f.compAccrued[h] + marketPending(f, m, ct[m], now, h)
  PROVE  worth(g, ct, now, L, h) = worth(f, ct, now, L, h)
<1> DEFINE F == [k \in L |-> marketPending(f, k, ct[k], now, h)]
           G == [k \in L |-> marketPending(g, k, ct[k], now, h)]
           cf == (now - f.lastContributorBlock[h]) * f.contributorSpeed[h]
           cg == (now - g.lastContributorBlock[h]) * g.contributorSpeed[h]
<1>1. IsFiniteSet(L)
  BY CompFlywheelAssumption, FS_Subset
<1>2. /\ \A k \in L : F[k] \in Nat /\ G[k] \in Nat
      /\ \A k \in L \ {m} : G[k] = F[k]
      /\ g.compAccrued[h] + G[m] = f.compAccrued[h] + F[m]
  BY MarketPendingNat
<1>3. cg = cf /\ cf \in Nat /\ f.compAccrued[h] \in Nat /\ g.compAccrued[h] \in Nat
  BY ContributionNat DEF sameContributors
<1>4. /\ worth(f, ct, now, L, h) = f.compAccrued[h] + cf + SumFunctionOnSet(F, L)
      /\ worth(g, ct, now, L, h) = g.compAccrued[h] + cg + SumFunctionOnSet(G, L)
  BY DEF worth
<1> HIDE DEF F, G, cf, cg
<1>5. SumFunctionOnSet(G, L) = SumFunctionOnSet(F, L) - F[m] + G[m]
  <2>1. \A k \in L : F[k] \in Int /\ G[k] \in Int
    BY <1>2
  <2> QED  BY <1>1, <1>2, <2>1, SumChange
<1>6. SumFunctionOnSet(F, L) \in Nat
  BY <1>1, <1>2, SumNat
<1>7. F[m] \in Nat /\ G[m] \in Nat
  BY <1>2
<1>8. \A a, b, c, S, x, y \in Nat : a + y = b + x => a + c + (S - x + y) = b + c + S
  OBVIOUS
<1> QED  BY <1>2, <1>3, <1>4, <1>5, <1>6, <1>7, <1>8

\* What is pending may stay or grow in every market, and markets may be added.
LEMMA WorthOfParts ==
  ASSUME NEW now \in Nat, NEW f, wellKept(f, now), NEW ct, wellStored(ct),
         NEW later \in Nat, NEW g, wellKept(g, later), NEW ct2, wellStored(ct2),
         NEW L \in SUBSET RewardMarkets, NEW L2 \in SUBSET RewardMarkets, L \subseteq L2,
         NEW h \in Holders,
         g.compAccrued[h] + (later - g.lastContributorBlock[h]) * g.contributorSpeed[h]
           >= f.compAccrued[h] + (now - f.lastContributorBlock[h]) * f.contributorSpeed[h],
         \A k \in L : marketPending(g, k, ct2[k], later, h) >= marketPending(f, k, ct[k], now, h)
  PROVE  worth(g, ct2, later, L2, h) >= worth(f, ct, now, L, h)
<1> DEFINE F == [k \in L |-> marketPending(f, k, ct[k], now, h)]
           G == [k \in L2 |-> marketPending(g, k, ct2[k], later, h)]
           cf == (now - f.lastContributorBlock[h]) * f.contributorSpeed[h]
           cg == (later - g.lastContributorBlock[h]) * g.contributorSpeed[h]
<1>1. IsFiniteSet(L) /\ IsFiniteSet(L2)
  BY CompFlywheelAssumption, FS_Subset
<1>2. /\ \A k \in L : F[k] \in Nat /\ G[k] \in Nat /\ G[k] >= F[k]
      /\ \A k \in L2 : G[k] \in Nat
  BY MarketPendingNat
<1>3. /\ cf \in Nat /\ f.compAccrued[h] \in Nat
      /\ cg \in Nat /\ g.compAccrued[h] \in Nat
      /\ g.compAccrued[h] + cg >= f.compAccrued[h] + cf
  BY ContributionNat
<1>4. /\ worth(f, ct, now, L, h) = f.compAccrued[h] + cf + SumFunctionOnSet(F, L)
      /\ worth(g, ct2, later, L2, h) = g.compAccrued[h] + cg + SumFunctionOnSet(G, L2)
  BY DEF worth
<1> HIDE DEF F, G, cf, cg
<1>5. SumFunctionOnSet(F, L) <= SumFunctionOnSet(G, L)
  BY <1>1, <1>2, SumGrows
<1>6. SumFunctionOnSet(G, L) <= SumFunctionOnSet(G, L2)
  BY <1>1, <1>2, SumPart
<1>7. /\ SumFunctionOnSet(F, L) \in Nat /\ SumFunctionOnSet(G, L) \in Nat
      /\ SumFunctionOnSet(G, L2) \in Nat
  BY <1>1, <1>2, SumNat
<1>8. \A a, b, x, y, S, T \in Nat : (a + x >= b + y /\ S <= T) => a + x + T >= b + y + S
  OBVIOUS
<1> QED  BY <1>3, <1>4, <1>5, <1>6, <1>7, <1>8

\* Another book of the same shares is worth the same.
LEMMA WorthOfBook ==
  ASSUME NEW f, NEW now, NEW ct, NEW ct2, NEW L \in SUBSET RewardMarkets, NEW h,
         \A k \in L : marketPending(f, k, ct2[k], now, h) = marketPending(f, k, ct[k], now, h)
  PROVE  worth(f, ct2, now, L, h) = worth(f, ct, now, L, h)
<1> DEFINE F == [k \in L |-> marketPending(f, k, ct[k], now, h)]
           G == [k \in L |-> marketPending(f, k, ct2[k], now, h)]
<1>1. F = G
  OBVIOUS
<1> QED  BY <1>1 DEF worth
-----------------------------------------------------------------------------
(* What the hooks leave of it *)

\* From f to g no index falls, and nothing that h is due is lost: what becomes
\* accrued was pending.
keeps(f, g, ct, now, L, h) ==
  /\ wellKept(g, now) /\ notBehind(f, g) /\ sameContributors(f, g)
  /\ g.compWeight = f.compWeight
  /\ worth(g, ct, now, L, h) = worth(f, ct, now, L, h)

\* Keeping twice is keeping.
LEMMA KeepsTwice ==
  ASSUME NEW now \in Nat, NEW f, wellKept(f, now), NEW g, NEW e, NEW ct, NEW L, NEW h,
         keeps(f, g, ct, now, L, h), keeps(g, e, ct, now, L, h)
  PROVE  keeps(f, e, ct, now, L, h)
<1>1. wellKept(g, now) /\ wellKept(e, now) /\ notBehind(f, g) /\ notBehind(g, e)
  BY DEF keeps
<1>2. notBehind(f, e)
  BY <1>1, NotBehindTransitive
<1> QED  BY <1>1, <1>2 DEF keeps, sameContributors

\* An update keeps what is due to an account for which the market it reads
\* agrees with the book.
LEMMA UpdateKeepsWorth ==
  ASSUME NEW now \in Nat, NEW f, wellKept(f, now), NEW side \in Sides,
         NEW L \in SUBSET RewardMarkets, NEW m \in L, NEW ct, wellStored(ct),
         NEW s \in CTokenStorage, validSnapshots(s), NEW h \in Holders,
         agrees(side, s, ct[m], h),
         NEW g, g = updateCompIndex(f, side, m, s, now)
  PROVE  keeps(f, g, ct, now, L, h)
<1>0. m \in RewardMarkets /\ ct[m] \in CTokenStorage /\ validSnapshots(ct[m])
  BY DEF wellStored
<1>1. /\ sameButStates(f, g) /\ wellKept(g, now)
      /\ g.compState[side][m] = updatedIndex(f, side, m, s, now)
      /\ \A d \in Sides, k \in RewardMarkets :
            d # side \/ k # m => g.compState[d][k] = f.compState[d][k]
  BY <1>0, UpdateFields
<1>2. notBehind(f, g)
  BY <1>0, UpdateNotBehind
<1>3. pending(g, side, m, ct[m], now, h) = pending(f, side, m, ct[m], now, h)
  BY <1>0, <1>1, UpdatePending DEF sameButStates
<1>4. ASSUME NEW d \in Sides, NEW k \in RewardMarkets, d # side \/ k # m
      PROVE  pending(g, d, k, ct[k], now, h) = pending(f, d, k, ct[k], now, h)
  BY <1>1, <1>4, PendingDepends DEF sameButStates
<1>5. \A k \in L : marketPending(g, k, ct[k], now, h) = marketPending(f, k, ct[k], now, h)
  <2> SUFFICES ASSUME NEW k \in L
               PROVE  marketPending(g, k, ct[k], now, h) = marketPending(f, k, ct[k], now, h)
    OBVIOUS
  <2>1. ASSUME NEW d \in Sides
        PROVE  pending(g, d, k, ct[k], now, h) = pending(f, d, k, ct[k], now, h)
    <3>1. CASE d = side /\ k = m
      BY <1>3, <3>1
    <3>2. CASE d # side \/ k # m
      BY <1>4, <3>2
    <3> QED  BY <3>1, <3>2
  <2> QED  BY <2>1 DEF marketPending, Sides
<1>6. sameContributors(f, g) /\ g.compAccrued = f.compAccrued /\ g.compWeight = f.compWeight
  BY <1>1 DEF sameButStates, sameContributors
<1>7. worth(g, ct, now, L, h) = worth(f, ct, now, L, h)
  BY <1>1, <1>5, <1>6, WorthAtOne
<1> QED  BY <1>1, <1>2, <1>6, <1>7 DEF keeps

\* A distribution from an index of this block keeps it: what the account gets
\* it had pending.
LEMMA DistributeKeepsWorth ==
  ASSUME NEW now \in Nat, NEW f, wellKept(f, now), NEW side \in Sides,
         NEW L \in SUBSET RewardMarkets, NEW m \in L, NEW ct, wellStored(ct),
         NEW s \in CTokenStorage, validSnapshots(s), NEW h \in Holders,
         shares(side, s, h) = shares(side, ct[m], h), f.compState[side][m].block = now,
         NEW a \in Holders, NEW g, g = distributeComp(f, side, m, s, a)
  PROVE  keeps(f, g, ct, now, L, h)
<1>0. m \in RewardMarkets /\ ct[m] \in CTokenStorage /\ validSnapshots(ct[m])
  BY DEF wellStored
<1>d. distributed(f, g, now, side, m, s, a)
  BY <1>0, DistributeFields
<1>1. /\ wellKept(g, now)
      /\ g.compState = f.compState /\ g.compSpeed = f.compSpeed /\ g.compWeight = f.compWeight
      /\ g.contributorSpeed = f.contributorSpeed
      /\ g.lastContributorBlock = f.lastContributorBlock
      /\ g.accountIndex[side][m][a] = f.compState[side][m].index
      /\ \A d \in Sides, k \in RewardMarkets, j \in Holders :
            d # side \/ k # m \/ j # a => g.accountIndex[d][k][j] = f.accountIndex[d][k][j]
      /\ g.compAccrued[a] = f.compAccrued[a] + distribution(f, side, m, s, a)
      /\ \A j \in Holders : j # a => g.compAccrued[j] = f.compAccrued[j]
  BY <1>d DEF distributed
<1>2. notBehind(f, g)
  BY <1>0, DistributeNotBehind
<1>3. sameContributors(f, g)
  BY <1>1 DEF sameContributors
<1>4. ASSUME NEW d \in Sides, NEW k \in RewardMarkets, d # side \/ k # m \/ h # a
      PROVE  pending(g, d, k, ct[k], now, h) = pending(f, d, k, ct[k], now, h)
  <2>1. g.accountIndex[d][k][h] = f.accountIndex[d][k][h]
    BY <1>1, <1>4
  <2>2. /\ g.compState[d][k] = f.compState[d][k] /\ g.compSpeed[d] = f.compSpeed[d]
        /\ g.compWeight = f.compWeight
    BY <1>1
  <2> QED  BY <2>1, <2>2, PendingDepends
<1>5. \A k \in L \ {m} : marketPending(g, k, ct[k], now, h) = marketPending(f, k, ct[k], now, h)
  BY <1>4 DEF marketPending, Sides
<1>6. g.compAccrued[h] + marketPending(g, m, ct[m], now, h)
        = f.compAccrued[h] + marketPending(f, m, ct[m], now, h)
  <2>1. CASE h # a
    <3>1. \A d \in Sides : pending(g, d, m, ct[m], now, h) = pending(f, d, m, ct[m], now, h)
      BY <1>0, <1>4, <2>1
    <3>2. marketPending(g, m, ct[m], now, h) = marketPending(f, m, ct[m], now, h)
      BY <3>1 DEF marketPending, Sides
    <3> QED  BY <1>1, <2>1, <3>2
  <2>2. CASE h = a
    <3>1. pending(f, side, m, ct[m], now, h) = distribution(f, side, m, s, h)
      BY <1>0, PendingStored, DistributionIsEarned
    <3>2. pending(g, side, m, ct[m], now, h) = 0
      BY <1>0, <1>1, <2>2, PendingStored
    <3>3. \A d \in Sides : d # side =>
             pending(g, d, m, ct[m], now, h) = pending(f, d, m, ct[m], now, h)
      BY <1>0, <1>4
    <3>4. \A d \in Sides : pending(f, d, m, ct[m], now, h) \in Nat
      BY <1>0, PendingNat
    <3> DEFINE p(d) == pending(f, d, m, ct[m], now, h)
               q(d) == pending(g, d, m, ct[m], now, h)
    <3>5. /\ marketPending(f, m, ct[m], now, h) = p("supply") + p("borrow")
          /\ marketPending(g, m, ct[m], now, h) = q("supply") + q("borrow")
          /\ g.compAccrued[h] = f.compAccrued[h] + p(side)
          /\ q(side) = 0 /\ \A d \in Sides : d # side => q(d) = p(d)
          /\ \A d \in Sides : p(d) \in Nat
      BY <1>1, <2>2, <3>1, <3>2, <3>3, <3>4 DEF marketPending
    <3>6. f.compAccrued[h] \in Nat
      BY ContributionNat
    <3> HIDE DEF p, q
    <3>7. CASE side = "supply"
      BY <3>5, <3>6, <3>7 DEF Sides
    <3>8. CASE side = "borrow"
      BY <3>5, <3>6, <3>8 DEF Sides
    <3> QED  BY <3>7, <3>8 DEF Sides
  <2> QED  BY <2>1, <2>2
<1>7. worth(g, ct, now, L, h) = worth(f, ct, now, L, h)
  BY <1>1, <1>3, <1>5, <1>6, WorthAtOne
<1> QED  BY <1>1, <1>2, <1>3, <1>7 DEF keeps

\* The account has the market's index, and that is of this block.
served(f, side, m, now, h) ==
  f.compState[side][m].block = now /\ f.accountIndex[side][m][h] = f.compState[side][m].index

\* What each hook does for one account
LEMMA SpinKeepsWorth ==
  ASSUME NEW now \in Nat, NEW f, wellKept(f, now), NEW side \in Sides,
         NEW L \in SUBSET RewardMarkets, NEW m \in L, NEW ct, wellStored(ct),
         NEW s \in CTokenStorage, validSnapshots(s), NEW h \in Holders,
         agrees(side, s, ct[m], h), NEW a \in Holders,
         NEW g, g = spin(f, side, m, s, now, a)
  PROVE  keeps(f, g, ct, now, L, h)
<1> DEFINE u == updateCompIndex(f, side, m, s, now)
<1>1. keeps(f, u, ct, now, L, h)
  BY UpdateKeepsWorth
<1>2. u.compState[side][m].block = now
  <2>1. m \in RewardMarkets
    OBVIOUS
  <2>2. u.compState[side][m] = updatedIndex(f, side, m, s, now)
    BY <2>1, UpdateFields
  <2> QED  BY <2>2 DEF updatedIndex
<1>3. g = distributeComp(u, side, m, s, a)
  BY DEF spin
<1> HIDE DEF u
<1>4. wellKept(u, now) /\ shares(side, s, h) = shares(side, ct[m], h)
  BY <1>1 DEF keeps, agrees
<1>5. keeps(u, g, ct, now, L, h)
  BY <1>2, <1>3, <1>4, DistributeKeepsWorth
<1> QED  BY <1>1, <1>5, KeepsTwice

\* It serves the account, whoever had been served stays so, and nothing else
\* changes its block.
LEMMA SpinServes ==
  ASSUME NEW now \in Nat, NEW f, wellKept(f, now), NEW side \in Sides, NEW m \in RewardMarkets,
         NEW s \in CTokenStorage, validSnapshots(s), NEW a \in Holders,
         NEW g, g = spin(f, side, m, s, now, a)
  PROVE  /\ wellKept(g, now) /\ notBehind(f, g) /\ sameContributors(f, g)
         /\ g.compWeight = f.compWeight /\ g.compSpeed = f.compSpeed
         /\ served(g, side, m, now, a)
         /\ \A d \in Sides, k \in RewardMarkets, j \in Holders :
               /\ d # side \/ k # m =>
                     /\ g.compState[d][k] = f.compState[d][k]
                     /\ g.accountIndex[d][k][j] = f.accountIndex[d][k][j]
               /\ j # a => g.compAccrued[j] = f.compAccrued[j]
<1> DEFINE u == updateCompIndex(f, side, m, s, now)
<1>1. /\ sameButStates(f, u) /\ wellKept(u, now)
      /\ u.compState[side][m] = updatedIndex(f, side, m, s, now)
      /\ \A d \in Sides, k \in RewardMarkets :
            d # side \/ k # m => u.compState[d][k] = f.compState[d][k]
  BY UpdateFields
<1>2. notBehind(f, u)
  BY UpdateNotBehind
<1>3. g = distributeComp(u, side, m, s, a)
  BY DEF spin
<1> HIDE DEF u
<1>4. /\ wellKept(g, now)
      /\ g.compState = u.compState /\ g.compSpeed = u.compSpeed /\ g.compWeight = u.compWeight
      /\ g.contributorSpeed = u.contributorSpeed
      /\ g.lastContributorBlock = u.lastContributorBlock
      /\ g.accountIndex[side][m][a] = u.compState[side][m].index
      /\ \A d \in Sides, k \in RewardMarkets, j \in Holders :
            d # side \/ k # m \/ j # a => g.accountIndex[d][k][j] = u.accountIndex[d][k][j]
      /\ \A j \in Holders : j # a => g.compAccrued[j] = u.compAccrued[j]
  BY <1>1, <1>3, DistributeFields DEF distributed
<1>5. notBehind(u, g)
  BY <1>1, <1>3, DistributeNotBehind
<1>6. notBehind(f, g)
  BY <1>1, <1>2, <1>4, <1>5, NotBehindTransitive
<1>7. served(g, side, m, now, a)
  BY <1>1, <1>4 DEF served, updatedIndex
<1> QED  BY <1>1, <1>4, <1>6, <1>7 DEF sameButStates, sameContributors

\* A second account after the first, as in a transfer, a seizure or a claim
LEMMA DistributeServes ==
  ASSUME NEW now \in Nat, NEW f, wellKept(f, now), NEW side \in Sides, NEW m \in RewardMarkets,
         NEW s \in CTokenStorage, validSnapshots(s), NEW a \in Holders,
         f.compState[side][m].block = now,
         NEW g, g = distributeComp(f, side, m, s, a)
  PROVE  /\ wellKept(g, now) /\ notBehind(f, g) /\ sameContributors(f, g)
         /\ g.compWeight = f.compWeight /\ g.compSpeed = f.compSpeed
         /\ g.compState = f.compState
         /\ served(g, side, m, now, a)
         /\ \A j \in Holders : served(f, side, m, now, j) => served(g, side, m, now, j)
         /\ \A d \in Sides, k \in RewardMarkets, j \in Holders :
               d # side \/ k # m => g.accountIndex[d][k][j] = f.accountIndex[d][k][j]
<1>1. /\ wellKept(g, now)
      /\ g.compState = f.compState /\ g.compSpeed = f.compSpeed /\ g.compWeight = f.compWeight
      /\ g.contributorSpeed = f.contributorSpeed
      /\ g.lastContributorBlock = f.lastContributorBlock
      /\ g.accountIndex[side][m][a] = f.compState[side][m].index
      /\ \A d \in Sides, k \in RewardMarkets, j \in Holders :
            d # side \/ k # m \/ j # a => g.accountIndex[d][k][j] = f.accountIndex[d][k][j]
  BY DistributeFields DEF distributed
<1>2. notBehind(f, g)
  BY DistributeNotBehind
<1>3. served(g, side, m, now, a)
  BY <1>1 DEF served
<1>4. \A j \in Holders : served(f, side, m, now, j) => served(g, side, m, now, j)
  <2> SUFFICES ASSUME NEW j \in Holders, served(f, side, m, now, j)
               PROVE  served(g, side, m, now, j)
    OBVIOUS
  <2>1. CASE j = a
    BY <1>3, <2>1
  <2>2. CASE j # a
    BY <1>1, <2>2 DEF served
  <2> QED  BY <2>1, <2>2
<1> QED  BY <1>1, <1>2, <1>3, <1>4 DEF sameContributors
-----------------------------------------------------------------------------
(* What a hook leaves in one market *)

\* A market without weight whose indexes have not started
notStarted(f, m) ==
  f.compWeight[m] = 0 /\ \A side \in Sides : f.compState[side][m].index = 0

\* The inductive invariant of the rewards: whoever holds something has an index,
\* a listed market's indexes have started, another's have not and it has no
\* weight, and no borrowIndex is below one.
RewardsStarted ==
  /\ HoldersHaveIndexes
  /\ \A m \in Markets :
        /\ isListed(m) => \A side \in Sides : flywheel.compState[side][m].index >= compInitialIndex
        /\ ~isListed(m) => notStarted(flywheel, m)
        /\ ctoken[m].borrowIndex >= expScale

\* The accounts in A are served with an index that has started.
servedAll(f, side, m, A) ==
  \A h \in A : /\ served(f, side, m, block, h)
               /\ f.compState[side][m].index >= compInitialIndex

\* The accounts that a transaction moves something for in market k have been
\* served there.
Settled(k, f) ==
  \E s \in CTokenStorage, A \in SUBSET Holders, B \in SUBSET Holders :
     /\ Start(k, s) /\ moved(s, ctoken'[k], A, B)
     /\ servedAll(f, "supply", k, A) /\ servedAll(f, "borrow", k, B)

\* No interest moved h's debt in market k.
Undisturbed(k, h) ==
  ctoken[k].accountBorrows[h].principal > 0 => ctoken'[k].borrowIndex = ctoken[k].borrowIndex

\* The state a transaction starts from has the shares of the market.
LEMMA StartFields ==
  ASSUME IndInv, NEW k \in Markets, NEW s \in CTokenStorage, Start(k, s),
         ctoken[k].borrowIndex >= expScale
  PROVE  /\ s.accountTokens = ctoken[k].accountTokens /\ s.totalSupply = ctoken[k].totalSupply
         /\ s.accountBorrows = ctoken[k].accountBorrows
         /\ s.borrowIndex >= ctoken[k].borrowIndex
         /\ s.borrowIndex = ctoken[k].borrowIndex => s.totalBorrows = ctoken[k].totalBorrows
<1>1. block \in Nat /\ validMarket(ctoken[k], block) /\ ctoken[k] \in CTokenStorage
  BY MarketsSound DEF IndInv, TypeOK
<1>2. ctoken[k].borrowIndex \in Nat
  BY <1>1 DEF CTokenStorage
<1>3. CASE s = ctoken[k]
  BY <1>2, <1>3
<1>4. CASE canAccrue(ctoken[k], block) /\ s = accrueInterest(ctoken[k], block)
  <2>1. aged(ctoken[k], s)
    BY <1>1, <1>4, AccrueAges
  <2> QED  BY <1>1, <1>4, <2>1, AccrueIdle DEF aged
<1> QED  BY <1>3, <1>4 DEF Start, accrued

\* What is pending in a settled market is what it was, at the flywheel after
\* the hook.
LEMMA SettledPending ==
  ASSUME IndInv, IndInv', RewardsStarted, NEW f, wellKept(f, block), NEW k \in Markets,
         Settled(k, f), NEW h \in Holders, Undisturbed(k, h)
  PROVE  marketPending(f, k, ctoken'[k], block, h) = marketPending(f, k, ctoken[k], block, h)
<1> DEFINE c == ctoken[k]
           t == ctoken'[k]
<1>0. /\ block \in Nat /\ k \in RewardMarkets /\ "supply" \in Sides /\ "borrow" \in Sides
      /\ c \in CTokenStorage /\ validSnapshots(c) /\ c.borrowIndex >= expScale
      /\ t \in CTokenStorage /\ validSnapshots(t)
  <2>1. c \in CTokenStorage /\ validSnapshots(c)
    BY MarketsSound DEF validMarket
  <2>2. t \in CTokenStorage /\ validSnapshots(t)
    BY NextMarket DEF IndInv, SnapshotsArePast
  <2> QED  BY <2>1, <2>2, RewardConstants DEF RewardsStarted, IndInv, TypeOK, Sides
<1>1. PICK s \in CTokenStorage, A \in SUBSET Holders, B \in SUBSET Holders :
         /\ Start(k, s) /\ moved(s, t, A, B)
         /\ servedAll(f, "supply", k, A) /\ servedAll(f, "borrow", k, B)
  BY DEF Settled
<1>2. /\ s.accountTokens = c.accountTokens /\ s.totalSupply = c.totalSupply
      /\ s.accountBorrows = c.accountBorrows
      /\ s.borrowIndex = c.borrowIndex => s.totalBorrows = c.totalBorrows
  BY <1>0, <1>1, StartFields
<1>3. c.accountBorrows[h].principal > 0 => t.borrowIndex = c.borrowIndex
  BY DEF Undisturbed
<1> HIDE DEF c, t
<1>4. pending(f, "supply", k, t, block, h) = pending(f, "supply", k, c, block, h)
  <2>1. CASE A = {}
    <3>1. t.accountTokens[h] = c.accountTokens[h] /\ t.totalSupply = c.totalSupply
      BY <1>1, <1>2, <2>1 DEF moved
    <3>2. agrees("supply", t, c, h)
      BY <3>1 DEF agrees, shares, totalShares
    <3> QED  BY <1>0, <3>2, PendingAgrees
  <2>2. CASE h \in A
    <3>1. served(f, "supply", k, block, h)
      BY <1>1, <2>2 DEF servedAll
    <3> QED  BY <1>0, <3>1, PendingStored DEF served
  <2>3. CASE A # {} /\ h \notin A
    <3>1. f.compState["supply"][k].block = block
      BY <1>1, <2>3 DEF servedAll, served
    <3>2. t.accountTokens[h] = c.accountTokens[h]
      BY <1>1, <1>2, <2>3 DEF moved
    <3>3. shares("supply", t, h) = shares("supply", c, h)
      BY <3>2 DEF shares
    <3> QED  BY <1>0, <3>1, <3>3, PendingStored
  <2> QED  BY <2>1, <2>2, <2>3
<1>5. pending(f, "borrow", k, t, block, h) = pending(f, "borrow", k, c, block, h)
  <2>1. CASE h \in B
    <3>1. served(f, "borrow", k, block, h)
      BY <1>1, <2>1 DEF servedAll
    <3> QED  BY <1>0, <3>1, PendingStored DEF served
  <2>2. CASE h \notin B
    <3>1. t.accountBorrows[h] = c.accountBorrows[h]
      BY <1>1, <1>2, <2>2 DEF moved
    <3>2. CASE c.accountBorrows[h].principal = 0
      <4>1. shares("borrow", c, h) = 0 /\ shares("borrow", t, h) = 0
        BY <1>0, <3>1, <3>2, NoDebtNoShare
      <4> QED  BY <1>0, <4>1, PendingNat
    <3>3. CASE c.accountBorrows[h].principal # 0
      <4>1. c.accountBorrows[h].principal \in Nat
        BY <1>0 DEF CTokenStorage, BorrowSnapshot
      <4>2. t.borrowIndex = c.borrowIndex /\ s.borrowIndex = c.borrowIndex
        BY <1>1, <1>3, <3>3, <4>1 DEF moved
      <4>3. shares("borrow", t, h) = shares("borrow", c, h)
        BY <3>1, <4>2 DEF shares, borrowBalanceStored
      <4>4. CASE B = {}
        <5>1. t.totalBorrows = c.totalBorrows
          BY <1>1, <1>2, <4>2, <4>4 DEF moved
        <5>2. agrees("borrow", t, c, h)
          BY <4>2, <4>3, <5>1 DEF agrees, totalShares
        <5> QED  BY <1>0, <5>2, PendingAgrees
      <4>5. CASE B # {}
        <5>1. f.compState["borrow"][k].block = block
          BY <1>1, <4>5 DEF servedAll, served
        <5> QED  BY <1>0, <4>3, <5>1, PendingStored
      <4> QED  BY <4>4, <4>5
    <3> QED  BY <3>2, <3>3
  <2> QED  BY <2>1, <2>2
<1> QED  BY <1>4, <1>5 DEF marketPending, c, t

\* Whoever holds something in a settled market has an index there.
LEMMA SettledIndexes ==
  ASSUME IndInv, RewardsInv, RewardsStarted, NEW f, wellKept(f, block), notBehind(flywheel, f),
         NEW k \in Markets, Settled(k, f), NEW h \in Holders
  PROVE  /\ ctoken'[k].accountTokens[h] > 0 => f.accountIndex["supply"][k][h] > 0
         /\ ctoken'[k].accountBorrows[h].principal > 0 => f.accountIndex["borrow"][k][h] > 0
         /\ ctoken'[k].borrowIndex >= expScale
<1>0. /\ block \in Nat /\ k \in RewardMarkets /\ "supply" \in Sides /\ "borrow" \in Sides
      /\ ctoken[k] \in CTokenStorage /\ ctoken[k].borrowIndex >= expScale
      /\ wellKept(flywheel, block)
      /\ compInitialIndex \in Nat /\ compInitialIndex > 0 /\ expScale \in Nat
  BY RewardConstants, MarketsSound, FlywheelKept, CompFlywheelAssumption, ExpScaleAssumption
     DEF RewardsStarted, IndInv, TypeOK, Sides, compInitialIndex
<1>1. PICK s \in CTokenStorage, A \in SUBSET Holders, B \in SUBSET Holders :
         /\ Start(k, s) /\ moved(s, ctoken'[k], A, B)
         /\ servedAll(f, "supply", k, A) /\ servedAll(f, "borrow", k, B)
  BY DEF Settled
<1>2. /\ s.accountTokens = ctoken[k].accountTokens
      /\ s.accountBorrows = ctoken[k].accountBorrows
      /\ s.borrowIndex >= ctoken[k].borrowIndex
  BY <1>0, <1>1, StartFields
<1>3. /\ ctoken[k].accountTokens[h] > 0 => flywheel.accountIndex["supply"][k][h] > 0
      /\ ctoken[k].accountBorrows[h].principal > 0 => flywheel.accountIndex["borrow"][k][h] > 0
  BY DEF RewardsStarted, HoldersHaveIndexes
<1>4. ASSUME NEW side \in Sides
      PROVE  /\ f.accountIndex[side][k][h] \in Nat /\ flywheel.accountIndex[side][k][h] \in Nat
             /\ f.accountIndex[side][k][h] >= flywheel.accountIndex[side][k][h]
             /\ f.compState[side][k].index \in Nat
  BY <1>0, IndexesNat DEF notBehind
<1>5. ASSUME NEW side \in Sides, served(f, side, k, block, h),
             f.compState[side][k].index >= compInitialIndex
      PROVE  f.accountIndex[side][k][h] > 0
  BY <1>0, <1>4, <1>5 DEF served
<1>6. ctoken'[k].accountTokens[h] > 0 => f.accountIndex["supply"][k][h] > 0
  <2>1. CASE h \in A
    BY <1>0, <1>1, <1>5, <2>1 DEF servedAll
  <2>2. CASE h \notin A
    <3>1. ctoken'[k].accountTokens[h] = ctoken[k].accountTokens[h]
      BY <1>1, <1>2, <2>2 DEF moved
    <3> QED  BY <1>0, <1>3, <1>4, <3>1
  <2> QED  BY <2>1, <2>2
<1>7. ctoken'[k].accountBorrows[h].principal > 0 => f.accountIndex["borrow"][k][h] > 0
  <2>1. CASE h \in B
    BY <1>0, <1>1, <1>5, <2>1 DEF servedAll
  <2>2. CASE h \notin B
    <3>1. ctoken'[k].accountBorrows[h] = ctoken[k].accountBorrows[h]
      BY <1>1, <1>2, <2>2 DEF moved
    <3> QED  BY <1>0, <1>3, <1>4, <3>1
  <2> QED  BY <2>1, <2>2
<1>8. ctoken'[k].borrowIndex >= expScale
  <2>1. ctoken'[k].borrowIndex = s.borrowIndex
    BY <1>1 DEF moved
  <2>2. s.borrowIndex \in Nat /\ ctoken[k].borrowIndex \in Nat
    BY <1>0 DEF CTokenStorage
  <2> QED  BY <1>0, <1>2, <2>1, <2>2
<1> QED  BY <1>6, <1>7, <1>8
-----------------------------------------------------------------------------
(* Debts without interest *)

\* Debts without interest: no snapshot is older than one, and the market's
\* debts are no less than the principals.
plainDebts(s) ==
  /\ \A h \in Holders :
        s.accountBorrows[h].principal > 0 => s.accountBorrows[h].interestIndex = expScale
  /\ SumFunctionOnSet([h \in Holders |-> s.accountBorrows[h].principal], Holders) <= s.totalBorrows

\* As long as no interest has accrued
freeDebts(s) == s.borrowIndex = expScale => plainDebts(s)

\* A debt without interest is its principal.
LEMMA PlainBalance ==
  ASSUME NEW s \in CTokenStorage, s.borrowIndex = expScale, plainDebts(s), NEW h \in Holders
  PROVE  /\ borrowBalanceStored(s, h) = s.accountBorrows[h].principal
         /\ s.accountBorrows[h].principal \in Nat
<1> DEFINE p == s.accountBorrows[h].principal
<1>1. p \in Nat /\ (p > 0 => s.accountBorrows[h].interestIndex = expScale)
  BY DEF CTokenStorage, BorrowSnapshot, plainDebts
<1>2. expScale \in Nat /\ expScale # 0
  BY ExpScaleAssumption
<1>3. \A x \in Nat : \A y \in Nat : y # 0 => (x * y) \div y = x
  OBVIOUS
<1>4. borrowBalanceStored(s, h) = IF p = 0 THEN 0
                                  ELSE (p * s.borrowIndex) \div s.accountBorrows[h].interestIndex
  BY DEF borrowBalanceStored
<1> HIDE DEF p
<1>5. CASE p = 0
  BY <1>4, <1>5 DEF p
<1>6. CASE p # 0
  <2>1. borrowBalanceStored(s, h) = (p * expScale) \div expScale
    BY <1>1, <1>4, <1>6
  <2>2. (p * expScale) \div expScale = p
    BY <1>1, <1>2, <1>3
  <2> QED  BY <1>1, <2>1, <2>2 DEF p
<1> QED  BY <1>1, <1>5, <1>6 DEF p

\* Operations that leave the debts leave them plain,
LEMMA SameDebtsFree ==
  ASSUME NEW s, NEW t, sameDebts(s, t), freeDebts(s)
  PROVE  freeDebts(t)
BY DEF sameDebts, freeDebts, plainDebts

\* and so do a loan and a repayment.
LEMMA SettledDebtsFree ==
  ASSUME NEW s \in CTokenStorage, NEW t \in CTokenStorage, NEW h \in Holders, NEW b \in Nat,
         debtSettled(s, t, h, b), freeDebts(s)
  PROVE  freeDebts(t)
<1> SUFFICES ASSUME t.borrowIndex = expScale PROVE plainDebts(t)
  BY DEF freeDebts
<1> DEFINE F == [k \in Holders |-> s.accountBorrows[k].principal]
           G == [k \in Holders |-> t.accountBorrows[k].principal]
<1>1. s.borrowIndex = expScale /\ plainDebts(s)
  BY DEF debtSettled, freeDebts
<1>2. /\ t.accountBorrows[h].principal = b /\ t.accountBorrows[h].interestIndex = s.borrowIndex
      /\ \A k \in Holders \ {h} : t.accountBorrows[k] = s.accountBorrows[k]
  BY DEF debtSettled, CTokenStorage
<1>3. /\ \A k \in Holders : F[k] \in Int /\ G[k] \in Int
      /\ G[h] = b /\ F[h] = s.accountBorrows[h].principal
      /\ \A k \in Holders \ {h} : G[k] = F[k]
  BY <1>2 DEF CTokenStorage, BorrowSnapshot
<1>4. SumFunctionOnSet(F, Holders) <= s.totalBorrows
  BY <1>1 DEF plainDebts
<1>5. t.totalBorrows + F[h] = s.totalBorrows + b
  <2>1. borrowBalanceStored(s, h) = F[h]
    BY <1>1, <1>3, PlainBalance
  <2> QED  BY <2>1 DEF debtSettled
<1>6. \A k \in Holders :
         t.accountBorrows[k].principal > 0 => t.accountBorrows[k].interestIndex = expScale
  BY <1>1, <1>2 DEF plainDebts
<1>7. s.totalBorrows \in Nat /\ t.totalBorrows \in Nat
  BY DEF CTokenStorage
<1> HIDE DEF F, G
<1>8. SumFunctionOnSet(G, Holders) = SumFunctionOnSet(F, Holders) - F[h] + G[h]
  BY <1>3, HoldersFinite, SumChange
<1>9. SumFunctionOnSet(F, Holders) \in Int
  BY <1>3, HoldersFinite, SumType
<1>10. SumFunctionOnSet(G, Holders) <= t.totalBorrows
  BY <1>3, <1>4, <1>5, <1>7, <1>8, <1>9
<1> QED  BY <1>6, <1>10 DEF plainDebts, G

\* Interest ends it; without, the state a transaction starts from has the
\* debts of the market.
LEMMA StartFree ==
  ASSUME IndInv, NEW m \in Markets, NEW s \in CTokenStorage, Start(m, s),
         ctoken[m].borrowIndex >= expScale, freeDebts(ctoken[m])
  PROVE  freeDebts(s)
<1> SUFFICES ASSUME s.borrowIndex = expScale PROVE plainDebts(s)
  BY DEF freeDebts
<1>1. /\ s.accountBorrows = ctoken[m].accountBorrows
      /\ s.borrowIndex >= ctoken[m].borrowIndex
      /\ s.borrowIndex = ctoken[m].borrowIndex => s.totalBorrows = ctoken[m].totalBorrows
  BY StartFields
<1>2. ctoken[m].borrowIndex \in Nat /\ expScale \in Nat
  BY MarketsSound, ExpScaleAssumption DEF CTokenStorage
<1>3. ctoken[m].borrowIndex = expScale
  BY <1>1, <1>2
<1> QED  BY <1>1, <1>3 DEF freeDebts, plainDebts

\* So does every transaction.
LEMMA EffectFree ==
  ASSUME IndInv, IndInv', NEW m \in Markets, Effect(m),
         ctoken[m].borrowIndex >= expScale, freeDebts(ctoken[m])
  PROVE  freeDebts(ctoken'[m])
<1> DEFINE t == ctoken'[m]
<1>1. t \in CTokenStorage
  BY NextMarket
<1> HIDE DEF t
<1>2. ASSUME NEW s \in CTokenStorage, Start(m, s), sameDebts(s, t)
      PROVE  freeDebts(t)
  BY <1>2, StartFree, SameDebtsFree
<1>3. ASSUME NEW s \in CTokenStorage, Start(m, s), NEW r \in CTokenStorage, repaidTo(s, r)
      PROVE  freeDebts(r)
  <2>1. PICK borrower \in Accounts, x \in Nat :
           /\ x <= borrowBalanceStored(s, borrower)
           /\ debtSettled(s, r, borrower, borrowBalanceStored(s, borrower) - x)
    BY <1>3 DEF repaidTo
  <2> DEFINE b == borrowBalanceStored(s, borrower) - x
  <2>2. borrower \in Holders /\ validSnapshots(s)
    BY <1>3, StartAges, AccountsAreHolders DEF validMarket
  <2>3. b \in Nat
    <3>1. borrowBalanceStored(s, borrower) \in Nat
      BY <2>2, BorrowBalanceBound
    <3> QED  BY <2>1, <3>1
  <2>4. debtSettled(s, r, borrower, b)
    BY <2>1
  <2> HIDE DEF b
  <2> QED  BY <1>3, <2>2, <2>3, <2>4, StartFree, SettledDebtsFree
<1>4. CASE Quieting(m)
  BY <1>2, <1>4 DEF Quieting, quiet, t
<1>5. CASE Minting(m)
  BY <1>2, <1>5 DEF Minting, tokensMinted, t
<1>6. CASE Redeeming(m)
  BY <1>2, <1>6 DEF Redeeming, tokensRedeemed, t
<1>7. CASE Transferring(m)
  <2>1. sameDebts(ctoken[m], t)
    BY <1>7 DEF Transferring, tokensMoved, t
  <2>2. Start(m, ctoken[m]) /\ ctoken[m] \in CTokenStorage
    BY MarketsSound DEF Start
  <2> QED  BY <1>2, <2>1, <2>2 DEF t
<1>8. CASE Seeding(m)
  BY <1>2, <1>8 DEF Seeding, tokensMinted, t
<1>9. CASE Borrowing(m)
  <2>1. PICK borrower \in Accounts, x \in Nat :
           /\ canAccrue(ctoken[m], block)
           /\ debtSettled(accrued(m), t, borrower, borrowBalanceStored(accrued(m), borrower) + x)
    BY <1>9 DEF Borrowing, t
  <2> DEFINE s == accrued(m)
             b == borrowBalanceStored(s, borrower) + x
  <2>2. Start(m, s) /\ s \in CTokenStorage /\ validSnapshots(s) /\ borrower \in Holders
    BY <2>1, StartAccrued, AccountsAreHolders DEF validMarket
  <2> HIDE DEF s
  <2>3. b \in Nat
    <3>1. borrowBalanceStored(s, borrower) \in Nat
      BY <2>2, BorrowBalanceBound
    <3> QED  BY <3>1
  <2>4. debtSettled(s, t, borrower, b)
    BY <2>1 DEF s
  <2> HIDE DEF b
  <2> QED  BY <1>1, <2>2, <2>3, <2>4, StartFree, SettledDebtsFree DEF t
<1>10. CASE Repaying(m)
  BY <1>1, <1>3, <1>10, StartAccrued DEF Repaying, t
<1>11. CASE Seizing(m)
  <2>1. PICK r \in CTokenStorage, borrower \in Accounts, liquidator \in Accounts,
             n \in Nat, p \in Nat, x \in Nat :
           /\ canAccrue(ctoken[m], block)
           /\ r = accrued(m) \/ repaidTo(accrued(m), r)
           /\ tokensSeized(r, t, borrower, liquidator, n, p, x)
    BY <1>11 DEF Seizing, t
  <2>2. Start(m, accrued(m)) /\ accrued(m) \in CTokenStorage
    BY <2>1, StartAccrued
  <2>3. freeDebts(r)
    BY <1>3, <2>1, <2>2, StartFree
  <2> QED  BY <2>1, <2>3, SameDebtsFree DEF tokensSeized, t
<1> QED  BY <1>4, <1>5, <1>6, <1>7, <1>8, <1>9, <1>10, <1>11 DEF Effect
-----------------------------------------------------------------------------
(* What the distribution has promised and not yet credited.  It is counted *)
(* in parts of a COMP, doubleScale of them each, so that nothing is rounded *)

\* What an index has grown since an account's own
lead(index, prior) ==
  index - (IF prior = 0 /\ index >= compInitialIndex THEN compInitialIndex ELSE prior)

\* What h is due for its shares of one side of a market at the stored index
due(f, side, m, s, h) ==
  shares(side, s, h) * lead(f.compState[side][m].index, f.accountIndex[side][m][h])

unpaid(f, side, m, s) == SumFunctionOnSet([h \in Holders |-> due(f, side, m, s, h)], Holders)

\* What the index has not yet shared out
unshared(f, side, m, now) ==
  ((now - f.compState[side][m].block) * marketSpeed(f, side, m)) * doubleScale

sidePromised(f, side, m, s, now) == unpaid(f, side, m, s) + unshared(f, side, m, now)

marketPromised(f, m, s, now) ==
  sidePromised(f, "supply", m, s, now) + sidePromised(f, "borrow", m, s, now)

\* What h can claim without any market
credit(f, now, h) ==
  f.compAccrued[h] + (now - f.lastContributorBlock[h]) * f.contributorSpeed[h]

credits(f, now) == SumFunctionOnSet([h \in Holders |-> credit(f, now, h)], Holders)

marketsPromised(f, ct, now) ==
  SumFunctionOnSet([m \in RewardMarkets |-> marketPromised(f, m, ct[m], now)], RewardMarkets)

promised(f, ct, now) == doubleScale * credits(f, now) + marketsPromised(f, ct, now)

\* An index leads an account's by a natural, by nothing once the account has it.
LEMMA LeadNat ==
  ASSUME NEW index \in Nat, NEW prior \in Nat, prior <= index
  PROVE  /\ lead(index, prior) \in Nat
         /\ prior = index => lead(index, prior) = 0
<1>1. compInitialIndex \in Nat /\ compInitialIndex # 0
  BY CompFlywheelAssumption DEF compInitialIndex
<1> QED  BY <1>1 DEF lead

\* doubleScale is a number that sums can be multiplied with.
LEMMA DoubleScaleNat ==
  /\ doubleScale \in Nat /\ doubleScale # 0 /\ doubleScale > 0
  /\ \A x \in Nat : doubleScale * x \in Nat /\ x * doubleScale \in Nat /\ x * doubleScale = doubleScale * x
<1>1. doubleScale \in Nat /\ doubleScale # 0 /\ doubleScale > 0
  BY CompFlywheelAssumption
<1>2. ASSUME NEW x \in Nat
      PROVE  /\ doubleScale * x \in Nat /\ x * doubleScale \in Nat
             /\ x * doubleScale = doubleScale * x
  BY <1>1, ProductNat
<1> QED  BY <1>1, <1>2

\* What is due on one side of a market
LEMMA DueNat ==
  ASSUME NEW now \in Nat, NEW f, wellKept(f, now), NEW side \in Sides,
         NEW m \in RewardMarkets, NEW s \in CTokenStorage, validSnapshots(s)
  PROVE  /\ \A h \in Holders :
              /\ due(f, side, m, s, h) \in Nat
              /\ lead(f.compState[side][m].index, f.accountIndex[side][m][h]) \in Nat
         /\ unpaid(f, side, m, s) \in Nat /\ unshared(f, side, m, now) \in Nat
         /\ sidePromised(f, side, m, s, now) \in Nat
<1>1. ASSUME NEW h \in Holders
      PROVE  /\ due(f, side, m, s, h) \in Nat
             /\ lead(f.compState[side][m].index, f.accountIndex[side][m][h]) \in Nat
  <2> DEFINE l == lead(f.compState[side][m].index, f.accountIndex[side][m][h])
             n == shares(side, s, h)
  <2>1. l \in Nat
    BY IndexesNat, LeadNat
  <2>2. n \in Nat
    BY SharesNat
  <2>3. due(f, side, m, s, h) = n * l
    BY DEF due
  <2> HIDE DEF l, n
  <2>4. due(f, side, m, s, h) \in Nat
    BY <2>1, <2>2, <2>3, ProductNat
  <2> QED  BY <2>1, <2>4 DEF l
<1>2. unpaid(f, side, m, s) \in Nat
  <2> DEFINE e == [h \in Holders |-> due(f, side, m, s, h)]
  <2>1. \A h \in Holders : e[h] \in Nat
    BY <1>1
  <2>2. unpaid(f, side, m, s) = SumFunctionOnSet(e, Holders)
    BY DEF unpaid
  <2> HIDE DEF e
  <2> QED  BY <2>1, <2>2, HoldersFinite, SumNat
<1>3. unshared(f, side, m, now) \in Nat
  <2>1. now - f.compState[side][m].block \in Nat
    BY IndexesNat
  <2>2. marketSpeed(f, side, m) \in Nat
    BY MarketSpeedNat DEF wellKept
  <2>3. (now - f.compState[side][m].block) * marketSpeed(f, side, m) \in Nat
    BY <2>1, <2>2, ProductNat
  <2> QED  BY <2>3, DoubleScaleNat DEF unshared
<1> QED  BY <1>1, <1>2, <1>3 DEF sidePromised

\* and without the markets
LEMMA CreditsNat ==
  ASSUME NEW now \in Nat, NEW f, wellKept(f, now)
  PROVE  credits(f, now) \in Nat /\ \A h \in Holders : credit(f, now, h) \in Nat
<1>1. \A h \in Holders : credit(f, now, h) \in Nat
  BY ContributionNat DEF credit
<1> DEFINE e == [h \in Holders |-> credit(f, now, h)]
<1>2. \A h \in Holders : e[h] \in Nat
  BY <1>1
<1>3. credits(f, now) = SumFunctionOnSet(e, Holders)
  BY DEF credits
<1> HIDE DEF e
<1> QED  BY <1>1, <1>2, <1>3, HoldersFinite, SumNat

\* All that is promised
LEMMA PromisedNat ==
  ASSUME NEW now \in Nat, NEW f, wellKept(f, now), NEW ct, wellStored(ct)
  PROVE  /\ \A m \in RewardMarkets : marketPromised(f, m, ct[m], now) \in Nat
         /\ marketsPromised(f, ct, now) \in Nat
         /\ doubleScale * credits(f, now) \in Nat
         /\ promised(f, ct, now) \in Nat
<1>1. ASSUME NEW m \in RewardMarkets PROVE marketPromised(f, m, ct[m], now) \in Nat
  <2>1. /\ ct[m] \in CTokenStorage /\ validSnapshots(ct[m])
        /\ "supply" \in Sides /\ "borrow" \in Sides
    BY DEF wellStored, Sides
  <2> QED  BY <2>1, DueNat DEF marketPromised
<1> DEFINE e == [m \in RewardMarkets |-> marketPromised(f, m, ct[m], now)]
<1>2. \A m \in RewardMarkets : e[m] \in Nat
  BY <1>1
<1>3. marketsPromised(f, ct, now) = SumFunctionOnSet(e, RewardMarkets)
  BY DEF marketsPromised
<1> HIDE DEF e
<1>4. marketsPromised(f, ct, now) \in Nat
  BY <1>2, <1>3, CompFlywheelAssumption, SumNat
<1>5. doubleScale * credits(f, now) \in Nat
  BY CreditsNat, DoubleScaleNat
<1> QED  BY <1>1, <1>4, <1>5 DEF promised

\* Promises that are no more anywhere are no more altogether.
LEMMA PromisedFewer ==
  ASSUME NEW now \in Nat, NEW f, wellKept(f, now), NEW ct, wellStored(ct),
         NEW then \in Nat, NEW g, wellKept(g, then), NEW bt, wellStored(bt),
         credits(g, then) <= credits(f, now),
         \A m \in RewardMarkets : marketPromised(g, m, bt[m], then) <= marketPromised(f, m, ct[m], now)
  PROVE  promised(g, bt, then) <= promised(f, ct, now)
<1> DEFINE e == [m \in RewardMarkets |-> marketPromised(f, m, ct[m], now)]
           d == [m \in RewardMarkets |-> marketPromised(g, m, bt[m], then)]
<1>1. \A m \in RewardMarkets : d[m] \in Nat /\ e[m] \in Nat /\ e[m] >= d[m]
  BY PromisedNat
<1>2. /\ marketsPromised(f, ct, now) = SumFunctionOnSet(e, RewardMarkets)
      /\ marketsPromised(g, bt, then) = SumFunctionOnSet(d, RewardMarkets)
  BY DEF marketsPromised
<1> HIDE DEF d, e
<1>3. marketsPromised(g, bt, then) <= marketsPromised(f, ct, now)
  BY <1>1, <1>2, CompFlywheelAssumption, SumGrows
<1>4. doubleScale * credits(g, then) <= doubleScale * credits(f, now)
  <2>1. credits(g, then) \in Nat /\ credits(f, now) \in Nat
    BY CreditsNat
  <2>2. credits(g, then) * doubleScale <= credits(f, now) * doubleScale
    BY <2>1, DoubleScaleNat, ProductMonotone
  <2> QED  BY <2>1, <2>2, DoubleScaleNat
<1>5. /\ marketsPromised(g, bt, then) \in Nat /\ marketsPromised(f, ct, now) \in Nat
      /\ doubleScale * credits(g, then) \in Nat /\ doubleScale * credits(f, now) \in Nat
  BY PromisedNat
<1> QED  BY <1>3, <1>4, <1>5 DEF promised

\* A change of one side of one market and of what accounts are credited
LEMMA PromisedAtOne ==
  ASSUME NEW now \in Nat, NEW f, wellKept(f, now), NEW g, wellKept(g, now),
         NEW ct, wellStored(ct), NEW side \in Sides, NEW m \in RewardMarkets,
         doubleScale * credits(g, now) + sidePromised(g, side, m, ct[m], now)
           <= doubleScale * credits(f, now) + sidePromised(f, side, m, ct[m], now),
         \A d \in Sides, k \in RewardMarkets :
            d # side \/ k # m => sidePromised(g, d, k, ct[k], now) = sidePromised(f, d, k, ct[k], now)
  PROVE  promised(g, ct, now) <= promised(f, ct, now)
<1> DEFINE F == [k \in RewardMarkets |-> marketPromised(f, k, ct[k], now)]
           G == [k \in RewardMarkets |-> marketPromised(g, k, ct[k], now)]
<1>1. \A k \in RewardMarkets : F[k] \in Int /\ G[k] \in Int
  BY PromisedNat
<1>2. \A k \in RewardMarkets \ {m} : G[k] = F[k]
  BY DEF marketPromised, Sides
<1>3. /\ marketsPromised(f, ct, now) = SumFunctionOnSet(F, RewardMarkets)
      /\ marketsPromised(g, ct, now) = SumFunctionOnSet(G, RewardMarkets)
  BY DEF marketsPromised
<1>4. /\ \A d \in Sides : sidePromised(f, d, m, ct[m], now) \in Nat /\ sidePromised(g, d, m, ct[m], now) \in Nat
      /\ doubleScale * credits(f, now) \in Nat /\ doubleScale * credits(g, now) \in Nat
      /\ marketsPromised(f, ct, now) \in Nat
  <2>1. ct[m] \in CTokenStorage /\ validSnapshots(ct[m])
    BY DEF wellStored
  <2> QED  BY <2>1, DueNat, PromisedNat
<1>5. doubleScale * credits(g, now) + G[m] <= doubleScale * credits(f, now) + F[m]
  <2>1. /\ G[m] = sidePromised(g, "supply", m, ct[m], now) + sidePromised(g, "borrow", m, ct[m], now)
        /\ F[m] = sidePromised(f, "supply", m, ct[m], now) + sidePromised(f, "borrow", m, ct[m], now)
    BY DEF marketPromised
  <2>2. CASE side = "supply"
    <3>1. sidePromised(g, "borrow", m, ct[m], now) = sidePromised(f, "borrow", m, ct[m], now)
      BY <2>2 DEF Sides
    <3> QED  BY <1>4, <2>1, <2>2, <3>1 DEF Sides
  <2>3. CASE side = "borrow"
    <3>1. sidePromised(g, "supply", m, ct[m], now) = sidePromised(f, "supply", m, ct[m], now)
      BY <2>3 DEF Sides
    <3> QED  BY <1>4, <2>1, <2>3, <3>1 DEF Sides
  <2> QED  BY <2>2, <2>3 DEF Sides
<1> HIDE DEF F, G
<1>6. SumFunctionOnSet(G, RewardMarkets) = SumFunctionOnSet(F, RewardMarkets) - F[m] + G[m]
  BY <1>1, <1>2, CompFlywheelAssumption, SumChange
<1>7. F[m] \in Int /\ G[m] \in Int
  BY <1>1
<1> QED  BY <1>3, <1>4, <1>5, <1>6, <1>7 DEF promised

\* The shares of a side, added up
sharesSum(side, s) == SumFunctionOnSet([h \in Holders |-> shares(side, s, h)], Holders)

\* No more is shared out than a side has in total.
wellShared(s) == \A side \in Sides : sharesSum(side, s) <= totalShares(side, s)

LEMMA SharesSumNat ==
  ASSUME NEW s \in CTokenStorage, validSnapshots(s), NEW side \in Sides
  PROVE  sharesSum(side, s) \in Nat
<1> DEFINE e == [h \in Holders |-> shares(side, s, h)]
<1>1. \A h \in Holders : e[h] \in Nat
  BY SharesNat
<1>2. sharesSum(side, s) = SumFunctionOnSet(e, Holders)
  BY DEF sharesSum
<1> HIDE DEF e
<1> QED  BY <1>1, <1>2, HoldersFinite, SumNat

\* What a side has promised depends on its own state, speed and indexes
LEMMA SideDepends ==
  ASSUME NEW now \in Nat, NEW f, NEW g, NEW side \in Sides, NEW m \in RewardMarkets, NEW s,
         g.compState[side][m] = f.compState[side][m],
         marketSpeed(g, side, m) = marketSpeed(f, side, m),
         \A h \in Holders : g.accountIndex[side][m][h] = f.accountIndex[side][m][h]
  PROVE  sidePromised(g, side, m, s, now) = sidePromised(f, side, m, s, now)
<1>1. unshared(g, side, m, now) = unshared(f, side, m, now)
  BY DEF unshared
<1>2. \A h \in Holders : due(g, side, m, s, h) = due(f, side, m, s, h)
  BY DEF due
<1>3. unpaid(g, side, m, s) = unpaid(f, side, m, s)
  <2>1. [h \in Holders |-> due(g, side, m, s, h)] = [h \in Holders |-> due(f, side, m, s, h)]
    BY <1>2
  <2> QED  BY <2>1 DEF unpaid
<1> QED  BY <1>1, <1>3 DEF sidePromised

\* and on the shares of the market.
LEMMA SideOfShares ==
  ASSUME NEW now, NEW f, NEW side, NEW m, NEW s, NEW t,
         \A h \in Holders : shares(side, t, h) = shares(side, s, h)
  PROVE  /\ sidePromised(f, side, m, t, now) = sidePromised(f, side, m, s, now)
         /\ sharesSum(side, t) = sharesSum(side, s)
<1>1. \A h \in Holders : due(f, side, m, t, h) = due(f, side, m, s, h)
  BY DEF due
<1>2. [h \in Holders |-> due(f, side, m, t, h)] = [h \in Holders |-> due(f, side, m, s, h)]
  BY <1>1
<1>3. [h \in Holders |-> shares(side, t, h)] = [h \in Holders |-> shares(side, s, h)]
  OBVIOUS
<1> QED  BY <1>2, <1>3 DEF sidePromised, unpaid, sharesSum

\* The speeds and weights, and with them the speed of a market
LEMMA SpeedDepends ==
  ASSUME NEW f, NEW g, g.compSpeed = f.compSpeed, g.compWeight = f.compWeight,
         NEW side, NEW m
  PROVE  marketSpeed(g, side, m) = marketSpeed(f, side, m)
BY DEF marketSpeed, getTotalCompWeight

\* An index that has started grows no more than there was to share.
LEMMA UpdatePromises ==
  ASSUME NEW now \in Nat, NEW f, wellKept(f, now), NEW side \in Sides, NEW m \in RewardMarkets,
         NEW s \in CTokenStorage, validSnapshots(s), sharesSum(side, s) <= totalShares(side, s),
         f.compState[side][m].index >= compInitialIndex,
         NEW g, wellKept(g, now), g.compState[side][m] = updatedIndex(f, side, m, s, now),
         \A h \in Holders : g.accountIndex[side][m][h] = f.accountIndex[side][m][h]
  PROVE  /\ sidePromised(g, side, m, s, now) <= sidePromised(f, side, m, s, now)
         /\ unshared(g, side, m, now) = 0
<1> DEFINE index  == f.compState[side][m].index
           amount == (now - f.compState[side][m].block) * marketSpeed(f, side, m)
           total  == totalShares(side, s)
           ratio  == IF total = 0 THEN 0 ELSE (amount * doubleScale) \div total
           sum    == sharesSum(side, s)
<1>1. g.compState[side][m].index = index + ratio /\ g.compState[side][m].block = now
  BY DEF updatedIndex
<1>2. /\ index \in Nat /\ \A h \in Holders : f.accountIndex[side][m][h] \in Nat
      /\ compInitialIndex \in Nat
  BY IndexesNat, CompFlywheelAssumption DEF compInitialIndex
<1>3. unshared(f, side, m, now) = amount * doubleScale /\ amount * doubleScale \in Nat
  BY DueNat DEF unshared
<1>4. total \in Nat /\ sum \in Nat /\ sum <= total /\ \A h \in Holders : shares(side, s, h) \in Nat
  BY SharesNat, SharesSumNat
<1> DEFINE x == amount * doubleScale
<1>5. x \in Nat /\ unshared(f, side, m, now) = x /\ ratio = IF total = 0 THEN 0 ELSE x \div total
  BY <1>3
<1> HIDE DEF x, amount
<1>6. ratio \in Nat /\ ratio * total <= x
  <2>1. CASE total = 0
    BY <1>5, <2>1
  <2>2. CASE total # 0
    <3>1. x \div total \in Nat /\ (x \div total) * total <= x
      BY <1>4, <1>5, <2>2, QuotientNat, QuotientBounds
    <3> QED  BY <2>2, <3>1, <1>5
  <2> QED  BY <2>1, <2>2
<1> HIDE DEF ratio, total
<1>7. ASSUME NEW h \in Holders
      PROVE  due(g, side, m, s, h) = due(f, side, m, s, h) + ratio * shares(side, s, h)
  <2> DEFINE n == shares(side, s, h)
             prior == f.accountIndex[side][m][h]
             l == lead(index, prior)
  <2>1. index >= compInitialIndex /\ index \in Nat
    BY <1>2
  <2> HIDE DEF index
  <2>2. lead(index + ratio, prior) = l + ratio
    BY <1>2, <1>6, <2>1 DEF lead
  <2>3. n \in Nat /\ l \in Nat
    BY <1>4, DueNat DEF index
  <2>4. due(g, side, m, s, h) = n * (l + ratio)
    <3>1. due(g, side, m, s, h) = n * lead(index + ratio, prior)
      BY <1>1 DEF due, index
    <3> QED  BY <2>2, <3>1
  <2>5. due(f, side, m, s, h) = n * l
    BY DEF due, index
  <2> HIDE DEF n, l, prior
  <2>6. n * (l + ratio) = n * l + ratio * n
    BY <1>6, <2>3
  <2> QED  BY <2>4, <2>5, <2>6 DEF n
<1>8. unpaid(g, side, m, s) = unpaid(f, side, m, s) + ratio * sum
  <2> DEFINE F == [h \in Holders |-> due(f, side, m, s, h)]
             G == [h \in Holders |-> due(g, side, m, s, h)]
             N == [h \in Holders |-> shares(side, s, h)]
  <2>1. \A h \in Holders : /\ F[h] \in Int /\ N[h] \in Int
                           /\ G[h] = F[h] + ratio * N[h]
    BY <1>4, <1>7, DueNat
  <2>2. /\ unpaid(g, side, m, s) = SumFunctionOnSet(G, Holders)
        /\ unpaid(f, side, m, s) = SumFunctionOnSet(F, Holders)
        /\ sum = SumFunctionOnSet(N, Holders)
    BY DEF unpaid, sharesSum
  <2> HIDE DEF F, G, N, sum
  <2>3. ratio \in Int
    BY <1>6
  <2>4. SumFunctionOnSet(G, Holders) = SumFunctionOnSet(F, Holders) + ratio * SumFunctionOnSet(N, Holders)
    BY <2>1, <2>3, HoldersFinite, SumLinear
  <2> QED  BY <2>2, <2>4
<1>9. unshared(g, side, m, now) = 0
  <2>1. marketSpeed(g, side, m) \in Nat
    BY MarketSpeedNat DEF wellKept
  <2>2. (now - now) * marketSpeed(g, side, m) = 0
    BY <2>1
  <2>3. 0 * doubleScale = 0
    BY DoubleScaleNat
  <2> QED  BY <1>1, <2>2, <2>3 DEF unshared
<1> HIDE DEF sum
<1>10. ratio * sum <= x /\ ratio * sum \in Nat
  <2>1. sum * ratio <= total * ratio /\ sum * ratio \in Nat
    BY <1>4, <1>6, ProductMonotone, ProductNat DEF total
  <2>2. sum * ratio = ratio * sum /\ total * ratio = ratio * total /\ ratio * total \in Nat
    BY <1>4, <1>6, ProductNat DEF total
  <2> QED  BY <1>5, <1>6, <2>1, <2>2
<1>11. unpaid(f, side, m, s) \in Nat
  BY DueNat
<1> QED  BY <1>5, <1>8, <1>9, <1>10, <1>11 DEF sidePromised

\* A distribution credits no more than is due.
LEMMA DistributePromises ==
  ASSUME NEW now \in Nat, NEW f, wellKept(f, now), NEW side \in Sides, NEW m \in RewardMarkets,
         NEW s \in CTokenStorage, validSnapshots(s), NEW a \in Holders,
         NEW g, distributed(f, g, now, side, m, s, a)
  PROVE  /\ doubleScale * credits(g, now) + sidePromised(g, side, m, s, now)
              <= doubleScale * credits(f, now) + sidePromised(f, side, m, s, now)
         /\ \A d \in Sides, k \in RewardMarkets : d # side \/ k # m =>
               \A t : sidePromised(g, d, k, t, now) = sidePromised(f, d, k, t, now)
<1> DEFINE gain == distribution(f, side, m, s, a)
           loss == due(f, side, m, s, a)
<1>1. /\ wellKept(g, now)
      /\ g.compState = f.compState /\ g.compSpeed = f.compSpeed /\ g.compWeight = f.compWeight
      /\ g.contributorSpeed = f.contributorSpeed
      /\ g.lastContributorBlock = f.lastContributorBlock
      /\ g.accountIndex[side][m][a] = f.compState[side][m].index
      /\ \A d \in Sides, k \in RewardMarkets, h \in Holders :
            d # side \/ k # m \/ h # a => g.accountIndex[d][k][h] = f.accountIndex[d][k][h]
      /\ g.compAccrued[a] = f.compAccrued[a] + gain
      /\ \A h \in Holders : h # a => g.compAccrued[h] = f.compAccrued[h]
  BY DEF distributed
<1>2. \A d \in Sides, k \in RewardMarkets : marketSpeed(g, d, k) = marketSpeed(f, d, k)
  BY <1>1, SpeedDepends
<1>3. ASSUME NEW d \in Sides, NEW k \in RewardMarkets, NEW t, d # side \/ k # m
      PROVE  sidePromised(g, d, k, t, now) = sidePromised(f, d, k, t, now)
  <2>1. \A h \in Holders : g.accountIndex[d][k][h] = f.accountIndex[d][k][h]
    BY <1>1, <1>3
  <2> QED  BY <1>1, <1>2, <2>1, SideDepends
<1>4. loss \in Nat
  BY DueNat
<1>5. gain \in Nat /\ doubleScale * gain <= loss
  <2>1. gain = loss \div doubleScale
    BY DEF distribution, due, lead
  <2> HIDE DEF gain, loss
  <2>2. loss \div doubleScale \in Nat /\ (loss \div doubleScale) * doubleScale <= loss
    BY <1>4, DoubleScaleNat, QuotientBounds, QuotientNat
  <2>3. gain \in Nat /\ gain * doubleScale <= loss
    BY <2>1, <2>2
  <2>4. gain * doubleScale = doubleScale * gain
    BY <2>3, DoubleScaleNat
  <2> QED  BY <2>3, <2>4
<1> HIDE DEF gain
<1>6. credits(g, now) = credits(f, now) + gain
  <2> DEFINE F == [h \in Holders |-> credit(f, now, h)]
             G == [h \in Holders |-> credit(g, now, h)]
  <2>1. \A h \in Holders : F[h] \in Int /\ G[h] \in Int /\ F[h] \in Nat
    BY <1>1, CreditsNat
  <2>2. \A h \in Holders \ {a} : G[h] = F[h]
    BY <1>1 DEF credit
  <2>3. G[a] = F[a] + gain
    <3> DEFINE c == (now - f.lastContributorBlock[a]) * f.contributorSpeed[a]
    <3>1. c \in Nat /\ f.compAccrued[a] \in Nat
      BY ContributionNat
    <3>2. F[a] = f.compAccrued[a] + c /\ G[a] = g.compAccrued[a] + c
      BY <1>1 DEF credit
    <3> HIDE DEF c, F, G
    <3> QED  BY <1>1, <1>5, <3>1, <3>2
  <2>4. credits(f, now) = SumFunctionOnSet(F, Holders) /\ credits(g, now) = SumFunctionOnSet(G, Holders)
    BY DEF credits
  <2> HIDE DEF F, G
  <2>5. SumFunctionOnSet(G, Holders) = SumFunctionOnSet(F, Holders) - F[a] + G[a]
    BY <2>1, <2>2, HoldersFinite, SumChange
  <2>6. credits(f, now) \in Nat
    BY CreditsNat
  <2> QED  BY <1>5, <2>1, <2>3, <2>4, <2>5, <2>6
<1>7. unpaid(g, side, m, s) = unpaid(f, side, m, s) - loss
  <2> DEFINE F == [h \in Holders |-> due(f, side, m, s, h)]
             G == [h \in Holders |-> due(g, side, m, s, h)]
  <2>1. \A h \in Holders : F[h] \in Int /\ G[h] \in Int
    BY <1>1, DueNat
  <2>2. \A h \in Holders \ {a} : G[h] = F[h]
    BY <1>1 DEF due
  <2>3. G[a] = 0
    <3> DEFINE i == f.compState[side][m].index
               n == shares(side, s, a)
    <3>1. G[a] = n * lead(i, i)
      BY <1>1 DEF due
    <3>2. lead(i, i) = 0
      <4>1. ASSUME NEW j \in Nat PROVE lead(j, j) = 0
        <5>1. j <= j
          OBVIOUS
        <5> QED  BY <5>1, LeadNat
      <4>2. i \in Nat
        BY IndexesNat
      <4> QED  BY <4>1, <4>2
    <3>3. n \in Nat
      BY SharesNat
    <3> HIDE DEF i, n, G
    <3> QED  BY <3>1, <3>2, <3>3
  <2>4. /\ unpaid(f, side, m, s) = SumFunctionOnSet(F, Holders)
        /\ unpaid(g, side, m, s) = SumFunctionOnSet(G, Holders)
        /\ F[a] = loss
    BY DEF unpaid
  <2> HIDE DEF F, G, loss
  <2>5. SumFunctionOnSet(G, Holders) = SumFunctionOnSet(F, Holders) - F[a] + G[a]
    BY <2>1, <2>2, HoldersFinite, SumChange
  <2>6. unpaid(f, side, m, s) \in Nat
    BY DueNat
  <2> QED  BY <1>4, <2>3, <2>4, <2>5, <2>6
<1>8. unshared(g, side, m, now) = unshared(f, side, m, now) /\ unshared(f, side, m, now) \in Nat
  BY <1>1, <1>2, DueNat DEF unshared
<1>9. unpaid(f, side, m, s) \in Nat /\ credits(f, now) \in Nat
  BY DueNat, CreditsNat
<1>10. doubleScale * credits(g, now) = doubleScale * credits(f, now) + doubleScale * gain
  BY <1>5, <1>6, <1>9, DoubleScaleNat
<1>11. doubleScale * credits(f, now) \in Nat /\ doubleScale * gain \in Nat
  BY <1>5, <1>9, DoubleScaleNat
<1> HIDE DEF loss
<1>12. doubleScale * credits(g, now) + sidePromised(g, side, m, s, now)
         <= doubleScale * credits(f, now) + sidePromised(f, side, m, s, now)
  BY <1>4, <1>5, <1>7, <1>8, <1>9, <1>10, <1>11 DEF sidePromised
<1> QED  BY <1>3, <1>12

\* Without interest, tokens and debts are shared out and no more.
LEMMA FreeShared ==
  ASSUME NEW s \in CTokenStorage, tokensAddUp(s), s.borrowIndex = expScale, plainDebts(s)
  PROVE  wellShared(s)
<1>1. sharesSum("supply", s) <= totalShares("supply", s)
  <2> DEFINE N == [h \in Holders |-> shares("supply", s, h)]
  <2>1. \A h \in Holders : N[h] = s.accountTokens[h]
    BY DEF shares
  <2>2. sharesSum("supply", s) = SumFunctionOnSet(N, Holders)
    BY DEF sharesSum
  <2> HIDE DEF N
  <2>3. SumFunctionOnSet(N, Holders) = SumFunctionOnSet(s.accountTokens, Holders)
    BY <2>1, HoldersFinite, SumSame
  <2>4. totalShares("supply", s) = s.totalSupply /\ s.totalSupply \in Nat
    BY DEF totalShares, CTokenStorage
  <2> QED  BY <2>2, <2>3, <2>4 DEF tokensAddUp
<1>2. sharesSum("borrow", s) <= totalShares("borrow", s)
  <2> DEFINE N == [h \in Holders |-> shares("borrow", s, h)]
             P == [h \in Holders |-> s.accountBorrows[h].principal]
  <2>1. expScale \in Nat /\ expScale # 0
    BY ExpScaleAssumption
  <2>2. \A x \in Nat : \A y \in Nat : y # 0 => (x * y) \div y = x
    OBVIOUS
  <2>3. \A x \in Nat : div_Exp(x, expScale) = x
    BY <2>1, <2>2 DEF div_Exp
  <2>4. \A h \in Holders : N[h] = P[h]
    <3>1. ASSUME NEW h \in Holders PROVE shares("borrow", s, h) = s.accountBorrows[h].principal
      BY <2>3, PlainBalance DEF shares
    <3> QED  BY <3>1
  <2>5. sharesSum("borrow", s) = SumFunctionOnSet(N, Holders)
    BY DEF sharesSum
  <2>6. SumFunctionOnSet(P, Holders) <= s.totalBorrows
    BY DEF plainDebts
  <2> HIDE DEF N, P
  <2>7. SumFunctionOnSet(N, Holders) = SumFunctionOnSet(P, Holders)
    BY <2>4, HoldersFinite, SumSame
  <2>8. s.totalBorrows \in Nat
    BY DEF CTokenStorage
  <2>9. totalShares("borrow", s) = s.totalBorrows
    BY <2>3, <2>8 DEF totalShares
  <2> QED  BY <2>5, <2>6, <2>7, <2>9
<1> QED  BY <1>1, <1>2 DEF wellShared, Sides

\* The markets together are never faster than the speed that they share.
LEMMA SpeedsShared ==
  ASSUME NEW f \in FlywheelStorage, NEW side \in Sides
  PROVE  SumFunctionOnSet([m \in RewardMarkets |-> marketSpeed(f, side, m)], RewardMarkets)
           <= f.compSpeed[side]
<1> DEFINE W == getTotalCompWeight(f)
           S == f.compSpeed[side]
           sum == SumFunctionOnSet(f.compWeight, RewardMarkets)
           V == [m \in RewardMarkets |-> marketSpeed(f, side, m)]
           total == SumFunctionOnSet(V, RewardMarkets)
<1>1. /\ S \in Nat /\ \A m \in RewardMarkets : f.compWeight[m] \in Nat
      /\ expScale \in Nat /\ expScale # 0
  BY FlywheelFields, ExpScaleAssumption
<1>2. sum \in Nat
  BY <1>1, CompFlywheelAssumption, SumNat
<1>3. W \in Nat /\ W # 0 /\ sum <= W
  BY <1>2 DEF getTotalCompWeight
<1>4. \A m \in RewardMarkets : V[m] \in Nat
  BY MarketSpeedNat
<1> HIDE DEF W
<1>5. ASSUME NEW m \in RewardMarkets PROVE W * V[m] <= S * f.compWeight[m]
  <2> DEFINE w == f.compWeight[m]
             q == (w * expScale) \div W
             v == V[m]
  <2>1. v = (S * q) \div expScale
    BY DEF marketSpeed, mul_Exp, div_Exp, W
  <2>2. w \in Nat /\ v \in Nat
    BY <1>1, <1>4
  <2> HIDE DEF w, v, S
  <2>3. w * expScale \in Nat
    BY <1>1, <2>2, ProductNat
  <2>4. q \in Nat /\ q * W <= w * expScale
    BY <1>3, <2>3, QuotientBounds
  <2> HIDE DEF q
  <2>5. S \in Nat
    BY <1>1 DEF S
  <2>6. S * q \in Nat
    BY <2>4, <2>5, ProductNat
  <2>7. v * expScale <= S * q /\ v * expScale \in Nat
    <3> DEFINE x == S * q
    <3>1. x \in Nat
      BY <2>6
    <3> HIDE DEF x
    <3>2. (x \div expScale) * expScale <= x
      BY <1>1, <3>1, QuotientBounds
    <3>3. v * expScale <= x
      BY <2>1, <3>2 DEF x
    <3> QED  BY <1>1, <2>2, <3>3, ProductNat DEF x
  <2>8. (v * expScale) * W <= (S * q) * W
    BY <1>3, <2>6, <2>7, ProductMonotone
  <2>9. (q * W) * S <= (w * expScale) * S
    <3>1. q * W \in Nat
      BY <1>3, <2>4, ProductNat
    <3> QED  BY <2>3, <2>4, <2>5, <3>1, ProductMonotone
  <2>10. /\ (v * expScale) * W = (W * v) * expScale
         /\ (S * q) * W = (q * W) * S
         /\ (w * expScale) * S = (S * w) * expScale
    BY <1>1, <1>3, <2>2, <2>4, <2>5
  <2>11. W * v \in Nat /\ S * w \in Nat /\ (q * W) * S \in Nat
    <3>1. q * W \in Nat
      BY <1>3, <2>4, ProductNat
    <3> QED  BY <1>3, <2>2, <2>5, <3>1, ProductNat
  <2>12. (W * v) * expScale <= (S * w) * expScale
    <3>1. (W * v) * expScale \in Nat /\ (S * w) * expScale \in Nat
      BY <1>1, <2>11, ProductNat
    <3> QED  BY <2>8, <2>9, <2>10, <2>11, <3>1
  <2> DEFINE a == W * v
             b == S * w
  <2>13. a \in Nat /\ b \in Nat /\ a * expScale <= b * expScale
    BY <2>11, <2>12
  <2> HIDE DEF a, b
  <2>14. a <= b
    BY <1>1, <2>13, ProductMonotone
  <2> QED  BY <2>14 DEF a, b, w, v
<1> DEFINE X == [m \in RewardMarkets |-> W * V[m]]
           Y == [m \in RewardMarkets |-> S * f.compWeight[m]]
<1> HIDE DEF V, S
<1>6. \A m \in RewardMarkets : X[m] \in Nat /\ Y[m] \in Nat /\ Y[m] >= X[m]
  <2> SUFFICES ASSUME NEW m \in RewardMarkets
               PROVE  W * V[m] \in Nat /\ S * f.compWeight[m] \in Nat
    BY <1>5
  <2>1. V[m] \in Nat /\ f.compWeight[m] \in Nat /\ S \in Nat
    BY <1>1, <1>4 DEF S
  <2> QED  BY <1>3, <2>1, ProductNat
<1>7. \A m \in RewardMarkets : X[m] = W * V[m] /\ Y[m] = S * f.compWeight[m]
  OBVIOUS
<1> HIDE DEF X, Y
<1>8. SumFunctionOnSet(X, RewardMarkets) <= SumFunctionOnSet(Y, RewardMarkets)
  BY <1>6, CompFlywheelAssumption, SumGrows
<1>9. SumFunctionOnSet(X, RewardMarkets) = W * total
  <2>1. W \in Int /\ \A m \in RewardMarkets : V[m] \in Int
    BY <1>3, <1>4
  <2> QED  BY <1>7, <2>1, CompFlywheelAssumption, SumScaled
<1>10. SumFunctionOnSet(Y, RewardMarkets) = S * sum
  <2>1. S \in Int /\ \A m \in RewardMarkets : f.compWeight[m] \in Int
    BY <1>1 DEF S
  <2> QED  BY <1>7, <2>1, CompFlywheelAssumption, SumScaled
<1>11. total \in Nat
  BY <1>4, CompFlywheelAssumption, SumNat
<1> HIDE DEF total, sum
<1>12. sum * S <= W * S /\ S \in Nat
  <2>1. S \in Nat
    BY <1>1 DEF S
  <2> QED  BY <1>2, <1>3, <2>1, ProductMonotone DEF sum
<1>13. total * W <= S * W
  <2>1. sum * S = S * sum /\ W * S = S * W /\ total * W = W * total
    BY <1>2, <1>3, <1>11, <1>12 DEF sum
  <2>2. total * W \in Nat /\ S * W \in Nat /\ S * sum \in Nat
    BY <1>2, <1>3, <1>11, <1>12, ProductNat DEF sum
  <2> QED  BY <1>8, <1>9, <1>10, <1>12, <2>1, <2>2
<1>14. total <= S
  BY <1>3, <1>11, <1>12, <1>13, ProductMonotone
<1> QED  BY <1>14 DEF total, V, S

\* What the accounts would get in one side of a market is promised.
LEMMA PendingPromised ==
  ASSUME NEW now \in Nat, NEW f, wellKept(f, now), NEW side \in Sides, NEW m \in RewardMarkets,
         NEW s \in CTokenStorage, validSnapshots(s), wellShared(s),
         f.compState[side][m].index >= compInitialIndex
  PROVE  LET sum == SumFunctionOnSet([h \in Holders |-> pending(f, side, m, s, now, h)], Holders)
         IN  sum \in Nat /\ doubleScale * sum <= sidePromised(f, side, m, s, now)
<1> DEFINE g == updateCompIndex(f, side, m, s, now)
           P == [h \in Holders |-> pending(f, side, m, s, now, h)]
           G == [h \in Holders |-> due(g, side, m, s, h)]
           sum == SumFunctionOnSet(P, Holders)
<1>1. /\ wellKept(g, now) /\ g.compState[side][m] = updatedIndex(f, side, m, s, now)
      /\ \A h \in Holders : g.accountIndex[side][m][h] = f.accountIndex[side][m][h]
  BY UpdateFields DEF sameButStates
<1> HIDE DEF g
<1>2. sidePromised(g, side, m, s, now) <= sidePromised(f, side, m, s, now)
  <2>1. sharesSum(side, s) <= totalShares(side, s)
    BY DEF wellShared
  <2> QED  BY <1>1, <2>1, UpdatePromises
<1>3. \A h \in Holders : P[h] \in Nat /\ P[h] \in Int
  BY PendingNat
<1>4. \A h \in Holders : G[h] \in Nat
  BY <1>1, DueNat
<1>5. \A h \in Holders : doubleScale * P[h] <= G[h]
  <2> SUFFICES ASSUME NEW h \in Holders
               PROVE  doubleScale * pending(f, side, m, s, now, h) <= due(g, side, m, s, h)
    OBVIOUS
  <2> DEFINE d == due(g, side, m, s, h)
             p == pending(f, side, m, s, now, h)
  <2>1. p = d \div doubleScale
    BY <1>1 DEF pending, earned, due, lead
  <2>2. d \in Nat
    BY <1>4
  <2> HIDE DEF p, d
  <2>3. d \div doubleScale \in Nat /\ (d \div doubleScale) * doubleScale <= d
    BY <2>2, DoubleScaleNat, QuotientBounds
  <2>4. p \in Nat /\ p * doubleScale <= d
    BY <2>1, <2>3
  <2>5. p * doubleScale = doubleScale * p
    BY <2>4, DoubleScaleNat
  <2> QED  BY <2>4, <2>5 DEF p, d
<1>6. unpaid(g, side, m, s) = SumFunctionOnSet(G, Holders)
  BY DEF unpaid
<1> DEFINE X == [h \in Holders |-> doubleScale * P[h]]
<1> HIDE DEF P, G
<1>7. \A h \in Holders : X[h] = doubleScale * P[h] /\ X[h] \in Nat /\ G[h] \in Nat /\ G[h] >= X[h]
  BY <1>3, <1>4, <1>5, DoubleScaleNat
<1> HIDE DEF X
<1>8. SumFunctionOnSet(X, Holders) <= SumFunctionOnSet(G, Holders)
  BY <1>7, HoldersFinite, SumGrows
<1>9. SumFunctionOnSet(X, Holders) = doubleScale * sum
  <2>1. doubleScale \in Int
    BY DoubleScaleNat
  <2> QED  BY <1>3, <1>7, <2>1, HoldersFinite, SumScaled
<1>10. sum \in Nat
  BY <1>3, HoldersFinite, SumNat
<1> HIDE DEF sum
<1>11. doubleScale * sum \in Nat
  BY <1>10, DoubleScaleNat
<1>12. /\ unpaid(g, side, m, s) \in Nat /\ unshared(g, side, m, now) \in Nat
       /\ sidePromised(f, side, m, s, now) \in Nat
  BY <1>1, DueNat
<1>13. doubleScale * sum <= sidePromised(f, side, m, s, now)
  BY <1>2, <1>6, <1>8, <1>9, <1>11, <1>12 DEF sidePromised
<1> QED  BY <1>10, <1>13 DEF sum, P

\* So is what they would get in the whole market,
LEMMA MarketPendingPromised ==
  ASSUME NEW now \in Nat, NEW f, wellKept(f, now), NEW m \in RewardMarkets,
         NEW s \in CTokenStorage, validSnapshots(s), wellShared(s),
         \A side \in Sides : f.compState[side][m].index >= compInitialIndex
  PROVE  LET sum == SumFunctionOnSet([h \in Holders |-> marketPending(f, m, s, now, h)], Holders)
         IN  sum \in Nat /\ doubleScale * sum <= marketPromised(f, m, s, now)
<1> DEFINE Q == [h \in Holders |-> pending(f, "supply", m, s, now, h)]
           R == [h \in Holders |-> pending(f, "borrow", m, s, now, h)]
           P == [h \in Holders |-> marketPending(f, m, s, now, h)]
<1>0. "supply" \in Sides /\ "borrow" \in Sides
  BY DEF Sides
<1>1. \A h \in Holders : Q[h] \in Int /\ R[h] \in Int
  BY <1>0, PendingNat
<1>2. \A h \in Holders : P[h] = Q[h] + R[h]
  BY DEF marketPending
<1>3. /\ SumFunctionOnSet(Q, Holders) \in Nat
      /\ doubleScale * SumFunctionOnSet(Q, Holders) <= sidePromised(f, "supply", m, s, now)
  BY <1>0, PendingPromised
<1>4. /\ SumFunctionOnSet(R, Holders) \in Nat
      /\ doubleScale * SumFunctionOnSet(R, Holders) <= sidePromised(f, "borrow", m, s, now)
  BY <1>0, PendingPromised
<1>5. sidePromised(f, "supply", m, s, now) \in Nat /\ sidePromised(f, "borrow", m, s, now) \in Nat
  BY <1>0, DueNat
<1> HIDE DEF Q, R, P
<1>6. SumFunctionOnSet(P, Holders) = SumFunctionOnSet(Q, Holders) + SumFunctionOnSet(R, Holders)
  BY <1>1, <1>2, HoldersFinite, SumOfSums
<1> DEFINE q == SumFunctionOnSet(Q, Holders)
           r == SumFunctionOnSet(R, Holders)
           p == SumFunctionOnSet(P, Holders)
<1>7. p = q + r /\ q \in Nat /\ r \in Nat
  BY <1>3, <1>4, <1>6
<1>8. /\ doubleScale * q <= sidePromised(f, "supply", m, s, now)
      /\ doubleScale * r <= sidePromised(f, "borrow", m, s, now)
  BY <1>3, <1>4
<1> HIDE DEF p, q, r
<1>9. doubleScale * p = doubleScale * q + doubleScale * r
  BY <1>7, DoubleScaleNat
<1>10. doubleScale * q \in Nat /\ doubleScale * r \in Nat
  BY <1>7, DoubleScaleNat
<1>11. p \in Nat /\ doubleScale * p <= marketPromised(f, m, s, now)
  BY <1>5, <1>7, <1>8, <1>9, <1>10 DEF marketPromised
<1> QED  BY <1>11 DEF p, P

\* and altogether.
LEMMA WorthPromised ==
  ASSUME NEW now \in Nat, NEW f, wellKept(f, now), NEW ct, wellStored(ct),
         NEW L \in SUBSET RewardMarkets,
         \A m \in L : wellShared(ct[m])
                      /\ \A side \in Sides : f.compState[side][m].index >= compInitialIndex
  PROVE  LET sum == SumFunctionOnSet([h \in Holders |-> worth(f, ct, now, L, h)], Holders)
         IN  sum \in Nat /\ doubleScale * sum <= promised(f, ct, now)
<1> DEFINE mp == [h \in Holders |-> [m \in L |-> marketPending(f, m, ct[m], now, h)]]
           C  == [h \in Holders |-> credit(f, now, h)]
           M  == [h \in Holders |-> SumFunctionOnSet([m \in L |-> mp[h][m]], L)]
           K  == [m \in L |-> SumFunctionOnSet([h \in Holders |-> mp[h][m]], Holders)]
           O  == [m \in RewardMarkets |-> marketPromised(f, m, ct[m], now)]
           P  == [h \in Holders |-> worth(f, ct, now, L, h)]
<1>0. IsFiniteSet(L)
  BY CompFlywheelAssumption, FS_Subset
<1>s. \A m \in L : /\ m \in RewardMarkets /\ ct[m] \in CTokenStorage /\ validSnapshots(ct[m])
                   /\ wellShared(ct[m])
                   /\ \A side \in Sides : f.compState[side][m].index >= compInitialIndex
  BY DEF wellStored
<1>1. \A h \in Holders, m \in L : mp[h][m] \in Nat
  <2> SUFFICES ASSUME NEW h \in Holders, NEW m \in L
               PROVE  marketPending(f, m, ct[m], now, h) \in Nat
    OBVIOUS
  <2>1. "supply" \in Sides /\ "borrow" \in Sides
    BY DEF Sides
  <2>2. /\ pending(f, "supply", m, ct[m], now, h) \in Nat
        /\ pending(f, "borrow", m, ct[m], now, h) \in Nat
    BY <1>s, <2>1, PendingNat
  <2> QED  BY <2>2 DEF marketPending
<1>2. \A m \in L : K[m] \in Nat /\ doubleScale * K[m] <= O[m] /\ O[m] \in Nat
  <2> SUFFICES ASSUME NEW m \in L
               PROVE  K[m] \in Nat /\ doubleScale * K[m] <= O[m] /\ O[m] \in Nat
    OBVIOUS
  <2>1. [h \in Holders |-> mp[h][m]] = [h \in Holders |-> marketPending(f, m, ct[m], now, h)]
    OBVIOUS
  <2>2. K[m] = SumFunctionOnSet([h \in Holders |-> marketPending(f, m, ct[m], now, h)], Holders)
    BY <2>1
  <2>3. O[m] = marketPromised(f, m, ct[m], now) /\ O[m] \in Nat
    BY <1>s, PromisedNat
  <2>4. LET sum == SumFunctionOnSet([h \in Holders |-> marketPending(f, m, ct[m], now, h)], Holders)
        IN  sum \in Nat /\ doubleScale * sum <= marketPromised(f, m, ct[m], now)
    BY <1>s, MarketPendingPromised
  <2> QED  BY <2>2, <2>3, <2>4
<1>3. \A h \in Holders : C[h] \in Int /\ M[h] \in Int /\ P[h] = C[h] + M[h]
  <2> SUFFICES ASSUME NEW h \in Holders PROVE C[h] \in Int /\ M[h] \in Int /\ P[h] = C[h] + M[h]
    OBVIOUS
  <2>1. C[h] = credit(f, now, h) /\ C[h] \in Int
    BY CreditsNat
  <2>2. M[h] \in Int
    <3> DEFINE e == [m \in L |-> mp[h][m]]
    <3>1. \A m \in L : e[m] \in Int
      BY <1>1
    <3> HIDE DEF e
    <3>2. SumFunctionOnSet(e, L) \in Int
      BY <1>0, <3>1, SumType
    <3> QED  BY <3>2 DEF e
  <2>3. M[h] = SumFunctionOnSet([m \in L |-> marketPending(f, m, ct[m], now, h)], L)
    <3>1. [m \in L |-> mp[h][m]] = [m \in L |-> marketPending(f, m, ct[m], now, h)]
      OBVIOUS
    <3> QED  BY <3>1
  <2>4. P[h] = f.compAccrued[h] + (now - f.lastContributorBlock[h]) * f.contributorSpeed[h] + M[h]
    BY <2>3 DEF worth
  <2> QED  BY <2>1, <2>2, <2>4 DEF credit
<1>4. SumFunctionOnSet(M, Holders) = SumFunctionOnSet(K, L)
  <2>1. \A h \in Holders, m \in L : mp[h][m] \in Int
    BY <1>1
  <2> HIDE DEF mp
  <2> QED  BY <1>0, <2>1, HoldersFinite, SumSwap
<1>5. /\ credits(f, now) = SumFunctionOnSet(C, Holders)
      /\ marketsPromised(f, ct, now) = SumFunctionOnSet(O, RewardMarkets)
  BY DEF credits, marketsPromised
<1>6. \A m \in RewardMarkets : O[m] \in Nat
  BY PromisedNat
<1> DEFINE X == [m \in L |-> doubleScale * K[m]]
<1> HIDE DEF mp, C, M, K, O, P
<1>7. \A m \in L : X[m] = doubleScale * K[m] /\ X[m] \in Nat /\ O[m] \in Nat /\ O[m] >= X[m]
  BY <1>2, DoubleScaleNat
<1> HIDE DEF X
<1> DEFINE c == SumFunctionOnSet(C, Holders)
           k == SumFunctionOnSet(K, L)
           o == SumFunctionOnSet(O, RewardMarkets)
           p == SumFunctionOnSet(P, Holders)
<1>8. p = c + k
  BY <1>3, <1>4, HoldersFinite, SumOfSums
<1>9. SumFunctionOnSet(X, L) <= SumFunctionOnSet(O, L)
  BY <1>0, <1>7, SumGrows
<1>10. SumFunctionOnSet(X, L) = doubleScale * k
  <2>1. doubleScale \in Int /\ \A m \in L : K[m] \in Int
    BY <1>2, DoubleScaleNat
  <2> QED  BY <1>0, <1>7, <2>1, SumScaled
<1>11. SumFunctionOnSet(O, L) <= o
  BY <1>6, CompFlywheelAssumption, SumPart
<1>12. c \in Nat /\ o \in Nat /\ doubleScale * c \in Nat
  BY <1>5, CreditsNat, PromisedNat
<1>13. k \in Nat /\ SumFunctionOnSet(O, L) \in Nat
  BY <1>0, <1>2, <1>7, SumNat
<1> HIDE DEF c, k, o, p
<1>14. doubleScale * k \in Nat
  BY <1>13, DoubleScaleNat
<1>15. doubleScale * p = doubleScale * c + doubleScale * k
  BY <1>8, <1>12, <1>13, DoubleScaleNat
<1>16. promised(f, ct, now) = doubleScale * c + o
  BY <1>5 DEF promised, c, o
<1>17. p \in Nat /\ doubleScale * p <= promised(f, ct, now)
  BY <1>8, <1>9, <1>10, <1>11, <1>12, <1>13, <1>14, <1>15, <1>16
<1> QED  BY <1>17 DEF p, P

\* What accounts are credited depends on their records.
LEMMA CreditsDepend ==
  ASSUME NEW f, NEW g, NEW now, g.compAccrued = f.compAccrued,
         g.contributorSpeed = f.contributorSpeed,
         g.lastContributorBlock = f.lastContributorBlock
  PROVE  credits(g, now) = credits(f, now)
<1>1. \A h \in Holders : credit(g, now, h) = credit(f, now, h)
  BY DEF credit
<1>2. [h \in Holders |-> credit(g, now, h)] = [h \in Holders |-> credit(f, now, h)]
  BY <1>1
<1> QED  BY <1>2 DEF credits

\* A distribution promises nothing new,
LEMMA DistributePromisesNoMore ==
  ASSUME NEW now \in Nat, NEW f, wellKept(f, now), NEW side \in Sides, NEW m \in RewardMarkets,
         NEW s \in CTokenStorage, validSnapshots(s), NEW ct, wellStored(ct),
         \A h \in Holders : shares(side, s, h) = shares(side, ct[m], h), NEW a \in Holders,
         NEW g, g = distributeComp(f, side, m, s, a)
  PROVE  wellKept(g, now) /\ promised(g, ct, now) <= promised(f, ct, now)
<1>1. distributed(f, g, now, side, m, s, a)
  BY DistributeFields
<1>2. wellKept(g, now)
  BY <1>1 DEF distributed
<1>3. /\ doubleScale * credits(g, now) + sidePromised(g, side, m, s, now)
           <= doubleScale * credits(f, now) + sidePromised(f, side, m, s, now)
      /\ \A d \in Sides, k \in RewardMarkets : d # side \/ k # m =>
            \A t : sidePromised(g, d, k, t, now) = sidePromised(f, d, k, t, now)
  BY <1>1, DistributePromises
<1>4. /\ sidePromised(g, side, m, s, now) = sidePromised(g, side, m, ct[m], now)
      /\ sidePromised(f, side, m, s, now) = sidePromised(f, side, m, ct[m], now)
  BY SideOfShares
<1>5. doubleScale * credits(g, now) + sidePromised(g, side, m, ct[m], now)
        <= doubleScale * credits(f, now) + sidePromised(f, side, m, ct[m], now)
  BY <1>3, <1>4
<1>6. \A d \in Sides, k \in RewardMarkets :
        d # side \/ k # m => sidePromised(g, d, k, ct[k], now) = sidePromised(f, d, k, ct[k], now)
  BY <1>3
<1> QED  BY <1>2, <1>5, <1>6, PromisedAtOne

\* and neither does a hook.
LEMMA SpinPromisesNoMore ==
  ASSUME NEW now \in Nat, NEW f, wellKept(f, now), NEW side \in Sides, NEW m \in RewardMarkets,
         NEW s \in CTokenStorage, validSnapshots(s), NEW ct, wellStored(ct),
         \A h \in Holders : shares(side, s, h) = shares(side, ct[m], h),
         sharesSum(side, s) <= totalShares(side, s),
         f.compState[side][m].index >= compInitialIndex, NEW a \in Holders,
         NEW g, g = spin(f, side, m, s, now, a)
  PROVE  wellKept(g, now) /\ promised(g, ct, now) <= promised(f, ct, now)
<1> DEFINE u == updateCompIndex(f, side, m, s, now)
<1>1. /\ sameButStates(f, u) /\ wellKept(u, now)
      /\ u.compState[side][m] = updatedIndex(f, side, m, s, now)
      /\ \A d \in Sides, k \in RewardMarkets :
            d # side \/ k # m => u.compState[d][k] = f.compState[d][k]
  BY UpdateFields
<1>2. g = distributeComp(u, side, m, s, a)
  BY DEF spin
<1> HIDE DEF u
<1>3. u.accountIndex = f.accountIndex /\ credits(u, now) = credits(f, now)
  BY <1>1, CreditsDepend DEF sameButStates
<1>4. \A d \in Sides, k \in RewardMarkets : marketSpeed(u, d, k) = marketSpeed(f, d, k)
  BY <1>1, SpeedDepends DEF sameButStates
<1>5. sidePromised(u, side, m, s, now) <= sidePromised(f, side, m, s, now)
  BY <1>1, <1>3, UpdatePromises
<1>6. /\ sidePromised(u, side, m, s, now) = sidePromised(u, side, m, ct[m], now)
      /\ sidePromised(f, side, m, s, now) = sidePromised(f, side, m, ct[m], now)
  BY SideOfShares
<1>7. doubleScale * credits(u, now) + sidePromised(u, side, m, ct[m], now)
        <= doubleScale * credits(f, now) + sidePromised(f, side, m, ct[m], now)
  <2>1. ct[m] \in CTokenStorage /\ validSnapshots(ct[m])
    BY DEF wellStored
  <2>2. /\ doubleScale * credits(f, now) \in Nat
        /\ sidePromised(u, side, m, ct[m], now) \in Nat
        /\ sidePromised(f, side, m, ct[m], now) \in Nat
    BY <1>1, <2>1, PromisedNat, DueNat
  <2> QED  BY <1>3, <1>5, <1>6, <2>2
<1>8. ASSUME NEW d \in Sides, NEW k \in RewardMarkets, d # side \/ k # m
      PROVE  sidePromised(u, d, k, ct[k], now) = sidePromised(f, d, k, ct[k], now)
  <2>1. u.compState[d][k] = f.compState[d][k]
    BY <1>1, <1>8
  <2> QED  BY <1>3, <1>4, <2>1, SideDepends
<1>9. promised(u, ct, now) <= promised(f, ct, now)
  BY <1>1, <1>7, <1>8, PromisedAtOne
<1>10. wellKept(g, now) /\ promised(g, ct, now) <= promised(u, ct, now)
  BY <1>1, <1>2, DistributePromisesNoMore
<1>11. promised(g, ct, now) \in Nat /\ promised(u, ct, now) \in Nat /\ promised(f, ct, now) \in Nat
  BY <1>1, <1>10, PromisedNat
<1> QED  BY <1>9, <1>10, <1>11

\* What one side has promised is the same for a market that was settled, if
\* no interest changed the shares of debts.
LEMMA SettledSide ==
  ASSUME NEW now \in Nat, NEW f, wellKept(f, now), NEW side \in Sides, NEW m \in RewardMarkets,
         NEW s \in CTokenStorage, validSnapshots(s), NEW t \in CTokenStorage, validSnapshots(t),
         NEW A \in SUBSET Holders, \A h \in A : served(f, side, m, now, h),
         \A h \in Holders \ A : shares(side, t, h) = shares(side, s, h)
  PROVE  sidePromised(f, side, m, t, now) = sidePromised(f, side, m, s, now)
<1>1. ASSUME NEW h \in Holders PROVE due(f, side, m, t, h) = due(f, side, m, s, h)
  <2>1. CASE h \in A
    <3> DEFINE i == f.compState[side][m].index
               p == f.accountIndex[side][m][h]
               n == shares(side, s, h)
               k == shares(side, t, h)
    <3>1. p = i /\ i \in Nat /\ p \in Nat /\ n \in Nat /\ k \in Nat
      BY <2>1, IndexesNat, SharesNat DEF served
    <3>2. due(f, side, m, t, h) = k * lead(i, p) /\ due(f, side, m, s, h) = n * lead(i, p)
      BY DEF due
    <3> HIDE DEF i, p, n, k
    <3>3. lead(i, p) = 0
      <4>1. p <= i
        BY <3>1
      <4> QED  BY <3>1, <4>1, LeadNat
    <3> QED  BY <3>1, <3>2, <3>3
  <2>2. CASE h \notin A
    <3>1. shares(side, t, h) = shares(side, s, h)
      BY <2>2
    <3> QED  BY <3>1 DEF due
  <2> QED  BY <2>1, <2>2
<1>2. [h \in Holders |-> due(f, side, m, t, h)] = [h \in Holders |-> due(f, side, m, s, h)]
  BY <1>1
<1> QED  BY <1>2 DEF sidePromised, unpaid

LEMMA SettledPromises ==
  ASSUME IndInv, IndInv', RewardsStarted, NEW f, wellKept(f, block), NEW k \in Markets,
         Settled(k, f), ctoken[k].borrowIndex = expScale, ctoken'[k].borrowIndex = expScale
  PROVE  marketPromised(f, k, ctoken'[k], block) = marketPromised(f, k, ctoken[k], block)
<1> DEFINE c == ctoken[k]
           t == ctoken'[k]
<1>0. /\ block \in Nat /\ k \in RewardMarkets /\ "supply" \in Sides /\ "borrow" \in Sides
      /\ c \in CTokenStorage /\ validSnapshots(c) /\ c.borrowIndex >= expScale
      /\ t \in CTokenStorage /\ validSnapshots(t)
  <2>1. c \in CTokenStorage /\ validSnapshots(c)
    BY MarketsSound DEF validMarket
  <2>2. t \in CTokenStorage /\ validSnapshots(t)
    BY NextMarket DEF IndInv, SnapshotsArePast
  <2> QED  BY <2>1, <2>2, RewardConstants DEF RewardsStarted, IndInv, TypeOK, Sides
<1>1. PICK s \in CTokenStorage, A \in SUBSET Holders, B \in SUBSET Holders :
         /\ Start(k, s) /\ moved(s, t, A, B)
         /\ servedAll(f, "supply", k, A) /\ servedAll(f, "borrow", k, B)
  BY DEF Settled
<1>2. s.accountTokens = c.accountTokens /\ s.accountBorrows = c.accountBorrows
  BY <1>0, <1>1, StartFields
<1>3. t.borrowIndex = c.borrowIndex
  OBVIOUS
<1> HIDE DEF c, t
<1>4. sidePromised(f, "supply", k, t, block) = sidePromised(f, "supply", k, c, block)
  <2>1. \A h \in A : served(f, "supply", k, block, h)
    BY <1>1 DEF servedAll
  <2>2. \A h \in Holders \ A : shares("supply", t, h) = shares("supply", c, h)
    BY <1>1, <1>2 DEF moved, shares
  <2> QED  BY <1>0, <2>1, <2>2, SettledSide
<1>5. sidePromised(f, "borrow", k, t, block) = sidePromised(f, "borrow", k, c, block)
  <2>1. \A h \in B : served(f, "borrow", k, block, h)
    BY <1>1 DEF servedAll
  <2>2. \A h \in Holders \ B : shares("borrow", t, h) = shares("borrow", c, h)
    BY <1>1, <1>2, <1>3 DEF moved, shares, borrowBalanceStored
  <2> QED  BY <1>0, <2>1, <2>2, SettledSide
<1> QED  BY <1>4, <1>5 DEF marketPromised, c, t
-----------------------------------------------------------------------------
(* What a whole transaction leaves *)

\* What h would be owed, as a function of the flywheel
Worth(f, h) == worth(f, ctoken, block, listedMarkets, h)

\* RewardsNeverShrink for one account, in terms of worth
Kept(h) ==
  \/ Worth(flywheel, h)' + compBalance'[h] >= Worth(flywheel, h) + compBalance[h]
  \/ \E m \in Markets : /\ ctoken[m].accountBorrows[h].principal > 0
                        /\ ctoken'[m].borrowIndex # ctoken[m].borrowIndex

\* Market m is the same for f and g.
sameMarket(f, g, m) ==
  f.compWeight[m] = g.compWeight[m] /\ \A side \in Sides : f.compState[side][m] = g.compState[side][m]

\* No market has had interest, before or by the transaction, and each shares
\* out no more than it has.
NoInterest ==
  \A k \in Markets : /\ ctoken[k].borrowIndex = expScale /\ ctoken'[k].borrowIndex = expScale
                     /\ wellShared(ctoken[k])

\* The flywheel f comes from hooks of the transaction.
Hooked(f) ==
  /\ wellKept(f, block) /\ notBehind(flywheel, f)
  /\ \A m \in Markets : ~isListed(m) => sameMarket(f, flywheel, m)
  /\ \A h \in Holders : (\A k \in Markets : Undisturbed(k, h)) => Worth(f, h) = Worth(flywheel, h)
  /\ NoInterest => promised(f, ctoken, block) <= promised(flywheel, ctoken, block)

\* A transaction that goes through the hooks and ends with the flywheel f
HookTurn(f) ==
  /\ flywheel' = f /\ Hooked(f)
  /\ block' = block /\ UNCHANGED compVars /\ listedMarkets' = listedMarkets
  /\ \A k \in Markets : Settled(k, f)

\* The book of markets is well stored.
LEMMA BookWellStored ==
  ASSUME IndInv
  PROVE  wellStored(ctoken) /\ block \in Nat /\ listedMarkets \in SUBSET RewardMarkets
<1>1. \A m \in Markets : ctoken[m] \in CTokenStorage /\ validSnapshots(ctoken[m])
  BY MarketsSound DEF validMarket
<1> QED  BY <1>1, RewardConstants DEF wellStored, IndInv, TypeOK, listedMarkets

\* It stays so.
LEMMA StoredNext ==
  ASSUME IndInv'
  PROVE  wellStored(ctoken)'
<1>1. \A m \in Markets : ctoken'[m] \in CTokenStorage /\ validSnapshots(ctoken'[m])
  BY NextMarket DEF IndInv, SnapshotsArePast
<1>2. \A m \in RewardMarkets : ctoken'[m] \in CTokenStorage /\ validSnapshots(ctoken'[m])
  BY <1>1, RewardConstants
<1>3. \A m \in RewardMarkets : (ctoken[m] \in CTokenStorage /\ validSnapshots(ctoken[m]))'
  BY <1>2 DEF validSnapshots, CTokenStorage, BorrowSnapshot
<1> QED  BY <1>3 DEF wellStored

\* What holds of the flywheel and of the listing after a step without one
LEMMA StartedSuffices ==
  ASSUME IndInv, RewardsInv, RewardsStarted, wellKept(flywheel', block'), block' \in Nat,
         notBehind(flywheel, flywheel'), wellKept(flywheel, block),
         listedMarkets' = listedMarkets,
         \A m \in Markets : ~isListed(m) => sameMarket(flywheel', flywheel, m),
         \A k \in Markets : ctoken'[k].borrowIndex >= expScale,
         HoldersHaveIndexes'
  PROVE  RewardsStarted'
<1>1. \A m \in Markets : isListed(m)' <=> isListed(m)
  BY DEF listedMarkets
<1>3. ASSUME NEW m \in Markets, ~isListed(m)' PROVE notStarted(flywheel', m)
  BY <1>1, <1>3 DEF RewardsStarted, notStarted, sameMarket
<1>2. ASSUME NEW m \in Markets, isListed(m)', NEW side \in Sides
      PROVE  flywheel'.compState[side][m].index >= compInitialIndex
  <2>1. m \in RewardMarkets /\ block \in Nat
    BY RewardConstants DEF IndInv, TypeOK
  <2>2. flywheel.compState[side][m].index >= compInitialIndex
    BY <1>1, <1>2 DEF RewardsStarted
  <2>3. /\ flywheel'.compState[side][m].index >= flywheel.compState[side][m].index
        /\ flywheel'.compState[side][m].index \in Nat
        /\ flywheel.compState[side][m].index \in Nat /\ compInitialIndex \in Nat
    BY <2>1, IndexesNat, CompFlywheelAssumption DEF notBehind, compInitialIndex
  <2> QED  BY <2>2, <2>3
<1>4. \A m \in Markets : ~isListed(m)' => notStarted(flywheel, m)'
  BY <1>3 DEF notStarted
<1> QED  BY <1>2, <1>4 DEF RewardsStarted

\* A hook leaves everybody an index and what was due.
LEMMA HookKeeps ==
  ASSUME IndInv, IndInv', RewardsInv, RewardsInv', RewardsStarted, NEW f, HookTurn(f)
  PROVE  RewardsStarted' /\ \A h \in Accounts : Kept(h)
<1>1. /\ flywheel' = f /\ wellKept(f, block) /\ notBehind(flywheel, f)
      /\ \A m \in Markets : ~isListed(m) => sameMarket(f, flywheel, m)
      /\ block' = block /\ UNCHANGED compVars /\ listedMarkets' = listedMarkets
      /\ \A k \in Markets : Settled(k, f)
      /\ \A h \in Holders :
            (\A k \in Markets : Undisturbed(k, h)) => Worth(f, h) = Worth(flywheel, h)
  BY DEF HookTurn, Hooked
<1>2. wellStored(ctoken) /\ block \in Nat /\ listedMarkets \in SUBSET RewardMarkets
  BY BookWellStored
<1>3. RewardsStarted'
  <2>1. ASSUME NEW k \in Markets, NEW h \in Holders
        PROVE  /\ ctoken'[k].accountTokens[h] > 0 => f.accountIndex["supply"][k][h] > 0
               /\ ctoken'[k].accountBorrows[h].principal > 0 => f.accountIndex["borrow"][k][h] > 0
               /\ ctoken'[k].borrowIndex >= expScale
    BY <1>1, SettledIndexes
  <2>2. HoldersHaveIndexes'
    BY <1>1, <2>1 DEF HoldersHaveIndexes
  <2>3. \A k \in Markets : ctoken'[k].borrowIndex >= expScale
    <3>1. PICK h \in Holders : TRUE
      BY AccountsAreHolders
    <3> QED  BY <2>1, <3>1
  <2>4. \A m \in Markets : ~isListed(m) => sameMarket(flywheel', flywheel, m)
    BY <1>1
  <2>5. wellKept(flywheel', block') /\ wellKept(flywheel, block) /\ block' \in Nat
    BY <1>1, <1>2, FlywheelKept
  <2> QED  BY <1>1, <2>2, <2>3, <2>4, <2>5, StartedSuffices
<1>4. ASSUME NEW h \in Holders, \A k \in Markets : Undisturbed(k, h)
      PROVE  Worth(flywheel, h)' = Worth(flywheel, h)
  <2>1. \A k \in listedMarkets :
           marketPending(f, k, ctoken'[k], block, h) = marketPending(f, k, ctoken[k], block, h)
    BY <1>1, <1>4, SettledPending DEF listedMarkets
  <2>2. worth(f, ctoken', block, listedMarkets, h) = worth(f, ctoken, block, listedMarkets, h)
    BY <1>2, <2>1, WorthOfBook
  <2>3. Worth(f, h) = Worth(flywheel, h)
    BY <1>1, <1>4
  <2>4. Worth(flywheel, h)' = worth(f, ctoken', block, listedMarkets, h)
    BY <1>1 DEF Worth
  <2> QED  BY <2>2, <2>3, <2>4 DEF Worth
<1>5. ASSUME NEW h \in Accounts PROVE Kept(h)
  <2>0. h \in Holders /\ compBalance'[h] = compBalance[h]
    BY <1>1, AccountsAreHolders DEF compVars
  <2>1. CASE \A k \in Markets : Undisturbed(k, h)
    <3>1. Worth(flywheel, h)' = Worth(flywheel, h)
      BY <1>4, <2>0, <2>1
    <3>2. Worth(flywheel, h) + compBalance[h] >= Worth(flywheel, h) + compBalance[h]
      <4>1. Worth(flywheel, h) \in Nat
        BY <1>2, <2>0, FlywheelKept, WorthNat DEF Worth
      <4>2. compBalance[h] \in Nat
        BY <2>0, RewardConstants DEF RewardsInv, RewardsTypeOK
      <4> QED  BY <4>1, <4>2
    <3> QED  BY <2>0, <3>1, <3>2 DEF Kept
  <2>2. CASE ~ \A k \in Markets : Undisturbed(k, h)
    BY <2>2 DEF Kept, Undisturbed
  <2> QED  BY <2>1, <2>2
<1> QED  BY <1>3, <1>5
-----------------------------------------------------------------------------
(* One hook after another *)

\* Before the first hook
LEMMA HookedFirst ==
  ASSUME IndInv, RewardsInv
  PROVE  Hooked(flywheel)
<1>1. wellKept(flywheel, block) /\ block \in Nat
  BY FlywheelKept, BookWellStored
<1>2. notBehind(flywheel, flywheel)
  BY <1>1, IndexesNat DEF notBehind
<1>3. promised(flywheel, ctoken, block) <= promised(flywheel, ctoken, block)
  BY <1>1, BookWellStored, PromisedNat
<1> QED  BY <1>1, <1>2, <1>3 DEF Hooked, sameMarket

\* The hooks of listed markets find indexes that have started.
LEMMA HookedIndexes ==
  ASSUME IndInv, RewardsInv, RewardsStarted, NEW f, Hooked(f), NEW side \in Sides,
         NEW m \in Markets, isListed(m)
  PROVE  f.compState[side][m].index >= compInitialIndex
<1>1. m \in RewardMarkets /\ block \in Nat /\ wellKept(flywheel, block) /\ wellKept(f, block)
  BY RewardConstants, FlywheelKept, BookWellStored DEF Hooked
<1>2. flywheel.compState[side][m].index >= compInitialIndex
  BY DEF RewardsStarted
<1>3. /\ f.compState[side][m].index >= flywheel.compState[side][m].index
      /\ f.compState[side][m].index \in Nat
      /\ flywheel.compState[side][m].index \in Nat /\ compInitialIndex \in Nat
  BY <1>1, IndexesNat, CompFlywheelAssumption DEF Hooked, notBehind, compInitialIndex
<1> QED  BY <1>2, <1>3

\* A hook that spins the flywheel for one account: the interest it reads is
\* that which the transaction leaves.
LEMMA HookedSpin ==
  ASSUME IndInv, RewardsInv, RewardsStarted, NEW f, Hooked(f), NEW side \in Sides,
         NEW m \in Markets, isListed(m), NEW s \in CTokenStorage, Start(m, s),
         s.borrowIndex = ctoken'[m].borrowIndex \/ s = ctoken[m], NEW a \in Holders,
         NEW g, g = spin(f, side, m, s, block, a)
  PROVE  /\ Hooked(g) /\ servedAll(g, side, m, {a})
         /\ \A d \in Sides, k \in Markets, A \in SUBSET Holders :
               (d # side \/ k # m) /\ servedAll(f, d, k, A) => servedAll(g, d, k, A)
         /\ g.compState[side][m].block = block
<1>1. /\ m \in RewardMarkets /\ m \in listedMarkets /\ RewardMarkets = Markets
      /\ wellStored(ctoken) /\ block \in Nat
      /\ listedMarkets \in SUBSET RewardMarkets /\ wellKept(f, block) /\ wellKept(flywheel, block)
  BY RewardConstants, BookWellStored, FlywheelKept DEF Hooked, listedMarkets
<1>2. /\ validMarket(ctoken[m], block) /\ ctoken[m].borrowIndex >= expScale
      /\ ctoken[m] \in CTokenStorage
  BY MarketsSound DEF RewardsStarted
<1>3. validSnapshots(s)
  BY StartAges DEF validMarket
<1>4. /\ wellKept(g, block) /\ notBehind(f, g)
      /\ g.compWeight = f.compWeight /\ served(g, side, m, block, a)
      /\ \A d \in Sides, k \in RewardMarkets, j \in Holders :
            d # side \/ k # m => /\ g.compState[d][k] = f.compState[d][k]
                                 /\ g.accountIndex[d][k][j] = f.accountIndex[d][k][j]
  BY <1>1, <1>3, SpinServes
<1>5. ASSUME NEW h \in Holders, \A k \in Markets : Undisturbed(k, h)
      PROVE  Worth(g, h) = Worth(flywheel, h)
  <2>1. ctoken[m].accountBorrows[h].principal > 0 => ctoken'[m].borrowIndex = ctoken[m].borrowIndex
    BY <1>5 DEF Undisturbed
  <2>2. agrees(side, s, ctoken[m], h)
    <3>1. CASE s = ctoken[m]
      BY <3>1 DEF agrees
    <3>2. CASE canAccrue(ctoken[m], block) /\ s = accrued(m) /\ s # ctoken[m]
      <4>1. ctoken[m].accountBorrows[h].principal > 0 => s.borrowIndex = ctoken[m].borrowIndex
        BY <2>1, <3>2
      <4>2. s = accrueInterest(ctoken[m], block)
        BY <3>2 DEF accrued
      <4> QED  BY <1>1, <1>2, <3>2, <4>1, <4>2, AccruedAgrees
    <3> QED  BY <3>1, <3>2 DEF Start
  <2>3. keeps(f, g, ctoken, block, listedMarkets, h)
    BY <1>1, <1>3, <2>2, SpinKeepsWorth
  <2>4. Worth(f, h) = Worth(flywheel, h)
    BY <1>5 DEF Hooked
  <2> QED  BY <2>3, <2>4 DEF keeps, Worth
<1>6. notBehind(flywheel, g)
  BY <1>1, <1>4, NotBehindTransitive DEF Hooked
<1>p. ASSUME NoInterest
      PROVE  promised(g, ctoken, block) <= promised(flywheel, ctoken, block)
  <2>1. /\ ctoken[m].borrowIndex = expScale /\ s.borrowIndex = expScale
        /\ sharesSum(side, ctoken[m]) <= totalShares(side, ctoken[m])
    BY <1>p DEF NoInterest, wellShared
  <2>2. /\ s.accountTokens = ctoken[m].accountTokens /\ s.totalSupply = ctoken[m].totalSupply
        /\ s.accountBorrows = ctoken[m].accountBorrows
        /\ s.totalBorrows = ctoken[m].totalBorrows
    BY <1>2, <2>1, StartFields
  <2>3. /\ \A h \in Holders : shares(side, s, h) = shares(side, ctoken[m], h)
        /\ totalShares(side, s) = totalShares(side, ctoken[m])
    BY <2>1, <2>2 DEF shares, totalShares, borrowBalanceStored
  <2>4. sharesSum(side, s) = sharesSum(side, ctoken[m])
    BY <2>3, SideOfShares
  <2>5. f.compState[side][m].index >= compInitialIndex
    BY HookedIndexes
  <2>6. promised(g, ctoken, block) <= promised(f, ctoken, block)
    BY <1>1, <1>3, <2>1, <2>3, <2>4, <2>5, SpinPromisesNoMore
  <2>7. promised(f, ctoken, block) <= promised(flywheel, ctoken, block)
    BY <1>p DEF Hooked
  <2>8. /\ promised(g, ctoken, block) \in Nat /\ promised(f, ctoken, block) \in Nat
        /\ promised(flywheel, ctoken, block) \in Nat
    BY <1>1, <1>4, PromisedNat
  <2> QED  BY <2>6, <2>7, <2>8
<1>7. Hooked(g)
  <2>1. ASSUME NEW k \in Markets, ~isListed(k) PROVE sameMarket(g, flywheel, k)
    <3>1. k # m /\ k \in RewardMarkets /\ sameMarket(f, flywheel, k)
      BY <1>1, <2>1 DEF Hooked
    <3> QED  BY <1>4, <3>1 DEF sameMarket
  <2> QED  BY <1>4, <1>5, <1>6, <1>p, <2>1 DEF Hooked
<1>8. g.compState[side][m].index >= compInitialIndex
  BY <1>7, HookedIndexes
<1>9. servedAll(g, side, m, {a})
  BY <1>4, <1>8 DEF servedAll
<1>10. ASSUME NEW d \in Sides, NEW k \in Markets, NEW A \in SUBSET Holders, d # side \/ k # m,
              servedAll(f, d, k, A)
       PROVE  servedAll(g, d, k, A)
  BY <1>1, <1>4, <1>10 DEF servedAll, served
<1>11. g.compState[side][m].block = block
  BY <1>4 DEF served
<1> QED  BY <1>7, <1>9, <1>10, <1>11

\* The second account of a hook
LEMMA HookedDistribute ==
  ASSUME IndInv, RewardsInv, RewardsStarted, NEW f, Hooked(f), NEW side \in Sides,
         NEW m \in Markets, isListed(m), NEW a \in Holders,
         f.compState[side][m].block = block,
         NEW g, g = distributeComp(f, side, m, ctoken[m], a)
  PROVE  /\ Hooked(g) /\ servedAll(g, side, m, {a})
         /\ \A d \in Sides, k \in Markets, A \in SUBSET Holders :
               servedAll(f, d, k, A) => servedAll(g, d, k, A)
<1>1. /\ m \in RewardMarkets /\ m \in listedMarkets /\ RewardMarkets = Markets
      /\ wellStored(ctoken) /\ block \in Nat
      /\ listedMarkets \in SUBSET RewardMarkets /\ wellKept(f, block) /\ wellKept(flywheel, block)
  BY RewardConstants, BookWellStored, FlywheelKept DEF Hooked, listedMarkets
<1>2. ctoken[m] \in CTokenStorage /\ validSnapshots(ctoken[m])
  BY MarketsSound DEF validMarket
<1>3. /\ wellKept(g, block) /\ notBehind(f, g)
      /\ g.compWeight = f.compWeight /\ g.compState = f.compState
      /\ served(g, side, m, block, a)
      /\ \A j \in Holders : served(f, side, m, block, j) => served(g, side, m, block, j)
      /\ \A d \in Sides, k \in RewardMarkets, j \in Holders :
            d # side \/ k # m => g.accountIndex[d][k][j] = f.accountIndex[d][k][j]
  BY <1>1, <1>2, DistributeServes
<1>4. ASSUME NEW h \in Holders, \A k \in Markets : Undisturbed(k, h)
      PROVE  Worth(g, h) = Worth(flywheel, h)
  <2>1. keeps(f, g, ctoken, block, listedMarkets, h)
    BY <1>1, <1>2, DistributeKeepsWorth
  <2>2. Worth(f, h) = Worth(flywheel, h)
    BY <1>4 DEF Hooked
  <2> QED  BY <2>1, <2>2 DEF keeps, Worth
<1>5. notBehind(flywheel, g)
  BY <1>1, <1>3, NotBehindTransitive DEF Hooked
<1>p. ASSUME NoInterest
      PROVE  promised(g, ctoken, block) <= promised(flywheel, ctoken, block)
  <2>1. promised(g, ctoken, block) <= promised(f, ctoken, block)
    BY <1>1, <1>2, DistributePromisesNoMore
  <2>2. promised(f, ctoken, block) <= promised(flywheel, ctoken, block)
    BY <1>p DEF Hooked
  <2>3. /\ promised(g, ctoken, block) \in Nat /\ promised(f, ctoken, block) \in Nat
        /\ promised(flywheel, ctoken, block) \in Nat
    BY <1>1, <1>3, PromisedNat
  <2> QED  BY <2>1, <2>2, <2>3
<1>6. Hooked(g)
  BY <1>3, <1>4, <1>5, <1>p DEF Hooked, sameMarket
<1>7. g.compState[side][m].index >= compInitialIndex
  BY <1>6, HookedIndexes
<1>8. servedAll(g, side, m, {a})
  BY <1>3, <1>7 DEF servedAll
<1>9. ASSUME NEW d \in Sides, NEW k \in Markets, NEW A \in SUBSET Holders, servedAll(f, d, k, A)
      PROVE  servedAll(g, d, k, A)
  <2>1. CASE d = side /\ k = m
    BY <1>3, <1>9, <2>1 DEF servedAll
  <2>2. CASE d # side \/ k # m
    BY <1>1, <1>3, <1>9, <2>2 DEF servedAll, served
  <2> QED  BY <2>1, <2>2
<1> QED  BY <1>6, <1>8, <1>9

\* A market that nobody touches is settled.
LEMMA UntouchedSettled ==
  ASSUME IndInv, NEW k \in Markets, NEW f, ctoken'[k] = ctoken[k]
  PROVE  Settled(k, f)
<1>1. ctoken[k] \in CTokenStorage
  BY MarketsSound
<1>2. moved(ctoken[k], ctoken'[k], {}, {})
  BY <1>1, NothingMoves
<1>3. Start(k, ctoken[k]) /\ servedAll(f, "supply", k, {}) /\ servedAll(f, "borrow", k, {})
  BY DEF Start, servedAll
<1> QED  BY <1>1, <1>2, <1>3 DEF Settled

\* A transaction of one market settles the others.
LEMMA OneMarketSettles ==
  ASSUME IndInv, NEW m \in Markets, NEW t, NEW f, ctoken' = [ctoken EXCEPT ![m] = t],
         ctoken'[m] = t => Settled(m, f)
  PROVE  \A k \in Markets : Settled(k, f)
<1>1. ctoken \in [Markets -> CTokenStorage]
  BY DEF IndInv, TypeOK
<1>2. ctoken'[m] = t /\ \A k \in Markets \ {m} : ctoken'[k] = ctoken[k]
  BY <1>1
<1>3. ASSUME NEW k \in Markets, ctoken'[k] = ctoken[k] PROVE Settled(k, f)
  BY <1>3, UntouchedSettled
<1> QED  BY <1>2, <1>3
-----------------------------------------------------------------------------
(* One lemma per transaction: its hooks settle what it moves. *)

\* No hook but the listing changes what is listed.
LEMMA SameListing ==
  ASSUME UNCHANGED comptroller
  PROVE  listedMarkets' = listedMarkets
BY DEF listedMarkets, isListed

\* A transaction of one market that moves cTokens or debts of one account,
\* after a hook for that side and account
LEMMA OneAccountHooks ==
  ASSUME IndInv, RewardsInv, RewardsStarted, NEW m \in Markets, NEW a \in Holders,
         NEW side \in Sides, isListed(m), canAccrue(ctoken[m], block),
         NEW t, ctoken' = [ctoken EXCEPT ![m] = t],
         moved(accrued(m), t, IF side = "supply" THEN {a} ELSE {},
                              IF side = "supply" THEN {} ELSE {a}),
         UNCHANGED comptroller, block' = block, Turn(spun(flywheel, side, m, a))
  PROVE  HookTurn(spun(flywheel, side, m, a))
<1> DEFINE s == accrued(m)
           g == spun(flywheel, side, m, a)
           A == IF side = "supply" THEN {a} ELSE {}
           B == IF side = "supply" THEN {} ELSE {a}
<1>1. Start(m, s) /\ s \in CTokenStorage
  BY StartAccrued
<1>2. g = spin(flywheel, side, m, s, block, a)
  BY DEF spun
<1>3. ctoken'[m] = t
  BY DEF IndInv, TypeOK
<1>4. A \in SUBSET Holders /\ B \in SUBSET Holders
  OBVIOUS
<1> HIDE DEF s, g
<1>5. s.borrowIndex = ctoken'[m].borrowIndex
  BY <1>3 DEF moved, s
<1>6. Hooked(g) /\ servedAll(g, side, m, {a})
  BY <1>1, <1>2, <1>5, HookedFirst, HookedSpin
<1>7. servedAll(g, "supply", m, A) /\ servedAll(g, "borrow", m, B)
  <2>1. CASE side = "supply"
    BY <1>6, <2>1 DEF servedAll
  <2>2. CASE side = "borrow"
    BY <1>6, <2>2 DEF servedAll
  <2> QED  BY <2>1, <2>2 DEF Sides
<1>8. moved(s, ctoken'[m], A, B)
  BY <1>3 DEF s
<1> HIDE DEF A, B
<1>9. Settled(m, g)
  BY <1>1, <1>4, <1>7, <1>8 DEF Settled
<1>10. \A k \in Markets : Settled(k, g)
  BY <1>9, OneMarketSettles
<1>11. flywheel' = g /\ UNCHANGED compVars
  BY DEF Turn, g
<1>12. HookTurn(g)
  BY <1>6, <1>10, <1>11, SameListing DEF HookTurn
<1> QED  BY <1>12 DEF g

\* mint, redeem and redeemUnderlying
LEMMA SupplyStepsHook ==
  ASSUME IndInv, RewardsInv, RewardsStarted, NEW m \in Markets, NEW a \in Accounts,
         SupplySteps(m, a)
  PROVE  HookTurn(spun(flywheel, "supply", m, a))
<1>0. a \in Holders /\ "supply" \in Sides
  BY AccountsAreHolders DEF Sides
<1> DEFINE s == accrued(m)
<1>1. Turn(spun(flywheel, "supply", m, a))
  BY DEF SupplySteps
<1>2. /\ canAccrue(ctoken[m], block) /\ isListed(m)
      /\ UNCHANGED comptroller /\ block' = block
  BY DEF SupplySteps, Mint, mintAllowed, Redeem, RedeemUnderlying, RedeemFresh,
         redeemAllowedInternal, comptrollerVars
<1>3. \/ \E x : ctoken' = [ctoken EXCEPT ![m] = mintFresh(s, a, x)]
      \/ \E n, x : ctoken' = [ctoken EXCEPT ![m] = redeemFresh(s, a, n, x)]
  BY DEF SupplySteps, Mint, Redeem, RedeemUnderlying, RedeemFresh
<1>4. s \in CTokenStorage
  BY <1>2, StartAccrued
<1>5. \E t : ctoken' = [ctoken EXCEPT ![m] = t] /\ moved(s, t, {a}, {})
  BY <1>0, <1>3, <1>4, MintMoves, RedeemMoves
<1>6. PICK t : ctoken' = [ctoken EXCEPT ![m] = t] /\ moved(s, t, {a}, {})
  BY <1>5
<1> QED  BY <1>0, <1>1, <1>2, <1>6, OneAccountHooks

\* borrow, repayBorrow and repayBorrowBehalf
LEMMA BorrowStepsHook ==
  ASSUME IndInv, RewardsInv, RewardsStarted, NEW m \in Markets, NEW a \in Accounts,
         BorrowSteps(m, a)
  PROVE  HookTurn(spun(flywheel, "borrow", m, a))
<1>0. a \in Holders /\ "borrow" \in Sides
  BY AccountsAreHolders DEF Sides
<1> DEFINE s == accrued(m)
<1>1. Turn(spun(flywheel, "borrow", m, a))
  BY DEF BorrowSteps
<1>2. /\ canAccrue(ctoken[m], block) /\ isListed(m)
      /\ UNCHANGED comptroller /\ block' = block
  BY DEF BorrowSteps, Borrow, borrowAllowed, RepayBorrow, repayBorrowAllowed, comptrollerVars
<1>3. \/ \E x : ctoken' = [ctoken EXCEPT ![m] = borrowFresh(s, a, x)]
      \/ \E x : ctoken' = [ctoken EXCEPT ![m] = repayBorrowFresh(s, a, x)]
  BY DEF BorrowSteps, Borrow, RepayBorrow
<1>4. s \in CTokenStorage
  BY <1>2, StartAccrued
<1>5. \E t : ctoken' = [ctoken EXCEPT ![m] = t] /\ moved(s, t, {}, {a})
  BY <1>0, <1>3, <1>4, DebtsMove
<1>6. PICK t : ctoken' = [ctoken EXCEPT ![m] = t] /\ moved(s, t, {}, {a})
  BY <1>5
<1> QED  BY <1>0, <1>1, <1>2, <1>6, OneAccountHooks

\* The hook of a transfer or a seizure, for two accounts of the supply side
LEMMA HookedBoth ==
  ASSUME IndInv, RewardsInv, RewardsStarted, NEW f, Hooked(f), NEW m \in Markets, isListed(m),
         NEW src \in Holders, NEW dst \in Holders, NEW g, g = spunForBoth(f, m, src, dst)
  PROVE  /\ Hooked(g) /\ servedAll(g, "supply", m, {src, dst})
         /\ \A k \in Markets, A \in SUBSET Holders :
               servedAll(f, "borrow", k, A) => servedAll(g, "borrow", k, A)
<1> DEFINE u == spin(f, "supply", m, ctoken[m], block, src)
<1>0. "supply" \in Sides /\ "borrow" \in Sides /\ "supply" # "borrow"
  BY DEF Sides
<1>1. ctoken[m] \in CTokenStorage /\ Start(m, ctoken[m])
  BY MarketsSound DEF Start
<1>2. g = distributeComp(u, "supply", m, ctoken[m], dst)
  BY DEF spunForBoth
<1>3. /\ Hooked(u) /\ servedAll(u, "supply", m, {src})
      /\ \A d \in Sides, k \in Markets, A \in SUBSET Holders :
            (d # "supply" \/ k # m) /\ servedAll(f, d, k, A) => servedAll(u, d, k, A)
      /\ u.compState["supply"][m].block = block
  BY <1>0, <1>1, HookedSpin
<1> HIDE DEF u
<1>4. /\ Hooked(g) /\ servedAll(g, "supply", m, {dst})
      /\ \A d \in Sides, k \in Markets, A \in SUBSET Holders :
            servedAll(u, d, k, A) => servedAll(g, d, k, A)
  BY <1>0, <1>2, <1>3, HookedDistribute
<1>5. servedAll(g, "supply", m, {src})
  <2>1. {src} \in SUBSET Holders
    OBVIOUS
  <2> QED  BY <1>0, <1>3, <1>4, <2>1
<1>6. servedAll(g, "supply", m, {src, dst})
  BY <1>4, <1>5 DEF servedAll
<1> QED  BY <1>0, <1>3, <1>4, <1>6

\* transfer and transferFrom
LEMMA TransferStepsHook ==
  ASSUME IndInv, RewardsInv, RewardsStarted, NEW m \in Markets, NEW a \in Accounts,
         TransferSteps(m, a)
  PROVE  \E f : HookTurn(f)
<1>1. PICK tokens \in TransferAmounts, src \in Accounts, dst \in Accounts :
         Transfer(m, a, src, dst, tokens) /\ Turn(spunForBoth(flywheel, m, src, dst))
  BY DEF TransferSteps
<1> DEFINE s == ctoken[m]
           t == transferTokens(s, a, src, dst, tokens)
           g == spunForBoth(flywheel, m, src, dst)
<1>2. /\ ctoken' = [ctoken EXCEPT ![m] = t] /\ UNCHANGED comptroller
      /\ isListed(m) /\ block' = block
  BY <1>1 DEF Transfer, transferAllowed, redeemAllowedInternal, comptrollerVars
<1>3. src \in Holders /\ dst \in Holders /\ {src, dst} \in SUBSET Holders
      /\ s \in CTokenStorage /\ Start(m, s)
  BY AccountsAreHolders, MarketsSound DEF Start
<1>4. moved(s, t, {src, dst}, {})
  BY <1>3, TransferMoves
<1>5. Hooked(g) /\ servedAll(g, "supply", m, {src, dst})
  BY <1>2, <1>3, HookedFirst, HookedBoth
<1>6. servedAll(g, "borrow", m, {})
  BY DEF servedAll
<1>7. flywheel' = g /\ UNCHANGED compVars
  BY <1>1 DEF Turn
<1> HIDE DEF t, g
<1>8. ctoken'[m] = t => Settled(m, g)
  BY <1>3, <1>4, <1>5, <1>6 DEF Settled
<1>9. \A k \in Markets : Settled(k, g)
  BY <1>2, <1>8, OneMarketSettles
<1>10. HookTurn(g)
  BY <1>2, <1>5, <1>7, <1>9, SameListing DEF HookTurn
<1> QED  BY <1>10

\* liquidateBorrow: the debt in m, the cTokens in c, which may be m
LEMMA LiquidationStepsHook ==
  ASSUME IndInv, RewardsInv, RewardsStarted, NEW m \in Markets, NEW a \in Accounts,
         LiquidationSteps(m, a)
  PROVE  \E f : HookTurn(f)
<1>1. PICK amount \in Amounts, liquidator \in Accounts, c \in Markets :
         /\ LiquidateBorrow(m, c, liquidator, a, amount)
         /\ Turn(spunForBoth(spun(flywheel, "borrow", m, a), c, a, liquidator))
  BY DEF LiquidationSteps
<1> DEFINE both   == [ctoken EXCEPT ![m] = accrued(m), ![c] = accrued(c)]
           actual == received(m, amount)
           r      == repayBorrowFresh(both[m], a, actual)
           repaid == [both EXCEPT ![m] = r]
           tokens == liquidateCalculateSeizeTokens(repaid, m, c, actual)
           rate   == seizeRate(repaid, m, c, amount)
           t      == seizeInternal(repaid[c], liquidator, a, tokens, rate)
           u      == spun(flywheel, "borrow", m, a)
           g      == spunForBoth(u, c, a, liquidator)
<1>2. /\ canAccrue(ctoken[m], block) /\ canAccrue(ctoken[c], block)
      /\ canRepay(both[m], a, actual)
      /\ isListed(m) /\ isListed(c) /\ block' = block
      /\ ctoken' = [repaid EXCEPT ![c] = t]
      /\ UNCHANGED comptroller
  BY <1>1 DEF LiquidateBorrow, liquidateBorrowAllowed, comptrollerVars
<1>3. /\ a \in Holders /\ liquidator \in Holders /\ ctoken \in [Markets -> CTokenStorage]
      /\ actual \in Nat /\ block \in Nat
  BY <1>1, AccountsAreHolders, MoneyMarketAssumption, ReceivedNat DEF IndInv, TypeOK
<1>4. /\ both[m] = accrued(m) /\ DOMAIN both = Markets
      /\ \A k \in Markets : both[k] = IF k \in {m, c} THEN accrued(k) ELSE ctoken[k]
  BY <1>3
<1>5. /\ validMarket(accrued(m), block)
      /\ accrued(m) \in CTokenStorage /\ accrued(c) \in CTokenStorage
      /\ Start(m, accrued(m)) /\ Start(c, accrued(c))
  BY <1>2, StartAccrued
<1> HIDE DEF both
<1>6. moved(accrued(m), r, {}, {a})
  BY <1>3, <1>4, <1>5, DebtsMove
<1>7. r \in CTokenStorage
  BY <1>2, <1>3, <1>4, <1>5, RepayValid DEF validMarket
<1>8. \A k \in Markets : repaid[k] = IF k = m THEN r ELSE both[k]
  BY <1>4
<1>9. DOMAIN repaid = Markets
  BY <1>4
<1> HIDE DEF r, repaid
<1>10. repaid[c] \in CTokenStorage
  BY <1>4, <1>5, <1>7, <1>8
<1> HIDE DEF tokens, rate
<1>11. moved(repaid[c], t, {a, liquidator}, {})
  BY <1>3, <1>10, SeizeMoves
<1> HIDE DEF t
<1>12. \A k \in Markets : ctoken'[k] = IF k = c THEN t ELSE repaid[k]
  BY <1>2, <1>9
<1>13. moved(accrued(m), ctoken'[m], IF m = c THEN {a, liquidator} ELSE {}, {a})
  <2>1. CASE m = c
    <3>1. moved(r, t, {a, liquidator}, {}) /\ ctoken'[m] = t
      BY <1>8, <1>11, <1>12, <2>1
    <3>2. moved(accrued(m), t, {} \cup {a, liquidator}, {a} \cup {})
      BY <1>6, <3>1, MovedTwice
    <3>3. {} \cup {a, liquidator} = {a, liquidator} /\ {a} \cup {} = {a}
      OBVIOUS
    <3> QED  BY <2>1, <3>1, <3>2, <3>3
  <2>2. CASE m # c
    BY <1>6, <1>8, <1>12, <2>2
  <2> QED  BY <2>1, <2>2
<1>14. c # m => moved(accrued(c), ctoken'[c], {a, liquidator}, {})
  BY <1>4, <1>8, <1>11, <1>12
<1>15. /\ Hooked(u) /\ servedAll(u, "borrow", m, {a})
  <2>1. u = spin(flywheel, "borrow", m, accrued(m), block, a) /\ "borrow" \in Sides
    BY DEF spun, Sides
  <2>2. accrued(m).borrowIndex = ctoken'[m].borrowIndex
    BY <1>13 DEF moved
  <2> HIDE DEF u
  <2> QED  BY <1>2, <1>3, <1>5, <2>1, <2>2, HookedFirst, HookedSpin
<1> HIDE DEF u
<1>16. /\ Hooked(g) /\ servedAll(g, "supply", c, {a, liquidator})
       /\ servedAll(g, "borrow", m, {a})
  <2>1. {a} \in SUBSET Holders
    BY <1>3
  <2> QED  BY <1>2, <1>3, <1>15, <2>1, HookedBoth
<1>17. flywheel' = g /\ UNCHANGED compVars
  BY <1>1 DEF Turn, g, u
<1> HIDE DEF g
<1>18. Settled(m, g)
  <2> DEFINE A == IF m = c THEN {a, liquidator} ELSE {}
  <2>1. A \in SUBSET Holders /\ {a} \in SUBSET Holders
    BY <1>3
  <2>2. servedAll(g, "supply", m, A)
    BY <1>16 DEF servedAll
  <2>3. moved(accrued(m), ctoken'[m], A, {a})
    BY <1>13
  <2> HIDE DEF A
  <2> QED  BY <1>5, <1>16, <2>1, <2>2, <2>3 DEF Settled
<1>19. c # m => Settled(c, g)
  <2>1. {a, liquidator} \in SUBSET Holders /\ {} \in SUBSET Holders
    BY <1>3
  <2>2. servedAll(g, "borrow", c, {})
    BY DEF servedAll
  <2> QED  BY <1>5, <1>14, <1>16, <2>1, <2>2 DEF Settled
<1>20. ASSUME NEW k \in Markets, k # m, k # c PROVE Settled(k, g)
  <2>1. ctoken'[k] = ctoken[k]
    BY <1>4, <1>8, <1>12, <1>20
  <2> QED  BY <2>1, UntouchedSettled
<1>21. \A k \in Markets : Settled(k, g)
  BY <1>18, <1>19, <1>20
<1>22. HookTurn(g)
  BY <1>2, <1>16, <1>17, <1>21, SameListing DEF HookTurn
<1> QED  BY <1>22
-----------------------------------------------------------------------------
(* The listing, the quiet transactions and a new block *)

\* What initializeMarket writes for a market that has not started
LEMMA InitializeFields ==
  ASSUME NEW now \in Nat, NEW f, wellKept(f, now), NEW m \in RewardMarkets, notStarted(f, m),
         NEW g, g = initializeMarket(f, m, now)
  PROVE  /\ wellKept(g, now) /\ notBehind(f, g) /\ sameContributors(f, g)
         /\ g.compWeight = f.compWeight /\ g.compSpeed = f.compSpeed
         /\ g.accountIndex = f.accountIndex /\ g.compAccrued = f.compAccrued
         /\ \A d \in Sides : g.compState[d][m] = [index |-> compInitialIndex, block |-> now]
         /\ \A d \in Sides, k \in RewardMarkets : k # m => g.compState[d][k] = f.compState[d][k]
<1> DEFINE new == [index |-> compInitialIndex, block |-> now]
           cs == [f.compState EXCEPT !["supply"][m] = new, !["borrow"][m] = new]
           cw == [f.compWeight EXCEPT ![m] = 0]
<1>1. f \in FlywheelStorage
  BY DEF wellKept
<1>2. /\ f.compState \in [Sides -> [RewardMarkets -> CompMarketState]]
      /\ f.compWeight \in [RewardMarkets -> Nat]
  BY <1>1, FlywheelFields
<1>3. /\ f.compWeight[m] = 0 /\ f.compState["supply"][m].index = 0
      /\ f.compState["borrow"][m].index = 0
  BY DEF notStarted, Sides
<1>4. g = [f EXCEPT !.compState = cs, !.compWeight = cw]
  BY <1>1, <1>2, <1>3 DEF initializeMarket, FlywheelStorage, Sides
<1>5. cw = f.compWeight
  BY <1>2, <1>3
<1>6. \A d \in Sides, k \in RewardMarkets : cs[d][k] = IF k = m THEN new ELSE f.compState[d][k]
  BY <1>2 DEF Sides
<1> HIDE DEF cs, cw
<1>7. /\ g.compState = cs /\ g.compWeight = cw
      /\ g.compSpeed = f.compSpeed /\ sameContributors(f, g)
      /\ g.accountIndex = f.accountIndex /\ g.compAccrued = f.compAccrued
  BY <1>1, <1>4 DEF FlywheelStorage, sameContributors
<1>8. wellKept(g, now)
  BY InitializeMarketKeeps
<1>9. /\ \A d \in Sides : g.compState[d][m] = new
      /\ \A d \in Sides, k \in RewardMarkets : k # m => g.compState[d][k] = f.compState[d][k]
  BY <1>6, <1>7
<1>10. notBehind(f, g)
  <2> SUFFICES ASSUME NEW d \in Sides, NEW k \in RewardMarkets
               PROVE  /\ g.compState[d][k].index >= f.compState[d][k].index
                      /\ \A h \in Holders : g.accountIndex[d][k][h] >= f.accountIndex[d][k][h]
    BY DEF notBehind
  <2>1. /\ f.compState[d][k].index \in Nat /\ g.compState[d][k].index \in Nat
        /\ \A h \in Holders : f.accountIndex[d][k][h] \in Nat
    BY <1>8, IndexesNat
  <2>2. k = m => f.compState[d][k].index = 0
    BY DEF notStarted
  <2> QED  BY <1>7, <1>9, <2>1, <2>2
<1> QED  BY <1>5, <1>7, <1>8, <1>9, <1>10

\* _supportMarket leads the flywheel over u, where the market has begun, to g,
\* where the seed has been served; s is the market's storage before the seed.
opens(m, s, u, g) ==
  /\ ~isListed(m) /\ canAccrue(ctoken[m], block)
  /\ comptroller' = [comptroller EXCEPT !.isListed[m] = TRUE, !.collateralFactorMantissa[m] = 0]
  /\ flywheel' = g /\ block' = block /\ UNCHANGED compVars
  /\ s \in CTokenStorage /\ validSnapshots(s) /\ Start(m, s)
  /\ moved(s, ctoken'[m], {ComptrollerAddress}, {})
  /\ \A k \in Markets \ {m} : ctoken'[k] = ctoken[k]
  /\ notStarted(flywheel, m) /\ u = initializeMarket(flywheel, m, block)
  /\ g = spin(u, "supply", m, s, block, ComptrollerAddress)
  /\ wellKept(u, block) /\ notBehind(flywheel, u) /\ sameContributors(flywheel, u)
  /\ u.compWeight = flywheel.compWeight /\ u.compSpeed = flywheel.compSpeed
  /\ u.accountIndex = flywheel.accountIndex /\ u.compAccrued = flywheel.compAccrued
  /\ \A d \in Sides : u.compState[d][m] = [index |-> compInitialIndex, block |-> block]
  /\ \A d \in Sides, k \in RewardMarkets : k # m => u.compState[d][k] = flywheel.compState[d][k]
  /\ wellKept(g, block) /\ notBehind(u, g) /\ sameContributors(u, g)
  /\ g.compWeight = u.compWeight /\ g.compSpeed = u.compSpeed
  /\ \A d \in Sides, k \in RewardMarkets, j \in Holders :
        /\ d # "supply" \/ k # m => /\ g.compState[d][k] = u.compState[d][k]
                                    /\ g.accountIndex[d][k][j] = u.accountIndex[d][k][j]
        /\ j # ComptrollerAddress => g.compAccrued[j] = u.compAccrued[j]
  /\ \A d \in Sides : g.compState[d][m].index >= compInitialIndex
  /\ \A k \in Markets : Settled(k, g)

LEMMA ListingOpens ==
  ASSUME IndInv, RewardsInv, RewardsStarted, NEW m \in Markets, ListingSteps(m)
  PROVE  \E s, u, g : opens(m, s, u, g)
<1> DEFINE u == initializeMarket(flywheel, m, block)
           g == spun(u, "supply", m, ComptrollerAddress)
           s == accrued(m)
<1>0. /\ "supply" \in Sides /\ "borrow" \in Sides /\ RewardMarkets = Markets /\ block \in Nat
      /\ wellKept(flywheel, block) /\ ComptrollerAddress \in Holders
      /\ wellStored(ctoken) /\ {ComptrollerAddress} \in SUBSET Holders
  BY RewardConstants, FlywheelKept, AccountsAreHolders, BookWellStored DEF Sides
<1>1. /\ ~isListed(m) /\ canAccrue(ctoken[m], block) /\ block' = block
      /\ comptroller' = [comptroller EXCEPT !.isListed[m] = TRUE, !.collateralFactorMantissa[m] = 0]
      /\ \E x : ctoken' = [ctoken EXCEPT ![m] = mintFresh(s, ComptrollerAddress, x)]
      /\ flywheel' = g /\ UNCHANGED compVars
  BY DEF ListingSteps, SupportMarket, Turn
<1>2. PICK x : ctoken' = [ctoken EXCEPT ![m] = mintFresh(s, ComptrollerAddress, x)]
  BY <1>1
<1>3. s \in CTokenStorage /\ validSnapshots(s) /\ Start(m, s)
  BY <1>1, StartAccrued DEF validMarket
<1>4. /\ ctoken'[m] = mintFresh(s, ComptrollerAddress, x)
      /\ \A k \in Markets \ {m} : ctoken'[k] = ctoken[k]
  BY <1>2 DEF IndInv, TypeOK
<1>5. moved(s, ctoken'[m], {ComptrollerAddress}, {})
  BY <1>0, <1>3, <1>4, MintMoves
<1>n. notStarted(flywheel, m)
  BY <1>1 DEF RewardsStarted
<1>6. /\ wellKept(u, block) /\ notBehind(flywheel, u) /\ sameContributors(flywheel, u)
      /\ u.compWeight = flywheel.compWeight /\ u.compSpeed = flywheel.compSpeed
      /\ u.accountIndex = flywheel.accountIndex /\ u.compAccrued = flywheel.compAccrued
      /\ \A d \in Sides : u.compState[d][m] = [index |-> compInitialIndex, block |-> block]
      /\ \A d \in Sides, k \in RewardMarkets :
            k # m => u.compState[d][k] = flywheel.compState[d][k]
  BY <1>0, <1>n, InitializeFields
<1>7. g = spin(u, "supply", m, s, block, ComptrollerAddress)
  BY DEF spun
<1>u. u = initializeMarket(flywheel, m, block)
  OBVIOUS
<1> HIDE DEF u, g, s
<1>8. /\ wellKept(g, block) /\ notBehind(u, g) /\ sameContributors(u, g)
      /\ g.compWeight = u.compWeight /\ g.compSpeed = u.compSpeed
      /\ served(g, "supply", m, block, ComptrollerAddress)
      /\ \A d \in Sides, k \in RewardMarkets, j \in Holders :
            /\ d # "supply" \/ k # m => /\ g.compState[d][k] = u.compState[d][k]
                                        /\ g.accountIndex[d][k][j] = u.accountIndex[d][k][j]
            /\ j # ComptrollerAddress => g.compAccrued[j] = u.compAccrued[j]
  <2>1. /\ m \in RewardMarkets /\ wellKept(u, block) /\ s \in CTokenStorage /\ validSnapshots(s)
        /\ "supply" \in Sides /\ ComptrollerAddress \in Holders /\ block \in Nat
    BY <1>0, <1>3, <1>6
  <2> QED  BY <2>1, <1>7, SpinServes
<1>10. \A d \in Sides : g.compState[d][m].index >= compInitialIndex
  <2> SUFFICES ASSUME NEW d \in Sides PROVE g.compState[d][m].index >= compInitialIndex
    OBVIOUS
  <2>1. g.compState[d][m].index >= u.compState[d][m].index
    BY <1>0, <1>8 DEF notBehind
  <2> QED  BY <1>6, <2>1
<1>11. \A k \in Markets : Settled(k, g)
  <2>1. servedAll(g, "supply", m, {ComptrollerAddress}) /\ servedAll(g, "borrow", m, {})
    BY <1>0, <1>8, <1>10 DEF servedAll
  <2>2. Settled(m, g)
    BY <1>0, <1>3, <1>5, <2>1 DEF Settled
  <2> QED  BY <1>4, <2>2, UntouchedSettled
<1>12. opens(m, s, u, g)
  BY <1>1, <1>n, <1>3, <1>4, <1>5, <1>6, <1>7, <1>u, <1>8, <1>10, <1>11 DEF opens
<1> QED  BY <1>12

\* _supportMarket: the new market's terms come in, the others stay.
LEMMA ListingStepsKeep ==
  ASSUME IndInv, IndInv', RewardsInv, RewardsInv', RewardsStarted, NEW m \in Markets,
         ListingSteps(m)
  PROVE  RewardsStarted' /\ \A h \in Accounts : Kept(h)
<1>0. /\ "supply" \in Sides /\ "borrow" \in Sides /\ RewardMarkets = Markets /\ block \in Nat
      /\ wellKept(flywheel, block) /\ ComptrollerAddress \in Holders
      /\ wellStored(ctoken) /\ listedMarkets \in SUBSET RewardMarkets
  BY RewardConstants, FlywheelKept, AccountsAreHolders, BookWellStored DEF Sides
<1>1. PICK s, u, g : opens(m, s, u, g)
  BY ListingOpens
<1>2. /\ ~isListed(m) /\ block' = block /\ flywheel' = g /\ UNCHANGED compVars
      /\ comptroller' = [comptroller EXCEPT !.isListed[m] = TRUE, !.collateralFactorMantissa[m] = 0]
      /\ \A k \in Markets \ {m} : ctoken'[k] = ctoken[k]
  BY <1>1 DEF opens
<1>3. /\ wellKept(u, block) /\ notBehind(flywheel, u) /\ sameContributors(flywheel, u)
      /\ u.compWeight = flywheel.compWeight /\ u.compSpeed = flywheel.compSpeed
      /\ u.accountIndex = flywheel.accountIndex /\ u.compAccrued = flywheel.compAccrued
      /\ \A d \in Sides, k \in RewardMarkets :
            k # m => u.compState[d][k] = flywheel.compState[d][k]
  BY <1>1 DEF opens
<1>4. /\ wellKept(g, block) /\ notBehind(u, g) /\ sameContributors(u, g)
      /\ g.compWeight = u.compWeight /\ g.compSpeed = u.compSpeed
      /\ \A d \in Sides, k \in RewardMarkets, j \in Holders :
            /\ d # "supply" \/ k # m => /\ g.compState[d][k] = u.compState[d][k]
                                        /\ g.accountIndex[d][k][j] = u.accountIndex[d][k][j]
            /\ j # ComptrollerAddress => g.compAccrued[j] = u.compAccrued[j]
  BY <1>1 DEF opens
<1>5. notBehind(flywheel, g)
  BY <1>0, <1>3, <1>4, NotBehindTransitive
<1>6. /\ \A d \in Sides : g.compState[d][m].index >= compInitialIndex
      /\ \A k \in Markets : Settled(k, g)
  BY <1>1 DEF opens
<1>7. ASSUME NEW k \in Markets, NEW h \in Holders
       PROVE  /\ ctoken'[k].accountTokens[h] > 0 => g.accountIndex["supply"][k][h] > 0
              /\ ctoken'[k].accountBorrows[h].principal > 0 => g.accountIndex["borrow"][k][h] > 0
              /\ ctoken'[k].borrowIndex >= expScale
  BY <1>4, <1>5, <1>6, SettledIndexes
<1>8. \A k \in Markets : isListed(k)' <=> (k = m \/ isListed(k))
  BY <1>2 DEF isListed, IndInv, TypeOK, ComptrollerTypeOK, ComptrollerStorage
<1>9. RewardsStarted'
  <2>1. HoldersHaveIndexes'
    BY <1>2, <1>7 DEF HoldersHaveIndexes
  <2>2. ASSUME NEW k \in Markets, isListed(k)', NEW d \in Sides
        PROVE  g.compState[d][k].index >= compInitialIndex
    <3>1. CASE k = m
      BY <1>6, <3>1
    <3>2. CASE k # m
      <4>1. isListed(k) /\ g.compState[d][k] = flywheel.compState[d][k]
        BY <1>0, <1>3, <1>4, <1>8, <2>2, <3>2
      <4> QED  BY <4>1 DEF RewardsStarted
    <3> QED  BY <3>1, <3>2
  <2>3. ASSUME NEW k \in Markets, ~isListed(k)' PROVE notStarted(flywheel', k)
    <3>1. k # m /\ ~isListed(k)
      BY <1>8, <2>3
    <3>2. notStarted(flywheel, k)
      BY <3>1 DEF RewardsStarted
    <3>3. g.compWeight[k] = flywheel.compWeight[k]
      BY <1>3, <1>4
    <3>4. \A d \in Sides : g.compState[d][k] = flywheel.compState[d][k]
      BY <1>0, <1>3, <1>4, <3>1
    <3> QED  BY <1>2, <3>2, <3>3, <3>4 DEF notStarted
  <2>4. \A k \in Markets : ~isListed(k)' => notStarted(flywheel, k)'
    BY <2>3 DEF notStarted
  <2>5. \A k \in Markets : ctoken'[k].borrowIndex >= expScale
    BY <1>0, <1>7
  <2>6. \A k \in Markets : isListed(k)' =>
           \A d \in Sides : flywheel'.compState[d][k].index >= compInitialIndex
    BY <1>2, <2>2
  <2> QED  BY <2>1, <2>4, <2>5, <2>6 DEF RewardsStarted
<1>10. ASSUME NEW h \in Accounts PROVE Kept(h)
  <2>0. /\ h \in Holders /\ h # ComptrollerAddress /\ compBalance'[h] = compBalance[h]
        /\ compBalance[h] \in Nat
    BY <1>2, AccountsAreHolders, MoneyMarketAssumption, RewardConstants
       DEF compVars, RewardsInv, RewardsTypeOK
  <2>1. /\ wellStored(ctoken') /\ listedMarkets' \in SUBSET RewardMarkets
        /\ listedMarkets \subseteq listedMarkets'
    <3>1. wellStored(ctoken)' /\ listedMarkets' \in SUBSET RewardMarkets
      BY <1>0, StoredNext DEF listedMarkets
    <3> QED  BY <1>8, <3>1 DEF wellStored, listedMarkets
  <2>2. ASSUME NEW k \in listedMarkets
        PROVE  marketPending(g, k, ctoken'[k], block, h)
                 >= marketPending(flywheel, k, ctoken[k], block, h)
    <3>1. k \in RewardMarkets /\ k # m /\ ctoken'[k] = ctoken[k]
      BY <1>0, <1>2 DEF listedMarkets
    <3>2. ASSUME NEW d \in Sides
          PROVE  pending(g, d, k, ctoken[k], block, h) = pending(flywheel, d, k, ctoken[k], block, h)
      <4>1. /\ g.compState[d][k] = flywheel.compState[d][k]
            /\ g.compSpeed[d] = flywheel.compSpeed[d] /\ g.compWeight = flywheel.compWeight
            /\ g.accountIndex[d][k][h] = flywheel.accountIndex[d][k][h]
        BY <1>3, <1>4, <2>0, <3>1
      <4> QED  BY <4>1, PendingDepends
    <3>3. marketPending(g, k, ctoken'[k], block, h) = marketPending(flywheel, k, ctoken[k], block, h)
      BY <1>0, <3>1, <3>2 DEF marketPending
    <3>4. marketPending(flywheel, k, ctoken[k], block, h) \in Nat
      BY <1>0, <2>0, <3>1, MarketPendingNat
    <3> QED  BY <3>3, <3>4
  <2> DEFINE old == flywheel.compAccrued[h]
                      + (block - flywheel.lastContributorBlock[h]) * flywheel.contributorSpeed[h]
             new == g.compAccrued[h] + (block - g.lastContributorBlock[h]) * g.contributorSpeed[h]
  <2>3. new = old
    BY <1>3, <1>4, <2>0, <1>0 DEF sameContributors
  <2>4. old \in Nat
    BY <1>0, <2>0, ContributionNat
  <2>5. new >= old
    <3> HIDE DEF new, old
    <3> QED  BY <2>3, <2>4
  <2>6. worth(g, ctoken', block, listedMarkets', h) >= worth(flywheel, ctoken, block, listedMarkets, h)
    BY <1>0, <1>4, <2>0, <2>1, <2>2, <2>5, WorthOfParts
  <2>7. /\ worth(g, ctoken', block, listedMarkets', h) \in Nat
        /\ worth(flywheel, ctoken, block, listedMarkets, h) \in Nat
    BY <1>0, <1>4, <2>0, <2>1, WorthNat
  <2>8. Worth(flywheel, h)' = worth(g, ctoken', block, listedMarkets', h)
    BY <1>2 DEF Worth
  <2>9. Worth(flywheel, h) = worth(flywheel, ctoken, block, listedMarkets, h)
    BY DEF Worth
  <2>10. Worth(flywheel, h)' + compBalance'[h] >= Worth(flywheel, h) + compBalance[h]
    BY <2>0, <2>6, <2>7, <2>8, <2>9
  <2> QED  BY <2>10 DEF Kept
<1> QED  BY <1>9, <1>10
-----------------------------------------------------------------------------
\* A transaction that moves nothing in the only market it touches settles all.
LEMMA IdleMarketSettles ==
  ASSUME IndInv, NEW m \in Markets, NEW s \in CTokenStorage, Start(m, s), NEW t,
         moved(s, t, {}, {}), ctoken' = [ctoken EXCEPT ![m] = t]
  PROVE  \A k \in Markets : Settled(k, flywheel)
<1>1. servedAll(flywheel, "supply", m, {}) /\ servedAll(flywheel, "borrow", m, {})
  BY DEF servedAll
<1>2. ctoken'[m] = t => Settled(m, flywheel)
  BY <1>1 DEF Settled
<1> QED  BY <1>2, OneMarketSettles

\* The transactions without a hook move no cTokens and no debts, and list no
\* market.
LEMMA QuietTransactionsSettle ==
  ASSUME IndInv, QuietSteps, ~NextBlock
  PROVE  /\ \A k \in Markets : Settled(k, flywheel)
         /\ block' = block /\ listedMarkets' = listedMarkets
<1>1. CASE \E m \in Markets : \E a \in Suppliers[m] :
              \/ \E amount \in Approvals, spender \in Accounts \ {a} : Approve(m, a, spender, amount)
              \/ \E amount \in Donations : Donate(m, a, amount) \/ AddReserves(m, a, amount)
  <2>1. PICK m \in Markets : \E a \in Suppliers[m] :
              \/ \E amount \in Approvals, spender \in Accounts \ {a} : Approve(m, a, spender, amount)
              \/ \E amount \in Donations : Donate(m, a, amount) \/ AddReserves(m, a, amount)
    BY <1>1
  <2>2. ctoken \in [Markets -> CTokenStorage] /\ ctoken[m] \in CTokenStorage /\ Start(m, ctoken[m])
    BY DEF IndInv, TypeOK, Start
  <2>3. PICK a \in Suppliers[m] :
              \/ \E amount \in Approvals, spender \in Accounts \ {a} : Approve(m, a, spender, amount)
              \/ \E amount \in Donations : Donate(m, a, amount) \/ AddReserves(m, a, amount)
    BY <2>1
  <2>4. CASE \E amount \in Approvals, spender \in Accounts \ {a} : Approve(m, a, spender, amount)
    <3>1. PICK amount \in Approvals, spender \in Accounts : Approve(m, a, spender, amount)
      BY <2>4
    <3> DEFINE t == [ctoken[m] EXCEPT !.transferAllowances[a][spender] = amount]
    <3>2. ctoken' = [ctoken EXCEPT ![m] = t] /\ block' = block /\ UNCHANGED comptroller
      BY <2>2, <3>1 DEF Approve, comptrollerVars
    <3>3. moved(ctoken[m], t, {}, {})
      BY <2>2, NothingMoves
    <3> HIDE DEF t
    <3> QED  BY <2>2, <3>2, <3>3, IdleMarketSettles, SameListing
  <2>5. CASE \E amount \in Donations : Donate(m, a, amount)
    <3>1. PICK amount \in Donations : Donate(m, a, amount)
      BY <2>5
    <3> DEFINE x == received(m, amount)
               t == [ctoken[m] EXCEPT !.cash = @ + x]
    <3>2. ctoken' = [ctoken EXCEPT ![m] = t] /\ block' = block /\ UNCHANGED comptroller
      BY <2>2, <3>1 DEF Donate, comptrollerVars
    <3> HIDE DEF x
    <3>3. moved(ctoken[m], t, {}, {})
      BY <2>2, NothingMoves
    <3> HIDE DEF t
    <3> QED  BY <2>2, <3>2, <3>3, IdleMarketSettles, SameListing
  <2>6. CASE \E amount \in Donations : AddReserves(m, a, amount)
    <3>1. PICK amount \in Donations : AddReserves(m, a, amount)
      BY <2>6
    <3> DEFINE x == received(m, amount)
               s == accrued(m)
               t == addReservesFresh(s, x)
    <3>2. /\ ctoken' = [ctoken EXCEPT ![m] = t] /\ block' = block /\ UNCHANGED comptroller
          /\ canAccrue(ctoken[m], block)
      BY <3>1 DEF AddReserves, comptrollerVars
    <3>3. s \in CTokenStorage /\ Start(m, s)
      BY <3>2, StartAccrued
    <3> HIDE DEF x, s
    <3>4. moved(s, t, {}, {})
      BY <3>3, NothingMoves
    <3> HIDE DEF t
    <3> QED  BY <3>2, <3>3, <3>4, IdleMarketSettles, SameListing
  <2> QED  BY <2>3, <2>4, <2>5, <2>6
<1>2. CASE \E a \in Accounts : MembershipStep(a)
  <2>1. UNCHANGED <<ctoken, block, comptroller>>
    BY <1>2 DEF MembershipStep, marketVars, EnterMarkets, ExitMarket, SetPositions
  <2> QED  BY <2>1, UntouchedSettled, SameListing
<1>3. CASE \E m \in Markets :
              \/ AccrueInterest(m)
              \/ \E factor \in ReserveFactors : SetReserveFactor(m, factor)
              \/ \E amount \in ReserveAmounts : ReduceReserves(m, amount)
              \/ \E irm \in RateModels : SetInterestRateModel(m, irm)
  <2>1. PICK m \in Markets :
              \/ AccrueInterest(m)
              \/ \E factor \in ReserveFactors : SetReserveFactor(m, factor)
              \/ \E amount \in ReserveAmounts : ReduceReserves(m, amount)
              \/ \E irm \in RateModels : SetInterestRateModel(m, irm)
    BY <1>3
  <2> DEFINE s == accrued(m)
  <2>2. canAccrue(ctoken[m], block) /\ block' = block /\ UNCHANGED comptroller
    BY <2>1 DEF AccrueInterest, SetReserveFactor, ReduceReserves, SetInterestRateModel,
                comptrollerVars
  <2>3. s \in CTokenStorage /\ Start(m, s)
    BY <2>2, StartAccrued
  <2>4. \/ ctoken' = [ctoken EXCEPT ![m] = s]
        \/ \E x : ctoken' = [ctoken EXCEPT ![m] = [s EXCEPT !.reserveFactorMantissa = x]]
        \/ \E x : ctoken' = [ctoken EXCEPT ![m] = reduceReservesFresh(s, x)]
        \/ \E x : ctoken' = [ctoken EXCEPT ![m] = [s EXCEPT !.interestRateModel = x]]
    BY <2>1 DEF AccrueInterest, SetReserveFactor, ReduceReserves, SetInterestRateModel, withAccrued
  <2> HIDE DEF s
  <2>5. PICK t : ctoken' = [ctoken EXCEPT ![m] = t] /\ moved(s, t, {}, {})
    BY <2>3, <2>4, NothingMoves
  <2> QED  BY <2>2, <2>3, <2>5, IdleMarketSettles, SameListing
<1>4. CASE AdminComptrollerStep
  <2>1. UNCHANGED ctoken /\ block' = block
    BY <1>4 DEF AdminComptrollerStep, marketVars
  <2>2. comptroller'.isListed = comptroller.isListed
    <3>1. comptroller \in ComptrollerStorage
      BY DEF IndInv, TypeOK, ComptrollerTypeOK
    <3> QED  BY <1>4, <3>1 DEF AdminComptrollerStep, SetCloseFactor, SetLiquidationIncentive,
                SetCollateralFactor, SetMarketBorrowCap, SetBorrowCapGuardian, SetPauseGuardian,
                SetMintPaused, SetBorrowPaused, SetTransferPaused, SetSeizePaused, SetPrices,
                Configure, ComptrollerStorage
  <2>3. listedMarkets' = listedMarkets
    BY <2>2 DEF listedMarkets, isListed
  <2> QED  BY <2>1, <2>3, UntouchedSettled
<1> QED  BY <1>1, <1>2, <1>3, <1>4 DEF QuietSteps

\* A transaction without a hook keeps what is due.
LEMMA QuietTransactionsKeep ==
  ASSUME IndInv, IndInv', RewardsInv, RewardsInv', RewardsStarted, QuietSteps, ~NextBlock
  PROVE  RewardsStarted' /\ \A h \in Accounts : Kept(h)
<1>1. UNCHANGED <<flywheel, compVars>>
  BY DEF QuietSteps
<1>2. HookTurn(flywheel)
  BY <1>1, QuietTransactionsSettle, HookedFirst DEF HookTurn
<1> QED  BY <1>2, HookKeeps
-----------------------------------------------------------------------------
(* A new block *)

\* The index that an update would write is no lower in a later block.
LEMMA UpdatedIndexLater ==
  ASSUME NEW now \in Nat, NEW later \in Nat, now <= later, NEW f, wellKept(f, now),
         NEW side \in Sides, NEW m \in RewardMarkets, NEW s \in CTokenStorage, validSnapshots(s)
  PROVE  updatedIndex(f, side, m, s, later).index >= updatedIndex(f, side, m, s, now).index
<1> DEFINE old     == f.compState[side][m]
           speed   == marketSpeed(f, side, m)
           divisor == totalShares(side, s)
           ratio(n) == IF divisor = 0 THEN 0 ELSE (((n - old.block) * speed) * doubleScale) \div divisor
           d == now - old.block
           e == later - old.block
           x == d * speed
           y == e * speed
           X == x * doubleScale
           Y == y * doubleScale
<1>1. /\ updatedIndex(f, side, m, s, later).index = old.index + ratio(later)
      /\ updatedIndex(f, side, m, s, now).index = old.index + ratio(now)
  BY DEF updatedIndex
<1>2. /\ old.index \in Nat /\ old.block \in Nat /\ old.block <= now
      /\ speed \in Nat /\ divisor \in Nat /\ doubleScale \in Nat
  BY IndexesNat, SharesNat, MarketSpeedNat, CompFlywheelAssumption DEF wellKept
<1>3. d \in Nat /\ e \in Nat /\ d <= e
  BY <1>2
<1>4. /\ ratio(now) = IF divisor = 0 THEN 0 ELSE X \div divisor
      /\ ratio(later) = IF divisor = 0 THEN 0 ELSE Y \div divisor
  OBVIOUS
<1> HIDE DEF d, e, speed, divisor, ratio
<1>5. x \in Nat /\ y \in Nat /\ x <= y
  BY <1>2, <1>3, ProductNat, ProductMonotone
<1> HIDE DEF x, y
<1>6. X \in Nat /\ Y \in Nat /\ X <= Y
  BY <1>2, <1>5, ProductNat, ProductMonotone
<1> HIDE DEF X, Y
<1>7. ratio(now) \in Nat /\ ratio(later) \in Nat /\ ratio(now) <= ratio(later)
  <2>1. CASE divisor = 0
    BY <1>4, <2>1
  <2>2. CASE divisor # 0
    <3>1. X \div divisor \in Nat /\ Y \div divisor \in Nat /\ X \div divisor <= Y \div divisor
      BY <1>2, <1>6, <2>2, QuotientMonotone, QuotientNat
    <3> QED  BY <1>4, <2>2, <3>1
  <2> QED  BY <2>1, <2>2
<1> HIDE DEF old
<1>8. \A a, b, c \in Nat : b <= c => a + c >= a + b
  OBVIOUS
<1> QED  BY <1>1, <1>2, <1>7, <1>8

\* What is pending under an index that has started does not fall with time.
LEMMA PendingLater ==
  ASSUME NEW now \in Nat, NEW later \in Nat, now <= later, NEW f, wellKept(f, now),
         NEW side \in Sides, NEW m \in RewardMarkets, NEW s \in CTokenStorage, validSnapshots(s),
         NEW h \in Holders, f.compState[side][m].index >= compInitialIndex
  PROVE  pending(f, side, m, s, later, h) >= pending(f, side, m, s, now, h)
<1> DEFINE old == updatedIndex(f, side, m, s, now).index
           new == updatedIndex(f, side, m, s, later).index
           prior == f.accountIndex[side][m][h]
           n == shares(side, s, h)
           first == f.compState[side][m].index
<1>1. first \in Nat /\ prior \in Nat /\ prior <= first /\ compInitialIndex \in Nat /\ n \in Nat
  BY IndexesNat, SharesNat, CompFlywheelAssumption DEF compInitialIndex
<1>2. old \in Nat /\ old >= first
  BY UpdatedIndexGrows DEF CompMarketState
<1>3. wellKept(f, later)
  <2>1. \A d \in Sides, k \in RewardMarkets : f.compState[d][k].block \in Nat
    BY IndexesNat
  <2>2. \A j \in Holders : f.lastContributorBlock[j] \in Nat
    BY FlywheelFields DEF wellKept
  <2> QED  BY <2>1, <2>2 DEF wellKept, recordsArePast
<1>4. new \in Nat
  BY <1>3, UpdatedIndexGrows DEF CompMarketState
<1>5. old <= new
  <2>1. new >= old
    BY UpdatedIndexLater
  <2> QED  BY <1>2, <1>4, <2>1
<1>6. /\ pending(f, side, m, s, now, h) = earned(old, prior, n)
      /\ pending(f, side, m, s, later, h) = earned(new, prior, n)
  BY DEF pending
<1>7. compInitialIndex <= first
  BY <1>1
<1> HIDE DEF old, new, prior, n, first
<1>8. compInitialIndex <= old /\ prior <= old /\ prior <= new
  BY <1>1, <1>2, <1>4, <1>5, <1>7
<1>9. earned(old, prior, n) <= earned(new, prior, n)
  BY <1>1, <1>2, <1>4, <1>5, <1>8, EarnedGrows
<1>10. earned(old, prior, n) \in Nat /\ earned(new, prior, n) \in Nat
  BY <1>1, <1>2, <1>4, <1>8, EarnedBounds
<1> QED  BY <1>6, <1>9, <1>10

\* A new block only adds to what is due.
LEMMA NextBlockKeepsWorth ==
  ASSUME IndInv, RewardsInv, RewardsInv', RewardsStarted, NextBlock, UNCHANGED <<flywheel, compVars>>
  PROVE  RewardsStarted' /\ \A h \in Accounts : Kept(h)
<1> DEFINE later == block + 1
<1>1. /\ block' = later /\ flywheel' = flywheel /\ ctoken' = ctoken /\ comptroller' = comptroller
      /\ compBalance' = compBalance
  BY DEF NextBlock, comptrollerVars, compVars
<1>2. /\ wellStored(ctoken) /\ block \in Nat /\ listedMarkets \in SUBSET RewardMarkets
      /\ wellKept(flywheel, block)
  BY BookWellStored, FlywheelKept
<1>3. listedMarkets' = listedMarkets
  BY <1>1, SameListing
<1>4. later \in Nat /\ block <= later /\ wellKept(flywheel, later)
  <2>1. later \in Nat /\ block <= later
    BY <1>2
  <2>2. \A d \in Sides, k \in RewardMarkets : flywheel.compState[d][k].block \in Nat
    BY <1>2, IndexesNat
  <2>3. \A j \in Holders : flywheel.lastContributorBlock[j] \in Nat
    BY <1>2, FlywheelFields DEF wellKept
  <2> QED  BY <1>2, <2>1, <2>2, <2>3 DEF wellKept, recordsArePast
<1> HIDE DEF later
<1>5. RewardsStarted'
  BY <1>1 DEF RewardsStarted, HoldersHaveIndexes, isListed, notStarted
<1>6. ASSUME NEW h \in Accounts PROVE Kept(h)
  <2>0. h \in Holders /\ compBalance[h] \in Nat
    BY AccountsAreHolders, RewardConstants DEF RewardsInv, RewardsTypeOK
  <2>1. ASSUME NEW k \in listedMarkets
        PROVE  marketPending(flywheel, k, ctoken[k], later, h)
                 >= marketPending(flywheel, k, ctoken[k], block, h)
    <3>1. /\ k \in RewardMarkets /\ ctoken[k] \in CTokenStorage /\ validSnapshots(ctoken[k])
          /\ "supply" \in Sides /\ "borrow" \in Sides
      BY <1>2 DEF wellStored, Sides
    <3>2. \A d \in Sides : flywheel.compState[d][k].index >= compInitialIndex
      BY DEF RewardsStarted, listedMarkets
    <3>3. ASSUME NEW d \in Sides
          PROVE  /\ pending(flywheel, d, k, ctoken[k], later, h) \in Nat
                 /\ pending(flywheel, d, k, ctoken[k], block, h) \in Nat
                 /\ pending(flywheel, d, k, ctoken[k], later, h)
                      >= pending(flywheel, d, k, ctoken[k], block, h)
      BY <1>2, <1>4, <2>0, <3>1, <3>2, PendingLater, PendingNat
    <3>4. \A a, b, c, d \in Nat : a >= b /\ c >= d => a + c >= b + d
      OBVIOUS
    <3> QED  BY <3>1, <3>3, <3>4 DEF marketPending
  <2> DEFINE speed == flywheel.contributorSpeed[h]
             last == flywheel.lastContributorBlock[h]
             old == flywheel.compAccrued[h] + (block - last) * speed
             new == flywheel.compAccrued[h] + (later - last) * speed
  <2>2. new >= old
    <3> DEFINE d == block - last
               e == later - last
               x == d * speed
               y == e * speed
    <3>1. d \in Nat /\ e \in Nat /\ speed \in Nat /\ flywheel.compAccrued[h] \in Nat
      BY <1>2, <1>4, <2>0, ContributionNat
    <3>2. d <= e
      <4>1. last \in Nat
        BY <1>2, <2>0, FlywheelFields DEF wellKept
      <4> QED  BY <1>2, <1>4, <4>1
    <3> HIDE DEF d, e, speed
    <3>3. x \in Nat /\ y \in Nat /\ x <= y
      BY <3>1, <3>2, ProductNat, ProductMonotone
    <3> HIDE DEF x, y
    <3>4. flywheel.compAccrued[h] + y >= flywheel.compAccrued[h] + x
      BY <3>1, <3>3
    <3> QED  BY <3>4 DEF x, y, d, e
  <2>3. worth(flywheel, ctoken, later, listedMarkets, h)
          >= worth(flywheel, ctoken, block, listedMarkets, h)
    BY <1>2, <1>4, <2>0, <2>1, <2>2, WorthOfParts
  <2>4. /\ worth(flywheel, ctoken, later, listedMarkets, h) \in Nat
        /\ worth(flywheel, ctoken, block, listedMarkets, h) \in Nat
    BY <1>2, <1>4, <2>0, WorthNat
  <2>5. /\ Worth(flywheel, h)' = worth(flywheel, ctoken, later, listedMarkets, h)
        /\ Worth(flywheel, h) = worth(flywheel, ctoken, block, listedMarkets, h)
    BY <1>1, <1>3 DEF Worth
  <2>6. Worth(flywheel, h)' + compBalance'[h] >= Worth(flywheel, h) + compBalance[h]
    BY <1>1, <2>0, <2>3, <2>4, <2>5
  <2> QED  BY <2>6 DEF Kept
<1> QED  BY <1>5, <1>6
-----------------------------------------------------------------------------
(* The transactions of the flywheel itself *)

\* No market moves, no index falls, and every account has no less, between
\* what it is due and what it has.
FlywheelTurn ==
  /\ UNCHANGED vars /\ notBehind(flywheel, flywheel')
  /\ \A m \in Markets : ~isListed(m) => sameMarket(flywheel', flywheel, m)
  /\ \A h \in Accounts : Worth(flywheel', h) + compBalance'[h] >= Worth(flywheel, h) + compBalance[h]

\* Such a transaction keeps indexes and what is due.
LEMMA FlywheelTurnKeeps ==
  ASSUME IndInv, RewardsInv, RewardsInv', RewardsStarted, FlywheelTurn
  PROVE  RewardsStarted' /\ \A h \in Accounts : Kept(h)
<1>1. /\ block' = block /\ ctoken' = ctoken /\ comptroller' = comptroller
      /\ notBehind(flywheel, flywheel')
      /\ \A m \in Markets : ~isListed(m) => sameMarket(flywheel', flywheel, m)
  BY DEF FlywheelTurn, vars, comptrollerVars
<1>2. block \in Nat /\ wellKept(flywheel, block) /\ RewardMarkets = Markets
  BY BookWellStored, FlywheelKept, RewardConstants
<1>3. wellKept(flywheel', block') /\ block' \in Nat
  BY <1>1, <1>2 DEF RewardsInv, RewardsTypeOK, RecordsArePast, wellKept
<1>4. listedMarkets' = listedMarkets
  BY <1>1, SameListing
<1>5. HoldersHaveIndexes'
  <2>1. ASSUME NEW d \in Sides, NEW k \in Markets, NEW h \in Holders,
               flywheel.accountIndex[d][k][h] > 0
        PROVE  flywheel'.accountIndex[d][k][h] > 0
    <3>1. flywheel.accountIndex[d][k][h] \in Nat /\ flywheel'.accountIndex[d][k][h] \in Nat
      BY <1>1, <1>2, <1>3, IndexesNat
    <3>2. flywheel'.accountIndex[d][k][h] >= flywheel.accountIndex[d][k][h]
      BY <1>1, <1>2 DEF notBehind
    <3> QED  BY <2>1, <3>1, <3>2
  <2>2. "supply" \in Sides /\ "borrow" \in Sides
    BY DEF Sides
  <2> QED  BY <1>1, <2>1, <2>2 DEF RewardsStarted, HoldersHaveIndexes
<1>6. \A k \in Markets : ctoken'[k].borrowIndex >= expScale
  BY <1>1 DEF RewardsStarted
<1>7. RewardsStarted'
  BY <1>1, <1>2, <1>3, <1>4, <1>5, <1>6, StartedSuffices
<1>8. ASSUME NEW h \in Accounts PROVE Kept(h)
  <2>1. Worth(flywheel, h)' = Worth(flywheel', h)
    BY <1>1, <1>4 DEF Worth
  <2> QED  BY <2>1 DEF Kept, FlywheelTurn
<1> QED  BY <1>7, <1>8

\* What is due does not fall when nothing that is pending changes.
LEMMA PendingKeepsWorth ==
  ASSUME IndInv, RewardsInv, NEW g, wellKept(g, block), NEW h \in Holders,
         g.compAccrued[h] + (block - g.lastContributorBlock[h]) * g.contributorSpeed[h]
           = flywheel.compAccrued[h]
             + (block - flywheel.lastContributorBlock[h]) * flywheel.contributorSpeed[h],
         \A d \in Sides, k \in listedMarkets :
            pending(g, d, k, ctoken[k], block, h) = pending(flywheel, d, k, ctoken[k], block, h)
  PROVE  Worth(g, h) >= Worth(flywheel, h)
<1> DEFINE old == flywheel.compAccrued[h]
                    + (block - flywheel.lastContributorBlock[h]) * flywheel.contributorSpeed[h]
           new == g.compAccrued[h] + (block - g.lastContributorBlock[h]) * g.contributorSpeed[h]
<1>1. /\ wellStored(ctoken) /\ block \in Nat /\ listedMarkets \in SUBSET RewardMarkets
      /\ wellKept(flywheel, block)
  BY BookWellStored, FlywheelKept
<1>2. old \in Nat /\ new = old
  BY <1>1, ContributionNat
<1>3. new >= old
  <2> HIDE DEF new, old
  <2> QED  BY <1>2
<1>4. ASSUME NEW k \in listedMarkets
      PROVE  marketPending(g, k, ctoken[k], block, h) >= marketPending(flywheel, k, ctoken[k], block, h)
  <2>1. marketPending(g, k, ctoken[k], block, h) = marketPending(flywheel, k, ctoken[k], block, h)
    BY DEF marketPending, Sides
  <2>2. marketPending(flywheel, k, ctoken[k], block, h) \in Nat
    BY <1>1, MarketPendingNat
  <2> QED  BY <2>1, <2>2
<1> QED  BY <1>1, <1>3, <1>4, WorthOfParts DEF Worth

\* Hence such a change of the flywheel, with no balance changed, is a turn.
LEMMA PendingTurns ==
  ASSUME IndInv, RewardsInv, NEW g, wellKept(g, block), Turn(g), UNCHANGED vars,
         notBehind(flywheel, g),
         \A m \in Markets : ~isListed(m) => sameMarket(g, flywheel, m),
         \A h \in Holders :
            g.compAccrued[h] + (block - g.lastContributorBlock[h]) * g.contributorSpeed[h]
              = flywheel.compAccrued[h]
                + (block - flywheel.lastContributorBlock[h]) * flywheel.contributorSpeed[h],
         \A h \in Holders, d \in Sides, k \in listedMarkets :
            pending(g, d, k, ctoken[k], block, h) = pending(flywheel, d, k, ctoken[k], block, h)
  PROVE  FlywheelTurn
<1>1. flywheel' = g /\ compBalance' = compBalance
  BY DEF Turn, compVars
<1>2. ASSUME NEW h \in Accounts
      PROVE  Worth(flywheel', h) + compBalance'[h] >= Worth(flywheel, h) + compBalance[h]
  <2>1. h \in Holders /\ compBalance[h] \in Nat
    BY AccountsAreHolders, RewardConstants DEF RewardsInv, RewardsTypeOK
  <2>2. Worth(g, h) >= Worth(flywheel, h)
    BY <2>1, PendingKeepsWorth
  <2>3. Worth(g, h) \in Nat /\ Worth(flywheel, h) \in Nat
    BY <2>1, BookWellStored, FlywheelKept, WorthNat DEF Worth
  <2> QED  BY <1>1, <2>1, <2>2, <2>3
<1> QED  BY <1>1, <1>2 DEF FlywheelTurn

\* What bringing the listed markets up to date writes
LEMMA UpdateAllFields ==
  ASSUME IndInv, RewardsInv, NEW sides, NEW g,
         g = updateAll(flywheel, sides, listedMarkets, ctoken, block)
  PROVE  /\ wellKept(g, block) /\ sameButStates(flywheel, g) /\ notBehind(flywheel, g)
         /\ \A d \in Sides, k \in RewardMarkets :
               g.compState[d][k] = IF d \in sides /\ k \in listedMarkets
                                   THEN updatedIndex(flywheel, d, k, ctoken[k], block)
                                   ELSE flywheel.compState[d][k]
<1> DEFINE cs == [side \in Sides |-> [m \in RewardMarkets |->
                    IF side \in sides /\ m \in listedMarkets
                    THEN updatedIndex(flywheel, side, m, ctoken[m], block)
                    ELSE flywheel.compState[side][m]]]
<1>1. wellKept(flywheel, block) /\ block \in Nat /\ flywheel \in FlywheelStorage
  BY FlywheelKept, BookWellStored DEF wellKept
<1>2. g = [flywheel EXCEPT !.compState = cs]
  BY DEF updateAll
<1>3. wellKept(g, block)
  BY <1>1, StoredMarkets, UpdateAllKeeps
<1>4. \A d \in Sides, k \in RewardMarkets :
         cs[d][k] = IF d \in sides /\ k \in listedMarkets
                    THEN updatedIndex(flywheel, d, k, ctoken[k], block)
                    ELSE flywheel.compState[d][k]
  OBVIOUS
<1> HIDE DEF cs
<1>5. g.compState = cs /\ sameButStates(flywheel, g)
  BY <1>1, <1>2 DEF FlywheelStorage, sameButStates
<1>6. notBehind(flywheel, g)
  <2> SUFFICES ASSUME NEW d \in Sides, NEW k \in RewardMarkets
               PROVE  /\ g.compState[d][k].index >= flywheel.compState[d][k].index
                      /\ \A h \in Holders :
                            g.accountIndex[d][k][h] >= flywheel.accountIndex[d][k][h]
    BY DEF notBehind
  <2>1. /\ flywheel.compState[d][k].index \in Nat
        /\ \A h \in Holders : flywheel.accountIndex[d][k][h] \in Nat
    BY <1>1, IndexesNat
  <2>2. updatedIndex(flywheel, d, k, ctoken[k], block).index >= flywheel.compState[d][k].index
    BY <1>1, StoredMarkets, UpdatedIndexGrows
  <2>3. g.compState[d][k].index >= flywheel.compState[d][k].index
    BY <1>4, <1>5, <2>1, <2>2
  <2> QED  BY <1>5, <2>1, <2>3 DEF sameButStates
<1> QED  BY <1>3, <1>4, <1>5, <1>6

\* New speeds or weights leave what is pending where an update came before
\* them, and where they are what they were.
LEMMA RatesKeepPending ==
  ASSUME IndInv, RewardsInv, NEW sides, NEW g, wellKept(g, block),
         g.accountIndex = flywheel.accountIndex,
         \A d \in Sides, k \in RewardMarkets :
            g.compState[d][k] = IF d \in sides /\ k \in listedMarkets
                                THEN updatedIndex(flywheel, d, k, ctoken[k], block)
                                ELSE flywheel.compState[d][k],
         \A d \in Sides \ sides : /\ g.compSpeed[d] = flywheel.compSpeed[d]
                                  /\ g.compWeight = flywheel.compWeight
  PROVE  \A h \in Holders, d \in Sides, k \in listedMarkets :
            pending(g, d, k, ctoken[k], block, h) = pending(flywheel, d, k, ctoken[k], block, h)
<1> SUFFICES ASSUME NEW h \in Holders, NEW d \in Sides, NEW k \in listedMarkets
             PROVE  pending(g, d, k, ctoken[k], block, h)
                      = pending(flywheel, d, k, ctoken[k], block, h)
  OBVIOUS
<1> DEFINE c == ctoken[k]
<1>1. /\ k \in RewardMarkets /\ block \in Nat /\ wellKept(flywheel, block)
      /\ c \in CTokenStorage /\ validSnapshots(c)
  BY BookWellStored, FlywheelKept, StoredMarkets
<1>2. g.accountIndex[d][k][h] = flywheel.accountIndex[d][k][h] /\ agrees(d, c, c, h)
  BY DEF agrees
<1>3. g.compState[d][k] = IF d \in sides THEN updatedIndex(flywheel, d, k, c, block)
                          ELSE flywheel.compState[d][k]
  BY <1>1
<1> HIDE DEF c
<1>4. CASE d \in sides
  <2>1. g.compState[d][k] = updatedIndex(flywheel, d, k, c, block)
    BY <1>3, <1>4
  <2>2. pending(g, d, k, c, block, h) = pending(flywheel, d, k, c, block, h)
    BY <1>1, <1>2, <2>1, UpdatePending
  <2> QED  BY <2>2 DEF c
<1>5. CASE d \notin sides
  <2>1. /\ g.compState[d][k] = flywheel.compState[d][k]
        /\ g.compSpeed[d] = flywheel.compSpeed[d] /\ g.compWeight = flywheel.compWeight
    BY <1>3, <1>5
  <2>2. pending(g, d, k, c, block, h) = pending(flywheel, d, k, c, block, h)
    BY <1>2, <2>1, PendingDepends
  <2> QED  BY <2>2 DEF c
<1> QED  BY <1>4, <1>5

\* _setCompSpeeds
LEMMA SetCompSpeedsTurn ==
  ASSUME IndInv, RewardsInv, NEW caller, NEW supplySpeed \in Nat, NEW borrowSpeed \in Nat,
         SetCompSpeeds(caller, supplySpeed, borrowSpeed)
  PROVE  FlywheelTurn
<1> DEFINE speeds == [side \in Sides |-> IF side = "supply" THEN supplySpeed ELSE borrowSpeed]
           changed == {side \in Sides : flywheel.compSpeed[side] # speeds[side]}
           g == updateAll(flywheel, changed, listedMarkets, ctoken, block)
           f == [g EXCEPT !.compSpeed = speeds]
<1>1. Turn(f) /\ UNCHANGED vars
  BY DEF SetCompSpeeds, setCompSpeedInternal
<1>2. speeds \in [Sides -> Nat] /\ \A d \in Sides \ changed : speeds[d] = flywheel.compSpeed[d]
  BY DEF Sides
<1> HIDE DEF changed, speeds
<1>3. /\ wellKept(g, block) /\ sameButStates(flywheel, g) /\ notBehind(flywheel, g)
      /\ \A d \in Sides, k \in RewardMarkets :
            g.compState[d][k] = IF d \in changed /\ k \in listedMarkets
                                THEN updatedIndex(flywheel, d, k, ctoken[k], block)
                                ELSE flywheel.compState[d][k]
  BY UpdateAllFields
<1> HIDE DEF g
<1>4. wellKept(f, block)
  BY <1>2, <1>3, StoredMarkets, RatesKeep
<1>5. /\ f.compSpeed = speeds /\ f.compState = g.compState /\ f.accountIndex = g.accountIndex
      /\ f.compAccrued = g.compAccrued /\ f.compWeight = g.compWeight
      /\ f.contributorSpeed = g.contributorSpeed
      /\ f.lastContributorBlock = g.lastContributorBlock
  BY <1>3 DEF wellKept, FlywheelStorage
<1> HIDE DEF f
<1>6. notBehind(flywheel, f)
  BY <1>3, <1>5 DEF notBehind
<1>7. ASSUME NEW m \in Markets, ~isListed(m) PROVE sameMarket(f, flywheel, m)
  <2>1. m \in RewardMarkets /\ m \notin listedMarkets
    BY <1>7, RewardConstants DEF listedMarkets
  <2> QED  BY <1>3, <1>5, <2>1 DEF sameMarket, sameButStates
<1>8. \A d \in Sides \ changed : /\ f.compSpeed[d] = flywheel.compSpeed[d]
                                 /\ f.compWeight = flywheel.compWeight
  BY <1>2, <1>3, <1>5 DEF sameButStates
<1>9. \A h \in Holders, d \in Sides, k \in listedMarkets :
         pending(f, d, k, ctoken[k], block, h) = pending(flywheel, d, k, ctoken[k], block, h)
  <2>1. f.accountIndex = flywheel.accountIndex
    BY <1>3, <1>5 DEF sameButStates
  <2>2. \A d \in Sides, k \in RewardMarkets :
           f.compState[d][k] = IF d \in changed /\ k \in listedMarkets
                               THEN updatedIndex(flywheel, d, k, ctoken[k], block)
                               ELSE flywheel.compState[d][k]
    BY <1>3, <1>5
  <2>3. \A d \in Sides \ changed : /\ f.compSpeed[d] = flywheel.compSpeed[d]
                                   /\ f.compWeight = flywheel.compWeight
    BY <1>8
  <2> QED  BY <1>4, <2>1, <2>2, <2>3, RatesKeepPending
<1>10. /\ f.compAccrued = flywheel.compAccrued
       /\ f.contributorSpeed = flywheel.contributorSpeed
       /\ f.lastContributorBlock = flywheel.lastContributorBlock
  BY <1>3, <1>5 DEF sameButStates
<1> QED  BY <1>1, <1>4, <1>6, <1>7, <1>9, <1>10, PendingTurns

\* _setCompWeight
LEMMA SetCompWeightKeepsWorth ==
  ASSUME IndInv, RewardsInv, NEW m \in Markets, NEW weight \in Nat, SetCompWeight(m, weight)
  PROVE  FlywheelTurn
<1> DEFINE g == updateAll(flywheel, Sides, listedMarkets, ctoken, block)
           f == [g EXCEPT !.compWeight[m] = weight]
<1>1. (Turn(g) \/ Turn(f)) /\ UNCHANGED vars /\ isListed(m)
  BY DEF SetCompWeight
<1>2. /\ wellKept(g, block) /\ sameButStates(flywheel, g) /\ notBehind(flywheel, g)
      /\ \A d \in Sides, k \in RewardMarkets :
            g.compState[d][k] = IF d \in Sides /\ k \in listedMarkets
                                THEN updatedIndex(flywheel, d, k, ctoken[k], block)
                                ELSE flywheel.compState[d][k]
  BY UpdateAllFields
<1> HIDE DEF g
<1>3. wellKept(f, block)
  BY <1>2, StoredMarkets, RewardConstants, RatesKeep
<1>4. /\ f.compSpeed = g.compSpeed /\ f.compState = g.compState /\ f.accountIndex = g.accountIndex
      /\ f.compAccrued = g.compAccrued
      /\ f.contributorSpeed = g.contributorSpeed
      /\ f.lastContributorBlock = g.lastContributorBlock
      /\ \A k \in RewardMarkets : k # m => f.compWeight[k] = g.compWeight[k]
  BY <1>2 DEF wellKept, FlywheelStorage
<1> HIDE DEF f
<1>5. PICK e : Turn(e) /\ (e = g \/ e = f)
  BY <1>1
<1>6. /\ wellKept(e, block) /\ e.compState = g.compState /\ e.accountIndex = g.accountIndex
      /\ e.compAccrued = g.compAccrued
      /\ e.contributorSpeed = g.contributorSpeed
      /\ e.lastContributorBlock = g.lastContributorBlock
      /\ \A k \in RewardMarkets : k # m => e.compWeight[k] = g.compWeight[k]
  BY <1>2, <1>3, <1>4, <1>5
<1>7. notBehind(flywheel, e)
  BY <1>2, <1>6 DEF notBehind
<1>8. ASSUME NEW k \in Markets, ~isListed(k) PROVE sameMarket(e, flywheel, k)
  <2>1. k \in RewardMarkets /\ k \notin listedMarkets /\ k # m
    BY <1>1, <1>8, RewardConstants DEF listedMarkets
  <2> QED  BY <1>2, <1>6, <2>1 DEF sameMarket, sameButStates
<1>9. \A h \in Holders, d \in Sides, k \in listedMarkets :
         pending(e, d, k, ctoken[k], block, h) = pending(flywheel, d, k, ctoken[k], block, h)
  <2>1. e.accountIndex = flywheel.accountIndex
    BY <1>2, <1>6 DEF sameButStates
  <2>2. \A d \in Sides, k \in RewardMarkets :
           e.compState[d][k] = IF d \in Sides /\ k \in listedMarkets
                               THEN updatedIndex(flywheel, d, k, ctoken[k], block)
                               ELSE flywheel.compState[d][k]
    BY <1>2, <1>6
  <2>3. \A d \in Sides \ Sides : /\ e.compSpeed[d] = flywheel.compSpeed[d]
                                 /\ e.compWeight = flywheel.compWeight
    OBVIOUS
  <2> QED  BY <1>6, <2>1, <2>2, <2>3, RatesKeepPending
<1>10. /\ e.compAccrued = flywheel.compAccrued
       /\ e.contributorSpeed = flywheel.contributorSpeed
       /\ e.lastContributorBlock = flywheel.lastContributorBlock
  BY <1>2, <1>6 DEF sameButStates
<1> QED  BY <1>1, <1>5, <1>6, <1>7, <1>8, <1>9, <1>10, PendingTurns
-----------------------------------------------------------------------------
\* updateContributorRewards and _setContributorCompSpeed: what was earned by
\* the block is accrued before the speed changes.
LEMMA ContributorFields ==
  ASSUME IndInv, RewardsInv, RewardsInv', NEW contributor \in Holders,
         \/ UpdateContributorRewards(contributor)
         \/ \E speed \in Nat : SetContributorCompSpeed(contributor, speed)
  PROVE  /\ UNCHANGED vars /\ UNCHANGED compVars /\ wellKept(flywheel', block)
         /\ flywheel'.compState = flywheel.compState
         /\ flywheel'.accountIndex = flywheel.accountIndex
         /\ flywheel'.compSpeed = flywheel.compSpeed /\ flywheel'.compWeight = flywheel.compWeight
         /\ \A h \in Holders : credit(flywheel', block, h) = credit(flywheel, block, h)
<1> DEFINE g == contributorRewarded(flywheel, contributor, block)
           delta == block - flywheel.lastContributorBlock[contributor]
           gain == delta * flywheel.contributorSpeed[contributor]
<1>1. /\ wellKept(flywheel, block) /\ block \in Nat /\ flywheel \in FlywheelStorage
      /\ wellKept(g, block)
  BY FlywheelKept, BookWellStored, ContributorKeeps DEF wellKept
<1>2. /\ flywheel.compAccrued \in [Holders -> Nat]
      /\ flywheel.contributorSpeed \in [Holders -> Nat]
      /\ flywheel.lastContributorBlock \in [Holders -> Nat]
  BY <1>1, FlywheelFields
<1>3. /\ delta \in Nat /\ gain \in Nat /\ flywheel.contributorSpeed[contributor] \in Nat
      /\ flywheel.compAccrued[contributor] \in Nat
      /\ flywheel.lastContributorBlock[contributor] \in Nat
  BY <1>1, <1>2, ContributionNat
<1>4. /\ g.compState = flywheel.compState /\ g.accountIndex = flywheel.accountIndex
      /\ g.compSpeed = flywheel.compSpeed /\ g.compWeight = flywheel.compWeight
      /\ g.contributorSpeed = flywheel.contributorSpeed
      /\ g.compAccrued \in [Holders -> Nat] /\ g.lastContributorBlock \in [Holders -> Nat]
      /\ g.compAccrued[contributor] = flywheel.compAccrued[contributor] + gain
      /\ (block - g.lastContributorBlock[contributor]) * g.contributorSpeed[contributor] = 0
      /\ \A h \in Holders \ {contributor} :
            /\ g.compAccrued[h] = flywheel.compAccrued[h]
            /\ g.lastContributorBlock[h] = flywheel.lastContributorBlock[h]
  <2>1. CASE delta = 0 \/ flywheel.contributorSpeed[contributor] = 0
    <3>1. g = flywheel
      BY <2>1 DEF contributorRewarded
    <3>2. gain = 0
      <4>1. \A x \in Nat : 0 * x = 0 /\ x * 0 = 0
        OBVIOUS
      <4> QED  BY <1>3, <2>1, <4>1
    <3> QED  BY <1>2, <1>3, <3>1, <3>2
  <2>2. CASE ~(delta = 0 \/ flywheel.contributorSpeed[contributor] = 0)
    <3>1. g = [flywheel EXCEPT !.compAccrued[contributor] = @ + gain,
                               !.lastContributorBlock[contributor] = block]
      BY <2>2 DEF contributorRewarded
    <3> HIDE DEF g, gain
    <3>2. /\ g.compState = flywheel.compState /\ g.accountIndex = flywheel.accountIndex
          /\ g.compSpeed = flywheel.compSpeed /\ g.compWeight = flywheel.compWeight
          /\ g.contributorSpeed = flywheel.contributorSpeed
          /\ g.compAccrued = [flywheel.compAccrued EXCEPT ![contributor] = @ + gain]
          /\ g.lastContributorBlock = [flywheel.lastContributorBlock EXCEPT ![contributor] = block]
      BY <1>1, <3>1 DEF FlywheelStorage
    <3>3. block - g.lastContributorBlock[contributor] = 0
      BY <1>1, <1>2, <3>2
    <3>4. \A x \in Nat : 0 * x = 0
      OBVIOUS
    <3> QED  BY <1>1, <1>2, <1>3, <3>2, <3>3, <3>4
  <2> QED  BY <2>1, <2>2
<1> HIDE DEF g, delta
<1>5. PICK e : /\ Turn(e) /\ UNCHANGED vars
               /\ \/ e = g
                  \/ \E speed \in Nat, last \in Nat :
                        /\ e = [g EXCEPT !.contributorSpeed[contributor] = speed,
                                         !.lastContributorBlock[contributor] = last]
                        /\ last = IF speed = 0 THEN 0 ELSE block
  <2>1. CASE UpdateContributorRewards(contributor)
    BY <2>1 DEF UpdateContributorRewards, g
  <2>2. CASE \E speed \in Nat : SetContributorCompSpeed(contributor, speed)
    <3>1. PICK speed \in Nat : SetContributorCompSpeed(contributor, speed)
      BY <2>2
    <3> DEFINE last == IF speed = 0 THEN 0 ELSE block
    <3>2. last \in Nat
      BY <1>1
    <3>3. /\ Turn([g EXCEPT !.contributorSpeed[contributor] = speed,
                            !.lastContributorBlock[contributor] = last])
          /\ UNCHANGED vars
      BY <3>1 DEF SetContributorCompSpeed, g
    <3> QED  BY <3>2, <3>3
  <2> QED  BY <2>1, <2>2
<1>6. /\ e.compState = g.compState /\ e.accountIndex = g.accountIndex
      /\ e.compSpeed = g.compSpeed /\ e.compWeight = g.compWeight
      /\ e.compAccrued = g.compAccrued
      /\ (block - e.lastContributorBlock[contributor]) * e.contributorSpeed[contributor] = 0
      /\ \A h \in Holders \ {contributor} :
            /\ e.contributorSpeed[h] = g.contributorSpeed[h]
            /\ e.lastContributorBlock[h] = g.lastContributorBlock[h]
  <2>1. CASE e = g
    BY <1>4, <2>1
  <2>2. CASE \E speed \in Nat, last \in Nat :
                        /\ e = [g EXCEPT !.contributorSpeed[contributor] = speed,
                                         !.lastContributorBlock[contributor] = last]
                        /\ last = IF speed = 0 THEN 0 ELSE block
    <3>1. PICK speed \in Nat, last \in Nat :
                        /\ e = [g EXCEPT !.contributorSpeed[contributor] = speed,
                                         !.lastContributorBlock[contributor] = last]
                        /\ last = IF speed = 0 THEN 0 ELSE block
      BY <2>2
    <3>2. /\ e.compState = g.compState /\ e.accountIndex = g.accountIndex
          /\ e.compSpeed = g.compSpeed /\ e.compWeight = g.compWeight
          /\ e.compAccrued = g.compAccrued
          /\ e.contributorSpeed = [g.contributorSpeed EXCEPT ![contributor] = speed]
          /\ e.lastContributorBlock = [g.lastContributorBlock EXCEPT ![contributor] = last]
      BY <1>1, <3>1 DEF wellKept, FlywheelStorage
    <3>3. e.contributorSpeed[contributor] = speed /\ e.lastContributorBlock[contributor] = last
      BY <1>2, <1>4, <3>2
    <3>4. (block - last) * speed = 0
      <4>1. CASE speed = 0
        <5>1. block - last \in Int
          BY <1>1
        <5>2. \A x \in Int : x * 0 = 0
          OBVIOUS
        <5> QED  BY <4>1, <5>1, <5>2
      <4>2. CASE speed # 0
        <5>1. block - last = 0
          BY <1>1, <3>1, <4>2
        <5>2. \A x \in Nat : 0 * x = 0
          OBVIOUS
        <5> QED  BY <5>1, <5>2
      <4> QED  BY <4>1, <4>2
    <3>5. \A h \in Holders \ {contributor} :
            /\ e.contributorSpeed[h] = g.contributorSpeed[h]
            /\ e.lastContributorBlock[h] = g.lastContributorBlock[h]
      BY <1>2, <1>4, <3>2
    <3> QED  BY <3>2, <3>3, <3>4, <3>5
  <2> QED  BY <1>5, <2>1, <2>2
<1>7. wellKept(e, block)
  <2>1. flywheel' = e /\ block' = block
    BY <1>5 DEF Turn, vars
  <2> QED  BY <2>1 DEF RewardsInv, RewardsTypeOK, RecordsArePast, wellKept
<1>8. ASSUME NEW h \in Holders
       PROVE  e.compAccrued[h] + (block - e.lastContributorBlock[h]) * e.contributorSpeed[h]
                = flywheel.compAccrued[h]
                  + (block - flywheel.lastContributorBlock[h]) * flywheel.contributorSpeed[h]
  <2>1. CASE h = contributor
    <3>1. flywheel.compAccrued[h] + gain + 0 = flywheel.compAccrued[h] + gain
      <4> HIDE DEF gain
      <4> QED  BY <1>3, <2>1
    <3> QED  BY <1>4, <1>6, <2>1, <3>1 DEF delta
  <2>2. CASE h # contributor
    BY <1>4, <1>6, <2>2
  <2> QED  BY <2>1, <2>2
<1>9. \A h \in Holders : credit(e, block, h) = credit(flywheel, block, h)
  BY <1>8 DEF credit
<1>10. flywheel' = e /\ UNCHANGED compVars
  BY <1>5 DEF Turn
<1> QED  BY <1>4, <1>5, <1>6, <1>7, <1>9, <1>10

\* so that they change nothing that is due,
LEMMA ContributorStepsKeepWorth ==
  ASSUME IndInv, RewardsInv, RewardsInv', NEW contributor \in Holders,
         \/ UpdateContributorRewards(contributor)
         \/ \E speed \in Nat : SetContributorCompSpeed(contributor, speed)
  PROVE  FlywheelTurn
<1> DEFINE e == flywheel'
<1>1. /\ UNCHANGED vars /\ UNCHANGED compVars /\ wellKept(e, block)
      /\ e.compState = flywheel.compState /\ e.accountIndex = flywheel.accountIndex
      /\ e.compSpeed = flywheel.compSpeed /\ e.compWeight = flywheel.compWeight
      /\ \A h \in Holders : credit(e, block, h) = credit(flywheel, block, h)
  BY ContributorFields
<1>2. wellKept(flywheel, block) /\ block \in Nat
  BY FlywheelKept, BookWellStored
<1>3. Turn(e)
  BY <1>1 DEF Turn
<1> HIDE DEF e
<1>4. notBehind(flywheel, e)
  BY <1>1, <1>2, IndexesNat DEF notBehind
<1>5. \A m \in Markets : ~isListed(m) => sameMarket(e, flywheel, m)
  BY <1>1 DEF sameMarket
<1>6. \A h \in Holders, d \in Sides, k \in listedMarkets :
         pending(e, d, k, ctoken[k], block, h) = pending(flywheel, d, k, ctoken[k], block, h)
  <2> SUFFICES ASSUME NEW h \in Holders, NEW d \in Sides, NEW k \in listedMarkets
               PROVE  pending(e, d, k, ctoken[k], block, h)
                        = pending(flywheel, d, k, ctoken[k], block, h)
    OBVIOUS
  <2>1. /\ e.compState[d][k] = flywheel.compState[d][k]
        /\ e.compSpeed[d] = flywheel.compSpeed[d] /\ e.compWeight = flywheel.compWeight
        /\ e.accountIndex[d][k][h] = flywheel.accountIndex[d][k][h]
    BY <1>1
  <2> QED  BY <2>1, PendingDepends
<1>7. \A h \in Holders :
         e.compAccrued[h] + (block - e.lastContributorBlock[h]) * e.contributorSpeed[h]
           = flywheel.compAccrued[h]
             + (block - flywheel.lastContributorBlock[h]) * flywheel.contributorSpeed[h]
  BY <1>1 DEF credit
<1> QED  BY <1>1, <1>3, <1>4, <1>5, <1>6, <1>7, PendingTurns

\* A drip moves no account's COMP.
LEMMA DripMissesAccounts ==
  ASSUME RewardsInv
  PROVE  \A h \in Accounts : drippedBalance[h] = compBalance[h]
<1> SUFFICES ASSUME NEW h \in Accounts PROVE drippedBalance[h] = compBalance[h]
  OBVIOUS
<1>1. h \in Holders /\ h # ComptrollerAddress /\ h # ReservoirAddress /\ h \in CompHolders
  BY AccountsAreHolders, MoneyMarketAssumption, RewardedMarketAssumption, RewardConstants
<1>2. compBalance \in [CompHolders -> Nat]
  BY DEF RewardsInv, RewardsTypeOK
<1> QED  BY <1>1, <1>2 DEF drippedBalance, compMoved

\* Reservoir.drip takes nothing from an account,
LEMMA DripKeepsWorth ==
  ASSUME IndInv, RewardsInv, Drip
  PROVE  FlywheelTurn
<1>1. flywheel' = flywheel /\ compBalance' = drippedBalance /\ UNCHANGED vars
  BY DEF Drip
<1>2. \A h \in Accounts : drippedBalance[h] = compBalance[h]
  BY DripMissesAccounts
<1>3. \A h \in Accounts : Worth(flywheel, h) + compBalance[h] \in Nat
  <2> SUFFICES ASSUME NEW h \in Accounts PROVE Worth(flywheel, h) + compBalance[h] \in Nat
    OBVIOUS
  <2>1. h \in Holders /\ compBalance[h] \in Nat
    BY AccountsAreHolders, RewardConstants DEF RewardsInv, RewardsTypeOK
  <2>2. Worth(flywheel, h) \in Nat
    BY <2>1, BookWellStored, FlywheelKept, WorthNat DEF Worth
  <2> QED  BY <2>1, <2>2
<1>4. \A h \in Accounts :
         Worth(flywheel', h) + compBalance'[h] >= Worth(flywheel, h) + compBalance[h]
  <2>1. \A x \in Nat : x >= x
    OBVIOUS
  <2> QED  BY <1>1, <1>2, <1>3, <2>1
<1>5. notBehind(flywheel, flywheel') /\ \A m \in Markets : sameMarket(flywheel', flywheel, m)
  BY <1>1, HookedFirst DEF Hooked, sameMarket
<1> QED  BY <1>1, <1>4, <1>5 DEF FlywheelTurn

\* and neither does _grantComp.
LEMMA GrantCompKeepsWorth ==
  ASSUME IndInv, RewardsInv, NEW recipient \in Holders, NEW amount \in Nat,
         GrantComp(recipient, amount)
  PROVE  FlywheelTurn
<1>1. /\ flywheel' = flywheel /\ UNCHANGED vars
      /\ compBalance' = compMoved(compBalance, ComptrollerAddress, recipient, amount)
  BY DEF GrantComp
<1>2. ASSUME NEW h \in Accounts
      PROVE  Worth(flywheel', h) + compBalance'[h] >= Worth(flywheel, h) + compBalance[h]
  <2>1. h \in Holders /\ h # ComptrollerAddress /\ compBalance[h] \in Nat
    BY AccountsAreHolders, MoneyMarketAssumption, RewardConstants DEF RewardsInv, RewardsTypeOK
  <2>2. Worth(flywheel, h) \in Nat
    BY <2>1, BookWellStored, FlywheelKept, WorthNat DEF Worth
  <2>3. compBalance'[h] = IF h = recipient THEN compBalance[h] + amount ELSE compBalance[h]
    BY <1>1, <2>1, RewardConstants DEF compMoved, RewardsInv, RewardsTypeOK
  <2> QED  BY <1>1, <2>1, <2>2, <2>3
<1>3. notBehind(flywheel, flywheel') /\ \A m \in Markets : sameMarket(flywheel', flywheel, m)
  BY <1>1, HookedFirst DEF Hooked, sameMarket
<1> QED  BY <1>1, <1>2, <1>3 DEF FlywheelTurn
-----------------------------------------------------------------------------
(* claimComp *)

\* The visit to one side of a market
LEMMA CollectedHooked ==
  ASSUME IndInv, RewardsInv, RewardsStarted, UNCHANGED vars, NEW f, Hooked(f),
         NEW side \in Sides, NEW m \in Markets, isListed(m),
         NEW first \in Holders, NEW second \in Holders,
         NEW g, g = collected(f, side, m, first, second)
  PROVE  Hooked(g)
<1> DEFINE s == ctoken[m]
           u == spin(f, side, m, s, block, first)
<1>1. s \in CTokenStorage /\ Start(m, s) /\ s = ctoken[m]
  BY MarketsSound DEF Start
<1>2. g = distributeComp(u, side, m, ctoken[m], second)
  BY DEF collected
<1> HIDE DEF s
<1>3. Hooked(u) /\ u.compState[side][m].block = block
  BY <1>1, HookedSpin
<1> HIDE DEF u
<1> QED  BY <1>2, <1>3, HookedDistribute

\* The visit to a market, on the sides that are claimed
LEMMA CollectedMarketHooked ==
  ASSUME IndInv, RewardsInv, RewardsStarted, UNCHANGED vars, NEW f, Hooked(f),
         NEW m \in Markets, isListed(m), NEW first \in Holders, NEW second \in Holders, NEW sides
  PROVE  Hooked(collectedMarket(f, m, first, second, sides))
<1> DEFINE b == collected(f, "borrow", m, first, second)
           g == IF "borrow" \in sides THEN b ELSE f
           e == collected(g, "supply", m, first, second)
<1>0. "supply" \in Sides /\ "borrow" \in Sides
  BY DEF Sides
<1>1. Hooked(b)
  BY <1>0, CollectedHooked
<1> HIDE DEF b
<1>2. Hooked(g)
  BY <1>1
<1> HIDE DEF g
<1>3. Hooked(e)
  BY <1>0, <1>2, CollectedHooked
<1>4. collectedMarket(f, m, first, second, sides) = IF "supply" \in sides THEN e ELSE g
  BY DEF collectedMarket, e, g, b
<1> HIDE DEF e
<1> QED  BY <1>2, <1>3, <1>4

\* A payment that is made moves what is accrued to the balance; one that cannot
\* be made leaves it accrued.
LEMMA GrantedKeeps ==
  ASSUME NEW user \in Holders,
         NEW g \in [compAccrued : [Holders -> Nat], compBalance : [CompHolders -> Nat],
                    compClaimed : Nat],
         NEW e, e = granted(g, user), NEW h \in Holders, h # ComptrollerAddress
  PROVE  e.compAccrued[h] + e.compBalance[h] = g.compAccrued[h] + g.compBalance[h]
<1> DEFINE amount == g.compAccrued[user]
<1>1. /\ g.compAccrued \in [Holders -> Nat] /\ g.compBalance \in [CompHolders -> Nat]
      /\ h \in CompHolders /\ ComptrollerAddress \in CompHolders /\ user \in CompHolders
      /\ amount \in Nat /\ g.compAccrued[h] \in Nat /\ g.compBalance[h] \in Nat
  BY RewardConstants
<1>2. CASE amount > g.compBalance[ComptrollerAddress]
  <2>1. e = g
    BY <1>2 DEF granted
  <2> QED  BY <2>1
<1>3. CASE ~(amount > g.compBalance[ComptrollerAddress])
  <2>1. /\ e.compAccrued = [g.compAccrued EXCEPT ![user] = 0]
        /\ e.compBalance = compMoved(g.compBalance, ComptrollerAddress, user, amount)
    BY <1>3 DEF granted
  <2> HIDE DEF amount
  <2>2. CASE h = user
    <3>1. e.compAccrued[h] = 0 /\ e.compBalance[h] = g.compBalance[h] + amount
      BY <1>1, <2>1, <2>2 DEF compMoved
    <3> QED  BY <1>1, <2>2, <3>1 DEF amount
  <2>3. CASE h # user
    <3>1. e.compAccrued[h] = g.compAccrued[h] /\ e.compBalance[h] = g.compBalance[h]
      BY <1>1, <2>1, <2>3 DEF compMoved
    <3> QED  BY <3>1
  <2> QED  BY <2>2, <2>3
<1> QED  BY <1>2, <1>3

\* What is accrued is one summand of worth.
LEMMA WorthAccrued ==
  ASSUME NEW now \in Nat, NEW f, wellKept(f, now), NEW t, wellKept(t, now),
         t.compState = f.compState, t.accountIndex = f.accountIndex, t.compSpeed = f.compSpeed,
         t.compWeight = f.compWeight, sameContributors(f, t),
         NEW ct, wellStored(ct), NEW L \in SUBSET RewardMarkets, NEW h \in Holders
  PROVE  worth(t, ct, now, L, h) + f.compAccrued[h] = worth(f, ct, now, L, h) + t.compAccrued[h]
<1> DEFINE F == [k \in L |-> marketPending(f, k, ct[k], now, h)]
           G == [k \in L |-> marketPending(t, k, ct[k], now, h)]
           cf == (now - f.lastContributorBlock[h]) * f.contributorSpeed[h]
           cg == (now - t.lastContributorBlock[h]) * t.contributorSpeed[h]
<1>1. IsFiniteSet(L) /\ \A k \in L : F[k] \in Nat
  BY CompFlywheelAssumption, FS_Subset, MarketPendingNat
<1>2. F = G
  <2>1. ASSUME NEW k \in L, NEW d \in Sides
        PROVE  pending(t, d, k, ct[k], now, h) = pending(f, d, k, ct[k], now, h)
    <3>1. /\ t.compState[d][k] = f.compState[d][k] /\ t.compSpeed[d] = f.compSpeed[d]
          /\ t.compWeight = f.compWeight /\ t.accountIndex[d][k][h] = f.accountIndex[d][k][h]
      OBVIOUS
    <3> QED  BY <3>1, PendingDepends
  <2>2. \A k \in L : marketPending(t, k, ct[k], now, h) = marketPending(f, k, ct[k], now, h)
    BY <2>1 DEF marketPending, Sides
  <2> QED  BY <2>2
<1>3. cf = cg /\ cf \in Nat /\ f.compAccrued[h] \in Nat /\ t.compAccrued[h] \in Nat
  BY ContributionNat DEF sameContributors
<1>4. /\ worth(f, ct, now, L, h) = f.compAccrued[h] + cf + SumFunctionOnSet(F, L)
      /\ worth(t, ct, now, L, h) = t.compAccrued[h] + cg + SumFunctionOnSet(G, L)
  BY DEF worth
<1> HIDE DEF F, G, cf, cg
<1>5. SumFunctionOnSet(F, L) \in Nat
  BY <1>1, SumNat
<1>6. \A a, b, c, S \in Nat : (b + c + S) + a = (a + c + S) + b
  OBVIOUS
<1> QED  BY <1>2, <1>3, <1>4, <1>5, <1>6

\* A claim takes nothing away: what it does not pay stays accrued.
LEMMA ClaimCompKeepsWorth ==
  ASSUME IndInv, RewardsInv, RewardsInv', RewardsStarted,
         NEW first \in Holders, NEW second \in Holders, NEW m \in Markets, NEW c \in Markets,
         NEW sides, ClaimComp(first, second, m, c, sides)
  PROVE  FlywheelTurn
<1> DEFINE e  == collectedMarket(flywheel, m, first, second, sides)
           f  == collectedMarket(e, c, first, second, sides)
           g0 == [compAccrued |-> f.compAccrued, compBalance |-> drippedBalance,
                  compClaimed |-> compClaimed]
           g1 == granted(g0, first)
           g2 == granted(g1, second)
           t  == [f EXCEPT !.compAccrued = g2.compAccrued]
<1>1. /\ flywheel' = t /\ compBalance' = g2.compBalance /\ UNCHANGED vars
      /\ isListed(m) /\ isListed(c)
  BY DEF ClaimComp
<1>2. block' = block /\ block \in Nat /\ wellKept(flywheel, block)
  BY <1>1, FlywheelKept, BookWellStored DEF vars
<1>3. Hooked(e)
  BY <1>1, HookedFirst, CollectedMarketHooked
<1> HIDE DEF e
<1>4. Hooked(f)
  BY <1>1, <1>3, CollectedMarketHooked
<1> HIDE DEF f
<1>5. wellKept(f, block) /\ f \in FlywheelStorage /\ f.compAccrued \in [Holders -> Nat]
  BY <1>4, FlywheelFields DEF Hooked, wellKept
<1> DEFINE paying == [compAccrued : [Holders -> Nat], compBalance : [CompHolders -> Nat],
                      compClaimed : Nat]
<1>6. g0 \in paying /\ g0.compAccrued = f.compAccrued /\ g0.compBalance = drippedBalance
  BY <1>5, DripBounds DEF RewardsInv, RewardsTypeOK
<1> HIDE DEF g0
<1>7. g1 \in paying
  BY <1>6, GrantedTyped
<1>8. \A h \in Holders : h # ComptrollerAddress =>
         g1.compAccrued[h] + g1.compBalance[h] = g0.compAccrued[h] + g0.compBalance[h]
  BY <1>6, GrantedKeeps
<1> HIDE DEF g1
<1>9. g2 \in paying
  BY <1>7, GrantedTyped
<1>10. \A h \in Holders : h # ComptrollerAddress =>
          g2.compAccrued[h] + g2.compBalance[h] = g1.compAccrued[h] + g1.compBalance[h]
  BY <1>7, GrantedKeeps
<1> HIDE DEF g2
<1>11. /\ t.compAccrued = g2.compAccrued /\ t.compState = f.compState
       /\ t.accountIndex = f.accountIndex /\ t.compSpeed = f.compSpeed
       /\ t.compWeight = f.compWeight /\ sameContributors(f, t)
  BY <1>5 DEF FlywheelStorage, sameContributors
<1> HIDE DEF t
<1>12. wellKept(t, block)
  BY <1>1, <1>2 DEF RewardsInv, RewardsTypeOK, RecordsArePast, wellKept
<1>13. notBehind(flywheel, t)
  BY <1>4, <1>11 DEF Hooked, notBehind
<1>14. \A k \in Markets : ~isListed(k) => sameMarket(t, flywheel, k)
  BY <1>4, <1>11 DEF Hooked, sameMarket
<1>15. ASSUME NEW h \in Accounts
       PROVE  Worth(t, h) + g2.compBalance[h] >= Worth(flywheel, h) + compBalance[h]
  <2>1. h \in Holders /\ h # ComptrollerAddress /\ h \in CompHolders
    BY AccountsAreHolders, MoneyMarketAssumption, RewardConstants
  <2>2. Worth(f, h) = Worth(flywheel, h)
    <3>1. \A k \in Markets : Undisturbed(k, h)
      BY <1>1 DEF Undisturbed, vars
    <3> QED  BY <1>4, <2>1, <3>1 DEF Hooked
  <2>3. wellStored(ctoken) /\ listedMarkets \in SUBSET RewardMarkets
    BY BookWellStored
  <2>4. Worth(t, h) + f.compAccrued[h] = Worth(f, h) + t.compAccrued[h]
    BY <1>2, <1>5, <1>11, <1>12, <2>1, <2>3, WorthAccrued DEF Worth
  <2>5. Worth(t, h) \in Nat /\ Worth(f, h) \in Nat
    BY <1>2, <1>5, <1>12, <2>1, <2>3, WorthNat DEF Worth
  <2>6. g0.compBalance[h] = compBalance[h]
    BY <1>6, DripMissesAccounts
  <2>7. g2.compAccrued[h] + g2.compBalance[h] = f.compAccrued[h] + compBalance[h]
    BY <1>6, <1>8, <1>10, <2>1, <2>6
  <2>8. /\ g2.compAccrued[h] \in Nat /\ g2.compBalance[h] \in Nat
        /\ f.compAccrued[h] \in Nat /\ compBalance[h] \in Nat
    BY <1>5, <1>9, <2>1 DEF RewardsInv, RewardsTypeOK
  <2>9. Worth(t, h) + f.compAccrued[h] = Worth(f, h) + g2.compAccrued[h]
    BY <1>11, <2>4
  <2>10. \A w, v, a, b, x, y \in Nat : (w + a = v + b /\ b + x = a + y) => w + x >= v + y
    OBVIOUS
  <2>11. Worth(t, h) + g2.compBalance[h] >= Worth(f, h) + compBalance[h]
    BY <2>5, <2>7, <2>8, <2>9, <2>10
  <2> QED  BY <2>2, <2>11
<1> QED  BY <1>1, <1>13, <1>14, <1>15 DEF FlywheelTurn
-----------------------------------------------------------------------------
(* Every step *)

\* The flywheel's own transactions, one by one, or none
LEMMA FlywheelStepsTurn ==
  ASSUME IndInv, RewardsInv, RewardsInv', RewardsStarted, FlywheelStep \/ UNCHANGED rewardedVars
  PROVE  FlywheelTurn
<1>1. /\ Claimants \subseteq Holders /\ Grants \subseteq Nat /\ CompWeights \subseteq Nat
      /\ CompSpeeds \subseteq Nat /\ ContributorSpeeds \subseteq Nat
  BY RewardedMarketAssumption
<1>2. CASE \E first, second \in Claimants, m, c \in Markets, sides \in ClaimSides :
              ClaimComp(first, second, m, c, sides)
  BY <1>1, <1>2, ClaimCompKeepsWorth
<1>3. CASE \E recipient \in Claimants, amount \in Grants : GrantComp(recipient, amount)
  BY <1>1, <1>3, GrantCompKeepsWorth
<1>4. CASE \E caller \in Accounts, supplySpeed, borrowSpeed \in CompSpeeds :
              SetCompSpeeds(caller, supplySpeed, borrowSpeed)
  BY <1>1, <1>4, SetCompSpeedsTurn
<1>5. CASE \E m \in Markets, weight \in CompWeights : SetCompWeight(m, weight)
  BY <1>1, <1>5, SetCompWeightKeepsWorth
<1>6. CASE \E contributor \in Claimants :
              \/ UpdateContributorRewards(contributor)
              \/ \E speed \in ContributorSpeeds : SetContributorCompSpeed(contributor, speed)
  <2>1. PICK contributor \in Claimants :
              \/ UpdateContributorRewards(contributor)
              \/ \E speed \in ContributorSpeeds : SetContributorCompSpeed(contributor, speed)
    BY <1>6
  <2>2. contributor \in Holders
    BY <1>1
  <2>3. \/ UpdateContributorRewards(contributor)
        \/ \E speed \in Nat : SetContributorCompSpeed(contributor, speed)
    BY <1>1, <2>1
  <2> QED  BY <2>2, <2>3, ContributorStepsKeepWorth
<1>7. CASE UNCHANGED rewardedVars
  <2>1. /\ UNCHANGED vars /\ flywheel' = flywheel /\ Turn(flywheel)
    BY <1>7 DEF rewardedVars, Turn
  <2>2. /\ wellKept(flywheel, block) /\ notBehind(flywheel, flywheel)
        /\ \A m \in Markets : sameMarket(flywheel, flywheel, m)
    BY HookedFirst DEF Hooked, sameMarket
  <2> QED  BY <2>1, <2>2, PendingTurns
<1> QED  BY <1>2, <1>3, <1>4, <1>5, <1>6, <1>7, DripKeepsWorth DEF FlywheelStep

\* Every step keeps the indexes started and what is due.
LEMMA StepsKeepWorth ==
  ASSUME IndInv, IndInv', RewardsInv, RewardsInv', RewardsStarted, [RewardedNext]_rewardedVars
  PROVE  RewardsStarted' /\ \A h \in Accounts : Kept(h)
<1>1. CASE \E m \in Markets : \E a \in Suppliers[m] : SupplySteps(m, a) \/ TransferSteps(m, a)
  <2>1. \A m \in Markets : Suppliers[m] \subseteq Accounts
    BY MoneyMarketAssumption
  <2>2. \E f : HookTurn(f)
    BY <1>1, <2>1, SupplyStepsHook, TransferStepsHook
  <2> QED  BY <2>2, HookKeeps
<1>2. CASE \E m \in Markets : \E a \in Borrowers[m] : BorrowSteps(m, a) \/ LiquidationSteps(m, a)
  <2>1. \A m \in Markets : Borrowers[m] \subseteq Accounts
    BY MoneyMarketAssumption
  <2>2. \E f : HookTurn(f)
    BY <1>2, <2>1, BorrowStepsHook, LiquidationStepsHook
  <2> QED  BY <2>2, HookKeeps
<1>3. CASE \E m \in Markets : ListingSteps(m)
  BY <1>3, ListingStepsKeep
<1>4. CASE QuietSteps
  <2>1. CASE NextBlock
    <3>1. UNCHANGED <<flywheel, compVars>>
      BY <1>4 DEF QuietSteps
    <3> QED  BY <2>1, <3>1, NextBlockKeepsWorth
  <2>2. CASE ~NextBlock
    BY <1>4, <2>2, QuietTransactionsKeep
  <2> QED  BY <2>1, <2>2
<1>5. CASE FlywheelStep \/ UNCHANGED rewardedVars
  BY <1>5, FlywheelStepsTurn, FlywheelTurnKeeps
<1> QED  BY <1>1, <1>2, <1>3, <1>4, <1>5 DEF RewardedNext

\* At first nobody holds anything and no market is listed.
LEMMA RewardsStartedInitially ==
  ASSUME RewardedInit
  PROVE  RewardsStarted
<1>1. /\ flywheel = initialFlywheel
      /\ ctoken = [m \in Markets |-> initialize(initialExchangeRate[m], initialModel[m], 0)]
      /\ comptroller = deployedComptroller(initialCloseFactor, initialLiquidationIncentive)
  BY DEF RewardedInit, Init, ComptrollerInit
<1>2. ASSUME NEW m \in Markets
      PROVE  /\ \A h \in Holders : /\ ctoken[m].accountTokens[h] = 0
                                   /\ ctoken[m].accountBorrows[h].principal = 0
             /\ ctoken[m].borrowIndex = expScale
             /\ ~isListed(m)
  BY <1>1 DEF initialize, mantissaOne, isListed, deployedComptroller
<1>3. \A m \in Markets : notStarted(flywheel, m)
  BY <1>1, RewardConstants DEF initialFlywheel, notStarted
<1>4. expScale \in Nat
  BY ExpScaleAssumption
<1> QED  BY <1>2, <1>3, <1>4 DEF RewardsStarted, HoldersHaveIndexes
-----------------------------------------------------------------------------
(* What is owed is what is worth. *)

\* claimComp and updateContributorRewards would pay what worth adds up.
Accounted == \A h \in Holders : owedComp(h) = Worth(flywheel, h)

\* The definition of owedComp, unfolded
LEMMA OwedIsWorth ==
  ASSUME IndInv, RewardsInv
  PROVE  Accounted
<1> SUFFICES ASSUME NEW h \in Holders PROVE owedComp(h) = Worth(flywheel, h)
  BY DEF Accounted
<1> DEFINE f == upToDate
           F == [m \in listedMarkets |-> distribution(f, "supply", m, ctoken[m], h)
                                         + distribution(f, "borrow", m, ctoken[m], h)]
           G == [m \in listedMarkets |-> marketPending(flywheel, m, ctoken[m], block, h)]
           delta == block - flywheel.lastContributorBlock[h]
           gain == delta * flywheel.contributorSpeed[h]
           reward == contributorRewarded(f, h, block).compAccrued[h]
<1>1. /\ wellKept(f, block) /\ sameButStates(flywheel, f)
      /\ \A d \in Sides, k \in RewardMarkets :
            f.compState[d][k] = IF d \in Sides /\ k \in listedMarkets
                                THEN updatedIndex(flywheel, d, k, ctoken[k], block)
                                ELSE flywheel.compState[d][k]
  <2>1. f = updateAll(flywheel, Sides, listedMarkets, ctoken, block)
    BY DEF upToDate
  <2> HIDE DEF f
  <2> QED  BY <2>1, UpdateAllFields
<1>2. owedComp(h) = reward + SumFunction(F)
  BY DEF owedComp
<1>3. /\ wellKept(flywheel, block) /\ block \in Nat
      /\ listedMarkets \in SUBSET RewardMarkets
  BY FlywheelKept, BookWellStored
<1> HIDE DEF f
<1>4. F = G
  <2>1. ASSUME NEW d \in Sides, NEW k \in listedMarkets
        PROVE  distribution(f, d, k, ctoken[k], h) = pending(flywheel, d, k, ctoken[k], block, h)
    <3>1. /\ f.compState[d][k] = updatedIndex(flywheel, d, k, ctoken[k], block)
          /\ f.accountIndex[d][k][h] = flywheel.accountIndex[d][k][h]
      BY <1>1, <1>3 DEF sameButStates
    <3>2. distribution(f, d, k, ctoken[k], h)
            = earned(f.compState[d][k].index, f.accountIndex[d][k][h], shares(d, ctoken[k], h))
      BY DistributionIsEarned
    <3> QED  BY <3>1, <3>2 DEF pending
  <2>2. ASSUME NEW k \in listedMarkets
        PROVE  distribution(f, "supply", k, ctoken[k], h) + distribution(f, "borrow", k, ctoken[k], h)
                 = marketPending(flywheel, k, ctoken[k], block, h)
    BY <2>1 DEF marketPending, Sides
  <2> QED  BY <2>2
<1>5. SumFunction(F) = SumFunctionOnSet(G, listedMarkets)
  <2>1. DOMAIN F = listedMarkets
    OBVIOUS
  <2> HIDE DEF F, G
  <2> QED  BY <1>4, <2>1 DEF SumFunction
<1>6. reward = flywheel.compAccrued[h] + gain
  <2>1. /\ f.compAccrued = flywheel.compAccrued /\ f.contributorSpeed = flywheel.contributorSpeed
        /\ f.lastContributorBlock = flywheel.lastContributorBlock
    BY <1>1 DEF sameButStates
  <2>2. /\ delta \in Nat /\ flywheel.contributorSpeed[h] \in Nat
        /\ flywheel.compAccrued[h] \in Nat
    BY <1>3, ContributionNat
  <2>3. CASE delta = 0 \/ flywheel.contributorSpeed[h] = 0
    <3>1. reward = flywheel.compAccrued[h]
      BY <2>1, <2>3 DEF contributorRewarded
    <3>2. gain = 0
      <4>1. \A x \in Nat : 0 * x = 0 /\ x * 0 = 0
        OBVIOUS
      <4> HIDE DEF delta
      <4> QED  BY <2>2, <2>3, <4>1
    <3> HIDE DEF reward, gain
    <3> QED  BY <2>2, <3>1, <3>2
  <2>4. CASE ~(delta = 0 \/ flywheel.contributorSpeed[h] = 0)
    <3>1. contributorRewarded(f, h, block)
            = [f EXCEPT !.compAccrued[h] = @ + gain, !.lastContributorBlock[h] = block]
      BY <2>1, <2>4 DEF contributorRewarded
    <3>2. f \in FlywheelStorage /\ f.compAccrued \in [Holders -> Nat]
      BY <1>1, FlywheelFields DEF wellKept
    <3> HIDE DEF gain
    <3>3. reward = f.compAccrued[h] + gain
      BY <1>3, <3>1, <3>2 DEF FlywheelStorage
    <3> QED  BY <2>1, <3>3
  <2> QED  BY <2>3, <2>4
<1>7. Worth(flywheel, h) = flywheel.compAccrued[h] + gain + SumFunctionOnSet(G, listedMarkets)
  BY DEF Worth, worth
<1> QED  BY <1>2, <1>5, <1>6, <1>7
-----------------------------------------------------------------------------
(* The rewards of every behaviour *)

\* All that a state of the market with rewards satisfies
RewardsSound == IndInv /\ RewardsInv /\ SpeedsAreScheduled /\ RewardsStarted

LEMMA RewardsSoundFrom ==
  RewardsSound /\ [][RewardedNext]_rewardedVars => []RewardsSound /\ []Accounted
<1>1. ASSUME RewardsSound, [RewardedNext]_rewardedVars
      PROVE  RewardsSound'
  <2>1. IndInv /\ RewardsInv /\ SpeedsAreScheduled /\ RewardsStarted
    BY <1>1 DEF RewardsSound
  <2>2. IndInv'
    BY <1>1, <2>1, RewardedStepsAreSteps, StepKeeps
  <2>3. RewardsInv'
    BY <1>1, <2>1, StepsTurn, QuietStepsTurn, SetCompSpeedsKeeps, RewardedMarketAssumption
       DEF Turned
  <2>4. SpeedsAreScheduled'
    BY <1>1, <2>1, SpeedsStay
  <2>5. RewardsStarted'
    BY <1>1, <2>1, <2>2, <2>3, StepsKeepWorth
  <2> QED  BY <2>2, <2>3, <2>4, <2>5 DEF RewardsSound
<1>2. RewardsSound => Accounted
  BY OwedIsWorth DEF RewardsSound
<1> QED  BY <1>1, <1>2, PTL

\* The worth of an account shrinks in no step from a sound state on.
LEMMA WorthKeptFrom ==
  RewardsSound /\ [][RewardedNext]_rewardedVars => RewardsNeverShrink
<1> DEFINE Inv == RewardsSound /\ Accounted
           all == \A h \in Accounts :
                    \/ owedComp(h)' + compBalance'[h] >= owedComp(h) + compBalance[h]
                    \/ \E m \in Markets : /\ ctoken[m].accountBorrows[h].principal > 0
                                          /\ ctoken'[m].borrowIndex # ctoken[m].borrowIndex
<1>1. ASSUME Inv, Inv', [RewardedNext]_rewardedVars
      PROVE  all
  <2>1. \A h \in Accounts : Kept(h)
    BY <1>1, StepsKeepWorth DEF RewardsSound
  <2>2. \A h \in Accounts : owedComp(h) = Worth(flywheel, h)
    BY <1>1, AccountsAreHolders DEF Accounted
  <2>3. \A h \in Accounts : owedComp(h)' = Worth(flywheel, h)'
    BY <1>1, AccountsAreHolders DEF Accounted
  <2> QED  BY <2>1, <2>2, <2>3 DEF Kept
<1>2. Inv /\ Inv' /\ [RewardedNext]_rewardedVars => all
  BY <1>1
<1> HIDE DEF all
<1>3. RewardsSound /\ [][RewardedNext]_rewardedVars => []Inv
  BY RewardsSoundFrom, PTL
<1> HIDE DEF Inv
<1>4. RewardsSound /\ [][RewardedNext]_rewardedVars => [][all]_rewardedVars
  BY <1>2, <1>3, PTL
<1> QED  BY <1>4 DEF RewardsNeverShrink, all

\* At first the market with rewards is sound.
LEMMA RewardsSoundInitially ==
  ASSUME RewardedInit
  PROVE  RewardsSound
BY RewardsInitially, RewardsStartedInitially, InitEstablishes DEF RewardedInit, RewardsSound

\* Whoever holds cTokens or owes in a market was given an index there, in every
\* reachable state: no hook lets an account in without one, and nobody is paid
\* for the blocks before it came.
THEOREM HoldersWereGivenIndexes == RewardedSpec => []HoldersHaveIndexes
<1>1. RewardedInit => RewardsSound
  BY RewardsSoundInitially
<1>2. RewardsSound => HoldersHaveIndexes
  BY DEF RewardsSound, RewardsStarted
<1> QED  BY <1>1, <1>2, RewardsSoundFrom, PTL DEF RewardedSpec

\* COMP that an account has earned is never taken away: no transaction of
\* another, no speed, weight, listing, grant or claim makes what it is owed and
\* what it has less, unless interest moves the rounding of its own debt.
THEOREM NothingEarnedIsLost == RewardedSpec => RewardsNeverShrink
<1>1. RewardedInit => RewardsSound
  BY RewardsSoundInitially
<1> QED  BY <1>1, WorthKeptFrom, PTL DEF RewardedSpec
-----------------------------------------------------------------------------
(* The same of the market with rewards as deploy/ leaves it.               *)

\* In a market just seeded only the Comptroller holds cTokens.
LEMMA SeededHolders ==
  ASSUME NEW m \in Markets, NEW seed \in Nat, NEW factor \in 0 .. reserveFactorMaxMantissa
  PROVE  LET t == seededMarket(m, seed, factor)
         IN  /\ t.borrowIndex = expScale
             /\ \A h \in Holders \ {ComptrollerAddress} : t.accountTokens[h] = 0
<1> DEFINE fresh == initialize(initialExchangeRate[m], initialModel[m], 0)
           x == received(m, seed)
           n == div_Exp(x, exchangeRateStored(fresh))
           u == mintFresh(fresh, ComptrollerAddress, x)
           t == [u EXCEPT !.reserveFactorMantissa = factor]
<1>1. /\ fresh \in CTokenStorage /\ fresh.borrowIndex = expScale
      /\ fresh.accountTokens = [h \in Holders |-> 0]
  <2>1. initialExchangeRate[m] \in Nat \ {0} /\ initialModel[m] \in InterestRateModel
    BY MoneyMarketAssumption
  <2> QED  BY <2>1, InitializeValid DEF validMarket, initialize, mantissaOne
<1> HIDE DEF fresh, x
<1>2. u = [fresh EXCEPT !.cash = @ + x, !.totalSupply = @ + n,
                        !.accountTokens[ComptrollerAddress] = @ + n]
  BY DEF mintFresh
<1> HIDE DEF n, u
<1>3. /\ t.borrowIndex = expScale
      /\ t.accountTokens = [fresh.accountTokens EXCEPT ![ComptrollerAddress] = @ + n]
  BY <1>1, <1>2 DEF CTokenStorage
<1> HIDE DEF t
<1>4. \A h \in Holders \ {ComptrollerAddress} : t.accountTokens[h] = 0
  BY <1>1, <1>3
<1> QED  BY <1>3, <1>4 DEF t, u, x, fresh, seededMarket

\* Nothing is earned, owed by contract or due yet.
NothingDue ==
  /\ block = 0 /\ CompInit
  /\ \A side \in Sides : flywheel.compSpeed[side] = distributionSchedule[1].compSpeed
  /\ \A h \in Holders : flywheel.compAccrued[h] = 0 /\ flywheel.contributorSpeed[h] = 0
  /\ \A side \in Sides, m \in RewardMarkets : flywheel.compState[side][m].block = 0
  /\ \A m \in RewardMarkets, h \in Holders :
        /\ ctoken[m].accountBorrows[h].principal = 0
        /\ \/ ctoken[m].accountTokens[h] = 0
           \/ flywheel.accountIndex["supply"][m][h] = flywheel.compState["supply"][m].index

LEMMA DeployedRewardsInitially ==
  ASSUME NEW cf, NEW rf, NEW etherSeed, DeployedWith(cf, rf, etherSeed),
         NEW weights \in [RewardMarkets -> Nat], DeployedRewardedInit(cf, rf, etherSeed, weights)
  PROVE  RewardsSound /\ NothingDue
<1>1. /\ DeployedInit(cf, rf, etherSeed) /\ flywheel = deployedFlywheel(weights) /\ CompInit
      /\ IndInv
  BY DeployedEstablishes DEF DeployedRewardedInit
<1>2. /\ RewardMarkets = Markets /\ compInitialIndex \in Nat /\ compInitialIndex > 0
      /\ 1 \in DOMAIN distributionSchedule /\ distributionSchedule[1].compSpeed \in Nat
      /\ block = 0 /\ ComptrollerAddress \in Holders /\ expScale \in Nat
  BY <1>1, RewardedMarketAssumption, RewardConstants, ScheduleEntries, CompFlywheelAssumption,
     MoneyMarketAssumption, ExpScaleAssumption DEF DeployedInit, compInitialIndex
<1> DEFINE states  == [side \in Sides |-> [m \in Markets |-> [index |-> compInitialIndex, block |-> 0]]]
           own     == [m \in Markets |->
                         [h \in Holders |-> IF h = ComptrollerAddress THEN compInitialIndex ELSE 0]]
           indexes == [[side \in Sides |-> [m \in Markets |-> [h \in Holders |-> 0]]]
                         EXCEPT !["supply"] = own]
<1>3. /\ flywheel.compState = states /\ flywheel.accountIndex = indexes
      /\ flywheel.compAccrued = [h \in Holders |-> 0]
      /\ flywheel.compSpeed = [side \in Sides |-> distributionSchedule[1].compSpeed]
      /\ flywheel.compWeight = weights
      /\ flywheel.contributorSpeed = [h \in Holders |-> 0]
      /\ flywheel.lastContributorBlock = [h \in Holders |-> 0]
      /\ flywheel = [compState |-> states, accountIndex |-> indexes,
                     compAccrued |-> [h \in Holders |-> 0],
                     compSpeed |-> [side \in Sides |-> distributionSchedule[1].compSpeed],
                     compWeight |-> weights, contributorSpeed |-> [h \in Holders |-> 0],
                     lastContributorBlock |-> [h \in Holders |-> 0]]
  BY <1>1, <1>2 DEF deployedFlywheel, initialFlywheel
<1>4. /\ states \in [Sides -> [RewardMarkets -> CompMarketState]]
      /\ indexes \in [Sides -> [RewardMarkets -> [Holders -> Nat]]]
      /\ "supply" \in Sides /\ "borrow" \in Sides /\ indexes["supply"] = own
      /\ \A side \in Sides : indexes[side] = IF side = "supply" THEN own
                                            ELSE [m \in Markets |-> [h \in Holders |-> 0]]
  BY <1>2 DEF CompMarketState, Sides
<1>5. RewardsTypeOK
  <2>1. flywheel \in FlywheelStorage
    BY <1>2, <1>3, <1>4 DEF FlywheelStorage
  <2> QED  BY <1>1, <2>1, RewardedMarketAssumption DEF CompInit, RewardsTypeOK, CompHolders
<1>6. RecordsArePast
  <2>1. dripped <= dripRate * block
    BY <1>1, <1>2, RewardedMarketAssumption DEF CompInit
  <2>2. recordsArePast(flywheel, 0)
    BY <1>2, <1>3, <1>4 DEF recordsArePast
  <2> QED  BY <1>2, <2>1, <2>2 DEF RecordsArePast
<1>7. SpeedsAreScheduled
  <2>1. \A side \in Sides : flywheel.compSpeed[side] = distributionSchedule[1].compSpeed
    BY <1>3
  <2> QED  BY <1>2, <2>1 DEF SpeedsAreScheduled
<1>8. ASSUME NEW m \in Markets
      PROVE  /\ ctoken[m].borrowIndex = expScale /\ isListed(m)
             /\ \A h \in Holders \ {ComptrollerAddress} : ctoken[m].accountTokens[h] = 0
             /\ \A h \in Holders : ctoken[m].accountBorrows[h].principal = 0
  <2>1. ctoken[m] = seededMarket(m, firstSeed(m, etherSeed), rf[m]) /\ isListed(m)
    BY <1>1 DEF DeployedInit, seededMarket, firstSeed, deployedComptroller, isListed
  <2>2. rf[m] \in 0 .. reserveFactorMaxMantissa
    BY DEF DeployedWith
  <2>3. firstSeed(m, etherSeed) \in Nat
    BY FirstSeedNat
  <2> QED  BY <2>1, <2>2, <2>3, SeededMarketValid, SeededHolders
<1>9. HoldersHaveIndexes
  <2> SUFFICES ASSUME NEW m \in Markets, NEW h \in Holders
               PROVE  /\ ctoken[m].accountTokens[h] > 0 => flywheel.accountIndex["supply"][m][h] > 0
                      /\ ctoken[m].accountBorrows[h].principal > 0
                           => flywheel.accountIndex["borrow"][m][h] > 0
    BY DEF HoldersHaveIndexes
  <2>1. CASE h = ComptrollerAddress
    BY <1>2, <1>3, <1>4, <1>8, <2>1
  <2>2. CASE h # ComptrollerAddress
    BY <1>8, <2>2
  <2> QED  BY <2>1, <2>2
<1>10. RewardsStarted
  <2>1. \A m \in Markets, side \in Sides : flywheel.compState[side][m].index = compInitialIndex
    BY <1>3
  <2> QED  BY <1>2, <1>8, <1>9, <2>1 DEF RewardsStarted
<1>11. NothingDue
  <2>1. /\ block = 0 /\ CompInit
        /\ \A side \in Sides : flywheel.compSpeed[side] = distributionSchedule[1].compSpeed
        /\ \A h \in Holders : flywheel.compAccrued[h] = 0 /\ flywheel.contributorSpeed[h] = 0
        /\ \A side \in Sides, m \in RewardMarkets : flywheel.compState[side][m].block = 0
    BY <1>1, <1>2, <1>3
  <2>2. ASSUME NEW m \in RewardMarkets, NEW h \in Holders
        PROVE  /\ ctoken[m].accountBorrows[h].principal = 0
               /\ \/ ctoken[m].accountTokens[h] = 0
                  \/ flywheel.accountIndex["supply"][m][h] = flywheel.compState["supply"][m].index
    <3>1. CASE h = ComptrollerAddress
      BY <1>2, <1>3, <1>4, <1>8, <3>1
    <3>2. CASE h # ComptrollerAddress
      BY <1>2, <1>8, <3>2
    <3> QED  BY <3>1, <3>2
  <2> QED  BY <2>1, <2>2 DEF NothingDue
<1> QED  BY <1>1, <1>5, <1>6, <1>7, <1>10, <1>11 DEF RewardsSound, RewardsInv

\* Whatever factors, seeds and weights deploy/ is given: from there on the
\* records stay past, the speeds scheduled, and nothing that is earned is lost.
THEOREM DeployedRewardsAreKept ==
  ASSUME NEW cf, NEW rf, NEW etherSeed, DeployedWith(cf, rf, etherSeed),
         NEW weights \in [RewardMarkets -> Nat]
  PROVE  DeployedRewardedInit(cf, rf, etherSeed, weights) /\ [][RewardedNext]_rewardedVars =>
            /\ [](RewardsTypeOK /\ RecordsArePast /\ SpeedsAreScheduled /\ HoldersHaveIndexes)
            /\ RewardsNeverShrink
<1>1. DeployedRewardedInit(cf, rf, etherSeed, weights) => RewardsSound
  BY DeployedRewardsInitially
<1>2. RewardsSound => RewardsTypeOK /\ RecordsArePast /\ SpeedsAreScheduled /\ HoldersHaveIndexes
  BY DEF RewardsSound, RewardsInv, RewardsStarted
<1> QED  BY <1>1, <1>2, RewardsSoundFrom, WorthKeptFrom, PTL
=============================================================================
