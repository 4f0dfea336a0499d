---------------------------- MODULE ClaimsProofs ----------------------------
(***************************************************************************)
(* COMP for all parameters: the Comptroller never promises more than what  *)
(* the Reservoir drips to it. What is promised to all together and what    *)
(* was paid grow by no transaction but a grant, and by no more in a block  *)
(* than what the speeds emit in it.                                        *)
(***************************************************************************)
EXTENDS RewardedMarketProofs

-----------------------------------------------------------------------------
(* What is promised and what was paid                                       *)

\* What is promised and what was paid, in parts of a COMP
outlay == promised(flywheel, ctoken, block) + doubleScale * compClaimed

\* A transaction without interest promises nothing new.
OutlayKept == NoInterest => outlay' <= outlay

LEMMA OutlayNat ==
  ASSUME IndInv, RewardsInv
  PROVE  outlay \in Nat /\ promised(flywheel, ctoken, block) \in Nat /\ doubleScale * compClaimed \in Nat
<1>1. promised(flywheel, ctoken, block) \in Nat
  BY BookWellStored, FlywheelKept, PromisedNat
<1>2. doubleScale * compClaimed \in Nat
  BY DoubleScaleNat DEF RewardsInv, RewardsTypeOK
<1> QED  BY <1>1, <1>2 DEF outlay

\* Promises to the accounts that are no more are an outlay that is no more.
LEMMA OutlaySuffices ==
  ASSUME IndInv, RewardsInv, compClaimed' = compClaimed,
         NoInterest => promised(flywheel', ctoken', block') <= promised(flywheel, ctoken, block),
         promised(flywheel', ctoken', block') \in Nat
  PROVE  OutlayKept
<1>1. outlay' = promised(flywheel', ctoken', block') + doubleScale * compClaimed
  BY DEF outlay
<1>2. promised(flywheel, ctoken, block) \in Nat /\ doubleScale * compClaimed \in Nat
  BY OutlayNat
<1> QED  BY <1>1, <1>2 DEF OutlayKept, outlay

\* Settled markets promise what they did, at the flywheel after the hooks.
LEMMA SettledOutlay ==
  ASSUME IndInv, IndInv', RewardsInv, RewardsStarted, NEW f, wellKept(f, block),
         flywheel' = f, block' = block, compClaimed' = compClaimed,
         \A k \in Markets : Settled(k, f),
         NoInterest => promised(f, ctoken, block) <= promised(flywheel, ctoken, block)
  PROVE  OutlayKept
<1>2. /\ wellStored(ctoken) /\ block \in Nat /\ wellKept(flywheel, block) /\ RewardMarkets = Markets
  BY BookWellStored, FlywheelKept, RewardConstants
<1>3. wellStored(ctoken')
  BY StoredNext DEF wellStored
<1>4. promised(f, ctoken', block) \in Nat /\ promised(f, ctoken, block) \in Nat
  BY <1>2, <1>3, PromisedNat
<1>5. ASSUME NoInterest PROVE promised(f, ctoken', block) <= promised(flywheel, ctoken, block)
  <2>1. \A k \in RewardMarkets :
           marketPromised(f, k, ctoken'[k], block) = marketPromised(f, k, ctoken[k], block)
    BY <1>2, <1>5, SettledPromises DEF NoInterest
  <2>2. credits(f, block) <= credits(f, block)
    BY <1>2, CreditsNat
  <2>3. \A k \in RewardMarkets :
           marketPromised(f, k, ctoken'[k], block) <= marketPromised(f, k, ctoken[k], block)
    BY <1>2, <2>1, PromisedNat
  <2>4. promised(f, ctoken', block) <= promised(f, ctoken, block)
    BY <1>2, <1>3, <2>2, <2>3, PromisedFewer
  <2>5. promised(f, ctoken, block) <= promised(flywheel, ctoken, block)
    BY <1>5
  <2> QED  BY <1>4, <2>4, <2>5, OutlayNat
<1> QED  BY <1>4, <1>5, OutlaySuffices

\* The hooks of a transaction
LEMMA HookPromises ==
  ASSUME IndInv, IndInv', RewardsInv, RewardsStarted, NEW f, HookTurn(f)
  PROVE  OutlayKept
<1>1. /\ flywheel' = f /\ wellKept(f, block) /\ block' = block /\ compClaimed' = compClaimed
      /\ \A k \in Markets : Settled(k, f)
      /\ NoInterest => promised(f, ctoken, block) <= promised(flywheel, ctoken, block)
  BY DEF HookTurn, Hooked, compVars
<1> QED  BY <1>1, SettledOutlay

\* A side on which every account has the index of the market, or has begun
\* with it, and with nothing to share promises nothing.
LEMMA NothingPromised ==
  ASSUME NEW now \in Nat, NEW f, wellKept(f, now), NEW side \in Sides, NEW m \in RewardMarkets,
         NEW s \in CTokenStorage, validSnapshots(s), unshared(f, side, m, now) = 0,
         \A h \in Holders : lead(f.compState[side][m].index, f.accountIndex[side][m][h]) = 0
  PROVE  sidePromised(f, side, m, s, now) = 0
<1>1. ASSUME NEW h \in Holders PROVE due(f, side, m, s, h) = 0
  <2> DEFINE n == shares(side, s, h)
  <2>1. n \in Nat
    BY SharesNat
  <2>2. due(f, side, m, s, h) = n * lead(f.compState[side][m].index, f.accountIndex[side][m][h])
    BY DEF due
  <2> HIDE DEF n
  <2>3. \A x \in Nat : x * 0 = 0
    OBVIOUS
  <2> QED  BY <2>1, <2>2, <2>3
<1> DEFINE e == [h \in Holders |-> due(f, side, m, s, h)]
<1>2. \A h \in Holders : e[h] = 0
  BY <1>1
<1>3. unpaid(f, side, m, s) = SumFunctionOnSet(e, Holders)
  BY DEF unpaid
<1> HIDE DEF e
<1>4. unpaid(f, side, m, s) = 0
  BY <1>2, <1>3, HoldersFinite, SumZeros
<1> QED  BY <1>4 DEF sidePromised

\* A market without weight has no speed.
LEMMA NoWeightNoSpeed ==
  ASSUME NEW f \in FlywheelStorage, NEW m \in RewardMarkets, f.compWeight[m] = 0,
         NEW side \in Sides
  PROVE  marketSpeed(f, side, m) = 0
<1> DEFINE W == getTotalCompWeight(f)
           S == f.compSpeed[side]
<1>1. S \in Nat /\ \A k \in RewardMarkets : f.compWeight[k] \in Nat
  BY FlywheelFields
<1>2. SumFunctionOnSet(f.compWeight, RewardMarkets) \in Nat
  BY <1>1, CompFlywheelAssumption, SumNat
<1>3. W \in Nat /\ W # 0
  BY <1>2 DEF getTotalCompWeight
<1>4. expScale \in Nat /\ expScale # 0
  BY ExpScaleAssumption
<1>5. marketSpeed(f, side, m) = mul_Exp(S, div_Exp(0, W))
  BY DEF marketSpeed
<1> HIDE DEF W, S
<1>6. \A x \in Nat : x # 0 => 0 \div x = 0
  OBVIOUS
<1>7. \A x \in Nat : x * 0 = 0 /\ 0 * x = 0
  OBVIOUS
<1>8. div_Exp(0, W) = 0
  BY <1>3, <1>4, <1>6, <1>7 DEF div_Exp
<1>9. mul_Exp(S, 0) = 0
  BY <1>1, <1>4, <1>6, <1>7 DEF mul_Exp
<1> QED  BY <1>5, <1>8, <1>9

\* A market that has not started has promised nothing, and begins with nothing.
LEMMA InitializePromises ==
  ASSUME NEW now \in Nat, NEW f, wellKept(f, now), NEW m \in RewardMarkets, notStarted(f, m),
         NEW ct, wellStored(ct), NEW g, g = initializeMarket(f, m, now)
  PROVE  promised(g, ct, now) <= promised(f, ct, now)
<1>1. /\ wellKept(g, now) /\ sameContributors(f, g)
      /\ g.compWeight = f.compWeight /\ g.compSpeed = f.compSpeed
      /\ g.accountIndex = f.accountIndex /\ g.compAccrued = f.compAccrued
      /\ \A d \in Sides : g.compState[d][m] = [index |-> compInitialIndex, block |-> now]
      /\ \A d \in Sides, k \in RewardMarkets : k # m => g.compState[d][k] = f.compState[d][k]
  BY InitializeFields
<1>2. compInitialIndex \in Nat /\ compInitialIndex > 0
  BY CompFlywheelAssumption DEF compInitialIndex
<1>3. ASSUME NEW d \in Sides
      PROVE  /\ sidePromised(f, d, m, ct[m], now) = 0
             /\ sidePromised(g, d, m, ct[m], now) = 0
  <2>1. ct[m] \in CTokenStorage /\ validSnapshots(ct[m])
    BY DEF wellStored
  <2>2. f.compState[d][m].index = 0 /\ f.compWeight[m] = 0
    BY DEF notStarted
  <2>3. \A h \in Holders : f.accountIndex[d][m][h] = 0
    <3>1. \A x \in Nat : x <= 0 => x = 0
      OBVIOUS
    <3>2. \A h \in Holders : /\ f.accountIndex[d][m][h] \in Nat
                              /\ f.accountIndex[d][m][h] <= f.compState[d][m].index
      BY IndexesNat
    <3> QED  BY <2>2, <3>1, <3>2
  <2>4. g.compState[d][m].index = compInitialIndex /\ g.compState[d][m].block = now
    BY <1>1
  <2>5. \A h \in Holders : /\ lead(f.compState[d][m].index, f.accountIndex[d][m][h]) = 0
                            /\ lead(g.compState[d][m].index, g.accountIndex[d][m][h]) = 0
    BY <1>1, <1>2, <2>2, <2>3, <2>4 DEF lead
  <2>6. \A x \in Nat : x * 0 = 0 /\ 0 * x = 0
    OBVIOUS
  <2>7. unshared(f, d, m, now) = 0
    <3> DEFINE age == now - f.compState[d][m].block
    <3>1. age \in Nat
      BY IndexesNat
    <3>2. marketSpeed(f, d, m) = 0
      BY <2>2, NoWeightNoSpeed DEF wellKept
    <3>3. unshared(f, d, m, now) = (age * 0) * doubleScale
      BY <3>2 DEF unshared
    <3> HIDE DEF age
    <3> QED  BY <2>6, <3>1, <3>3, DoubleScaleNat
  <2>8. unshared(g, d, m, now) = 0
    <3>1. marketSpeed(g, d, m) \in Nat
      BY <1>1, MarketSpeedNat DEF wellKept
    <3>2. now - g.compState[d][m].block = 0
      BY <2>4
    <3>3. unshared(g, d, m, now) = (0 * marketSpeed(g, d, m)) * doubleScale
      BY <3>2 DEF unshared
    <3> QED  BY <2>6, <3>1, <3>3, DoubleScaleNat
  <2> QED  BY <1>1, <2>1, <2>5, <2>7, <2>8, NothingPromised
<1>4. ASSUME NEW d \in Sides, NEW k \in RewardMarkets
      PROVE  sidePromised(g, d, k, ct[k], now) = sidePromised(f, d, k, ct[k], now)
  <2>1. CASE k = m
    BY <1>3, <2>1
  <2>2. CASE k # m
    <3>1. /\ g.compState[d][k] = f.compState[d][k]
          /\ marketSpeed(g, d, k) = marketSpeed(f, d, k)
          /\ \A h \in Holders : g.accountIndex[d][k][h] = f.accountIndex[d][k][h]
      BY <1>1, <2>2, SpeedDepends
    <3> QED  BY <3>1, SideDepends
  <2> QED  BY <2>1, <2>2
<1>5. credits(g, now) = credits(f, now)
  BY <1>1, CreditsDepend DEF sameContributors
<1>6. \A k \in RewardMarkets : marketPromised(g, k, ct[k], now) = marketPromised(f, k, ct[k], now)
  BY <1>4 DEF marketPromised, Sides
<1>7. credits(g, now) <= credits(f, now)
  BY <1>5, CreditsNat
<1>8. \A k \in RewardMarkets : marketPromised(g, k, ct[k], now) <= marketPromised(f, k, ct[k], now)
  BY <1>6, PromisedNat
<1> QED  BY <1>1, <1>7, <1>8, PromisedFewer

\* A listing promises nothing new.
LEMMA ListingPromises ==
  ASSUME IndInv, IndInv', RewardsInv, RewardsStarted, NEW m \in Markets, ListingSteps(m)
  PROVE  OutlayKept
<1>1. PICK s, u, g : opens(m, s, u, g)
  BY ListingOpens
<1>2. /\ flywheel' = g /\ block' = block /\ compClaimed' = compClaimed
      /\ s \in CTokenStorage /\ validSnapshots(s) /\ Start(m, s)
      /\ notStarted(flywheel, m) /\ u = initializeMarket(flywheel, m, block)
      /\ g = spin(u, "supply", m, s, block, ComptrollerAddress)
      /\ wellKept(u, block) /\ wellKept(g, block)
      /\ u.compState["supply"][m] = [index |-> compInitialIndex, block |-> block]
      /\ \A k \in Markets : Settled(k, g)
  BY <1>1 DEF opens, compVars, Sides
<1>3. /\ "supply" \in Sides /\ m \in RewardMarkets /\ block \in Nat
      /\ wellKept(flywheel, block) /\ ComptrollerAddress \in Holders /\ wellStored(ctoken)
  BY RewardConstants, FlywheelKept, AccountsAreHolders, BookWellStored DEF Sides
<1>4. promised(u, ctoken, block) <= promised(flywheel, ctoken, block)
  BY <1>2, <1>3, InitializePromises
<1>5. ASSUME NoInterest PROVE promised(g, ctoken, block) <= promised(u, ctoken, block)
  <2>1. /\ sharesSum("supply", ctoken[m]) <= totalShares("supply", ctoken[m])
        /\ ctoken[m].borrowIndex >= expScale
    BY <1>3, <1>5 DEF NoInterest, wellShared, RewardsStarted
  <2>2. s.accountTokens = ctoken[m].accountTokens /\ s.totalSupply = ctoken[m].totalSupply
    BY <1>2, <2>1, StartFields
  <2>3. /\ \A h \in Holders : shares("supply", s, h) = shares("supply", ctoken[m], h)
        /\ totalShares("supply", s) = totalShares("supply", ctoken[m])
    BY <2>2 DEF shares, totalShares
  <2>4. sharesSum("supply", s) = sharesSum("supply", ctoken[m])
    BY <2>3, SideOfShares
  <2>5. u.compState["supply"][m].index >= compInitialIndex
    BY <1>2, CompFlywheelAssumption DEF compInitialIndex
  <2>6. sharesSum("supply", s) <= totalShares("supply", s)
    BY <2>1, <2>3, <2>4
  <2> QED  BY <1>2, <1>3, <2>3, <2>5, <2>6, SpinPromisesNoMore
<1>6. ASSUME NoInterest PROVE promised(g, ctoken, block) <= promised(flywheel, ctoken, block)
  <2>1. /\ promised(g, ctoken, block) \in Nat /\ promised(u, ctoken, block) \in Nat
        /\ promised(flywheel, ctoken, block) \in Nat
    BY <1>2, <1>3, PromisedNat
  <2> QED  BY <1>4, <1>5, <1>6, <2>1
<1> QED  BY <1>2, <1>6, SettledOutlay
-----------------------------------------------------------------------------
(* New rates: speeds, weights, contributors                                *)

\* New speeds or weights promise nothing new where an update came before them,
\* where they are what they were, and where a market has no weight.
LEMMA RatesPromiseNoMore ==
  ASSUME IndInv, RewardsInv, RewardsStarted, NEW sides, NEW g, wellKept(g, block),
         g.accountIndex = flywheel.accountIndex,
         \A d \in Sides, k \in RewardMarkets :
            g.compState[d][k] = IF d \in sides /\ k \in listedMarkets
                                THEN updatedIndex(flywheel, d, k, ctoken[k], block)
                                ELSE flywheel.compState[d][k],
         \A d \in Sides \ sides : /\ g.compSpeed[d] = flywheel.compSpeed[d]
                                  /\ g.compWeight = flywheel.compWeight,
         \A m \in Markets : ~isListed(m) => sameMarket(g, flywheel, m),
         g.compAccrued = flywheel.compAccrued,
         g.contributorSpeed = flywheel.contributorSpeed,
         g.lastContributorBlock = flywheel.lastContributorBlock,
         \A m \in Markets : wellShared(ctoken[m])
  PROVE  promised(g, ctoken, block) <= promised(flywheel, ctoken, block)
<1>1. /\ wellStored(ctoken) /\ block \in Nat /\ wellKept(flywheel, block) /\ RewardMarkets = Markets
  BY BookWellStored, FlywheelKept, RewardConstants
<1>2. ASSUME NEW d \in Sides, NEW k \in RewardMarkets
      PROVE  sidePromised(g, d, k, ctoken[k], block) <= sidePromised(flywheel, d, k, ctoken[k], block)
  <2> DEFINE c == ctoken[k]
  <2>1. /\ c \in CTokenStorage /\ validSnapshots(c) /\ sharesSum(d, c) <= totalShares(d, c)
        /\ k \in listedMarkets <=> isListed(k)
    BY <1>1 DEF wellStored, wellShared, listedMarkets
  <2>2. /\ sidePromised(flywheel, d, k, c, block) \in Nat
        /\ \A h \in Holders : g.accountIndex[d][k][h] = flywheel.accountIndex[d][k][h]
    BY <1>1, <2>1, DueNat
  <2>3. g.compState[d][k] = IF d \in sides /\ isListed(k)
                            THEN updatedIndex(flywheel, d, k, c, block)
                            ELSE flywheel.compState[d][k]
    BY <2>1
  <2> HIDE DEF c
  <2>4. CASE d \in sides /\ isListed(k)
    <3>1. flywheel.compState[d][k].index >= compInitialIndex
      BY <1>1, <2>4 DEF RewardsStarted
    <3>2. g.compState[d][k] = updatedIndex(flywheel, d, k, c, block)
      BY <2>3, <2>4
    <3>3. sidePromised(g, d, k, c, block) <= sidePromised(flywheel, d, k, c, block)
      BY <1>1, <2>1, <2>2, <3>1, <3>2, UpdatePromises
    <3> QED  BY <3>3 DEF c
  <2>5. CASE d \notin sides
    <3>1. /\ g.compState[d][k] = flywheel.compState[d][k]
          /\ marketSpeed(g, d, k) = marketSpeed(flywheel, d, k)
      BY <2>3, <2>5 DEF marketSpeed, getTotalCompWeight
    <3>2. sidePromised(g, d, k, c, block) = sidePromised(flywheel, d, k, c, block)
      BY <1>1, <2>2, <3>1, SideDepends
    <3> QED  BY <2>2, <3>2 DEF c
  <2>6. CASE ~isListed(k)
    <3>1. notStarted(flywheel, k) /\ sameMarket(g, flywheel, k)
      BY <1>1, <2>6 DEF RewardsStarted
    <3>2. g.compWeight[k] = 0 /\ g.compState[d][k].index = 0
      BY <3>1 DEF notStarted, sameMarket
    <3>3. unshared(g, d, k, block) = 0
      <4> DEFINE age == block - g.compState[d][k].block
      <4>1. age \in Nat
        BY <1>1, IndexesNat
      <4>2. marketSpeed(g, d, k) = 0
        BY <3>2, NoWeightNoSpeed DEF wellKept
      <4>3. unshared(g, d, k, block) = (age * 0) * doubleScale
        BY <4>2 DEF unshared
      <4> HIDE DEF age
      <4>4. \A x \in Nat : x * 0 = 0 /\ 0 * x = 0
        OBVIOUS
      <4> QED  BY <4>1, <4>3, <4>4, DoubleScaleNat
    <3>4. \A h \in Holders : lead(g.compState[d][k].index, g.accountIndex[d][k][h]) = 0
      <4>1. \A x \in Nat : x <= 0 => x = 0
        OBVIOUS
      <4>2. \A h \in Holders : /\ g.accountIndex[d][k][h] \in Nat
                               /\ g.accountIndex[d][k][h] <= g.compState[d][k].index
        BY <1>1, IndexesNat
      <4>3. compInitialIndex \in Nat /\ compInitialIndex > 0
        BY CompFlywheelAssumption DEF compInitialIndex
      <4> QED  BY <3>2, <4>1, <4>2, <4>3 DEF lead
    <3>5. sidePromised(g, d, k, c, block) = 0
      BY <1>1, <2>1, <3>3, <3>4, NothingPromised
    <3> QED  BY <2>2, <3>5 DEF c
  <2> QED  BY <2>4, <2>5, <2>6
<1>3. credits(g, block) <= credits(flywheel, block)
  BY <1>1, CreditsDepend, CreditsNat
<1>4. ASSUME NEW k \in RewardMarkets
      PROVE  marketPromised(g, k, ctoken[k], block) <= marketPromised(flywheel, k, ctoken[k], block)
  <2>1. ctoken[k] \in CTokenStorage /\ validSnapshots(ctoken[k]) /\ "supply" \in Sides /\ "borrow" \in Sides
    BY <1>1 DEF wellStored, Sides
  <2>2. \A d \in Sides : /\ sidePromised(flywheel, d, k, ctoken[k], block) \in Nat
                         /\ sidePromised(g, d, k, ctoken[k], block) \in Nat
    BY <1>1, <2>1, DueNat
  <2>3. \A a, b, c, d \in Nat : a <= b /\ c <= d => a + c <= b + d
    OBVIOUS
  <2> QED  BY <1>2, <2>1, <2>2, <2>3 DEF marketPromised
<1> QED  BY <1>1, <1>3, <1>4, PromisedFewer

\* _setCompSpeeds and
LEMMA SetCompSpeedsPromises ==
  ASSUME IndInv, RewardsInv, RewardsInv', RewardsStarted, NEW caller, NEW supplySpeed \in Nat,
         NEW borrowSpeed \in Nat, SetCompSpeeds(caller, supplySpeed, borrowSpeed)
  PROVE  OutlayKept
<1> DEFINE speeds == [side \in Sides |-> IF side = "supply" THEN supplySpeed ELSE borrowSpeed]
           changed == {side \in Sides : flywheel.compSpeed[side] # speeds[side]}
           g == updateAll(flywheel, changed, listedMarkets, ctoken, block)
           f == [g EXCEPT !.compSpeed = speeds]
<1>1. flywheel' = f /\ UNCHANGED compVars /\ UNCHANGED vars
  BY DEF SetCompSpeeds, setCompSpeedInternal, Turn
<1>2. speeds \in [Sides -> Nat] /\ \A d \in Sides \ changed : speeds[d] = flywheel.compSpeed[d]
  BY DEF Sides
<1> HIDE DEF changed, speeds
<1>3. /\ wellKept(g, block) /\ sameButStates(flywheel, g)
      /\ \A d \in Sides, k \in RewardMarkets :
            g.compState[d][k] = IF d \in changed /\ k \in listedMarkets
                                THEN updatedIndex(flywheel, d, k, ctoken[k], block)
                                ELSE flywheel.compState[d][k]
  BY UpdateAllFields
<1> HIDE DEF g
<1>4. /\ f.compSpeed = speeds /\ f.compState = g.compState /\ f.accountIndex = g.accountIndex
      /\ f.compAccrued = g.compAccrued /\ f.compWeight = g.compWeight
      /\ f.contributorSpeed = g.contributorSpeed
      /\ f.lastContributorBlock = g.lastContributorBlock
  BY <1>3 DEF wellKept, FlywheelStorage
<1> HIDE DEF f
<1>5. /\ block' = block /\ ctoken' = ctoken /\ compClaimed' = compClaimed
      /\ wellKept(f, block)
  BY <1>1 DEF vars, compVars, RewardsInv, RewardsTypeOK, RecordsArePast, wellKept
<1>6. /\ f.accountIndex = flywheel.accountIndex /\ f.compAccrued = flywheel.compAccrued
      /\ f.contributorSpeed = flywheel.contributorSpeed
      /\ f.lastContributorBlock = flywheel.lastContributorBlock
      /\ f.compWeight = flywheel.compWeight
  BY <1>3, <1>4 DEF sameButStates
<1>7. ASSUME NEW m \in Markets, ~isListed(m) PROVE sameMarket(f, flywheel, m)
  <2>1. m \in RewardMarkets /\ m \notin listedMarkets
    BY <1>7, RewardConstants DEF listedMarkets
  <2> QED  BY <1>3, <1>4, <1>6, <2>1 DEF sameMarket
<1>8. \A d \in Sides \ changed : /\ f.compSpeed[d] = flywheel.compSpeed[d]
                                 /\ f.compWeight = flywheel.compWeight
  BY <1>2, <1>4, <1>6
<1>9. \A d \in Sides, k \in RewardMarkets :
         f.compState[d][k] = IF d \in changed /\ k \in listedMarkets
                             THEN updatedIndex(flywheel, d, k, ctoken[k], block)
                             ELSE flywheel.compState[d][k]
  BY <1>3, <1>4
<1>10. NoInterest => promised(f, ctoken, block) <= promised(flywheel, ctoken, block)
  <2> SUFFICES ASSUME NoInterest PROVE promised(f, ctoken, block) <= promised(flywheel, ctoken, block)
    OBVIOUS
  <2>1. \A m \in Markets : wellShared(ctoken[m])
    BY DEF NoInterest
  <2> QED  BY <1>5, <1>6, <1>7, <1>8, <1>9, <2>1, RatesPromiseNoMore
<1>11. promised(f, ctoken, block) \in Nat
  BY <1>5, BookWellStored, PromisedNat
<1> QED  BY <1>1, <1>5, <1>10, <1>11, OutlaySuffices

\* _setCompWeight promise nothing new.
LEMMA SetCompWeightPromises ==
  ASSUME IndInv, RewardsInv, RewardsInv', RewardsStarted, NEW m \in Markets, NEW weight \in Nat,
         SetCompWeight(m, weight)
  PROVE  OutlayKept
<1> DEFINE g == updateAll(flywheel, Sides, listedMarkets, ctoken, block)
           f == [g EXCEPT !.compWeight[m] = weight]
<1>1. (flywheel' = g \/ flywheel' = f) /\ UNCHANGED compVars /\ UNCHANGED vars /\ isListed(m)
  BY DEF SetCompWeight, Turn
<1>2. /\ wellKept(g, block) /\ sameButStates(flywheel, g)
      /\ \A d \in Sides, k \in RewardMarkets :
            g.compState[d][k] = IF d \in Sides /\ k \in listedMarkets
                                THEN updatedIndex(flywheel, d, k, ctoken[k], block)
                                ELSE flywheel.compState[d][k]
  BY UpdateAllFields
<1> HIDE DEF g
<1>3. /\ f.compSpeed = g.compSpeed /\ f.compState = g.compState /\ f.accountIndex = g.accountIndex
      /\ f.compAccrued = g.compAccrued
      /\ f.contributorSpeed = g.contributorSpeed
      /\ f.lastContributorBlock = g.lastContributorBlock
      /\ \A k \in RewardMarkets : k # m => f.compWeight[k] = g.compWeight[k]
  BY <1>2 DEF wellKept, FlywheelStorage
<1> HIDE DEF f
<1> DEFINE e == flywheel'
<1>4. /\ e.compState = g.compState /\ e.accountIndex = g.accountIndex
      /\ e.compAccrued = g.compAccrued
      /\ e.contributorSpeed = g.contributorSpeed
      /\ e.lastContributorBlock = g.lastContributorBlock
      /\ \A k \in RewardMarkets : k # m => e.compWeight[k] = g.compWeight[k]
  BY <1>1, <1>3
<1>5. /\ block' = block /\ ctoken' = ctoken /\ compClaimed' = compClaimed
      /\ wellKept(e, block)
  BY <1>1 DEF vars, compVars, RewardsInv, RewardsTypeOK, RecordsArePast, wellKept
<1>e. flywheel' = e
  OBVIOUS
<1> HIDE DEF e
<1>6. /\ e.accountIndex = flywheel.accountIndex /\ e.compAccrued = flywheel.compAccrued
      /\ e.contributorSpeed = flywheel.contributorSpeed
      /\ e.lastContributorBlock = flywheel.lastContributorBlock
  BY <1>2, <1>4 DEF sameButStates
<1>7. ASSUME NEW k \in Markets, ~isListed(k) PROVE sameMarket(e, flywheel, k)
  <2>1. k \in RewardMarkets /\ k \notin listedMarkets /\ k # m
    BY <1>1, <1>7, RewardConstants DEF listedMarkets
  <2> QED  BY <1>2, <1>4, <2>1 DEF sameMarket, sameButStates
<1>8. \A d \in Sides, k \in RewardMarkets :
         e.compState[d][k] = IF d \in Sides /\ k \in listedMarkets
                             THEN updatedIndex(flywheel, d, k, ctoken[k], block)
                             ELSE flywheel.compState[d][k]
  BY <1>2, <1>4
<1>9. NoInterest => promised(e, ctoken, block) <= promised(flywheel, ctoken, block)
  <2> SUFFICES ASSUME NoInterest PROVE promised(e, ctoken, block) <= promised(flywheel, ctoken, block)
    OBVIOUS
  <2>1. \A k \in Markets : wellShared(ctoken[k])
    BY DEF NoInterest
  <2>2. \A d \in Sides \ Sides : /\ e.compSpeed[d] = flywheel.compSpeed[d]
                                 /\ e.compWeight = flywheel.compWeight
    OBVIOUS
  <2> QED  BY <1>5, <1>6, <1>7, <1>8, <2>1, <2>2, RatesPromiseNoMore
<1>10. promised(e, ctoken, block) \in Nat
  BY <1>5, BookWellStored, PromisedNat
<1> QED  BY <1>5, <1>9, <1>10, <1>e, OutlaySuffices

\* What the markets promise depends on states, indexes, speeds and weights.
LEMMA MarketsDepend ==
  ASSUME NEW now \in Nat, NEW f, NEW g, g.compState = f.compState,
         g.accountIndex = f.accountIndex, g.compSpeed = f.compSpeed, g.compWeight = f.compWeight,
         NEW ct
  PROVE  marketsPromised(g, ct, now) = marketsPromised(f, ct, now)
<1>1. ASSUME NEW d \in Sides, NEW k \in RewardMarkets
      PROVE  sidePromised(g, d, k, ct[k], now) = sidePromised(f, d, k, ct[k], now)
  <2>1. marketSpeed(g, d, k) = marketSpeed(f, d, k)
    BY SpeedDepends
  <2>2. /\ g.compState[d][k] = f.compState[d][k]
        /\ \A h \in Holders : g.accountIndex[d][k][h] = f.accountIndex[d][k][h]
    OBVIOUS
  <2> QED  BY <2>1, <2>2, SideDepends
<1>2. \A k \in RewardMarkets : marketPromised(g, k, ct[k], now) = marketPromised(f, k, ct[k], now)
  BY <1>1 DEF marketPromised, Sides
<1>3. [k \in RewardMarkets |-> marketPromised(g, k, ct[k], now)]
        = [k \in RewardMarkets |-> marketPromised(f, k, ct[k], now)]
  BY <1>2
<1> QED  BY <1>3 DEF marketsPromised

\* and what is promised.
LEMMA ContributorPromises ==
  ASSUME IndInv, RewardsInv, RewardsInv', NEW contributor \in Holders,
         \/ UpdateContributorRewards(contributor)
         \/ \E speed \in Nat : SetContributorCompSpeed(contributor, speed)
  PROVE  OutlayKept
<1> DEFINE e == flywheel'
<1>1. /\ UNCHANGED vars /\ UNCHANGED compVars /\ wellKept(e, block)
      /\ e.compState = flywheel.compState /\ e.accountIndex = flywheel.accountIndex
      /\ e.compSpeed = flywheel.compSpeed /\ e.compWeight = flywheel.compWeight
      /\ \A h \in Holders : credit(e, block, h) = credit(flywheel, block, h)
  BY ContributorFields
<1>2. block \in Nat /\ wellStored(ctoken) /\ wellKept(flywheel, block)
  BY BookWellStored, FlywheelKept
<1>3. /\ flywheel' = e /\ ctoken' = ctoken /\ block' = block /\ compClaimed' = compClaimed
  BY <1>1 DEF vars, compVars
<1> HIDE DEF e
<1>4. [h \in Holders |-> credit(e, block, h)] = [h \in Holders |-> credit(flywheel, block, h)]
  BY <1>1
<1>5. credits(e, block) = credits(flywheel, block)
  BY <1>4 DEF credits
<1>6. marketsPromised(e, ctoken, block) = marketsPromised(flywheel, ctoken, block)
  BY <1>1, <1>2, MarketsDepend
<1>7. promised(e, ctoken, block) = promised(flywheel, ctoken, block)
  BY <1>5, <1>6 DEF promised
<1>8. promised(flywheel, ctoken, block) \in Nat
  BY <1>2, PromisedNat
<1> QED  BY <1>3, <1>7, <1>8, OutlaySuffices

\* Reservoir.drip
LEMMA DripPromises ==
  ASSUME IndInv, RewardsInv, UNCHANGED vars, flywheel' = flywheel, compClaimed' = compClaimed
  PROVE  OutlayKept
<1>1. block' = block /\ ctoken' = ctoken
  BY DEF vars
<1>2. promised(flywheel, ctoken, block) \in Nat
  BY OutlayNat
<1> QED  BY <1>1, <1>2, OutlaySuffices
-----------------------------------------------------------------------------
(* Claims, grants and a new block                                          *)

\* What accounts are credited, without what runs since a contributor's block
accruals(amounts) == SumFunctionOnSet(amounts, Holders)

\* Credits are accruals and what contributors earned since.
LEMMA CreditsOfAccruals ==
  ASSUME NEW now \in Nat, NEW f, wellKept(f, now), NEW t, wellKept(t, now), sameContributors(f, t)
  PROVE  /\ credits(t, now) + accruals(f.compAccrued) = credits(f, now) + accruals(t.compAccrued)
         /\ accruals(f.compAccrued) \in Nat /\ accruals(t.compAccrued) \in Nat
<1> DEFINE since == [h \in Holders |-> (now - f.lastContributorBlock[h]) * f.contributorSpeed[h]]
           F == [h \in Holders |-> credit(f, now, h)]
           T == [h \in Holders |-> credit(t, now, h)]
           A == f.compAccrued
           B == t.compAccrued
<1>1. \A h \in Holders : since[h] \in Nat /\ A[h] \in Nat /\ B[h] \in Nat
  BY ContributionNat
<1>2. \A h \in Holders : F[h] = A[h] + since[h] /\ T[h] = B[h] + since[h]
  BY DEF credit, sameContributors
<1>3. /\ credits(f, now) = SumFunctionOnSet(F, Holders)
      /\ credits(t, now) = SumFunctionOnSet(T, Holders)
      /\ accruals(A) = SumFunctionOnSet(A, Holders) /\ accruals(B) = SumFunctionOnSet(B, Holders)
  BY DEF credits, accruals
<1> HIDE DEF since, F, T, A, B
<1>4. \A h \in Holders : since[h] \in Int /\ A[h] \in Int /\ B[h] \in Int
  BY <1>1
<1>5. SumFunctionOnSet(F, Holders) = SumFunctionOnSet(A, Holders) + SumFunctionOnSet(since, Holders)
  BY <1>2, <1>4, HoldersFinite, SumOfSums
<1>6. SumFunctionOnSet(T, Holders) = SumFunctionOnSet(B, Holders) + SumFunctionOnSet(since, Holders)
  BY <1>2, <1>4, HoldersFinite, SumOfSums
<1>7. /\ SumFunctionOnSet(A, Holders) \in Nat /\ SumFunctionOnSet(B, Holders) \in Nat
      /\ SumFunctionOnSet(since, Holders) \in Nat
  BY <1>1, HoldersFinite, SumNat
<1>8. \A a, b, s \in Nat : (b + s) + a = (a + s) + b
  OBVIOUS
<1> QED  BY <1>3, <1>5, <1>6, <1>7, <1>8 DEF A, B

\* A payment takes from the accruals what it adds to what was paid.
LEMMA GrantedClaims ==
  ASSUME NEW user \in Holders,
         NEW g \in [compAccrued : [Holders -> Nat], compBalance : [CompHolders -> Nat],
                    compClaimed : Nat],
         NEW e, e = granted(g, user)
  PROVE  /\ accruals(e.compAccrued) + e.compClaimed = accruals(g.compAccrued) + g.compClaimed
         /\ e.compClaimed \in Nat /\ e.compClaimed >= g.compClaimed
         /\ accruals(e.compAccrued) \in Nat /\ accruals(g.compAccrued) \in Nat
<1> DEFINE amount == g.compAccrued[user]
           A == g.compAccrued
           B == e.compAccrued
<1>1. g.compAccrued \in [Holders -> Nat] /\ g.compClaimed \in Nat /\ amount \in Nat
  OBVIOUS
<1>2. CASE amount > g.compBalance[ComptrollerAddress]
  <2>1. e = g
    BY <1>2 DEF granted
  <2>2. accruals(A) \in Nat
    BY <1>1, HoldersFinite, SumNat DEF accruals
  <2> QED  BY <1>1, <2>1, <2>2
<1>3. CASE ~(amount > g.compBalance[ComptrollerAddress])
  <2>1. B = [A EXCEPT ![user] = 0] /\ e.compClaimed = g.compClaimed + amount
    BY <1>3 DEF granted
  <2>2. /\ \A h \in Holders : A[h] \in Nat /\ B[h] \in Nat
        /\ A[user] = amount /\ B[user] = 0
        /\ \A h \in Holders \ {user} : B[h] = A[h]
    BY <1>1, <2>1
  <2> HIDE DEF A, B, amount
  <2>3. \A h \in Holders : A[h] \in Int /\ B[h] \in Int
    BY <2>2
  <2>4. SumFunctionOnSet(B, Holders) = SumFunctionOnSet(A, Holders) - A[user] + B[user]
    BY <2>2, <2>3, HoldersFinite, SumChange
  <2>5. SumFunctionOnSet(A, Holders) \in Nat /\ SumFunctionOnSet(B, Holders) \in Nat
    BY <2>2, HoldersFinite, SumNat
  <2>6. accruals(B) + e.compClaimed = accruals(A) + g.compClaimed
    BY <1>1, <2>1, <2>2, <2>4, <2>5 DEF accruals
  <2> QED  BY <1>1, <2>1, <2>5, <2>6 DEF accruals, A, B
<1> QED  BY <1>2, <1>3

\* claimComp
LEMMA ClaimCompPromises ==
  ASSUME IndInv, RewardsInv, RewardsInv', RewardsStarted,
         NEW first \in Holders, NEW second \in Holders, NEW m \in Markets, NEW c \in Markets,
         NEW sides, ClaimComp(first, second, m, c, sides)
  PROVE  OutlayKept /\ compClaimed' >= compClaimed
<1> DEFINE e  == collectedMarket(flywheel, m, first, second, sides)
           f  == collectedMarket(e, c, first, second, sides)
           g0 == [compAccrued |-> f.compAccrued, compBalance |-> drippedBalance,
                  compClaimed |-> compClaimed]
           g1 == granted(g0, first)
           g2 == granted(g1, second)
           t  == [f EXCEPT !.compAccrued = g2.compAccrued]
<1>1. /\ flywheel' = t /\ compClaimed' = g2.compClaimed /\ UNCHANGED vars
      /\ isListed(m) /\ isListed(c)
  BY DEF ClaimComp
<1>2. block' = block /\ ctoken' = ctoken /\ block \in Nat /\ wellKept(flywheel, block) /\ wellStored(ctoken)
  BY <1>1, FlywheelKept, BookWellStored DEF vars
<1>3. Hooked(e)
  BY <1>1, HookedFirst, CollectedMarketHooked
<1> HIDE DEF e
<1>4. Hooked(f)
  BY <1>1, <1>3, CollectedMarketHooked
<1> HIDE DEF f
<1>5. /\ wellKept(f, block) /\ f \in FlywheelStorage /\ f.compAccrued \in [Holders -> Nat]
      /\ NoInterest => promised(f, ctoken, block) <= promised(flywheel, ctoken, block)
  BY <1>4, FlywheelFields DEF Hooked, wellKept
<1> DEFINE paying == [compAccrued : [Holders -> Nat], compBalance : [CompHolders -> Nat],
                      compClaimed : Nat]
<1>6. g0 \in paying /\ g0.compAccrued = f.compAccrued /\ g0.compClaimed = compClaimed
  BY <1>5, DripBounds DEF RewardsInv, RewardsTypeOK
<1> HIDE DEF g0
<1>7. /\ g1 \in paying
      /\ accruals(g1.compAccrued) + g1.compClaimed = accruals(g0.compAccrued) + g0.compClaimed
      /\ g1.compClaimed >= g0.compClaimed /\ g1.compClaimed \in Nat /\ accruals(g1.compAccrued) \in Nat
  BY <1>6, GrantedTyped, GrantedClaims
<1> HIDE DEF g1
<1>8. /\ g2 \in paying
      /\ accruals(g2.compAccrued) + g2.compClaimed = accruals(g1.compAccrued) + g1.compClaimed
      /\ g2.compClaimed >= g1.compClaimed /\ g2.compClaimed \in Nat
  BY <1>7, GrantedTyped, GrantedClaims
<1> HIDE DEF g2
<1>9. /\ t.compAccrued = g2.compAccrued /\ t.compState = f.compState
      /\ t.accountIndex = f.accountIndex /\ t.compSpeed = f.compSpeed
      /\ t.compWeight = f.compWeight /\ sameContributors(f, t)
  BY <1>5 DEF FlywheelStorage, sameContributors
<1> HIDE DEF t
<1>10. wellKept(t, block)
  BY <1>1, <1>2 DEF RewardsInv, RewardsTypeOK, RecordsArePast, wellKept
<1>11. compClaimed \in Nat
  BY DEF RewardsInv, RewardsTypeOK
<1>12. /\ credits(t, block) + accruals(f.compAccrued) = credits(f, block) + accruals(t.compAccrued)
       /\ accruals(f.compAccrued) \in Nat /\ accruals(t.compAccrued) \in Nat
       /\ credits(t, block) \in Nat /\ credits(f, block) \in Nat
  BY <1>2, <1>5, <1>9, <1>10, CreditsOfAccruals, CreditsNat
<1>13. accruals(t.compAccrued) + compClaimed' = accruals(f.compAccrued) + compClaimed
  BY <1>1, <1>6, <1>7, <1>8, <1>9, <1>11
<1>14. credits(t, block) + compClaimed' = credits(f, block) + compClaimed
  BY <1>1, <1>8, <1>11, <1>12, <1>13
<1>15. doubleScale * credits(t, block) + doubleScale * compClaimed'
         = doubleScale * credits(f, block) + doubleScale * compClaimed
  <2>1. \A d, a, b, x, y \in Nat : a + b = x + y => d * a + d * b = d * x + d * y
    <3> SUFFICES ASSUME NEW d \in Nat, NEW a \in Nat, NEW b \in Nat, NEW x \in Nat, NEW y \in Nat, a + b = x + y
                 PROVE  d * a + d * b = d * x + d * y
      OBVIOUS
    <3>1. d * a + d * b = d * (a + b) /\ d * x + d * y = d * (x + y)
      OBVIOUS
    <3> QED  BY <3>1
  <2>2. compClaimed' \in Nat
    BY <1>1, <1>8
  <2> DEFINE a == credits(t, block)
             b == compClaimed'
             x == credits(f, block)
             y == compClaimed
  <2>3. /\ a \in Nat /\ b \in Nat /\ x \in Nat /\ y \in Nat /\ a + b = x + y
        /\ doubleScale \in Nat
    BY <1>11, <1>12, <1>14, <2>2, DoubleScaleNat
  <2> HIDE DEF a, b, x, y
  <2>4. doubleScale * a + doubleScale * b = doubleScale * x + doubleScale * y
    BY <2>1, <2>3
  <2> QED  BY <2>4 DEF a, b, x, y
<1>16. marketsPromised(t, ctoken, block) = marketsPromised(f, ctoken, block)
  BY <1>2, <1>9, MarketsDepend
<1>17. promised(t, ctoken, block) + doubleScale * compClaimed'
         = promised(f, ctoken, block) + doubleScale * compClaimed
  <2>1. /\ doubleScale * credits(t, block) \in Nat /\ doubleScale * credits(f, block) \in Nat
        /\ marketsPromised(f, ctoken, block) \in Nat
    BY <1>2, <1>5, <1>10, PromisedNat
  <2>2. doubleScale * compClaimed' \in Nat /\ doubleScale * compClaimed \in Nat
    BY <1>1, <1>8, <1>11, DoubleScaleNat
  <2> QED  BY <1>15, <1>16, <2>1, <2>2 DEF promised
<1>18. outlay' = promised(t, ctoken, block) + doubleScale * compClaimed'
  BY <1>1, <1>2 DEF outlay
<1>19. NoInterest => outlay' <= outlay
  <2>1. /\ promised(f, ctoken, block) \in Nat /\ promised(flywheel, ctoken, block) \in Nat
        /\ doubleScale * compClaimed \in Nat
    BY <1>2, <1>5, <1>11, PromisedNat, DoubleScaleNat
  <2> QED  BY <1>5, <1>17, <1>18, <2>1 DEF outlay
<1>20. compClaimed' >= compClaimed
  BY <1>1, <1>6, <1>7, <1>8, <1>11
<1> QED  BY <1>19, <1>20 DEF OutlayKept

\* _grantComp adds to the outlay what it pays.
LEMMA GrantCompOutlay ==
  ASSUME IndInv, RewardsInv, NEW recipient, NEW amount \in Nat, GrantComp(recipient, amount)
  PROVE  outlay' = outlay + doubleScale * amount
<1>1. /\ flywheel' = flywheel /\ ctoken' = ctoken /\ block' = block
      /\ compClaimed' = compClaimed + amount
  BY DEF GrantComp, vars
<1>2. /\ compClaimed \in Nat /\ doubleScale \in Nat /\ promised(flywheel, ctoken, block) \in Nat
      /\ doubleScale * compClaimed \in Nat /\ doubleScale * amount \in Nat
  BY OutlayNat, DoubleScaleNat DEF RewardsInv, RewardsTypeOK
<1>3. \A x, y, z \in Nat : x * (y + z) = x * y + x * z
  OBVIOUS
<1>4. doubleScale * compClaimed' = doubleScale * compClaimed + doubleScale * amount
  BY <1>1, <1>2, <1>3
<1>5. outlay' = promised(flywheel, ctoken, block) + doubleScale * compClaimed'
  BY <1>1 DEF outlay
<1> QED  BY <1>2, <1>4, <1>5 DEF outlay

\* What contributors earn in a block
contributions(f) == SumFunctionOnSet(f.contributorSpeed, Holders)

\* A block promises what the speeds say, and no more.
LEMMA BlockPromises ==
  ASSUME NEW now \in Nat, NEW later, later = now + 1, NEW f, wellKept(f, now),
         NEW ct, wellStored(ct)
  PROVE  /\ promised(f, ct, later)
              <= promised(f, ct, now)
                 + doubleScale * (contributions(f) + f.compSpeed["supply"] + f.compSpeed["borrow"])
         /\ contributions(f) \in Nat /\ \A d \in Sides : f.compSpeed[d] \in Nat
<1>1. /\ f \in FlywheelStorage /\ later \in Nat /\ now <= later
      /\ f.contributorSpeed \in [Holders -> Nat] /\ f.compSpeed \in [Sides -> Nat]
      /\ f.lastContributorBlock \in [Holders -> Nat]
  BY FlywheelFields DEF wellKept
<1>2. wellKept(f, later)
  <2>1. \A d \in Sides, k \in RewardMarkets : f.compState[d][k].block \in Nat
    BY IndexesNat
  <2> QED  BY <1>1, <2>1 DEF wellKept, recordsArePast
<1>3. credits(f, later) = credits(f, now) + contributions(f) /\ contributions(f) \in Nat
  <2> DEFINE F == [h \in Holders |-> credit(f, now, h)]
             G == [h \in Holders |-> credit(f, later, h)]
             S == f.contributorSpeed
  <2>1. ASSUME NEW h \in Holders PROVE G[h] = F[h] + S[h] /\ F[h] \in Int /\ S[h] \in Nat
    <3> DEFINE a == f.compAccrued[h]
               l == f.lastContributorBlock[h]
               x == now - l
               s == f.contributorSpeed[h]
    <3>1. a \in Nat /\ x \in Nat /\ s \in Nat /\ l \in Nat
      BY <1>1, ContributionNat
    <3>2. later - l = x + 1
      BY <1>1, <3>1
    <3>3. F[h] = a + x * s /\ G[h] = a + (later - l) * s
      BY DEF credit
    <3> HIDE DEF a, x, s
    <3>4. (x + 1) * s = x * s + s /\ x * s \in Nat
      BY <3>1, ProductNat
    <3>5. G[h] = F[h] + s /\ F[h] \in Int
      BY <3>1, <3>2, <3>3, <3>4
    <3> QED  BY <3>1, <3>5 DEF s
  <2>2. /\ credits(f, now) = SumFunctionOnSet(F, Holders)
        /\ credits(f, later) = SumFunctionOnSet(G, Holders)
        /\ contributions(f) = SumFunctionOnSet(S, Holders)
    BY DEF credits, contributions
  <2> HIDE DEF F, G, S
  <2>3. SumFunctionOnSet(G, Holders) = SumFunctionOnSet(F, Holders) + SumFunctionOnSet(S, Holders)
    BY <2>1, HoldersFinite, SumOfSums
  <2>4. SumFunctionOnSet(S, Holders) \in Nat
    BY <2>1, HoldersFinite, SumNat
  <2> QED  BY <2>2, <2>3, <2>4
<1> DEFINE V(d) == [m \in RewardMarkets |-> marketSpeed(f, d, m)]
           E == [m \in RewardMarkets |-> marketSpeed(f, "supply", m) + marketSpeed(f, "borrow", m)]
           M == [m \in RewardMarkets |-> marketPromised(f, m, ct[m], now)]
           N == [m \in RewardMarkets |-> marketPromised(f, m, ct[m], later)]
<1>4. ASSUME NEW d \in Sides, NEW m \in RewardMarkets
      PROVE  /\ sidePromised(f, d, m, ct[m], later)
                  = sidePromised(f, d, m, ct[m], now) + doubleScale * marketSpeed(f, d, m)
             /\ sidePromised(f, d, m, ct[m], now) \in Nat
             /\ marketSpeed(f, d, m) \in Nat
  <2> DEFINE b == f.compState[d][m].block
             x == now - b
             v == marketSpeed(f, d, m)
             u == unpaid(f, d, m, ct[m])
  <2>1. ct[m] \in CTokenStorage /\ validSnapshots(ct[m])
    BY DEF wellStored
  <2>2. x \in Nat /\ v \in Nat /\ b \in Nat /\ u \in Nat /\ sidePromised(f, d, m, ct[m], now) \in Nat
    BY <1>1, <2>1, IndexesNat, MarketSpeedNat, DueNat
  <2>3. later - b = x + 1
    BY <1>1, <2>2
  <2>4. /\ sidePromised(f, d, m, ct[m], now) = u + (x * v) * doubleScale
        /\ sidePromised(f, d, m, ct[m], later) = u + ((later - b) * v) * doubleScale
    BY DEF sidePromised, unshared
  <2> HIDE DEF x, v, u
  <2>5. (x + 1) * v = x * v + v /\ x * v \in Nat
    BY <2>2, ProductNat
  <2> DEFINE y == x * v
  <2>6. y \in Nat /\ (x + 1) * v = y + v
    BY <2>5
  <2> HIDE DEF y
  <2>7. (y + v) * doubleScale = y * doubleScale + doubleScale * v /\ y * doubleScale \in Nat
    <3>1. \A p, q, r \in Nat : (p + q) * r = p * r + r * q
      OBVIOUS
    <3> QED  BY <2>2, <2>6, <3>1, DoubleScaleNat
  <2>8. sidePromised(f, d, m, ct[m], later) = sidePromised(f, d, m, ct[m], now) + doubleScale * v
    <3>1. doubleScale * v \in Nat
      BY <2>2, DoubleScaleNat
    <3>2. sidePromised(f, d, m, ct[m], now) = u + y * doubleScale
      BY <2>4 DEF y
    <3>3. sidePromised(f, d, m, ct[m], later) = u + (y + v) * doubleScale
      BY <2>3, <2>4, <2>6
    <3> QED  BY <2>2, <2>7, <3>1, <3>2, <3>3
  <2> QED  BY <2>2, <2>8 DEF v
<1>5. \A m \in RewardMarkets :
         N[m] = M[m] + doubleScale * E[m] /\ M[m] \in Int /\ E[m] \in Int
  <2> SUFFICES ASSUME NEW m \in RewardMarkets
               PROVE  N[m] = M[m] + doubleScale * E[m] /\ M[m] \in Int /\ E[m] \in Int
    OBVIOUS
  <2> DEFINE vs == marketSpeed(f, "supply", m)
             vb == marketSpeed(f, "borrow", m)
             ss == sidePromised(f, "supply", m, ct[m], now)
             sb == sidePromised(f, "borrow", m, ct[m], now)
  <2>1. "supply" \in Sides /\ "borrow" \in Sides
    BY DEF Sides
  <2>2. /\ vs \in Nat /\ vb \in Nat /\ ss \in Nat /\ sb \in Nat
        /\ N[m] = (ss + doubleScale * vs) + (sb + doubleScale * vb)
        /\ M[m] = ss + sb /\ E[m] = vs + vb
    BY <1>4, <2>1 DEF marketPromised
  <2> HIDE DEF vs, vb, ss, sb, M, N, E
  <2>3. \A p, q, r \in Nat : r * (p + q) = r * p + r * q
    OBVIOUS
  <2>4. /\ doubleScale \in Nat /\ doubleScale * vs \in Nat /\ doubleScale * vb \in Nat
        /\ doubleScale * (vs + vb) = doubleScale * vs + doubleScale * vb
    BY <2>2, <2>3, DoubleScaleNat
  <2> QED  BY <2>2, <2>4
<1>6. /\ marketsPromised(f, ct, now) = SumFunctionOnSet(M, RewardMarkets)
      /\ marketsPromised(f, ct, later) = SumFunctionOnSet(N, RewardMarkets)
  BY DEF marketsPromised
<1>7. /\ SumFunctionOnSet(E, RewardMarkets)
           = SumFunctionOnSet(V("supply"), RewardMarkets) + SumFunctionOnSet(V("borrow"), RewardMarkets)
      /\ \A d \in Sides : SumFunctionOnSet(V(d), RewardMarkets) \in Nat
  <2> DEFINE VS == V("supply")
             VB == V("borrow")
  <2>1. \A m \in RewardMarkets : /\ VS[m] \in Nat /\ VB[m] \in Nat /\ E[m] = VS[m] + VB[m]
    BY <1>4 DEF Sides
  <2>2. \A d \in Sides : V(d) = VS \/ V(d) = VB
    BY DEF Sides
  <2> HIDE DEF VS, VB, E
  <2>3. SumFunctionOnSet(E, RewardMarkets)
           = SumFunctionOnSet(VS, RewardMarkets) + SumFunctionOnSet(VB, RewardMarkets)
    BY <2>1, CompFlywheelAssumption, SumOfSums
  <2>4. SumFunctionOnSet(VS, RewardMarkets) \in Nat /\ SumFunctionOnSet(VB, RewardMarkets) \in Nat
    BY <2>1, CompFlywheelAssumption, SumNat
  <2> HIDE DEF V
  <2>5. \A d \in Sides : SumFunctionOnSet(V(d), RewardMarkets) \in Nat
    BY <2>2, <2>4
  <2> QED  BY <2>3, <2>5 DEF VS, VB
<1>8. \A d \in Sides : SumFunctionOnSet(V(d), RewardMarkets) <= f.compSpeed[d]
  BY <1>1, SpeedsShared
<1> HIDE DEF V, E, M, N
<1>9. SumFunctionOnSet(N, RewardMarkets)
        = SumFunctionOnSet(M, RewardMarkets) + doubleScale * SumFunctionOnSet(E, RewardMarkets)
  <2>1. doubleScale \in Int
    BY DoubleScaleNat
  <2> QED  BY <1>5, <2>1, CompFlywheelAssumption, SumLinear
<1> DEFINE e == SumFunctionOnSet(E, RewardMarkets)
           c == contributions(f)
           s == f.compSpeed["supply"]
           b == f.compSpeed["borrow"]
<1>10. e \in Nat /\ s \in Nat /\ b \in Nat /\ c \in Nat /\ e <= s + b
  <2>1. "supply" \in Sides /\ "borrow" \in Sides
    BY DEF Sides
  <2>2. s \in Nat /\ b \in Nat
    BY <1>1, <2>1
  <2> QED  BY <1>3, <1>7, <1>8, <2>1, <2>2
<1>11. \A d \in Sides : f.compSpeed[d] \in Nat
  BY <1>1
<1> HIDE DEF e
<1>12. promised(f, ct, later) = promised(f, ct, now) + doubleScale * c + doubleScale * e
  <2> DEFINE k == credits(f, now)
  <2>1. /\ k \in Nat /\ credits(f, later) = k + c
        /\ marketsPromised(f, ct, now) \in Nat
    BY <1>3, CreditsNat, PromisedNat
  <2>2. /\ promised(f, ct, now) = doubleScale * k + marketsPromised(f, ct, now)
        /\ promised(f, ct, later) = doubleScale * credits(f, later) + marketsPromised(f, ct, later)
    BY DEF promised
  <2> HIDE DEF k, c
  <2>3. \A p, q, r \in Nat : r * (p + q) = r * p + r * q
    OBVIOUS
  <2>4. /\ doubleScale \in Nat /\ doubleScale * k \in Nat /\ doubleScale * c \in Nat /\ doubleScale * e \in Nat
        /\ doubleScale * (k + c) = doubleScale * k + doubleScale * c
    BY <1>10, <2>1, <2>3, DoubleScaleNat
  <2>5. marketsPromised(f, ct, later) = marketsPromised(f, ct, now) + doubleScale * e
    BY <1>6, <1>9 DEF e
  <2> QED  BY <2>1, <2>2, <2>4, <2>5
<1>13. doubleScale * c + doubleScale * e <= doubleScale * (c + s + b)
  <2> HIDE DEF c, s, b
  <2>1. \A p, q, r \in Nat : r * (p + q) = r * p + r * q
    OBVIOUS
  <2>2. doubleScale * (c + e) = doubleScale * c + doubleScale * e /\ c + e \in Nat
    BY <1>10, <2>1, DoubleScaleNat
  <2>3. c + e <= c + s + b /\ c + s + b \in Nat
    BY <1>10
  <2>4. (c + e) * doubleScale <= (c + s + b) * doubleScale
    BY <2>2, <2>3, DoubleScaleNat, ProductMonotone
  <2>5. (c + e) * doubleScale = doubleScale * (c + e) /\ (c + s + b) * doubleScale = doubleScale * (c + s + b)
    BY <2>2, <2>3, DoubleScaleNat
  <2> QED  BY <2>2, <2>4, <2>5
<1>14. promised(f, ct, later) <= promised(f, ct, now) + doubleScale * (c + s + b)
  <2> DEFINE x == doubleScale * c
             y == doubleScale * e
             z == doubleScale * (c + s + b)
  <2>1. x \in Nat /\ y \in Nat /\ z \in Nat /\ promised(f, ct, now) \in Nat
    <3>1. c + s + b \in Nat
      BY <1>10
    <3> HIDE DEF c, s, b
    <3> QED  BY <1>10, <3>1, DoubleScaleNat, PromisedNat
  <2>2. promised(f, ct, later) = promised(f, ct, now) + x + y /\ x + y <= z
    BY <1>12, <1>13
  <2> HIDE DEF x, y, z
  <2>3. promised(f, ct, later) <= promised(f, ct, now) + z
    BY <2>1, <2>2
  <2> QED  BY <2>3 DEF z
<1> QED  BY <1>3, <1>11, <1>14
-----------------------------------------------------------------------------
(* What the Reservoir drips covers what is promised                        *)

\* No market has had interest.
withoutInterest == \A m \in Markets : ctoken[m].borrowIndex = expScale

\* Debts are plain until there is interest.
DebtsFree == \A m \in Markets : freeDebts(ctoken[m])

\* A market's borrowIndex never falls.
LEMMA IndexesGrow ==
  ASSUME IndInv, IndInv', RewardsStarted, NEW m \in Markets, Effect(m)
  PROVE  ctoken'[m].borrowIndex >= ctoken[m].borrowIndex
<1> DEFINE t == ctoken'[m]
<1>1. t \in CTokenStorage
  BY NextMarket
<1> HIDE DEF t
<1>2. ASSUME NEW s \in CTokenStorage, Start(m, s), t.borrowIndex = s.borrowIndex
      PROVE  t.borrowIndex >= ctoken[m].borrowIndex
  BY <1>2, StartAges DEF aged
<1>3. ASSUME canAccrue(ctoken[m], block)
      PROVE  /\ Start(m, accrued(m)) /\ accrued(m) \in CTokenStorage
             /\ \A r : repaidTo(accrued(m), r) => r.borrowIndex = accrued(m).borrowIndex
  BY <1>3, StartAccrued DEF repaidTo, debtSettled
<1>4. CASE Quieting(m)
  BY <1>2, <1>4 DEF Quieting, quiet, sameDebts, t
<1>5. CASE Minting(m)
  BY <1>2, <1>5 DEF Minting, tokensMinted, sameDebts, t
<1>6. CASE Redeeming(m)
  BY <1>2, <1>6 DEF Redeeming, tokensRedeemed, sameDebts, t
<1>7. CASE Transferring(m)
  <2>1. t.borrowIndex = ctoken[m].borrowIndex
    BY <1>7 DEF Transferring, tokensMoved, sameDebts, t
  <2>2. Start(m, ctoken[m]) /\ ctoken[m] \in CTokenStorage
    BY MarketsSound DEF Start
  <2> QED  BY <1>2, <2>1, <2>2 DEF t
<1>8. CASE Seeding(m)
  BY <1>2, <1>8 DEF Seeding, tokensMinted, sameDebts, t
<1>9. CASE Borrowing(m) \/ Repaying(m)
  <2>1. canAccrue(ctoken[m], block) /\ t.borrowIndex = accrued(m).borrowIndex
    BY <1>3, <1>9 DEF Borrowing, Repaying, debtSettled, t
  <2> QED  BY <1>2, <1>3, <2>1 DEF t
<1>10. CASE Seizing(m)
  <2>1. canAccrue(ctoken[m], block) /\ t.borrowIndex = accrued(m).borrowIndex
    BY <1>3, <1>10 DEF Seizing, tokensSeized, sameDebts, t
  <2> QED  BY <1>2, <1>3, <2>1 DEF t
<1> QED  BY <1>4, <1>5, <1>6, <1>7, <1>8, <1>9, <1>10 DEF Effect

\* Debts stay plain until there is interest, and interest is never undone.
LEMMA FreeStays ==
  ASSUME IndInv, IndInv', RewardsStarted, DebtsFree, [RewardedNext]_rewardedVars
  PROVE  DebtsFree' /\ (withoutInterest' => withoutInterest /\ NoInterest)
<1>1. \A m \in Markets : Effect(m) /\ ctoken[m].borrowIndex >= expScale /\ freeDebts(ctoken[m])
  BY RewardedStepsAreSteps, StepEffects DEF RewardsStarted, DebtsFree
<1>2. \A m \in Markets : freeDebts(ctoken'[m]) /\ ctoken'[m].borrowIndex >= ctoken[m].borrowIndex
  BY <1>1, EffectFree, IndexesGrow
<1>3. DebtsFree'
  <2>1. \A m \in Markets : freeDebts(ctoken[m])'
    BY <1>2 DEF freeDebts, plainDebts
  <2> QED  BY <2>1 DEF DebtsFree
<1>4. ASSUME withoutInterest' PROVE withoutInterest /\ NoInterest
  <2>1. \A m \in Markets : ctoken'[m].borrowIndex = expScale
    BY <1>4 DEF withoutInterest
  <2>2. \A m \in Markets : ctoken[m] \in CTokenStorage /\ tokensAddUp(ctoken[m])
    BY MarketsSound DEF validMarket
  <2>3. \A m \in Markets : ctoken[m].borrowIndex = expScale
    <3>1. \A m \in Markets : ctoken[m].borrowIndex \in Nat /\ expScale \in Nat
      BY <2>2, ExpScaleAssumption DEF CTokenStorage
    <3> QED  BY <1>1, <1>2, <2>1, <3>1
  <2>4. \A m \in Markets : wellShared(ctoken[m])
    BY <1>1, <2>2, <2>3, FreeShared DEF freeDebts
  <2> QED  BY <2>1, <2>3, <2>4 DEF withoutInterest, NoInterest
<1> QED  BY <1>3, <1>4

\* What a block emits at most, at these speeds
emission(speed, contribution) == 2 * speed + Cardinality(Claimants) * contribution

\* speed and contribution bound what is tried and scheduled, and the Reservoir
\* drips what they and the grants add up to for as long as there are blocks.
DripIsEnough(speed, contribution) ==
  /\ \A s \in CompSpeeds : s <= speed
  /\ distributionSchedule[1].compSpeed <= speed
  /\ \A s \in ContributorSpeeds : s <= contribution
  /\ emission(speed, contribution) + MaxGranted <= dripRate
  /\ dripRate * MaxBlock <= initialReserve

\* The speeds stay within the bounds, and only claimants contribute.
RatesBounded(speed, contribution) ==
  /\ \A side \in Sides : flywheel.compSpeed[side] <= speed
  /\ \A h \in Holders : flywheel.contributorSpeed[h] <= IF h \in Claimants THEN contribution ELSE 0

LEMMA EmissionNat ==
  ASSUME NEW speed \in Nat, NEW contribution \in Nat
  PROVE  /\ emission(speed, contribution) \in Nat
         /\ Cardinality(Claimants) * contribution \in Nat /\ IsFiniteSet(Claimants)
<1>1. IsFiniteSet(Claimants)
  BY HoldersFinite, RewardConstants, FS_Subset
<1>2. Cardinality(Claimants) \in Nat
  BY <1>1, FS_CardinalityType
<1>3. Cardinality(Claimants) * contribution \in Nat
  BY <1>2, ProductNat
<1> QED  BY <1>1, <1>3 DEF emission

\* No step takes a speed out of its bounds.
LEMMA RatesStayBounded ==
  ASSUME NEW speed \in Nat, NEW contribution \in Nat, DripIsEnough(speed, contribution),
         IndInv, RewardsInv, RatesBounded(speed, contribution), [RewardedNext]_rewardedVars
  PROVE  RatesBounded(speed, contribution)'
<1>1. CASE Turned
  <2>1. \A side \in Sides : flywheel'.compSpeed[side] <= speed
    BY <1>1 DEF Turned, RatesBounded
  <2>2. ASSUME NEW h \in Holders
        PROVE  flywheel'.contributorSpeed[h] <= IF h \in Claimants THEN contribution ELSE 0
    <3>1. CASE flywheel'.contributorSpeed[h] = flywheel.contributorSpeed[h]
      BY <3>1 DEF RatesBounded
    <3>2. CASE h \in Claimants /\ flywheel'.contributorSpeed[h] \in ContributorSpeeds
      BY <3>2 DEF DripIsEnough
    <3> QED  BY <1>1, <3>1, <3>2 DEF Turned, contributorsChosen
  <2> QED  BY <2>1, <2>2 DEF RatesBounded
<1>2. CASE QuietSteps
  BY <1>2, QuietStepsTurn DEF RatesBounded
<1>3. ASSUME NEW caller \in Accounts, NEW supplySpeed \in CompSpeeds, NEW borrowSpeed \in CompSpeeds,
             SetCompSpeeds(caller, supplySpeed, borrowSpeed)
      PROVE  RatesBounded(speed, contribution)'
  <2>1. supplySpeed \in Nat /\ borrowSpeed \in Nat
    BY RewardedMarketAssumption
  <2>2. /\ flywheel'.compSpeed["supply"] = supplySpeed /\ flywheel'.compSpeed["borrow"] = borrowSpeed
        /\ flywheel'.contributorSpeed = flywheel.contributorSpeed
    BY <1>3, <2>1, SetCompSpeedsKeeps
  <2>3. supplySpeed <= speed /\ borrowSpeed <= speed
    BY DEF DripIsEnough
  <2> QED  BY <2>2, <2>3 DEF RatesBounded, Sides
<1> QED  BY <1>1, <1>2, <1>3, StepsTurn

\* Within the bounds a block emits no more than that.
LEMMA EmissionBounds ==
  ASSUME NEW speed \in Nat, NEW contribution \in Nat, RewardsInv, RatesBounded(speed, contribution)
  PROVE  contributions(flywheel) + flywheel.compSpeed["supply"] + flywheel.compSpeed["borrow"]
           <= emission(speed, contribution)
<1> DEFINE S == flywheel.contributorSpeed
<1>1. S \in [Holders -> Nat] /\ flywheel.compSpeed \in [Sides -> Nat]
  BY FlywheelKept, FlywheelFields DEF wellKept
<1>2. Claimants \in SUBSET Holders /\ IsFiniteSet(Holders)
  BY HoldersFinite, RewardConstants
<1>3. /\ \A h \in Holders : S[h] \in Nat
      /\ \A h \in Holders \ Claimants : S[h] = 0
      /\ \A h \in Claimants : S[h] \in Nat /\ S[h] <= contribution
  <2>1. \A h \in Holders : S[h] \in Nat
    BY <1>1
  <2>2. \A h \in Holders : S[h] <= IF h \in Claimants THEN contribution ELSE 0
    BY DEF RatesBounded
  <2> HIDE DEF S
  <2> QED  BY <1>2, <2>1, <2>2
<1>4. contributions(flywheel) = SumFunctionOnSet(S, Holders)
  BY DEF contributions
<1>5. flywheel.compSpeed["supply"] \in Nat /\ flywheel.compSpeed["supply"] <= speed
      /\ flywheel.compSpeed["borrow"] \in Nat /\ flywheel.compSpeed["borrow"] <= speed
  BY <1>1 DEF RatesBounded, Sides
<1> HIDE DEF S
<1>6. SumFunctionOnSet(S, Claimants) = SumFunctionOnSet(S, Holders)
  BY <1>2, <1>3, SumPart
<1>7. SumFunctionOnSet(S, Claimants) <= Cardinality(Claimants) * contribution
  BY <1>3, EmissionNat, SumAtMost
<1>8. SumFunctionOnSet(S, Holders) \in Nat
  BY <1>2, <1>3, SumNat
<1>9. Cardinality(Claimants) * contribution \in Nat
  BY EmissionNat
<1> QED  BY <1>4, <1>5, <1>6, <1>7, <1>8, <1>9 DEF emission
-----------------------------------------------------------------------------
\* COMP is where it was dripped from and to, or was paid.
DripSound ==
  /\ block <= MaxBlock
  /\ compBalance[ReservoirAddress] + dripped = initialReserve
  /\ compBalance[ComptrollerAddress] <= dripped
  /\ dripped <= compBalance[ComptrollerAddress] + compClaimed
  /\ block = 0 => compClaimed = 0

\* The same of the balances and the count in the course of a claim
paidWithin(balance, claimed, drips) ==
  /\ balance[ReservoirAddress] + drips = initialReserve
  /\ balance[ComptrollerAddress] <= drips /\ drips <= balance[ComptrollerAddress] + claimed

LEMMA MovedWithin ==
  ASSUME NEW balance \in [CompHolders -> Nat], NEW claimed \in Nat, NEW drips \in Nat,
         NEW user \in Holders, NEW amount \in Nat, amount <= balance[ComptrollerAddress],
         paidWithin(balance, claimed, drips)
  PROVE  paidWithin(compMoved(balance, ComptrollerAddress, user, amount), claimed + amount, drips)
<1> DEFINE r == ReservoirAddress
           c == ComptrollerAddress
           moved1 == [balance EXCEPT ![c] = @ - amount]
           moved2 == [moved1 EXCEPT ![user] = @ + amount]
<1>1. r \in CompHolders /\ c \in CompHolders /\ user \in CompHolders /\ r # c /\ r # user
  BY RewardConstants, RewardedMarketAssumption, MoneyMarketAssumption
<1>2. compMoved(balance, ComptrollerAddress, user, amount) = moved2
  BY DEF compMoved
<1>3. balance[r] \in Nat /\ balance[c] \in Nat
  BY <1>1
<1>4. moved1 \in [CompHolders -> Int] /\ moved1[c] = balance[c] - amount /\ moved1[r] = balance[r]
  BY <1>1, <1>3
<1> HIDE DEF moved1
<1>5. moved2[r] = balance[r] /\ moved2[c] = IF user = c THEN balance[c] ELSE balance[c] - amount
  BY <1>1, <1>3, <1>4
<1> HIDE DEF moved2, r, c
<1>6. balance[r] + drips = initialReserve /\ balance[c] <= drips /\ drips <= balance[c] + claimed
      /\ amount <= balance[c]
  BY DEF paidWithin, r, c
<1>7. moved2[r] + drips = initialReserve
  BY <1>5, <1>6
<1>8. moved2[c] <= drips /\ drips <= moved2[c] + (claimed + amount)
  BY <1>3, <1>5, <1>6
<1> QED  BY <1>2, <1>7, <1>8 DEF paidWithin, r, c

LEMMA GrantedWithin ==
  ASSUME NEW user \in Holders, NEW drips \in Nat,
         NEW g \in [compAccrued : [Holders -> Nat], compBalance : [CompHolders -> Nat],
                    compClaimed : Nat],
         paidWithin(g.compBalance, g.compClaimed, drips), NEW e, e = granted(g, user)
  PROVE  paidWithin(e.compBalance, e.compClaimed, drips)
<1> DEFINE amount == g.compAccrued[user]
<1>1. /\ amount \in Nat /\ g.compBalance \in [CompHolders -> Nat] /\ g.compClaimed \in Nat
      /\ g.compBalance[ComptrollerAddress] \in Nat
  BY RewardConstants
<1>2. CASE amount > g.compBalance[ComptrollerAddress]
  BY <1>2 DEF granted
<1>3. CASE ~(amount > g.compBalance[ComptrollerAddress])
  <2>1. /\ e.compBalance = compMoved(g.compBalance, ComptrollerAddress, user, amount)
        /\ e.compClaimed = g.compClaimed + amount
    BY <1>3 DEF granted
  <2> HIDE DEF amount
  <2>2. amount <= g.compBalance[ComptrollerAddress]
    BY <1>1, <1>3
  <2>3. paidWithin(compMoved(g.compBalance, ComptrollerAddress, user, amount),
                   g.compClaimed + amount, drips)
    BY <1>1, <2>2, MovedWithin
  <2> QED  BY <2>1, <2>3
<1> QED  BY <1>2, <1>3

\* What is dripped leaves the Reservoir for the Comptroller.
LEMMA DrippedWithin ==
  ASSUME IndInv, RewardsInv, DripSound
  PROVE  paidWithin(drippedBalance, compClaimed, dripped + toDrip) /\ dripped + toDrip \in Nat
<1> DEFINE r == ReservoirAddress
           c == ComptrollerAddress
           moved1 == [compBalance EXCEPT ![r] = @ - toDrip]
           moved2 == [moved1 EXCEPT ![c] = @ + toDrip]
<1>1. r \in CompHolders /\ c \in CompHolders /\ r # c
  BY RewardConstants, RewardedMarketAssumption, MoneyMarketAssumption
<1>2. drippedBalance = moved2
  BY DEF drippedBalance, compMoved
<1>3. /\ compBalance \in [CompHolders -> Nat] /\ compBalance[r] \in Nat /\ compBalance[c] \in Nat
      /\ toDrip \in Nat /\ dripped \in Nat /\ compClaimed \in Nat /\ dripped + toDrip \in Nat
  BY <1>1, DripBounds DEF RewardsInv, RewardsTypeOK
<1>4. moved1 \in [CompHolders -> Int] /\ moved1[r] = compBalance[r] - toDrip /\ moved1[c] = compBalance[c]
  BY <1>1, <1>3
<1> HIDE DEF moved1
<1>5. moved2[r] = compBalance[r] - toDrip /\ moved2[c] = compBalance[c] + toDrip
  BY <1>1, <1>3, <1>4
<1> HIDE DEF moved2
<1>6. /\ compBalance[r] + dripped = initialReserve /\ compBalance[c] <= dripped
      /\ dripped <= compBalance[c] + compClaimed
  BY DEF DripSound
<1>7. paidWithin(moved2, compClaimed, dripped + toDrip)
  <2>1. moved2[r] + (dripped + toDrip) = initialReserve
    BY <1>3, <1>5, <1>6
  <2>2. moved2[c] <= dripped + toDrip /\ dripped + toDrip <= moved2[c] + compClaimed
    BY <1>3, <1>5, <1>6
  <2> QED  BY <2>1, <2>2 DEF paidWithin
<1> QED  BY <1>2, <1>3, <1>7
-----------------------------------------------------------------------------
(* Every step                                                              *)

\* What a step may do to what is promised and paid
StepKind ==
  \/ /\ OutlayKept /\ block' = block
     /\ \/ UNCHANGED compVars
        \/ Drip
        \/ \E first, second \in Holders, m, c \in Markets, sides \in ClaimSides :
              ClaimComp(first, second, m, c, sides)
  \/ NextBlock /\ UNCHANGED <<flywheel, compVars>>
  \/ \E recipient \in Claimants, amount \in Grants :
        compClaimed + amount <= MaxGranted /\ GrantComp(recipient, amount)

\* The flywheel's own transactions, one by one, or none
LEMMA FlywheelStepKinds ==
  ASSUME IndInv, RewardsInv, RewardsInv', RewardsStarted, FlywheelStep \/ UNCHANGED rewardedVars
  PROVE  StepKind
<1>1. /\ Claimants \subseteq Holders /\ Grants \subseteq Nat /\ CompWeights \subseteq Nat
      /\ CompSpeeds \subseteq Nat /\ ContributorSpeeds \subseteq Nat
  BY RewardedMarketAssumption
<1>2. CASE \E first, second \in Claimants, m, c \in Markets, sides \in ClaimSides :
              ClaimComp(first, second, m, c, sides)
  <2>1. PICK first \in Claimants, second \in Claimants, m \in Markets, c \in Markets,
             sides \in ClaimSides : ClaimComp(first, second, m, c, sides)
    BY <1>2
  <2>2. first \in Holders /\ second \in Holders
    BY <1>1
  <2>3. OutlayKept
    BY <2>1, <2>2, ClaimCompPromises
  <2>4. block' = block
    BY <2>1 DEF ClaimComp, vars
  <2> QED  BY <2>1, <2>2, <2>3, <2>4 DEF StepKind
<1>3. CASE \E recipient \in Claimants, amount \in Grants :
              compClaimed + amount <= MaxGranted /\ GrantComp(recipient, amount)
  BY <1>3 DEF StepKind
<1>4. CASE \E caller \in Accounts, supplySpeed, borrowSpeed \in CompSpeeds :
              SetCompSpeeds(caller, supplySpeed, borrowSpeed)
  <2>1. PICK caller \in Accounts, supplySpeed \in CompSpeeds, borrowSpeed \in CompSpeeds :
              SetCompSpeeds(caller, supplySpeed, borrowSpeed)
    BY <1>4
  <2>2. OutlayKept
    BY <1>1, <2>1, SetCompSpeedsPromises
  <2>3. UNCHANGED compVars /\ block' = block
    BY <2>1 DEF SetCompSpeeds, Turn, vars
  <2> QED  BY <2>2, <2>3 DEF StepKind
<1>5. CASE \E m \in Markets, weight \in CompWeights : SetCompWeight(m, weight)
  <2>1. PICK m \in Markets, weight \in CompWeights : SetCompWeight(m, weight)
    BY <1>5
  <2>2. OutlayKept
    BY <1>1, <2>1, SetCompWeightPromises
  <2>3. UNCHANGED compVars /\ block' = block
    BY <2>1 DEF SetCompWeight, Turn, vars
  <2> QED  BY <2>2, <2>3 DEF StepKind
<1>6. CASE \E contributor \in Claimants :
              \/ UpdateContributorRewards(contributor)
              \/ \E speed \in ContributorSpeeds : SetContributorCompSpeed(contributor, speed)
  <2>1. PICK contributor \in Claimants :
              \/ UpdateContributorRewards(contributor)
              \/ \E speed \in ContributorSpeeds : SetContributorCompSpeed(contributor, speed)
    BY <1>6
  <2>2. contributor \in Holders
    BY <1>1
  <2>3. \/ UpdateContributorRewards(contributor)
        \/ \E speed \in Nat : SetContributorCompSpeed(contributor, speed)
    BY <1>1, <2>1
  <2>4. OutlayKept
    BY <2>2, <2>3, ContributorPromises
  <2>5. UNCHANGED compVars /\ block' = block
    BY <2>1 DEF UpdateContributorRewards, SetContributorCompSpeed, Turn, vars
  <2> QED  BY <2>4, <2>5 DEF StepKind
<1>7. CASE UNCHANGED rewardedVars
  <2>1. UNCHANGED vars /\ flywheel' = flywheel /\ UNCHANGED compVars
    BY <1>7 DEF rewardedVars
  <2>2. compClaimed' = compClaimed /\ block' = block
    BY <2>1 DEF compVars, vars
  <2>3. OutlayKept
    BY <2>1, <2>2, DripPromises
  <2> QED  BY <2>1, <2>2, <2>3 DEF StepKind
<1>8. CASE Drip
  <2>1. UNCHANGED vars /\ flywheel' = flywheel /\ compClaimed' = compClaimed
    BY <1>8 DEF Drip
  <2>2. OutlayKept
    BY <2>1, DripPromises
  <2> QED  BY <1>8, <2>1, <2>2 DEF StepKind, vars
<1> QED  BY <1>2, <1>3, <1>4, <1>5, <1>6, <1>7, <1>8 DEF FlywheelStep

\* Every step
LEMMA StepKinds ==
  ASSUME IndInv, IndInv', RewardsInv, RewardsInv', RewardsStarted, [RewardedNext]_rewardedVars
  PROVE  StepKind
<1>0. ASSUME NEW f, HookTurn(f) PROVE StepKind
  <2>1. OutlayKept
    BY <1>0, HookPromises
  <2> QED  BY <1>0, <2>1 DEF HookTurn, StepKind
<1>1. CASE \E m \in Markets : \E a \in Suppliers[m] : SupplySteps(m, a) \/ TransferSteps(m, a)
  <2>1. \A m \in Markets : Suppliers[m] \subseteq Accounts
    BY MoneyMarketAssumption
  <2> QED  BY <1>0, <1>1, <2>1, SupplyStepsHook, TransferStepsHook
<1>2. CASE \E m \in Markets : \E a \in Borrowers[m] : BorrowSteps(m, a) \/ LiquidationSteps(m, a)
  <2>1. \A m \in Markets : Borrowers[m] \subseteq Accounts
    BY MoneyMarketAssumption
  <2> QED  BY <1>0, <1>2, <2>1, BorrowStepsHook, LiquidationStepsHook
<1>3. CASE \E m \in Markets : ListingSteps(m)
  <2>1. PICK m \in Markets : ListingSteps(m)
    BY <1>3
  <2>2. OutlayKept
    BY <2>1, ListingPromises
  <2>3. UNCHANGED compVars /\ block' = block
    BY <2>1 DEF ListingSteps, SupportMarket, Turn
  <2> QED  BY <2>2, <2>3 DEF StepKind
<1>4. CASE QuietSteps
  <2>1. UNCHANGED <<flywheel, compVars>>
    BY <1>4 DEF QuietSteps
  <2>2. CASE NextBlock
    BY <2>1, <2>2 DEF StepKind
  <2>3. CASE ~NextBlock
    <3>1. HookTurn(flywheel)
      BY <1>4, <2>1, <2>3, QuietTransactionsSettle, HookedFirst DEF HookTurn
    <3> QED  BY <1>0, <3>1
  <2> QED  BY <2>2, <2>3
<1>5. CASE FlywheelStep \/ UNCHANGED rewardedVars
  BY <1>5, FlywheelStepKinds
<1> QED  BY <1>1, <1>2, <1>3, <1>4, <1>5 DEF RewardedNext
-----------------------------------------------------------------------------
\* COMP stays where it was dripped or paid.
LEMMA DripStays ==
  ASSUME IndInv, RewardsInv, RewardsInv', DripSound, StepKind
  PROVE  DripSound'
<1>1. block \in Nat /\ MaxBlock \in Nat /\ block <= MaxBlock /\ (block = 0 => compClaimed = 0)
  BY MoneyMarketAssumption DEF IndInv, TypeOK, DripSound
<1>2. paidWithin(compBalance, compClaimed, dripped) /\ compClaimed \in Nat /\ dripped \in Nat
      /\ compBalance \in [CompHolders -> Nat]
  BY DEF DripSound, paidWithin, RewardsInv, RewardsTypeOK
<1>3. ASSUME paidWithin(compBalance', compClaimed', dripped'), block' <= MaxBlock,
             block' = 0 => compClaimed' = 0
      PROVE  DripSound'
  BY <1>3 DEF DripSound, paidWithin
<1>4. CASE UNCHANGED compVars /\ block' = block
  BY <1>1, <1>2, <1>3, <1>4 DEF compVars
<1>5. CASE NextBlock /\ UNCHANGED <<flywheel, compVars>>
  <2>1. block' <= MaxBlock /\ block' # 0
    BY <1>1, <1>5 DEF NextBlock
  <2> QED  BY <1>2, <1>3, <1>5, <2>1 DEF compVars
<1>6. CASE Drip
  <2>1. /\ compBalance' = drippedBalance /\ dripped' = dripped + toDrip
        /\ compClaimed' = compClaimed /\ block' = block
    BY <1>6 DEF Drip, vars
  <2> QED  BY <1>1, <1>3, <2>1, DrippedWithin
<1>7. ASSUME NEW first \in Holders, NEW second \in Holders, NEW m \in Markets, NEW c \in Markets,
             NEW sides, ClaimComp(first, second, m, c, sides)
      PROVE  DripSound'
  <2> DEFINE f  == collectedMarket(collectedMarket(flywheel, m, first, second, sides),
                                   c, first, second, sides)
             g0 == [compAccrued |-> f.compAccrued, compBalance |-> drippedBalance,
                    compClaimed |-> compClaimed]
             g1 == granted(g0, first)
             g2 == granted(g1, second)
             paying == [compAccrued : [Holders -> Nat], compBalance : [CompHolders -> Nat],
                        compClaimed : Nat]
             drips == dripped + toDrip
  <2>1. /\ compBalance' = g2.compBalance /\ compClaimed' = g2.compClaimed /\ dripped' = drips
        /\ block > compUnlockTimestamp /\ block' = block
    BY <1>7 DEF ClaimComp, vars
  <2>2. wellKept(f, block)
    BY FlywheelKept, CollectedKeeps
  <2> HIDE DEF f
  <2>3. g0 \in paying /\ g0.compBalance = drippedBalance /\ g0.compClaimed = compClaimed
    <3>1. f.compAccrued \in [Holders -> Nat]
      BY <2>2, FlywheelFields DEF wellKept
    <3> QED  BY <3>1, <1>2, DripBounds
  <2> HIDE DEF g0
  <2>4. paidWithin(g0.compBalance, g0.compClaimed, drips) /\ drips \in Nat
    BY <2>3, DrippedWithin
  <2> HIDE DEF drips
  <2>5. g1 \in paying /\ paidWithin(g1.compBalance, g1.compClaimed, drips)
    BY <2>3, <2>4, GrantedTyped, GrantedWithin
  <2> HIDE DEF g1
  <2>6. paidWithin(g2.compBalance, g2.compClaimed, drips)
    BY <2>4, <2>5, GrantedWithin
  <2> HIDE DEF g2
  <2>7. block' # 0
    BY <1>1, <2>1, RewardedMarketAssumption
  <2> QED  BY <1>1, <1>3, <2>1, <2>6, <2>7
<1>8. ASSUME NEW recipient \in Claimants, NEW amount \in Grants, GrantComp(recipient, amount)
      PROVE  DripSound'
  <2>1. recipient \in Holders /\ amount \in Nat
    BY RewardedMarketAssumption
  <2>2. /\ compBalance' = compMoved(compBalance, ComptrollerAddress, recipient, amount)
        /\ compClaimed' = compClaimed + amount /\ dripped' = dripped /\ block' = block
        /\ amount <= compBalance[ComptrollerAddress]
    BY <1>8 DEF GrantComp, vars
  <2>3. paidWithin(compBalance', compClaimed', dripped')
    BY <1>2, <2>1, <2>2, MovedWithin
  <2>4. block = 0 => amount = 0
    <3>1. dripped <= dripRate * block /\ compBalance[ComptrollerAddress] <= dripped
      BY DEF RewardsInv, RecordsArePast, DripSound
    <3>2. compBalance[ComptrollerAddress] \in Nat
      BY <1>2, RewardConstants
    <3>3. block = 0 => dripRate * block = 0
      BY RewardConstants
    <3> QED  BY <1>2, <2>1, <2>2, <3>1, <3>2, <3>3
  <2> QED  BY <1>1, <1>3, <2>1, <2>2, <2>3, <2>4
<1> QED  BY <1>4, <1>5, <1>6, <1>7, <1>8 DEF StepKind

\* What was paid, as far as grants may have paid it
grantable == IF compClaimed <= MaxGranted THEN compClaimed ELSE MaxGranted

\* Without interest the outlay is within what the speeds emitted and the grants.
OutlayBounded(speed, contribution) ==
  withoutInterest => outlay <= doubleScale * (emission(speed, contribution) * block + grantable)

LEMMA GrantableNat ==
  ASSUME RewardsInv
  PROVE  grantable \in Nat /\ grantable <= MaxGranted /\ grantable <= compClaimed /\ compClaimed \in Nat
BY RewardedMarketAssumption DEF grantable, RewardsInv, RewardsTypeOK

\* A block adds an emission, and no step more than that.
LEMMA OutlayStaysBounded ==
  ASSUME NEW speed \in Nat, NEW contribution \in Nat, IndInv, IndInv', RewardsInv, RewardsInv',
         RewardsStarted, DebtsFree, RatesBounded(speed, contribution),
         OutlayBounded(speed, contribution), [RewardedNext]_rewardedVars
  PROVE  OutlayBounded(speed, contribution)'
<1> DEFINE e == emission(speed, contribution)
           bound(b, g) == doubleScale * (e * b + g)
<1>1. SUFFICES ASSUME withoutInterest' PROVE outlay' <= bound(block', grantable')
  BY DEF OutlayBounded
<1>2. NoInterest /\ outlay <= bound(block, grantable)
  BY <1>1, FreeStays DEF OutlayBounded
<1>3. /\ block \in Nat /\ grantable \in Nat /\ grantable' \in Nat /\ e \in Nat /\ doubleScale \in Nat
      /\ outlay \in Nat /\ outlay' \in Nat /\ compClaimed \in Nat /\ compClaimed' \in Nat
      /\ block' \in Nat
  <2>1. grantable' \in Nat /\ compClaimed' \in Nat
    BY RewardedMarketAssumption DEF grantable, RewardsInv, RewardsTypeOK
  <2>2. outlay' \in Nat
    <3>1. wellStored(ctoken') /\ block' \in Nat
      BY StoredNext DEF wellStored, IndInv, TypeOK
    <3>2. wellKept(flywheel', block')
      BY DEF RewardsInv, RewardsTypeOK, RecordsArePast, wellKept
    <3>3. promised(flywheel', ctoken', block') \in Nat
      BY <3>1, <3>2, PromisedNat
    <3>4. doubleScale * compClaimed' \in Nat
      BY <2>1, DoubleScaleNat
    <3>5. outlay' = promised(flywheel', ctoken', block') + doubleScale * compClaimed'
      BY DEF outlay
    <3> QED  BY <3>3, <3>4, <3>5
  <2>3. block' \in Nat
    BY DEF IndInv, TypeOK
  <2> QED  BY <2>1, <2>2, <2>3, GrantableNat, OutlayNat, EmissionNat, DoubleScaleNat
            DEF IndInv, TypeOK
<1> HIDE DEF e
<1>4. \A b, g, x \in Nat : /\ bound(b, g) \in Nat
                           /\ bound(b + 1, g) = bound(b, g) + doubleScale * e
                           /\ bound(b, g + x) = bound(b, g) + doubleScale * x
                           /\ doubleScale * x \in Nat /\ doubleScale * e \in Nat
  <2> TAKE b, g, x \in Nat
  <2> DEFINE y == e * b
  <2>1. e * (b + 1) = y + e /\ y \in Nat
    BY <1>3, ProductNat
  <2> HIDE DEF y
  <2>2. \A p, q, r \in Nat : r * (p + q) = r * p + r * q /\ r * p \in Nat
    BY ProductNat
  <2>3. y + g \in Nat
    BY <2>1
  <2>4. /\ doubleScale * ((y + g) + e) = doubleScale * (y + g) + doubleScale * e
        /\ doubleScale * ((y + g) + x) = doubleScale * (y + g) + doubleScale * x
        /\ doubleScale * (y + g) \in Nat /\ doubleScale * x \in Nat /\ doubleScale * e \in Nat
    BY <1>3, <2>2, <2>3
  <2>5. (y + e) + g = (y + g) + e /\ y + (g + x) = (y + g) + x
    BY <1>3, <2>1
  <2>6. e * (b + 1) + g = (y + g) + e /\ e * b + (g + x) = (y + g) + x /\ e * b + g = y + g
    BY <2>1, <2>5 DEF y
  <2> QED  BY <2>4, <2>6
<1>5. \A b, g, h \in Nat : g <= h => bound(b, g) <= bound(b, h)
  <2> SUFFICES ASSUME NEW b \in Nat, NEW g \in Nat, NEW h \in Nat, g <= h
               PROVE  bound(b, g) <= bound(b, h)
    OBVIOUS
  <2> DEFINE y == e * b
  <2>1. y \in Nat
    BY <1>3, ProductNat
  <2> HIDE DEF y
  <2>2. (y + g) * doubleScale <= (y + h) * doubleScale /\ y + g \in Nat /\ y + h \in Nat
    BY <1>3, <2>1, ProductMonotone
  <2>3. doubleScale * (y + g) <= doubleScale * (y + h)
    BY <2>2, DoubleScaleNat
  <2> QED  BY <2>3 DEF y
<1> HIDE DEF bound
<1>6. CASE OutlayKept /\ block' = block /\ compClaimed' >= compClaimed
  <2>1. outlay' <= outlay
    BY <1>2, <1>6 DEF OutlayKept
  <2>2. grantable <= grantable'
    BY <1>3, <1>6, RewardedMarketAssumption DEF grantable
  <2>3. bound(block, grantable) <= bound(block', grantable')
    BY <1>3, <1>5, <1>6, <2>2
  <2>4. bound(block, grantable) \in Nat /\ bound(block', grantable') \in Nat
    BY <1>3, <1>4
  <2> QED  BY <1>2, <1>3, <2>1, <2>3, <2>4
<1>7. CASE NextBlock /\ UNCHANGED <<flywheel, compVars>>
  <2> DEFINE c == contributions(flywheel)
             s == flywheel.compSpeed["supply"]
             b == flywheel.compSpeed["borrow"]
             p == promised(flywheel, ctoken, block)
             q == promised(flywheel, ctoken, block')
             d == doubleScale * compClaimed
  <2>1. block' = block + 1 /\ ctoken' = ctoken /\ flywheel' = flywheel /\ compClaimed' = compClaimed
    BY <1>7 DEF NextBlock, compVars
  <2>2. wellKept(flywheel, block) /\ wellStored(ctoken)
    BY FlywheelKept, BookWellStored
  <2>3. /\ q <= p + doubleScale * (c + s + b)
        /\ c \in Nat /\ \A side \in Sides : flywheel.compSpeed[side] \in Nat
    BY <1>3, <2>1, <2>2, BlockPromises
  <2>4. c + s + b <= e /\ c + s + b \in Nat
    BY <2>3, EmissionBounds DEF e, Sides
  <2>5. outlay' = q + d /\ outlay = p + d /\ p \in Nat /\ d \in Nat /\ q \in Nat
    <3>1. outlay' = promised(flywheel', ctoken', block') + doubleScale * compClaimed'
      BY DEF outlay
    <3>2. q \in Nat
      <4>1. wellKept(flywheel', block')
        BY DEF RewardsInv, RewardsTypeOK, RecordsArePast, wellKept
      <4> QED  BY <1>3, <2>1, <2>2, <4>1, PromisedNat
    <3> QED  BY <2>1, <3>1, <3>2, OutlayNat DEF outlay
  <2> DEFINE n == c + s + b
  <2>6. n \in Nat /\ n <= e /\ q <= p + doubleScale * n
    BY <2>3, <2>4
  <2> HIDE DEF n, c, s, b, p, q, d
  <2>7. doubleScale * n <= doubleScale * e /\ doubleScale * n \in Nat /\ doubleScale * e \in Nat
    <3>1. n * doubleScale <= e * doubleScale
      BY <1>3, <2>6, ProductMonotone
    <3>2. doubleScale * n \in Nat /\ doubleScale * e \in Nat
      BY <1>3, <2>6, ProductNat
    <3>3. doubleScale * n = n * doubleScale /\ doubleScale * e = e * doubleScale
      BY <1>3, <2>6
    <3> QED  BY <3>1, <3>2, <3>3
  <2>8. grantable' = grantable
    BY <2>1 DEF grantable
  <2>9. /\ bound(block', grantable') = bound(block, grantable) + doubleScale * e
        /\ bound(block, grantable) \in Nat
    BY <1>3, <1>4, <2>1, <2>8
  <2> DEFINE u == doubleScale * n
             v == doubleScale * e
             w == bound(block, grantable)
  <2>10. u \in Nat /\ v \in Nat /\ w \in Nat /\ u <= v /\ q <= p + u /\ p + d <= w
         /\ bound(block', grantable') = w + v
    BY <1>2, <2>5, <2>6, <2>7, <2>9
  <2> HIDE DEF u, v, w
  <2>11. q + d <= w + v
    BY <2>5, <2>10
  <2> QED  BY <2>5, <2>10, <2>11
<1>8. ASSUME NEW recipient \in Claimants, NEW amount \in Grants,
             compClaimed + amount <= MaxGranted, GrantComp(recipient, amount)
      PROVE  outlay' <= bound(block', grantable')
  <2>1. amount \in Nat /\ MaxGranted \in Nat
    BY RewardedMarketAssumption
  <2>2. outlay' = outlay + doubleScale * amount
    BY <1>8, <2>1, GrantCompOutlay
  <2>3. block' = block /\ compClaimed' = compClaimed + amount
    BY <1>8 DEF GrantComp, vars
  <2>4. grantable' = grantable + amount
    BY <1>3, <1>8, <2>1, <2>3 DEF grantable
  <2>5. /\ bound(block', grantable') = bound(block, grantable) + doubleScale * amount
        /\ bound(block, grantable) \in Nat /\ doubleScale * amount \in Nat
    BY <1>3, <1>4, <2>1, <2>3, <2>4
  <2> QED  BY <1>2, <1>3, <2>2, <2>5
<1>9. CASE OutlayKept /\ block' = block /\ UNCHANGED compVars
  BY <1>3, <1>6, <1>9 DEF compVars
<1>10. CASE OutlayKept /\ block' = block /\ Drip
  BY <1>3, <1>6, <1>10 DEF Drip
<1>11. ASSUME OutlayKept, block' = block, NEW first \in Holders, NEW second \in Holders,
              NEW m \in Markets, NEW c \in Markets, NEW sides, ClaimComp(first, second, m, c, sides)
       PROVE  outlay' <= bound(block', grantable')
  BY <1>6, <1>11, ClaimCompPromises
<1> QED  BY <1>7, <1>8, <1>9, <1>10, <1>11, StepKinds DEF StepKind
-----------------------------------------------------------------------------
(* The claims of every behaviour                                           *)

\* The claims of all are what is promised at most.
LEMMA ClaimsPromised ==
  ASSUME IndInv, RewardsInv, RewardsStarted, Accounted, DebtsFree, withoutInterest,
         NEW sum, sum = SumFunction([h \in Holders |-> owedComp(h)])
  PROVE  sum \in Nat /\ doubleScale * (sum + compClaimed) <= outlay
<1> DEFINE W == [h \in Holders |-> worth(flywheel, ctoken, block, listedMarkets, h)]
           O == [h \in Holders |-> owedComp(h)]
<1>1. O = W
  <2>1. \A h \in Holders : owedComp(h) = worth(flywheel, ctoken, block, listedMarkets, h)
    BY DEF Accounted, Worth
  <2> QED  BY <2>1
<1>2. sum = SumFunctionOnSet(W, Holders)
  <2>1. DOMAIN O = Holders
    OBVIOUS
  <2> HIDE DEF O, W
  <2>2. sum = SumFunction(O)
    BY DEF O
  <2> QED  BY <1>1, <2>1, <2>2 DEF SumFunction
<1>3. \A m \in listedMarkets :
         /\ wellShared(ctoken[m])
         /\ \A side \in Sides : flywheel.compState[side][m].index >= compInitialIndex
  <2> TAKE m \in listedMarkets
  <2>1. m \in Markets /\ isListed(m)
    BY DEF listedMarkets
  <2>2. ctoken[m] \in CTokenStorage /\ tokensAddUp(ctoken[m])
    BY <2>1, MarketsSound DEF validMarket
  <2>3. wellShared(ctoken[m])
    BY <2>1, <2>2, FreeShared DEF DebtsFree, freeDebts, withoutInterest
  <2> QED  BY <2>1, <2>3 DEF RewardsStarted
<1>4. sum \in Nat /\ doubleScale * sum <= promised(flywheel, ctoken, block)
  BY <1>2, <1>3, FlywheelKept, BookWellStored, WorthPromised
<1>5. compClaimed \in Nat /\ promised(flywheel, ctoken, block) \in Nat
      /\ outlay = promised(flywheel, ctoken, block) + doubleScale * compClaimed
  BY OutlayNat DEF outlay, RewardsInv, RewardsTypeOK
<1>6. /\ doubleScale * (sum + compClaimed) = doubleScale * sum + doubleScale * compClaimed
      /\ doubleScale * sum \in Nat /\ doubleScale * compClaimed \in Nat
  <2>1. \A p, q, r \in Nat : r * (p + q) = r * p + r * q
    OBVIOUS
  <2> QED  BY <1>4, <1>5, <2>1, DoubleScaleNat
<1> DEFINE x == doubleScale * sum
           y == doubleScale * compClaimed
           p == promised(flywheel, ctoken, block)
<1>7. x \in Nat /\ y \in Nat /\ p \in Nat /\ x <= p /\ outlay = p + y
      /\ doubleScale * (sum + compClaimed) = x + y
  BY <1>4, <1>5, <1>6
<1> HIDE DEF x, y, p
<1>8. x + y <= p + y
  BY <1>7
<1> QED  BY <1>4, <1>7, <1>8

\* The drip pays what may be paid.
LEMMA DripCovers ==
  ASSUME NEW speed \in Nat, NEW contribution \in Nat, DripIsEnough(speed, contribution),
         IndInv, RewardsInv, DripSound, NEW sum \in Nat,
         sum + compClaimed <= emission(speed, contribution) * block + grantable
  PROVE  sum <= compBalance[ComptrollerAddress] + toDrip
<1> DEFINE e == emission(speed, contribution)
           bal == compBalance[ComptrollerAddress]
           reserve == compBalance[ReservoirAddress]
<1>1. /\ e \in Nat /\ block \in Nat /\ grantable \in Nat /\ grantable <= MaxGranted
      /\ grantable <= compClaimed /\ compClaimed \in Nat /\ dripped \in Nat
      /\ bal \in Nat /\ reserve \in Nat /\ toDrip \in Nat /\ MaxGranted \in Nat
      /\ dripRate \in Nat /\ MaxBlock \in Nat /\ initialReserve \in Nat
  BY EmissionNat, GrantableNat, DripBounds, RewardConstants, RewardedMarketAssumption,
     MoneyMarketAssumption DEF RewardsInv, RewardsTypeOK, IndInv, TypeOK
<1>2. /\ reserve + dripped = initialReserve /\ bal <= dripped /\ dripped <= bal + compClaimed
      /\ block <= MaxBlock /\ (block = 0 => compClaimed = 0) /\ dripped <= dripRate * block
      /\ e + MaxGranted <= dripRate /\ dripRate * MaxBlock <= initialReserve
  BY DEF DripSound, DripIsEnough, RewardsInv, RecordsArePast
<1> DEFINE drip == dripRate * block
           emitted == e * block
<1>3. drip \in Nat /\ emitted \in Nat
  BY <1>1, ProductNat
<1>4. toDrip = drip - dripped
  <2>1. dripRate * MaxBlock \in Nat /\ drip <= dripRate * MaxBlock
    <3>1. block * dripRate <= MaxBlock * dripRate
      BY <1>1, <1>2, ProductMonotone
    <3>2. block * dripRate = dripRate * block /\ MaxBlock * dripRate = dripRate * MaxBlock
      BY <1>1
    <3> QED  BY <1>1, <3>1, <3>2, ProductNat
  <2>2. drip <= initialReserve
    BY <1>1, <1>2, <1>3, <2>1
  <2>3. toDrip = IF reserve < drip - dripped THEN reserve ELSE drip - dripped
    BY DEF toDrip
  <2> HIDE DEF drip, reserve
  <2> QED  BY <1>1, <1>2, <1>3, <2>2, <2>3
<1>5. sum + compClaimed <= emitted + grantable
  OBVIOUS
<1> HIDE DEF emitted, drip, bal, reserve, e
<1>6. CASE block = 0
  <2>1. emitted = 0
    BY <1>1, <1>6 DEF emitted
  <2>2. sum = 0
    BY <1>1, <1>2, <1>5, <1>6, <2>1
  <2> QED  BY <1>1, <2>2 DEF bal
<1>7. CASE block # 0
  <2>1. emitted + MaxGranted <= drip
    <3>1. MaxGranted * 1 <= MaxGranted * block
      <4>1. 1 * MaxGranted <= block * MaxGranted
        BY <1>1, <1>7, ProductMonotone
      <4> QED  BY <1>1, <4>1
    <3>2. (e + MaxGranted) * block <= dripRate * block /\ e + MaxGranted \in Nat
      BY <1>1, <1>2, ProductMonotone
    <3>3. (e + MaxGranted) * block = e * block + MaxGranted * block /\ MaxGranted * block \in Nat
      <4>1. \A p, q, r \in Nat : (p + q) * r = p * r + q * r
        OBVIOUS
      <4> QED  BY <1>1, <4>1, ProductNat
    <3> DEFINE y == MaxGranted * block
    <3>4. y \in Nat /\ MaxGranted <= y /\ emitted + y <= drip
      BY <1>1, <3>1, <3>2, <3>3 DEF emitted, drip
    <3> HIDE DEF y
    <3> QED  BY <1>1, <1>3, <3>4
  <2>2. sum + compClaimed <= drip
    BY <1>1, <1>3, <1>5, <2>1
  <2>3. sum <= bal + toDrip
    BY <1>1, <1>2, <1>3, <1>4, <2>2
  <2> QED  BY <2>3 DEF bal
<1> QED  BY <1>6, <1>7

\* Within the bounds every claim is covered.
LEMMA ClaimsFollow ==
  ASSUME NEW speed \in Nat, NEW contribution \in Nat, DripIsEnough(speed, contribution),
         IndInv, RewardsInv, RewardsStarted, Accounted, DebtsFree, DripSound,
         OutlayBounded(speed, contribution), withoutInterest
  PROVE  ClaimsAreCovered
<1> DEFINE sum == SumFunction([h \in Holders |-> owedComp(h)])
           n == emission(speed, contribution) * block + grantable
           k == sum + compClaimed
<1>1. sum \in Nat /\ doubleScale * k <= outlay
  BY ClaimsPromised
<1>2. outlay <= doubleScale * n
  BY DEF OutlayBounded
<1> HIDE DEF sum
<1>3. k \in Nat /\ n \in Nat
  <2>1. block \in Nat
    BY DEF IndInv, TypeOK
  <2>2. emission(speed, contribution) * block \in Nat
    BY <2>1, EmissionNat, ProductNat
  <2> QED  BY <1>1, <2>2, GrantableNat
<1> HIDE DEF k, n
<1>4. k <= n
  <2>1. doubleScale * k \in Nat /\ doubleScale * n \in Nat /\ outlay \in Nat
    BY <1>3, DoubleScaleNat, OutlayNat
  <2>2. doubleScale * k <= doubleScale * n
    BY <1>1, <1>2, <2>1
  <2>3. CASE k >= n + 1
    <3>1. (n + 1) * doubleScale <= k * doubleScale
      BY <1>3, <2>3, DoubleScaleNat, ProductMonotone
    <3>2. (n + 1) * doubleScale = doubleScale * n + doubleScale /\ k * doubleScale = doubleScale * k
      BY <1>3, DoubleScaleNat
    <3> QED  BY <2>1, <2>2, <3>1, <3>2, DoubleScaleNat
  <2> QED  BY <1>3, <2>3
<1>5. sum <= compBalance[ComptrollerAddress] + toDrip
  BY <1>1, <1>4, DripCovers DEF k, n
<1> QED  BY <1>5 DEF ClaimsAreCovered, sum

\* All that a state satisfies in which every claim is covered, as long as there
\* is no interest
CoverSound(speed, contribution) ==
  /\ RewardsSound /\ DebtsFree /\ DripSound
  /\ RatesBounded(speed, contribution) /\ OutlayBounded(speed, contribution)

LEMMA CoverFrom ==
  ASSUME NEW speed \in Nat, NEW contribution \in Nat, DripIsEnough(speed, contribution)
  PROVE  CoverSound(speed, contribution) /\ [][RewardedNext]_rewardedVars
           => [](withoutInterest => ClaimsAreCovered)
<1> DEFINE Inv == CoverSound(speed, contribution)
<1>1. ASSUME Inv, RewardsSound', [RewardedNext]_rewardedVars
      PROVE  Inv'
  <2>1. /\ IndInv /\ IndInv' /\ RewardsInv /\ RewardsInv' /\ RewardsStarted
        /\ DebtsFree /\ DripSound /\ RatesBounded(speed, contribution)
        /\ OutlayBounded(speed, contribution)
    BY <1>1 DEF CoverSound, RewardsSound
  <2>2. DebtsFree'
    BY <1>1, <2>1, FreeStays
  <2>3. DripSound'
    BY <1>1, <2>1, StepKinds, DripStays
  <2>4. RatesBounded(speed, contribution)'
    BY <1>1, <2>1, RatesStayBounded
  <2>5. OutlayBounded(speed, contribution)'
    BY <1>1, <2>1, OutlayStaysBounded
  <2> QED  BY <1>1, <2>2, <2>3, <2>4, <2>5 DEF CoverSound
<1>2. Inv => RewardsSound
  BY DEF CoverSound
<1>3. ASSUME Inv, Accounted, withoutInterest PROVE ClaimsAreCovered
  BY <1>3, ClaimsFollow DEF CoverSound, RewardsSound
<1>4. Inv /\ RewardsSound' /\ [RewardedNext]_rewardedVars => Inv'
  BY <1>1
<1>5. Inv /\ Accounted => (withoutInterest => ClaimsAreCovered)
  BY <1>3
<1> HIDE DEF Inv
<1>6. Inv /\ [][RewardedNext]_rewardedVars => []RewardsSound /\ []Accounted
  BY <1>2, RewardsSoundFrom, PTL
<1>7. Inv /\ [][RewardedNext]_rewardedVars => []Inv
  BY <1>4, <1>6, PTL
<1>8. Inv /\ [][RewardedNext]_rewardedVars => [](withoutInterest => ClaimsAreCovered)
  BY <1>5, <1>6, <1>7, PTL
<1> QED  BY <1>8 DEF Inv

\* Where nothing is due nothing is promised.
LEMMA NothingDuePromised ==
  ASSUME IndInv, RewardsInv, NothingDue
  PROVE  promised(flywheel, ctoken, block) = 0
<1>1. /\ wellKept(flywheel, block) /\ wellStored(ctoken) /\ block = 0 /\ block \in Nat
      /\ flywheel \in FlywheelStorage /\ flywheel.lastContributorBlock \in [Holders -> Nat]
  BY FlywheelKept, BookWellStored, FlywheelFields DEF NothingDue, wellKept
<1> DEFINE C == [h \in Holders |-> credit(flywheel, block, h)]
           M == [m \in RewardMarkets |-> marketPromised(flywheel, m, ctoken[m], block)]
<1>2. ASSUME NEW h \in Holders PROVE C[h] = 0
  <2>1. flywheel.compAccrued[h] = 0 /\ flywheel.contributorSpeed[h] = 0
        /\ block - flywheel.lastContributorBlock[h] \in Nat
    BY <1>1, ContributionNat DEF NothingDue
  <2>2. \A x \in Nat : 0 + x * 0 = 0
    OBVIOUS
  <2>3. C[h] = flywheel.compAccrued[h]
               + (block - flywheel.lastContributorBlock[h]) * flywheel.contributorSpeed[h]
    BY DEF credit
  <2> QED  BY <2>1, <2>2, <2>3
<1>3. ASSUME NEW m \in RewardMarkets, NEW side \in Sides
      PROVE  sidePromised(flywheel, side, m, ctoken[m], block) = 0
  <2>1. ctoken[m] \in CTokenStorage /\ validSnapshots(ctoken[m])
    BY <1>1 DEF wellStored
  <2>2. unshared(flywheel, side, m, block) = 0
    <3>1. marketSpeed(flywheel, side, m) \in Nat
      BY <1>1, MarketSpeedNat
    <3>2. block - flywheel.compState[side][m].block = 0
      BY <1>1 DEF NothingDue
    <3>3. \A x \in Nat : 0 * x = 0
      OBVIOUS
    <3> QED  BY <3>1, <3>2, <3>3, DoubleScaleNat DEF unshared
  <2> DEFINE D == [h \in Holders |-> due(flywheel, side, m, ctoken[m], h)]
  <2>3. ASSUME NEW h \in Holders PROVE D[h] = 0
    <3> DEFINE n == shares(side, ctoken[m], h)
               index == flywheel.compState[side][m].index
               prior == flywheel.accountIndex[side][m][h]
    <3>1. index \in Nat /\ prior \in Nat /\ prior <= index /\ n \in Nat
      BY <1>1, <2>1, IndexesNat, SharesNat DEF wellKept, recordsArePast
    <3>2. D[h] = n * lead(index, prior)
      BY DEF due
    <3>3. n = 0 \/ prior = index
      <4>1. CASE side = "borrow"
        BY <2>1, <4>1, NoDebtNoShare DEF NothingDue
      <4>2. CASE side = "supply"
        BY <4>2 DEF NothingDue, shares
      <4> QED  BY <4>1, <4>2 DEF Sides
    <3> HIDE DEF n, index, prior, D
    <3>4. lead(index, prior) \in Nat /\ (prior = index => lead(index, prior) = 0)
      BY <3>1, LeadNat
    <3>5. \A x \in Nat : 0 * x = 0 /\ x * 0 = 0
      OBVIOUS
    <3> QED  BY <3>1, <3>2, <3>3, <3>4, <3>5
  <2> HIDE DEF D
  <2>4. SumFunctionOnSet(D, Holders) = 0
    BY <2>3, HoldersFinite, SumZeros
  <2> QED  BY <2>2, <2>4 DEF sidePromised, unpaid, D
<1>4. \A m \in RewardMarkets : M[m] = 0
  BY <1>3 DEF marketPromised, Sides
<1>5. promised(flywheel, ctoken, block)
        = doubleScale * SumFunctionOnSet(C, Holders) + SumFunctionOnSet(M, RewardMarkets)
  BY DEF promised, credits, marketsPromised
<1> HIDE DEF C, M
<1>6. SumFunctionOnSet(C, Holders) = 0 /\ SumFunctionOnSet(M, RewardMarkets) = 0
  BY <1>2, <1>4, HoldersFinite, CompFlywheelAssumption, SumZeros
<1>7. doubleScale * 0 = 0
  BY DoubleScaleNat
<1> QED  BY <1>5, <1>6, <1>7

\* A market with nothing due covers every claim.
LEMMA NothingDueCovered ==
  ASSUME NEW speed \in Nat, NEW contribution \in Nat, DripIsEnough(speed, contribution),
         RewardsSound, NothingDue
  PROVE  CoverSound(speed, contribution)
<1>1. /\ IndInv /\ RewardsInv /\ block = 0 /\ compClaimed = 0 /\ dripped = 0
      /\ compBalance = [h \in CompHolders |-> IF h = ReservoirAddress THEN initialReserve ELSE 0]
  BY DEF RewardsSound, NothingDue, CompInit
<1>2. DebtsFree
  <2>1. ASSUME NEW m \in Markets PROVE plainDebts(ctoken[m])
    <3> DEFINE P == [h \in Holders |-> ctoken[m].accountBorrows[h].principal]
    <3>1. \A h \in Holders : ctoken[m].accountBorrows[h].principal = 0
      BY RewardConstants DEF NothingDue
    <3>2. \A h \in Holders : P[h] = 0
      BY <3>1
    <3> HIDE DEF P
    <3>3. SumFunctionOnSet(P, Holders) = 0
      BY <3>2, HoldersFinite, SumZeros
    <3>4. ctoken[m].totalBorrows \in Nat
      BY <1>1, MarketsSound DEF CTokenStorage
    <3> QED  BY <3>1, <3>3, <3>4 DEF plainDebts, P
  <2> QED  BY <2>1 DEF DebtsFree, freeDebts
<1>3. DripSound
  <2>1. /\ compBalance[ReservoirAddress] = initialReserve /\ compBalance[ComptrollerAddress] = 0
        /\ initialReserve \in Nat /\ MaxBlock \in Nat
    BY <1>1, RewardConstants, RewardedMarketAssumption, MoneyMarketAssumption
  <2> QED  BY <1>1, <2>1 DEF DripSound
<1>4. RatesBounded(speed, contribution)
  BY DEF NothingDue, DripIsEnough, RatesBounded
<1>5. OutlayBounded(speed, contribution)
  <2>1. outlay = 0
    <3>1. doubleScale * 0 = 0
      BY DoubleScaleNat
    <3> QED  BY <1>1, <3>1, NothingDuePromised DEF outlay
  <2>2. doubleScale * (emission(speed, contribution) * block + grantable) \in Nat
    <3>1. emission(speed, contribution) * block \in Nat
      BY <1>1, EmissionNat, ProductNat
    <3>2. emission(speed, contribution) * block + grantable \in Nat
      BY <1>1, <3>1, GrantableNat
    <3> QED  BY <3>2, DoubleScaleNat
  <2> QED  BY <2>1, <2>2 DEF OutlayBounded
<1> QED  BY <1>2, <1>3, <1>4, <1>5 DEF CoverSound

\* If the Reservoir drips what the speeds and the grants add up to, and until a
\* market has interest on its debts, the Comptroller can pay every claim at once
\* with what it has and is dripped: in no order of mints, transfers, listings,
\* speeds, weights, contributors and claims is COMP promised twice.
THEOREM ClaimsStayCovered ==
  ASSUME NEW speed \in Nat, NEW contribution \in Nat, DripIsEnough(speed, contribution)
  PROVE  RewardedSpec => [](withoutInterest => ClaimsAreCovered)
<1>1. ASSUME RewardedInit PROVE CoverSound(speed, contribution)
  <2>1. /\ flywheel = initialFlywheel /\ block = 0 /\ CompInit /\ RewardMarkets = Markets
        /\ ctoken = [m \in Markets |-> initialize(initialExchangeRate[m], initialModel[m], 0)]
    BY <1>1, RewardConstants DEF RewardedInit, Init
  <2>2. \A m \in RewardMarkets, h \in Holders :
           ctoken[m].accountTokens[h] = 0 /\ ctoken[m].accountBorrows[h].principal = 0
    BY <2>1 DEF initialize
  <2>3. NothingDue
    BY <2>1, <2>2 DEF NothingDue, initialFlywheel
  <2> QED  BY <1>1, <2>3, RewardsSoundInitially, NothingDueCovered
<1>2. RewardedInit => CoverSound(speed, contribution)
  BY <1>1
<1>3. CoverSound(speed, contribution) /\ [][RewardedNext]_rewardedVars
        => [](withoutInterest => ClaimsAreCovered)
  BY CoverFrom
<1> HIDE DEF CoverSound
<1> QED  BY <1>2, <1>3, PTL DEF RewardedSpec

\* Whatever deploy/ is given, every claim can be paid from there on too, where
\* the Reservoir drips what the speeds and the grants add up to, until a market
\* has interest on its debts: the seeds it mints are promised nothing but what
\* the blocks after them emit.
THEOREM DeployedClaimsStayCovered ==
  ASSUME NEW speed \in Nat, NEW contribution \in Nat, DripIsEnough(speed, contribution),
         NEW cf, NEW rf, NEW etherSeed, DeployedWith(cf, rf, etherSeed),
         NEW weights \in [RewardMarkets -> Nat]
  PROVE  DeployedRewardedInit(cf, rf, etherSeed, weights) /\ [][RewardedNext]_rewardedVars =>
            [](withoutInterest => ClaimsAreCovered)
<1>1. ASSUME DeployedRewardedInit(cf, rf, etherSeed, weights)
      PROVE  CoverSound(speed, contribution)
  BY <1>1, DeployedRewardsInitially, NothingDueCovered
<1>2. DeployedRewardedInit(cf, rf, etherSeed, weights) => CoverSound(speed, contribution)
  BY <1>1
<1>3. CoverSound(speed, contribution) /\ [][RewardedNext]_rewardedVars
        => [](withoutInterest => ClaimsAreCovered)
  BY CoverFrom
<1> HIDE DEF CoverSound
<1> QED  BY <1>2, <1>3, PTL
=============================================================================
