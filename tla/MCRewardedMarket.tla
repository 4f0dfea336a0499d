-------------------------- MODULE MCRewardedMarket --------------------------
(***************************************************************************)
(* Small instances of RewardedMarket, in the scale of MCMoneyMarket.  A    *)
(* Double of one is 10 too, so that indexes lose digits as well.           *)
(***************************************************************************)
EXTENDS MCMoneyMarket, RewardedMarket

longSchedule == << [timestamp |-> 2, compSpeed |-> 9], [timestamp |-> 3, compSpeed |-> 4] >>
quickSchedule == << [timestamp |-> 1, compSpeed |-> 9], [timestamp |-> 2, compSpeed |-> 4] >>

\* Borrowing is free, at any utilization.
freeModels == [m \in Markets |-> [mcModel EXCEPT !.baseRatePerBlock = 0,
                                                 !.multiplierPerBlock = 0,
                                                 !.jumpMultiplierPerBlock = 0]]

rewardRates == [m \in Markets |-> 10]
rewardUnderlying == [m \in Markets |-> u1 :> 1 @@ u2 :> 2 @@ comp :> 0]
rewardWeights == [m \in Markets |-> 10]
eachSide == {{side} : side \in Sides}
supplySide == {{"supply"}}

mcRewardedInit ==
    DeployedRewardedInit([m \in Markets |-> 8], [m \in Markets |-> 5], 1, rewardWeights)

mcRewardedSpec == mcRewardedInit /\ [][RewardedNext]_rewardedVars
=============================================================================
