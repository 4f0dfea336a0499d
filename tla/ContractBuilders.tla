-------------------------- MODULE ContractBuilders --------------------------
(***************************************************************************)
(* What the Deploy commands can deploy (scenario/src/Builder): per builder *)
(* the variants it knows and the artifact each deploys.  `Standard` and    *)
(* `Default` depend on the network: a local one gets the harness.  Every   *)
(* builder throws the error of a deployment that failed and otherwise      *)
(* stores and saves the contract, under the name its caller gave it or     *)
(* under a fixed one.                                                      *)
(***************************************************************************)
EXTENDS ScenarioCommand

CONSTANT LocalNetwork  \* whether the network is test, development or coverage

ByNetwork(local, otherwise) == Deploys(IF LocalNetwork THEN local ELSE otherwise)

CTokenDelegators ==
    [CErc20Delegator |-> Deploys("CErc20Delegator"),
     CErc20DelegatorScenario |-> Deploys("CErc20DelegatorScenario")]

CTokenImmutables ==
    [Scenario |-> Deploys("CErc20Scenario"), CEtherScenario |-> Deploys("CEtherScenario"),
     CEther |-> Deploys("CEther"), CErc20 |-> Deploys("CErc20Immutable")]

CTokenSpecials ==
    [CEvil |-> Deploys("CEvil"), Standard |-> ByNetwork("CErc20Scenario", "CErc20Immutable")]

CTokenBuilder ==
    UNION {Variants("CToken", CTokenDelegators), Variants("CToken", CTokenImmutables),
           Variants("CToken", CTokenSpecials)}

CTokenDelegates ==
    [CDaiDelegate |-> Deploys("CDaiDelegate"),
     CDaiDelegateScenario |-> Deploys("CDaiDelegateScenario"),
     CErc20Delegate |-> Deploys("CErc20Delegate"),
     CErc20DelegateScenario |-> Deploys("CErc20DelegateScenario")]

\* The generations G1 to G6, in the scenario's variant and as released.
ScenarioGenerations ==
    [ScenarioG1 |-> Deploys("ComptrollerScenarioG1"),
     ScenarioG2 |-> Deploys("ComptrollerScenarioG2"),
     ScenarioG3 |-> Deploys("ComptrollerScenarioG3"),
     ScenarioG4 |-> Deploys("ComptrollerScenarioG4"),
     ScenarioG5 |-> Deploys("ComptrollerScenarioG5"),
     ScenarioG6 |-> Deploys("ComptrollerScenarioG6"),
     Scenario |-> Deploys("ComptrollerScenario")]

StandardGenerations ==
    [StandardG1 |-> Deploys("ComptrollerG1"), StandardG2 |-> Deploys("ComptrollerG2"),
     StandardG3 |-> Deploys("ComptrollerG3"), StandardG4 |-> Deploys("ComptrollerG4"),
     StandardG5 |-> Deploys("ComptrollerG5"), StandardG6 |-> Deploys("ComptrollerG6"),
     Standard |-> Deploys("Comptroller")]

OtherComptrollers ==
    [Borked |-> Deploys("ComptrollerBorked"),
     Default |-> ByNetwork("ComptrollerScenario", "Comptroller")]

ComptrollerImplBuilder ==
    UNION {Variants("ComptrollerImpl", ScenarioGenerations),
           Variants("ComptrollerImpl", StandardGenerations),
           Variants("ComptrollerImpl", OtherComptrollers)}

\* Existing tokens are adopted with an invokation that carries no transaction.
Erc20s ==
    [Existing |-> Adopts("EIP20Interface"), ExistingTether |-> Adopts("TetherInterface"),
     NonStandard |-> Deploys("FaucetNonStandardToken"),
     ReEntrant |-> Deploys("FaucetTokenReEntrantHarness")]

SpecialErc20s ==
    [Evil |-> Deploys("EvilToken"), Standard |-> Deploys("FaucetToken"),
     WBTC |-> Deploys("WBTCToken"), Fee |-> Deploys("FeeToken")]

CompTokens ==
    [Scenario |-> Deploys("CompScenario"), Comp |-> ByNetwork("CompScenario", "Comp")]

GovernorBravos ==
    [BravoDelegator |-> Deploys("GovernorBravoDelegator"),
     BravoImmutable |-> Deploys("GovernorBravoImmutable"),
     BravoDelegate |-> Deploys("GovernorBravoDelegate"),
     BravoDelegateHarness |-> Deploys("GovernorBravoDelegateHarness")]

Governors ==
    [Alpha |-> Deploys("GovernorAlpha"), AlphaHarness |-> Deploys("GovernorAlphaHarness")]

Timelocks ==
    [Scenario |-> Deploys("TimelockHarness"), Standard |-> Deploys("Timelock"),
     Test |-> Deploys("TimelockTest"), Default |-> ByNetwork("TimelockHarness", "Timelock")]

InterestRateModels ==
    [Fixed |-> Deploys("InterestRateModelHarness"),
     WhitePaper |-> Deploys("WhitePaperInterestRateModel"),
     JumpRateModel |-> Deploys("JumpRateModel")]

LaterInterestRateModels ==
    [JumpRateModelV2 |-> Deploys("JumpRateModelV2"),
     LegacyJumpRateModelV2 |-> Deploys("LegacyJumpRateModelV2"),
     DAIInterestRateModel |-> Deploys("DAIInterestRateModelV3")]

PriceOracles ==
    [Fixed |-> Deploys("FixedPriceOracle"), Simple |-> Deploys("SimplePriceOracle"),
     Anchor |-> Deploys("AnchorPriceOracle"), NotPriceOracle |-> Deploys("NotPriceOracle")]

\* `PriceOracle Set` adopts an oracle and records no invokation for it.
setPriceOracle == AdoptsUnrecorded("PriceOracle")

PriceOracleProxies == [PriceOracleProxy |-> Deploys("PriceOracleProxy")]
MaximillionContract == [Maximillion |-> Deploys("Maximillion")]
UnitrollerContract == [Unitroller |-> Deploys("Unitroller")]

-----------------------------------------------------------------------------
(* The interfaces of the artifacts that proxies and their implementations  *)
(* are made of, as Solidity compiles them in this repository: the          *)
(* generations G1 to G6 are not in it.                                     *)

artifacts ==
    "Unitroller" :> {"Unitroller"} @@ "Comptroller" :> {"Comptroller"} @@
    "ComptrollerScenario" :> {"Comptroller", "ComptrollerScenario"} @@
    "ComptrollerBorked" :> {"ComptrollerG1"} @@
    "GovernorBravoDelegator" :> {"GovernorBravoDelegator"} @@
    "GovernorBravoImmutable" :> {"GovernorBravo", "GovernorBravoHarness"} @@
    "GovernorBravoDelegate" :> {"GovernorBravo"} @@
    "GovernorBravoDelegateHarness" :> {"GovernorBravo", "GovernorBravoHarness"}

Interfaces == UNION {artifacts[artifact] : artifact \in DOMAIN artifacts}
=============================================================================
