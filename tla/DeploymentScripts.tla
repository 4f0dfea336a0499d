-------------------------- MODULE DeploymentScripts --------------------------
(***************************************************************************)
(* The fifteen hardhat-deploy scripts of deploy/, as data: what each       *)
(* script fetches, deploys, reads and sends, in the order of the file, and *)
(* the order in which an untagged run (package.json, deploy:devnet and     *)
(* deploy:mainnet) takes the scripts.                                      *)
(***************************************************************************)
EXTENDS Naturals, Sequences, SequencesExt

(* A step fetches contracts by name ("uses"), may deploy one, and sends its
   calls if the chain is not yet as it wants it ("wants"). *)
Step == [uses |-> {}, deploys |-> "nothing", wants |-> "nothing", calls |-> <<>>]

Call(call, on) == [call |-> call, on |-> on]

(* await deploy(name, {args: [...]}) *)
Deploys(name, args) == << [Step EXCEPT !.deploys = name, !.uses = args] >>
(* await ethers.getContract(name) *)
Fetches(names) == << [Step EXCEPT !.uses = names] >>
(* if (what is read differs) { await (await contract.f(...)).wait(); ... } *)
Ensures(what, of, txs) == << [Step EXCEPT !.wants = what, !.uses = of, !.calls = txs] >>

(* the same without a condition *)
Always(of, txs) == Ensures("always", of, txs)

PriceOracleScript == Deploys("SimplePriceOracle", {}) \o Deploys("OracleAggregatorV1", {"A3OWrapper"})

CompScript == Deploys("Comp", {})

ComptrollerScript ==
     Fetches({"Comp"})
  \o Deploys("Unitroller", {}) \o Deploys("Comptroller", {})
  \o Ensures("implementation", {"Unitroller", "Comptroller"},
             << Call("_setPendingImplementation", "Unitroller"), Call("_become", "Comptroller") >>)
  \o Deploys("Reservoir", {"Comp", "Unitroller"})
  \o Ensures("compParameters", {}, << Call("_initializeCompParameters", "Unitroller") >>)
  \o Ensures("closeFactor", {}, << Call("_setCloseFactor", "Unitroller") >>)
  \o Ensures("liquidationIncentive", {}, << Call("_setLiquidationIncentive", "Unitroller") >>)
  \o Ensures("oracle", {"OracleAggregatorV1"}, << Call("_setPriceOracle", "Unitroller") >>)

JumpRateModelScript == Deploys("StableJumpRateModel", {}) \o Deploys("NativeJumpRateModel", {})

CErc20DelegateScript == Deploys("CErc20Delegate", {})

(* What 005 and 006 set for their market once it is listed. *)
MarketSettings(market) ==
     Ensures("collateralFactor", {market}, << Call("_setCollateralFactor", market) >>)
  \o Ensures("compWeight", {market}, << Call("_setCompWeight", market) >>)
  \o Ensures("reserveFactor", {market}, << Call("_setReserveFactor", market) >>)

XUSDCScript ==
     Fetches({"Comptroller", "Unitroller", "StableJumpRateModel", "CErc20Delegate"})
  \o Deploys("xUSDCDelegator", {"USDC", "Unitroller", "StableJumpRateModel", "CErc20Delegate"})
  \o Ensures("listing", {"xUSDCDelegator"},
             << Call("transferSeed", "xUSDCDelegator"), Call("_supportMarket", "xUSDCDelegator") >>)
  \o Ensures("price", {"SimplePriceOracle"}, << Call("setUnderlyingPrice", "SimplePriceOracle") >>)
  \o Always({"OracleAggregatorV1"}, << Call("setAggregators", "xUSDCDelegator") >>)
  \o MarketSettings("xUSDCDelegator")

XMadaScript ==
     Fetches({"Comptroller", "Unitroller", "NativeJumpRateModel"})
  \o Deploys("XMada", {"Unitroller", "NativeJumpRateModel"})
  \o Ensures("listing", {"XMada"}, << Call("_supportMarket", "XMada") >>)
  \o Always({"OracleAggregatorV1"}, << Call("setAggregators", "XMada") >>)
  \o MarketSettings("XMada")

LensScript == Deploys("CompoundLens", {}) \o Deploys("InterestRateModelLens", {})

TimelockScript == Deploys("Timelock", {})

GovernorBravoDelegateScript == Deploys("GovernorBravoDelegate", {})

GovernorBravoDelegatorScript ==
  Deploys("GovernorBravoDelegator", {"Timelock", "Comp", "GovernorBravoDelegate"})

GovernorAlphaScript == Deploys("GovernorAlpha", {"Timelock", "Comp"})

MaximillionScript == Deploys("Maximillion", {"XMada"})

CompLockScript == Deploys("CompLock", {"Comp", "Unitroller"})

Offers(name) == Always({name}, << Call("_setPendingAdmin", name) >>)

PostDeploymentScript ==
     Fetches({"Comp", "Reservoir", "CompLock", "Unitroller", "OracleAggregatorV1",
              "GovernorBravoDelegator", "GovernorBravoDelegate"})
  \o Ensures("shares", {}, << Call("transferShare", "Reservoir"), Call("transferShare", "CompLock") >>)
  \o Offers("Unitroller") \o Offers("OracleAggregatorV1")
  \o Offers("xUSDCDelegator") \o Offers("XMada") \o Offers("GovernorBravoDelegator")

-----------------------------------------------------------------------------
(* The files in the order of their names, with module.exports.dependencies. *)
Files == <<
  [tag |-> "PriceOracle", after |-> <<>>, steps |-> PriceOracleScript],
  [tag |-> "Comp", after |-> <<>>, steps |-> CompScript],
  [tag |-> "Comptroller", after |-> <<"PriceOracle", "JumpRateModel">>, steps |-> ComptrollerScript],
  [tag |-> "JumpRateModel", after |-> <<>>, steps |-> JumpRateModelScript],
  [tag |-> "CErc20Delegate", after |-> <<>>, steps |-> CErc20DelegateScript],
  [tag |-> "xUSDC", after |-> <<"Comptroller", "JumpRateModel", "PriceOracle", "CErc20Delegate">>,
   steps |-> XUSDCScript],
  [tag |-> "xMada", after |-> <<"Comptroller", "JumpRateModel", "PriceOracle">>, steps |-> XMadaScript],
  [tag |-> "UnitedXLens", after |-> <<>>, steps |-> LensScript],
  [tag |-> "Timelock", after |-> <<>>, steps |-> TimelockScript],
  [tag |-> "GovernorBravoDelegate", after |-> <<>>, steps |-> GovernorBravoDelegateScript],
  [tag |-> "GovernorBravoDelegator", after |-> <<"GovernorBravoDelegate", "Comp", "Timelock">>,
   steps |-> GovernorBravoDelegatorScript],
  [tag |-> "GovernorAlpha", after |-> <<"Comp", "Timelock">>, steps |-> GovernorAlphaScript],
  [tag |-> "Maximillion", after |-> <<>>, steps |-> MaximillionScript],
  [tag |-> "CompLock", after |-> <<>>, steps |-> CompLockScript],
  [tag |-> "PostDeployment", after |-> <<>>, steps |-> PostDeploymentScript] >>


(* hardhat-deploy runs a script once, after those it depends on: in the order
   of the file names, but for 003, on which 002 depends. *)
RunOrder == << 1, 2, 4, 3, 5, 6, 7, 8, 9, 10, 11, 12, 13, 14, 15 >>

ASSUME RunOrderIsHardhats ==
  /\ ToSet(RunOrder) = DOMAIN Files
  /\ \A k \in DOMAIN RunOrder : \A tag \in ToSet(Files[RunOrder[k]].after) :
       \E i \in 1 .. k - 1 : Files[RunOrder[i]].tag = tag
  /\ \A i, k \in DOMAIN RunOrder : i < k /\ RunOrder[i] > RunOrder[k] =>
       \E j \in i + 1 .. k : Files[RunOrder[i]].tag \in ToSet(Files[RunOrder[j]].after)

(* The networks of hardhat.config.js by what the address maps of the scripts
   hold for their chain id: 200101 and 31337; 2001, whose underlying token is
   the empty string; and any other id. *)
Networks == {"devnet", "mainnet", "unknown"}
Externals(net) ==
  IF net = "devnet" THEN {"A3OWrapper", "USDC"}
  ELSE IF net = "mainnet" THEN {"A3OWrapper"} ELSE {}

(* module.exports.skip of 000 and 005: no entry in the address map. *)
Skipped(net) == IF net = "unknown" THEN {"PriceOracle", "xUSDC"} ELSE {}

(* The steps of a whole run on each network. *)
Steps(net, k) ==
  LET file == Files[RunOrder[k]] IN IF file.tag \in Skipped(net) THEN <<>> ELSE file.steps
PlanOn(net) ==
  LET upTo[k \in 0 .. Len(RunOrder)] == IF k = 0 THEN <<>> ELSE upTo[k - 1] \o Steps(net, k)
  IN upTo[Len(RunOrder)]
Plan == [devnet |-> PlanOn("devnet"), mainnet |-> PlanOn("mainnet"), unknown |-> PlanOn("unknown")]

(* The names under which the scripts save what they deploy. *)
Names == {s.deploys : s \in UNION {ToSet(Files[i].steps) : i \in DOMAIN Files}} \ {"nothing"}
=============================================================================
