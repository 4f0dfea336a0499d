---------------------------- MODULE MCDeployment ----------------------------
(***************************************************************************)
(* Instance of Deployment: every network, upgrades of contracts that stand *)
(* behind a proxy, that markets are built from, and that others are        *)
(* configured with.                                                        *)
(***************************************************************************)
EXTENDS DeploymentPlan

MCRunsOn == Networks
MCUpgradable == {"Comptroller", "CErc20Delegate", "OracleAggregatorV1"}
=============================================================================
