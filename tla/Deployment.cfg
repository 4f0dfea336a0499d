SPECIFICATION FairDeploymentSpec
CONSTANTS
  RunsOn <- MCRunsOn
  Upgradable <- MCUpgradable
  MaxCrashes = 1
  MaxUpgrades = 1
  MaxTunes = 1
INVARIANTS
  DeploymentTypeOK
  LendingIsGuarded
  NothingIsPaidTwice
PROPERTIES
  HandoverComesLast
  Converges
