SPECIFICATION GovernanceSpec
CONSTANTS
  alice = alice
  bob = bob
  deployer = deployer
  Accounts <- MCAccounts
  Nobody = Nobody
  Officials <- MCOfficials
  Deployer = deployer
  Bravo = Bravo
  MINIMUM_DELAY = 1
  MAXIMUM_DELAY = 2
  GRACE_PERIOD = 2
  VotingDelays = {1, 2}
  VotingPeriods = {1, 2}
  ProposalThresholds = {1, 2}
  delay_ = 1
  votingDelay_ = 1
  votingPeriod_ = 1
  proposalThreshold_ = 1
  quorumVotes = 2
  Agendas <- MCAgendas
  Installing <- MCInstalling
  FirstDelegates <- MCFirstDelegates
  MaxProposals = 3
  Genesis <- MCGenesis
  AlphaCounts = {0, 1}
  Ticks = {1, 3}
  MaxBlock = 6
  Budgets <- MCBudgets
INVARIANTS
  GovernanceTypeOK
  PriorVotesAreHistory
  VotesAreSpentOnce
  QueuedIsBacked
PROPERTIES
  ProposalsLiveTheirLife
CHECK_DEADLOCK FALSE
