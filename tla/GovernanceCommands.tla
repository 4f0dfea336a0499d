------------------------ MODULE GovernanceCommands ------------------------
(***************************************************************************)
(* The commands on COMP, the Governors, their proposals and the Timelock   *)
(* (scenario/src/Event: Comp, GovernorBravo, BravoProposal, Governor,      *)
(* Proposal, GovGuardian, Timelock).                                       *)
(***************************************************************************)
EXTENDS ContractBuilders

compTokenHandlers ==
    LET i == Invokes("Comp")
        scenario == Invokes("CompScenario") IN
    [verifyComp |-> Prints, approve |-> i, transfer |-> i, transferFrom |-> i,
     transferScenario |-> scenario, transferFromScenario |-> scenario, delegate |-> i,
     setBlockNumber |-> Invokes("Retired")]

compCommands ==
    LET h == compTokenHandlers IN
    Variants("Comp", CompTokens) \cup
    Table("Comp", [Verify |-> h.verifyComp, Approve |-> h.approve, Transfer |-> h.transfer,
                   TransferFrom |-> h.transferFrom, TransferScenario |-> h.transferScenario,
                   TransferFromScenario |-> h.transferFromScenario, Delegate |-> h.delegate,
                   SetBlockNumber |-> h.setBlockNumber])
-----------------------------------------------------------------------------
\* GovernorBravo.  SetImplementation starts the merge of the ABIs and returns
\* the world without it; HarnessInitiate has no argument, as in the harness.
bravoHandlers ==
    LET i == Invokes("GovernorBravo") IN
    [mergeABI |-> Merges, propose |-> i, setVotingDelay |-> i, setVotingPeriod |-> i,
     setProposalThreshold |-> i, setWhitelistAccountExpiration |-> i]

bravoAdminHandlers ==
    LET i == Invokes("GovernorBravo") IN
    [setWhitelistGuardian |-> i, setImplementation |-> MergesLater("GovernorBravoDelegator"),
     initiate |-> i, harnessInitiate |-> Invokes("GovernorBravoHarness"),
     setPendingAdmin |-> i, acceptAdmin |-> i, setBlockNumber |-> Invokes("Retired"),
     setBlockTimestamp |-> Invokes("Retired")]

bravoCommands ==
    LET h == bravoHandlers
        a == bravoAdminHandlers IN
    [Propose |-> h.propose, SetBlockNumber |-> a.setBlockNumber,
     SetBlockTimestamp |-> a.setBlockTimestamp, SetVotingDelay |-> h.setVotingDelay,
     SetVotingPeriod |-> h.setVotingPeriod]

bravoAdminCommands ==
    LET h == bravoHandlers
        a == bravoAdminHandlers IN
    [SetProposalThreshold |-> h.setProposalThreshold,
     SetWhitelistAccountExpiration |-> h.setWhitelistAccountExpiration,
     SetWhitelistGuardian |-> a.setWhitelistGuardian, Initiate |-> a.initiate,
     HarnessInitiate |-> a.harnessInitiate, SetImplementation |-> a.setImplementation,
     SetPendingAdmin |-> a.setPendingAdmin, AcceptAdmin |-> a.acceptAdmin,
     MergeABI |-> h.mergeABI]

\* A proposal is looked up on the chain before the Governor is called.
bravoProposalCommands ==
    LET i == Invokes("GovernorBravo") IN
    [VoteWithReason |-> i, Vote |-> i, Queue |-> i, Execute |-> i, Cancel |-> i]

governorBravoCommands ==
    UNION {Variants("GovernorBravo", GovernorBravos), Table("GovernorBravo", bravoCommands),
           Table("GovernorBravo", bravoAdminCommands),
           Table("GovernorBravo", bravoProposalCommands)}
-----------------------------------------------------------------------------
alphaHandlers ==
    [verifyGovernor |-> Prints, propose |-> Invokes("GovernorAlpha"),
     setBlockNumber |-> Invokes("Retired"), setBlockTimestamp |-> Invokes("Retired")]

proposalCommands ==
    LET i == Invokes("GovernorAlpha") IN
    [Vote |-> i, Queue |-> i, Execute |-> i, Cancel |-> i]

guardianCommandsOfGovernor ==
    LET i == Invokes("GovernorAlpha") IN
    [QueueSetTimelockPendingAdmin |-> i, ExecuteSetTimelockPendingAdmin |-> i,
     AcceptAdmin |-> i, Abdicate |-> i]

governorCommands ==
    LET h == alphaHandlers IN
    UNION {Variants("Governor", Governors), Table("Governor", proposalCommands),
           Table("Governor", guardianCommandsOfGovernor),
           Table("Governor", [Verify |-> h.verifyGovernor, Propose |-> h.propose,
                              SetBlockNumber |-> h.setBlockNumber,
                              SetBlockTimestamp |-> h.setBlockTimestamp])}
-----------------------------------------------------------------------------
timelockHandlers ==
    LET i == Invokes("Timelock")
        retired == Invokes("Retired") IN
    [acceptAdmin |-> i, setPendingAdmin |-> i, setAdmin |-> Invokes("TimelockHarness"),
     setDelay |-> i, fastForward |-> retired, setBlockTimestamp |-> retired, queueTransaction |-> i,
     cancelTransaction |-> i, executeTransaction |-> i, verifyTimelock |-> Prints]

timelockAdminCommands ==
    LET h == timelockHandlers IN
    [FastForward |-> h.fastForward, SetBlockTimestamp |-> h.setBlockTimestamp,
     SetDelay |-> h.setDelay, AcceptAdmin |-> h.acceptAdmin,
     SetPendingAdmin |-> h.setPendingAdmin, SetAdmin |-> h.setAdmin]

timelockQueueCommands ==
    LET h == timelockHandlers IN
    [QueueTransaction |-> h.queueTransaction, CancelTransaction |-> h.cancelTransaction,
     ExecuteTransaction |-> h.executeTransaction, Verify |-> h.verifyTimelock]

timelockCommands ==
    UNION {Variants("Timelock", Timelocks), Table("Timelock", timelockAdminCommands),
           Table("Timelock", timelockQueueCommands)}
=============================================================================
