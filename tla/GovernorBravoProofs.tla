------------------------- MODULE GovernorBravoProofs -------------------------
(***************************************************************************)
(* GovernorBravo for all parameters: proposals live the life that          *)
(* ProposalLifecycle allows them, while Bravo is the Timelock's admin what *)
(* it queued stays queued, the binary search over the checkpoints finds    *)
(* what was delegated to an account when a block ended, whatever the       *)
(* tokens and delegates did since, and each token votes at most once on a  *)
(* proposal.                                                               *)
(***************************************************************************)
EXTENDS GovernorBravo, SumProofs

AnyTimelock ==
  [admin : Officials \cup {Bravo}, pendingAdmin : Officials \cup {Bravo, Nobody},
   delay : MINIMUM_DELAY .. MAXIMUM_DELAY, queued : SUBSET (Action \X Nat)]

AnyGovernor ==
  [admin : Officials, pendingAdmin : Officials \cup {Nobody},
   initialProposalId : Nat, proposalCount : Nat,
   votingDelay : VotingDelays, votingPeriod : VotingPeriods, proposalThreshold : ProposalThresholds,
   whitelistGuardian : Callers \cup {Nobody}, whitelistAccountExpirations : [Callers -> Nat]]

\* A proposal but for the votes, which only its state looks at
WellFormed(p) ==
  /\ p = [proposer |-> p.proposer, actions |-> p.actions, eta |-> p.eta,
          startBlock |-> p.startBlock, endBlock |-> p.endBlock,
          againstVotes |-> p.againstVotes, forVotes |-> p.forVotes, abstainVotes |-> p.abstainVotes,
          canceled |-> p.canceled, executed |-> p.executed, receipts |-> p.receipts]
  /\ p.proposer \in Callers \cup {Nobody} /\ p.actions \in Seq(Action)
  /\ p.eta \in Nat /\ p.startBlock \in Nat /\ p.endBlock \in Nat
  /\ p.canceled \in BOOLEAN /\ p.executed \in BOOLEAN

Contracts ==
  /\ timelock \in AnyTimelock /\ governor \in AnyGovernor
  /\ latestProposalIds \in [Callers -> Nat]
  /\ block \in Nat /\ time \in Nat
  /\ DOMAIN proposals = Ids /\ proposals = [id \in Ids |-> proposals[id]]
  /\ \A id \in Ids : WellFormed(proposals[id])

\* Ids are given in order, once Bravo is initiated.
Numbered ==
  /\ governor.initialProposalId <= governor.proposalCount
  /\ governor.initialProposalId = 0 => governor.proposalCount = 0
  /\ \A id \in Ids : IF isProposal(id) THEN proposals[id].proposer \in Callers
                     ELSE proposals[id] = NoProposal

\* The vote was lost, or never won.
Won(p) == ~(p.forVotes <= p.againstVotes \/ p.forVotes < quorumVotes)

\* A vote has a block at least; who has an eta has won it; what is executed has an eta.
Voted ==
  \A id \in Ids : isProposal(id) =>
    LET p == proposals[id]
    IN /\ p.startBlock < p.endBlock
       /\ p.executed => p.eta # 0
       /\ p.eta # 0 => p.endBlock < block /\ Won(p)

\* The only proposal of an account that may be before or under the vote is its latest.
LatestIsLive ==
  /\ \A who \in Callers : latestProposalIds[who] # 0 =>
       latestProposalIds[who] \in Ids /\ isProposal(latestProposalIds[who])
  /\ \A id \in Ids : isProposal(id) /\ state(id) \in {"Pending", "Active"} =>
       latestProposalIds[proposals[id].proposer] = id

\* In the Timelock's queue, as far as Bravo knows
Standing(id) == isProposal(id) /\ proposals[id].eta # 0 /\ ~proposals[id].executed /\ ~proposals[id].canceled

Transactions(id) == transactions(proposals[id].actions, proposals[id].eta)

Dropped(t) == \E twin \in Ids : proposals[twin].canceled /\ t \in Transactions(twin)

\* What stands is queued, and nothing two proposals share can be taken away by
\* one of them, unless it was dropped before.
Backing_ ==
  timelock.admin = Bravo =>
    /\ \A id \in Ids : Standing(id) => \A t \in Transactions(id) : t \in timelock.queued \/ Dropped(t)
    /\ \A i, j \in Ids : i # j /\ Standing(i) /\ Standing(j) =>
         \A t \in Transactions(i) \cap Transactions(j) : Dropped(t)

GovernanceInv == Contracts /\ Numbered /\ Voted /\ LatestIsLive /\ Backing_

\* The fields of the three records, one by one
LEMMA TimelockFields ==
  ASSUME timelock \in AnyTimelock
  PROVE  /\ timelock.admin \in Officials \cup {Bravo} /\ timelock.pendingAdmin \in Officials \cup {Bravo, Nobody}
         /\ timelock.delay \in MINIMUM_DELAY .. MAXIMUM_DELAY /\ timelock.delay \in Nat
         /\ timelock.delay # 0 /\ timelock.queued \in SUBSET (Action \X Nat)
<1>1. timelock.delay \in MINIMUM_DELAY .. MAXIMUM_DELAY
  BY DEF AnyTimelock
<1>2. timelock.delay \in Nat /\ timelock.delay # 0
  BY <1>1, DelaysAreNaturals
<1>3. QED
  BY <1>1, <1>2 DEF AnyTimelock

LEMMA GovernorFields ==
  ASSUME governor \in AnyGovernor
  PROVE  /\ governor.admin \in Officials /\ governor.pendingAdmin \in Officials \cup {Nobody}
         /\ governor.initialProposalId \in Nat /\ governor.proposalCount \in Nat
         /\ governor.votingDelay \in VotingDelays /\ governor.votingPeriod \in VotingPeriods
         /\ governor.proposalThreshold \in ProposalThresholds
         /\ governor.whitelistGuardian \in Callers \cup {Nobody}
         /\ governor.whitelistAccountExpirations \in [Callers -> Nat]
BY DEF AnyGovernor

\* A set of naturals that is bounded and not empty has a greatest element.
LEMMA GreatestElement ==
  ASSUME NEW T \in SUBSET Nat, T # {}, NEW n \in Nat, \A x \in T : x <= n
  PROVE  \E x \in T : \A y \in T : y <= x
<1> DEFINE U == {m \in Nat : \A x \in T : x <= m}
<1>1. U # {} /\ U \in SUBSET Nat
  OBVIOUS
<1>2. PICK m \in U : \A k \in U : ~ k < m
  BY <1>1, LeastElement
<1>3. m \in T
  <2>1. SUFFICES ASSUME m \notin T PROVE FALSE
    OBVIOUS
  <2>2. \A x \in T : x < m
    BY <1>2, <2>1
  <2>3. m > 0
    <3>1. PICK x \in T : TRUE
      OBVIOUS
    <3>2. x \in Nat /\ m \in Nat /\ x < m
      BY <1>1, <1>2, <2>2
    <3>3. QED
      BY <3>2
  <2>4. m - 1 \in U
    <3>1. m \in Nat /\ m - 1 \in Nat
      BY <2>3
    <3>2. \A x \in T : x <= m - 1
      BY <2>2, <3>1
    <3>3. QED
      BY <3>1, <3>2
  <2>5. QED
    BY <1>2, <2>3, <2>4
<1>4. QED
  BY <1>2, <1>3

\* The last argument of a name is one of the arguments, or the default.
LEMMA LastArgument ==
  ASSUME NEW actions \in Seq(Action), NEW name, NEW D, NEW default \in D,
         \A i \in DOMAIN actions : actions[i].call = name => actions[i].arg \in D
  PROVE  lastArgument(actions, name, default) \in D
<1> DEFINE calls == {i \in DOMAIN actions : actions[i].call = name}
<1>1. CASE calls = {}
  BY <1>1 DEF lastArgument
<1>2. CASE calls # {}
  <2>1. calls \in SUBSET Nat /\ Len(actions) \in Nat /\ \A i \in calls : i <= Len(actions)
    OBVIOUS
  <2>2. \E i \in calls : \A j \in calls : j <= i
    BY <1>2, <2>1, GreatestElement
  <2>3. (CHOOSE i \in calls : \A j \in calls : j <= i) \in calls
    BY <2>2
  <2>4. QED
    BY <1>2, <2>3 DEF lastArgument
<1>3. QED
  BY <1>1, <1>2

\* What the hashes of a proposal are
LEMMA TransactionsType ==
  ASSUME NEW actions \in Seq(Action), NEW eta \in Nat
  PROVE  transactions(actions, eta) \in SUBSET (Action \X Nat)
BY DEF transactions

\* The operations of the Timelock keep its storage well-formed.
LEMMA TimelockOperations ==
  ASSUME timelock \in AnyTimelock, NEW actions \in Seq(Action), NEW eta \in Nat
  PROVE  /\ queueTransactions(timelock, actions, eta) \in AnyTimelock
         /\ cancelTransactions(timelock, actions, eta) \in AnyTimelock
         /\ (\A i \in DOMAIN actions : callSucceeds(actions[i])) =>
              executeTransactions(timelock, actions, eta) \in AnyTimelock
         /\ timelock.pendingAdmin # Nobody => acceptAdmin(timelock, Nobody) \in AnyTimelock
<1>1. transactions(actions, eta) \in SUBSET (Action \X Nat)
  BY TransactionsType
<1>2. queueTransactions(timelock, actions, eta) \in AnyTimelock
  BY <1>1 DEF queueTransactions, AnyTimelock
<1>3. cancelTransactions(timelock, actions, eta) \in AnyTimelock
  BY <1>1 DEF cancelTransactions, AnyTimelock
<1>4. ASSUME \A i \in DOMAIN actions : callSucceeds(actions[i])
      PROVE  executeTransactions(timelock, actions, eta) \in AnyTimelock
  <2>1. \A i \in DOMAIN actions : actions[i] \in Action
    OBVIOUS
  <2>2. \A i \in DOMAIN actions : actions[i].call = "setDelay" => actions[i].arg \in MINIMUM_DELAY .. MAXIMUM_DELAY
    BY <1>4 DEF callSucceeds
  <2>3. \A i \in DOMAIN actions :
          actions[i].call = "setPendingAdmin" => actions[i].arg \in Officials \cup {Bravo, Nobody}
    BY <2>1 DEF Action
  <2>4. lastArgument(actions, "setDelay", timelock.delay) \in MINIMUM_DELAY .. MAXIMUM_DELAY
    BY <2>2, LastArgument, TimelockFields
  <2>5. lastArgument(actions, "setPendingAdmin", timelock.pendingAdmin) \in Officials \cup {Bravo, Nobody}
    BY <2>3, LastArgument, TimelockFields
  <2>6. QED
    BY <2>4, <2>5 DEF executeTransactions, AnyTimelock
<1>5. timelock.pendingAdmin # Nobody => acceptAdmin(timelock, Nobody) \in AnyTimelock
  BY DEF acceptAdmin, AnyTimelock
<1>6. QED
  BY <1>2, <1>3, <1>4, <1>5

\* What each operation of the Timelock does to its admin and its queue
LEMMA TimelockEffects ==
  ASSUME timelock \in AnyTimelock, NEW actions, NEW eta
  PROVE  /\ queueTransactions(timelock, actions, eta).admin = timelock.admin
         /\ queueTransactions(timelock, actions, eta).queued = timelock.queued \cup transactions(actions, eta)
         /\ cancelTransactions(timelock, actions, eta).admin = timelock.admin
         /\ cancelTransactions(timelock, actions, eta).queued = timelock.queued \ transactions(actions, eta)
         /\ executeTransactions(timelock, actions, eta).admin = timelock.admin
         /\ executeTransactions(timelock, actions, eta).queued = timelock.queued \ transactions(actions, eta)
         /\ acceptAdmin(timelock, Nobody).admin = timelock.pendingAdmin
BY DEF queueTransactions, cancelTransactions, executeTransactions, acceptAdmin, AnyTimelock

\* What is between id and state is decided by the proposal and the clock.
LEMMA SameIds ==
  ASSUME governor'.initialProposalId = governor.initialProposalId,
         governor'.proposalCount = governor.proposalCount
  PROVE  \A id : isProposal(id)' <=> isProposal(id)
BY DEF isProposal

\* A transaction that leaves the proposals alone, their numbering and the clock,
\* and does not make Bravo admin of a Timelock it was not, keeps the invariant.
LEMMA Quiet ==
  ASSUME GovernanceInv, UNCHANGED << proposals, latestProposalIds, block, time >>,
         timelock' \in AnyTimelock, governor' \in AnyGovernor,
         governor'.initialProposalId = governor.initialProposalId,
         governor'.proposalCount = governor.proposalCount,
         timelock'.admin = Bravo => timelock' = timelock
  PROVE  GovernanceInv' /\ stages' = stages /\ proposers' = proposers
<1>1. \A id : isProposal(id)' <=> isProposal(id)
  BY SameIds
<1>2. \A id : state(id)' = state(id)
  BY DEF state
<1>3. Contracts'
  BY DEF GovernanceInv, Contracts, WellFormed
<1>4. Numbered'
  BY <1>1 DEF GovernanceInv, Numbered
<1>5. Voted'
  BY <1>1 DEF GovernanceInv, Voted, Won
<1>6. LatestIsLive'
  BY <1>1, <1>2 DEF GovernanceInv, LatestIsLive
<1>7. Backing_'
  <2>1. SUFFICES ASSUME timelock'.admin = Bravo PROVE Backing_'
    BY DEF Backing_
  <2>2. timelock' = timelock
    BY <2>1
  <2>3. \A id : Standing(id)' <=> Standing(id)
    BY <1>1 DEF Standing
  <2>4. \A t : Dropped(t)' <=> Dropped(t)
    BY DEF Dropped, Transactions
  <2>5. QED
    BY <2>2, <2>3, <2>4 DEF GovernanceInv, Backing_, Transactions
<1>8. stages' = stages
  BY <1>1, <1>2 DEF stages
<1>9. proposers' = proposers
  BY DEF proposers
<1>10. QED
  BY <1>3, <1>4, <1>5, <1>6, <1>7, <1>8, <1>9 DEF GovernanceInv

\* The initial states
LEMMA InitInv ==
  ASSUME GovernanceInit
  PROVE  GovernanceInv /\ stages = [id \in Ids |-> "None"] /\ proposers = [id \in Ids |-> Nobody]
<1>1. PICK count \in AlphaCounts \cup {0} :
        /\ timelock = [admin |-> IF count = 0 THEN Deployer ELSE Bravo, pendingAdmin |-> Nobody,
                       delay |-> delay_, queued |-> {}]
        /\ governor = [admin |-> Deployer, pendingAdmin |-> Nobody,
                       initialProposalId |-> count, proposalCount |-> count,
                       votingDelay |-> votingDelay_, votingPeriod |-> votingPeriod_,
                       proposalThreshold |-> proposalThreshold_,
                       whitelistGuardian |-> Nobody, whitelistAccountExpirations |-> [a \in Callers |-> 0]]
  BY DEF GovernanceInit
<1>2. proposals = [id \in Ids |-> NoProposal] /\ latestProposalIds = [a \in Callers |-> 0] /\ block = 2 /\ time = 2
  BY DEF GovernanceInit
<1>3. count \in Nat
  BY GovernorConstants
<1>4. timelock \in AnyTimelock
  BY <1>1, GovernorConstants DEF AnyTimelock
<1>5. governor \in AnyGovernor
  BY <1>1, <1>3, GovernorConstants DEF AnyGovernor
<1>6. \A id \in Ids : ~isProposal(id)
  BY <1>1, <1>3 DEF isProposal, Ids
<1>7. WellFormed(NoProposal)
  BY DEF WellFormed, NoProposal
<1>8. Contracts
  BY <1>2, <1>4, <1>5, <1>7 DEF Contracts
<1>9. Numbered
  BY <1>1, <1>2, <1>3, <1>6 DEF Numbered
<1>10. Voted
  BY <1>6 DEF Voted
<1>11. LatestIsLive
  BY <1>2, <1>6 DEF LatestIsLive
<1>12. Backing_
  BY <1>6 DEF Backing_, Standing
<1>13. QED
  BY <1>2, <1>6, <1>8, <1>9, <1>10, <1>11, <1>12 DEF GovernanceInv, stages, proposers, NoProposal

Unmoved == GovernanceInv' /\ stages' = stages /\ proposers' = proposers

\* Tokens move
LEMMA TokenStep ==
  ASSUME GovernanceInv, Token
  PROVE  Unmoved
<1>1. UNCHANGED << proposals, latestProposalIds, block, time, timelock, governor >>
  BY DEF Token, Transfer, Delegate
<1>2. timelock \in AnyTimelock /\ governor \in AnyGovernor
  BY DEF GovernanceInv, Contracts
<1>3. QED
  BY <1>1, <1>2, Quiet DEF Unmoved

\* An official uses the Timelock, of which it and not Bravo is the admin.
LEMMA DirectStep ==
  ASSUME GovernanceInv, Direct
  PROVE  Unmoved
<1>1. timelock \in AnyTimelock /\ governor \in AnyGovernor /\ time \in Nat
  BY DEF GovernanceInv, Contracts
<1>2. UNCHANGED << proposals, latestProposalIds, block, time, governor >>
  BY DEF Direct, QueueDirectly, ExecuteDirectly, CancelDirectly, AcceptTimelock, TimelockOnly
<1>3. timelock' \in AnyTimelock /\ timelock'.admin # Bravo
  <2>1. PICK caller \in Officials :
          \/ \E actions \in Installing : QueueDirectly(caller, actions, time + timelock.delay)
          \/ \E t \in timelock.queued : ExecuteDirectly(caller, << t[1] >>, t[2])
          \/ \E t \in timelock.queued : CancelDirectly(caller, << t[1] >>, t[2])
          \/ AcceptTimelock(caller)
    BY DEF Direct
  <2>2. caller # Bravo /\ caller # Nobody
    BY GovernorConstants
  <2>3. ASSUME NEW actions \in Installing, QueueDirectly(caller, actions, time + timelock.delay)
        PROVE  timelock' \in AnyTimelock /\ timelock'.admin # Bravo
    <3>1. actions \in Seq(Action)
      BY GovernorConstants
    <3>2. time + timelock.delay \in Nat
      BY <1>1, TimelockFields
    <3>3. QED
      BY <1>1, <2>2, <2>3, <3>1, <3>2, TimelockOperations, TimelockEffects DEF QueueDirectly, mayQueue
  <2>4. ASSUME NEW t \in timelock.queued
        PROVE  << t[1] >> \in Seq(Action) /\ t[2] \in Nat
    <3>1. t \in Action \X Nat
      BY <1>1, TimelockFields
    <3>2. t[1] \in Action /\ t[2] \in Nat
      BY <3>1
    <3>3. QED
      BY <3>2
  <2>5. ASSUME NEW t \in timelock.queued, ExecuteDirectly(caller, << t[1] >>, t[2])
        PROVE  timelock' \in AnyTimelock /\ timelock'.admin # Bravo
    <3>1. timelock' = executeTransactions(timelock, << t[1] >>, t[2]) /\ timelock.admin = caller
          /\ \A i \in DOMAIN << t[1] >> : callSucceeds(<< t[1] >>[i])
      BY <2>5 DEF ExecuteDirectly, mayExecute
    <3>2. executeTransactions(timelock, << t[1] >>, t[2]) \in AnyTimelock
      BY <1>1, <2>4, <3>1, TimelockOperations
    <3>3. executeTransactions(timelock, << t[1] >>, t[2]).admin = timelock.admin
      BY <1>1, TimelockEffects
    <3>4. QED
      BY <2>2, <3>1, <3>2, <3>3
  <2>6. ASSUME NEW t \in timelock.queued, CancelDirectly(caller, << t[1] >>, t[2])
        PROVE  timelock' \in AnyTimelock /\ timelock'.admin # Bravo
    <3>1. timelock' = cancelTransactions(timelock, << t[1] >>, t[2]) /\ timelock.admin = caller
      BY <2>6 DEF CancelDirectly, mayCancel
    <3>2. cancelTransactions(timelock, << t[1] >>, t[2]) \in AnyTimelock
      BY <1>1, <2>4, TimelockOperations
    <3>3. cancelTransactions(timelock, << t[1] >>, t[2]).admin = timelock.admin
      BY <1>1, TimelockEffects
    <3>4. QED
      BY <2>2, <3>1, <3>2, <3>3
  <2>7. CASE AcceptTimelock(caller)
    <3>1. timelock.pendingAdmin = caller /\ timelock' = acceptAdmin(timelock, Nobody)
      BY <2>7 DEF AcceptTimelock, mayAcceptAdmin
    <3>2. << >> \in Seq(Action) /\ 0 \in Nat
      OBVIOUS
    <3>3. acceptAdmin(timelock, Nobody) \in AnyTimelock
      BY <1>1, <2>2, <3>1, <3>2, TimelockOperations
    <3>4. QED
      BY <1>1, <2>2, <3>1, <3>3, TimelockEffects
  <2>8. QED
    BY <2>1, <2>3, <2>5, <2>6, <2>7
<1>4. QED
  BY <1>1, <1>2, <1>3, Quiet DEF Unmoved

\* Bravo is initiated: it becomes the Timelock's admin, and has no proposals.
LEMMA InitiateStep ==
  ASSUME GovernanceInv, NEW caller \in Callers, NEW alphaCount \in AlphaCounts, Initiate(caller, alphaCount)
  PROVE  Unmoved
<1>1. UNCHANGED << proposals, latestProposalIds, block, time >>
  BY DEF Initiate, GovernorOnly
<1>2. timelock \in AnyTimelock /\ governor \in AnyGovernor
  BY DEF GovernanceInv, Contracts
<1>3. alphaCount \in Nat
  BY GovernorConstants
<1>4. governor' = [governor EXCEPT !.proposalCount = alphaCount, !.initialProposalId = alphaCount]
      /\ governor.initialProposalId = 0 /\ governor.proposalCount = 0
  BY DEF Initiate, GovernanceInv, Numbered
<1>5. governor' \in AnyGovernor
  BY <1>2, <1>3, <1>4 DEF AnyGovernor
<1>6. governor'.initialProposalId = alphaCount /\ governor'.proposalCount = alphaCount
  BY <1>2, <1>4 DEF AnyGovernor
<1>7. timelock.pendingAdmin = Bravo /\ timelock' = acceptAdmin(timelock, Nobody)
  BY DEF Initiate, mayAcceptAdmin
<1>8. timelock' \in AnyTimelock
  <2>1. Bravo # Nobody /\ << >> \in Seq(Action) /\ 0 \in Nat
    BY GovernorConstants
  <2>2. QED
    BY <1>2, <1>7, <2>1, TimelockOperations
<1>9. \A id \in Ids : ~isProposal(id) /\ ~isProposal(id)'
  BY <1>3, <1>4, <1>6 DEF isProposal, Ids
<1>10. Contracts'
  BY <1>1, <1>5, <1>8 DEF GovernanceInv, Contracts, WellFormed
<1>11. Numbered'
  BY <1>1, <1>3, <1>6, <1>9 DEF GovernanceInv, Numbered
<1>12. Voted' /\ Backing_'
  BY <1>9 DEF Voted, Backing_, Standing
<1>13. LatestIsLive'
  BY <1>1, <1>9 DEF GovernanceInv, LatestIsLive
<1>14. stages' = stages /\ proposers' = proposers
  BY <1>1, <1>9 DEF stages, proposers
<1>15. QED
  BY <1>10, <1>11, <1>12, <1>13, <1>14 DEF GovernanceInv, Unmoved

\* Bravo's admin changes its settings.
LEMMA AdministrationStep ==
  ASSUME GovernanceInv, Administration
  PROVE  Unmoved
<1>1. timelock \in AnyTimelock /\ governor \in AnyGovernor /\ time \in Nat
  BY DEF GovernanceInv, Contracts
<1>2. PICK caller \in Callers :
    \/ \E alphaCount \in AlphaCounts : Initiate(caller, alphaCount)
    \/ \E delay \in VotingDelays \ {governor.votingDelay} : SetVotingDelay(caller, delay)
    \/ \E period \in VotingPeriods \ {governor.votingPeriod} : SetVotingPeriod(caller, period)
    \/ \E threshold \in ProposalThresholds \ {governor.proposalThreshold} : SetProposalThreshold(caller, threshold)
    \/ \E account \in Callers : SetWhitelistGuardian(caller, account)
    \/ \E account \in Callers : SetWhitelistAccountExpiration(caller, account, time + MAXIMUM_DELAY)
    \/ \E account \in Officials : SetPendingAdmin(caller, account)
    \/ AcceptAdmin(caller)
  BY DEF Administration
<1> DEFINE Set == /\ UNCHANGED << proposals, latestProposalIds, block, time, timelock >>
                  /\ governor' \in AnyGovernor
                  /\ governor'.initialProposalId = governor.initialProposalId
                  /\ governor'.proposalCount = governor.proposalCount
<1>3. ASSUME Set PROVE Unmoved
  BY <1>1, <1>3, Quiet DEF Unmoved
<1>4. ASSUME NEW delay \in VotingDelays, SetVotingDelay(caller, delay) PROVE Set
  BY <1>1, <1>4 DEF SetVotingDelay, Administers, GovernorOnly, AnyGovernor
<1>5. ASSUME NEW period \in VotingPeriods, SetVotingPeriod(caller, period) PROVE Set
  BY <1>1, <1>5 DEF SetVotingPeriod, Administers, GovernorOnly, AnyGovernor
<1>6. ASSUME NEW threshold \in ProposalThresholds, SetProposalThreshold(caller, threshold) PROVE Set
  BY <1>1, <1>6 DEF SetProposalThreshold, Administers, GovernorOnly, AnyGovernor
<1>7. ASSUME NEW account \in Callers, SetWhitelistGuardian(caller, account) PROVE Set
  BY <1>1, <1>7 DEF SetWhitelistGuardian, Administers, GovernorOnly, AnyGovernor
<1>8. ASSUME NEW account \in Callers, SetWhitelistAccountExpiration(caller, account, time + MAXIMUM_DELAY) PROVE Set
  <2>1. time + MAXIMUM_DELAY \in Nat
    BY <1>1, DelaysAreNaturals
  <2>2. governor.whitelistAccountExpirations \in [Callers -> Nat]
    BY <1>1, GovernorFields
  <2>3. governor' = [governor EXCEPT !.whitelistAccountExpirations =
                      [governor.whitelistAccountExpirations EXCEPT ![account] = time + MAXIMUM_DELAY]]
    BY <1>8 DEF SetWhitelistAccountExpiration
  <2>4. [governor.whitelistAccountExpirations EXCEPT ![account] = time + MAXIMUM_DELAY] \in [Callers -> Nat]
    BY <2>1, <2>2
  <2>5. governor' \in AnyGovernor /\ governor'.initialProposalId = governor.initialProposalId
        /\ governor'.proposalCount = governor.proposalCount
    BY <1>1, <2>3, <2>4 DEF AnyGovernor
  <2>6. QED
    BY <1>8, <2>5 DEF SetWhitelistAccountExpiration, GovernorOnly
<1>9. ASSUME NEW account \in Officials, SetPendingAdmin(caller, account) PROVE Set
  BY <1>1, <1>9 DEF SetPendingAdmin, Administers, GovernorOnly, AnyGovernor
<1>10. ASSUME AcceptAdmin(caller) PROVE Set
  <2>1. governor.pendingAdmin = caller /\ caller # Nobody
    BY <1>10, NobodyHolds, GovernorConstants DEF AcceptAdmin, Callers
  <2>2. governor.pendingAdmin \in Officials
    BY <1>1, <2>1, GovernorFields
  <2>3. QED
    BY <1>1, <1>10, <2>1, <2>2 DEF AcceptAdmin, GovernorOnly, AnyGovernor
<1>11. QED
  <2> HIDE DEF Set
  <2> QED
    BY <1>2, <1>3, <1>4, <1>5, <1>6, <1>7, <1>8, <1>9, <1>10, InitiateStep

Moves(from, to) == to = from \/ to \in Lifecycle!Successors(from)

\* Proposals move on, if at all, as they may.
Moved ==
  /\ GovernanceInv' /\ proposers' = proposers
  /\ \A id \in Ids : Moves(stages[id], stages'[id])

\* What the invariant says of one proposal
LEMMA ProposalFacts ==
  ASSUME GovernanceInv, NEW id \in Ids, isProposal(id)
  PROVE  /\ block \in Nat /\ time \in Nat
         /\ WellFormed(proposals[id]) /\ proposals[id].proposer \in Callers
         /\ proposals[id].startBlock \in Nat /\ proposals[id].endBlock \in Nat /\ proposals[id].eta \in Nat
         /\ proposals[id].startBlock < proposals[id].endBlock
         /\ proposals[id].executed => proposals[id].eta # 0
         /\ proposals[id].eta # 0 => proposals[id].endBlock < block /\ Won(proposals[id])
         /\ proposals[id].actions \in Seq(Action)
BY DEF GovernanceInv, Contracts, WellFormed, Numbered, Voted

\* A block is mined: proposals open, close and expire.
LEMMA MineStep ==
  ASSUME GovernanceInv, NEW seconds \in Ticks, Mine(seconds)
  PROVE  Moved
<1>1. UNCHANGED << timelock, governor, proposals, latestProposalIds >> /\ block' = block + 1 /\ time' = time + seconds
  BY DEF Mine
<1>2. block \in Nat /\ time \in Nat /\ seconds \in Nat
  BY GovernorConstants DEF GovernanceInv, Contracts
<1>3. \A id : isProposal(id)' <=> isProposal(id)
  BY <1>1, SameIds
<1>4. ASSUME NEW id \in Ids, isProposal(id)
      PROVE  Moves(state(id), state(id)') /\ (state(id)' \in {"Pending", "Active"} => state(id) \in {"Pending", "Active"})
  <2> DEFINE p == proposals[id]
  <2>1. /\ p.startBlock \in Nat /\ p.endBlock \in Nat /\ p.eta \in Nat
        /\ p.startBlock < p.endBlock
        /\ p.executed => p.eta # 0
        /\ p.eta # 0 => p.endBlock < block /\ Won(p)
    BY <1>4, ProposalFacts
  <2>2. proposals'[id] = p
    BY <1>1
  <2>3. GRACE_PERIOD \in Nat
    BY DelaysAreNaturals
  <2>4. QED
    <3> HIDE DEF p
    <3>1. state(id) = IF p.canceled THEN "Canceled"
                      ELSE IF block <= p.startBlock THEN "Pending"
                      ELSE IF block <= p.endBlock THEN "Active"
                      ELSE IF ~Won(p) THEN "Defeated"
                      ELSE IF p.eta = 0 THEN "Succeeded"
                      ELSE IF p.executed THEN "Executed"
                      ELSE IF time >= p.eta + GRACE_PERIOD THEN "Expired"
                      ELSE "Queued"
      BY DEF state, Won, p
    <3>2. state(id)' = IF p.canceled THEN "Canceled"
                      ELSE IF block + 1 <= p.startBlock THEN "Pending"
                      ELSE IF block + 1 <= p.endBlock THEN "Active"
                      ELSE IF ~Won(p) THEN "Defeated"
                      ELSE IF p.eta = 0 THEN "Succeeded"
                      ELSE IF p.executed THEN "Executed"
                      ELSE IF time + seconds >= p.eta + GRACE_PERIOD THEN "Expired"
                      ELSE "Queued"
      BY <1>1, <2>2 DEF state, Won, p
    <3>3. CASE p.canceled
      BY <3>1, <3>2, <3>3 DEF Moves
    <3>4. CASE ~p.canceled /\ block <= p.startBlock
      BY <1>2, <2>1, <3>1, <3>2, <3>4 DEF Moves, Lifecycle!Successors
    <3>5. CASE ~p.canceled /\ p.startBlock < block /\ block <= p.endBlock
      BY <1>2, <2>1, <3>1, <3>2, <3>5 DEF Moves, Lifecycle!Successors
    <3>6. CASE ~p.canceled /\ p.endBlock < block
      BY <1>2, <2>1, <2>3, <3>1, <3>2, <3>6 DEF Moves, Lifecycle!Successors
    <3>7. QED
      BY <1>2, <2>1, <3>3, <3>4, <3>5, <3>6
<1>5. Contracts'
  BY <1>1, <1>2 DEF GovernanceInv, Contracts, WellFormed
<1>6. Numbered'
  BY <1>1, <1>3 DEF GovernanceInv, Numbered
<1>7. Voted'
  <2>1. SUFFICES ASSUME NEW id \in Ids, isProposal(id)
        PROVE  LET p == proposals[id]
               IN /\ p.startBlock < p.endBlock
                  /\ p.executed => p.eta # 0
                  /\ p.eta # 0 => p.endBlock < block + 1 /\ Won(p)
    BY <1>1, <1>3 DEF Voted, Won
  <2>2. QED
    BY <1>2, <2>1, ProposalFacts
<1>8. LatestIsLive'
  BY <1>1, <1>3, <1>4 DEF GovernanceInv, LatestIsLive
<1>9. Backing_'
  BY <1>1, <1>3 DEF GovernanceInv, Backing_, Standing, Dropped, Transactions
<1>10. proposers' = proposers
  BY <1>1 DEF proposers
<1>11. \A id \in Ids : Moves(stages[id], stages'[id])
  BY <1>3, <1>4 DEF stages, Moves
<1>12. QED
  BY <1>5, <1>6, <1>7, <1>8, <1>9, <1>10, <1>11 DEF GovernanceInv, Moved

\* A step that changes one proposal, and not whose it is nor when its vote is
LEMMA OneProposal ==
  ASSUME GovernanceInv, NEW id \in Ids, isProposal(id), NEW q, WellFormed(q),
         proposals' = [proposals EXCEPT ![id] = q],
         UNCHANGED << governor, latestProposalIds, block, time >>, timelock' \in AnyTimelock,
         q.proposer = proposals[id].proposer,
         q.startBlock = proposals[id].startBlock, q.endBlock = proposals[id].endBlock,
         q.executed => q.eta # 0,
         q.eta # 0 => q.endBlock < block /\ Won(q),
         Moves(state(id), state(id)'),
         state(id)' \in {"Pending", "Active"} => state(id) \in {"Pending", "Active"},
         Backing_'
  PROVE  Moved
<1>1. proposals = [i \in Ids |-> proposals[i]] /\ DOMAIN proposals = Ids
  BY DEF GovernanceInv, Contracts
<1>2. proposals'[id] = q /\ \A i \in Ids : i # id => proposals'[i] = proposals[i]
  BY <1>1
<1>3. \A i : isProposal(i)' <=> isProposal(i)
  BY SameIds
<1>4. \A i \in Ids : i # id => state(i)' = state(i)
  BY <1>2 DEF state
<1>5. DOMAIN proposals' = Ids /\ proposals' = [i \in Ids |-> proposals'[i]]
  BY <1>1
<1>6. \A i \in Ids : WellFormed(proposals'[i])
  BY <1>2 DEF GovernanceInv, Contracts
<1>7. Contracts'
  <2>1. \A i \in Ids : WellFormed(proposals[i])'
    BY <1>6 DEF WellFormed
  <2>2. QED
    BY <1>5, <2>1 DEF GovernanceInv, Contracts
<1>8. Numbered'
  <2>1. proposals'[id].proposer \in Callers
    BY <1>2, ProposalFacts
  <2>2. QED
    BY <1>2, <1>3, <2>1 DEF GovernanceInv, Numbered
<1>9. Voted'
  <2>1. SUFFICES ASSUME NEW i \in Ids, isProposal(i)
        PROVE  LET p == proposals'[i]
               IN /\ p.startBlock < p.endBlock
                  /\ p.executed => p.eta # 0
                  /\ p.eta # 0 => p.endBlock < block /\ Won(p)
    BY <1>3 DEF Voted, Won
  <2>2. CASE i = id
    BY <1>2, <2>2, ProposalFacts
  <2>3. CASE i # id
    BY <1>2, <2>1, <2>3, ProposalFacts
  <2>4. QED
    BY <2>2, <2>3
<1>10. \A i \in Ids : proposals'[i].proposer = proposals[i].proposer
  BY <1>2
<1>11. LatestIsLive'
  <2>1. \A i \in Ids : isProposal(i) /\ state(i)' \in {"Pending", "Active"} => state(i) \in {"Pending", "Active"}
    BY <1>4
  <2>2. QED
    BY <1>3, <1>10, <2>1 DEF GovernanceInv, LatestIsLive
<1>12. proposers' = proposers
  BY <1>10 DEF proposers
<1>13. \A i \in Ids : Moves(stages[i], stages'[i])
  <2>1. \A i \in Ids : Moves(state(i), state(i)')
    BY <1>4 DEF Moves
  <2>2. QED
    BY <1>3, <2>1 DEF stages, Moves
<1>14. QED
  BY <1>7, <1>8, <1>9, <1>11, <1>12, <1>13 DEF GovernanceInv, Moved

\* What the other proposals have in the Timelock is as it was.
LEMMA OthersStand ==
  ASSUME GovernanceInv, NEW id \in Ids, NEW q,
         proposals' = [proposals EXCEPT ![id] = q], UNCHANGED governor
  PROVE  /\ proposals'[id] = q
         /\ \A i \in Ids : i # id => /\ proposals'[i] = proposals[i]
                                     /\ Standing(i)' <=> Standing(i)
                                     /\ Transactions(i)' = Transactions(i)
<1>1. proposals'[id] = q /\ \A i \in Ids : i # id => proposals'[i] = proposals[i]
  BY DEF GovernanceInv, Contracts
<1>2. \A i : isProposal(i)' <=> isProposal(i)
  BY SameIds
<1>3. QED
  BY <1>1, <1>2 DEF Standing, Transactions

\* What was dropped stays so when a proposal changes that keeps its actions and
\* eta, or had not been canceled.
LEMMA DroppedStays ==
  ASSUME GovernanceInv, NEW id \in Ids, NEW q,
         proposals' = [proposals EXCEPT ![id] = q],
         proposals[id].canceled => q.canceled /\ q.actions = proposals[id].actions /\ q.eta = proposals[id].eta,
         NEW t, Dropped(t)
  PROVE  Dropped(t)'
<1>1. proposals'[id] = q /\ \A i \in Ids : i # id => proposals'[i] = proposals[i]
  BY DEF GovernanceInv, Contracts
<1>2. PICK twin \in Ids : proposals[twin].canceled /\ t \in Transactions(twin)
  BY DEF Dropped
<1>3. proposals'[twin].canceled /\ t \in transactions(proposals'[twin].actions, proposals'[twin].eta)
  BY <1>1, <1>2 DEF Transactions
<1>4. QED
  BY <1>3 DEF Dropped, Transactions

\* A vote is cast.
LEMMA CastVoteStep ==
  ASSUME GovernanceInv, NEW voter \in Accounts, NEW id \in Ids, NEW support \in 0 .. 2,
         CastVote(voter, id, support)
  PROVE  Moved
<1> DEFINE p == proposals[id]
           votes == weight(voter, id)
           q == [p EXCEPT !.againstVotes = p.againstVotes + (IF support = 0 THEN votes ELSE 0),
                          !.forVotes     = p.forVotes + (IF support = 1 THEN votes ELSE 0),
                          !.abstainVotes = p.abstainVotes + (IF support = 2 THEN votes ELSE 0),
                          !.receipts[voter] = [hasVoted |-> TRUE, support |-> support, votes |-> votes]]
<1>1. isProposal(id) /\ state(id) = "Active" /\ proposals' = [proposals EXCEPT ![id] = q]
      /\ UNCHANGED << timelock, governor, latestProposalIds, block, time >>
  BY DEF CastVote
<1>2. WellFormed(p)
  BY <1>1, ProposalFacts
<1>3. /\ WellFormed(q) /\ q.proposer = p.proposer /\ q.actions = p.actions /\ q.eta = p.eta
      /\ q.startBlock = p.startBlock /\ q.endBlock = p.endBlock
      /\ q.canceled = p.canceled /\ q.executed = p.executed
  <2> DEFINE receipt == [hasVoted |-> TRUE, support |-> support, votes |-> votes]
             against == p.againstVotes + (IF support = 0 THEN votes ELSE 0)
             for == p.forVotes + (IF support = 1 THEN votes ELSE 0)
             abstain == p.abstainVotes + (IF support = 2 THEN votes ELSE 0)
             receipts == [p.receipts EXCEPT ![voter] = receipt]
  <2>1. q = [p EXCEPT !.againstVotes = against, !.forVotes = for, !.abstainVotes = abstain, !.receipts = receipts]
    OBVIOUS
  <2>2. /\ p = [proposer |-> p.proposer, actions |-> p.actions, eta |-> p.eta,
                startBlock |-> p.startBlock, endBlock |-> p.endBlock,
                againstVotes |-> p.againstVotes, forVotes |-> p.forVotes, abstainVotes |-> p.abstainVotes,
                canceled |-> p.canceled, executed |-> p.executed, receipts |-> p.receipts]
        /\ p.proposer \in Callers \cup {Nobody} /\ p.actions \in Seq(Action)
        /\ p.eta \in Nat /\ p.startBlock \in Nat /\ p.endBlock \in Nat
        /\ p.canceled \in BOOLEAN /\ p.executed \in BOOLEAN
    BY <1>2 DEF WellFormed
  <2> HIDE DEF p, q, against, for, abstain, receipts
  <2>3. q = [proposer |-> p.proposer, actions |-> p.actions, eta |-> p.eta,
             startBlock |-> p.startBlock, endBlock |-> p.endBlock,
             againstVotes |-> against, forVotes |-> for, abstainVotes |-> abstain,
             canceled |-> p.canceled, executed |-> p.executed, receipts |-> receipts]
    BY <2>1, <2>2
  <2>4. QED
    BY <2>2, <2>3 DEF WellFormed
<1>4. p.eta = 0 /\ ~p.executed /\ ~p.canceled /\ ~(block <= p.startBlock) /\ block <= p.endBlock
  <2>1. block <= p.endBlock /\ ~p.canceled /\ ~(block <= p.startBlock)
    BY <1>1 DEF state
  <2>2. QED
    BY <1>1, <2>1, ProposalFacts
<1>5. proposals'[id] = q
  BY <1>1 DEF GovernanceInv, Contracts
<1>6. state(id)' = "Active"
  <2> HIDE DEF q, p
  <2> QED BY <1>1, <1>3, <1>4, <1>5 DEF state
<1>7. Backing_'
  <2> HIDE DEF q
  <2>1. \A i \in Ids : (Standing(i)' <=> Standing(i)) /\ Transactions(i)' = Transactions(i)
    <3>1. ~Standing(id) /\ ~Standing(id)' /\ Transactions(id)' = Transactions(id)
      BY <1>3, <1>4, <1>5 DEF Standing, Transactions
    <3>2. QED
      BY <1>1, <3>1, OthersStand
  <2>2. \A t : Dropped(t) => Dropped(t)'
    BY <1>1, <1>4, DroppedStays
  <2>3. QED
    BY <1>1, <2>1, <2>2 DEF GovernanceInv, Backing_
<1>8. timelock' \in AnyTimelock
  BY <1>1 DEF GovernanceInv, Contracts
<1>9. QED
  <2> HIDE DEF q
  <2> QED BY <1>1, <1>3, <1>4, <1>6, <1>7, <1>8, OneProposal DEF Moves

\* A proposal is queued: nothing of it was queued for that time.
LEMMA QueueStep ==
  ASSUME GovernanceInv, NEW id \in Ids, Queue(id)
  PROVE  Moved
<1> DEFINE p == proposals[id]
           eta == time + timelock.delay
           q == [p EXCEPT !.eta = eta]
<1>1. /\ isProposal(id) /\ state(id) = "Succeeded"
      /\ transactions(p.actions, eta) \cap timelock.queued = {}
      /\ timelock' = queueTransactions(timelock, p.actions, eta)
      /\ proposals' = [proposals EXCEPT ![id] = q]
      /\ UNCHANGED << governor, latestProposalIds, block, time >>
  BY DEF Queue, queueOrRevert
<1>2. WellFormed(p) /\ p.actions \in Seq(Action)
  BY <1>1, ProposalFacts
<1>3. timelock \in AnyTimelock /\ time \in Nat
  BY DEF GovernanceInv, Contracts
<1>4. eta \in Nat /\ eta # 0
  BY <1>3, TimelockFields
<1>5. /\ WellFormed(q) /\ q.proposer = p.proposer /\ q.actions = p.actions /\ q.eta = eta
      /\ q.startBlock = p.startBlock /\ q.endBlock = p.endBlock
      /\ q.canceled = p.canceled /\ q.executed = p.executed
      /\ q.forVotes = p.forVotes /\ q.againstVotes = p.againstVotes
  <2> HIDE DEF p, eta
  <2> QED BY <1>2, <1>4 DEF WellFormed
<1>6. /\ p.eta = 0 /\ ~p.executed /\ ~p.canceled /\ Won(p)
      /\ ~(block <= p.startBlock) /\ ~(block <= p.endBlock)
  <2>1. p.eta = 0 /\ ~p.canceled /\ Won(p) /\ ~(block <= p.startBlock) /\ ~(block <= p.endBlock)
    BY <1>1 DEF state, Won
  <2>2. QED
    BY <1>1, <2>1, ProposalFacts
<1>7. proposals'[id] = q
  BY <1>1 DEF GovernanceInv, Contracts
<1>8. state(id)' = "Queued"
  <2>1. ~(time >= eta + GRACE_PERIOD)
    <3>1. timelock.delay \in Nat /\ timelock.delay # 0
      BY <1>3, TimelockFields
    <3>2. QED
      BY <1>3, <3>1, DelaysAreNaturals
  <2> HIDE DEF q, p, eta
  <2>2. QED
    BY <1>1, <1>4, <1>5, <1>6, <1>7, <2>1 DEF state, Won
<1>9. timelock' \in AnyTimelock
  BY <1>1, <1>2, <1>3, <1>4, TimelockOperations
<1>10. timelock'.admin = timelock.admin /\ timelock'.queued = timelock.queued \cup transactions(p.actions, eta)
  BY <1>1, <1>3, TimelockEffects
<1>11. Backing_'
  <2>1. Transactions(id)' = transactions(p.actions, eta)
    <3> HIDE DEF q, p, eta
    <3> QED BY <1>5, <1>7 DEF Transactions
  <2> HIDE DEF q, p, eta
  <2>2. SUFFICES ASSUME timelock'.admin = Bravo PROVE Backing_'
    BY DEF Backing_
  <2>3. /\ \A i \in Ids : Standing(i) => \A t \in Transactions(i) : t \in timelock.queued \/ Dropped(t)
        /\ \A i, j \in Ids : i # j /\ Standing(i) /\ Standing(j) =>
             \A t \in Transactions(i) \cap Transactions(j) : Dropped(t)
    BY <1>10, <2>2 DEF GovernanceInv, Backing_
  <2>4. \A i \in Ids : i # id => (Standing(i)' <=> Standing(i)) /\ Transactions(i)' = Transactions(i)
    BY <1>1, OthersStand
  <2>5. \A t : Dropped(t) => Dropped(t)'
    BY <1>1, <1>6, DroppedStays DEF p
  <2>6. \A i \in Ids : Standing(i)' => \A t \in Transactions(i)' : t \in timelock'.queued \/ Dropped(t)'
    BY <1>10, <2>1, <2>3, <2>4, <2>5
  <2>7. \A j \in Ids : j # id /\ Standing(j)' => \A t \in Transactions(id)' \cap Transactions(j)' : Dropped(t)'
    BY <1>1, <2>1, <2>3, <2>4, <2>5
  <2>8. \A i, j \in Ids : i # j /\ Standing(i)' /\ Standing(j)' =>
          \A t \in Transactions(i)' \cap Transactions(j)' : Dropped(t)'
    <3>1. SUFFICES ASSUME NEW i \in Ids, NEW j \in Ids, i # j, Standing(i)', Standing(j)',
                          NEW t \in Transactions(i)' \cap Transactions(j)'
          PROVE  Dropped(t)'
      OBVIOUS
    <3>2. CASE i = id
      BY <2>7, <3>1, <3>2
    <3>3. CASE j = id
      BY <2>7, <3>1, <3>3
    <3>4. CASE i # id /\ j # id
      BY <2>3, <2>4, <2>5, <3>1, <3>4
    <3>5. QED
      BY <3>2, <3>3, <3>4
  <2>9. QED
    BY <2>6, <2>8 DEF Backing_
<1>12. q.eta # 0 => q.endBlock < block /\ Won(q)
  <2>1. p.endBlock \in Nat /\ block \in Nat
    BY <1>1, ProposalFacts
  <2> HIDE DEF q, p
  <2>2. QED
    BY <1>5, <1>6, <2>1 DEF Won
<1>13. Moves(state(id), state(id)')
  BY <1>1, <1>8 DEF Moves, Lifecycle!Successors
<1>14. q.executed => q.eta # 0
  BY <1>4, <1>5
<1>15. QED
  <2> HIDE DEF q, eta
  <2> QED BY <1>1, <1>5, <1>8, <1>9, <1>11, <1>12, <1>13, <1>14, OneProposal DEF p

\* A proposal whose flag is set
LEMMA Flagged ==
  ASSUME NEW p, WellFormed(p)
  PROVE  /\ LET q == [p EXCEPT !.executed = TRUE]
            IN /\ WellFormed(q) /\ q.proposer = p.proposer /\ q.actions = p.actions /\ q.eta = p.eta
               /\ q.startBlock = p.startBlock /\ q.endBlock = p.endBlock
               /\ q.canceled = p.canceled /\ q.executed
               /\ q.forVotes = p.forVotes /\ q.againstVotes = p.againstVotes
         /\ LET q == [p EXCEPT !.canceled = TRUE]
            IN /\ WellFormed(q) /\ q.proposer = p.proposer /\ q.actions = p.actions /\ q.eta = p.eta
               /\ q.startBlock = p.startBlock /\ q.endBlock = p.endBlock
               /\ q.canceled /\ q.executed = p.executed
               /\ q.forVotes = p.forVotes /\ q.againstVotes = p.againstVotes
<1>1. PICK proposer, actions, eta, startBlock, endBlock, against, for, abstain, canceled, executed, receipts :
        p = [proposer |-> proposer, actions |-> actions, eta |-> eta, startBlock |-> startBlock, endBlock |-> endBlock,
             againstVotes |-> against, forVotes |-> for, abstainVotes |-> abstain,
             canceled |-> canceled, executed |-> executed, receipts |-> receipts]
  BY DEF WellFormed
<1>2. ASSUME NEW b
      PROVE  /\ [p EXCEPT !.executed = b] =
                [proposer |-> proposer, actions |-> actions, eta |-> eta, startBlock |-> startBlock, endBlock |-> endBlock,
                 againstVotes |-> against, forVotes |-> for, abstainVotes |-> abstain,
                 canceled |-> canceled, executed |-> b, receipts |-> receipts]
             /\ [p EXCEPT !.canceled = b] =
                [proposer |-> proposer, actions |-> actions, eta |-> eta, startBlock |-> startBlock, endBlock |-> endBlock,
                 againstVotes |-> against, forVotes |-> for, abstainVotes |-> abstain,
                 canceled |-> b, executed |-> executed, receipts |-> receipts]
  BY <1>1
<1>3. /\ proposer \in Callers \cup {Nobody} /\ actions \in Seq(Action)
      /\ eta \in Nat /\ startBlock \in Nat /\ endBlock \in Nat
      /\ canceled \in BOOLEAN /\ executed \in BOOLEAN
  BY <1>1 DEF WellFormed
<1> DEFINE a == [p EXCEPT !.executed = TRUE]
           c == [p EXCEPT !.canceled = TRUE]
<1>4. /\ a = [proposer |-> proposer, actions |-> actions, eta |-> eta, startBlock |-> startBlock, endBlock |-> endBlock,
              againstVotes |-> against, forVotes |-> for, abstainVotes |-> abstain,
              canceled |-> canceled, executed |-> TRUE, receipts |-> receipts]
      /\ c = [proposer |-> proposer, actions |-> actions, eta |-> eta, startBlock |-> startBlock, endBlock |-> endBlock,
              againstVotes |-> against, forVotes |-> for, abstainVotes |-> abstain,
              canceled |-> TRUE, executed |-> executed, receipts |-> receipts]
  BY <1>2
<1> HIDE DEF a, c
<1>5. WellFormed(a) /\ WellFormed(c)
  BY <1>3, <1>4 DEF WellFormed
<1>6. QED
  BY <1>1, <1>4, <1>5 DEF a, c

\* A proposal is executed: what it takes from the queue nobody else has there.
LEMMA ExecuteStep ==
  ASSUME GovernanceInv, NEW id \in Ids, Execute(id)
  PROVE  Moved
<1> DEFINE p == proposals[id]
           q == [p EXCEPT !.executed = TRUE]
<1>1. /\ isProposal(id) /\ state(id) = "Queued"
      /\ \A i \in DOMAIN p.actions : callSucceeds(p.actions[i])
      /\ timelock' = executeTransactions(timelock, p.actions, p.eta)
      /\ proposals' = [proposals EXCEPT ![id] = q]
      /\ UNCHANGED << governor, latestProposalIds, block, time >>
  BY DEF Execute, mayExecute
<1>2. WellFormed(p) /\ p.actions \in Seq(Action) /\ p.eta \in Nat /\ (p.eta # 0 => p.endBlock < block /\ Won(p))
  BY <1>1, ProposalFacts
<1>3. timelock \in AnyTimelock
  BY DEF GovernanceInv, Contracts
<1>4. /\ WellFormed(q) /\ q.proposer = p.proposer /\ q.actions = p.actions /\ q.eta = p.eta
      /\ q.startBlock = p.startBlock /\ q.endBlock = p.endBlock
      /\ q.canceled = p.canceled /\ q.executed
      /\ q.forVotes = p.forVotes /\ q.againstVotes = p.againstVotes
  BY <1>2, Flagged
<1>5. /\ p.eta # 0 /\ ~p.executed /\ ~p.canceled /\ Won(p)
      /\ ~(block <= p.startBlock) /\ ~(block <= p.endBlock)
  BY <1>1 DEF state, Won
<1>6. proposals'[id] = q
  BY <1>1 DEF GovernanceInv, Contracts
<1>7. state(id)' = "Executed"
  <2> HIDE DEF q, p
  <2> QED BY <1>1, <1>4, <1>5, <1>6 DEF state, Won
<1>8. timelock' \in AnyTimelock
  BY <1>1, <1>2, <1>3, TimelockOperations
<1>9. timelock'.admin = timelock.admin /\ timelock'.queued = timelock.queued \ Transactions(id)
  BY <1>1, <1>3, TimelockEffects DEF Transactions
<1>10. Backing_'
  <2>1. Standing(id) /\ ~Standing(id)'
    <3> HIDE DEF q
    <3> QED BY <1>1, <1>4, <1>5, <1>6 DEF Standing
  <2>2. \A i \in Ids : i # id => (Standing(i)' <=> Standing(i)) /\ Transactions(i)' = Transactions(i)
    <3> HIDE DEF q
    <3> QED BY <1>1, OthersStand
  <2>3. \A t : Dropped(t) => Dropped(t)'
    <3> HIDE DEF q
    <3> QED BY <1>1, <1>5, DroppedStays
  <2>4. SUFFICES ASSUME timelock'.admin = Bravo PROVE Backing_'
    BY DEF Backing_
  <2>5. /\ \A i \in Ids : Standing(i) => \A t \in Transactions(i) : t \in timelock.queued \/ Dropped(t)
        /\ \A i, j \in Ids : i # j /\ Standing(i) /\ Standing(j) =>
             \A t \in Transactions(i) \cap Transactions(j) : Dropped(t)
    BY <1>9, <2>4 DEF GovernanceInv, Backing_
  <2>6. \A i \in Ids : Standing(i)' => \A t \in Transactions(i)' : t \in timelock'.queued \/ Dropped(t)'
    <3>1. SUFFICES ASSUME NEW i \in Ids, Standing(i)', NEW t \in Transactions(i)'
          PROVE  t \in timelock'.queued \/ Dropped(t)'
      OBVIOUS
    <3>2. i # id /\ Standing(i) /\ t \in Transactions(i)
      BY <2>1, <2>2, <3>1
    <3>3. t \in timelock.queued \/ Dropped(t)
      BY <2>5, <3>2
    <3>4. CASE t \in Transactions(id)
      BY <2>1, <2>3, <2>5, <3>2, <3>4
    <3>5. CASE t \notin Transactions(id)
      BY <1>9, <2>3, <3>3, <3>5
    <3>6. QED
      BY <3>4, <3>5
  <2>7. \A i, j \in Ids : i # j /\ Standing(i)' /\ Standing(j)' =>
          \A t \in Transactions(i)' \cap Transactions(j)' : Dropped(t)'
    BY <2>1, <2>2, <2>3, <2>5
  <2>8. QED
    BY <2>6, <2>7 DEF Backing_
<1>11. q.eta # 0 => q.endBlock < block /\ Won(q)
  <2> HIDE DEF q, p
  <2> QED BY <1>2, <1>4 DEF Won
<1>12. Moves(state(id), state(id)')
  BY <1>1, <1>7 DEF Moves, Lifecycle!Successors
<1>13. q.executed => q.eta # 0
  BY <1>4, <1>5
<1>14. QED
  <2> HIDE DEF q
  <2> QED BY <1>1, <1>4, <1>7, <1>8, <1>10, <1>11, <1>12, <1>13, OneProposal DEF p

\* A proposal is canceled: what it takes from the queue is dropped.
LEMMA CancelStep ==
  ASSUME GovernanceInv, NEW caller \in Callers, NEW id \in Ids, Cancel(caller, id)
  PROVE  Moved
<1> DEFINE p == proposals[id]
           q == [p EXCEPT !.canceled = TRUE]
<1>1. /\ isProposal(id) /\ state(id) # "Executed"
      /\ timelock' = cancelTransactions(timelock, p.actions, p.eta)
      /\ proposals' = [proposals EXCEPT ![id] = q]
      /\ UNCHANGED << governor, latestProposalIds, block, time >>
  BY DEF Cancel, mayCancelProposal
<1>2. /\ WellFormed(p) /\ p.actions \in Seq(Action) /\ p.eta \in Nat
      /\ p.eta # 0 => p.endBlock < block /\ Won(p)
      /\ p.executed => p.eta # 0
  BY <1>1, ProposalFacts
<1>3. timelock \in AnyTimelock
  BY DEF GovernanceInv, Contracts
<1>4. /\ WellFormed(q) /\ q.proposer = p.proposer /\ q.actions = p.actions /\ q.eta = p.eta
      /\ q.startBlock = p.startBlock /\ q.endBlock = p.endBlock
      /\ q.canceled /\ q.executed = p.executed
      /\ q.forVotes = p.forVotes /\ q.againstVotes = p.againstVotes
  BY <1>2, Flagged
<1>5. proposals'[id] = q
  BY <1>1 DEF GovernanceInv, Contracts
<1>6. state(id)' = "Canceled"
  <2> HIDE DEF q
  <2> QED BY <1>4, <1>5 DEF state
<1>7. timelock' \in AnyTimelock
  BY <1>1, <1>2, <1>3, TimelockOperations
<1>8. timelock'.admin = timelock.admin /\ timelock'.queued = timelock.queued \ Transactions(id)
  BY <1>1, <1>3, TimelockEffects DEF Transactions
<1>9. Backing_'
  <2> HIDE DEF q
  <2>1. ~Standing(id)' /\ Transactions(id)' = Transactions(id)
    BY <1>4, <1>5 DEF Standing, Transactions
  <2>2. \A i \in Ids : i # id => (Standing(i)' <=> Standing(i)) /\ Transactions(i)' = Transactions(i)
    BY <1>1, OthersStand
  <2>3. \A t : Dropped(t) => Dropped(t)'
    BY <1>1, <1>4, DroppedStays
  <2>4. \A t \in Transactions(id) : Dropped(t)'
    BY <1>4, <1>5, <2>1 DEF Dropped
  <2>5. SUFFICES ASSUME timelock'.admin = Bravo PROVE Backing_'
    BY DEF Backing_
  <2>6. /\ \A i \in Ids : Standing(i) => \A t \in Transactions(i) : t \in timelock.queued \/ Dropped(t)
        /\ \A i, j \in Ids : i # j /\ Standing(i) /\ Standing(j) =>
             \A t \in Transactions(i) \cap Transactions(j) : Dropped(t)
    BY <1>8, <2>5 DEF GovernanceInv, Backing_
  <2>7. \A i \in Ids : Standing(i)' => \A t \in Transactions(i)' : t \in timelock'.queued \/ Dropped(t)'
    BY <1>8, <2>1, <2>2, <2>3, <2>4, <2>6
  <2>8. \A i, j \in Ids : i # j /\ Standing(i)' /\ Standing(j)' =>
          \A t \in Transactions(i)' \cap Transactions(j)' : Dropped(t)'
    BY <2>1, <2>2, <2>3, <2>6
  <2>9. QED
    BY <2>7, <2>8 DEF Backing_
<1>10. q.eta # 0 => q.endBlock < block /\ Won(q)
  <2> HIDE DEF q, p
  <2> QED BY <1>2, <1>4 DEF Won
<1>11. Moves(state(id), state(id)')
  <2>1. state(id) \notin {"None", "Executed"}
    BY <1>1 DEF state
  <2>2. QED
    BY <1>6, <2>1 DEF Moves, Lifecycle!Successors
<1>12. q.executed => q.eta # 0
  BY <1>2, <1>4
<1>13. QED
  <2> HIDE DEF q
  <2> QED BY <1>1, <1>4, <1>6, <1>7, <1>9, <1>10, <1>11, <1>12, OneProposal DEF p

\* A budget is spent on what it is for.
Budgeted == left \in [moves : Nat, proposals : Nat, ballots : Nat, settings : Nat, agenda : Agendas]

LEMMA BudgetStep ==
  ASSUME Budgeted, [GovernanceNext]_governanceVars
  PROVE  Budgeted'
<1>1. CASE UNCHANGED left
  BY <1>1 DEF Budgeted
<1>2. ASSUME NEW kind \in {"moves", "proposals", "ballots", "settings"}, Spends(kind)
      PROVE  Budgeted'
  BY <1>2 DEF Budgeted, Spends
<1>3. ASSUME NEW caller, Administers(caller) PROVE Budgeted'
  BY <1>2, <1>3 DEF Administers
<1>4. CASE Token
  BY <1>2, <1>4 DEF Token, Transfer, Delegate
<1>5. CASE Direct
  BY <1>1, <1>2, <1>5 DEF Direct, QueueDirectly, ExecuteDirectly, CancelDirectly, AcceptTimelock
<1>6. CASE Proposal
  BY <1>1, <1>2, <1>6 DEF Proposal, Propose, CastVote, Queue, Execute, Cancel
<1>7. CASE Administration
  BY <1>2, <1>3, <1>7 DEF Administration, Initiate, SetVotingDelay, SetVotingPeriod, SetProposalThreshold,
       SetWhitelistGuardian, SetWhitelistAccountExpiration, SetPendingAdmin, AcceptAdmin
<1>8. QED
  BY <1>1, <1>4, <1>5, <1>6, <1>7 DEF GovernanceNext, Mine, governanceVars

\* The proposal that is made, as the code writes it and field by field
Made(who, actions, from, to) ==
  [NoProposal EXCEPT !.proposer = who, !.actions = actions, !.startBlock = from, !.endBlock = to]

Fields(who, actions, from, to, receipts, flag) ==
  [proposer |-> who, actions |-> actions, eta |-> 0, startBlock |-> from, endBlock |-> to,
   againstVotes |-> 0, forVotes |-> 0, abstainVotes |-> 0, canceled |-> flag, executed |-> flag,
   receipts |-> receipts]

\* Its flags are down.
LEMMA NewProposal ==
  ASSUME NEW who, NEW actions, NEW from, NEW to, NEW q, q = Made(who, actions, from, to)
  PROVE  \E receipts : \E flag \in BOOLEAN : q = Fields(who, actions, from, to, receipts, flag) /\ ~flag
<1>1. PICK receipts, flag :
        /\ q = [proposer |-> who, actions |-> actions, eta |-> 0, startBlock |-> from, endBlock |-> to,
                againstVotes |-> 0, forVotes |-> 0, abstainVotes |-> 0, canceled |-> flag, executed |-> flag,
                receipts |-> receipts]
        /\ flag = FALSE
  BY DEF NoProposal, Made
<1>2. flag \in BOOLEAN /\ ~flag /\ q = Fields(who, actions, from, to, receipts, flag)
  BY <1>1 DEF Fields
<1>3. QED
  BY <1>2

\* It is well-formed, and has no votes, flags or eta.
LEMMA NewProposalFields ==
  ASSUME NEW who \in Callers, NEW actions \in Seq(Action), NEW from \in Nat, NEW to \in Nat,
         NEW receipts, NEW flag \in BOOLEAN, ~flag, NEW q, q = Fields(who, actions, from, to, receipts, flag)
  PROVE  /\ WellFormed(q) /\ q.proposer = who /\ q.startBlock = from /\ q.endBlock = to
         /\ q.eta = 0 /\ ~q.canceled /\ ~q.executed
<1>1. /\ q.proposer = who /\ q.actions = actions /\ q.startBlock = from /\ q.endBlock = to
      /\ q.eta = 0 /\ q.againstVotes = 0 /\ q.forVotes = 0 /\ q.abstainVotes = 0
      /\ q.canceled = flag /\ q.executed = flag /\ q.receipts = receipts
  BY DEF Fields
<1>2. QED
  BY <1>1 DEF WellFormed, Fields

\* A proposal is made: its id is new, and its proposer has no other before or
\* under the vote.
LEMMA ProposeStep ==
  ASSUME GovernanceInv, Budgeted, NEW who \in Callers, NEW actions \in left.agenda, Propose(who, actions)
  PROVE  GovernanceInv' /\ \E id \in Ids : Lifecycle!Propose(id, who)
<1> DEFINE from == block + governor.votingDelay
           to == block + governor.votingDelay + governor.votingPeriod
           q == [NoProposal EXCEPT !.proposer = who, !.actions = actions, !.startBlock = from, !.endBlock = to]
<1>1. PICK id \in Ids :
      /\ id = governor.proposalCount + 1
      /\ governor.initialProposalId # 0 /\ ~hasLiveProposal(who)
      /\ governor' = [governor EXCEPT !.proposalCount = id]
      /\ proposals' = [proposals EXCEPT ![id] = q]
      /\ latestProposalIds' = [latestProposalIds EXCEPT ![who] = id]
      /\ UNCHANGED << timelock, block, time >>
  BY DEF Propose
<1>2. /\ timelock \in AnyTimelock /\ governor \in AnyGovernor /\ block \in Nat /\ time \in Nat
      /\ latestProposalIds \in [Callers -> Nat]
  BY DEF GovernanceInv, Contracts
<1>3. /\ governor.initialProposalId \in Nat /\ governor.proposalCount \in Nat
      /\ governor.initialProposalId <= governor.proposalCount
  BY <1>2, GovernorFields DEF GovernanceInv, Numbered
<1>4. from \in Nat /\ to \in Nat /\ block <= from /\ from < to
  <2>1. governor.votingDelay \in Nat /\ governor.votingPeriod \in Nat /\ governor.votingPeriod # 0
    BY <1>2, GovernorFields, GovernorConstants
  <2>2. QED
    BY <1>2, <2>1
<1>5. actions \in Seq(Action)
  BY GovernorConstants DEF Budgeted
<1>6. /\ WellFormed(q) /\ q.proposer = who /\ q.startBlock = from /\ q.endBlock = to
      /\ q.eta = 0 /\ ~q.canceled /\ ~q.executed
  <2> HIDE DEF from, to
  <2>1. q = Made(who, actions, from, to)
    BY DEF Made
  <2> HIDE DEF q
  <2>2. PICK receipts : \E flag \in BOOLEAN : q = Fields(who, actions, from, to, receipts, flag) /\ ~flag
    BY <2>1, NewProposal
  <2>3. from \in Nat /\ to \in Nat
    BY <1>4
  <2>4. PICK flag \in BOOLEAN : q = Fields(who, actions, from, to, receipts, flag) /\ ~flag
    BY <2>2
  <2>5. QED
    <3>1. WellFormed(q)
      BY <1>5, <2>3, <2>4, NewProposalFields
    <3>2. q.proposer = who /\ q.startBlock = from /\ q.endBlock = to /\ q.eta = 0
      BY <1>5, <2>3, <2>4, NewProposalFields
    <3>3. ~q.canceled
      BY <1>5, <2>3, <2>4, NewProposalFields
    <3>4. ~q.executed
      BY <1>5, <2>3, <2>4, NewProposalFields
    <3>5. QED
      BY <3>1, <3>2, <3>3, <3>4
<1> HIDE DEF q, from, to
<1>7. DOMAIN proposals = Ids /\ proposals = [i \in Ids |-> proposals[i]]
  BY DEF GovernanceInv, Contracts
<1>8. proposals'[id] = q /\ \A i \in Ids : i # id => proposals'[i] = proposals[i]
  BY <1>1, <1>7
<1>9. governor' \in AnyGovernor /\ governor'.initialProposalId = governor.initialProposalId
      /\ governor'.proposalCount = id
  BY <1>1, <1>2, <1>3 DEF AnyGovernor
<1>10. /\ ~isProposal(id) /\ isProposal(id)'
       /\ \A i \in Ids : i # id => (isProposal(i)' <=> isProposal(i))
  BY <1>1, <1>3, <1>9 DEF isProposal, Ids
<1>11. state(id)' = "Pending" /\ \A i \in Ids : i # id => state(i)' = state(i)
  BY <1>1, <1>4, <1>6, <1>8 DEF state
<1>12. proposals[id] = NoProposal
  BY <1>1, <1>10 DEF GovernanceInv, Numbered
<1>13. latestProposalIds' \in [Callers -> Nat] /\ latestProposalIds'[who] = id
       /\ \A a \in Callers : a # who => latestProposalIds'[a] = latestProposalIds[a]
  BY <1>1, <1>2, <1>3
<1>14. \A i \in Ids : isProposal(i) /\ state(i) \in {"Pending", "Active"} => proposals[i].proposer # who
  <2>1. SUFFICES ASSUME NEW i \in Ids, isProposal(i), state(i) \in {"Pending", "Active"},
                        proposals[i].proposer = who
        PROVE  FALSE
    OBVIOUS
  <2>2. latestProposalIds[who] = i /\ i # 0
    BY <2>1 DEF GovernanceInv, LatestIsLive, Ids
  <2>3. QED
    BY <1>1, <2>1, <2>2 DEF hasLiveProposal
<1>15. Contracts'
  <2>1. \A i \in Ids : WellFormed(proposals'[i])
    BY <1>6, <1>8 DEF GovernanceInv, Contracts
  <2>2. \A i \in Ids : WellFormed(proposals[i])'
    BY <2>1 DEF WellFormed
  <2>3. DOMAIN proposals' = Ids /\ proposals' = [i \in Ids |-> proposals'[i]]
    BY <1>1, <1>7
  <2>4. QED
    BY <1>1, <1>2, <1>9, <1>13, <2>2, <2>3 DEF Contracts
<1>16. Numbered'
  <2>1. governor'.initialProposalId <= governor'.proposalCount /\ governor'.initialProposalId # 0
    BY <1>1, <1>3, <1>9
  <2>2. \A i \in Ids : IF isProposal(i)' THEN proposals'[i].proposer \in Callers ELSE proposals'[i] = NoProposal
    BY <1>6, <1>8, <1>10 DEF GovernanceInv, Numbered
  <2>3. QED
    BY <2>1, <2>2 DEF Numbered
<1>17. Voted'
  <2>1. SUFFICES ASSUME NEW i \in Ids, isProposal(i)'
        PROVE  LET p == proposals'[i]
               IN /\ p.startBlock < p.endBlock
                  /\ p.executed => p.eta # 0
                  /\ p.eta # 0 => p.endBlock < block /\ Won(p)
    BY <1>1 DEF Voted, Won
  <2>2. CASE i = id
    BY <1>4, <1>6, <1>8, <2>2
  <2>3. CASE i # id
    BY <1>8, <1>10, <2>1, <2>3, ProposalFacts
  <2>4. QED
    BY <2>2, <2>3
<1>18. LatestIsLive'
  <2>1. ASSUME NEW a \in Callers, latestProposalIds'[a] # 0
        PROVE  latestProposalIds'[a] \in Ids /\ isProposal(latestProposalIds[a])'
    <3>1. CASE a = who
      BY <1>1, <1>10, <1>13, <3>1 DEF isProposal
    <3>2. CASE a # who
      <4>1. latestProposalIds'[a] = latestProposalIds[a] /\ latestProposalIds[a] # 0
        BY <1>13, <2>1, <3>2
      <4>2. latestProposalIds[a] \in Ids /\ isProposal(latestProposalIds[a])
        BY <4>1 DEF GovernanceInv, LatestIsLive
      <4>3. latestProposalIds[a] \in Nat
        BY <1>2
      <4>4. isProposal(latestProposalIds[a])'
        BY <1>1, <1>3, <1>9, <4>1, <4>2, <4>3 DEF isProposal
      <4>5. QED
        BY <4>1, <4>2, <4>4
    <3>3. QED
      BY <3>1, <3>2
  <2>2. ASSUME NEW i \in Ids, isProposal(i)', state(i)' \in {"Pending", "Active"}
        PROVE  latestProposalIds'[proposals'[i].proposer] = i
    <3>1. CASE i = id
      BY <1>6, <1>8, <1>13, <3>1
    <3>2. CASE i # id
      <4>1. isProposal(i) /\ state(i) \in {"Pending", "Active"} /\ proposals'[i] = proposals[i]
        BY <1>8, <1>10, <1>11, <2>2, <3>2
      <4>2. /\ proposals[i].proposer \in Callers /\ proposals[i].proposer # who
            /\ latestProposalIds[proposals[i].proposer] = i
        BY <1>14, <4>1, ProposalFacts DEF GovernanceInv, LatestIsLive
      <4>3. QED
        BY <1>13, <4>1, <4>2
    <3>3. QED
      BY <3>1, <3>2
  <2>3. QED
    BY <2>1, <2>2 DEF LatestIsLive
<1>19. Backing_'
  <2>1. ~Standing(id)'
    BY <1>6, <1>8 DEF Standing
  <2>2. \A i \in Ids : i # id => (Standing(i)' <=> Standing(i)) /\ Transactions(i)' = Transactions(i)
    BY <1>8, <1>10 DEF Standing, Transactions
  <2>3. \A t : Dropped(t) => Dropped(t)'
    <3>1. ~proposals[id].canceled
      BY <1>12 DEF NoProposal
    <3>2. QED
      BY <1>1, <3>1, DroppedStays
  <2>4. QED
    BY <1>1, <2>1, <2>2, <2>3 DEF GovernanceInv, Backing_
<1>20. Lifecycle!Propose(id, who)
  <2>1. stages[id] = "None" /\ \A j \in Ids : proposers[j] = who => stages[j] \notin Lifecycle!Live
    BY <1>1, <1>10, <1>14 DEF stages, proposers, Lifecycle!Live
  <2>2. stages' = [stages EXCEPT ![id] = "Pending"]
    BY <1>1, <1>10, <1>11 DEF stages
  <2>3. proposers' = [proposers EXCEPT ![id] = who]
    <3>1. proposers' = [i \in Ids |-> proposals'[i].proposer] /\ proposers = [i \in Ids |-> proposals[i].proposer]
      BY DEF proposers
    <3>2. \A i \in Ids : proposals'[i].proposer = IF i = id THEN who ELSE proposals[i].proposer
      BY <1>6, <1>8
    <3>3. QED
      BY <3>1, <3>2
  <2>4. QED
    BY <2>1, <2>2, <2>3 DEF Lifecycle!Propose
<1>21. QED
  BY <1>1, <1>15, <1>16, <1>17, <1>18, <1>19, <1>20 DEF GovernanceInv

\* Every step keeps the invariant, and is a step of the lifecycle or none.
LEMMA GovernanceStep ==
  ASSUME GovernanceInv, Budgeted, [GovernanceNext]_governanceVars
  PROVE  GovernanceInv' /\ [Lifecycle!LifecycleNext]_<< stages, proposers >>
<1>1. ASSUME Unmoved PROVE GovernanceInv' /\ [Lifecycle!LifecycleNext]_<< stages, proposers >>
  BY <1>1 DEF Unmoved
<1>2. ASSUME Moved PROVE GovernanceInv' /\ [Lifecycle!LifecycleNext]_<< stages, proposers >>
  <2>1. DOMAIN stages' = Ids
    BY DEF stages
  <2>2. \A id \in Ids : stages'[id] \in Lifecycle!Stages
    <3>1. \A id : state(id)' \in Lifecycle!Stages
      BY DEF state, Lifecycle!Stages
    <3>2. QED
      BY <3>1 DEF stages, Lifecycle!Stages
  <2>3. \A id \in Ids : stages'[id] = stages[id] \/ stages'[id] \in Lifecycle!Successors(stages[id])
    BY <1>2 DEF Moved, Moves
  <2>4. Lifecycle!Progress(stages, stages')
    BY <2>2, <2>3 DEF Lifecycle!Progress
  <2>5. Lifecycle!Advance
    BY <1>2, <2>1, <2>4 DEF Moved, Lifecycle!Advance
  <2>6. QED
    BY <1>2, <2>5 DEF Moved, Lifecycle!LifecycleNext
<1>3. ASSUME NEW who \in Callers, NEW actions \in left.agenda, Propose(who, actions)
      PROVE  GovernanceInv' /\ [Lifecycle!LifecycleNext]_<< stages, proposers >>
  <2>1. GovernanceInv' /\ \E id \in Ids : Lifecycle!Propose(id, who)
    BY <1>3, ProposeStep
  <2>2. who \in Callers \cup {Nobody}
    OBVIOUS
  <2>3. QED
    BY <2>1, <2>2 DEF Lifecycle!LifecycleNext
<1>4. CASE UNCHANGED governanceVars
  <2>1. timelock \in AnyTimelock /\ governor \in AnyGovernor
    BY DEF GovernanceInv, Contracts
  <2>2. UNCHANGED << timelock, governor, proposals, latestProposalIds, block, time >>
    BY <1>4 DEF governanceVars
  <2>3. Unmoved
    BY <2>1, <2>2, Quiet DEF Unmoved
  <2>4. QED
    BY <1>1, <2>3
<1>5. CASE \E seconds \in Ticks : Mine(seconds)
  BY <1>2, <1>5, MineStep
<1>6. CASE Token
  BY <1>1, <1>6, TokenStep
<1>7. CASE Direct
  BY <1>1, <1>7, DirectStep
<1>8. CASE Administration
  BY <1>1, <1>8, AdministrationStep
<1>9. CASE Proposal
  <2>1. CASE \E who \in Callers, actions \in left.agenda : Propose(who, actions)
    BY <1>3, <2>1
  <2>2. CASE \E voter \in Accounts, id \in Ids, support \in 0 .. 2 : CastVote(voter, id, support)
    BY <1>2, <2>2, CastVoteStep
  <2>3. CASE \E id \in Ids : Queue(id)
    BY <1>2, <2>3, QueueStep
  <2>4. CASE \E id \in Ids : Execute(id)
    BY <1>2, <2>4, ExecuteStep
  <2>5. CASE \E caller \in Callers, id \in Ids : Cancel(caller, id)
    BY <1>2, <2>5, CancelStep
  <2>6. QED
    BY <1>9, <2>1, <2>2, <2>3, <2>4, <2>5 DEF Proposal
<1>10. QED
  BY <1>4, <1>5, <1>6, <1>7, <1>8, <1>9 DEF GovernanceNext

\* The inductive invariant: numbering, votes, latest proposals and the queue
\* of the Timelock agree in every reachable state.
THEOREM GovernanceInvariance == GovernanceSpec => [](GovernanceInv /\ Budgeted)
<1>1. GovernanceInit => GovernanceInv /\ Budgeted
  BY InitInv, GovernorConstants DEF GovernanceInit, Budgeted
<1>2. GovernanceInv /\ Budgeted /\ [GovernanceNext]_governanceVars => (GovernanceInv /\ Budgeted)'
  BY GovernanceStep, BudgetStep
<1>3. QED
  BY <1>1, <1>2, PTL DEF GovernanceSpec

\* While Bravo is the Timelock's admin, what a queued proposal is made of is in
\* the Timelock's queue, but for what a canceled twin took along.
THEOREM QueuedStaysBacked == GovernanceSpec => []QueuedIsBacked
<1>1. GovernanceInv => QueuedIsBacked
  <2>1. SUFFICES ASSUME GovernanceInv, timelock.admin = Bravo, NEW id \in Ids,
                        isProposal(id), state(id) = "Queued", NEW t \in Transactions(id)
        PROVE  t \in timelock.queued \/ Dropped(t)
    BY DEF QueuedIsBacked, Transactions, Dropped
  <2>2. Standing(id)
    BY <2>1 DEF state, Standing
  <2>3. QED
    BY <2>1, <2>2 DEF GovernanceInv, Backing_
<1>2. QED
  BY <1>1, GovernanceInvariance, PTL

\* The refinement: whatever the votes, the clock, the Timelock and the admins
\* do, proposals live the life of ProposalLifecycle.
THEOREM BravoImplementsLifecycle == GovernanceSpec => ProposalsLiveTheirLife
<1>1. GovernanceInit => Lifecycle!LifecycleInit
  BY InitInv DEF Lifecycle!LifecycleInit
<1>2. GovernanceInv /\ Budgeted /\ [GovernanceNext]_governanceVars => [Lifecycle!LifecycleNext]_<< stages, proposers >>
  BY GovernanceStep
<1>3. QED
  BY <1>1, <1>2, GovernanceInvariance, PTL DEF GovernanceSpec, ProposalsLiveTheirLife, Lifecycle!LifecycleSpec
-----------------------------------------------------------------------------
\* Checkpoints are of blocks in order, none of them to come.
Ordered(cps, now) ==
  /\ cps \in Seq(Checkpoint)
  /\ \A i \in 1 .. Len(cps) : cps[i].fromBlock <= now
  /\ \A i \in 2 .. Len(cps) : cps[i - 1].fromBlock < cps[i].fromBlock

\* The token's storage, but for what its sums are
TokenInv ==
  /\ comp.balances \in [Accounts -> Nat] /\ comp.delegates \in [Accounts -> Accounts \cup {Nobody}]
  /\ DOMAIN comp.checkpoints = Accounts
  /\ \A a \in Accounts : Ordered(comp.checkpoints[a], block)
  /\ history \in Seq([Accounts -> Int]) /\ Len(history) = block - 1

\* The votes of the last checkpoint, or none
LEMMA CurrentVotesType ==
  ASSUME NEW now, NEW cps, Ordered(cps, now)
  PROVE  currentVotes(cps) \in Nat
<1>1. CASE cps = << >>
  BY <1>1 DEF currentVotes, NoCheckpoints
<1>2. CASE cps # << >>
  <2>1. cps \in Seq(Checkpoint) /\ Len(cps) \in 1 .. Len(cps)
    BY <1>2 DEF Ordered
  <2>2. cps[Len(cps)] \in Checkpoint
    BY <2>1
  <2>3. QED
    BY <1>2, <2>2 DEF currentVotes, NoCheckpoints, Checkpoint
<1>3. QED
  BY <1>1, <1>2

\* A checkpoint is written over the one of the same block, or after all others.
LEMMA WriteKeepsOrder ==
  ASSUME NEW now \in Nat, NEW cps, Ordered(cps, now), NEW votes \in Nat
  PROVE  Ordered(writeCheckpoint(cps, now, votes), now)
<1> DEFINE new == [fromBlock |-> now, votes |-> votes]
<1>1. cps \in Seq(Checkpoint) /\ Len(cps) \in Nat /\ new \in Checkpoint /\ new.fromBlock = now
  BY DEF Ordered, Checkpoint
<1>2. \A i \in 1 .. Len(cps) : cps[i] \in Checkpoint /\ cps[i].fromBlock \in Nat
  <2>1. \A i \in 1 .. Len(cps) : cps[i] \in Checkpoint
    BY <1>1
  <2>2. QED
    BY <2>1 DEF Checkpoint
<1>3. CASE cps # << >> /\ cps[Len(cps)].fromBlock = now
  <2>1. Len(cps) \in 1 .. Len(cps)
    BY <1>1, <1>3
  <2>2. [cps[Len(cps)] EXCEPT !.votes = votes] = new
    BY <1>2, <1>3, <2>1 DEF Checkpoint
  <2>3. writeCheckpoint(cps, now, votes) = [cps EXCEPT ![Len(cps)] = new]
    BY <1>3, <2>2 DEF writeCheckpoint, NoCheckpoints
  <2> DEFINE w == [cps EXCEPT ![Len(cps)] = new]
  <2> HIDE DEF new
  <2>4. w \in Seq(Checkpoint) /\ Len(w) = Len(cps)
    BY <1>1, <2>1
  <2>5. \A i \in 1 .. Len(cps) : w[i].fromBlock = cps[i].fromBlock
    BY <1>1, <1>3, <2>1
  <2> HIDE DEF w
  <2>6. \A i \in 2 .. Len(cps) : w[i - 1].fromBlock < w[i].fromBlock
    <3>1. \A i \in 2 .. Len(cps) : i - 1 \in 1 .. Len(cps) /\ i \in 1 .. Len(cps)
      BY <1>1
    <3>2. QED
      BY <2>5, <3>1 DEF Ordered
  <2>7. Ordered(w, now)
    BY <2>4, <2>5, <2>6 DEF Ordered
  <2>8. QED
    BY <2>3, <2>7 DEF w
<1>4. CASE cps = << >> \/ cps[Len(cps)].fromBlock # now
  <2> DEFINE w == Append(cps, new)
  <2>1. writeCheckpoint(cps, now, votes) = w
    BY <1>4 DEF writeCheckpoint, NoCheckpoints
  <2> HIDE DEF new
  <2>2. w \in Seq(Checkpoint) /\ Len(w) = Len(cps) + 1
    BY <1>1
  <2>3. w[Len(cps) + 1] = new /\ \A i \in 1 .. Len(cps) : w[i] = cps[i]
    BY <1>1
  <2>4. \A i \in 1 .. Len(cps) : cps[i].fromBlock <= now
    BY DEF Ordered
  <2>5. cps # << >> => cps[Len(cps)].fromBlock < now
    <3>1. cps # << >> => Len(cps) \in 1 .. Len(cps)
      BY <1>1
    <3>2. QED
      BY <1>2, <1>4, <2>4, <3>1
  <2> HIDE DEF w
  <2>6. \A i \in 1 .. Len(w) : w[i].fromBlock <= now
    <3>1. SUFFICES ASSUME NEW i \in 1 .. Len(w) PROVE w[i].fromBlock <= now
      OBVIOUS
    <3>2. CASE i \in 1 .. Len(cps)
      BY <2>3, <2>4, <3>2
    <3>3. CASE i = Len(cps) + 1
      BY <1>1, <2>3, <3>3
    <3>4. QED
      BY <1>1, <2>2, <3>2, <3>3
  <2>7. \A i \in 2 .. Len(w) : w[i - 1].fromBlock < w[i].fromBlock
    <3>1. SUFFICES ASSUME NEW i \in 2 .. Len(w) PROVE w[i - 1].fromBlock < w[i].fromBlock
      OBVIOUS
    <3>2. CASE i <= Len(cps)
      <4>1. i \in 2 .. Len(cps) /\ i - 1 \in 1 .. Len(cps) /\ i \in 1 .. Len(cps)
        BY <1>1, <3>2
      <4>2. cps[i - 1].fromBlock < cps[i].fromBlock
        BY <4>1 DEF Ordered
      <4>3. QED
        BY <2>3, <4>1, <4>2
    <3>3. CASE i = Len(cps) + 1
      <4>1. cps # << >> /\ i - 1 = Len(cps) /\ Len(cps) \in 1 .. Len(cps)
        BY <1>1, <3>1, <3>3
      <4>2. w[i - 1].fromBlock < now /\ w[i] = new
        BY <2>3, <2>5, <3>3, <4>1
      <4>3. QED
        BY <1>1, <4>2
    <3>4. QED
      BY <1>1, <2>2, <3>2, <3>3
  <2>8. QED
    BY <2>1, <2>2, <2>6, <2>7 DEF Ordered
<1>5. QED
  BY <1>3, <1>4

\* Votes move between two delegates without breaking the order of either.
LEMMA MoveKeepsOrder ==
  ASSUME NEW now \in Nat, NEW cp, DOMAIN cp = Accounts, \A a \in Accounts : Ordered(cp[a], now),
         NEW srcRep \in Accounts \cup {Nobody}, NEW dstRep \in Accounts \cup {Nobody},
         NEW amount \in Nat, canMove(cp, srcRep, dstRep, amount)
  PROVE  LET moved == moveDelegates(cp, srcRep, dstRep, amount, now)
         IN DOMAIN moved = Accounts /\ \A a \in Accounts : Ordered(moved[a], now)
<1> DEFINE less == writeCheckpoint(cp[srcRep], now, currentVotes(cp[srcRep]) - amount)
           without == IF srcRep = Nobody THEN cp ELSE [cp EXCEPT ![srcRep] = less]
           more == writeCheckpoint(without[dstRep], now, currentVotes(without[dstRep]) + amount)
           with == IF dstRep = Nobody THEN without ELSE [without EXCEPT ![dstRep] = more]
<1>1. moveDelegates(cp, srcRep, dstRep, amount, now) = IF srcRep = dstRep \/ amount = 0 THEN cp ELSE with
  BY DEF moveDelegates
<1>2. ASSUME srcRep # dstRep
      PROVE  DOMAIN without = Accounts /\ \A a \in Accounts : Ordered(without[a], now)
  <2>1. CASE srcRep = Nobody
    BY <2>1
  <2>2. CASE srcRep # Nobody
    <3>1. srcRep \in Accounts /\ amount <= currentVotes(cp[srcRep])
      BY <1>2, <2>2 DEF canMove
    <3>2. currentVotes(cp[srcRep]) \in Nat
      BY <3>1, CurrentVotesType
    <3>3. currentVotes(cp[srcRep]) - amount \in Nat
      BY <3>1, <3>2
    <3>4. Ordered(less, now)
      BY <3>1, <3>3, WriteKeepsOrder
    <3> HIDE DEF less
    <3>5. QED
      BY <2>2, <3>1, <3>4
  <2>3. QED
    BY <2>1, <2>2
<1> HIDE DEF without
<1>3. ASSUME srcRep # dstRep
      PROVE  DOMAIN with = Accounts /\ \A a \in Accounts : Ordered(with[a], now)
  <2>1. CASE dstRep = Nobody
    BY <1>2, <1>3, <2>1
  <2>2. CASE dstRep # Nobody
    <3>1. dstRep \in Accounts /\ currentVotes(without[dstRep]) \in Nat
      BY <1>2, <1>3, <2>2, CurrentVotesType
    <3>2. currentVotes(without[dstRep]) + amount \in Nat
      BY <3>1
    <3>3. Ordered(more, now)
      BY <1>2, <1>3, <3>1, <3>2, WriteKeepsOrder
    <3> HIDE DEF more
    <3>4. QED
      BY <1>2, <1>3, <2>2, <3>1, <3>3
  <2>3. QED
    BY <2>1, <2>2
<1> HIDE DEF with
<1>4. QED
  BY <1>1, <1>3

\* An order of checkpoints stands when time goes by.
LEMMA OrderLasts ==
  ASSUME NEW now \in Nat, NEW later \in Nat, now <= later, NEW cps, Ordered(cps, now)
  PROVE  Ordered(cps, later)
<1>1. \A i \in 1 .. Len(cps) : cps[i].fromBlock \in Nat
  <2>1. \A i \in 1 .. Len(cps) : cps[i] \in Checkpoint
    BY DEF Ordered
  <2>2. QED
    BY <2>1 DEF Checkpoint
<1>2. \A i \in 1 .. Len(cps) : cps[i].fromBlock <= later
  BY <1>1 DEF Ordered
<1>3. QED
  BY <1>2 DEF Ordered

\* What is delegated to an account
LEMMA BackingType ==
  ASSUME comp.balances \in [Accounts -> Nat], NEW account
  PROVE  Backing(account) \in Nat
<1> DEFINE S == {a \in Accounts : comp.delegates[a] = account}
<1>1. IsFiniteSet(S)
  BY GovernorConstants, FS_Subset
<1>2. \A a \in S : comp.balances[a] \in Nat
  OBVIOUS
<1>3. QED
  BY <1>1, <1>2, SumNat DEF Backing

\* The token as it is deployed
LEMMA InitToken ==
  ASSUME GovernanceInit
  PROVE  TokenInv
<1> DEFINE chosen(d, a) == {b \in Accounts : d[b] = a /\ Genesis[b] > 0}
           first(d, a) == IF chosen(d, a) = {} THEN NoCheckpoints
                          ELSE writeCheckpoint(NoCheckpoints, 1, SumFunctionOnSet(Genesis, chosen(d, a)))
<1>1. PICK d \in FirstDelegates :
        comp = [balances |-> Genesis, delegates |-> d, checkpoints |-> [a \in Accounts |-> first(d, a)]]
  BY DEF GovernanceInit
<1>2. block = 2 /\ history = << [a \in Accounts |-> Backing(a)] >>
  BY DEF GovernanceInit
<1>3. comp.balances \in [Accounts -> Nat] /\ comp.delegates \in [Accounts -> Accounts \cup {Nobody}]
  BY <1>1, GovernorConstants
<1>4. \A a \in Accounts : Ordered(first(d, a), 1)
  <2>1. Ordered(NoCheckpoints, 1)
    BY DEF Ordered, NoCheckpoints
  <2>2. ASSUME NEW a \in Accounts
        PROVE  SumFunctionOnSet(Genesis, chosen(d, a)) \in Nat
    <3>1. IsFiniteSet(chosen(d, a)) /\ \A b \in chosen(d, a) : Genesis[b] \in Nat
      BY GovernorConstants, FS_Subset
    <3>2. QED
      BY <3>1, SumNat
  <2>3. ASSUME NEW a \in Accounts
        PROVE  Ordered(writeCheckpoint(NoCheckpoints, 1, SumFunctionOnSet(Genesis, chosen(d, a))), 1)
    BY <2>1, <2>2, WriteKeepsOrder
  <2>4. QED
    BY <2>1, <2>3
<1>5. DOMAIN comp.checkpoints = Accounts /\ \A a \in Accounts : Ordered(comp.checkpoints[a], 2)
  <2>1. comp.checkpoints = [a \in Accounts |-> first(d, a)]
    BY <1>1
  <2> HIDE DEF first
  <2>2. \A a \in Accounts : Ordered(first(d, a), 2)
    <3>1. ASSUME NEW cps, Ordered(cps, 1) PROVE Ordered(cps, 2)
      BY <3>1, OrderLasts
    <3>2. QED
      BY <1>4, <3>1
  <2>3. QED
    BY <2>1, <2>2
<1>6. history \in Seq([Accounts -> Int]) /\ Len(history) = block - 1
  <2>1. [a \in Accounts |-> Backing(a)] \in [Accounts -> Int]
    BY <1>3, BackingType
  <2>2. QED
    BY <1>2, <2>1
<1>7. QED
  BY <1>2, <1>3, <1>5, <1>6 DEF TokenInv

\* Tokens move, or blocks go by, or the token is left alone.
LEMMA TokenKept ==
  ASSUME GovernanceInv, TokenInv, [GovernanceNext]_governanceVars
  PROVE  TokenInv'
<1>1. block \in Nat
  BY DEF GovernanceInv, Contracts
<1>2. /\ comp.balances \in [Accounts -> Nat] /\ comp.delegates \in [Accounts -> Accounts \cup {Nobody}]
      /\ DOMAIN comp.checkpoints = Accounts
      /\ \A a \in Accounts : Ordered(comp.checkpoints[a], block)
      /\ history \in Seq([Accounts -> Int]) /\ Len(history) = block - 1
  BY DEF TokenInv
<1>3. CASE UNCHANGED << comp, block, history >>
  BY <1>3 DEF TokenInv
<1>4. ASSUME NEW seconds \in Ticks, Mine(seconds) PROVE TokenInv'
  <2>1. /\ comp' = comp /\ block' = block + 1
        /\ history' = Append(history, [a \in Accounts |-> Backing(a)])
    BY <1>4 DEF Mine
  <2>2. [a \in Accounts |-> Backing(a)] \in [Accounts -> Int]
    BY <1>2, BackingType
  <2>3. history' \in Seq([Accounts -> Int]) /\ Len(history') = block' - 1
    BY <1>1, <1>2, <2>1, <2>2
  <2>4. \A a \in Accounts : Ordered(comp'.checkpoints[a], block')
    BY <1>1, <1>2, <2>1, OrderLasts
  <2>5. QED
    BY <1>2, <2>1, <2>3, <2>4 DEF TokenInv
<1>5. ASSUME NEW balances \in [Accounts -> Nat], NEW delegates \in [Accounts -> Accounts \cup {Nobody}],
             NEW srcRep \in Accounts \cup {Nobody}, NEW dstRep \in Accounts \cup {Nobody}, NEW amount \in Nat,
             canMove(comp.checkpoints, srcRep, dstRep, amount),
             comp' = [balances |-> balances, delegates |-> delegates,
                      checkpoints |-> moveDelegates(comp.checkpoints, srcRep, dstRep, amount, block)],
             UNCHANGED << block, history >>
      PROVE  TokenInv'
  <2> DEFINE moved == moveDelegates(comp.checkpoints, srcRep, dstRep, amount, block)
  <2>1. DOMAIN moved = Accounts /\ \A a \in Accounts : Ordered(moved[a], block)
    BY <1>1, <1>2, <1>5, MoveKeepsOrder
  <2> HIDE DEF moved
  <2>2. comp'.balances = balances /\ comp'.delegates = delegates /\ comp'.checkpoints = moved
    BY <1>5 DEF moved
  <2>3. QED
    BY <1>2, <1>5, <2>1, <2>2 DEF TokenInv
<1>6. ASSUME NEW src \in Accounts, NEW dst \in Accounts \ {src}, NEW amount \in 1 .. comp.balances[src],
             Transfer(src, dst, amount)
      PROVE  TokenInv'
  <2> DEFINE paid == [comp.balances EXCEPT ![src] = @ - amount]
             balances == [paid EXCEPT ![dst] = @ + amount]
  <2>1. amount \in Nat /\ comp.balances[src] \in Nat /\ comp.balances[src] - amount \in Nat
    BY <1>2
  <2>2. paid \in [Accounts -> Nat]
    BY <1>2, <2>1
  <2> HIDE DEF paid
  <2>3. balances \in [Accounts -> Nat]
    BY <2>1, <2>2
  <2> HIDE DEF balances
  <2>4. /\ comp.delegates[src] \in Accounts \cup {Nobody} /\ comp.delegates[dst] \in Accounts \cup {Nobody}
        /\ canMove(comp.checkpoints, comp.delegates[src], comp.delegates[dst], amount)
        /\ UNCHANGED << block, history >>
    BY <1>2, <1>6 DEF Transfer, canTransfer
  <2>5. comp' = [balances |-> balances, delegates |-> comp.delegates,
                 checkpoints |-> moveDelegates(comp.checkpoints, comp.delegates[src], comp.delegates[dst], amount, block)]
    BY <1>6 DEF Transfer, transferTokens, balances, paid
  <2>6. QED
    BY <1>2, <1>5, <2>1, <2>3, <2>4, <2>5
<1>7. ASSUME NEW delegator \in Accounts, NEW delegatee \in Accounts \cup {Nobody}, Delegate(delegator, delegatee)
      PROVE  TokenInv'
  <2> DEFINE delegates == [comp.delegates EXCEPT ![delegator] = delegatee]
  <2>1. delegates \in [Accounts -> Accounts \cup {Nobody}]
    BY <1>2
  <2> HIDE DEF delegates
  <2>2. /\ comp.delegates[delegator] \in Accounts \cup {Nobody} /\ comp.balances[delegator] \in Nat
        /\ canMove(comp.checkpoints, comp.delegates[delegator], delegatee, comp.balances[delegator])
        /\ UNCHANGED << block, history >>
    BY <1>2, <1>7 DEF Delegate, canDelegate
  <2>3. comp' = [balances |-> comp.balances, delegates |-> delegates,
                 checkpoints |-> moveDelegates(comp.checkpoints, comp.delegates[delegator], delegatee,
                                               comp.balances[delegator], block)]
    BY <1>7 DEF Delegate, delegateTo, delegates
  <2>4. QED
    BY <1>2, <1>5, <2>1, <2>2, <2>3
<1>8. CASE Token
  BY <1>6, <1>7, <1>8 DEF Token
<1>9. CASE Direct
  BY <1>3, <1>9 DEF Direct, QueueDirectly, ExecuteDirectly, CancelDirectly, AcceptTimelock, TimelockOnly
<1>10. CASE Proposal
  BY <1>3, <1>10 DEF Proposal, Propose, CastVote, Queue, Execute, Cancel
<1>11. CASE Administration
  BY <1>3, <1>11 DEF Administration, Initiate, SetVotingDelay, SetVotingPeriod, SetProposalThreshold,
       SetWhitelistGuardian, SetWhitelistAccountExpiration, SetPendingAdmin, AcceptAdmin, Administers, GovernorOnly
<1>12. CASE UNCHANGED governanceVars
  BY <1>3, <1>12 DEF governanceVars
<1>13. QED
  BY <1>4, <1>8, <1>9, <1>10, <1>11, <1>12 DEF GovernanceNext

\* Every variable has its type in every reachable state.
THEOREM GovernanceTypeCorrect == GovernanceSpec => []GovernanceTypeOK
<1>1. GovernanceInit => TokenInv
  BY InitToken
<1>2. GovernanceInv /\ TokenInv /\ [GovernanceNext]_governanceVars => TokenInv'
  BY TokenKept
<1>3. GovernanceInv /\ Budgeted /\ TokenInv => GovernanceTypeOK
  <2>1. SUFFICES ASSUME GovernanceInv, Budgeted, TokenInv PROVE GovernanceTypeOK
    OBVIOUS
  <2>2. timelock \in AnyTimelock /\ governor \in AnyGovernor
    BY <2>1 DEF GovernanceInv, Contracts
  <2>3. \A a \in Accounts : /\ \A i \in DOMAIN comp.checkpoints[a] :
                                 comp.checkpoints[a][i] \in Checkpoint /\ comp.checkpoints[a][i].fromBlock <= block
                            /\ \A i \in DOMAIN comp.checkpoints[a] \ {1} :
                                 comp.checkpoints[a][i - 1].fromBlock < comp.checkpoints[a][i].fromBlock
    <3>1. SUFFICES ASSUME NEW cps, Ordered(cps, block)
          PROVE  /\ \A i \in DOMAIN cps : cps[i] \in Checkpoint /\ cps[i].fromBlock <= block
                 /\ \A i \in DOMAIN cps \ {1} : cps[i - 1].fromBlock < cps[i].fromBlock
      BY <2>1 DEF TokenInv
    <3>2. cps \in Seq(Checkpoint) /\ DOMAIN cps = 1 .. Len(cps) /\ DOMAIN cps \ {1} \subseteq 2 .. Len(cps)
      BY <3>1 DEF Ordered
    <3>3. QED
      BY <3>1, <3>2 DEF Ordered
  <2>4. \A id \in Ids : proposals[id].proposer # Nobody <=> isProposal(id)
    BY <2>1, NobodyHolds, GovernorConstants DEF GovernanceInv, Numbered, NoProposal, Callers
  <2>5. block \in Nat /\ time \in Nat /\ latestProposalIds \in [Callers -> Nat]
    BY <2>1 DEF GovernanceInv, Contracts
  <2>6. QED
    BY <2>1, <2>2, <2>3, <2>4, <2>5, TimelockFields, GovernorFields DEF GovernanceTypeOK, TokenInv, Budgeted
<1>4. QED
  BY <1>1, <1>2, <1>3, GovernanceInvariance, PTL DEF GovernanceSpec
-----------------------------------------------------------------------------
(* The search *)

\* One round of the search: what it returns or the range it goes on with.
Round(cps, number, search, range) ==
        LET lower == range[1]
            upper == range[2]
            center == upper - (upper - lower) \div 2
        IN IF lower >= upper THEN cps[lower].votes
           ELSE IF cps[center].fromBlock = number THEN cps[center].votes
           ELSE IF cps[center].fromBlock < number THEN search[<< center, upper >>]
           ELSE search[<< lower, center - 1 >>]

\* The search as its recursion defines it
Searches(cps, number, search) ==
  search = [range \in (DOMAIN cps) \X (DOMAIN cps) |-> Round(cps, number, search, range)]

\* Between the first and the last checkpoint getPriorVotes is that search.
LEMMA SearchUnfolds ==
  ASSUME NEW cps, NEW number, 
   cps # NoCheckpoints, ~(cps[Len(cps)].fromBlock <= number), ~(cps[1].fromBlock > number)
  PROVE getPriorVotes(cps, number) = (CHOOSE search : Searches(cps, number, search))[<<1, Len(cps)>>]
  BY DEF getPriorVotes, Round, Searches

\* The last checkpoint of lower .. upper that is not after a block, or the first
IsLast(cps, number, lower, upper, i) ==
  /\ i \in lower .. upper
  /\ i = lower \/ cps[i].fromBlock <= number
  /\ \A j \in lower .. upper : cps[j].fromBlock <= number => j <= i

\* There is one in every range.
LEMMA LastExists ==
  ASSUME NEW cps, NEW number, NEW lower \in Nat, NEW upper \in Nat, lower <= upper
  PROVE  \E i \in lower .. upper : IsLast(cps, number, lower, upper, i)
<1> DEFINE T == {i \in lower .. upper : i = lower \/ cps[i].fromBlock <= number}
<1>1. T \in SUBSET Nat /\ lower \in T /\ \A i \in T : i <= upper
  OBVIOUS
<1>2. PICK i \in T : \A j \in T : j <= i
  BY <1>1, GreatestElement
<1>3. QED
  BY <1>2 DEF IsLast

\* Blocks of checkpoints increase with their place, not only from one to the next.
LEMMA OrderedApart ==
  ASSUME NEW now, NEW cps, Ordered(cps, now), NEW i \in 1 .. Len(cps), NEW j \in 1 .. Len(cps), i < j
  PROVE  cps[i].fromBlock < cps[j].fromBlock
<1> DEFINE T == {k \in Nat : i + 1 + k <= Len(cps) => cps[i].fromBlock < cps[i + 1 + k].fromBlock}
<1>1. cps \in Seq(Checkpoint) /\ Len(cps) \in Nat /\ i \in Nat /\ j \in Nat
  BY DEF Ordered
<1>2. \A k \in 1 .. Len(cps) : cps[k] \in Checkpoint /\ cps[k].fromBlock \in Nat
  <2>1. \A k \in 1 .. Len(cps) : cps[k] \in Checkpoint
    BY <1>1
  <2>2. QED
    BY <2>1 DEF Checkpoint
<1>3. \A k \in 2 .. Len(cps) : cps[k - 1].fromBlock < cps[k].fromBlock
  BY DEF Ordered
<1>4. 0 \in T
  <2>1. SUFFICES ASSUME i + 1 <= Len(cps) PROVE cps[i].fromBlock < cps[i + 1].fromBlock
    OBVIOUS
  <2>2. i + 1 \in 2 .. Len(cps) /\ (i + 1) - 1 = i
    BY <1>1, <2>1
  <2>3. QED
    BY <1>3, <2>2
<1>5. ASSUME NEW k \in T PROVE k + 1 \in T
  <2>1. SUFFICES ASSUME i + 1 + (k + 1) <= Len(cps) PROVE cps[i].fromBlock < cps[i + 1 + (k + 1)].fromBlock
    OBVIOUS
  <2> DEFINE m == i + 1 + k
  <2>2. m \in 1 .. Len(cps) /\ m + 1 \in 2 .. Len(cps) /\ m + 1 \in 1 .. Len(cps) /\ (m + 1) - 1 = m
        /\ i + 1 + (k + 1) = m + 1
    BY <1>1, <2>1
  <2>3. cps[i].fromBlock < cps[m].fromBlock
    BY <2>2
  <2> HIDE DEF m
  <2>4. cps[m].fromBlock < cps[m + 1].fromBlock
    BY <1>3, <2>2
  <2>5. cps[i].fromBlock \in Nat /\ cps[m].fromBlock \in Nat /\ cps[m + 1].fromBlock \in Nat
    BY <1>2, <2>2
  <2>6. cps[i].fromBlock < cps[m + 1].fromBlock
    BY <2>3, <2>4, <2>5
  <2>7. QED
    BY <2>2, <2>6
<1>6. T = Nat
  <2> HIDE DEF T
  <2>1. T \in SUBSET Nat
    BY DEF T
  <2>2. QED
    BY <1>4, <1>5, <2>1, NatSetInduction
<1>7. j - (i + 1) \in Nat /\ i + 1 + (j - (i + 1)) = j
  BY <1>1
<1>8. j - (i + 1) \in T
  BY <1>6, <1>7
<1>9. QED
  BY <1>7, <1>8

\* A round halves the range without losing the checkpoint it is after.
LEMMA RoundHalves ==
  ASSUME NEW now, NEW cps, Ordered(cps, now), NEW number \in Nat,
         NEW lower \in 1 .. Len(cps), NEW upper \in 1 .. Len(cps), lower < upper,
         NEW i, IsLast(cps, number, lower, upper, i)
  PROVE  LET center == upper - (upper - lower) \div 2
         IN /\ center \in (lower + 1) .. upper
            /\ cps[center].fromBlock = number => i = center
            /\ cps[center].fromBlock < number => IsLast(cps, number, center, upper, i)
            /\ ~ cps[center].fromBlock = number /\ ~ cps[center].fromBlock < number =>
                 IsLast(cps, number, lower, center - 1, i)
<1> DEFINE center == upper - (upper - lower) \div 2
<1>1. Len(cps) \in Nat /\ \A k \in 1 .. Len(cps) : cps[k] \in Checkpoint
  BY DEF Ordered
<1>2. \A k \in 1 .. Len(cps) : cps[k].fromBlock \in Nat
  BY <1>1 DEF Checkpoint
<1>3. center \in (lower + 1) .. upper
  BY <1>1
<1>4. lower \in Nat /\ upper \in Nat /\ center \in Nat
  BY <1>1, <1>3
<1> HIDE DEF center
<1>5. i \in lower .. upper /\ i \in 1 .. Len(cps) /\ i \in Nat /\ center \in 1 .. Len(cps)
  BY <1>1, <1>3, <1>4 DEF IsLast
<1>6. \A j \in lower .. upper : j \in 1 .. Len(cps)
  BY <1>1, <1>4
<1>7. ASSUME cps[center].fromBlock <= number
      PROVE  i >= center
  BY <1>3, <1>4, <1>5, <1>7 DEF IsLast
<1>8. ASSUME NEW j \in lower .. upper, center < j, cps[center].fromBlock = number
      PROVE  ~ cps[j].fromBlock <= number
  BY <1>2, <1>5, <1>6, <1>8, OrderedApart
<1>9. ASSUME NEW j \in lower .. upper, center <= j, number < cps[center].fromBlock
      PROVE  ~ cps[j].fromBlock <= number
  <2>1. CASE center = j
    BY <1>2, <1>5, <1>9, <2>1
  <2>2. CASE center < j
    <3>1. cps[center].fromBlock < cps[j].fromBlock
      BY <1>5, <1>6, <2>2, OrderedApart
    <3>2. cps[center].fromBlock \in Nat /\ cps[j].fromBlock \in Nat
      BY <1>2, <1>5, <1>6
    <3>3. QED
      BY <1>9, <3>1, <3>2
  <2>3. QED
    BY <1>4, <1>9, <2>1, <2>2
<1>10. ASSUME cps[center].fromBlock = number PROVE i = center
  <2>1. i >= center
    BY <1>2, <1>5, <1>7, <1>10
  <2>2. i # lower
    BY <1>3, <1>4, <1>5, <2>1
  <2>3. cps[i].fromBlock <= number
    BY <2>2 DEF IsLast
  <2>4. QED
    BY <1>4, <1>5, <1>8, <1>10, <2>1, <2>3
<1>11. ASSUME cps[center].fromBlock < number PROVE IsLast(cps, number, center, upper, i)
  <2>1. i >= center
    BY <1>2, <1>5, <1>7, <1>11
  <2>2. i # lower
    BY <1>3, <1>4, <1>5, <2>1
  <2>3. cps[i].fromBlock <= number
    BY <2>2 DEF IsLast
  <2>4. i \in center .. upper
    BY <1>4, <1>5, <2>1
  <2>5. \A j \in center .. upper : j \in lower .. upper
    BY <1>3, <1>4
  <2>6. QED
    BY <2>3, <2>4, <2>5 DEF IsLast
<1>12. ASSUME ~ cps[center].fromBlock = number, ~ cps[center].fromBlock < number
       PROVE  IsLast(cps, number, lower, center - 1, i)
  <2>1. number < cps[center].fromBlock
    BY <1>2, <1>5, <1>12
  <2>2. i < center
    <3>1. SUFFICES ASSUME center <= i PROVE FALSE
      BY <1>4, <1>5
    <3>2. ~ cps[i].fromBlock <= number
      BY <1>5, <1>9, <2>1, <3>1
    <3>3. i # lower
      BY <1>3, <1>4, <1>5, <3>1
    <3>4. QED
      BY <3>2, <3>3 DEF IsLast
  <2>3. i \in lower .. center - 1
    BY <1>4, <1>5, <2>2
  <2>4. \A j \in lower .. center - 1 : j \in lower .. upper
    BY <1>3, <1>4
  <2>5. QED
    BY <2>3, <2>4 DEF IsLast
<1>13. QED
  BY <1>3, <1>10, <1>11, <1>12 DEF center

\* There is but one last checkpoint, and in a range of one it is that one.
LEMMA LastIsOne ==
  ASSUME NEW cps, NEW number, NEW lower \in Nat, NEW upper \in Nat,
         NEW i, NEW j, IsLast(cps, number, lower, upper, i), IsLast(cps, number, lower, upper, j)
  PROVE  i = j /\ (lower = upper => i = lower)
<1>1. i \in lower .. upper /\ j \in lower .. upper /\ i \in Nat /\ j \in Nat
  BY DEF IsLast
<1>2. CASE i = lower /\ j = lower
  BY <1>1, <1>2
<1>3. CASE i # lower
  <2>1. cps[i].fromBlock <= number
    BY <1>3 DEF IsLast
  <2>2. i <= j /\ lower < i
    BY <1>1, <1>3, <2>1 DEF IsLast
  <2>3. j # lower /\ cps[j].fromBlock <= number
    BY <1>1, <2>2 DEF IsLast
  <2>4. QED
    BY <1>1, <2>2, <2>3 DEF IsLast
<1>4. CASE j # lower
  <2>1. cps[j].fromBlock <= number
    BY <1>4 DEF IsLast
  <2>2. j <= i /\ lower < j
    BY <1>1, <1>4, <2>1 DEF IsLast
  <2>3. i # lower /\ cps[i].fromBlock <= number
    BY <1>1, <2>2 DEF IsLast
  <2>4. QED
    BY <1>1, <2>2, <2>3 DEF IsLast
<1>5. QED
  BY <1>2, <1>3, <1>4

\* The recursion has a solution: the votes of the last checkpoint of each range.
LEMMA SearchExists ==
  ASSUME NEW now, NEW cps, Ordered(cps, now), NEW number \in Nat
  PROVE  \E search : Searches(cps, number, search)
<1> DEFINE last(range) == CHOOSE i : IsLast(cps, number, range[1], range[2], i)
           found(range) == IF range[1] >= range[2] THEN cps[range[1]].votes ELSE cps[last(range)].votes
           search == [range \in (DOMAIN cps) \X (DOMAIN cps) |-> found(range)]
<1>1. Len(cps) \in Nat /\ DOMAIN cps = 1 .. Len(cps)
  BY DEF Ordered
<1>2. ASSUME NEW lower \in 1 .. Len(cps), NEW upper \in 1 .. Len(cps),
             NEW i, IsLast(cps, number, lower, upper, i)
      PROVE  search[<< lower, upper >>] = cps[i].votes
  <2>1. lower \in Nat /\ upper \in Nat
    BY <1>1
  <2>2. search[<< lower, upper >>] = found(<< lower, upper >>)
    <3> HIDE DEF found
    <3>1. << lower, upper >> \in (DOMAIN cps) \X (DOMAIN cps)
      BY <1>1
    <3>2. QED
      BY <3>1
  <2>3. lower <= upper
    BY <1>1, <1>2 DEF IsLast
  <2>4. CASE lower = upper
    <3>1. i = lower
      BY <1>2, <2>1, <2>4, LastIsOne
    <3>2. QED
      BY <2>1, <2>2, <2>4, <3>1
  <2>5. CASE lower < upper
    <3>1. IsLast(cps, number, lower, upper, last(<< lower, upper >>))
      BY <1>2
    <3> HIDE DEF last
    <3>2. last(<< lower, upper >>) = i
      BY <1>2, <2>1, <3>1, LastIsOne
    <3>3. found(<< lower, upper >>) = cps[last(<< lower, upper >>)].votes
      BY <2>1, <2>5
    <3>4. QED
      BY <2>2, <3>2, <3>3
  <2>6. QED
    BY <2>1, <2>3, <2>4, <2>5
<1>3. ASSUME NEW lower \in 1 .. Len(cps), NEW upper \in 1 .. Len(cps)
      PROVE  search[<< lower, upper >>] = Round(cps, number, search, << lower, upper >>)
  <2> DEFINE center == upper - (upper - lower) \div 2
  <2>1. lower \in Nat /\ upper \in Nat
    BY <1>1
  <2>2. search[<< lower, upper >>] = found(<< lower, upper >>)
    <3> HIDE DEF found
    <3>1. << lower, upper >> \in (DOMAIN cps) \X (DOMAIN cps)
      BY <1>1
    <3>2. QED
      BY <3>1
  <2>3. CASE lower >= upper
    BY <2>2, <2>3 DEF Round
  <2>4. CASE ~ lower >= upper
    <3> HIDE DEF found
    <3>1. PICK i \in lower .. upper : IsLast(cps, number, lower, upper, i)
      <4>1. lower <= upper
        BY <2>1, <2>4
      <4>2. QED
        BY <2>1, <4>1, LastExists
    <3>2. search[<< lower, upper >>] = cps[i].votes
      BY <1>2, <3>1
    <3>3. /\ center \in (lower + 1) .. upper
          /\ cps[center].fromBlock = number => i = center
          /\ cps[center].fromBlock < number => IsLast(cps, number, center, upper, i)
          /\ ~ cps[center].fromBlock = number /\ ~ cps[center].fromBlock < number =>
               IsLast(cps, number, lower, center - 1, i)
      BY <2>1, <2>4, <3>1, RoundHalves
    <3> HIDE DEF search
    <3>4. Round(cps, number, search, << lower, upper >>) =
            IF cps[center].fromBlock = number THEN cps[center].votes
            ELSE IF cps[center].fromBlock < number THEN search[<< center, upper >>]
            ELSE search[<< lower, center - 1 >>]
      BY <2>4 DEF Round
    <3> HIDE DEF center
    <3>5. center \in 1 .. Len(cps) /\ (center - 1) \in 1 .. Len(cps)
      BY <1>1, <2>1, <3>3
    <3>6. QED
      BY <1>2, <3>2, <3>3, <3>4, <3>5
  <2>5. QED
    BY <2>3, <2>4
<1>4. search = [range \in (DOMAIN cps) \X (DOMAIN cps) |-> Round(cps, number, search, range)]
  <2> HIDE DEF found
  <2>1. \A range \in (DOMAIN cps) \X (DOMAIN cps) : search[range] = Round(cps, number, search, range)
    <3> HIDE DEF search
    <3>1. \A range \in (DOMAIN cps) \X (DOMAIN cps) : \E lower, upper \in 1 .. Len(cps) : range = << lower, upper >>
      BY <1>1
    <3>2. QED
      BY <1>3, <3>1
  <2>2. search = [range \in (DOMAIN cps) \X (DOMAIN cps) |-> search[range]]
    OBVIOUS
  <2> HIDE DEF search
  <2>3. QED
    BY <2>1, <2>2
<1>5. QED
  BY <1>4 DEF Searches

\* Whatever solves the recursion finds the last checkpoint.
LEMMA SearchFinds ==
  ASSUME NEW now, NEW cps, Ordered(cps, now), NEW number \in Nat,
         NEW search, Searches(cps, number, search),
         NEW lower \in 1 .. Len(cps), NEW upper \in 1 .. Len(cps),
         NEW i, IsLast(cps, number, lower, upper, i)
  PROVE  search[<< lower, upper >>] = cps[i].votes
<1> DEFINE Missed(lo, up) == \E k : /\ IsLast(cps, number, lo, up, k)
                                    /\ search[<< lo, up >>] # cps[k].votes
           T == {n \in Nat : \E lo, up \in 1 .. Len(cps) : lo <= up /\ up - lo = n /\ Missed(lo, up)}
<1>1. Len(cps) \in Nat /\ DOMAIN cps = 1 .. Len(cps)
  BY DEF Ordered
<1>2. T = {}
  <2>1. SUFFICES ASSUME T # {} PROVE FALSE
    OBVIOUS
  <2>2. PICK n \in T : \A m \in T : ~ m < n
    <3>1. T \in SUBSET Nat
      OBVIOUS
    <3> HIDE DEF T
    <3>2. QED
      BY <2>1, <3>1, LeastElement
  <2>3. PICK lo \in 1 .. Len(cps), up \in 1 .. Len(cps) : lo <= up /\ up - lo = n /\ Missed(lo, up)
    OBVIOUS
  <2>4. PICK k : IsLast(cps, number, lo, up, k) /\ search[<< lo, up >>] # cps[k].votes
    BY <2>3
  <2> DEFINE center == up - (up - lo) \div 2
  <2>5. lo \in Nat /\ up \in Nat
    BY <1>1
  <2>6. ASSUME NEW l \in 1 .. Len(cps), NEW u \in 1 .. Len(cps), l <= u, u - l < up - lo, IsLast(cps, number, l, u, k)
        PROVE  search[<< l, u >>] = cps[k].votes
    <3>1. u - l \in Nat
      BY <1>1, <2>6
    <3>2. u - l \notin T
      <4> HIDE DEF T
      <4>1. QED
        BY <2>2, <2>3, <2>6
    <3>3. QED
      BY <2>6, <3>1, <3>2
  <2>7. search[<< lo, up >>] = Round(cps, number, search, << lo, up >>)
    <3>1. << lo, up >> \in (DOMAIN cps) \X (DOMAIN cps)
      BY <1>1
    <3>2. QED
      BY <3>1 DEF Searches
  <2>8. CASE lo = up
    <3>1. k = lo
      BY <2>4, <2>5, <2>8, LastIsOne
    <3>2. QED
      BY <2>4, <2>5, <2>7, <2>8, <3>1 DEF Round
  <2>9. CASE lo < up
    <3>1. /\ center \in (lo + 1) .. up
          /\ cps[center].fromBlock = number => k = center
          /\ cps[center].fromBlock < number => IsLast(cps, number, center, up, k)
          /\ ~ cps[center].fromBlock = number /\ ~ cps[center].fromBlock < number =>
               IsLast(cps, number, lo, center - 1, k)
      BY <2>4, <2>9, RoundHalves
    <3>2. Round(cps, number, search, << lo, up >>) =
            IF cps[center].fromBlock = number THEN cps[center].votes
            ELSE IF cps[center].fromBlock < number THEN search[<< center, up >>]
            ELSE search[<< lo, center - 1 >>]
      BY <2>5, <2>9 DEF Round
    <3> HIDE DEF center, T, Missed
    <3>3. /\ center \in 1 .. Len(cps) /\ center - 1 \in 1 .. Len(cps) /\ lo <= center - 1 /\ center <= up
          /\ up - center < up - lo /\ (center - 1) - lo < up - lo
      BY <1>1, <2>5, <3>1
    <3>4. QED
      BY <2>4, <2>6, <2>7, <3>1, <3>2, <3>3
  <2>10. QED
    BY <2>3, <2>5, <2>8, <2>9
<1>3. upper - lower \in Nat /\ lower <= upper
  BY <1>1 DEF IsLast
<1>4. QED
  BY <1>2, <1>3

\* What an account had in votes at the end of a block: those of its last
\* checkpoint not after that block.
Tells(cps, number, votes) ==
  \/ /\ \A i \in 1 .. Len(cps) : number < cps[i].fromBlock
     /\ votes = 0
  \/ \E i \in 1 .. Len(cps) :
       /\ cps[i].fromBlock <= number
       /\ \A j \in 1 .. Len(cps) : cps[j].fromBlock <= number => j <= i
       /\ votes = cps[i].votes

\* The binary search of getPriorVotes, its shortcuts included, finds them
\* among however many checkpoints.
THEOREM PriorVotesFound ==
  ASSUME NEW now, NEW cps, Ordered(cps, now), NEW number \in Nat, NEW votes, Tells(cps, number, votes)
  PROVE  getPriorVotes(cps, number) = votes
<1>1. Len(cps) \in Nat /\ DOMAIN cps = 1 .. Len(cps) /\ \A k \in 1 .. Len(cps) : cps[k] \in Checkpoint
  BY DEF Ordered
<1>2. \A k \in 1 .. Len(cps) : cps[k].fromBlock \in Nat
  BY <1>1 DEF Checkpoint
<1>3. cps = NoCheckpoints <=> Len(cps) = 0
  BY DEF Ordered, NoCheckpoints
<1>4. CASE cps = NoCheckpoints
  BY <1>1, <1>3, <1>4 DEF getPriorVotes, Tells
<1>5. CASE cps # NoCheckpoints /\ cps[Len(cps)].fromBlock <= number
  <2>1. Len(cps) \in 1 .. Len(cps)
    BY <1>1, <1>3, <1>5
  <2>2. votes = cps[Len(cps)].votes
    <3>1. ~ number < cps[Len(cps)].fromBlock
      BY <1>2, <1>5, <2>1
    <3>2. PICK i \in 1 .. Len(cps) : /\ \A j \in 1 .. Len(cps) : cps[j].fromBlock <= number => j <= i
                                     /\ votes = cps[i].votes
      BY <2>1, <3>1 DEF Tells
    <3>3. Len(cps) <= i
      BY <1>5, <2>1, <3>2
    <3>4. i = Len(cps)
      <4>1. Len(cps) \in Nat
        BY <1>1
      <4>2. QED
        BY <3>3, <4>1
    <3>5. QED
      BY <3>2, <3>4
  <2>3. QED
    BY <1>5, <2>2 DEF getPriorVotes
<1>6. CASE cps # NoCheckpoints /\ ~ cps[Len(cps)].fromBlock <= number /\ cps[1].fromBlock > number
  <2>1. 1 \in 1 .. Len(cps)
    BY <1>1, <1>3, <1>6
  <2>2. \A i \in 1 .. Len(cps) : ~ cps[i].fromBlock <= number
    <3>1. SUFFICES ASSUME NEW i \in 1 .. Len(cps), i # 1 PROVE ~ cps[i].fromBlock <= number
      BY <1>2, <1>6, <2>1
    <3>2. 1 < i
      BY <1>1, <3>1
    <3>3. cps[1].fromBlock < cps[i].fromBlock
      BY <2>1, <3>2, OrderedApart
    <3>4. QED
      BY <1>2, <1>6, <2>1, <3>3
  <2>3. votes = 0
    BY <2>2 DEF Tells
  <2>4. QED
    BY <1>6, <2>3 DEF getPriorVotes
<1>7. CASE cps # NoCheckpoints /\ ~ cps[Len(cps)].fromBlock <= number /\ ~ cps[1].fromBlock > number
  <2> DEFINE search == CHOOSE search : Searches(cps, number, search)
  <2>1. 1 \in 1 .. Len(cps) /\ Len(cps) \in 1 .. Len(cps)
    BY <1>1, <1>3, <1>7
  <2>2. ~ number < cps[1].fromBlock
    BY <1>2, <1>7, <2>1
  <2>3. PICK i \in 1 .. Len(cps) : /\ cps[i].fromBlock <= number
                                   /\ \A j \in 1 .. Len(cps) : cps[j].fromBlock <= number => j <= i
                                   /\ votes = cps[i].votes
    BY <2>1, <2>2 DEF Tells
  <2>4. IsLast(cps, number, 1, Len(cps), i)
    BY <2>3 DEF IsLast
  <2>5. Searches(cps, number, search)
    BY SearchExists
  <2>6. getPriorVotes(cps, number) = search[<< 1, Len(cps) >>]
    BY <1>7, SearchUnfolds
  <2> HIDE DEF search
  <2>7. QED
    BY <2>1, <2>3, <2>4, <2>5, <2>6, SearchFinds
<1>8. QED
  BY <1>4, <1>5, <1>6, <1>7

-----------------------------------------------------------------------------
(* Checkpoints and what is delegated *)

\* The last checkpoint tells of now.
LEMMA CurrentTells ==
  ASSUME NEW now \in Nat, NEW cps, Ordered(cps, now)
  PROVE  Tells(cps, now, currentVotes(cps))
<1>1. Len(cps) \in Nat /\ \A i \in 1 .. Len(cps) : cps[i].fromBlock <= now
  BY DEF Ordered
<1>2. cps = NoCheckpoints <=> Len(cps) = 0
  BY DEF Ordered, NoCheckpoints
<1>3. CASE cps = NoCheckpoints
  BY <1>1, <1>2, <1>3 DEF Tells, currentVotes
<1>4. CASE cps # NoCheckpoints
  <2>1. Len(cps) \in 1 .. Len(cps) /\ \A j \in 1 .. Len(cps) : j <= Len(cps)
    BY <1>1, <1>2, <1>4
  <2>2. currentVotes(cps) = cps[Len(cps)].votes
    BY <1>4 DEF currentVotes
  <2>3. QED
    BY <1>1, <2>1, <2>2 DEF Tells
<1>5. QED
  BY <1>3, <1>4

\* Writing a checkpoint sets the votes of now and leaves those of the past.
LEMMA WriteTells ==
  ASSUME NEW now \in Nat, NEW cps, Ordered(cps, now), NEW votes \in Nat
  PROVE  /\ currentVotes(writeCheckpoint(cps, now, votes)) = votes
         /\ \A n \in Nat : \A v : n < now /\ Tells(cps, n, v) => Tells(writeCheckpoint(cps, now, votes), n, v)
<1> DEFINE new == [fromBlock |-> now, votes |-> votes]
           w == writeCheckpoint(cps, now, votes)
<1>1. cps \in Seq(Checkpoint) /\ Len(cps) \in Nat /\ new \in Checkpoint /\ new.fromBlock = now /\ new.votes = votes
  BY DEF Ordered, Checkpoint
<1>2. \A i \in 1 .. Len(cps) : cps[i] \in Checkpoint /\ cps[i].fromBlock \in Nat
  <2>1. \A i \in 1 .. Len(cps) : cps[i] \in Checkpoint
    BY <1>1
  <2>2. QED
    BY <2>1 DEF Checkpoint
<1>3. cps = << >> <=> Len(cps) = 0
  BY <1>1
<1>4. CASE cps # << >> /\ cps[Len(cps)].fromBlock = now
  <2>1. Len(cps) \in 1 .. Len(cps)
    BY <1>1, <1>3, <1>4
  <2>2. [cps[Len(cps)] EXCEPT !.votes = votes] = new
    BY <1>2, <1>4, <2>1 DEF Checkpoint
  <2>3. w = [cps EXCEPT ![Len(cps)] = new]
    BY <1>4, <2>2 DEF writeCheckpoint, NoCheckpoints
  <2> HIDE DEF new, w
  <2>4. w \in Seq(Checkpoint) /\ Len(w) = Len(cps) /\ w[Len(cps)] = new
        /\ \A i \in 1 .. Len(cps) : i # Len(cps) => w[i] = cps[i]
    BY <1>1, <2>1, <2>3
  <2>5. currentVotes(w) = votes
    <3>1. w # << >>
      BY <1>1, <1>3, <1>4, <2>4
    <3>2. QED
      BY <1>1, <2>4, <3>1 DEF currentVotes, NoCheckpoints
  <2>6. \A i \in 1 .. Len(cps) : w[i].fromBlock = cps[i].fromBlock
    BY <1>1, <1>4, <2>4
  <2>7. ASSUME NEW n \in Nat, NEW v, n < now, Tells(cps, n, v) PROVE Tells(w, n, v)
    <3>1. ~ cps[Len(cps)].fromBlock <= n
      BY <1>4, <2>7
    <3>2. CASE \A i \in 1 .. Len(cps) : n < cps[i].fromBlock /\ v = 0
      <4>1. v = 0
        BY <2>1, <3>2
      <4>2. QED
        BY <2>4, <2>6, <3>2, <4>1 DEF Tells
    <3>3. CASE \E i \in 1 .. Len(cps) : /\ cps[i].fromBlock <= n
                                        /\ \A j \in 1 .. Len(cps) : cps[j].fromBlock <= n => j <= i
                                        /\ v = cps[i].votes
      <4>1. PICK i \in 1 .. Len(cps) : /\ cps[i].fromBlock <= n
                                       /\ \A j \in 1 .. Len(cps) : cps[j].fromBlock <= n => j <= i
                                       /\ v = cps[i].votes
        BY <3>3
      <4>2. w[i] = cps[i]
        BY <2>4, <3>1, <4>1
      <4>3. \A j \in 1 .. Len(w) : w[j].fromBlock <= n => j <= i
        BY <2>4, <2>6, <4>1
      <4>4. i \in 1 .. Len(w) /\ w[i].fromBlock <= n /\ v = w[i].votes
        BY <2>4, <4>1, <4>2
      <4>5. QED
        BY <4>3, <4>4 DEF Tells
    <3>4. QED
      BY <2>7, <3>2, <3>3 DEF Tells
  <2>8. QED
    BY <2>5, <2>7 DEF w
<1>5. CASE cps = << >> \/ cps[Len(cps)].fromBlock # now
  <2>1. w = Append(cps, new)
    BY <1>5 DEF writeCheckpoint, NoCheckpoints
  <2> HIDE DEF new, w
  <2>2. w \in Seq(Checkpoint) /\ Len(w) = Len(cps) + 1 /\ w[Len(cps) + 1] = new
        /\ \A i \in 1 .. Len(cps) : w[i] = cps[i]
    BY <1>1, <2>1
  <2>3. currentVotes(w) = votes
    <3>1. w # << >>
      BY <1>1, <2>2
    <3>2. QED
      BY <1>1, <2>2, <3>1 DEF currentVotes, NoCheckpoints
  <2>4. \A j \in 1 .. Len(w) : j \in 1 .. Len(cps) \/ w[j].fromBlock = now
    <3>1. \A j \in 1 .. Len(w) : j \in 1 .. Len(cps) \/ j = Len(cps) + 1
      BY <1>1, <2>2
    <3>2. QED
      BY <1>1, <2>2, <3>1
  <2>5. \A j \in 1 .. Len(cps) : j \in 1 .. Len(w)
    BY <1>1, <2>2
  <2>6. ASSUME NEW n \in Nat, NEW v, n < now, Tells(cps, n, v) PROVE Tells(w, n, v)
    <3>1. CASE (\A i \in 1 .. Len(cps) : n < cps[i].fromBlock) /\ v = 0
      BY <2>2, <2>4, <2>6, <3>1 DEF Tells
    <3>2. CASE \E i \in 1 .. Len(cps) : /\ cps[i].fromBlock <= n
                                        /\ \A j \in 1 .. Len(cps) : cps[j].fromBlock <= n => j <= i
                                        /\ v = cps[i].votes
      <4>1. PICK i \in 1 .. Len(cps) : /\ cps[i].fromBlock <= n
                                       /\ \A j \in 1 .. Len(cps) : cps[j].fromBlock <= n => j <= i
                                       /\ v = cps[i].votes
        BY <3>2
      <4>2. \A j \in 1 .. Len(w) : w[j].fromBlock <= n => j <= i
        BY <2>2, <2>4, <2>6, <4>1
      <4>3. i \in 1 .. Len(w) /\ w[i].fromBlock <= n /\ v = w[i].votes
        BY <2>2, <2>5, <4>1
      <4>4. QED
        BY <4>2, <4>3 DEF Tells
    <3>3. QED
      BY <2>6, <3>1, <3>2 DEF Tells
  <2>7. QED
    BY <2>3, <2>6 DEF w
<1>6. QED
  BY <1>4, <1>5

\* What an account loses, or gains, when a delegate's votes move, and what it
\* has then.
Loss(a, srcRep, amount) == IF a = srcRep THEN amount ELSE 0

Shift(votes, a, srcRep, dstRep, amount) == votes - Loss(a, srcRep, amount) + Loss(a, dstRep, amount)

\* A move takes from one delegate what it gives to the other, as of now.
LEMMA MoveTells ==
  ASSUME NEW now \in Nat, NEW cp, DOMAIN cp = Accounts, \A a \in Accounts : Ordered(cp[a], now),
         NEW srcRep \in Accounts \cup {Nobody}, NEW dstRep \in Accounts \cup {Nobody},
         NEW amount \in Nat, canMove(cp, srcRep, dstRep, amount), NEW a \in Accounts
  PROVE  LET moved == moveDelegates(cp, srcRep, dstRep, amount, now)
         IN /\ currentVotes(moved[a]) = Shift(currentVotes(cp[a]), a, srcRep, dstRep, amount)
            /\ \A n \in Nat : \A v : n < now /\ Tells(cp[a], n, v) => Tells(moved[a], n, v)
<1> DEFINE less == writeCheckpoint(cp[srcRep], now, currentVotes(cp[srcRep]) - amount)
           without == IF srcRep = Nobody THEN cp ELSE [cp EXCEPT ![srcRep] = less]
           more == writeCheckpoint(without[dstRep], now, currentVotes(without[dstRep]) + amount)
           with == IF dstRep = Nobody THEN without ELSE [without EXCEPT ![dstRep] = more]
           Past(old, new) == \A n \in Nat : \A v : n < now /\ Tells(old, n, v) => Tells(new, n, v)
<1>1. moveDelegates(cp, srcRep, dstRep, amount, now) = IF srcRep = dstRep \/ amount = 0 THEN cp ELSE with
  BY DEF moveDelegates
<1>2. Nobody \notin Accounts /\ currentVotes(cp[a]) \in Nat
  BY NobodyHolds, CurrentVotesType
<1>3. ASSUME srcRep # dstRep
      PROVE  \A b \in Accounts : /\ Ordered(without[b], now)
                                 /\ currentVotes(without[b]) = currentVotes(cp[b]) - Loss(b, srcRep, amount)
                                 /\ Past(cp[b], without[b])
  <2>0. DOMAIN without = Accounts /\ \A b \in Accounts : currentVotes(cp[b]) \in Nat
    BY CurrentVotesType
  <2>1. SUFFICES ASSUME NEW b \in Accounts
                 PROVE  /\ Ordered(without[b], now)
                        /\ currentVotes(without[b]) = currentVotes(cp[b]) - Loss(b, srcRep, amount)
                        /\ Past(cp[b], without[b])
    BY Zenon
  <2>2. CASE b # srcRep
    <3>1. without[b] = cp[b] /\ Loss(b, srcRep, amount) = 0
      BY <2>2 DEF Loss
    <3> HIDE DEF without
    <3>2. QED
      BY <2>0, <3>1
  <2>3. CASE b = srcRep
    <3>1. amount <= currentVotes(cp[b])
      BY <1>2, <1>3, <2>3 DEF canMove
    <3>2. currentVotes(cp[b]) - amount \in Nat
      BY <2>0, <3>1
    <3>3. Ordered(less, now) /\ currentVotes(less) = currentVotes(cp[b]) - amount /\ Past(cp[b], less)
      BY <2>3, <3>2, WriteKeepsOrder, WriteTells
    <3>4. without[b] = less /\ Loss(b, srcRep, amount) = amount
      BY <1>2, <2>3 DEF Loss
    <3> HIDE DEF without, less
    <3>5. QED
      BY <3>3, <3>4
  <2>4. QED
    BY <2>2, <2>3
<1>4. DOMAIN without = Accounts
  OBVIOUS
<1> HIDE DEF without
<1>5. ASSUME srcRep # dstRep
      PROVE  /\ currentVotes(with[a]) = currentVotes(cp[a]) - Loss(a, srcRep, amount) + Loss(a, dstRep, amount)
             /\ Past(cp[a], with[a])
  <2>1. /\ Ordered(without[a], now) /\ currentVotes(without[a]) \in Nat
        /\ currentVotes(without[a]) = currentVotes(cp[a]) - Loss(a, srcRep, amount)
        /\ Past(cp[a], without[a])
    BY <1>3, <1>5, CurrentVotesType
  <2>2. CASE a # dstRep
    <3>1. with[a] = without[a] /\ Loss(a, dstRep, amount) = 0
      BY <2>2 DEF Loss
    <3> HIDE DEF with, Past
    <3>2. QED
      BY <2>1, <3>1
  <2>3. CASE a = dstRep
    <3>1. currentVotes(without[a]) + amount \in Nat
      BY <2>1
    <3>2. currentVotes(more) = currentVotes(without[a]) + amount /\ Past(without[a], more)
      BY <2>1, <2>3, <3>1, WriteTells
    <3>3. with[a] = more /\ Loss(a, dstRep, amount) = amount
      BY <1>2, <1>4, <2>3 DEF Loss
    <3> HIDE DEF with, more
    <3>4. Past(cp[a], more)
      BY <2>1, <3>2
    <3> HIDE DEF Past
    <3>5. QED
      BY <2>1, <3>2, <3>3, <3>4
  <2>4. QED
    BY <2>2, <2>3
<1> HIDE DEF with
<1>6. CASE srcRep = dstRep \/ amount = 0
  <2>1. moveDelegates(cp, srcRep, dstRep, amount, now) = cp
    BY <1>1, <1>6
  <2>2. Loss(a, srcRep, amount) = Loss(a, dstRep, amount) /\ Loss(a, srcRep, amount) \in Nat
    BY <1>6 DEF Loss
  <2>3. QED
    BY <1>2, <2>1, <2>2 DEF Shift
<1>7. CASE ~ (srcRep = dstRep \/ amount = 0)
  <2>1. moveDelegates(cp, srcRep, dstRep, amount, now) = with
    BY <1>1, <1>7
  <2>2. QED
    BY <1>5, <1>7, <2>1 DEF Shift
<1>8. QED
  BY <1>6, <1>7

\* What is delegated to an account, by balances and delegates
Delegated(balances, delegates, account) ==
  SumFunctionOnSet(balances, {a \in Accounts : delegates[a] = account})

\* Votes are counted in naturals.
LEMMA DelegatedNat ==
  ASSUME NEW balances, \A a \in Accounts : balances[a] \in Nat, NEW delegates, NEW account
  PROVE  Delegated(balances, delegates, account) \in Nat
<1>1. IsFiniteSet({a \in Accounts : delegates[a] = account})
  BY GovernorConstants, FS_Subset
<1>2. QED
  BY <1>1, SumNat DEF Delegated

\* A balance that changes changes what is delegated to the holder's delegate.
LEMMA BalanceMoves ==
  ASSUME NEW balances, \A a \in Accounts : balances[a] \in Nat, NEW delegates, NEW holder \in Accounts,
         NEW changed, \A a \in Accounts : changed[a] \in Nat,
         \A a \in Accounts \ {holder} : changed[a] = balances[a],
         NEW account
  PROVE  Delegated(changed, delegates, account)
           = IF delegates[holder] = account
             THEN Delegated(balances, delegates, account) - balances[holder] + changed[holder]
             ELSE Delegated(balances, delegates, account)
<1> DEFINE S == {a \in Accounts : delegates[a] = account}
<1>1. IsFiniteSet(S)
  BY GovernorConstants, FS_Subset
<1>2. \A a \in S : balances[a] \in Int /\ changed[a] \in Int
  <2>1. \A a \in S : balances[a] \in Nat /\ changed[a] \in Nat
    OBVIOUS
  <2>2. ASSUME NEW a \in S PROVE balances[a] \in Int /\ changed[a] \in Int
    BY <2>1
  <2>3. QED
    BY <2>2, Zenon
<1>3. CASE delegates[holder] = account
  <2>1. holder \in S /\ \A a \in S \ {holder} : changed[a] = balances[a]
    BY <1>3
  <2> HIDE DEF S
  <2>2. SumFunctionOnSet(changed, S) = SumFunctionOnSet(balances, S) - balances[holder] + changed[holder]
    BY <1>1, <1>2, <2>1, SumChange
  <2>3. QED
    BY <1>3, <2>2 DEF Delegated, S
<1>4. CASE delegates[holder] # account
  <2>1. \A a \in S : changed[a] = balances[a]
    BY <1>4
  <2> HIDE DEF S
  <2>2. SumFunctionOnSet(changed, S) = SumFunctionOnSet(balances, S)
    BY <1>1, <2>1, SumSame
  <2>3. QED
    BY <1>4, <2>2 DEF Delegated, S
<1>5. QED
  BY <1>3, <1>4

\* One holder, and no other, chose another delegate.
Redelegated(old, new, holder) ==
  old[holder] # new[holder] /\ \A a \in Accounts \ {holder} : new[a] = old[a]

\* A holder who chooses another delegate takes the balance there.
LEMMA DelegateMoves ==
  ASSUME NEW balances, \A a \in Accounts : balances[a] \in Nat,
         NEW delegates, NEW changed, NEW holder \in Accounts, Redelegated(delegates, changed, holder),
         NEW account
  PROVE  Delegated(balances, changed, account)
           = Shift(Delegated(balances, delegates, account), account,
                   delegates[holder], changed[holder], balances[holder])
<1> DEFINE S == {a \in Accounts : delegates[a] = account}
           T == {a \in Accounts : changed[a] = account}
<1>1. IsFiniteSet(S) /\ IsFiniteSet(T)
  BY GovernorConstants, FS_Subset
<1> DEFINE delegatee == changed[holder]
<1>2. /\ changed[holder] = delegatee /\ \A a \in Accounts \ {holder} : changed[a] = delegates[a]
      /\ delegatee # delegates[holder]
  BY DEF Redelegated
<1>3. balances[holder] \in Nat /\ \A a \in Accounts : balances[a] \in Int
  OBVIOUS
<1>4. SumFunctionOnSet(balances, S) \in Int /\ SumFunctionOnSet(balances, T) \in Int
  BY <1>1, <1>3, SumType
<1>5. CASE account = delegates[holder]
  <2>1. holder \in S /\ T = S \ {holder}
    BY <1>2, <1>5
  <2>2. SumFunctionOnSet(balances, S) = balances[holder] + SumFunctionOnSet(balances, S \ {holder})
    BY <1>1, <1>3, <2>1, SumSplit
  <2>3. Loss(account, delegates[holder], balances[holder]) = balances[holder]
        /\ Loss(account, delegatee, balances[holder]) = 0
    BY <1>2, <1>5 DEF Loss
  <2>4. Delegated(balances, delegates, account) = SumFunctionOnSet(balances, S)
        /\ Delegated(balances, changed, account) = SumFunctionOnSet(balances, T)
    BY DEF Delegated
  <2> HIDE DEF S, T
  <2>5. Delegated(balances, changed, account) = Delegated(balances, delegates, account) - balances[holder] + 0
    BY <1>3, <1>4, <2>1, <2>2, <2>4
  <2>6. QED
    BY <2>3, <2>5 DEF Shift
<1>6. CASE account # delegates[holder] /\ account = delegatee
  <2>1. holder \in T /\ S = T \ {holder}
    BY <1>2, <1>6
  <2>2. SumFunctionOnSet(balances, T) = balances[holder] + SumFunctionOnSet(balances, T \ {holder})
    BY <1>1, <1>3, <2>1, SumSplit
  <2>3. Loss(account, delegates[holder], balances[holder]) = 0
        /\ Loss(account, delegatee, balances[holder]) = balances[holder]
    BY <1>6 DEF Loss
  <2>4. Delegated(balances, delegates, account) = SumFunctionOnSet(balances, S)
        /\ Delegated(balances, changed, account) = SumFunctionOnSet(balances, T)
    BY DEF Delegated
  <2> HIDE DEF S, T
  <2>5. Delegated(balances, changed, account) = Delegated(balances, delegates, account) - 0 + balances[holder]
    BY <1>3, <1>4, <2>1, <2>2, <2>4
  <2>6. QED
    BY <2>3, <2>5 DEF Shift
<1>7. CASE account # delegates[holder] /\ account # delegatee
  <2>1. S = T
    BY <1>2, <1>7
  <2>2. Loss(account, delegates[holder], balances[holder]) = 0
        /\ Loss(account, delegatee, balances[holder]) = 0
    BY <1>7 DEF Loss
  <2>3. Delegated(balances, delegates, account) = SumFunctionOnSet(balances, S)
        /\ Delegated(balances, changed, account) = SumFunctionOnSet(balances, T)
    BY DEF Delegated
  <2> HIDE DEF S, T
  <2>4. Delegated(balances, changed, account) = Delegated(balances, delegates, account) - 0 + 0
    BY <1>4, <2>1, <2>3
  <2>5. QED
    BY <2>2, <2>4 DEF Shift
<1>8. QED
  BY <1>5, <1>6, <1>7

\* Tokens that are paid move what is delegated from the payer's delegate to
\* the payee's.
LEMMA PaymentMoves ==
  ASSUME NEW balances, \A a \in Accounts : balances[a] \in Nat, NEW delegates,
         NEW src \in Accounts, NEW dst \in Accounts \ {src}, NEW amount \in Nat, amount <= balances[src],
         NEW received, received[src] = balances[src] - amount, received[dst] = balances[dst] + amount,
         \A a \in Accounts \ {src, dst} : received[a] = balances[a],
         NEW account
  PROVE  Delegated(received, delegates, account)
           = Shift(Delegated(balances, delegates, account), account, delegates[src], delegates[dst], amount)
<1> DEFINE paid == [a \in Accounts |-> IF a = dst THEN balances[dst] ELSE received[a]]
<1>1. /\ balances[src] \in Nat /\ balances[dst] \in Nat
      /\ balances[src] - amount \in Nat /\ balances[dst] + amount \in Nat
  OBVIOUS
<1>2. paid[dst] = balances[dst] /\ \A a \in Accounts \ {dst} : paid[a] = received[a]
  OBVIOUS
<1> HIDE DEF paid
<1>3. /\ paid[src] = balances[src] - amount /\ \A a \in Accounts \ {src} : paid[a] = balances[a]
      /\ \A a \in Accounts \ {dst} : received[a] = paid[a]
      /\ \A a \in Accounts : paid[a] \in Nat /\ received[a] \in Nat
  <2>1. paid[src] = balances[src] - amount /\ \A a \in Accounts \ {dst} : received[a] = paid[a]
    BY <1>2
  <2>2. ASSUME NEW a \in Accounts \ {src} PROVE paid[a] = balances[a]
    BY <1>2
  <2>3. ASSUME NEW a \in Accounts PROVE paid[a] \in Nat /\ received[a] \in Nat
    <3>1. a = src \/ a = dst \/ a \in Accounts \ {src, dst}
      OBVIOUS
    <3>2. QED
      BY <1>1, <1>2, <2>1, <3>1
  <2>4. QED
    BY <2>1, <2>2, <2>3
<1>4. /\ Delegated(balances, delegates, account) \in Nat
      /\ Delegated(paid, delegates, account) \in Nat
  BY <1>3, DelegatedNat
<1>5. Delegated(paid, delegates, account)
        = IF delegates[src] = account
          THEN Delegated(balances, delegates, account) - balances[src] + paid[src]
          ELSE Delegated(balances, delegates, account)
  BY <1>3, BalanceMoves
<1>6. Delegated(received, delegates, account)
        = IF delegates[dst] = account
          THEN Delegated(paid, delegates, account) - paid[dst] + received[dst]
          ELSE Delegated(paid, delegates, account)
  BY <1>3, BalanceMoves
<1>7. /\ Loss(account, delegates[src], amount) = IF delegates[src] = account THEN amount ELSE 0
      /\ Loss(account, delegates[dst], amount) = IF delegates[dst] = account THEN amount ELSE 0
  BY DEF Loss
<1>8. QED
  BY <1>1, <1>2, <1>3, <1>4, <1>5, <1>6, <1>7 DEF Shift

-----------------------------------------------------------------------------
(* Checkpoints are history *)

\* The last checkpoint of an account is what is delegated to it, and its
\* checkpoints tell what was when each past block ended.
Truthful ==
  \A a \in Accounts :
    /\ currentVotes(comp.checkpoints[a]) = Backing(a)
    /\ \A n \in 1 .. block - 1 : Tells(comp.checkpoints[a], n, history[n][a])

\* So they are when the token is deployed,
LEMMA InitTruthful ==
  ASSUME GovernanceInit
  PROVE  Truthful
<1> DEFINE chosen(d, a) == {b \in Accounts : d[b] = a /\ Genesis[b] > 0}
           first(d, a) == IF chosen(d, a) = {} THEN NoCheckpoints
                          ELSE writeCheckpoint(NoCheckpoints, 1, SumFunctionOnSet(Genesis, chosen(d, a)))
<1>1. PICK d \in FirstDelegates :
        comp = [balances |-> Genesis, delegates |-> d, checkpoints |-> [a \in Accounts |-> first(d, a)]]
  BY DEF GovernanceInit
<1>2. block = 2 /\ history = << [a \in Accounts |-> Backing(a)] >>
  BY DEF GovernanceInit
<1>3. Genesis \in [Accounts -> Nat] /\ IsFiniteSet(Accounts)
  BY GovernorConstants
<1>4. ASSUME NEW a \in Accounts
      PROVE  /\ SumFunctionOnSet(Genesis, chosen(d, a)) = Backing(a)
             /\ chosen(d, a) = {} => Backing(a) = 0
             /\ Backing(a) \in Nat
  <2> DEFINE S == {b \in Accounts : d[b] = a}
  <2>1. IsFiniteSet(S) /\ chosen(d, a) \in SUBSET S /\ \A b \in S : Genesis[b] \in Nat
    BY <1>3, FS_Subset
  <2>2. \A b \in S \ chosen(d, a) : Genesis[b] = 0
    BY <1>3
  <2>3. Backing(a) = SumFunctionOnSet(Genesis, S)
    BY <1>1 DEF Backing
  <2> HIDE DEF S, chosen
  <2>4. SumFunctionOnSet(Genesis, chosen(d, a)) = SumFunctionOnSet(Genesis, S)
    BY <2>1, <2>2, SumPart
  <2>5. SumFunctionOnSet(Genesis, S) \in Nat
    BY <2>1, SumNat
  <2>6. QED
    BY <2>3, <2>4, <2>5, SumEmpty
<1> HIDE DEF chosen
<1>5. ASSUME NEW a \in Accounts
      PROVE  currentVotes(first(d, a)) = Backing(a) /\ Tells(first(d, a), 1, Backing(a))
  <2>1. Ordered(NoCheckpoints, 1)
    BY DEF Ordered, NoCheckpoints
  <2>2. CASE chosen(d, a) = {}
    <3>1. first(d, a) = NoCheckpoints /\ currentVotes(first(d, a)) = 0
      BY <2>2 DEF currentVotes
    <3>2. QED
      BY <1>4, <2>1, <2>2, <3>1, CurrentTells
  <2>3. CASE chosen(d, a) # {}
    <3> DEFINE w == writeCheckpoint(NoCheckpoints, 1, SumFunctionOnSet(Genesis, chosen(d, a)))
    <3>1. first(d, a) = w
      BY <2>3
    <3>2. SumFunctionOnSet(Genesis, chosen(d, a)) \in Nat /\ 1 \in Nat
      BY <1>4
    <3>3. Ordered(w, 1) /\ currentVotes(w) = SumFunctionOnSet(Genesis, chosen(d, a))
      BY <2>1, <3>2, WriteKeepsOrder, WriteTells
    <3> HIDE DEF w
    <3>4. Tells(w, 1, currentVotes(w))
      BY <3>2, <3>3, CurrentTells
    <3>5. QED
      BY <1>4, <3>1, <3>3, <3>4
  <2>4. QED
    BY <2>2, <2>3
<1>6. SUFFICES ASSUME NEW a \in Accounts, NEW n \in 1 .. block - 1
               PROVE  /\ currentVotes(comp.checkpoints[a]) = Backing(a)
                      /\ Tells(comp.checkpoints[a], n, history[n][a])
  <2>1. 1 \in 1 .. block - 1
    BY <1>2
  <2>2. QED
    BY <2>1, <1>6 DEF Truthful
<1>7. n = 1 /\ history[1] = [b \in Accounts |-> Backing(b)]
  BY <1>2, <1>6
<1>8. history[n][a] = Backing(a)
  BY <1>7
<1>9. comp.checkpoints[a] = first(d, a)
  BY <1>1
<1> HIDE DEF first
<1>10. QED
  BY <1>5, <1>7, <1>8, <1>9

\* What is delegated moves from one account to another.
Follow(balances, delegates, srcRep, dstRep, amount) ==
  \A a \in Accounts : Delegated(balances, delegates, a)
                         = Shift(Delegated(comp.balances, comp.delegates, a), a, srcRep, dstRep, amount)

\* and so they stay: a move of votes goes from a delegate to another as the
\* tokens do, and a block that ends is told by the last checkpoints.
LEMMA TruthfulKept ==
  ASSUME GovernanceInv, TokenInv, Truthful, [GovernanceNext]_governanceVars
  PROVE  Truthful'
<1>1. block \in Nat
  BY DEF GovernanceInv, Contracts
<1>2. /\ comp.balances \in [Accounts -> Nat] /\ comp.delegates \in [Accounts -> Accounts \cup {Nobody}]
      /\ DOMAIN comp.checkpoints = Accounts
      /\ \A a \in Accounts : Ordered(comp.checkpoints[a], block)
      /\ history \in Seq([Accounts -> Int]) /\ Len(history) = block - 1
  BY DEF TokenInv
<1>3. CASE UNCHANGED << comp, block, history >>
  BY <1>3 DEF Truthful, Backing
<1>4. ASSUME NEW seconds \in Ticks, Mine(seconds) PROVE Truthful'
  <2> DEFINE row == [a \in Accounts |-> Backing(a)]
  <2>1. comp' = comp /\ block' = block + 1 /\ history' = Append(history, row)
    BY <1>4 DEF Mine
  <2>2. \A a \in Accounts : row[a] = Backing(a)
    OBVIOUS
  <2> HIDE DEF row
  <2>3. history'[block] = row /\ \A n \in 1 .. block - 1 : history'[n] = history[n]
    BY <1>1, <1>2, <2>1
  <2>4. \A n \in 1 .. block' - 1 : n \in 1 .. block - 1 \/ n = block
    BY <1>1, <2>1
  <2>5. ASSUME NEW a \in Accounts
        PROVE  /\ currentVotes(comp'.checkpoints[a]) = Backing(a)'
               /\ \A n \in 1 .. block' - 1 : Tells(comp'.checkpoints[a], n, history'[n][a])
    <3>1. Backing(a)' = Backing(a) /\ comp'.checkpoints[a] = comp.checkpoints[a]
      BY <2>1 DEF Backing
    <3>2. currentVotes(comp.checkpoints[a]) = Backing(a)
          /\ \A n \in 1 .. block - 1 : Tells(comp.checkpoints[a], n, history[n][a])
      BY DEF Truthful
    <3>3. Tells(comp.checkpoints[a], block, history'[block][a])
      BY <1>1, <1>2, <2>2, <2>3, <3>2, CurrentTells
    <3>4. QED
      BY <2>3, <2>4, <3>1, <3>2, <3>3
  <2>6. QED
    BY <2>5 DEF Truthful
<1>5. ASSUME NEW balances \in [Accounts -> Nat], NEW delegates \in [Accounts -> Accounts \cup {Nobody}],
             NEW srcRep \in Accounts \cup {Nobody}, NEW dstRep \in Accounts \cup {Nobody}, NEW amount \in Nat,
             canMove(comp.checkpoints, srcRep, dstRep, amount),
             comp' = [balances |-> balances, delegates |-> delegates,
                      checkpoints |-> moveDelegates(comp.checkpoints, srcRep, dstRep, amount, block)],
             Follow(balances, delegates, srcRep, dstRep, amount),
             UNCHANGED << block, history >>
      PROVE  Truthful'
  <2> DEFINE moved == moveDelegates(comp.checkpoints, srcRep, dstRep, amount, block)
  <2>1. ASSUME NEW a \in Accounts
        PROVE  /\ currentVotes(moved[a]) = Shift(currentVotes(comp.checkpoints[a]), a, srcRep, dstRep, amount)
               /\ \A n \in Nat : \A v : n < block /\ Tells(comp.checkpoints[a], n, v) => Tells(moved[a], n, v)
    BY <1>1, <1>2, <1>5, <2>1, MoveTells
  <2>2. comp'.balances = balances /\ comp'.delegates = delegates /\ comp'.checkpoints = moved
    BY <1>5
  <2> HIDE DEF moved
  <2>3. ASSUME NEW a \in Accounts
        PROVE  /\ currentVotes(comp'.checkpoints[a]) = Backing(a)'
               /\ \A n \in 1 .. block' - 1 : Tells(comp'.checkpoints[a], n, history'[n][a])
    <3>1. Backing(a)' = Delegated(balances, delegates, a)
      BY <2>2 DEF Backing, Delegated
    <3>2. Backing(a) = Delegated(comp.balances, comp.delegates, a)
      BY DEF Backing, Delegated
    <3>3. currentVotes(comp.checkpoints[a]) = Backing(a)
          /\ \A n \in 1 .. block - 1 : Tells(comp.checkpoints[a], n, history[n][a])
      BY DEF Truthful
    <3>4. \A n \in 1 .. block - 1 : n \in Nat /\ n < block
      BY <1>1
    <3>5. currentVotes(comp'.checkpoints[a]) = Backing(a)'
      BY <1>5, <2>1, <2>2, <3>1, <3>2, <3>3 DEF Follow
    <3>6. \A n \in 1 .. block - 1 : Tells(moved[a], n, history[n][a])
      BY <2>1, <3>3, <3>4
    <3>7. QED
      BY <1>5, <2>2, <3>5, <3>6
  <2>4. QED
    BY <2>3 DEF Truthful
<1>6. ASSUME NEW src \in Accounts, NEW dst \in Accounts \ {src}, NEW amount \in 1 .. comp.balances[src],
             Transfer(src, dst, amount)
      PROVE  Truthful'
  <2> DEFINE paid == [comp.balances EXCEPT ![src] = @ - amount]
             balances == [paid EXCEPT ![dst] = @ + amount]
  <2>1. amount \in Nat /\ comp.balances[src] \in Nat /\ amount <= comp.balances[src]
    BY <1>2
  <2>2. paid \in [Accounts -> Nat] /\ balances \in [Accounts -> Nat]
    <3>1. comp.balances[src] - amount \in Nat
      BY <2>1
    <3>2. paid \in [Accounts -> Nat]
      BY <1>2, <3>1
    <3> HIDE DEF paid
    <3>3. paid[dst] + amount \in Nat
      BY <2>1, <3>2
    <3>4. QED
      BY <3>2, <3>3
  <2>3. /\ comp.delegates[src] \in Accounts \cup {Nobody} /\ comp.delegates[dst] \in Accounts \cup {Nobody}
        /\ canMove(comp.checkpoints, comp.delegates[src], comp.delegates[dst], amount)
        /\ UNCHANGED << block, history >>
    BY <1>2, <1>6 DEF Transfer, canTransfer
  <2>4. comp' = [balances |-> balances, delegates |-> comp.delegates,
                 checkpoints |-> moveDelegates(comp.checkpoints, comp.delegates[src], comp.delegates[dst], amount, block)]
    BY <1>6 DEF Transfer, transferTokens
  <2>5. /\ balances[src] = comp.balances[src] - amount /\ balances[dst] = comp.balances[dst] + amount
        /\ \A a \in Accounts \ {src, dst} : balances[a] = comp.balances[a]
    BY <1>2
  <2>6. \A a \in Accounts : comp.balances[a] \in Nat
    BY <1>2
  <2> HIDE DEF balances, paid
  <2>7. ASSUME NEW a \in Accounts
        PROVE  Delegated(balances, comp.delegates, a)
            = Shift(Delegated(comp.balances, comp.delegates, a), a, comp.delegates[src], comp.delegates[dst], amount)
    BY <2>1, <2>5, <2>6, PaymentMoves
  <2>8. Follow(balances, comp.delegates, comp.delegates[src], comp.delegates[dst], amount)
    BY <2>7 DEF Follow
  <2>9. QED
    BY <1>2, <1>5, <2>1, <2>2, <2>3, <2>4, <2>8
<1>7. ASSUME NEW delegator \in Accounts, NEW delegatee \in Accounts \cup {Nobody},
             delegatee # comp.delegates[delegator],
             Delegate(delegator, delegatee)
      PROVE  Truthful'
  <2> DEFINE delegates == [comp.delegates EXCEPT ![delegator] = delegatee]
             amount == comp.balances[delegator]
  <2>1. delegates \in [Accounts -> Accounts \cup {Nobody}]
    BY <1>2
  <2>2. /\ comp.delegates[delegator] \in Accounts \cup {Nobody} /\ amount \in Nat
        /\ canMove(comp.checkpoints, comp.delegates[delegator], delegatee, amount)
        /\ UNCHANGED << block, history >>
    BY <1>2, <1>7 DEF Delegate, canDelegate
  <2>3. comp' = [balances |-> comp.balances, delegates |-> delegates,
                 checkpoints |-> moveDelegates(comp.checkpoints, comp.delegates[delegator], delegatee, amount, block)]
    BY <1>7 DEF Delegate, delegateTo
  <2>4. delegates[delegator] = delegatee /\ Redelegated(comp.delegates, delegates, delegator)
    BY <1>2, <1>7 DEF Redelegated
  <2>5. \A a \in Accounts : comp.balances[a] \in Nat
    BY <1>2
  <2> HIDE DEF delegates
  <2>6. ASSUME NEW a \in Accounts
        PROVE  Delegated(comp.balances, delegates, a)
                 = Shift(Delegated(comp.balances, comp.delegates, a), a,
                         comp.delegates[delegator], delegates[delegator], comp.balances[delegator])
    BY <2>4, <2>5, DelegateMoves
  <2>7. Follow(comp.balances, delegates, comp.delegates[delegator], delegatee, amount)
    BY <2>4, <2>6 DEF Follow
  <2> HIDE DEF amount
  <2>8. QED
    BY <1>2, <1>5, <2>1, <2>2, <2>3, <2>7
<1>8. CASE Token
  BY <1>6, <1>7, <1>8 DEF Token
<1>9. CASE Direct
  BY <1>3, <1>9 DEF Direct, QueueDirectly, ExecuteDirectly, CancelDirectly, AcceptTimelock, TimelockOnly
<1>10. CASE Proposal
  BY <1>3, <1>10 DEF Proposal, Propose, CastVote, Queue, Execute, Cancel
<1>11. CASE Administration
  BY <1>3, <1>11 DEF Administration, Initiate, SetVotingDelay, SetVotingPeriod, SetProposalThreshold,
       SetWhitelistGuardian, SetWhitelistAccountExpiration, SetPendingAdmin, AcceptAdmin, Administers, GovernorOnly
<1>12. CASE UNCHANGED governanceVars
  BY <1>3, <1>12 DEF governanceVars
<1>13. QED
  BY <1>4, <1>8, <1>9, <1>10, <1>11, <1>12 DEF GovernanceNext

\* What the checkpoints tell is what getPriorVotes answers.
LEMMA PriorVotesTold ==
  ASSUME TokenInv, Truthful, block \in Nat, NEW a \in Accounts, NEW n \in 1 .. block - 1
  PROVE  priorVotes(a, n) = history[n][a]
<1>1. Ordered(comp.checkpoints[a], block) /\ Tells(comp.checkpoints[a], n, history[n][a]) /\ n \in Nat
  BY DEF TokenInv, Truthful
<1>2. getPriorVotes(comp.checkpoints[a], n) = history[n][a]
  BY <1>1, PriorVotesFound
<1>3. QED
  BY <1>2 DEF priorVotes

\* Whoever asks for the votes of a past block is told what was delegated when
\* it ended, however the tokens and the delegates moved since.
THEOREM PastVotesStand == GovernanceSpec => []PriorVotesAreHistory
<1>1. GovernanceInit => TokenInv /\ Truthful
  BY InitToken, InitTruthful
<1>2. GovernanceInv /\ TokenInv /\ Truthful /\ [GovernanceNext]_governanceVars => TokenInv' /\ Truthful'
  BY TokenKept, TruthfulKept
<1>3. GovernanceInv /\ TokenInv /\ Truthful => PriorVotesAreHistory
  <2>1. SUFFICES ASSUME GovernanceInv, TokenInv, Truthful PROVE PriorVotesAreHistory
    OBVIOUS
  <2>2. block \in Nat
    BY <2>1 DEF GovernanceInv, Contracts
  <2>3. QED
    BY <2>1, <2>2, PriorVotesTold DEF PriorVotesAreHistory, Truthful
<1>4. QED
  BY <1>1, <1>2, <1>3, GovernanceInvariance, PTL DEF GovernanceSpec

-----------------------------------------------------------------------------
(* Votes are counted once *)

\* The votes of one side
Side(receipts, side) == {a \in Accounts : receipts[a].hasVoted /\ receipts[a].support = side}

Tally(receipts, side) == SumFunctionOnSet([a \in Accounts |-> receipts[a].votes], Side(receipts, side))

\* Who voted did it when the vote had begun, with what was delegated then, and
\* the three counts are what the receipts add up to.
Counted(p, now, past) ==
  /\ p.startBlock \in Nat /\ p.startBlock # 0 /\ DOMAIN p.receipts = Accounts
  /\ \A a \in Accounts : p.receipts[a].hasVoted => p.startBlock < now /\ p.receipts[a].votes = past[p.startBlock][a]
  /\ p.againstVotes = Tally(p.receipts, 0) /\ p.forVotes = Tally(p.receipts, 1) /\ p.abstainVotes = Tally(p.receipts, 2)

Ballots == \A id \in Ids : isProposal(id) => Counted(proposals[id], block, history)

\* All tokens are somebody's, and in no block were more delegated than there are.
Recorded ==
  /\ SumFunctionOnSet(comp.balances, Accounts) = Supply
  /\ \A n \in 1 .. block - 1 : /\ \A a \in Accounts : history[n][a] \in Nat
                               /\ SumFunctionOnSet(history[n], Accounts) <= Supply

\* What is delegated to all accounts together is no more than all tokens.
LEMMA RowBounded ==
  ASSUME comp.balances \in [Accounts -> Nat], SumFunctionOnSet(comp.balances, Accounts) = Supply,
         NEW row, row = [a \in Accounts |-> Backing(a)]
  PROVE  (\A a \in Accounts : row[a] \in Nat) /\ SumFunctionOnSet(row, Accounts) <= Supply
<1> DEFINE delegated == Preimage(comp.delegates, Accounts, Accounts)
<1>1. IsFiniteSet(Accounts) /\ delegated \in SUBSET Accounts
  BY GovernorConstants DEF Preimage
<1>2. \A a \in Accounts : comp.balances[a] \in Nat
  OBVIOUS
<1>3. \A a \in Accounts : row[a] \in Nat
  BY BackingType
<1>4. \A a \in Accounts : row[a] = SumFunctionOnSet(comp.balances, Fibre(comp.delegates, Accounts, a))
  BY DEF Backing, Fibre
<1>5. SumFunctionOnSet(row, Accounts) = SumFunctionOnSet(comp.balances, delegated)
  <2>1. ASSUME NEW a \in Accounts PROVE comp.balances[a] \in Int
    BY <1>2
  <2>2. QED
    BY <1>1, <1>4, <2>1, SumByFibre
<1> HIDE DEF delegated
<1>6. SumFunctionOnSet(comp.balances, delegated) <= SumFunctionOnSet(comp.balances, Accounts)
  BY <1>1, <1>2, SumPart
<1>7. QED
  BY <1>3, <1>5, <1>6

\* So it is in the first block,
LEMMA InitRecorded ==
  ASSUME GovernanceInit
  PROVE  Recorded
<1> DEFINE row == [a \in Accounts |-> Backing(a)]
<1>1. comp.balances = Genesis /\ block = 2 /\ history = << row >>
  <2>1. PICK d, cp : comp = [balances |-> Genesis, delegates |-> d, checkpoints |-> cp]
    BY DEF GovernanceInit
  <2>2. comp.balances = Genesis
    BY <2>1
  <2>3. QED
    BY <2>2 DEF GovernanceInit
<1>2. comp.balances \in [Accounts -> Nat] /\ SumFunctionOnSet(comp.balances, Accounts) = Supply
  BY <1>1, GovernorConstants DEF Supply
<1>3. (\A a \in Accounts : row[a] \in Nat) /\ SumFunctionOnSet(row, Accounts) <= Supply
  BY <1>2, RowBounded
<1> HIDE DEF row
<1>4. \A n \in 1 .. block - 1 : history[n] = row
  BY <1>1
<1>5. QED
  BY <1>2, <1>3, <1>4 DEF Recorded

\* and in every block after.
LEMMA RecordedKept ==
  ASSUME GovernanceInv, TokenInv, Recorded, [GovernanceNext]_governanceVars
  PROVE  Recorded'
<1>1. block \in Nat
  BY DEF GovernanceInv, Contracts
<1>2. /\ comp.balances \in [Accounts -> Nat] /\ history \in Seq([Accounts -> Int]) /\ Len(history) = block - 1
  BY DEF TokenInv
<1>3. ASSUME comp'.balances = comp.balances, UNCHANGED << block, history >>
      PROVE  Recorded'
  BY <1>3 DEF Recorded
<1>4. ASSUME NEW seconds \in Ticks, Mine(seconds) PROVE Recorded'
  <2> DEFINE row == [a \in Accounts |-> Backing(a)]
  <2>1. comp' = comp /\ block' = block + 1 /\ history' = Append(history, row)
    BY <1>4 DEF Mine
  <2>2. (\A a \in Accounts : row[a] \in Nat) /\ SumFunctionOnSet(row, Accounts) <= Supply
    BY <1>2, RowBounded DEF Recorded
  <2> HIDE DEF row
  <2>3. history'[block] = row /\ \A n \in 1 .. block - 1 : history'[n] = history[n]
    BY <1>1, <1>2, <2>1
  <2>4. \A n \in 1 .. block' - 1 : n \in 1 .. block - 1 \/ n = block
    BY <1>1, <2>1
  <2>5. ASSUME NEW n \in 1 .. block' - 1
        PROVE  (\A a \in Accounts : history'[n][a] \in Nat) /\ SumFunctionOnSet(history'[n], Accounts) <= Supply
    BY <2>2, <2>3, <2>4 DEF Recorded
  <2>6. QED
    BY <2>1, <2>5 DEF Recorded
<1>5. ASSUME NEW src \in Accounts, NEW dst \in Accounts \ {src}, NEW amount \in 1 .. comp.balances[src],
             Transfer(src, dst, amount)
      PROVE  Recorded'
  <2> DEFINE paid == [comp.balances EXCEPT ![src] = comp.balances[src] - amount]
             balances == [paid EXCEPT ![dst] = paid[dst] + amount]
  <2>1. amount \in Nat /\ comp.balances[src] \in Nat /\ comp.balances[dst] \in Nat
    BY <1>2
  <2>2. paid[src] = comp.balances[src] - amount /\ \A a \in Accounts \ {src} : paid[a] = comp.balances[a]
    BY <1>2
  <2>3. paid[dst] = comp.balances[dst] /\ DOMAIN paid = Accounts
    BY <1>2
  <2>4. comp'.balances = balances /\ UNCHANGED << block, history >>
    BY <1>5 DEF Transfer, transferTokens
  <2> HIDE DEF paid
  <2>5. balances[dst] = paid[dst] + amount /\ \A a \in Accounts \ {dst} : balances[a] = paid[a]
    BY <2>3
  <2> HIDE DEF balances
  <2>6. ASSUME NEW a \in Accounts
        PROVE  comp.balances[a] \in Int /\ paid[a] \in Int /\ balances[a] \in Int
    <3>1. comp.balances[a] \in Int
      BY <1>2
    <3>2. paid[a] \in Int
      <4>1. CASE a = src
        BY <2>1, <2>2, <4>1
      <4>2. CASE a # src
        BY <2>2, <3>1, <4>2
      <4>3. QED
        BY <4>1, <4>2
    <3>3. balances[a] \in Int
      <4>1. CASE a = dst
        BY <2>1, <2>3, <2>5, <4>1
      <4>2. CASE a # dst
        BY <2>5, <3>2, <4>2
      <4>3. QED
        BY <4>1, <4>2
    <3>4. QED
      BY <3>1, <3>2, <3>3
  <2>7. IsFiniteSet(Accounts)
    BY GovernorConstants
  <2>8. SumFunctionOnSet(paid, Accounts) = SumFunctionOnSet(comp.balances, Accounts) - comp.balances[src] + paid[src]
    BY <2>2, <2>6, <2>7, SumChange
  <2>9. SumFunctionOnSet(balances, Accounts) = SumFunctionOnSet(paid, Accounts) - paid[dst] + balances[dst]
    BY <2>5, <2>6, <2>7, SumChange
  <2>10. SumFunctionOnSet(comp.balances, Accounts) \in Int
    BY <2>6, <2>7, SumType
  <2>11. SumFunctionOnSet(balances, Accounts) = SumFunctionOnSet(comp.balances, Accounts)
    BY <2>1, <2>2, <2>3, <2>5, <2>8, <2>9, <2>10
  <2>12. QED
    BY <2>4, <2>11 DEF Recorded
<1>6. CASE UNCHANGED << comp, block, history >>
  BY <1>3, <1>6
<1>7. ASSUME NEW delegator, NEW delegatee, Delegate(delegator, delegatee) PROVE Recorded'
  <2>1. comp'.balances = comp.balances /\ UNCHANGED << block, history >>
    BY <1>7 DEF Delegate, delegateTo
  <2>2. QED
    BY <1>3, <2>1
<1>8. CASE Token
  BY <1>5, <1>7, <1>8 DEF Token
<1>9. CASE Direct
  BY <1>6, <1>9 DEF Direct, QueueDirectly, ExecuteDirectly, CancelDirectly, AcceptTimelock, TimelockOnly
<1>10. CASE Proposal
  BY <1>6, <1>10 DEF Proposal, Propose, CastVote, Queue, Execute, Cancel
<1>11. CASE Administration
  BY <1>6, <1>11 DEF Administration, Initiate, SetVotingDelay, SetVotingPeriod, SetProposalThreshold,
       SetWhitelistGuardian, SetWhitelistAccountExpiration, SetPendingAdmin, AcceptAdmin, Administers, GovernorOnly
<1>12. CASE UNCHANGED governanceVars
  BY <1>6, <1>12 DEF governanceVars
<1>13. QED
  BY <1>4, <1>8, <1>9, <1>10, <1>11, <1>12 DEF GovernanceNext

\* A vote counts for its side and no other.
LEMMA VoteCounts ==
  ASSUME NEW receipts, NEW voter \in Accounts, ~receipts[voter].hasVoted,
         \A a \in Accounts : receipts[a].hasVoted => receipts[a].votes \in Nat,
         NEW support, NEW votes \in Nat, NEW after,
         after[voter] = [hasVoted |-> TRUE, support |-> support, votes |-> votes],
         \A a \in Accounts \ {voter} : after[a] = receipts[a],
         NEW side
  PROVE  Tally(after, side) = Tally(receipts, side) + (IF support = side THEN votes ELSE 0)
<1> DEFINE S == Side(receipts, side)
           f == [a \in Accounts |-> receipts[a].votes]
           g == [a \in Accounts |-> after[a].votes]
<1>1. IsFiniteSet(S) /\ voter \notin S /\ S \subseteq Accounts
  BY GovernorConstants, FS_Subset DEF Side
<1>2. \A a \in S : f[a] \in Nat /\ g[a] = f[a]
  BY <1>1 DEF Side
<1>3. g[voter] = votes
  OBVIOUS
<1>4. Side(after, side) = IF support = side THEN S \cup {voter} ELSE S
  <2>1. \A a \in Accounts \ {voter} : a \in Side(after, side) <=> a \in S
    BY DEF Side
  <2>2. voter \in Side(after, side) <=> support = side
    BY DEF Side
  <2>3. Side(after, side) \subseteq Accounts
    BY DEF Side
  <2> HIDE DEF S, f, g
  <2>4. CASE support = side
    <3>1. voter \in Side(after, side)
      BY <2>2, <2>4
    <3>2. ASSUME NEW a PROVE a \in Side(after, side) <=> a \in S \cup {voter}
      BY <1>1, <2>1, <2>3, <3>1
    <3>3. QED
      BY <2>4, <3>2
  <2>5. CASE support # side
    <3>1. voter \notin Side(after, side)
      BY <2>2, <2>5
    <3>2. ASSUME NEW a PROVE a \in Side(after, side) <=> a \in S
      BY <1>1, <2>1, <2>3, <3>1
    <3>3. QED
      BY <2>5, <3>2
  <2>6. QED
    BY <2>4, <2>5
<1> HIDE DEF S, f, g
<1>5. SumFunctionOnSet(g, S) = SumFunctionOnSet(f, S) /\ SumFunctionOnSet(f, S) \in Nat
  BY <1>1, <1>2, SumSame, SumNat
<1>6. SumFunctionOnSet(g, S \cup {voter}) = g[voter] + SumFunctionOnSet(g, S)
  <2>1. g[voter] \in Int
    BY <1>3
  <2>2. ASSUME NEW a \in S PROVE g[a] \in Int
    BY <1>2
  <2>3. QED
    BY <1>1, <2>1, <2>2, SumJoin
<1>7. Tally(receipts, side) = SumFunctionOnSet(f, S) /\ Tally(after, side) = SumFunctionOnSet(g, Side(after, side))
  BY DEF Tally, S, f, g
<1>8. CASE support = side
  BY <1>3, <1>4, <1>5, <1>6, <1>7, <1>8
<1>9. CASE support # side
  BY <1>4, <1>5, <1>7, <1>9
<1>10. QED
  BY <1>8, <1>9

\* The votes of a proposal together are no more than what was delegated when
\* its vote began.
LEMMA VotesBounded ==
  ASSUME Recorded, block \in Nat, NEW p, Counted(p, block, history)
  PROVE  p.againstVotes + p.forVotes + p.abstainVotes <= Supply
<1> DEFINE f == [a \in Accounts |-> p.receipts[a].votes]
           S(side) == Side(p.receipts, side)
           U == S(0) \cup S(1)
           V == U \cup S(2)
           row == history[p.startBlock]
<1>1. IsFiniteSet(Accounts) /\ IsFiniteSet(S(0)) /\ IsFiniteSet(S(1)) /\ IsFiniteSet(S(2))
  BY GovernorConstants, FS_Subset DEF Side
<1>2. IsFiniteSet(U) /\ IsFiniteSet(V)
  <2>1. V \subseteq Accounts /\ U \subseteq Accounts
    BY DEF Side
  <2>2. QED
    BY <1>1, <2>1, FS_Subset
<1>3. V \in SUBSET Accounts /\ S(0) \cap S(1) = {} /\ U \cap S(2) = {}
  BY DEF Side
<1>4. /\ p.againstVotes = SumFunctionOnSet(f, S(0)) /\ p.forVotes = SumFunctionOnSet(f, S(1))
      /\ p.abstainVotes = SumFunctionOnSet(f, S(2))
  BY DEF Counted, Tally
<1>5. \A a \in V : p.startBlock \in 1 .. block - 1 /\ f[a] = row[a]
  <2>1. \A a \in V : a \in Accounts /\ p.receipts[a].hasVoted
    BY DEF Side
  <2>2. p.startBlock < block => p.startBlock \in 1 .. block - 1
    BY DEF Counted
  <2> HIDE DEF V
  <2>3. QED
    BY <2>1, <2>2 DEF Counted
<1>6. Supply \in Nat
  <2>1. \A a \in Accounts : Genesis[a] \in Nat
    BY GovernorConstants
  <2>2. QED
    BY <1>1, <2>1, SumNat DEF Supply
<1>7. CASE V = {}
  <2>1. S(0) = {} /\ S(1) = {} /\ S(2) = {}
    BY <1>7
  <2> HIDE DEF S, f
  <2>2. p.againstVotes = 0 /\ p.forVotes = 0 /\ p.abstainVotes = 0
    BY <1>4, <2>1, SumEmpty
  <2>3. QED
    BY <1>6, <2>2
<1>8. CASE V # {}
  <2>1. p.startBlock \in 1 .. block - 1
    BY <1>5, <1>8
  <2>2. (\A a \in Accounts : row[a] \in Nat) /\ SumFunctionOnSet(row, Accounts) <= Supply
    BY <2>1 DEF Recorded
  <2>3. \A a \in V : f[a] \in Int /\ row[a] \in Int
    <3> HIDE DEF V, f, row
    <3>1. ASSUME NEW a \in V PROVE f[a] \in Int /\ row[a] \in Int
      BY <1>3, <1>5, <2>2
    <3>2. QED
      BY <3>1, Zenon
  <2>4. \A a \in U : f[a] \in Int
    BY <2>3
  <2> HIDE DEF S, f, row
  <2>5. SumFunctionOnSet(f, U) = SumFunctionOnSet(f, S(0)) + SumFunctionOnSet(f, S(1))
    BY <1>1, <1>3, <2>4, SumUnion
  <2> HIDE DEF U
  <2>6. SumFunctionOnSet(f, V) = SumFunctionOnSet(f, U) + SumFunctionOnSet(f, S(2))
    BY <1>1, <1>2, <1>3, <2>3, SumUnion
  <2> HIDE DEF V
  <2>7. SumFunctionOnSet(f, V) = SumFunctionOnSet(row, V)
    BY <1>2, <1>5, SumSame
  <2>8. SumFunctionOnSet(row, V) <= SumFunctionOnSet(row, Accounts)
    BY <1>1, <1>3, <2>2, SumPart
  <2>9. SumFunctionOnSet(row, V) \in Int /\ SumFunctionOnSet(row, Accounts) \in Int
    <3>1. ASSUME NEW a \in Accounts PROVE row[a] \in Int
      BY <2>2
    <3>2. QED
      BY <1>1, <1>2, <2>3, <3>1, SumType
  <2>10. QED
    BY <1>4, <1>6, <2>2, <2>5, <2>6, <2>7, <2>8, <2>9
<1>9. QED
  BY <1>7, <1>8


\* Two proposals with the same votes
SameVotes(p, q) ==
  /\ p.startBlock = q.startBlock /\ p.receipts = q.receipts
  /\ p.againstVotes = q.againstVotes /\ p.forVotes = q.forVotes /\ p.abstainVotes = q.abstainVotes

\* An eta and a flag are no votes.
LEMMA FlagsKeepVotes ==
  ASSUME NEW p, WellFormed(p), NEW b
  PROVE  /\ SameVotes([p EXCEPT !.eta = b], p)
         /\ SameVotes([p EXCEPT !.executed = b], p)
         /\ SameVotes([p EXCEPT !.canceled = b], p)
<1>1. PICK proposer, actions, eta, startBlock, endBlock, against, for, abstain, canceled, executed, receipts :
        p = [proposer |-> proposer, actions |-> actions, eta |-> eta, startBlock |-> startBlock, endBlock |-> endBlock,
             againstVotes |-> against, forVotes |-> for, abstainVotes |-> abstain,
             canceled |-> canceled, executed |-> executed, receipts |-> receipts]
  BY DEF WellFormed
<1>2. SameVotes([p EXCEPT !.eta = b], p)
  BY <1>1 DEF SameVotes
<1>3. SameVotes([p EXCEPT !.executed = b], p)
  BY <1>1 DEF SameVotes
<1>4. SameVotes([p EXCEPT !.canceled = b], p)
  BY <1>1 DEF SameVotes
<1>5. QED
  BY <1>2, <1>3, <1>4

\* A count stands when blocks are added to the past.
LEMMA CountLasts ==
  ASSUME NEW p, NEW q, SameVotes(p, q), NEW now \in Nat, NEW past, Counted(q, now, past),
         NEW later \in Nat, now <= later, NEW longer, \A n \in 1 .. now - 1 : longer[n] = past[n]
  PROVE  Counted(p, later, longer)
<1>1. ASSUME NEW a \in Accounts, q.receipts[a].hasVoted
      PROVE  q.startBlock < later /\ q.receipts[a].votes = longer[q.startBlock][a]
  <2>1. q.startBlock \in Nat /\ q.startBlock # 0 /\ q.startBlock < now
        /\ q.receipts[a].votes = past[q.startBlock][a]
    BY <1>1 DEF Counted
  <2>2. q.startBlock \in 1 .. now - 1
    BY <2>1
  <2>3. QED
    BY <2>1, <2>2
<1>2. QED
  BY <1>1 DEF Counted, SameVotes

\* As long as the proposals are the same, so are their ids.
LEMMA IdsFollowProposals ==
  ASSUME GovernanceInv, GovernanceInv', proposals' = proposals, NEW id \in Ids, isProposal(id)'
  PROVE  isProposal(id)
<1>1. proposals'[id].proposer \in Callers
  BY DEF GovernanceInv, Numbered
<1>2. NoProposal.proposer = Nobody /\ Nobody \notin Callers
  BY NobodyHolds, GovernorConstants DEF NoProposal, Callers
<1>3. QED
  BY <1>1, <1>2 DEF GovernanceInv, Numbered

\* A proposal is made without votes.
LEMMA NewCounted ==
  ASSUME NEW who, NEW actions, NEW from \in Nat, from # 0, NEW to, NEW now, NEW past
  PROVE  Counted(Made(who, actions, from, to), now, past)
<1> DEFINE q == Made(who, actions, from, to)
           receipts == [a \in Accounts |-> NotVoted]
<1>1. q.startBlock = from /\ q.receipts = receipts /\ q.againstVotes = 0 /\ q.forVotes = 0 /\ q.abstainVotes = 0
  BY DEF Made, NoProposal
<1>2. \A a \in Accounts : ~ receipts[a].hasVoted
  BY DEF NotVoted
<1>3. DOMAIN receipts = Accounts
  OBVIOUS
<1> HIDE DEF q, receipts
<1>4. \A side : Side(receipts, side) = {}
  BY <1>2 DEF Side
<1>5. \A side : Tally(receipts, side) = 0
  BY <1>4, SumEmpty DEF Tally
<1>6. QED
  BY <1>1, <1>2, <1>3, <1>5 DEF Counted, q

\* A vote that is cast is counted once, with what was delegated when it began.
LEMMA CastCounted ==
  ASSUME GovernanceInv, TokenInv, Truthful, Recorded, Ballots,
         NEW voter \in Accounts, NEW id \in Ids, NEW support \in 0 .. 2, CastVote(voter, id, support)
  PROVE  Counted(proposals'[id], block, history)
<1> DEFINE p == proposals[id]
           votes == weight(voter, id)
           receipt == [hasVoted |-> TRUE, support |-> support, votes |-> votes]
           against == p.againstVotes + (IF support = 0 THEN votes ELSE 0)
           for == p.forVotes + (IF support = 1 THEN votes ELSE 0)
           abstain == p.abstainVotes + (IF support = 2 THEN votes ELSE 0)
           receipts == [p.receipts EXCEPT ![voter] = receipt]
           q == [p EXCEPT !.againstVotes = against, !.forVotes = for, !.abstainVotes = abstain, !.receipts = receipts]
<1>1. isProposal(id) /\ state(id) = "Active" /\ ~p.receipts[voter].hasVoted
      /\ proposals' = [proposals EXCEPT ![id] = q]
  BY DEF CastVote
<1>2. Counted(p, block, history) /\ WellFormed(p) /\ block \in Nat
  BY <1>1, ProposalFacts DEF Ballots
<1>3. p.startBlock \in 1 .. block - 1
  <2>1. ~(block <= p.startBlock)
    BY <1>1 DEF state
  <2>2. p.startBlock \in Nat /\ p.startBlock # 0
    BY <1>2 DEF Counted
  <2>3. QED
    BY <1>2, <2>1, <2>2
<1>4. votes = history[p.startBlock][voter] /\ votes \in Nat
  <2>1. votes = history[p.startBlock][voter]
    BY <1>2, <1>3, PriorVotesTold DEF weight
  <2>2. QED
    BY <1>3, <2>1 DEF Recorded
<1>5. proposals'[id] = q
  BY <1>1 DEF GovernanceInv, Contracts
<1>6. /\ q.startBlock = p.startBlock /\ q.receipts = receipts
      /\ q.againstVotes = against /\ q.forVotes = for /\ q.abstainVotes = abstain
  <2> HIDE DEF p, against, for, abstain, receipts
  <2>1. PICK proposer, actions, eta, startBlock, endBlock, a, f, ab, canceled, executed, r :
          p = [proposer |-> proposer, actions |-> actions, eta |-> eta, startBlock |-> startBlock, endBlock |-> endBlock,
               againstVotes |-> a, forVotes |-> f, abstainVotes |-> ab,
               canceled |-> canceled, executed |-> executed, receipts |-> r]
    BY <1>2 DEF WellFormed
  <2>2. QED
    BY <2>1
<1>7. DOMAIN p.receipts = Accounts /\ \A a \in Accounts : p.receipts[a].hasVoted => p.receipts[a].votes \in Nat
  <2>1. ASSUME NEW a \in Accounts, p.receipts[a].hasVoted PROVE p.receipts[a].votes \in Nat
    <3>1. p.startBlock \in 1 .. block - 1 /\ p.receipts[a].votes = history[p.startBlock][a]
      BY <1>2, <1>3, <2>1 DEF Counted
    <3>2. QED
      BY <3>1 DEF Recorded
  <2>2. QED
    BY <1>2, <2>1 DEF Counted
<1>8. receipts[voter] = receipt /\ DOMAIN receipts = Accounts
      /\ \A a \in Accounts \ {voter} : receipts[a] = p.receipts[a]
  BY <1>7
<1> HIDE DEF receipts, votes, p
<1>9. \A side : Tally(receipts, side) = Tally(p.receipts, side) + (IF support = side THEN votes ELSE 0)
  BY <1>1, <1>4, <1>7, <1>8, VoteCounts
<1>10. against = Tally(receipts, 0) /\ for = Tally(receipts, 1) /\ abstain = Tally(receipts, 2)
  BY <1>2, <1>9 DEF Counted
<1>11. ASSUME NEW a \in Accounts, receipts[a].hasVoted
       PROVE  p.startBlock < block /\ receipts[a].votes = history[p.startBlock][a]
  <2>1. CASE a = voter
    BY <1>2, <1>3, <1>4, <1>8, <2>1
  <2>2. CASE a # voter
    BY <1>2, <1>8, <1>11, <2>2 DEF Counted
  <2>3. QED
    BY <2>1, <2>2
<1> HIDE DEF against, for, abstain, q
<1>12. Counted(q, block, history)
  BY <1>2, <1>6, <1>8, <1>10, <1>11 DEF Counted
<1>13. QED
  BY <1>5, <1>12

\* Whatever happens, the votes of the proposals are counted.
LEMMA BallotsKept ==
  ASSUME GovernanceInv, GovernanceInv', TokenInv, Truthful, Recorded, Ballots, [GovernanceNext]_governanceVars
  PROVE  Ballots'
<1>1. block \in Nat /\ DOMAIN proposals = Ids /\ \A id \in Ids : WellFormed(proposals[id])
  BY DEF GovernanceInv, Contracts
<1>2. \A p : SameVotes(p, p)
  BY DEF SameVotes
<1>3. ASSUME UNCHANGED << proposals, block, history >> PROVE Ballots'
  BY <1>3, IdsFollowProposals DEF Ballots
<1>4. ASSUME NEW seconds \in Ticks, Mine(seconds) PROVE Ballots'
  <2> DEFINE row == [a \in Accounts |-> Backing(a)]
  <2>1. proposals' = proposals /\ block' = block + 1 /\ history' = Append(history, row)
    BY <1>4 DEF Mine
  <2>2. history \in Seq([Accounts -> Int]) /\ Len(history) = block - 1
    BY DEF TokenInv
  <2> HIDE DEF row
  <2>3. \A n \in 1 .. block - 1 : history'[n] = history[n]
    BY <1>1, <2>1, <2>2
  <2>4. block' \in Nat /\ block <= block'
    BY <1>1, <2>1
  <2>5. ASSUME NEW id \in Ids, isProposal(id)' PROVE Counted(proposals'[id], block', history')
    <3>1. Counted(proposals[id], block, history)
      BY <2>1, <2>5, IdsFollowProposals DEF Ballots
    <3>2. QED
      BY <1>1, <1>2, <2>1, <2>3, <2>4, <3>1, CountLasts
  <2>6. QED
    BY <2>5 DEF Ballots
<1>5. ASSUME NEW id \in Ids, isProposal(id), NEW q, proposals' = [proposals EXCEPT ![id] = q],
             SameVotes(q, proposals[id]) \/ Counted(q, block, history), UNCHANGED << governor, block, history >>
      PROVE  Ballots'
  <2>1. proposals'[id] = q /\ \A i \in Ids \ {id} : proposals'[i] = proposals[i]
    BY <1>1, <1>5
  <2>2. \A i : isProposal(i)' <=> isProposal(i)
    BY <1>5, SameIds
  <2>3. Counted(q, block, history)
    BY <1>1, <1>5, CountLasts DEF Ballots
  <2>4. QED
    BY <1>5, <2>1, <2>2, <2>3 DEF Ballots
<1>6. ASSUME NEW who \in Callers, NEW actions \in left.agenda, Propose(who, actions) PROVE Ballots'
  <2> DEFINE from == block + governor.votingDelay
             to == block + governor.votingDelay + governor.votingPeriod
             new == governor.proposalCount + 1
  <2>1. /\ new \in Ids /\ proposals' = [proposals EXCEPT ![new] = Made(who, actions, from, to)]
        /\ governor' = [governor EXCEPT !.proposalCount = new] /\ UNCHANGED << block, history >>
    BY <1>6 DEF Propose, Made
  <2>2. governor \in AnyGovernor
    BY DEF GovernanceInv, Contracts
  <2>3. from \in Nat /\ from # 0 /\ governor.proposalCount \in Nat /\ governor.initialProposalId \in Nat
    <3>1. governor.votingDelay \in Nat /\ governor.votingDelay # 0
      BY <2>2, GovernorFields, GovernorConstants
    <3>2. QED
      BY <1>1, <2>2, <3>1, GovernorFields
  <2> HIDE DEF from, to
  <2>4. Counted(Made(who, actions, from, to), block, history)
    BY <2>3, NewCounted
  <2>5. governor'.initialProposalId = governor.initialProposalId /\ governor'.proposalCount = new
    BY <2>1, <2>2 DEF AnyGovernor
  <2>6. \A i \in Ids \ {new} : isProposal(i)' => isProposal(i)
    BY <2>3, <2>5 DEF isProposal, Ids
  <2> HIDE DEF new
  <2>7. proposals'[new] = Made(who, actions, from, to) /\ \A i \in Ids \ {new} : proposals'[i] = proposals[i]
    BY <1>1, <2>1
  <2>8. QED
    BY <2>1, <2>4, <2>6, <2>7 DEF Ballots
<1>7. ASSUME NEW voter \in Accounts, NEW id \in Ids, NEW support \in 0 .. 2, CastVote(voter, id, support)
      PROVE  Ballots'
  <2>1. Counted(proposals'[id], block, history)
    BY <1>7, CastCounted
  <2>2. PICK q : proposals' = [proposals EXCEPT ![id] = q]
    BY <1>7 DEF CastVote
  <2>3. isProposal(id) /\ UNCHANGED << governor, block, history >>
    BY <1>7 DEF CastVote
  <2>4. Counted(q, block, history)
    BY <1>1, <2>1, <2>2
  <2>5. QED
    BY <1>5, <2>2, <2>3, <2>4
<1>8. ASSUME NEW id \in Ids, Queue(id) PROVE Ballots'
  <2>1. PICK e : proposals' = [proposals EXCEPT ![id] = [proposals[id] EXCEPT !.eta = e]]
    BY <1>8 DEF Queue
  <2>2. isProposal(id) /\ UNCHANGED << governor, block, history >>
    BY <1>8 DEF Queue
  <2>3. SameVotes([proposals[id] EXCEPT !.eta = e], proposals[id])
    BY <1>1, FlagsKeepVotes
  <2>4. QED
    BY <1>5, <2>1, <2>2, <2>3
<1>9. ASSUME NEW id \in Ids, Execute(id) PROVE Ballots'
  <2>1. proposals' = [proposals EXCEPT ![id] = [proposals[id] EXCEPT !.executed = TRUE]]
        /\ isProposal(id) /\ UNCHANGED << governor, block, history >>
    BY <1>9 DEF Execute
  <2>2. SameVotes([proposals[id] EXCEPT !.executed = TRUE], proposals[id])
    BY <1>1, FlagsKeepVotes
  <2>3. QED
    BY <1>5, <2>1, <2>2
<1>10. ASSUME NEW caller \in Callers, NEW id \in Ids, Cancel(caller, id) PROVE Ballots'
  <2>1. proposals' = [proposals EXCEPT ![id] = [proposals[id] EXCEPT !.canceled = TRUE]]
        /\ isProposal(id) /\ UNCHANGED << governor, block, history >>
    BY <1>10 DEF Cancel
  <2>2. SameVotes([proposals[id] EXCEPT !.canceled = TRUE], proposals[id])
    BY <1>1, FlagsKeepVotes
  <2>3. QED
    BY <1>5, <2>1, <2>2
<1>11. CASE Proposal
  BY <1>6, <1>7, <1>8, <1>9, <1>10, <1>11 DEF Proposal
<1>12. CASE Token
  BY <1>3, <1>12 DEF Token, Transfer, Delegate
<1>13. CASE Direct
  BY <1>3, <1>13 DEF Direct, QueueDirectly, ExecuteDirectly, CancelDirectly, AcceptTimelock, TimelockOnly
<1>14. CASE Administration
  BY <1>3, <1>14 DEF Administration, Initiate, SetVotingDelay, SetVotingPeriod, SetProposalThreshold,
       SetWhitelistGuardian, SetWhitelistAccountExpiration, SetPendingAdmin, AcceptAdmin, Administers, GovernorOnly
<1>15. CASE UNCHANGED governanceVars
  BY <1>3, <1>15 DEF governanceVars
<1>16. QED
  BY <1>4, <1>11, <1>12, <1>13, <1>14, <1>15 DEF GovernanceNext

\* Every vote weighs what was delegated when the vote began, is counted on one
\* side, and all votes of a proposal together are no more than all tokens.
THEOREM VotesStaySpentOnce == GovernanceSpec => []VotesAreSpentOnce
<1>1. GovernanceInit => TokenInv /\ Truthful /\ Recorded
  BY InitToken, InitTruthful, InitRecorded
<1>2. GovernanceInit => Ballots
  <2>1. SUFFICES ASSUME GovernanceInit PROVE \A id \in Ids : ~isProposal(id)
    BY DEF Ballots
  <2>2. GovernanceInv /\ proposals = [id \in Ids |-> NoProposal]
    BY <2>1, InitInv DEF GovernanceInit
  <2>3. NoProposal.proposer = Nobody /\ Nobody \notin Callers
    BY NobodyHolds, GovernorConstants DEF NoProposal, Callers
  <2>4. QED
    BY <2>2, <2>3 DEF GovernanceInv, Numbered
<1>3. /\ GovernanceInv /\ GovernanceInv' /\ TokenInv /\ Truthful /\ Recorded /\ Ballots /\ [GovernanceNext]_governanceVars
      => TokenInv' /\ Truthful' /\ Recorded' /\ Ballots'
  BY TokenKept, TruthfulKept, RecordedKept, BallotsKept
<1>4. GovernanceInv /\ Recorded /\ Ballots => VotesAreSpentOnce
  <2>1. SUFFICES ASSUME GovernanceInv, Recorded, Ballots PROVE VotesAreSpentOnce
    OBVIOUS
  <2>2. ASSUME NEW id \in Ids, isProposal(id)
        PROVE  LET p == proposals[id]
               IN /\ p.againstVotes = Cast(id, 0) /\ p.forVotes = Cast(id, 1) /\ p.abstainVotes = Cast(id, 2)
                  /\ \A a \in Accounts : p.receipts[a].hasVoted => p.receipts[a].votes = history[p.startBlock][a]
                  /\ p.againstVotes + p.forVotes + p.abstainVotes <= Supply
    <3>1. Counted(proposals[id], block, history) /\ block \in Nat
      BY <2>1, <2>2 DEF Ballots, GovernanceInv, Contracts
    <3>2. \A side : Cast(id, side) = Tally(proposals[id].receipts, side)
      BY DEF Cast, Tally, Side
    <3>3. proposals[id].againstVotes + proposals[id].forVotes + proposals[id].abstainVotes <= Supply
      BY <2>1, <3>1, VotesBounded
    <3>4. QED
      BY <3>1, <3>2, <3>3 DEF Counted
  <2>3. QED
    BY <2>2 DEF VotesAreSpentOnce
<1>5. QED
  BY <1>1, <1>2, <1>3, <1>4, GovernanceInvariance, PTL DEF GovernanceSpec
=============================================================================
