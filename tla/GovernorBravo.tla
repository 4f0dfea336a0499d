---------------------------- MODULE GovernorBravo ----------------------------
(***************************************************************************)
(* GovernorBravoDelegate.sol over the UTDX token, whose checkpoints say    *)
(* who may propose and what a vote weighs, and over the Timelock, which    *)
(* keeps and performs what was decided.  Every action is one transaction   *)
(* or the next block; a transaction that would revert is not taken.  As    *)
(* deploy/010 leaves it, Bravo's admin is an account and not the Timelock. *)
(***************************************************************************)
EXTENDS CompToken, Timelock, FiniteSets, Functions

CONSTANTS
  Officials,         \* accounts that administer: the deployer, the multisig
  Deployer, Bravo,   \* the first admin of both contracts; the governor
  delay_,            \* the Timelock's first delay
  VotingDelays, VotingPeriods, ProposalThresholds,      \* MIN .. MAX of each,
  votingDelay_, votingPeriod_, proposalThreshold_,      \* and what Bravo is made with
  quorumVotes,
  Agendas,           \* sets of sequences of actions there may be proposals of
  Installing,        \* the sequences an official may queue in the Timelock
  MaxProposals,      \* bound: the last id
  Genesis,           \* UTDX by account,
  FirstDelegates,    \* and the delegates the holders may start with
  AlphaCounts,       \* what GovernorAlpha's proposalCount may be
  Ticks,             \* seconds a block may take
  MaxBlock,          \* bound: the last block
  Budgets            \* bounds: how many transactions of each kind there may be

(* What a proposal may ask the Timelock to call. *)
Action ==
  [call : {"setDelay"}, arg : Nat] \cup [call : {"setPendingAdmin"}, arg : Officials \cup {Bravo}] \cup
  [call : {"other"}, arg : {0}]

ASSUME GovernorConstants ==
  /\ IsFiniteSet(Accounts) /\ Deployer \in Officials
  /\ Bravo \notin Officials \cup Accounts /\ Nobody \notin Officials \cup {Bravo}
  /\ VotingDelays \subseteq Nat \ {0} /\ VotingPeriods \subseteq Nat \ {0} /\ ProposalThresholds \subseteq Nat
  /\ delay_ \in MINIMUM_DELAY .. MAXIMUM_DELAY /\ votingDelay_ \in VotingDelays
  /\ votingPeriod_ \in VotingPeriods /\ proposalThreshold_ \in ProposalThresholds
  /\ \A actions \in (UNION Agendas) \cup Installing : actions # <<>> /\ actions \in Seq(Action)
  /\ Genesis \in [Accounts -> Nat] /\ FirstDelegates \subseteq [Accounts -> Accounts \cup {Nobody}]
  /\ AlphaCounts \subseteq Nat /\ Ticks \subseteq Nat
  /\ MaxProposals \in Nat /\ MaxBlock \in Nat
  /\ Budgets \subseteq [moves : Nat, proposals : Nat, ballots : Nat, settings : Nat, agenda : Agendas]

VARIABLES
  comp,      \* storage of the token
  timelock,  \* storage of the Timelock
  governor,  \* storage of Bravo but for the proposals
  proposals, latestProposalIds,
  block, time,
  history,   \* ghost: by block that is over, the UTDX delegated to each account
  left       \* what is left of the budget

governanceVars == << comp, timelock, governor, proposals, latestProposalIds, block, time, history, left >>

Callers == Accounts \cup Officials
Ids == 1 .. MaxProposals
NotVoted == [hasVoted |-> FALSE, support |-> 0, votes |-> 0]

(* The zero of the mapping. *)
NoProposal == [proposer |-> Nobody, actions |-> <<>>, eta |-> 0, startBlock |-> 0, endBlock |-> 0,
               againstVotes |-> 0, forVotes |-> 0, abstainVotes |-> 0,
               canceled |-> FALSE, executed |-> FALSE, receipts |-> [a \in Accounts |-> NotVoted]]

Backing(account) ==
  SumFunctionOnSet(comp.balances, {a \in Accounts : comp.delegates[a] = account})

(* The holders chose their delegates in block 1; Bravo is as deployed, or
   the Timelock's admin already. *)
GovernanceInit ==
  /\ \E d \in FirstDelegates :
       comp = [balances |-> Genesis, delegates |-> d,
               checkpoints |-> [a \in Accounts |->
                 LET chosen == {b \in Accounts : d[b] = a /\ Genesis[b] > 0}
                 IN IF chosen = {} THEN NoCheckpoints
                    ELSE writeCheckpoint(NoCheckpoints, 1, SumFunctionOnSet(Genesis, chosen))]]
  /\ \E count \in AlphaCounts \cup {0} :
       /\ timelock = [admin |-> IF count = 0 THEN Deployer ELSE Bravo, pendingAdmin |-> Nobody,
                      delay |-> delay_, queued |-> {}]
       /\ governor = [admin |-> Deployer, pendingAdmin |-> Nobody,
                      initialProposalId |-> count, proposalCount |-> count,
                      votingDelay |-> votingDelay_, votingPeriod |-> votingPeriod_,
                      proposalThreshold |-> proposalThreshold_,
                      whitelistGuardian |-> Nobody, whitelistAccountExpirations |-> [a \in Callers |-> 0]]
  /\ proposals = [id \in Ids |-> NoProposal]
  /\ latestProposalIds = [a \in Callers |-> 0]
  /\ block = 2 /\ time = 2
  /\ history = << [a \in Accounts |-> Backing(a)] >>
  /\ left \in Budgets
-----------------------------------------------------------------------------
(* The chain and the token *)

Mine(seconds) ==
  /\ block < MaxBlock
  /\ block' = block + 1 /\ time' = time + seconds
  /\ history' = Append(history, [a \in Accounts |-> Backing(a)])
  /\ UNCHANGED << comp, timelock, governor, proposals, latestProposalIds, left >>

Spends(kind) == left[kind] > 0 /\ left' = [left EXCEPT ![kind] = @ - 1]

Transfer(src, dst, amount) ==
  /\ Spends("moves")
  /\ canTransfer(comp, src, dst, amount)
  /\ comp' = transferTokens(comp, src, dst, amount, block)
  /\ UNCHANGED << timelock, governor, proposals, latestProposalIds, block, time, history >>

Delegate(delegator, delegatee) ==
  /\ Spends("moves")
  /\ canDelegate(comp, delegator, delegatee)
  /\ comp' = delegateTo(comp, delegator, delegatee, block)
  /\ UNCHANGED << timelock, governor, proposals, latestProposalIds, block, time, history >>
-----------------------------------------------------------------------------
(* An official as the Timelock's admin *)

TimelockOnly == UNCHANGED << comp, governor, proposals, latestProposalIds, block, time, history >>

QueueDirectly(caller, actions, eta) ==
  /\ Spends("settings")
  /\ mayQueue(timelock, caller, eta, time)
  /\ timelock' = queueTransactions(timelock, actions, eta)
  /\ TimelockOnly

ExecuteDirectly(caller, actions, eta) ==
  /\ mayExecute(timelock, caller, actions, eta, time)
  /\ timelock' = executeTransactions(timelock, actions, eta)
  /\ TimelockOnly /\ UNCHANGED left

CancelDirectly(caller, actions, eta) ==
  /\ Spends("settings")
  /\ mayCancel(timelock, caller)
  /\ timelock' = cancelTransactions(timelock, actions, eta)
  /\ TimelockOnly

AcceptTimelock(caller) ==
  /\ Spends("settings")
  /\ mayAcceptAdmin(timelock, caller)
  /\ timelock' = acceptAdmin(timelock, Nobody)
  /\ TimelockOnly
-----------------------------------------------------------------------------
(* Proposals *)

isWhitelisted(account) == governor.whitelistAccountExpirations[account] > time

priorVotes(account, number) ==
  IF account \in Accounts THEN getPriorVotes(comp.checkpoints[account], number) ELSE 0

isProposal(id) == id > governor.initialProposalId /\ id <= governor.proposalCount

state(id) ==
  LET p == proposals[id]
  IN IF p.canceled THEN "Canceled"
     ELSE IF block <= p.startBlock THEN "Pending"
     ELSE IF block <= p.endBlock THEN "Active"
     ELSE IF p.forVotes <= p.againstVotes \/ p.forVotes < quorumVotes THEN "Defeated"
     ELSE IF p.eta = 0 THEN "Succeeded"
     ELSE IF p.executed THEN "Executed"
     ELSE IF time >= p.eta + GRACE_PERIOD THEN "Expired"
     ELSE "Queued"

(* A plausible slip: a proposal that is pending does not count. *)
hasActiveProposal(who) == latestProposalIds[who] # 0 /\ state(latestProposalIds[who]) = "Active"

hasLiveProposal(who) == latestProposalIds[who] # 0 /\ state(latestProposalIds[who]) \in {"Active", "Pending"}

Propose(who, actions) ==
  LET id == governor.proposalCount + 1
  IN /\ governor.initialProposalId # 0
     /\ priorVotes(who, block - 1) > governor.proposalThreshold \/ isWhitelisted(who)
     /\ ~hasLiveProposal(who)
     /\ id \in Ids /\ Spends("proposals")
     /\ governor' = [governor EXCEPT !.proposalCount = id]
     /\ proposals' = [proposals EXCEPT ![id] =
          [NoProposal EXCEPT !.proposer = who, !.actions = actions,
                             !.startBlock = block + governor.votingDelay,
                             !.endBlock = block + governor.votingDelay + governor.votingPeriod]]
     /\ latestProposalIds' = [latestProposalIds EXCEPT ![who] = id]
     /\ UNCHANGED << comp, timelock, block, time, history >>

(* A plausible slip: a vote weighs what the voter has now. *)
weightNow(voter, id) == currentVotes(comp.checkpoints[voter])

weight(voter, id) == priorVotes(voter, proposals[id].startBlock)

CastVote(voter, id, support) ==
  LET p == proposals[id]
      votes == weight(voter, id)
  IN /\ isProposal(id) /\ state(id) = "Active"
     /\ Spends("ballots")
     /\ ~p.receipts[voter].hasVoted
     /\ proposals' = [proposals EXCEPT ![id] =
          [p EXCEPT !.againstVotes = p.againstVotes + (IF support = 0 THEN votes ELSE 0),
                    !.forVotes     = p.forVotes + (IF support = 1 THEN votes ELSE 0),
                    !.abstainVotes = p.abstainVotes + (IF support = 2 THEN votes ELSE 0),
                    !.receipts[voter] = [hasVoted |-> TRUE, support |-> support, votes |-> votes]]]
     /\ UNCHANGED << comp, timelock, governor, latestProposalIds, block, time, history >>

(* A plausible slip: an action already queued for that time is no obstacle. *)
queueable(actions, eta) == mayQueue(timelock, Bravo, eta, time)

(* One action at a time, so a proposal cannot have the same one twice. *)
queueOrRevert(actions, eta) ==
  /\ transactions(actions, eta) \cap timelock.queued = {}
  /\ \A i, j \in DOMAIN actions : actions[i] = actions[j] => i = j
  /\ mayQueue(timelock, Bravo, eta, time)

Queue(id) ==
  LET p == proposals[id]
      eta == time + timelock.delay
  IN /\ isProposal(id) /\ state(id) = "Succeeded"
     /\ queueOrRevert(p.actions, eta)
     /\ timelock' = queueTransactions(timelock, p.actions, eta)
     /\ proposals' = [proposals EXCEPT ![id].eta = eta]
     /\ UNCHANGED << comp, governor, latestProposalIds, block, time, history, left >>

Execute(id) ==
  LET p == proposals[id]
  IN /\ isProposal(id) /\ state(id) = "Queued"
     /\ mayExecute(timelock, Bravo, p.actions, p.eta, time)
     /\ timelock' = executeTransactions(timelock, p.actions, p.eta)
     /\ proposals' = [proposals EXCEPT ![id].executed = TRUE]
     /\ UNCHANGED << comp, governor, latestProposalIds, block, time, history, left >>

(* Anybody, once the proposer lost the votes; the guardian, for a whitelisted one. *)
mayCancelProposal(caller, id) ==
  LET proposer == proposals[id].proposer
  IN /\ state(id) # "Executed"
     /\ caller # proposer =>
          /\ priorVotes(proposer, block - 1) < governor.proposalThreshold
          /\ isWhitelisted(proposer) => caller = governor.whitelistGuardian

Cancel(caller, id) ==
  LET p == proposals[id]
  IN /\ isProposal(id) /\ mayCancelProposal(caller, id)
     /\ mayCancel(timelock, Bravo)
     /\ timelock' = cancelTransactions(timelock, p.actions, p.eta)
     /\ proposals' = [proposals EXCEPT ![id].canceled = TRUE]
     /\ UNCHANGED << comp, governor, latestProposalIds, block, time, history, left >>
-----------------------------------------------------------------------------
(* Bravo's admin *)

GovernorOnly == UNCHANGED << comp, proposals, latestProposalIds, block, time, history >>

(* Continues Alpha's count, and takes the Timelock it was nominated for. *)
Initiate(caller, alphaCount) ==
  /\ Spends("settings")
  /\ caller = governor.admin /\ governor.initialProposalId = 0
  /\ mayAcceptAdmin(timelock, Bravo)
  /\ governor' = [governor EXCEPT !.proposalCount = alphaCount, !.initialProposalId = alphaCount]
  /\ timelock' = acceptAdmin(timelock, Nobody)
  /\ GovernorOnly

Administers(caller) == Spends("settings") /\ caller = governor.admin /\ GovernorOnly /\ UNCHANGED timelock

SetVotingDelay(caller, delay) ==
  Administers(caller) /\ delay \in VotingDelays /\ governor' = [governor EXCEPT !.votingDelay = delay]

SetVotingPeriod(caller, period) ==
  Administers(caller) /\ period \in VotingPeriods /\ governor' = [governor EXCEPT !.votingPeriod = period]

SetProposalThreshold(caller, threshold) ==
  /\ Administers(caller) /\ threshold \in ProposalThresholds
  /\ governor' = [governor EXCEPT !.proposalThreshold = threshold]

SetWhitelistGuardian(caller, account) ==
  Administers(caller) /\ governor' = [governor EXCEPT !.whitelistGuardian = account]

SetWhitelistAccountExpiration(caller, account, expiration) ==
  /\ Spends("settings") /\ caller \in {governor.admin, governor.whitelistGuardian}
  /\ governor' = [governor EXCEPT !.whitelistAccountExpirations[account] = expiration]
  /\ GovernorOnly /\ UNCHANGED timelock

SetPendingAdmin(caller, account) ==
  Administers(caller) /\ governor' = [governor EXCEPT !.pendingAdmin = account]

AcceptAdmin(caller) ==
  /\ Spends("settings") /\ caller = governor.pendingAdmin
  /\ governor' = [governor EXCEPT !.admin = caller, !.pendingAdmin = Nobody]
  /\ GovernorOnly /\ UNCHANGED timelock
-----------------------------------------------------------------------------
Token ==
  \/ \E src \in Accounts : \E dst \in Accounts \ {src}, amount \in 1 .. comp.balances[src] : Transfer(src, dst, amount)
  \/ \E delegator \in Accounts : \E delegatee \in (Accounts \cup {Nobody}) \ {comp.delegates[delegator]} :
       Delegate(delegator, delegatee)

Direct ==
  \E caller \in Officials :
    \/ \E actions \in Installing : QueueDirectly(caller, actions, time + timelock.delay)
    \/ \E t \in timelock.queued : ExecuteDirectly(caller, << t[1] >>, t[2])
    \/ \E t \in timelock.queued : CancelDirectly(caller, << t[1] >>, t[2])
    \/ AcceptTimelock(caller)

Proposal ==
  \/ \E who \in Callers, actions \in left.agenda : Propose(who, actions)
  \/ \E voter \in Accounts, id \in Ids, support \in 0 .. 2 : CastVote(voter, id, support)
  \/ \E id \in Ids : Queue(id)
  \/ \E id \in Ids : Execute(id)
  \/ \E caller \in Callers, id \in Ids : Cancel(caller, id)

Administration ==
  \E caller \in Callers :
    \/ \E alphaCount \in AlphaCounts : Initiate(caller, alphaCount)
    \/ \E delay \in VotingDelays \ {governor.votingDelay} : SetVotingDelay(caller, delay)
    \/ \E period \in VotingPeriods \ {governor.votingPeriod} : SetVotingPeriod(caller, period)
    \/ \E threshold \in ProposalThresholds \ {governor.proposalThreshold} : SetProposalThreshold(caller, threshold)
    \/ \E account \in Callers : SetWhitelistGuardian(caller, account)
    \/ \E account \in Callers : SetWhitelistAccountExpiration(caller, account, time + MAXIMUM_DELAY)
    \/ \E account \in Officials : SetPendingAdmin(caller, account)
    \/ AcceptAdmin(caller)

GovernanceNext == (\E seconds \in Ticks : Mine(seconds)) \/ Token \/ Direct \/ Proposal \/ Administration

GovernanceSpec == GovernanceInit /\ [][GovernanceNext]_governanceVars
-----------------------------------------------------------------------------
Supply == SumFunctionOnSet(Genesis, Accounts)
Checkpoint == [fromBlock : Nat, votes : Nat]

(* Every variable has its type: checkpoints are of blocks in order, ids are
   given without gaps after Alpha's, a proposal has the eta of a delay the
   Timelock allows. *)
GovernanceTypeOK ==
  /\ comp.balances \in [Accounts -> Nat] /\ comp.delegates \in [Accounts -> Accounts \cup {Nobody}]
  /\ \A a \in Accounts : LET cps == comp.checkpoints[a]
                         IN /\ \A i \in DOMAIN cps : cps[i] \in Checkpoint /\ cps[i].fromBlock <= block
                            /\ \A i \in DOMAIN cps \ {1} : cps[i - 1].fromBlock < cps[i].fromBlock
  /\ timelock.admin \in Officials \cup {Bravo} /\ timelock.pendingAdmin \in Officials \cup {Bravo, Nobody}
  /\ timelock.delay \in MINIMUM_DELAY .. MAXIMUM_DELAY
  /\ governor.admin \in Officials /\ governor.pendingAdmin \in Officials \cup {Nobody}
  /\ governor.votingDelay \in VotingDelays /\ governor.votingPeriod \in VotingPeriods
  /\ governor.proposalThreshold \in ProposalThresholds
  /\ latestProposalIds \in [Callers -> Nat]
  /\ \A id \in Ids : proposals[id].proposer # Nobody <=> isProposal(id)
  /\ block \in Nat /\ time \in Nat /\ Len(history) = block - 1
  /\ left \in [moves : Nat, proposals : Nat, ballots : Nat, settings : Nat, agenda : Agendas]

stages == [id \in Ids |-> IF isProposal(id) THEN state(id) ELSE "None"]
proposers == [id \in Ids |-> proposals[id].proposer]

Lifecycle == INSTANCE ProposalLifecycle WITH
  Proposers <- Callers \cup {Nobody}, stage <- stages, proposer <- proposers

(* Whatever the votes, the clock, the Timelock and the admins do, proposals
   live the life of ProposalLifecycle. *)
ProposalsLiveTheirLife == Lifecycle!LifecycleSpec

(* The checkpoints and their binary search tell what was delegated to an
   account when a past block ended, and the last of them what is now. *)
PriorVotesAreHistory ==
  \A a \in Accounts :
    /\ currentVotes(comp.checkpoints[a]) = Backing(a)
    /\ \A n \in 1 .. block - 1 : priorVotes(a, n) = history[n][a]

Cast(id, support) ==
  SumFunctionOnSet([a \in Accounts |-> proposals[id].receipts[a].votes],
                   {a \in Accounts : proposals[id].receipts[a].hasVoted /\ proposals[id].receipts[a].support = support})

(* A vote weighs what was delegated to the voter when the vote began,
   wherever the tokens went since, and each counts on one side: all votes
   together are never more than all the tokens. *)
VotesAreSpentOnce ==
  \A id \in {i \in Ids : isProposal(i)} :
    LET p == proposals[id]
    IN /\ p.againstVotes = Cast(id, 0) /\ p.forVotes = Cast(id, 1) /\ p.abstainVotes = Cast(id, 2)
       /\ \A a \in Accounts : p.receipts[a].hasVoted => p.receipts[a].votes = history[p.startBlock][a]
       /\ p.againstVotes + p.forVotes + p.abstainVotes <= Supply

(* While Bravo is the Timelock's admin, a queued proposal finds each of its
   transactions in the Timelock, unless another proposal that had the same
   one was canceled, which may have taken it away. *)
QueuedIsBacked ==
  timelock.admin = Bravo =>
    \A id \in Ids :
      isProposal(id) /\ state(id) = "Queued" =>
        \A t \in transactions(proposals[id].actions, proposals[id].eta) :
          \/ t \in timelock.queued
          \/ \E twin \in Ids : /\ proposals[twin].canceled
                              /\ t \in transactions(proposals[twin].actions, proposals[twin].eta)
=============================================================================
