# The UnitedX lending protocol in TLA+

This directory is a verification project for this repository: a fork of Compound
whose cTokens, Comptroller, governance and COMP (UTDX) distribution are in
`contracts/`, the scripts in `deploy/` that put them on a chain, and the
interpreter in `scenario/` that drives them by commands. It holds TLA+ modules
that model the code, TLC runs that check them on small instances, and TLAPS proofs
for every value of the parameters.

## 1. Inventory

| Component | State | Operations | Talks to | Correct when |
|---|---|---|---|---|
| **Fixed-point arithmetic** `ExponentialNoError.sol` | none | `truncate`, `mul_`, `div_`, `mul_ScalarTruncate…` | used by all | every rounding favours the pool or costs at most one unit |
| **Interest rate models** `JumpRateModel.sol`, V2, WhitePaper | four constants (V2: an owner may change them) | `getBorrowRate`, `utilizationRate`, `getSupplyRate` | read by cTokens at accrual | defined wherever a listed market can get |
| **cToken market** `CToken.sol` | supply, tokens, allowances, borrows with snapshots of the interest index, totalBorrows, reserves, accrual block, parameters | accrue, mint, redeem, redeemUnderlying, borrow, repay(Behalf), liquidate, seize, transfer(From), approve, reserves, rate model, factor, admin handover | Comptroller hooks, other cToken (liquidation, seize), rate model, underlying | tokens add up; no debt forgiven; the exchange rate falls only by rounding; the market never bricks |
| **Underlying layer** `CErc20.sol`, `CEther.sol` | the market's balance of underlying | `doTransferIn`, `doTransferOut`, `getCashPrior`, `sweepToken` | ERC-20 tokens (which may take a fee), Ether | books what arrived, not what was sent |
| **Comptroller risk engine** `Comptroller.sol`, `ComptrollerStorage.sol` | listing, collateral factors, caps, close factor, incentive, pauses, guardians; `accountMembership` and the redundant `accountAssets` | enterMarkets, exitMarket, eleven hooks, liquidity, seize quote, `_supportMarket`, setters | reads every entered cToken; calls mint when listing; oracle | two structures agree; debts are counted; no account takes itself under water; pauses bind |
| **COMP flywheel** (in `Comptroller.sol`) | supply and borrow index per market and account, accrued COMP, weights, schedule | index updates in every hook, claimComp, grants, speeds, weights | cToken totals, Reservoir, Comp | pays no more than it emits; nobody's accrual is lost |
| **Reservoir** `Reservoir.sol`, **CompLock** | drip rate, dripped; lock time | `drip`; `transfer` | Comp | drips at most rate × blocks; locked till the time |
| **Comp** `Governance/Comp.sol` | balances, allowances, delegates, checkpoints | transfer, delegate, `getPriorVotes` | read by the Governors | votes at a past block are the balances delegated then |
| **GovernorBravo / GovernorAlpha** | proposals, receipts, settings, whitelist | propose, vote, queue, execute, cancel, `_initiate`, setters, admin handover | Comp, Timelock | only a succeeded proposal executes, once, in its window; a vote counts once, at its weight when voting began |
| **Timelock** `Timelock.sol` | queued transactions, delay, admin, pending admin | queue, cancel, execute, setDelay, admin handover | any target, itself included | nothing executes before its delay or after the grace period |
| **Unitroller and delegators** | admin, implementation, and the pending ones | set pending, accept | Comptroller, CErc20Delegate, Bravo delegate | only the pending party accepts |
| **Maximillion** | none | repay an Ether debt, refund the rest | CEther | leaves no Ether behind |
| **Oracles** `Oracle/` | feeds, prices | `getUnderlyingPrice`, setters | read by the Comptroller | a price of 0 never passes for a price |
| **CDaiDelegate, CompoundLens, SafeMath, ErrorReporter** | - | - | - | not modelled, see section 8 |
| **Deployment scripts** `deploy/*.js` | what is saved in `deployments/<network>/`, and what they read of the chain | deploy what changed; set what differs; divide the UTDX; offer the admin roles | hardhat-deploy, the contracts, a multisig | repeated runs converge, but for what the multisig took; nothing is paid twice; nothing half built lends or is handed over |
| **Scenario interpreter** `scenario/src` | the world (contracts, invariants, expectations, last invokation), two files per network | read a command, expand it, run its events; deploy, invoke, save, merge ABIs, assert | web3, the networks files, the contracts | a failure is heard; a restart loses no contract; a dry run leaves no trace |
| **Parser, values, console** (of `scenario/src`) | none | parse, read values, complete, help, print | the interpreter | not modelled, see section 8 |
| **tests/**, **spec/**, **script/** | - | tests, Certora rules, tools | drive the contracts | read as documentation |

**What is hard here.** A transaction of the EVM is atomic, so the concurrency is
the order of transactions of users, liquidators, guardians, the admin and the
oracle; within a transaction contracts call each other and read each other's
*stored* data, some of it stale (interest of other markets), some of it in the
middle of an update (Ether that already arrived). All amounts are truncated
quotients, each rounded in another direction and another place. Failures are
mostly reverts, but several functions *return* an error code after having
written state. Timeouts and retries appear in the governance part (eta, grace
period, voting blocks) and in the distribution schedule. Votes are read at a
past block while tokens and delegates move on. Outside the chain nothing is atomic: a
deployment is a sequence of transactions and a run may die between any two; the
interpreter writes its two files one after the other, its commands wait for
files, nodes and transactions in between, and one of its merges runs while the
next commands do; a command that throws leaves behind what it did to the chain, the
files and shared objects. `PROJECT.json` lists
every hazard at its line with the properties that cover it.

## 2. Modules

| Module | Models | Notes |
|---|---|---|
| `ExponentialNoError` | the arithmetic | the scale (10^18 in the code) is a parameter |
| `JumpRateModel` | the borrow rate | a model is a record of its four constants |
| `CToken` | one market as pure operators | views, accrual, and the EFFECTS section of each `*Fresh` function map a market record to a market record |
| `Comptroller` | membership, liquidity, hooks, setters | declares the Comptroller's variables; a hook is an operator that is TRUE iff the Comptroller returns 0 |
| `MoneyMarket` | all markets + Comptroller + underlying tokens + block number | one action per transaction; the properties |
| `LendingLedger` | **abstract**: what a lending market promises of its book | `MoneyMarket` implements it; a book is a market charged with the interest until now |
| `MCMoneyMarket` | instances for TLC | constants only |
| `CompFlywheel` | the COMP distribution | operators on the record of the Comptroller's COMP storage; one operator for the supply and the borrow half |
| `RewardedMarket` | `MoneyMarket` with the distribution, the Reservoir and the COMP token | each market action joined with what its hooks write; claims, grants, drips, speeds, weights, contributors |
| `CompToken` | the governance token | balances, delegates, checkpoints; the binary search as a recursive function |
| `Timelock` | the Timelock | operators on its storage, for the actions of one proposal |
| `GovernorBravo` | Bravo over both, accounts, blocks and time | the properties of governance |
| `ProposalLifecycle` | **abstract**: what a governor promises of its proposals | `GovernorBravo` implements it, with the derived `state()` as mapping |
| `DeploymentScripts` | the fifteen scripts as data | what each fetches, deploys, reads and sends, in order; the order of the files |
| `Deployment` | runs of them on a chain | crashes, repeated runs, upgrades, the multisig |
| `ScenarioWorld` | the interpreter's world and files | operators: invariants, expectations, files, loading, merging |
| `ScenarioCommand` | the vocabulary of the command tables | a command is what it does, on which contract, by which interface |
| `ContractBuilders`, `MarketCommands`, `GovernanceCommands`, `CoreCommands` | the tables of the interpreter's commands | one record per command, as in the code's tables |
| `Scenario` | the interpreter | the loop, events, checks, jobs on files, restarts |
| `MCMoneyMarket`, `MCRewardedMarket`, `MCGovernorBravo`, `MCDeployment`, `MCScenario` | instances for TLC | constants, and start states |
| `DeploymentPlan` | what the order of the scripts comes to | statements about the value `Plan`, which TLC decides and the proofs rest on |
| `SumProofs`, `CTokenProofs`, `MoneyMarketProofs`, `RewardedMarketProofs`, `ClaimsProofs`, `GovernorBravoProofs`, `DeploymentProofs`, `ScenarioProofs` | theorems | see section 6 |

`MoneyMarket` extends `Comptroller`, which extends `CToken`, `JumpRateModel` and
`ExponentialNoError`; `RewardedMarket` extends `MoneyMarket` and `CompFlywheel`.
`GovernorBravo` extends `CompToken` and `Timelock`; `Deployment` extends
`DeploymentScripts`; `Scenario` extends `ScenarioWorld` and `CoreCommands`, which
gathers the command tables.

### The protocol: lending and rewards

**State.** `ctoken[m]` is the storage of market `m`, with `cash` for its own
balance of underlying; `underlying[m][h]` is what holder `h` has outside the
market. `comptroller` is the record of what the setters write;
`accountMembership` and `accountAssets` are the two redundant records of who is
in which market; `price[m]` is what the oracle answers. `block` is
`block.number`. `RewardedMarket` adds `flywheel`, the Comptroller's indexes,
accruals, speeds and weights; `compBalance`, the COMP everyone holds; `dripped`,
the Reservoir's count; and `compClaimed`, the Comptroller's.

**Actions.** `Mint(m, minter, amount)` is `mint` from its entry to its return:
`accrueInterest`, the hook, the freshness check, `doTransferIn`, the effects; and
likewise for each operation. Every `require`, custom error, checked subtraction
and division by zero on the path is a guard: where it fails the transaction
reverts, which is a step that changes nothing. Where the code returns an error
code instead (the Comptroller's setters, hooks) nothing has been written either,
and it is a guard too. The freshness checks hold since `accrueInterest` runs
first in the same transaction. A parameter that a caller may choose freely is
quantified over a constant set (`Amounts`, `TokenAmounts`, ...).

**Decisions worth knowing**

* *Interest of other markets.* A hook sees `ct`, in which only the calling market
  has accrued (a liquidation: both its markets), as in the code.
* *Fees.* A token of market `m` keeps `transferFee[m]` (a fraction of the scale,
  truncated) of each transfer, in both directions. Ether has none.
* *Ether.* In CEther's own frame `getCashPrior` subtracts `msg.value`; in a call
  back from the Comptroller it does not. `seenByComptroller` and `seizeRate`
  model the difference.
* *Admin.* Admin-only functions have no caller parameter: a caller who is not
  the admin reverts or gets an error code, and nothing changes. Functions open
  to a guardian too take the caller and check it.
* *UintMax* stands for `type(uint).max` where the code gives it a meaning: an
  infinite allowance, "repay all". 256-bit overflow is not reachable in the
  instances and is not modelled.
* *The flywheel.* Each hook also updates COMP indexes, which no decision of the
  risk engine reads, so `MoneyMarket` leaves those writes out and `RewardedMarket`
  joins them to its actions. The hooks run after the market's accrual and before
  its tokens or debts move, so they see `accrued(m)`; `transferAllowed` and
  `claimComp` run without an accrual and see `ctoken[m]`. That the join
  restricts no market action is the work of `RecordsArePast`, and that it adds
  none is the theorem `RewardsChangeNoMarket`.
* *Time.* The schedule and the COMP lock compare with `block.timestamp`; one unit
  of time passes per block.
* *Claims.* `claimComp` takes lists of holders and markets; the action takes two of
  each, equal ones included, which gives every order and repetition of two. The
  Comptroller itself holds seed cTokens and may be a claimant: the model lets its
  claim be counted in `compClaimed`, as the code does.
* *The unlisted market that is already used* does not exist: before
  `_supportMarket` a cToken can accrue, get donations and set parameters, and
  the model lets it.

### Governance

`comp`, `timelock` and `governor` are the storage of the three contracts;
`proposals` has Bravo's mapping by id, receipts included, and `latestProposalIds`
its own. `block` and `time` are the chain's. `history` is a ghost: what was
delegated to each account when a block ended, by the balances. An action is one
transaction, or the next block (`Mine`), which takes one of a few amounts of time. A
transaction that would revert is not taken. `queue`, `execute` and `cancel` of
Bravo reach the Timelock once per action of a proposal, in one transaction; so
the Timelock's operators take all actions of a proposal with their common eta. A transaction
in the Timelock is what is called and its eta, which is what the code hashes: two
proposals may share one. Executing `setDelay` or `setPendingAdmin` changes the
Timelock, other calls only succeed. As `deploy/010` leaves it, Bravo's admin is an
account. The governor starts as deployed, or as the Timelock's admin already, and with
an Alpha of no or of some proposals.

### The deployment scripts

A script is a sequence of steps; a step is what hardhat does without reading
the chain again: fetch contracts by name, deploy one, or read the chain and send some
transactions if it is not yet as wanted. `Plan[network]` is a whole untagged run. `pos` is the
step the run is at and `calls` what it still has to send there. `Deploy` is
hardhat-deploy's `deploy`: it keeps what is saved unless code or arguments changed.
Each transaction is an action that does what the contract does, with its check of
the admin: some revert, and end the run, others return an error code, and are mined (`Requires`).
`Crash` ends a run anywhere; `Start` begins one; `Upgrade` compiles another
version of a contract between runs; `Accept` and `Tune` are the multisig's. An address is a
name and the number of its deployment. Amounts are quarters of the UTDX supply
and smallest units of USDC; settings are only what a script makes them.

Assumed: whole runs without tags, one operator at a time, a transaction of a deployment
that is lost is not mined later, and the deployer owns the USDC of a seed.

### The scenario interpreter

`before` is the world the loop holds, `world` that of the command at work: where a
command throws (`Thrown`) the loop goes on with `before`, but `objects` (invariants, which worlds
share), `files`, `chain` and `me` (settings) keep what was done to them. `pc` is where the
interpreter is: at the prompt, in an event, waiting for files, at the checks
after an event, or before the next event of the command. The two hundred commands
differ in little; each is a record of what it does (invoke, deploy, become, read,
...), whether it needs a sender, the contract it looks up and the interface its
method belongs to, and `Scenario` has one action for each thing done. `jobs` are the reads and
writes of the two files per network, a step each, so that a process may die
(`Restart`), a read or a write fail (`FileFails`, which leaves the file as it was) or another job
run between them: the event's own and that of the one merge nobody waits for. A deployment
records an action without an invokation where the builder has deleted it, as most do. What the chain answers to a condition is one value,
which any transaction may change; what a merge or a deployment does to ABIs is a
set of interfaces. `ledger` and `event` are ghosts that the properties read: names
saved by commands that failed, and what an event did.

## 3. Runs

The market runs use scale 10 (a mantissa of 8 is 0.8; a Double of one is 10 too), so that roundings are large and
frequent, and rates per block large enough that one block moves amounts of a few
units. Deadlock is checked in `Deployment`, where a new run can always start. In the
others amounts, blocks, budgets or events are bounded, so a behaviour may end.

| Run | Instance | Asks |
|---|---|---|
| `CrossMarket` | a CErc20 and a CEther, deployed; u1 lends the first and liquidates, u2 borrows it against the second; one interest block, one price change | `TypeOK`, `TokensAddUp`, `SnapshotsArePast`, `AssetsMatchMembership`, `BorrowersAreMembers`, `ExchangeRateFallsOnlyByRounding`, `DebtFreeKeepsTokens`, `NoSelfInflictedShortfall`, `MarketsKeepTheBooks` |
| `FeeToken` | a CErc20 whose token keeps 1 of every 3 units; u2 supplies and borrows it, u1 liquidates; donations, reserves, a reserve factor of 1, borrow pause, collateral factor 0 (so it can be deprecated) | `ListedMarketStaysOpen`, `DebtFallsOnlyByPayment`, `PausesBind`, `MarketsKeepTheBooks` |
| `Administration` | from `Init`, before the listing; pauses by admin and guardian, caps, factors, approvals, transfers, donations | `UnlistedIsInert`, `ListedMarketStaysOpen`, `DebtFreeKeepsTokens`, `PausesBind` |
| `Rewards` | one deployed market where u2 supplies and borrows and u1 liquidates, free borrowing; speed 9 per side, of which the Reservoir drips 10 a block; claims of either side | `RewardsTypeOK`, `HoldersHaveIndexes`, `RewardsNeverShrink` |
| `Schedule` | from `RewardedInit`, before the listing; two blocks over a schedule of two entries, and after it the Admin's choice; weights to zero and back, grants up to 5, a contributor at speed 3; drip rate 26 | `RecordsArePast`, `SpeedsAreScheduled`, `ClaimsAreCovered`, `RewardsNeverShrink` |
| `Governance` | two holders of two votes each, quorum 2, voting delay and period 1; four budgets: two proposals with a common action; tokens that move during a vote; tokens that move often; a Timelock that changes hands | `GovernanceTypeOK`, `PriorVotesAreHistory`, `VotesAreSpentOnce`, `QueuedIsBacked`, `ProposalsLiveTheirLife` |
| `Deployment` | a network with all addresses, one without the underlying, one with none; one crash, one upgrade (Comptroller, cToken delegate or aggregator), one setting changed by the multisig | `DeploymentTypeOK`, `LendingIsGuarded`, `NothingIsPaidTwice`, `HandoverComesLast`, `Converges` |
| `Scenario` | three events or restarts, of every command (an event in a `From`, `Trx` or `Block` counts as one); a Unitroller, an implementation and two Governors; files complete, or cut short by a crash; two chain values, two invariants | `ScenarioTypeOK`, `RestartLosesNothing`, `EventsAreSelfContained`, `NoSilentBreak`, `ExpectationsAreJudged`, `DryRunLeavesNoTrace` |
| `SeedOfNothing` | first exchange rate 1.5 | `ListedMarketHasSupply` is violated |
| `FullRepayment` | one borrower, three blocks | `FullRepaymentPossible` is violated |
| `EtherPayment` | one CEther, liquidation with Ether | `PaymentIsNotCash` is violated |
| `SessionFilters` | one event | `ClearedInvariantsAreGone` is violated |

**Properties**

* `TokensAddUp`: the supply is the sum of the balances through every path, the
  three-way split of a seizure included.
* `AssetsMatchMembership`: the membership map and the list of assets agree and no
  market is listed twice, whatever the order of enter, borrow and exit. It is
  what `assert(assetIndex < len)` in `exitMarket` relies on.
* `BorrowersAreMembers`: a debt is in a market its account has entered, so that
  the liquidity computation counts it.
* `SnapshotsArePast`: a debt's interest index is one the market has passed.
* `UnlistedIsInert`: nobody mints, borrows or enters before the listing.
* `ListedMarketStaysOpen`: the seed stays with the Comptroller and reserves stay
  below cash + borrows, so neither the exchange rate nor the utilization
  rate can revert: no sequence of legal calls closes a market for good.
* `ExchangeRateFallsOnlyByRounding`: donations, fees, seizures, reserves and
  interest never lower a rate; `redeemUnderlying`, which rounds the tokens it
  burns *down*, can, by less than the value of one cToken.
* `DebtFallsOnlyByPayment`: what an account owes falls by at most the cash the
  market received in the same transaction, liquidations and fees included.
* `DebtFreeKeepsTokens`: an account without debts loses cTokens only by its own
  redeem or transfer, or within an allowance it gave: no liquidation, of a
  deprecated market or at a changed price, reaches it.
* `NoSelfInflictedShortfall`: after its own borrow, or its redeem or transfer of
  collateral, or its exit from a market, an account that owes is covered. The tolerance is one
  unit, since the hook truncates the sum of two effects term by term, and for
  `redeemUnderlying`, whose rounding can lower the rate, also what the cTokens the account
  keeps lose by it.
* `PausesBind`: with a pause on, no path mints, lends, or moves tokens.
* `MarketsKeepTheBooks`: the markets implement `LendingLedger`, where a market is a book of
  cash, lent units, reserves, tokens and debts that always has its interest. A transaction,
  whatever accruals it starts with and however many calls it consists of, is one entry:
  cTokens are bought and sold at the price the book has, rounded against the one who asks; a
  debt is made by a loan and settled by what arrived; cTokens change hands in a liquidation
  only for a debt of their owner that somebody pays. A block only charges interest,
  and a change of the reserve factor, the rate model or the configuration enters nothing. A rate
  read after the transfer it prices, or a factor applied to the blocks before it, is no entry.
* `RecordsArePast`: no block or index the flywheel recorded, and no drip, is ahead
  of the present. All its subtractions are checked, so one record ahead would make
  mints, redemptions, repayments and liquidations revert for the sake of rewards.
* `HoldersHaveIndexes`: who holds cTokens or owes came in through a hook that gave
  it an index; an account without one would be paid from the listing on.
* `SpeedsAreScheduled`: although anyone may call `_setCompSpeeds` at any time, the
  speed of an entry is not in force before the entries before it are over.
* `ClaimsAreCovered`: if everyone claimed everything now, contributors included, the
  Comptroller's COMP and what the Reservoir can drip now would pay it all. A path
  on which tokens move without a turn of the flywheel, or an index that does not
  catch up, promises the same COMP twice. It is checked where the drip rate covers the
  greatest emission, the contributor and the grants.
* `RewardsNeverShrink`: what an account has and would be owed if it claimed
  everywhere never falls: not by the transactions of others, which change what the
  emission is shared by, not by new speeds or weights, and not by a claim the
  Comptroller cannot pay, which leaves the accrual for later.
* `PriorVotesAreHistory`: the checkpoints and their binary search give, for every
  past block, what was delegated to the account when it ended, and the last
  one what is now: however many moves shared a block.
* `VotesAreSpentOnce`: a vote weighs what was delegated to the voter when voting
  began, wherever the tokens went since; the three totals are the sums of the
  receipts, and together never more than the supply.
* `ProposalsLiveTheirLife`: proposals go only forward through the stages of
  `ProposalLifecycle`, canceled and executed are final, and nobody has two proposals
  before or under the vote, although every stage is derived anew from blocks, votes,
  eta and clock.
* `QueuedIsBacked`: while Bravo is the Timelock's admin, what `state()` calls queued is
  in the Timelock, but for an entry it shared with a proposal that was canceled.
* `LendingIsGuarded`: wherever runs died, a market that takes collateral is listed and
  the Comptroller can liquidate: close factor, incentive, UTDX and a price.
* `NothingIsPaidTwice`: no share of the UTDX and no seed is paid a second time.
* `HandoverComesLast`: when the multisig is first offered anything, everything is
  configured.
* `Converges`: on a network with all its addresses, repeated runs end, for good, with what is saved
  being of the code at hand and configured, and each contract of 014 offered to the multisig or its own,
  whatever died or was upgraded and whichever contracts the multisig accepted meanwhile. Two
  exceptions are the code's. `Refused`: the multisig took the Unitroller and tuned it or has not
  wired newer code, or newer code's market waits for the Unitroller or the aggregator it took.
  `CutOff`: it accepted the aggregator or a market in the middle of 014 and the run died, or before
  newer code came; each later run throws at the accepted contract, so those after
  it in 014 may never be offered (section 5).
* `RestartLosesNothing`: at the prompt, every contract of the session is on file under its
  name, at its address and with an ABI no poorer; a new process finds it so if no other
  name is listed after it at that address. Two exceptions are the code's:
  contracts of commands that failed, and the merge that nobody waits for.
* `EventsAreSelfContained`: options, the mark of an invokation and jobs of an
  event are gone when the next one starts.
* `NoSilentBreak`: an event whose transaction failed, or that changed a fixed
  value, ends well only if the invariant was held, or no recorded invokation did it.
* `ExpectationsAreJudged`: no expectation is dropped without having been met.
* `DryRunLeavesNoTrace`: a dry run writes no network file, deploys nothing and changes the
  chain only by the commands that do not go through `invoke`.

**Bounds.** Two accounts and the Comptroller as a third holder are enough for
every role: supplier, borrower, liquidator, spender. Two markets give the two
roles in a liquidation and lists of length two for swap-and-pop (the
proof covers every length). Amounts are one or two sizes chosen so that each
rounding branch occurs; initial balances bound everything else. `MaxBlock` bounds
accruals; the interest of one block is enough to move a borrower from solvent to
insolvent and to make a seizure's roundings differ. The reward runs need one
block for accruals to differ by when accounts came, and two to pass an entry of the
schedule; 10 dripped against 18 emitted makes grants fall short, 26 covers
emission, contributor and grant. Their markets charge no interest, see
section 5. No run forces Ether into a CEther, which `Donate` allows; the theorems cover it.
What depends on more markets, more accounts, longer histories or other scales is the subject of the proofs.

In `Governance`, two holders of whom one makes the quorum decide every vote; six
blocks of one or three seconds with a delay of 1 and a grace period of 2 reach each
of the eight states, and both ends of the grace period; up to five moves
of one block or several give searches of every shape over up to four checkpoints. A budget of
transactions per kind keeps the product finite; which kinds need to meet is what
the four budgets say. In `Deployment` one crash is before any step or transaction of a run, and
the run after it runs from the start, so that a second adds only a repetition; one
upgrade of a contract behind a proxy, one that markets are built from, one that
others are configured with. In `Scenario` three steps are a command that saves, one that
races or fails, and a restart or a check. The proofs cover every number of names,
events, invariants, restarts, values and commands.

**Fairness and liveness.** `FairDeploymentSpec` is weakly fair to `Proceed`, since a
running script does its next step, and to `Start`, since the operator repeats a
run that ended. Nothing makes the multisig accept. Crashes and upgrades need no
fairness: they are bounded, and a run that dies for ever promises nothing. The
contracts have none: every operation waits for a caller, and the code schedules nothing; nobody
must ever drip, claim, accrue, vote, queue or execute. The interpreter waits
for the user.

**Mutants.** Operators commented "Faulty variant" are plausible bugs in a mapped
definition: a dropped guard, a swapped order, an amount sent for an amount
received. Each property of a passing run has one that breaks it; no other
definition uses them.

## 4. What the runs found

Three comments say what the arithmetic does not do, and one what a command does not.

1. `Comptroller.sol:1030`, "mints small amount of cToken to prevent empty market
   exploit": with a first rate of 1.5 underlying units per cToken the seed is
   1 unit, and 1 / 1.5 truncates to 0 cTokens (`SeedOfNothing`). A rate below
   one, or a whole multiple of one, as deploy/ uses, does mint the seed.
2. `CToken.sol:617`, "-1 for the full outstanding amount": `totalBorrows`
   truncates at each accrual, a stored balance once, so the last borrower's balance
   can exceed `totalBorrows`, and the checked subtraction in line 680 reverts
   (`FullRepayment`). Repaying one unit less works.
3. `CEther.sol:127-128`, getCashPrior "excludes the value of the current message":
   not in calls the Comptroller makes back during that message
   (`EtherPayment`). The exchange rate is read too high while the liquidation of
   an Ether debt is decided.
4. `scenario/src/CoreEvent.ts:585`, "ClearInvariants All" "Removes all invariants":
   `clearInvariants` keeps what `getInvariantFilter` is true of, and for All, which is the
   default, it is true of every one (`SessionFilters`). The same filter in
   `holdInvariants` marks what it is true of, so there All is right and
   "HoldInvariants Success" holds every kind but that.

## 5. Observations without a run

* `closeFactorMinMantissa` and `closeFactorMaxMantissa` (Comptroller.sol:88-92)
  are never read: `_setCloseFactor` accepts any value, and so does the model.
* `redeem(0)` takes the branch of `redeemUnderlying`, so `TokenAmounts` leaves 0 out.
* With interest, the borrowers' shares (each balance / index, truncated twice) can add
  up to more than `totalBorrows / borrowIndex` (truncated once per accrual), the
  same divergence as in finding 2, and then a block promises slightly more COMP than
  it emits. `ClaimsAreCovered` is therefore checked where borrowing is free, and proved until a market has had interest.
* A speed stays in force after its entry is over until somebody calls
  `_setCompSpeeds`: `SpeedsAreScheduled` bounds speeds from one side only.
* `_setCompWeight` returns an error code, without reverting, after it has updated
  the indexes of all markets. The action keeps those updates; `ClaimsAreCovered` and
  `RewardsNeverShrink` hold with them.
* `updateContributorRewards` starts a contributor whose speed was never set at block
  0, but `_setContributorCompSpeed` records the block before any speed can count.

*Governance*

* A proposal with the same action twice can succeed but never be queued.
* `cancel` accepts a proposal that is canceled already, and a second time takes what
  another proposal has queued at the same eta with the same action: the exception
  in `QueuedIsBacked`.
* At eta + GRACE_PERIOD exactly, `state()` says Expired while the Timelock would
  still execute. A proposal that succeeded never expires before it is queued.
* `_initiate` with an Alpha that never had a proposal leaves `initialProposalId` 0: Bravo
  has the Timelock and can never propose.

*Deployment*

* On the main network (chain 2001) the underlying of xUSDC is the empty string: 005 throws and a
  run never gets to 006 and beyond. On any other, unknown network xUSDC is skipped, and the run ends where
  a script asks for the oracle it does not have.
* 002 fetches Comp, and 012 to 014 what others deploy, without declaring the
  dependency: only the order of the file names helps, and not a run by tag.
* A run that dies between the two transfers of 014 leaves a balance its guard (equal
  to five billion) never recognizes: the CompLock does not get its share.
* Once the multisig is the Unitroller's admin, `_setCloseFactor` reverts for the deployer
  and a run that wants to set it dies there, while the other setters return error
  codes and the run goes on.
* 014 offers the contracts again in every run, in one order, and but for the Unitroller's each
  `_setPendingAdmin` reverts once the multisig is admin (014-post-deployment.js:62-64). If the
  multisig accepts, say, xUSDCDelegator while 014 is running and that run dies, every later run
  throws there: XMada and GovernorBravoDelegator are never offered. With the
  aggregator taken, runs already stop at its setters in 005 and 006, which they call always.
* A new version of CErc20Delegate changes an argument of the delegator: a second xUSDC market
  is deployed and listed, and the first stays listed. A new aggregator leaves markets without a
  price until 005 and 006 have run. A Reservoir deployed anew is not wired.
* Nothing initiates GovernorBravo or nominates it in the Timelock.

*Scenario interpreter*

* `Comptroller Send` goes past `invoke`: not recorded, not checked, and sent in a dry
  run; so are mining and the clock. `Alias` writes settings in a dry run.
  `SetPaused` throws always; commands for the generations G1 to G6 name artifacts and methods
  that are not in the repository.
* `GovernorBravo SetImplementation` does not wait for its merge: the session never gets the
  merged ABI, and a save under way at that time can be overwritten by it, or it by the save.
  Hence the exception in `RestartLosesNothing`.
* `Become` merges ABIs even if the call failed, and a merged ABI only grows.
* A command that fails leaves contracts on file and on the chain that the
  session does not know. A process that dies between its two writes leaves a name
  without an ABI. Two names at one address shadow each other when loaded: a merged
  contract is listed after the proxy it is made of by the order of the file alone, and a
  name that a failed command moved to an address can hide there what the session has
  (MergeABI with a Governor that was deployed anew, twice, and then a throw: four events).
* Invariants stay held when the command after HoldInvariants fails, and an expectation of the
  world before it is measured from there. `Assert` may judge an invokation of long
  ago. `initWorld` starts with `newInvokation` set, so invariants are checked before
  anything was invoked. Deployments ignore a `Trx` value.

## 6. Proofs

For every number of markets and accounts, every scale, fee, price, rate and
amount, every schedule, every voting period and delay, from the assumptions the modules
name (`ExpScaleAssumption`, `CTokenAssumption`, `MoneyMarketAssumption`, `CompFlywheelAssumption`,
`RewardedMarketAssumption`, `GovernorConstants`, `DelaysAreNaturals`, `NobodyHolds`,
those at the head of `ScenarioWorld` and `Scenario`, and those of `DeploymentPlan`):

| Theorem | States |
|---|---|
| *Markets* | |
| `TypeCorrect` | `Spec => []TypeOK`: no balance, total or index leaves the naturals |
| `DebtorsStayMembers` | `Spec => []BorrowersAreMembers` |
| `AssetsFaithful` | `Spec => []AssetsMatchMembership` |
| `UnlistedStaysInert` | `Spec => []UnlistedIsInert` |
| `SnapshotsStayPast` | `Spec => []SnapshotsArePast` |
| `TokensStayAddedUp` | `Spec => []TokensAddUp` |
| `Invariance` | `Spec => []IndInv`, the conjunction of the six |
| `DebtsArePaidFor` | `Spec => DebtFallsOnlyByPayment` |
| `TokensOfDebtFreeAreSafe` | `Spec => DebtFreeKeepsTokens` |
| `PausesAreRespected` | `Spec => PausesBind` |
| `MarketsStayOpen` | `Spec => []ListedMarketStaysOpen`, if `SeedIsEnough` |
| `RatesOnlyRoundDown` | `Spec => ExchangeRateFallsOnlyByRounding`, if `SeedIsEnough` |
| `NobodySinksThemselves` | `Spec => NoSelfInflictedShortfall` |
| `DeployedMarketsAreSound` | the invariant and these action properties, from the deployed state: `DeployedInit(cf, rf, seed) /\ [][Next]_vars` |
| `DeployedMarketsStayOpen` | from there also `[]ListedMarketStaysOpen` and `ExchangeRateFallsOnlyByRounding`, if `SeedIsEnough` |
| `MarketsAreLedgers` | `Spec => MarketsKeepTheBooks`, if `SeedIsEnough`: `MoneyMarket` implements `LendingLedger` |
| `DeployedMarketsAreLedgers` | the same from the deployed state |
| *Rewards* | |
| `RewardsChangeNoMarket` | `RewardedSpec => Spec`: the market with rewards implements the one without, and inherits its theorems |
| `RewardedMarketsAreLedgers` | among them `RewardedSpec => MarketsKeepTheBooks`, if `SeedIsEnough` |
| `RecordsStayPast` | `RewardedSpec => []RecordsArePast` |
| `RewardsTypeCorrect` | `RewardedSpec => []RewardsTypeOK`: no grant, payment or drip goes below zero |
| `SpeedsStayScheduled` | `RewardedSpec => []SpeedsAreScheduled`, for schedules in any order |
| `HoldersWereGivenIndexes` | `RewardedSpec => []HoldersHaveIndexes` |
| `NothingEarnedIsLost` | `RewardedSpec => RewardsNeverShrink` |
| `DeployedRewardsAreKept` | the same from the deployed state, seeded and with its speeds set |
| `ClaimsStayCovered` | `RewardedSpec => [](withoutInterest => ClaimsAreCovered)`, if the drip covers the speeds (`DripIsEnough`) |
| `DeployedClaimsStayCovered` | the same from the deployed state, seeded and with its speeds set |
| *Governance* | |
| `BravoImplementsLifecycle` | `GovernanceSpec => ProposalsLiveTheirLife`: the refinement of `ProposalLifecycle` |
| `QueuedStaysBacked` | `GovernanceSpec => []QueuedIsBacked` |
| `GovernanceTypeCorrect` | `GovernanceSpec => []GovernanceTypeOK` |
| `GovernanceInvariance` | `GovernanceSpec => [](GovernanceInv /\ Budgeted)` |
| `PriorVotesFound` | the binary search over ordered checkpoints returns the votes of the last one not after the block, or 0 |
| `PastVotesStand` | `GovernanceSpec => []PriorVotesAreHistory` |
| `VotesStaySpentOnce` | `GovernanceSpec => []VotesAreSpentOnce` |
| *Deployment* | |
| `DeploymentTypes` | `DeploymentSpec => []DeploymentTypeOK`: no run uses an address that is not known |
| `LendingStaysGuarded` | `DeploymentSpec => []LendingIsGuarded` |
| `HandoverIsLast` | `DeploymentSpec => HandoverComesLast` |
| `PaidOnce` | `DeploymentSpec => []NothingIsPaidTwice` |
| *Interpreter* | |
| `SessionTypeCorrect` | `ScenarioSpec => []ScenarioTypeOK` |
| `EventsStaySelfContained` | `ScenarioSpec => []EventsAreSelfContained` |
| `BreaksAreHeard` | `ScenarioSpec => NoSilentBreak` |
| `ExpectationsStayUntilJudged` | `ScenarioSpec => ExpectationsAreJudged` |
| `DryRunsLeaveNoTrace` | `ScenarioSpec => DryRunLeavesNoTrace` |
| `RestartsLoseNothing` | `ScenarioSpec => []RestartLosesNothing`, for any order of the names on file |
| `SessionInvariance` | `ScenarioSpec => []IndInv` of the session |

**The invariant of the markets.** No one of the facts is inductive alone. `exitMarket` compares a
stored balance with zero; that a balance of zero is a principal of zero needs the
snapshot's index to be past (`SnapshotsArePast`: principal × index now / index
then does not round below principal). That the removed entry is the only one for
the market needs the list to be without repetitions (`AssetsMatchMembership`). That
an unlisted market has no borrows needs its borrowers to be members and members
to be in listed markets. That what a seizure or a redemption takes from an account can
be taken from the supply too needs the balances to add up (`TokensAddUp`).
That arithmetic stays in the naturals needs indexes that
are not zero.

`CTokenProofs` proves of each operator on a market that it maps a
`validMarket` to a `validMarket` under the guard of its callers, and whose debts it
changes. `MoneyMarketProofs` proves that joining a market, and swap-and-pop, keep
the two structures `matching`, and has one lemma per action,
from `SoundMarketsSuffice` (a transaction that replaces markets by sound ones keeps
the invariant), `MatchingPositionsSuffice` and `ConfigurationSuffices`; `StepKeeps`
joins them, and the theorems follow by temporal reasoning. `SumProofs` has the facts
about `SumFunctionOnSet` that sums over holders and markets need (over zeros, over naturals,
after a change at one point, term by term). That operator chooses a solution of a recursive
equation; the lemmas show that there is one and that the order of the summands does not
matter, by induction on sets of numbers and of subsets instead of predicates. Hence
the assumption that the holders are finitely many.

**What a step does to a market.** The action properties compare a market before and after any
action. `StepEffects` says, of each market and every step, that it is left alone, or
accrues, or one of the operators of `CToken` was applied to what it was after accrual, and under
which of the Comptroller's answers; each theorem then is a fact about each effect. A debt falls
by an amount that came in; a balance of cTokens falls by its owner's or a spender's doing, or
by a seizure that the Comptroller allowed for a debt; a paused function has no effect left.

`ListedMarketStaysOpen` and the exchange rate need one more invariant (`OpenInv`: reserves never exceed
cash and borrows, and in a listed market there is more, and the Comptroller has cTokens). It starts with the seed, and the seed may be worth nothing (section 4, finding 1). So these two theorems
assume `SeedIsEnough`: whatever a market can be listed with buys at least one cToken at its first
rate. It is a condition on the first exchange rates, the fees and the Ether sent along, not
on the code; TLC finds it true of the constants of every market run but
`SeedOfNothing`, and that run shows what happens without it. A rate is compared by its
products, without a division: whoever mints or redeems gets no more than the rate gives, rounded down, except that
`redeemUnderlying` rounds the tokens it burns.

`NobodySinksThemselves` compares the sum a hook judged before the step with the sum after it, over a
list of markets of any length. They differ in the one term of the market acted on
(`LiquidityMoves`), so the work is in that term: the hook adds the value of what leaves to the debts, the step takes
it from the collateral (or, for a borrow, joins two truncated debts into one), and a sum truncated once and its terms
truncated each differ by at most one (`TruncatedSum`). The tokens that remain are valued at the rate after the
step, which does not fall when tokens are redeemed (`TokensLeftCovered`) and falls by the rounding when
underlying is. An exit removes a whole term from the list that
swap-and-pop leaves, whose order changes (`ExitCovered`).

**The markets are ledgers.** The mapping of `MarketsAreLedgers` reads a market as it would be after
`accrueInterest`: the book of a market has its interest in every block, though the code charges
it when somebody comes. The proof gives that charge one form, `chargedBy` a factor, the rate times the
blocks since the last operation. A transaction accrues first, so its book is the one before it
and the operation is the entry: a fact about one operator of `CToken` per entry, under
what the hooks and the guards of the caller grant. Where the code accrues nothing (transfers, plain
donations, the setters of the Comptroller) the charge of the record changed must be the changed book. It
is, but for a donation: cash lowers the utilization, hence the rate at which
the blocks since the last operation will be charged, and the interest the book had so far
turns out lower (`RateFallsWithCash`, `Gift`). It never rises by it. In a liquidation the
accruals, the repayment and the seizure come together, in one market or two, and the entry is
made of the first book of each. When a block passes, every factor grows, and more is charged
(`FactorGrows`, `ChargedMore`). The book's price needs cash and borrows above the reserves, hence `OpenInv` and
`SeedIsEnough`, and so does the book itself where it is read: utilization is a quotient.

**The invariant of the rewards.** `RewardedMarketProofs` first shows that every rewarded step is a market step or leaves
the market alone, which gives `IndInv` in every state. On top of it `RewardsInv` (types and
past records) is inductive: each operator of the flywheel keeps a record `wellKept`,
since indexes only grow and an account's index is set to its market's; each
action then turns the flywheel to a well-kept record, leaves it, or sets the speeds.
Which of the three it is, `StepsTurn`, also gives `SpeedsStay`.

`RewardsNeverShrink` is about a sum of truncated quotients, so its proof says what no quotient does. `worth` is what
an account has accrued, what it gets as a contributor, and what both sides of each listed
market have for it (`pending`); `Accounted` identifies it with `owedComp`. The steps come in
four kinds. (1) A hook distributes: what becomes accrued was pending, and worth is the same to
the unit (`keeps`). (2) A transaction then moves shares: only of accounts that its hooks have just
served (`Settled`), which have nothing pending, whatever their shares become; what others have pending
depends on their own shares and the index of this block, which no longer moves. This is where
a forgotten `distribute…Comp` would show. (3) A claim, a grant, a drip, a new speed or weight
moves no market: indexes are brought up to date first, and what a claim takes from the accrued it pays, or leaves if it
cannot (`FlywheelTurn`). (4) A new block only adds (`EarnedGrows`). That an account's own index may be 0, which counts as the
first index 1e36, makes the first distribution special: `RewardsStarted` says that a listed market's index
is at least that, that an unlisted market has none, and that a holder was given one. A debt's share is the principal over
the borrow index, so interest moves its rounding: the exception in the property is
the only case the proof has to leave out.

`ClaimsAreCovered` compares a sum over all accounts with what was emitted, and no step keeps the two in
balance: a supply that shrinks makes the same index promise less, rounding loses some, and a claim takes from
both. `ClaimsProofs` therefore follows one number, `outlay`: what everyone is promised, in parts of a COMP, and
what was ever paid. No transaction but a grant raises it, however it moves shares, since its hooks have
settled the accounts that it moves; a new block raises it by at most what the speeds and the contributors emit
(`emission`). A side of a market hands out its emission as a truncated quotient times the shares of the
accounts; those add up to the total that it divided by (`TokensAddUp` for cTokens, and for debts
that the principals add up to `totalBorrows`), so the sum is at most the emission. By the time of a
block the Reservoir has dripped, or can drip, the rate times the block. The theorem has two hypotheses,
both needed. `DripIsEnough` bounds what the environment may try: twice the speed (a speed is paid on both sides), a
contribution for each claimant and all grants together are at most what a block drips, and the Reservoir has that
for all blocks. The constants of `Schedule` meet it with equality. `withoutInterest`: as long as no market's
borrowIndex has moved. Once it has, the shares of the borrowers can add up to more
than their total (section 5), and the property is false in general.

**Governance.** `GovernanceInv` says that the contracts have their types, that ids
are given in order, that what has an eta has won a vote that is over, that only
the latest proposal of an account can be live, and that what stands queued is in
the Timelock and shared by no other standing proposal, unless dropped. The third part makes
`state()` stable: no vote can change after the end, so a proposal that succeeded
cannot become defeated. The fourth lets Bravo look at one proposal where the abstract
specification looks at all. The last needs `queueOrRevert`: an action that is
queued for that eta cannot be queued again. One lemma per action maps it to a step of
the life cycle, or to a stutter. Ordered checkpoints and the budget are a second invariant
(`Budgeted`) on top of it.

The proofs about votes unfold the binary search by its recursive equation and follow the length of the
range, by induction on a set of numbers: the range always holds the last checkpoint not
after the block. On top of that `PastVotesStand` keeps, for each account, that its newest checkpoint is what
is delegated to it now, and that its checkpoints tell what the history has for every block before (`Truthful`), through transfers, delegations
and a second move in one block, which overwrites. `VotesStaySpentOnce` adds that a proposal's votes are the sum of its
receipts, that a receipt is the votes at the proposal's start, and that these add up to no more
than the tokens.

**Deployment.** What the scripts do is data, so its proofs rest on what TLC decides of `Plan` in
`DeploymentPlan`: every step is well made, and what a step needs is deployed or sent by a
step before it. For any networks, names, crashes, upgrades and settings, `RunInv` then says that a run
has passed only steps whose contracts are current, `ChainInv` what the chain has when a
call was sent before, and `SharesInv` how far the UTDX has been divided. A
theorem about runs rests on the order of steps only through those assumptions, so a script
added in a wrong place makes TLC fail, not a proof.

**The interpreter.** `IndInv` adds to the types that dry runs have no job that
writes, that merges are of named contracts, and two accounts of an event under way:
`EventSeen` (whatever it did that an invariant looks at is marked, or will be when its
files are written) and `Clean` (the world to return to carries nothing of an event). The
action properties follow from it, action by action, for every table of commands.

`RestartLosesNothing` needs a second invariant (`FilesInv`), as a prompt says nothing of how
the files came about. While no merge has been left running, both the world at work and the
world to return to have of each name what is on file (`OnFile`), but for the names a failed
command saved, those the command at work has saved (for the world to return to) and the one
in work (for the world at work). Of that one `JobOnFile` says what the session has been told
and what the job has read, may still write, and changes: its own name and no other. A
contract stored at an address hides what had another name there, and never changes it.

**Assumed of the constants of the markets:** a positive scale, fees and the seize share at
most 1, an admin among the accounts, the Comptroller not among them, positive
first exchange rates. The theorems start from `Init`, where nothing is listed. As the runs
that need a listed market start from the deployed state, there are theorems that start there too
(`Deployed…`), for every list of factors within the limits and every seed that the
underlying's transfers can bring: `DeployedEstablishes` shows that the state the scripts leave
has the invariant, and each step theorem is stated from any state that has it.

**Only model-checked:** liveness (`Converges`), which is out of the prover's reach, and
`ClaimsAreCovered` beyond the hypotheses of its theorem, where it is not true in general (section 5).

## 7. Plan

Done, in this order:

1. `ExponentialNoError`, `JumpRateModel`, `CToken`, `Comptroller`, composed in
   `MoneyMarket`: lending and its safety.
2. The inductive invariant of `MoneyMarket` and its theorems.
3. `CompFlywheel` with the Reservoir, composed with `MoneyMarket` in `RewardedMarket`:
   no reward is lost, promised twice or ahead of its block.
4. The invariant of `RewardedMarket`, and that it implements `MoneyMarket`.
5. `CompToken`: delegation and checkpoints against a history of votes.
6. `Timelock` and `GovernorBravo`, the abstract `ProposalLifecycle`, the refinement and its
   proof.
7. `DeploymentScripts` and `Deployment`: runs that die and are repeated.
8. `ScenarioWorld`, the command tables and `Scenario`, and its theorems.
9. The theorems about what a step may do: debts, pauses, tokens, exchange rates, rewards; the
   liquidity of accounts; the votes; the COMP that is promised; `DeploymentPlan` and the theorems
   about the deployment.
10. `LendingLedger`, the refinement and its proof.

Left:

11. `Maximillion`, `CompLock.transfer`, the two-step handover of the cTokens and the
   delegators.
12. `ReentrantMarket`: the frames inside a transaction, with the nonReentrant lock per
    market and none in the Comptroller.
13. A run of the rewards with interest, with a bound on the excess of section 5.
14. Bravo as its own admin, with proposals that change its settings.

## 8. Not modelled, and why

* `CDaiDelegate` (not deployed; talks to MakerDAO contracts that are not here),
  `CompoundLens` (reads only), `SafeMath` and `ErrorReporter` (guards and codes),
  tests, Certora specifications and build tools (not the program).
* Of the market: the supply rate (a view), events, `sweepToken`,
  `_delegateCompLikeTo`, the cTokens' own admin handover and `_setComptroller`, and
  reverts of hostile or paused underlying tokens (a transfer that fails reverts the
  whole transaction, which changes nothing).
* Of governance: votes and delegations by signature (the same operations, with a
  nonce), allowances of Comp, `_setImplementation`, what a proposal's target does, and
  Bravo as its own admin.
* Of the deployment: runs by tag, verification, the values of parameters and what
  the lenses and the Maximillion do once deployed.
* Of the interpreter: the parser (a generated grammar), the fetchers of `CoreValue.ts`
  and `Value/` (they read the chain and change nothing), completion, help and
  printing, `Web3Fork` and the hypothetical runs of `Hypothetical.ts`, the commands
  `EventBuilder.ts` derives from the ABI of mock contracts, and switching
  the network by `UseConfigs`.
