----------------------------- MODULE Deployment -----------------------------
(***************************************************************************)
(* `npx hardhat deploy`: the scripts of deploy/ run one after the other,   *)
(* each awaiting every transaction it sends.  A run may die between any    *)
(* two of its steps and be started again, the operator may compile a new   *)
(* version of a contract between two runs, and the multisig accepts, when  *)
(* it likes, the contracts the last script offers it.  A run reads the     *)
(* chain again at every step: what it already did it must not do twice.    *)
(***************************************************************************)
EXTENDS DeploymentScripts

CONSTANTS RunsOn,        \* the networks of the instance
          Upgradable,    \* the contracts whose code the operator may change
          MaxCrashes,    \* bound: runs that die
          MaxUpgrades,   \* bound: new versions compiled
          MaxTunes       \* bound: settings the multisig changes

(* A new Unitroller or Comp is another protocol or another token. *)
ASSUME ConstantsOK ==
  /\ RunsOn \subseteq Networks
  /\ Upgradable \subseteq Names \ {"Unitroller", "Comp"}
  /\ MaxCrashes \in Nat /\ MaxUpgrades \in Nat /\ MaxTunes \in Nat

VARIABLES
  network,    \* the network of --network
  code,       \* by name, the version of the contract the sources compile to
  saved,      \* deployments/<network>/: what is deployed under each name
  proxy,      \* storage of the Comptroller, at the Unitroller
  markets,    \* by cToken, the Comptroller's markets and the reserve factor
  sources,    \* by oracle aggregator, the cTokens with a source of prices
  prices,     \* SimplePriceOracles that hold the price of USDC
  utdx,       \* UTDX of the deployer and of each contract, in quarters of the supply
  seed,       \* USDC of the Comptroller, in smallest units
  nominated,  \* contracts whose pendingAdmin is the multisig
  handed,     \* contracts whose admin is the multisig; the deployer's otherwise
  pos,        \* the step of Plan the run is at, 0 when none is running
  calls,      \* the transactions of that step still to send
  left        \* crashes, upgrades and settings left

chainVars == << proxy, markets, sources, prices, utdx, seed, nominated, handed >>
deploymentVars == << network, code, saved, chainVars, pos, calls, left >>

(* Addresses by name and number of deployment: a name has no more versions
   than it and the contracts of its arguments have upgrades. *)
Numbers == 1 .. MaxUpgrades + 1
Nowhere == << "nowhere", 0 >>

Undeployed == [number |-> 0, code |-> 0, args |-> {}]
At(name) == << name, saved[name].number >>
(* A plausible slip: a name without an address does not stop the run. *)
KnownBlindly(name) == name \in DOMAIN saved \cup Externals("devnet")

Known(name) == name \in Externals(network) \/ (name \in DOMAIN saved /\ saved[name].number > 0)

Supply == 4
Shares == [Reservoir |-> 3, CompLock |-> 1]
Markets == {"xUSDCDelegator", "XMada"}
HandedOver == Markets \cup {"Unitroller", "OracleAggregatorV1", "GovernorBravoDelegator"}

NotListed == [listed |-> FALSE, collateralFactor |-> FALSE, compWeight |-> FALSE, reserveFactor |-> FALSE]

DeploymentInit ==
  /\ network \in RunsOn
  /\ code = [n \in Names |-> 1]
  /\ saved = [n \in Names |-> Undeployed]
  /\ proxy = [implementation |-> Nowhere, pendingImplementation |-> Nowhere, comp |-> Nowhere,
              reservoir |-> Nowhere, closeFactor |-> "zero", liquidationIncentive |-> "zero",
              oracle |-> Nowhere]
  /\ markets = [a \in Markets \X Numbers |-> NotListed]
  /\ sources = [n \in Numbers |-> {}]
  /\ prices = {}
  /\ utdx = [a \in {<<"deployer", 0>>} \cup ({"Reservoir", "CompLock"} \X Numbers) |-> 0]
  /\ seed = 0
  /\ nominated = {} /\ handed = {}
  /\ pos = 0 /\ calls = <<>>
  /\ left = [crashes |-> MaxCrashes, upgrades |-> MaxUpgrades, tunes |-> MaxTunes]

-----------------------------------------------------------------------------
(* The run. *)
Running == pos # 0
Here == Plan[network][pos]
Later == IF pos = Len(Plan[network]) THEN 0 ELSE pos + 1

Start ==
  /\ ~Running /\ pos' = 1
  /\ UNCHANGED << network, code, saved, chainVars, calls, left >>

(* The process dies, or the node stops answering. *)
Crash ==
  /\ Running /\ left.crashes > 0
  /\ pos' = 0 /\ calls' = <<>> /\ left' = [left EXCEPT !.crashes = @ - 1]
  /\ UNCHANGED << network, code, saved, chainVars >>

(* A plausible slip: an exception of a step is logged and the run goes on. *)
ThrowsGoOn == pos' = Later /\ calls' = <<>>

(* An exception ends the run. *)
Throws == pos' = 0 /\ calls' = <<>>

(* A name that was never deployed here, or an address this network lacks. *)
MissingName ==
  /\ Running /\ calls = <<>>
  /\ ~(\A n \in Here.uses : Known(n))
  /\ Throws
  /\ UNCHANGED << network, code, saved, chainVars, left >>

AtStep == Running /\ calls = <<>> /\ \A n \in Here.uses : Known(n)

(* deploy() keeps what is saved unless the code or an argument changed. *)
Arguments == {At(n) : n \in Here.uses \cap DOMAIN saved}
UpToDate(name) ==
  saved[name].number > 0 /\ saved[name].code = code[name] /\ saved[name].args = Arguments

Deploy ==
  /\ AtStep /\ Here.deploys # "nothing"
  /\ saved' = IF UpToDate(Here.deploys) THEN saved
              ELSE [saved EXCEPT ![Here.deploys] =
                      [number |-> @.number + 1, code |-> code[Here.deploys], args |-> Arguments]]
  /\ utdx' = IF Here.deploys = "Comp" /\ ~UpToDate("Comp")
             THEN [utdx EXCEPT ![<<"deployer", 0>>] = Supply] ELSE utdx
  /\ pos' = Later
  /\ UNCHANGED << network, code, proxy, markets, sources, prices, seed, nominated, handed, calls, left >>

(* What a step reads before it sends, and finds different. *)
MarketOf == IF Here.calls = <<>> THEN Nowhere ELSE At(Here.calls[1].on)

(* A plausible slip: only a seed that is missing shows a market is new. *)
ListingWantedBySeed == Here.calls[1].call = "transferSeed" => seed = 0

ListingWanted == ~markets[MarketOf].listed
SharesWanted == utdx[<<"deployer", 0>>] = Supply

Wanted ==
  \/ Here.wants = "always"
  \/ Here.wants = "implementation" /\ proxy.implementation # At("Comptroller")
  \/ Here.wants = "compParameters" /\ proxy.comp = Nowhere
  \/ Here.wants = "closeFactor" /\ proxy.closeFactor # "scripted"
  \/ Here.wants = "liquidationIncentive" /\ proxy.liquidationIncentive # "scripted"
  \/ Here.wants = "oracle" /\ proxy.oracle # At("OracleAggregatorV1")
  \/ Here.wants = "price" /\ At("SimplePriceOracle") \notin prices
  \/ Here.wants = "listing" /\ ListingWanted
  \/ Here.wants = "collateralFactor" /\ ~markets[MarketOf].collateralFactor
  \/ Here.wants = "compWeight" /\ ~markets[MarketOf].compWeight
  \/ Here.wants = "reserveFactor" /\ ~markets[MarketOf].reserveFactor
  \/ Here.wants = "shares" /\ SharesWanted

Read ==
  /\ AtStep /\ Here.deploys = "nothing"
  /\ IF Wanted THEN calls' = Here.calls /\ pos' = pos ELSE calls' = <<>> /\ pos' = Later
  /\ UNCHANGED << network, code, saved, chainVars, left >>

-----------------------------------------------------------------------------
(* One transaction of the step, sent and awaited. *)
Calling(call) == Running /\ calls # <<>> /\ Head(calls).call = call
On == At(Head(calls).on)

Mined == calls' = Tail(calls) /\ pos' = IF Len(calls) = 1 THEN Later ELSE pos

(* The deployer is the admin until the multisig has accepted. *)
Owns(name) == At(name) \notin handed

(* The transaction reverts, and with it the run, unless ok. *)
Requires(ok) == IF ok THEN Mined ELSE Throws

(* msg.sender != admin returns an error code: the transaction is mined. *)
SetPendingImplementation ==
  /\ Calling("_setPendingImplementation") /\ Mined
  /\ proxy' = IF Owns("Unitroller")
              THEN [proxy EXCEPT !.pendingImplementation = At("Comptroller")] ELSE proxy
  /\ UNCHANGED << network, code, saved, markets, sources, prices, utdx, seed, nominated, handed, left >>

(* Comptroller._become and Unitroller._acceptImplementation. *)
Become ==
  LET ok == Owns("Unitroller") /\ proxy.pendingImplementation = At("Comptroller")
  IN /\ Calling("_become") /\ Requires(ok)
     /\ proxy' = IF ok THEN [proxy EXCEPT !.implementation = At("Comptroller"),
                                          !.pendingImplementation = Nowhere] ELSE proxy
     /\ UNCHANGED << network, code, saved, markets, sources, prices, utdx, seed, nominated, handed, left >>

InitializeCompParameters ==
  LET ok == Owns("Unitroller")
  IN /\ Calling("_initializeCompParameters") /\ Requires(ok)
     /\ proxy' = IF ok /\ proxy.comp = Nowhere
                 THEN [proxy EXCEPT !.comp = At("Comp"), !.reservoir = At("Reservoir")] ELSE proxy
     /\ UNCHANGED << network, code, saved, markets, sources, prices, utdx, seed, nominated, handed, left >>

SetCloseFactor ==
  LET ok == Owns("Unitroller")
  IN /\ Calling("_setCloseFactor") /\ Requires(ok)
     /\ proxy' = IF ok THEN [proxy EXCEPT !.closeFactor = "scripted"] ELSE proxy
     /\ UNCHANGED << network, code, saved, markets, sources, prices, utdx, seed, nominated, handed, left >>

(* A plausible slip: the Comptroller is asked in place of its proxy. *)
SetLiquidationIncentiveOfImplementation ==
  /\ Calling("_setLiquidationIncentive") /\ Mined
  /\ UNCHANGED << network, code, saved, proxy, markets, sources, prices, utdx, seed, nominated, handed, left >>

SetLiquidationIncentive ==
  /\ Calling("_setLiquidationIncentive") /\ Mined
  /\ proxy' = IF Owns("Unitroller") THEN [proxy EXCEPT !.liquidationIncentive = "scripted"] ELSE proxy
  /\ UNCHANGED << network, code, saved, markets, sources, prices, utdx, seed, nominated, handed, left >>

SetPriceOracle ==
  /\ Calling("_setPriceOracle") /\ Mined
  /\ proxy' = IF Owns("Unitroller") THEN [proxy EXCEPT !.oracle = At("OracleAggregatorV1")] ELSE proxy
  /\ UNCHANGED << network, code, saved, markets, sources, prices, utdx, seed, nominated, handed, left >>

(* A plausible slip: the balance of the Comptroller is not read first. *)
TransferSeedAlways ==
  /\ Calling("transferSeed") /\ Mined
  /\ seed' = seed + 1
  /\ UNCHANGED << network, code, saved, proxy, markets, sources, prices, utdx, nominated, handed, left >>

(* if (mintAmount.gt(comptrollerUnderlyingTokenBalance)): the smallest unit,
   unless an earlier run left it there. *)
TransferSeed ==
  /\ Calling("transferSeed") /\ Mined
  /\ seed' = IF seed < 1 THEN 1 ELSE seed
  /\ UNCHANGED << network, code, saved, proxy, markets, sources, prices, utdx, nominated, handed, left >>

(* The Comptroller mints its first cTokens: with its seed, or with the value
   of the transaction. *)
SupportMarket ==
  LET lists == Owns("Unitroller") /\ ~markets[On].listed
      paid == Head(calls).on = "XMada" \/ seed >= 1
  IN /\ Calling("_supportMarket") /\ Requires(lists => paid)
     /\ markets' = IF lists /\ paid THEN [markets EXCEPT ![On] = [NotListed EXCEPT !.listed = TRUE,
                                                                !.reserveFactor = markets[On].reserveFactor]]
                   ELSE markets
     /\ seed' = IF lists /\ paid /\ Head(calls).on # "XMada" THEN seed - 1 ELSE seed
     /\ UNCHANGED << network, code, saved, proxy, sources, prices, utdx, nominated, handed, left >>

SetUnderlyingPrice ==
  /\ Calling("setUnderlyingPrice") /\ Mined
  /\ prices' = prices \cup {On}
  /\ UNCHANGED << network, code, saved, proxy, markets, sources, utdx, seed, nominated, handed, left >>

(* xUSDC takes its price from the SimplePriceOracle that is saved. *)
SetAggregators ==
  LET ok == Owns("OracleAggregatorV1")
      now == saved["OracleAggregatorV1"].number
      from == IF Head(calls).on = "XMada" THEN <<"A3OWrapper", 0>> ELSE At("SimplePriceOracle")
  IN /\ Calling("setAggregators") /\ Requires(ok)
     /\ sources' = IF ok THEN [sources EXCEPT ![now] = {s \in @ : s[1] # On} \cup {<<On, from>>}]
                   ELSE sources
     /\ UNCHANGED << network, code, saved, proxy, markets, prices, utdx, seed, nominated, handed, left >>

(* OracleAggregatorV1.getUnderlyingPrice does not revert. *)
Priced(market) ==
  /\ proxy.oracle # Nowhere
  /\ \E s \in sources[proxy.oracle[2]] :
       s[1] = market /\ (s[2] \in prices \/ s[2] = <<"A3OWrapper", 0>>)

SetCollateralFactor ==
  LET asks == Owns("Unitroller") /\ markets[On].listed
  IN /\ Calling("_setCollateralFactor") /\ Requires(asks => Priced(On))
     /\ markets' = IF asks /\ Priced(On) THEN [markets EXCEPT ![On].collateralFactor = TRUE] ELSE markets
     /\ UNCHANGED << network, code, saved, proxy, sources, prices, utdx, seed, nominated, handed, left >>

SetCompWeight ==
  /\ Calling("_setCompWeight") /\ Mined
  /\ markets' = IF Owns("Unitroller") /\ markets[On].listed
                THEN [markets EXCEPT ![On].compWeight = TRUE] ELSE markets
  /\ UNCHANGED << network, code, saved, proxy, sources, prices, utdx, seed, nominated, handed, left >>

(* The admin is the cToken's own. *)
SetReserveFactor ==
  LET ok == On \notin handed
  IN /\ Calling("_setReserveFactor") /\ Requires(ok)
     /\ markets' = IF ok THEN [markets EXCEPT ![On].reserveFactor = TRUE] ELSE markets
     /\ UNCHANGED << network, code, saved, proxy, sources, prices, utdx, seed, nominated, handed, left >>

TransferShare ==
  LET share == Shares[Head(calls).on]
      ok == utdx[<<"deployer", 0>>] >= share
  IN /\ Calling("transferShare") /\ Requires(ok)
     /\ utdx' = IF ok THEN [utdx EXCEPT ![<<"deployer", 0>>] = @ - share, ![On] = @ + share] ELSE utdx
     /\ UNCHANGED << network, code, saved, proxy, markets, sources, prices, seed, nominated, handed, left >>

(* Of the five only the Unitroller returns an error code to a stranger. *)
SetPendingAdmin ==
  LET ok == On \notin handed
  IN /\ Calling("_setPendingAdmin") /\ Requires(ok \/ Head(calls).on = "Unitroller")
     /\ nominated' = IF ok THEN nominated \cup {On} ELSE nominated
     /\ UNCHANGED << network, code, saved, proxy, markets, sources, prices, utdx, seed, handed, left >>

-----------------------------------------------------------------------------
(* The world outside the run. *)

(* _acceptAdmin, from the multisig. *)
Accept(a) ==
  /\ a \in nominated
  /\ handed' = handed \cup {a} /\ nominated' = nominated \ {a}
  /\ UNCHANGED << network, code, saved, proxy, markets, sources, prices, utdx, seed, pos, calls, left >>

(* The multisig tunes what it administers. *)
Tune(setting) ==
  /\ At("Unitroller") \in handed /\ left.tunes > 0
  /\ proxy' = [proxy EXCEPT ![setting] = "tuned"] /\ left' = [left EXCEPT !.tunes = @ - 1]
  /\ UNCHANGED << network, code, saved, markets, sources, prices, utdx, seed, nominated, handed, pos, calls >>

(* A new version of a contract is compiled between two runs. *)
Upgrade(name) ==
  /\ ~Running /\ left.upgrades > 0
  /\ code' = [code EXCEPT ![name] = @ + 1] /\ left' = [left EXCEPT !.upgrades = @ - 1]
  /\ UNCHANGED << network, saved, chainVars, pos, calls >>

Transact ==
  \/ SetPendingImplementation \/ Become \/ InitializeCompParameters
  \/ SetCloseFactor \/ SetLiquidationIncentive \/ SetPriceOracle
  \/ TransferSeed \/ SupportMarket \/ SetUnderlyingPrice \/ SetAggregators
  \/ SetCollateralFactor \/ SetCompWeight \/ SetReserveFactor
  \/ TransferShare \/ SetPendingAdmin

Proceed == MissingName \/ Deploy \/ Read \/ Transact

DeploymentNext ==
  \/ Start \/ Proceed \/ Crash
  \/ \E a \in nominated : Accept(a)
  \/ \E setting \in {"closeFactor", "liquidationIncentive"} : Tune(setting)
  \/ \E name \in Upgradable : Upgrade(name)

DeploymentSpec == DeploymentInit /\ [][DeploymentNext]_deploymentVars

(* A run goes on until it ends or dies, and the operator starts it again:
   nothing says when the multisig accepts, so that is not fair. *)
FairDeploymentSpec ==
  DeploymentSpec /\ WF_deploymentVars(Proceed) /\ WF_deploymentVars(Start)

-----------------------------------------------------------------------------
(* Every variable has its type: deployments are numbered without gaps, and
   nothing is built from or configured with an address nobody saved. *)
DeploymentTypeOK ==
  /\ network \in RunsOn
  /\ DOMAIN code = DOMAIN saved
  /\ \A n \in DOMAIN saved :
       /\ code[n] \in Numbers /\ saved[n].number \in 0 .. MaxUpgrades + 1
       /\ saved[n].code = 0 <=> saved[n].number = 0
       /\ \A a \in saved[n].args : a[2] \in 1 .. saved[a[1]].number
  /\ \A a \in {proxy.implementation, proxy.pendingImplementation, proxy.comp, proxy.reservoir, proxy.oracle} :
       a # Nowhere => a[2] \in 1 .. saved[a[1]].number
  /\ {proxy.closeFactor, proxy.liquidationIncentive} \subseteq {"zero", "scripted", "tuned"}
  /\ markets \in [Markets \X Numbers -> [listed : BOOLEAN, collateralFactor : BOOLEAN,
                                          compWeight : BOOLEAN, reserveFactor : BOOLEAN]]
  /\ prices \subseteq {"SimplePriceOracle"} \X Numbers
  /\ seed \in Nat
  /\ nominated \cup handed \subseteq HandedOver \X Numbers
  /\ pos \in 0 .. Len(Plan[network]) /\ (calls # <<>> => Running)

(* Whatever run died where, a market takes collateral only if it is listed
   and a loan against it can be liquidated: the Comptroller has a close
   factor, a liquidation incentive and the UTDX parameters.  The market has a
   price too, unless the aggregator it was priced by was replaced. *)
LendingIsGuarded ==
  \A m \in DOMAIN markets :
    markets[m].collateralFactor =>
      /\ markets[m].listed
      /\ proxy.closeFactor # "zero" /\ proxy.liquidationIncentive # "zero"
      /\ proxy.comp # Nowhere /\ proxy.reservoir # Nowhere
      /\ Priced(m) \/ saved["OracleAggregatorV1"].number > 1

(* The UTDX is divided at most once: nothing is made or lost, no contract
   ever gets more than its share, the lock none before the Reservoir, and the
   Comptroller never holds the seed of more than one market. *)
NothingIsPaidTwice ==
  /\ saved["Comp"].number = 1 => SumFunction(utdx) = Supply
  /\ \A a \in DOMAIN utdx : a[1] # "deployer" => utdx[a] \in {0, Shares[a[1]]}
  /\ \A a \in DOMAIN utdx : a[1] = "CompLock" /\ utdx[a] > 0 =>
       \E b \in DOMAIN utdx : b[1] = "Reservoir" /\ utdx[b] > 0
  /\ seed <= 1

(* What a finished run leaves behind, but for the UTDX and the handover. *)
Open(market) ==
  LET m == At(market)
  IN saved[market].number > 0 /\ Priced(m)
     /\ markets[m] = [listed |-> TRUE, collateralFactor |-> TRUE, compWeight |-> TRUE, reserveFactor |-> TRUE]

Configured ==
  /\ \A n \in DOMAIN saved : saved[n].number > 0
  /\ proxy.implementation = At("Comptroller") /\ proxy.oracle = At("OracleAggregatorV1")
  /\ proxy.comp = At("Comp")
  /\ proxy.closeFactor = "scripted" /\ proxy.liquidationIncentive = "scripted"
  /\ \A m \in Markets : Open(m)

(* Nobody is offered the protocol half built: in the step that first names
   the multisig pending admin of the Unitroller everything is configured, on
   whichever network and however many runs died before. *)
HandoverComesLast ==
  [][ (nominated = {} /\ handed = {} /\ nominated' # {}) => Configured ]_deploymentVars

(* What the last script offers, in its order, and what is the multisig's. *)
HandoverOrder == << "Unitroller", "OracleAggregatorV1", "xUSDCDelegator", "XMada",
                    "GovernorBravoDelegator" >>
Taken(name) == At(name) \in handed

(* The run that would offer the contract died, or threw on its newer code, and
   every run since throws at a contract that the multisig accepted before it
   in the order: only the Unitroller returns an error code instead. *)
CutOff(i) ==
  /\ left.crashes < MaxCrashes \/ left.upgrades < MaxUpgrades
  /\ \E j \in 2 .. i - 1 : Taken(HandoverOrder[j])

HandedOverOrCutOff ==
  \A i \in DOMAIN HandoverOrder : At(HandoverOrder[i]) \in nominated \cup handed \/ CutOff(i)

(* The scripts would change what only the multisig can: it took the Unitroller
   and tuned it or has not wired newer code, or newer code's market waits for
   a call of the Unitroller or of the aggregator it took. *)
Refused ==
  \/ /\ Taken("Unitroller")
     /\ \/ proxy.implementation # At("Comptroller")
        \/ proxy.oracle # At("OracleAggregatorV1")
        \/ "tuned" \in {proxy.closeFactor, proxy.liquidationIncentive}
  \/ /\ Taken("Unitroller") \/ Taken("OracleAggregatorV1")
     /\ \E m \in Markets : ~Open(m)

NewestCode == \A n \in DOMAIN saved : saved[n].code = code[n]

(* On a network with all its addresses the runs converge, however many of them
   die and whatever is upgraded: in the end, for good, what is saved is of the
   code at hand and configured, and each contract of the last script is offered
   to the multisig or is its own. There are two exceptions. What the multisig
   took may be set as no script would (Refused). And the handover itself can
   stay unfinished (CutOff): when the multisig accepts, say, xUSDCDelegator in
   the middle of script 014 and the run then dies, every later run throws at
   that contract's _setPendingAdmin, and XMada and GovernorBravoDelegator,
   which come after it, are never offered. *)
Converges ==
  network = "devnet" => <>[](Refused \/ (Configured /\ NewestCode /\ HandedOverOrCutOff))
=============================================================================
