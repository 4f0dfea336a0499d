--------------------------- MODULE DeploymentPlan ---------------------------
(***************************************************************************)
(* What the scripts of deploy/ come to when they run in hardhat's order:   *)
(* which step comes before which.  Plan is a value computed from the       *)
(* scripts, so TLC decides these statements outright, for every network;   *)
(* the theorems about the runs rest on them and not on the list of steps.  *)
(***************************************************************************)
EXTENDS Deployment

AnyStep ==
  [uses : SUBSET (Names \cup Externals("devnet")), deploys : Names \cup {"nothing"}, wants : STRING,
   calls : Seq([call : STRING, on : Names])]

\* What a step wants that sends the call
Purpose ==
  [_setPendingImplementation |-> "implementation", _become |-> "implementation",
   _initializeCompParameters |-> "compParameters", _setCloseFactor |-> "closeFactor",
   _setLiquidationIncentive |-> "liquidationIncentive", _setPriceOracle |-> "oracle",
   transferSeed |-> "listing", _supportMarket |-> "listing", setUnderlyingPrice |-> "price",
   setAggregators |-> "always", _setCollateralFactor |-> "collateralFactor",
   _setCompWeight |-> "compWeight", _setReserveFactor |-> "reserveFactor",
   transferShare |-> "shares", _setPendingAdmin |-> "always"]

\* Calls about a market, and calls that another call of the step follows
MarketCalls ==
  {"transferSeed", "_supportMarket", "setAggregators", "_setCollateralFactor", "_setCompWeight",
   "_setReserveFactor"}
Preparations == {"_setPendingImplementation", "transferSeed"}

\* The i-th call of a step serves what the step wants, and asks a contract
\* the step knows.
CallFits(s, i) ==
  LET c == s.calls[i]
  IN /\ c.call \in DOMAIN Purpose /\ s.wants = Purpose[c.call]
     /\ c.call \in MarketCalls => c.on \in Markets /\ c.on = s.calls[1].on
     /\ c.call = "transferShare" => Len(s.calls) = 2 /\ c.on = IF i = 1 THEN "Reservoir" ELSE "CompLock"
     /\ c.call \in Preparations => i # Len(s.calls)
     /\ c.call \notin Preparations \cup {"transferShare"} => i = Len(s.calls)
     /\ c.call \in {"setAggregators", "_setPendingAdmin"} => i = 1
     /\ c.call = "_setPendingAdmin" => c.on \in HandedOver
     /\ c.call = "setUnderlyingPrice" => c.on = "SimplePriceOracle" /\ c.on \in s.uses
     /\ c.call \in {"_setPendingImplementation", "_become"} => "Comptroller" \in s.uses
     /\ c.call \in {"_setPriceOracle", "setAggregators"} => "OracleAggregatorV1" \in s.uses

\* A step deploys one contract, or has calls to send if it wants something.
WellMade(s) ==
  /\ s.deploys # "nothing" => s.wants = "nothing"
  /\ s.calls = <<>> <=> s.wants = "nothing"
  /\ s.deploys \in {"Comp", "Unitroller"} => s.uses = {}
  /\ \A i \in DOMAIN s.calls : CallFits(s, i)

DeployedBefore(p, k) == {p[j].deploys : j \in 1 .. k - 1}
SentBefore(p, k) == UNION {ToSet(p[j].calls) : j \in 1 .. k - 1}

\* What a loan needs that is to be liquidated, and what lending needs.
LoanCalls ==
  {Call("_setCloseFactor", "Unitroller"), Call("_setLiquidationIncentive", "Unitroller"),
   Call("_initializeCompParameters", "Unitroller")}
OpeningCalls ==
  {Call("_become", "Comptroller"), Call("_setPriceOracle", "Unitroller")} \cup LoanCalls
    \cup {Call(call, market) : call \in MarketCalls \ {"transferSeed"}, market \in Markets}

\* No step replaces what an earlier one used, and none deploys a name again.
NamesStay(p, k) ==
  /\ \A j \in k .. Len(p) :
       p[j].deploys \notin p[k].uses /\ \A i \in DOMAIN p[k].calls : p[j].deploys # p[k].calls[i].on
  /\ \A j \in 1 .. k - 1 : p[k].deploys = "nothing" \/ p[j].deploys # p[k].deploys

\* What comes before the i-th call of step k
CallComesAfter(p, k, i) ==
  LET c == p[k].calls[i]
  IN /\ c.on \in p[k].uses \cup DeployedBefore(p, k)
     /\ c.call = "_initializeCompParameters" => {"Comp", "Reservoir"} \subseteq DeployedBefore(p, k)
     /\ c.call = "setAggregators" /\ c.on = "xUSDCDelegator" =>
          Call("setUnderlyingPrice", "SimplePriceOracle") \in SentBefore(p, k)
     /\ c.call \in {"_setCollateralFactor", "_setCompWeight"} =>
          Call("_supportMarket", c.on) \in SentBefore(p, k)
     /\ c.call \in {"_setCollateralFactor", "_setPendingAdmin"} => LoanCalls \subseteq SentBefore(p, k)

\* An offer comes after everything else; where an address is missing, a step
\* before it needs a name that nothing provides.
OfferComesLast(net, k) ==
  LET p == Plan[net]
  IN IF net = "devnet"
     THEN Names \subseteq DeployedBefore(p, k) /\ OpeningCalls \subseteq SentBefore(p, k)
     ELSE \E j \in 1 .. k - 1 : \E n \in p[j].uses \ Externals(net) :
            \A l \in DOMAIN p : p[l].deploys # n

ASSUME ScriptsAreWellMade ==
  \A net \in Networks :
    /\ Plan[net] \in Seq(AnyStep) /\ Len(Plan[net]) > 0
    /\ \A k \in 1 .. Len(Plan[net]) : WellMade(Plan[net][k])

ASSUME ScriptsAreInOrder ==
  \A net \in Networks : \A k \in 1 .. Len(Plan[net]) :
    /\ NamesStay(Plan[net], k)
    /\ \A i \in DOMAIN Plan[net][k].calls :
         /\ CallComesAfter(Plan[net], k, i)
         /\ Plan[net][k].calls[i].call = "_setPendingAdmin" => OfferComesLast(net, k)

ASSUME NamesInclude ==
  /\ {"SimplePriceOracle", "Comp", "Unitroller", "Comptroller", "Reservoir", "CompLock"} \subseteq Names
  /\ HandedOver \subseteq Names /\ Names \cap (Externals("devnet") \cup {"nothing"}) = {}
=============================================================================
