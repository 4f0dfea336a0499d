-------------------------- MODULE DeploymentProofs --------------------------
(***************************************************************************)
(* The deployment for every set of networks, every choice of upgradable    *)
(* contracts and every number of crashes, upgrades and settings: addresses *)
(* are never used before they are saved, a market never lends without what *)
(* a liquidation needs, the UTDX is divided once, and the protocol is      *)
(* offered to the multisig only when it is complete.                       *)
(***************************************************************************)
EXTENDS DeploymentPlan, SumProofs, SequenceTheorems

\* The step with number j, and the versions compiled so far
Stage(j) == Plan[network][j]
Compiled == MaxUpgrades - left.upgrades

Deployment(s) == [number : Nat, code : Nat, args : SUBSET (s \X Nat)]

RunTypeOK ==
  /\ network \in RunsOn
  /\ code \in [Names -> Nat \ {0}] /\ saved \in [Names -> Deployment(Names)]
  /\ pos \in 0 .. Len(Plan[network])
  /\ calls \in Seq([call : STRING, on : Names])
  /\ left \in [crashes : Nat, upgrades : 0 .. MaxUpgrades, tunes : Nat]

\* What is left to send is the end of what the step sends.
Rest(all) ==
  /\ Len(calls) <= Len(all)
  /\ \A i \in 1 .. Len(calls) : calls[i] = all[Len(all) - Len(calls) + i]
UsesKnown(s) == \A n \in s.uses : Known(n)
CallsAreHere == calls # <<>> => Running /\ UsesKnown(Here) /\ Rest(Here.calls)

\* The contract a step deploys is the one its sources and arguments give.
Current(s) ==
  s.deploys # "nothing" =>
    /\ saved[s.deploys].number > 0 /\ saved[s.deploys].code = code[s.deploys]
    /\ saved[s.deploys].args = {At(n) : n \in s.uses \cap Names}
StepsPassed == \A j \in 1 .. pos - 1 : UsesKnown(Stage(j)) /\ Current(Stage(j))

\* A name whose step, or a step before it, has something new to deploy was
\* deployed at most once for each new version.
MayDeployAgain(k) == \E j \in 1 .. k : ~Current(Stage(j))
NumbersFollow ==
  /\ \A n \in Names :
       /\ code[n] <= 1 + Compiled /\ saved[n].number <= 1 + Compiled
       /\ saved[n].number > 0 => \E k \in 1 .. Len(Plan[network]) : Stage(k).deploys = n
  /\ \A k \in 1 .. Len(Plan[network]) :
       Stage(k).deploys # "nothing" /\ MayDeployAgain(k) => saved[Stage(k).deploys].number <= Compiled

ArgumentsSaved ==
  \A n \in Names :
    /\ saved[n].code = 0 <=> saved[n].number = 0
    /\ \A a \in saved[n].args : a[2] \in 1 .. saved[a[1]].number

\* The Unitroller and Comp are deployed once.
Once(n) == code[n] = 1 /\ (saved[n].number = 0 \/ saved[n] = [number |-> 1, code |-> 1, args |-> {}])

RunInv ==
  /\ RunTypeOK /\ CallsAreHere /\ StepsPassed /\ NumbersFollow /\ ArgumentsSaved
  /\ Once("Comp") /\ Once("Unitroller")

\* What the assumptions say of one step
LEMMA StepFacts ==
  ASSUME network \in RunsOn
  PROVE  /\ network \in Networks /\ Plan[network] \in Seq(AnyStep) /\ Len(Plan[network]) \in Nat \ {0}
         /\ \A k \in 1 .. Len(Plan[network]) :
              /\ Stage(k) \in AnyStep /\ WellMade(Stage(k)) /\ NamesStay(Plan[network], k)
              /\ \A i \in DOMAIN Stage(k).calls :
                   /\ CallComesAfter(Plan[network], k, i)
                   /\ Stage(k).calls[i].call = "_setPendingAdmin" => OfferComesLast(network, k)
<1>1. network \in Networks
  BY ConstantsOK DEF ConstantsOK
<1>2. Plan[network] \in Seq(AnyStep) /\ Len(Plan[network]) > 0
  BY <1>1, ScriptsAreWellMade
<1>3. Len(Plan[network]) \in Nat /\ DOMAIN Plan[network] = 1 .. Len(Plan[network])
  BY <1>2, LenProperties
<1>4. \A k \in 1 .. Len(Plan[network]) : Plan[network][k] \in AnyStep
  BY <1>2, <1>3, ElementOfSeq
<1> QED  BY <1>1, <1>2, <1>3, <1>4, ScriptsAreWellMade, ScriptsAreInOrder DEF Stage

-----------------------------------------------------------------------------
\* How the run moves: it ends, it has a transaction mined, or it stays.
SameContracts ==
  /\ UNCHANGED << network, code, saved >>
  /\ left' \in [crashes : Nat, upgrades : 0 .. MaxUpgrades, tunes : Nat]
  /\ left'.upgrades = left.upgrades
Ends == SameContracts /\ Throws
Sends == SameContracts /\ Running /\ calls # <<>> /\ Mined
Waits == SameContracts /\ UNCHANGED << pos, calls >>

\* Every transaction is mined, or reverts and ends the run.
LEMMA TransactMoves ==
  ASSUME RunTypeOK, Transact
  PROVE  Ends \/ Sends
<1>1. Running /\ calls # <<>> /\ UNCHANGED << network, code, saved, left >> /\ (Mined \/ Throws)
  BY DEF Transact, SetPendingImplementation, Become, InitializeCompParameters, SetCloseFactor,
         SetLiquidationIncentive, SetPriceOracle, TransferSeed, SupportMarket, SetUnderlyingPrice,
         SetAggregators, SetCollateralFactor, SetCompWeight, SetReserveFactor, TransferShare,
         SetPendingAdmin, Calling, Requires
<1> QED  BY <1>1 DEF RunTypeOK, SameContracts, Ends, Sends

\* One crash or setting less
LEMMA SpendOne ==
  ASSUME NEW l \in [crashes : Nat, upgrades : 0 .. MaxUpgrades, tunes : Nat]
  PROVE  /\ l.crashes > 0 =>
              /\ [l EXCEPT !.crashes = @ - 1] \in [crashes : Nat, upgrades : 0 .. MaxUpgrades, tunes : Nat]
              /\ [l EXCEPT !.crashes = @ - 1].upgrades = l.upgrades
         /\ l.tunes > 0 =>
              /\ [l EXCEPT !.tunes = @ - 1] \in [crashes : Nat, upgrades : 0 .. MaxUpgrades, tunes : Nat]
              /\ [l EXCEPT !.tunes = @ - 1].upgrades = l.upgrades
<1>1. l.crashes \in Nat /\ l.tunes \in Nat
  OBVIOUS
<1>2. (l.crashes > 0 => l.crashes - 1 \in Nat) /\ (l.tunes > 0 => l.tunes - 1 \in Nat)
  BY <1>1
<1> QED  BY <1>2

\* The kinds of steps
LEMMA StepKinds ==
  ASSUME RunTypeOK, [DeploymentNext]_deploymentVars
  PROVE  \/ Start \/ Deploy \/ Read \/ \E name \in Upgradable : Upgrade(name)
         \/ Ends \/ Sends \/ Waits
<1>1. CASE Transact
  BY <1>1, TransactMoves
<1>2. CASE MissingName
  BY <1>2 DEF MissingName, RunTypeOK, SameContracts, Ends
<1>3. CASE Crash
  <2>1. /\ UNCHANGED << network, code, saved >> /\ Throws
        /\ left.crashes > 0 /\ left' = [left EXCEPT !.crashes = @ - 1]
    BY <1>3 DEF Crash, Throws
  <2>2. /\ left' \in [crashes : Nat, upgrades : 0 .. MaxUpgrades, tunes : Nat]
        /\ left'.upgrades = left.upgrades
    BY <2>1, SpendOne DEF RunTypeOK
  <2> QED  BY <2>1, <2>2 DEF SameContracts, Ends
<1>4. ASSUME NEW a \in nominated, Accept(a)
      PROVE  Waits
  BY <1>4 DEF Accept, RunTypeOK, SameContracts, Waits
<1>5. ASSUME NEW setting \in {"closeFactor", "liquidationIncentive"}, Tune(setting)
      PROVE  Waits
  <2>1. /\ UNCHANGED << network, code, saved, pos, calls >>
        /\ left.tunes > 0 /\ left' = [left EXCEPT !.tunes = @ - 1]
    BY <1>5 DEF Tune
  <2>2. /\ left' \in [crashes : Nat, upgrades : 0 .. MaxUpgrades, tunes : Nat]
        /\ left'.upgrades = left.upgrades
    BY <2>1, SpendOne DEF RunTypeOK
  <2> QED  BY <2>1, <2>2 DEF SameContracts, Waits
<1>6. CASE UNCHANGED deploymentVars
  BY <1>6 DEF deploymentVars, RunTypeOK, SameContracts, Waits
<1> QED
  BY <1>1, <1>2, <1>3, <1>4, <1>5, <1>6 DEF DeploymentNext, Proceed

\* A step that has no more to send is passed.
LEMMA LaterPasses ==
  ASSUME RunInv, SameContracts, pos' = Later, UsesKnown(Here), Current(Here), Running
  PROVE  StepsPassed' /\ pos' \in 0 .. Len(Plan[network])
<1>1. Len(Plan[network]) \in Nat /\ pos \in 1 .. Len(Plan[network]) /\ network' = network
  BY StepFacts DEF RunInv, RunTypeOK, Running, SameContracts
<1>2. pos' \in 0 .. Len(Plan[network]) /\ \A j \in 1 .. pos' - 1 : j \in 1 .. pos - 1 \/ j = pos
  BY <1>1 DEF Later
<1>3. ASSUME NEW j \in 1 .. pos' - 1
      PROVE  UsesKnown(Stage(j)) /\ Current(Stage(j))
  BY <1>2, <1>3 DEF RunInv, StepsPassed, Current, Stage, Here
<1>4. ASSUME NEW j \in 1 .. pos' - 1
      PROVE  (UsesKnown(Stage(j)) /\ Current(Stage(j)))'
  BY <1>3, <1>4 DEF UsesKnown, Current, Stage, Known, At, SameContracts
<1> QED  BY <1>2, <1>4 DEF StepsPassed

\* Without a deployment or an upgrade the versions stay as they are.
LEMMA SameVersions ==
  ASSUME RunInv, SameContracts
  PROVE  (NumbersFollow /\ ArgumentsSaved /\ Once("Comp") /\ Once("Unitroller"))'
<1>1. Compiled' = Compiled
  BY DEF SameContracts, Compiled
<1> QED
  BY <1>1 DEF RunInv, SameContracts, NumbersFollow, ArgumentsSaved, Once, MayDeployAgain, Current,
         Stage, At

\* A run that is not under way, or just begun, has passed no step.
LEMMA NoRunNothingPassed ==
  ASSUME pos' = 0 \/ pos' = 1
  PROVE  StepsPassed'
<1>1. 1 .. pos' - 1 = {}
  OBVIOUS
<1> QED  BY <1>1 DEF StepsPassed

\* The step under way, and what is left of it to send
LEMMA HereFacts ==
  ASSUME RunTypeOK, Running
  PROVE  /\ pos \in 1 .. Len(Plan[network]) /\ Here \in AnyStep /\ WellMade(Here)
         /\ Here.calls \in Seq([call : STRING, on : Names]) /\ Len(Here.calls) \in Nat
         /\ Later \in 0 .. Len(Plan[network])
<1>1. Len(Plan[network]) \in Nat \ {0} /\ pos \in 1 .. Len(Plan[network])
  BY StepFacts DEF RunTypeOK, Running
<1>2. Here \in AnyStep /\ WellMade(Here)
  BY <1>1, StepFacts DEF RunTypeOK, Here, Stage
<1>3. Here.calls \in Seq([call : STRING, on : Names])
  BY <1>2 DEF AnyStep
<1>4. Len(Here.calls) \in Nat
  BY <1>3, LenProperties
<1> QED  BY <1>1, <1>2, <1>3, <1>4 DEF Later

\* The invariant of the run, action by action: a run that dies or throws,
LEMMA EndsKeeps ==
  ASSUME RunInv, Ends
  PROVE  RunInv'
<1>1. StepsPassed'
  BY NoRunNothingPassed DEF Ends, Throws
<1>2. RunTypeOK' /\ CallsAreHere'
  BY StepFacts DEF Ends, Throws, SameContracts, RunInv, RunTypeOK, CallsAreHere
<1> QED  BY <1>1, <1>2, SameVersions DEF Ends, RunInv

\* what the multisig does while a run stands still,
LEMMA WaitsKeeps ==
  ASSUME RunInv, Waits
  PROVE  RunInv'
<1>1. StepsPassed'
  BY DEF Waits, SameContracts, RunInv, StepsPassed, UsesKnown, Current, Stage, Known, At
<1>2. RunTypeOK' /\ CallsAreHere'
  BY DEF Waits, SameContracts, RunInv, RunTypeOK, CallsAreHere, Running, Here, UsesKnown, Known, Rest
<1> QED  BY <1>1, <1>2, SameVersions DEF Waits, RunInv

\* a run that begins again,
LEMMA StartKeeps ==
  ASSUME RunInv, Start
  PROVE  RunInv'
<1>1. StepsPassed'
  BY NoRunNothingPassed DEF Start
<1>2. SameContracts /\ calls = <<>> /\ calls' = <<>> /\ pos' = 1
  BY DEF Start, SameContracts, RunInv, RunTypeOK, CallsAreHere
<1>3. RunTypeOK'
  BY <1>2, StepFacts DEF SameContracts, RunInv, RunTypeOK
<1>4. CallsAreHere'
  BY <1>2 DEF CallsAreHere
<1> QED  BY <1>1, <1>2, <1>3, <1>4, SameVersions DEF RunInv

\* A step that sends deploys nothing.
LEMMA SendersDeployNothing ==
  ASSUME RunTypeOK, Running, Here.calls # <<>>
  PROVE  Here.deploys = "nothing"
BY HereFacts DEF WellMade

\* a transaction that is mined: the rest of the calls moves up,
LEMMA SendsKeeps ==
  ASSUME RunInv, Sends
  PROVE  RunInv'
<1>1. /\ calls \in Seq([call : STRING, on : Names]) /\ Len(calls) \in Nat \ {0}
      /\ Tail(calls) \in Seq([call : STRING, on : Names]) /\ Len(Tail(calls)) = Len(calls) - 1
      /\ \A i \in 1 .. Len(calls) - 1 : Tail(calls)[i] = calls[i + 1]
  <2>1. calls \in Seq([call : STRING, on : Names]) /\ calls # <<>>
    BY DEF Sends, RunInv, RunTypeOK
  <2> QED  BY <2>1, EmptySeq, LenProperties, HeadTailProperties
<1>2. Running /\ UsesKnown(Here) /\ Rest(Here.calls)
  BY DEF Sends, RunInv, CallsAreHere
<1>3. Here.calls \in Seq([call : STRING, on : Names]) /\ Len(Here.calls) \in Nat
      /\ pos \in 1 .. Len(Plan[network]) /\ Later \in 0 .. Len(Plan[network])
  BY <1>2, HereFacts DEF RunInv
<1>4. Here.deploys = "nothing"
  <2>1. Here.calls # <<>>
    BY <1>1, <1>2, <1>3 DEF Rest
  <2> QED  BY <1>2, <2>1, SendersDeployNothing DEF RunInv
<1>5. CASE Len(calls) = 1
  <2>1. calls' = <<>> /\ pos' = Later /\ SameContracts
    BY <1>1, <1>5, EmptySeq DEF Sends, Mined
  <2>2. StepsPassed' /\ pos' \in 0 .. Len(Plan[network])
    BY <1>2, <1>4, <2>1, LaterPasses DEF Current
  <2>3. RunTypeOK' /\ CallsAreHere'
    BY <2>1, <2>2 DEF RunInv, RunTypeOK, SameContracts, CallsAreHere
  <2> QED  BY <2>1, <2>2, <2>3, SameVersions DEF RunInv
<1>6. CASE Len(calls) # 1
  <2>1. calls' = Tail(calls) /\ pos' = pos /\ SameContracts
    BY <1>6 DEF Sends, Mined
  <2>2. StepsPassed'
    BY <2>1 DEF SameContracts, RunInv, StepsPassed, UsesKnown, Current, Stage, Known, At
  <2>3. RunTypeOK'
    BY <1>1, <2>1 DEF SameContracts, RunInv, RunTypeOK
  <2>4. Here' = Here /\ Running' /\ UsesKnown(Here)'
    BY <1>2, <2>1 DEF SameContracts, Here, Running, UsesKnown, Known
  <2>5. Rest(Here.calls)'
    <3>1. Len(calls') = Len(calls) - 1 /\ Len(calls) <= Len(Here.calls)
      BY <1>1, <1>2, <2>1 DEF Rest
    <3>2. ASSUME NEW i \in 1 .. Len(calls')
          PROVE  calls'[i] = Here.calls[Len(Here.calls) - Len(calls') + i]
      <4>1. i \in 1 .. Len(calls) - 1 /\ i + 1 \in 1 .. Len(calls)
        BY <1>1, <3>1
      <4>2. calls'[i] = calls[i + 1]
        BY <1>1, <2>1, <4>1
      <4>3. calls[i + 1] = Here.calls[Len(Here.calls) - Len(calls) + (i + 1)]
        BY <1>2, <4>1 DEF Rest
      <4>4. \A a, b, x \in Int : a - b + (x + 1) = a - (b - 1) + x
        OBVIOUS
      <4>5. Len(Here.calls) - Len(calls) + (i + 1) = Len(Here.calls) - (Len(calls) - 1) + i
        <5>1. Len(Here.calls) \in Int /\ Len(calls) \in Int
          BY <1>1, <1>3
        <5>2. i \in Int
          OBVIOUS
        <5> QED  BY <4>4, <5>1, <5>2
      <4> QED  BY <3>1, <4>2, <4>3, <4>5
    <3> QED  BY <1>1, <1>3, <2>4, <3>1, <3>2 DEF Rest
  <2> QED  BY <2>1, <2>2, <2>3, <2>4, <2>5, SameVersions DEF RunInv, CallsAreHere
<1> QED  BY <1>5, <1>6

\* a step that reads the chain and finds what it wants, or has its calls to send.
LEMMA ReadKeeps ==
  ASSUME RunInv, Read
  PROVE  RunInv'
<1>1. SameContracts /\ Running /\ UsesKnown(Here) /\ Here.deploys = "nothing" /\ calls = <<>>
  BY DEF Read, AtStep, SameContracts, UsesKnown, RunInv, RunTypeOK
<1>2. Here.calls \in Seq([call : STRING, on : Names]) /\ Len(Here.calls) \in Nat
  BY <1>1, HereFacts DEF RunInv
<1>3. CASE Wanted
  <2>1. calls' = Here.calls /\ pos' = pos
    BY <1>3 DEF Read
  <2>2. StepsPassed'
    BY <1>1, <2>1 DEF SameContracts, RunInv, StepsPassed, UsesKnown, Current, Stage, Known, At
  <2>3. RunTypeOK'
    BY <1>1, <1>2, <2>1 DEF SameContracts, RunInv, RunTypeOK
  <2>4. Here' = Here /\ Running' /\ UsesKnown(Here)'
    BY <1>1, <2>1 DEF SameContracts, Here, Running, UsesKnown, Known
  <2>5. Rest(Here.calls)'
    BY <1>2, <2>1, <2>4 DEF Rest
  <2> QED  BY <1>1, <2>2, <2>3, <2>4, <2>5, SameVersions DEF RunInv, CallsAreHere
<1>4. CASE ~Wanted
  <2>1. calls' = <<>> /\ pos' = Later
    BY <1>4 DEF Read
  <2>2. StepsPassed' /\ pos' \in 0 .. Len(Plan[network])
    BY <1>1, <2>1, LaterPasses DEF Current
  <2>3. RunTypeOK' /\ CallsAreHere'
    BY <1>1, <2>1, <2>2 DEF RunInv, RunTypeOK, SameContracts, CallsAreHere
  <2> QED  BY <1>1, <2>2, <2>3, SameVersions DEF RunInv
<1> QED  BY <1>3, <1>4

\* A new version is compiled for what is deployed next.
LEMMA UpgradeKeeps ==
  ASSUME RunInv, NEW name \in Upgradable, Upgrade(name)
  PROVE  RunInv'
<1>1. /\ name \in Names \ {"Unitroller", "Comp"} /\ MaxUpgrades \in Nat
      /\ left.upgrades \in 1 .. MaxUpgrades /\ code[name] \in Nat \ {0}
      /\ left \in [crashes : Nat, upgrades : 0 .. MaxUpgrades, tunes : Nat]
  BY ConstantsOK DEF ConstantsOK, Upgrade, RunInv, RunTypeOK
<1>2. /\ ~Running /\ calls = <<>> /\ UNCHANGED << network, saved, pos, calls >>
      /\ code' = [code EXCEPT ![name] = code[name] + 1]
      /\ left' = [left EXCEPT !.upgrades = left.upgrades - 1]
  BY DEF Upgrade, RunInv, CallsAreHere
<1>3. left.upgrades - 1 \in 0 .. MaxUpgrades
  BY <1>1
<1>4. left'.upgrades = left.upgrades - 1
      /\ left' \in [crashes : Nat, upgrades : 0 .. MaxUpgrades, tunes : Nat]
  BY <1>1, <1>2, <1>3
<1>5. Compiled \in Nat /\ Compiled' = Compiled + 1
  BY <1>1, <1>4 DEF Compiled
<1>6. code' \in [Names -> Nat \ {0}]
  <2>1. code[name] + 1 \in Nat \ {0}
    BY <1>1
  <2> QED  BY <1>2, <2>1 DEF RunInv, RunTypeOK
<1>7. RunTypeOK'
  BY <1>2, <1>4, <1>6 DEF RunInv, RunTypeOK
<1>8. CallsAreHere' /\ StepsPassed'
  BY <1>2, NoRunNothingPassed DEF CallsAreHere, Running
<1>9. NumbersFollow'
  <2>1. ASSUME NEW n \in Names
        PROVE  /\ code'[n] <= 1 + Compiled' /\ saved'[n].number <= Compiled'
               /\ saved'[n].number > 0 => \E k \in 1 .. Len(Plan[network']) : Stage(k)'.deploys = n
    <3>1. code[n] \in Nat /\ saved[n].number \in Nat
      BY DEF RunInv, RunTypeOK, Deployment
    <3>2. code'[n] \in {code[n], code[n] + 1}
      BY <1>2 DEF RunInv, RunTypeOK
    <3>3. code[n] <= 1 + Compiled /\ saved[n].number <= 1 + Compiled
      BY DEF RunInv, NumbersFollow
    <3>4. code'[n] <= 1 + Compiled' /\ saved[n].number <= Compiled'
      BY <1>5, <3>1, <3>2, <3>3
    <3> QED  BY <1>2, <3>4 DEF RunInv, NumbersFollow, Stage
  <2>2. \A n \in Names : saved'[n].number <= 1 + Compiled'
    <3>1. ASSUME NEW n \in Names
          PROVE  saved'[n].number <= 1 + Compiled'
      <4>1. saved'[n].number \in Nat /\ saved'[n].number <= Compiled'
        BY <1>2, <2>1 DEF RunInv, RunTypeOK, Deployment
      <4> QED  BY <1>5, <4>1
    <3> QED  BY <3>1
  <2>3. ASSUME NEW k \in 1 .. Len(Plan[network]), Stage(k).deploys # "nothing"
        PROVE  Stage(k).deploys \in Names
    <3>1. Stage(k) \in AnyStep
      BY StepFacts DEF RunInv, RunTypeOK
    <3> QED  BY <2>3, <3>1 DEF AnyStep
  <2>4. \A k : Stage(k)' = Stage(k)
    BY <1>2 DEF Stage
  <2> QED  BY <1>2, <2>1, <2>2, <2>3, <2>4 DEF NumbersFollow
<1>10. ArgumentsSaved' /\ Once("Comp")' /\ Once("Unitroller")'
  BY <1>1, <1>2, NamesInclude DEF RunInv, RunTypeOK, ArgumentsSaved, Once
<1> QED  BY <1>7, <1>8, <1>9, <1>10 DEF RunInv

\* The names of a step that deploys, and what becomes of what is saved
LEMMA DeployFacts ==
  ASSUME RunInv, Deploy
  PROVE  /\ Running /\ calls = <<>> /\ UsesKnown(Here) /\ Here = Stage(pos)
         /\ pos \in 1 .. Len(Plan[network])
         /\ Here.deploys \in Names /\ Here.uses \cap DOMAIN saved = Here.uses \cap Names
         /\ UpToDate(Here.deploys) <=> Current(Here)
         /\ pos' = Later /\ calls' = <<>> /\ UNCHANGED << network, code, left >>
         /\ Arguments = {At(m) : m \in Here.uses \cap Names}
         /\ Arguments \subseteq Names \X (Nat \ {0})
         /\ \A m \in Here.uses \cap Names : saved[m].number \in Nat \ {0}
<1>1. /\ Running /\ calls = <<>> /\ UsesKnown(Here) /\ Here.deploys # "nothing"
      /\ pos' = Later /\ UNCHANGED << network, code, left, calls >>
  BY DEF Deploy, AtStep, UsesKnown
<1>2. Here = Stage(pos) /\ Here \in AnyStep /\ pos \in 1 .. Len(Plan[network])
  BY <1>1, HereFacts DEF RunInv, Here, Stage
<1>3. Here.deploys \in Names /\ DOMAIN saved = Names
  BY <1>1, <1>2 DEF AnyStep, RunInv, RunTypeOK
<1>4. Arguments = {At(m) : m \in Here.uses \cap Names}
  BY <1>3 DEF Arguments
<1>5. \A m \in Here.uses \cap Names : saved[m].number \in Nat \ {0}
  <2>1. \A m \in Names : m \notin Externals(network)
    BY NamesInclude DEF Externals
  <2>2. \A m \in Here.uses : Known(m)
    BY <1>1 DEF UsesKnown
  <2>3. \A m \in Names : saved[m].number \in Nat
    BY DEF RunInv, RunTypeOK, Deployment
  <2> QED  BY <1>3, <2>1, <2>2, <2>3 DEF Known
<1>6. Arguments \subseteq Names \X (Nat \ {0})
  BY <1>4, <1>5 DEF At
<1> QED
  BY <1>1, <1>2, <1>3, <1>4, <1>5, <1>6 DEF UpToDate, Current

\* No other contract of the steps passed is the one deployed at step k.
LEMMA OthersStay ==
  ASSUME RunTypeOK, NEW k \in 1 .. Len(Plan[network]), NEW j \in 1 .. k, Stage(k).deploys # "nothing"
  PROVE  /\ Stage(k).deploys \notin Stage(j).uses
         /\ j # k => Stage(j).deploys # Stage(k).deploys
         /\ \A i \in DOMAIN Stage(j).calls : Stage(j).calls[i].on # Stage(k).deploys
<1>1. /\ Len(Plan[network]) \in Nat /\ j \in 1 .. Len(Plan[network])
      /\ NamesStay(Plan[network], j) /\ NamesStay(Plan[network], k)
  BY StepFacts DEF RunTypeOK
<1>2. k \in j .. Len(Plan[network]) /\ (j # k => j \in 1 .. k - 1)
  BY <1>1
<1> QED  BY <1>1, <1>2 DEF NamesStay, Stage

\* Of what is saved, one contract gets a new number, code and arguments.
Redeploys(n) ==
  /\ n \in Names /\ UNCHANGED << network, code, left >>
  /\ saved' = [saved EXCEPT ![n] = [number |-> saved[n].number + 1, code |-> code[n], args |-> Arguments]]

\* A contract deployed again has the next number; no other changes, and no
\* name is forgotten.
LEMMA RedeployedNumbers ==
  ASSUME RunInv, NEW n, Redeploys(n)
  PROVE  /\ \A m \in Names : m # n => saved'[m] = saved[m] /\ At(m)' = At(m)
         /\ saved'[n] = [number |-> saved[n].number + 1, code |-> code[n], args |-> Arguments]
         /\ \A m \in Names : saved[m].number \in Nat /\ saved'[m].number \in Nat
              /\ saved[m].number <= saved'[m].number
         /\ \A m : Known(m) => Known(m)'
         /\ DOMAIN saved = Names /\ DOMAIN saved' = Names
<1>1. saved \in [Names -> Deployment(Names)] /\ n \in Names
  BY DEF RunInv, RunTypeOK, Redeploys
<1>2. /\ \A m \in Names : m # n => saved'[m] = saved[m] /\ At(m)' = At(m)
      /\ saved'[n] = [number |-> saved[n].number + 1, code |-> code[n], args |-> Arguments]
      /\ DOMAIN saved' = Names /\ DOMAIN saved = Names
  BY <1>1 DEF Redeploys, At
<1>3. ASSUME NEW m \in Names
      PROVE  saved[m].number \in Nat /\ saved'[m].number \in Nat
               /\ saved[m].number <= saved'[m].number
  <2>1. saved[m].number \in Nat
    BY <1>1 DEF Deployment
  <2>2. saved'[m].number = saved[m].number \/ saved'[m].number = saved[m].number + 1
    BY <1>2
  <2> QED  BY <2>1, <2>2
<1>4. ASSUME NEW m, Known(m)
      PROVE  Known(m)'
  <2>1. CASE m \in Externals(network)
    BY <2>1 DEF Known, Redeploys
  <2>2. CASE m \in Names /\ saved[m].number > 0
    <3>1. saved'[m].number > 0
      BY <1>3, <2>2
    <3> QED  BY <1>2, <2>2, <3>1 DEF Known
  <2> QED  BY <1>2, <1>4, <2>1, <2>2 DEF Known
<1> QED  BY <1>2, <1>3, <1>4

\* After a deployment the step and those before it are up to date.
LEMMA DeployPasses ==
  ASSUME RunInv, Deploy, Redeploys(Here.deploys)
  PROVE  \A j \in 1 .. pos : UsesKnown(Stage(j))' /\ Current(Stage(j))'
<1> DEFINE n == Here.deploys
<1>1. /\ pos \in 1 .. Len(Plan[network]) /\ Here = Stage(pos) /\ n \in Names
      /\ UsesKnown(Here) /\ n # "nothing"
      /\ Arguments = {At(m) : m \in Here.uses \cap Names}
  BY DeployFacts DEF Deploy
<1>2. \A j : Stage(j)' = Stage(j)
  BY DEF Stage, Redeploys
<1>3. ASSUME NEW j \in 1 .. pos
      PROVE  UsesKnown(Stage(j))' /\ Current(Stage(j))'
  <2>1. n \notin Stage(j).uses /\ (j # pos => Stage(j).deploys # n)
    BY <1>1, OthersStay DEF RunInv
  <2>2. {At(m) : m \in Stage(j).uses \cap Names}' = {At(m) : m \in Stage(j).uses \cap Names}
    <3>1. \A m \in Stage(j).uses \cap Names : At(m)' = At(m)
      BY <2>1, RedeployedNumbers
    <3> QED  BY <1>2, <3>1
  <2>3. UsesKnown(Stage(j))'
    <3>1. UsesKnown(Stage(j))
      BY <1>1 DEF RunInv, StepsPassed
    <3> QED  BY <1>2, <3>1, RedeployedNumbers DEF UsesKnown
  <2>4. CASE j = pos
    <3>0. saved'[n] = [number |-> saved[n].number + 1, code |-> code[n], args |-> Arguments]
      BY <1>1, RedeployedNumbers
    <3>1. saved'[n].number = saved[n].number + 1 /\ saved'[n].code = code[n] /\ saved'[n].args = Arguments
      BY <3>0
    <3>2. saved'[n].number > 0
      <4>1. saved[n].number \in Nat
        BY <1>1 DEF RunInv, RunTypeOK, Deployment
      <4> QED  BY <3>1, <4>1
    <3>3. code' = code
      BY DEF Redeploys
    <3> QED  BY <1>1, <1>2, <2>2, <2>3, <2>4, <3>1, <3>2, <3>3 DEF Current
  <2>5. CASE j # pos
    <3>1. Current(Stage(j))
      BY <1>1, <2>5 DEF RunInv, StepsPassed
    <3>2. Stage(j).deploys # "nothing" => Stage(j).deploys \in Names
      BY <1>1, StepFacts DEF AnyStep, RunInv, RunTypeOK
    <3>3. Stage(j).deploys # "nothing" => saved'[Stage(j).deploys] = saved[Stage(j).deploys]
      BY <2>1, <2>5, <3>2, RedeployedNumbers
    <3> QED  BY <1>2, <2>2, <2>3, <3>1, <3>3 DEF Current, Redeploys
  <2> QED  BY <2>4, <2>5
<1> QED  BY <1>3

\* A name is deployed at most once for each new version.
LEMMA DeployNumbers ==
  ASSUME RunInv, Deploy, Redeploys(Here.deploys), ~Current(Here)
  PROVE  NumbersFollow'
<1> DEFINE n == Here.deploys
<1>1. /\ pos \in 1 .. Len(Plan[network]) /\ Here = Stage(pos) /\ n \in Names /\ n # "nothing"
      /\ network' = network /\ code' = code /\ Compiled' = Compiled
  BY DeployFacts DEF Deploy, Redeploys, Compiled
<1>2. \A j : Stage(j)' = Stage(j)
  BY DEF Stage, Redeploys
<1>3. Len(Plan[network]) \in Nat /\ Compiled \in Nat
  BY StepFacts, ConstantsOK DEF RunInv, RunTypeOK, Compiled, ConstantsOK
<1>4. saved[n].number <= Compiled
  <2>1. pos \in 1 .. pos
    BY <1>1
  <2>2. MayDeployAgain(pos)
    BY <1>1, <2>1 DEF MayDeployAgain
  <2> QED  BY <1>1, <2>2 DEF RunInv, NumbersFollow
<1>5. saved'[n].number = saved[n].number + 1 /\ saved[n].number \in Nat
  <2>1. saved'[n] = [number |-> saved[n].number + 1, code |-> code[n], args |-> Arguments]
    BY <1>1, RedeployedNumbers
  <2> QED  BY <1>1, <2>1 DEF RunInv, RunTypeOK, Deployment
<1>6. ASSUME NEW m \in Names
      PROVE  /\ code'[m] <= 1 + Compiled' /\ saved'[m].number <= 1 + Compiled'
             /\ saved'[m].number > 0 => \E k \in 1 .. Len(Plan[network']) : Stage(k)'.deploys = m
  <2>1. CASE m = n
    <3>1. saved'[n].number <= 1 + Compiled
      BY <1>3, <1>4, <1>5
    <3> QED  BY <1>1, <1>2, <2>1, <3>1 DEF RunInv, NumbersFollow
  <2>2. CASE m # n
    <3>1. saved'[m] = saved[m]
      BY <2>2, RedeployedNumbers
    <3> QED  BY <1>1, <1>2, <3>1 DEF RunInv, NumbersFollow
  <2> QED  BY <2>1, <2>2
<1>7. ASSUME NEW k \in 1 .. Len(Plan[network]), Stage(k).deploys # "nothing", MayDeployAgain(k)'
      PROVE  saved'[Stage(k).deploys].number <= Compiled
  <2>1. PICK j \in 1 .. k : ~Current(Stage(j))'
    BY <1>2, <1>7 DEF MayDeployAgain
  <2>2. j \notin 1 .. pos
    BY <2>1, DeployPasses
  <2>3. pos \in 1 .. k /\ pos # k
    BY <1>1, <1>3, <2>2
  <2>4. MayDeployAgain(k)
    BY <1>1, <2>3 DEF MayDeployAgain
  <2>5. saved[Stage(k).deploys].number <= Compiled
    BY <1>7, <2>4 DEF RunInv, NumbersFollow
  <2>6. Stage(k).deploys # n
    BY <1>1, <1>7, <2>3, OthersStay DEF RunInv
  <2>7. Stage(k) \in AnyStep
    BY StepFacts DEF RunInv, RunTypeOK
  <2>8. Stage(k).deploys \in Names
    BY <1>7, <2>7 DEF AnyStep
  <2> QED  BY <2>5, <2>6, <2>8, RedeployedNumbers
<1> QED  BY <1>1, <1>2, <1>6, <1>7 DEF NumbersFollow

\* What a contract was built from was saved then and still is.
LEMMA DeployArguments ==
  ASSUME RunInv, Deploy, Redeploys(Here.deploys), ~Current(Here)
  PROVE  (ArgumentsSaved /\ Once("Comp") /\ Once("Unitroller"))'
<1> DEFINE n == Here.deploys
<1>1. /\ n \in Names /\ n # "nothing" /\ Here = Stage(pos) /\ pos \in 1 .. Len(Plan[network])
      /\ Arguments = {At(m) : m \in Here.uses \cap Names}
      /\ \A m \in Here.uses \cap Names : saved[m].number \in Nat \ {0}
      /\ ~UpToDate(n) /\ code' = code
  BY DeployFacts DEF Deploy, Redeploys
<1>2. saved'[n] = [number |-> saved[n].number + 1, code |-> code[n], args |-> Arguments]
  BY <1>1, RedeployedNumbers
<1>3. saved[n].number \in Nat /\ code[n] \in Nat \ {0} /\ saved \in [Names -> Deployment(Names)]
  BY <1>1 DEF RunInv, RunTypeOK, Deployment
<1>4. ASSUME NEW a \in Arguments
      PROVE  a[2] \in 1 .. saved'[a[1]].number
  <2>1. PICK m \in Here.uses \cap Names : a = << m, saved[m].number >>
    BY <1>1 DEF At
  <2>2. saved[m].number \in Nat \ {0} /\ saved'[m].number \in Nat /\ saved[m].number <= saved'[m].number
    BY <1>1, RedeployedNumbers
  <2> QED  BY <2>1, <2>2
<1>5. ASSUME NEW m \in Names
      PROVE  /\ saved'[m].code = 0 <=> saved'[m].number = 0
             /\ \A a \in saved'[m].args : a[2] \in 1 .. saved'[a[1]].number
  <2>1. CASE m = n
    BY <1>2, <1>3, <1>4, <2>1
  <2>2. CASE m # n
    <3>1. saved'[m] = saved[m]
      BY <2>2, RedeployedNumbers
    <3>2. ASSUME NEW a \in saved[m].args
          PROVE  a[2] \in 1 .. saved'[a[1]].number
      <4>1. a[1] \in Names /\ a[2] \in 1 .. saved[a[1]].number
        BY <1>3 DEF RunInv, ArgumentsSaved, Deployment
      <4>2. \A o \in Names : /\ saved[o].number \in Nat /\ saved'[o].number \in Nat
                             /\ saved[o].number <= saved'[o].number
        BY RedeployedNumbers
      <4>3. \A x, y \in Nat : x <= y => 1 .. x \subseteq 1 .. y
        OBVIOUS
      <4>4. 1 .. saved[a[1]].number \subseteq 1 .. saved'[a[1]].number
        BY <4>1, <4>2, <4>3
      <4> QED  BY <4>1, <4>4
    <3> QED  BY <3>1, <3>2 DEF RunInv, ArgumentsSaved
  <2> QED  BY <2>1, <2>2
<1>6. ASSUME NEW m \in {"Comp", "Unitroller"}, Once(m)
      PROVE  Once(m)'
  <2>1. m \in Names
    BY NamesInclude
  <2>2. CASE m = n
    <3>1. Here.uses = {}
      BY <1>1, <2>2, StepFacts DEF WellMade, RunInv, RunTypeOK
    <3>2. Arguments = {}
      BY <1>1, <3>1
    <3>3. saved[n].number = 0
      <4>1. code[n] = 1 /\ (saved[n].number = 0 \/ saved[n] = [number |-> 1, code |-> 1, args |-> {}])
        BY <1>6, <2>2 DEF Once
      <4>2. saved[n] = [number |-> 1, code |-> 1, args |-> {}] => UpToDate(n)
        BY <3>2, <4>1 DEF UpToDate
      <4> QED  BY <1>1, <4>1, <4>2
    <3>4. code'[n] = 1 /\ saved'[n] = [number |-> 1, code |-> 1, args |-> {}]
      <4>1. code[n] = 1 /\ code' = code
        BY <1>1, <1>6, <2>2 DEF Once
      <4>2. saved'[n] = [number |-> 0 + 1, code |-> 1, args |-> {}]
        BY <1>2, <3>2, <3>3, <4>1
      <4> QED  BY <4>1, <4>2
    <3> QED  BY <2>2, <3>4 DEF Once
  <2>3. CASE m # n
    BY <1>1, <1>6, <2>1, <2>3, RedeployedNumbers DEF Once
  <2> QED  BY <2>2, <2>3
<1> QED  BY <1>5, <1>6 DEF ArgumentsSaved, RunInv

\* A deployment keeps the invariant, whether or not there is anything new.
LEMMA DeployKeeps ==
  ASSUME RunInv, Deploy
  PROVE  RunInv'
<1> DEFINE n == Here.deploys
<1>1. /\ Running /\ UsesKnown(Here) /\ n \in Names /\ (UpToDate(n) <=> Current(Here))
      /\ pos' = Later /\ calls' = <<>> /\ UNCHANGED << network, code, left >>
      /\ Arguments \subseteq Names \X (Nat \ {0}) /\ Here = Stage(pos)
  BY DeployFacts
<1>2. CallsAreHere'
  BY <1>1 DEF CallsAreHere
<1>3. CASE Current(Here)
  <2>1. SameContracts
    BY <1>1, <1>3 DEF Deploy, SameContracts, RunInv, RunTypeOK
  <2>2. StepsPassed' /\ pos' \in 0 .. Len(Plan[network])
    BY <1>1, <1>3, <2>1, LaterPasses
  <2>3. RunTypeOK'
    BY <1>1, <2>1, <2>2 DEF RunInv, RunTypeOK, SameContracts
  <2> QED  BY <1>2, <2>1, <2>2, <2>3, SameVersions DEF RunInv
<1>4. CASE ~Current(Here)
  <2>1. Redeploys(n)
    <3>1. saved' = [saved EXCEPT ![n] = [number |-> saved[n].number + 1, code |-> code[n], args |-> Arguments]]
      BY <1>1, <1>4 DEF Deploy
    <3> QED  BY <1>1, <3>1 DEF Redeploys
  <2>2. saved' \in [Names -> Deployment(Names)]
    <3>1. saved[n].number + 1 \in Nat /\ code[n] \in Nat /\ Arguments \in SUBSET (Names \X Nat)
      BY <1>1 DEF RunInv, RunTypeOK, Deployment
    <3>2. [number |-> saved[n].number + 1, code |-> code[n], args |-> Arguments] \in Deployment(Names)
      BY <3>1 DEF Deployment
    <3> QED  BY <2>1, <3>2 DEF Redeploys, RunInv, RunTypeOK
  <2>3. pos' \in 0 .. Len(Plan[network]) /\ pos \in 1 .. Len(Plan[network])
    BY <1>1, HereFacts DEF RunInv
  <2>4. RunTypeOK'
    BY <1>1, <2>2, <2>3 DEF RunInv, RunTypeOK
  <2>5. StepsPassed'
    <3>1. \A j \in 1 .. pos' - 1 : j \in 1 .. pos
      BY <1>1, <2>3, StepFacts DEF Later, RunInv, RunTypeOK
    <3>2. \A j : Stage(j)' = Stage(j)
      BY <1>1 DEF Stage
    <3> QED  BY <2>1, <3>1, <3>2, DeployPasses DEF StepsPassed
  <2> QED
    BY <1>2, <1>4, <2>1, <2>4, <2>5, DeployNumbers, DeployArguments DEF RunInv
<1> QED  BY <1>3, <1>4

\* Before the first run nothing is saved.
LEMMA RunInitially ==
  ASSUME DeploymentInit
  PROVE  RunInv
<1>1. \A n \in Names : code[n] = 1 /\ saved[n] = [number |-> 0, code |-> 0, args |-> {}]
  BY DEF DeploymentInit, Undeployed
<1>2. RunTypeOK
  <2>1. network \in RunsOn /\ pos = 0 /\ calls = <<>>
        /\ left = [crashes |-> MaxCrashes, upgrades |-> MaxUpgrades, tunes |-> MaxTunes]
    BY DEF DeploymentInit
  <2>2. Len(Plan[network]) \in Nat
    BY <2>1, StepFacts
  <2>3. code \in [Names -> Nat \ {0}] /\ saved \in [Names -> Deployment(Names)]
    BY DEF DeploymentInit, Undeployed, Deployment
  <2>4. left \in [crashes : Nat, upgrades : 0 .. MaxUpgrades, tunes : Nat]
    BY <2>1, ConstantsOK DEF ConstantsOK
  <2> QED  BY <2>1, <2>2, <2>3, <2>4 DEF RunTypeOK
<1>3. pos = 0 /\ calls = <<>> /\ Compiled = 0
  BY ConstantsOK DEF DeploymentInit, Compiled, ConstantsOK
<1>4. CallsAreHere /\ StepsPassed
  BY <1>3 DEF CallsAreHere, StepsPassed
<1>5. NumbersFollow
  <2>1. ASSUME NEW k \in 1 .. Len(Plan[network]), Stage(k).deploys # "nothing"
        PROVE  Stage(k).deploys \in Names
    <3>1. Stage(k) \in AnyStep
      BY <1>2, StepFacts DEF RunTypeOK
    <3> QED  BY <2>1, <3>1 DEF AnyStep
  <2> QED  BY <1>1, <1>3, <2>1 DEF NumbersFollow
<1>6. ArgumentsSaved /\ Once("Comp") /\ Once("Unitroller")
  BY <1>1, NamesInclude DEF ArgumentsSaved, Once
<1> QED  BY <1>2, <1>4, <1>5, <1>6 DEF RunInv

\* The contracts that are saved, for every run
THEOREM RunsKeepInv == DeploymentSpec => []RunInv
<1>1. RunInv /\ [DeploymentNext]_deploymentVars => RunInv'
  <2> SUFFICES ASSUME RunInv, [DeploymentNext]_deploymentVars  PROVE RunInv'
    OBVIOUS
  <2>1. \/ Start \/ Deploy \/ Read \/ \E name \in Upgradable : Upgrade(name)
        \/ Ends \/ Sends \/ Waits
    BY StepKinds DEF RunInv
  <2> QED
    BY <2>1, StartKeeps, DeployKeeps, ReadKeeps, UpgradeKeeps, EndsKeeps, SendsKeeps, WaitsKeeps
<1> QED  BY <1>1, RunInitially, PTL DEF DeploymentSpec

-----------------------------------------------------------------------------
\* The chain: what the addresses, the markets and the offers have in common.
Address == {Nowhere} \cup (Names \X Numbers)
Factors == {"zero", "scripted", "tuned"}
Proxies ==
  [implementation : Address, pendingImplementation : Address, comp : Address, reservoir : Address,
   oracle : Address, closeFactor : Factors, liquidationIncentive : Factors]
Listings == [listed : BOOLEAN, collateralFactor : BOOLEAN, compWeight : BOOLEAN, reserveFactor : BOOLEAN]
Wrapper == <<"A3OWrapper", 0>>

IsSaved(a) == a # Nowhere => a[2] \in 1 .. saved[a[1]].number

\* What the Unitroller is configured with was saved, and comes in one piece.
ProxyRight ==
  /\ proxy \in Proxies
  /\ IsSaved(proxy.implementation) /\ IsSaved(proxy.pendingImplementation) /\ IsSaved(proxy.comp)
  /\ IsSaved(proxy.reservoir) /\ IsSaved(proxy.oracle)
  /\ proxy.oracle # Nowhere => proxy.oracle[1] = "OracleAggregatorV1"
  /\ proxy.comp # Nowhere => proxy.comp = At("Comp") /\ proxy.reservoir # Nowhere

\* A source of prices has the price.
SourcesRight ==
  /\ prices \subseteq {"SimplePriceOracle"} \X Numbers
  /\ sources \in [Numbers -> SUBSET ((Markets \X Numbers) \X (prices \cup {Wrapper}))]

LoansReady ==
  /\ proxy.closeFactor # "zero" /\ proxy.liquidationIncentive # "zero"
  /\ proxy.comp # Nowhere /\ proxy.reservoir # Nowhere

MarketRight(m) ==
  /\ markets[m].collateralFactor \/ markets[m].compWeight => markets[m].listed
  /\ markets[m].collateralFactor => LoansReady /\ (Priced(m) \/ saved["OracleAggregatorV1"].number > 1)
MarketsRight ==
  /\ markets \in [Markets \X Numbers -> Listings] /\ seed \in {0, 1}
  /\ \A m \in Markets \X Numbers : MarketRight(m)

\* Something has been offered to the multisig.
Offered == nominated \cup handed # {}
OffersRight ==
  /\ nominated \subseteq HandedOver \X Numbers /\ handed \subseteq HandedOver \X Numbers
  /\ Offered => LoansReady

\* What a call wanted
Met(c) ==
  /\ c.call = "_become" => proxy.implementation = At("Comptroller")
  /\ c.call = "_initializeCompParameters" => proxy.comp # Nowhere
  /\ c.call = "_setCloseFactor" => proxy.closeFactor = "scripted"
  /\ c.call = "_setLiquidationIncentive" => proxy.liquidationIncentive = "scripted"
  /\ c.call = "_setPriceOracle" => proxy.oracle = At("OracleAggregatorV1")
  /\ c.call = "_supportMarket" => markets[At(c.on)].listed
  /\ c.call = "setAggregators" => \E s \in sources[saved["OracleAggregatorV1"].number] : s[1] = At(c.on)
  /\ c.call = "_setCollateralFactor" => markets[At(c.on)].collateralFactor
  /\ c.call = "_setCompWeight" => markets[At(c.on)].compWeight
  /\ c.call = "_setReserveFactor" => markets[At(c.on)].reserveFactor
HasPrice(c) == c.call = "setUnderlyingPrice" => At("SimplePriceOracle") \in prices

\* A run leaves nothing undone as long as nothing was offered.
AllMet(s) == \A i \in DOMAIN s.calls : Met(s.calls[i])
AllPriced(s) == \A i \in DOMAIN s.calls : HasPrice(s.calls[i])
CallsPassed == \A j \in 1 .. pos - 1 : AllPriced(Stage(j)) /\ (~Offered => AllMet(Stage(j)))

ChainInv == ProxyRight /\ SourcesRight /\ MarketsRight /\ OffersRight /\ CallsPassed

\* The numbers of what is saved
LEMMA SavedNumbers ==
  ASSUME RunInv
  PROVE  /\ \A n \in Names : saved[n].number \in Nat
         /\ \A n \in Names : saved[n].number > 0 =>
              saved[n].number \in Numbers /\ At(n) \in Names \X Numbers /\ At(n) # Nowhere /\ IsSaved(At(n))
<1>1. MaxUpgrades \in Nat /\ left.upgrades \in 0 .. MaxUpgrades
  BY ConstantsOK DEF ConstantsOK, RunInv, RunTypeOK
<1>2. ASSUME NEW n \in Names
      PROVE  saved[n].number \in Nat /\ saved[n].number <= 1 + Compiled
  BY DEF RunInv, RunTypeOK, Deployment, NumbersFollow
<1>3. ASSUME NEW n \in Names, saved[n].number > 0
      PROVE  saved[n].number \in Numbers /\ saved[n].number \in 1 .. saved[n].number
  BY <1>1, <1>2, <1>3 DEF Compiled, Numbers
<1>4. ASSUME NEW n \in Names, saved[n].number > 0
      PROVE  At(n) \in Names \X Numbers /\ At(n) # Nowhere /\ IsSaved(At(n))
  BY <1>2, <1>3, <1>4 DEF At, Nowhere, IsSaved
<1> QED  BY <1>2, <1>3, <1>4

\* The call that is sent: its place in the step and what came before
LEMMA CallFacts ==
  ASSUME RunInv, Running, calls # <<>>
  PROVE  \E i \in DOMAIN Here.calls :
           /\ Head(calls) = Here.calls[i] /\ (Len(calls) = 1 <=> i = Len(Here.calls))
           /\ CallFits(Here, i) /\ CallComesAfter(Plan[network], pos, i)
           /\ Head(calls).call = "_setPendingAdmin" => OfferComesLast(network, pos)
<1>1. /\ pos \in 1 .. Len(Plan[network]) /\ WellMade(Here)
      /\ Here.calls \in Seq([call : STRING, on : Names]) /\ Len(Here.calls) \in Nat
      /\ DOMAIN Here.calls = 1 .. Len(Here.calls)
  BY HereFacts, LenProperties DEF RunInv
<1>2. calls \in Seq([call : STRING, on : Names]) /\ Len(calls) \in Nat \ {0} /\ Head(calls) = calls[1]
  BY EmptySeq, LenProperties, HeadTailProperties DEF RunInv, RunTypeOK
<1>3. Len(calls) <= Len(Here.calls) /\ calls[1] = Here.calls[Len(Here.calls) - Len(calls) + 1]
  BY <1>2 DEF RunInv, CallsAreHere, Rest
<1> DEFINE i == Len(Here.calls) - Len(calls) + 1
<1>4. i \in 1 .. Len(Here.calls) /\ (Len(calls) = 1 <=> i = Len(Here.calls))
  <2>1. \A a \in Nat : \A b \in Nat \ {0} : b <= a => a - b + 1 \in 1 .. a /\ (b = 1 <=> a - b + 1 = a)
    OBVIOUS
  <2>2. Len(Here.calls) \in Nat /\ Len(calls) \in Nat \ {0} /\ Len(calls) <= Len(Here.calls)
    BY <1>1, <1>2, <1>3
  <2> QED  BY <2>1, <2>2
<1>5. Here = Stage(pos) /\ Here = Plan[network][pos]
  BY DEF Here, Stage
<1>6. Head(calls) = Here.calls[i]
  BY <1>2, <1>3
<1> HIDE DEF i
<1>7. /\ CallFits(Here, i) /\ CallComesAfter(Plan[network], pos, i)
      /\ Here.calls[i].call = "_setPendingAdmin" => OfferComesLast(network, pos)
  BY <1>1, <1>4, <1>5, StepFacts DEF WellMade, RunInv, RunTypeOK
<1> QED  BY <1>1, <1>4, <1>6, <1>7

\* Everything a step before this one deployed is saved.
LEMMA DeployedIsSaved ==
  ASSUME RunInv, Running, NEW n \in Names, n \in Here.uses \cup DeployedBefore(Plan[network], pos), calls # <<>>
  PROVE  saved[n].number > 0
<1>1. CASE n \in Here.uses
  BY <1>1, NamesInclude DEF RunInv, CallsAreHere, UsesKnown, Known, Externals
<1>2. CASE n \in DeployedBefore(Plan[network], pos)
  <2>1. PICK j \in 1 .. pos - 1 : Stage(j).deploys = n
    BY <1>2 DEF DeployedBefore, Stage
  <2> QED  BY <2>1, NamesInclude DEF RunInv, StepsPassed, Current
<1> QED  BY <1>1, <1>2

\* What was sent by the steps before this one
LEMMA SentIsPassed ==
  ASSUME RunInv, Running, ChainInv, NEW c \in SentBefore(Plan[network], pos)
  PROVE  HasPrice(c) /\ (~Offered => Met(c))
<1>1. PICK j \in 1 .. pos - 1 : c \in ToSet(Stage(j).calls)
  BY DEF SentBefore, Stage
<1>2. PICK i \in DOMAIN Stage(j).calls : Stage(j).calls[i] = c
  BY <1>1 DEF ToSet
<1> QED  BY <1>1, <1>2 DEF ChainInv, CallsPassed, AllMet, AllPriced

\* A loan can be liquidated before a market takes collateral or is offered.
LEMMA LoansReadyHere ==
  ASSUME RunInv, ChainInv, Running, calls # <<>>,
         Head(calls).call \in {"_setCollateralFactor", "_setPendingAdmin"}
  PROVE  LoansReady
<1>1. CASE Offered
  BY <1>1 DEF ChainInv, OffersRight
<1>2. CASE ~Offered
  <2>1. PICK i \in DOMAIN Here.calls :
          Head(calls) = Here.calls[i] /\ CallComesAfter(Plan[network], pos, i)
    BY CallFacts
  <2>2. LoanCalls \subseteq SentBefore(Plan[network], pos)
    BY <2>1 DEF CallComesAfter, Here
  <2>3. \A c \in LoanCalls : Met(c)
    BY <1>2, <2>2, SentIsPassed
  <2>4. /\ Met(Call("_setCloseFactor", "Unitroller")) /\ Met(Call("_setLiquidationIncentive", "Unitroller"))
        /\ Met(Call("_initializeCompParameters", "Unitroller"))
    BY <2>3 DEF LoanCalls
  <2>5. proxy.closeFactor = "scripted" /\ proxy.liquidationIncentive = "scripted" /\ proxy.comp # Nowhere
    BY <2>4 DEF Met, Call
  <2> QED  BY <2>5 DEF LoansReady, ChainInv, ProxyRight
<1> QED  BY <1>1, <1>2

\* A call is sent to a contract that is saved; one about a market to a market.
LEMMA CallTarget ==
  ASSUME RunInv, Running, calls # <<>>
  PROVE  /\ Head(calls).on \in Names /\ saved[Head(calls).on].number > 0
         /\ On \in Names \X Numbers /\ On[1] = Head(calls).on
         /\ Head(calls).call \in MarketCalls => Head(calls).on \in Markets /\ On \in Markets \X Numbers
         /\ Head(calls).call = "_setPendingAdmin" => On \in HandedOver \X Numbers
         /\ Head(calls).call = "setUnderlyingPrice" => On \in {"SimplePriceOracle"} \X Numbers
<1>1. PICK i \in DOMAIN Here.calls :
        /\ Head(calls) = Here.calls[i] /\ CallFits(Here, i)
        /\ CallComesAfter(Plan[network], pos, i)
  BY CallFacts
<1>2. Head(calls).on \in Names
  <2>1. calls \in Seq([call : STRING, on : Names]) /\ Head(calls) \in [call : STRING, on : Names]
    BY HeadTailProperties, EmptySeq DEF RunInv, RunTypeOK
  <2> QED  BY <2>1
<1>3. Head(calls).on \in Here.uses \cup DeployedBefore(Plan[network], pos)
  BY <1>1 DEF CallComesAfter, Here
<1>4. saved[Head(calls).on].number > 0
  BY <1>2, <1>3, DeployedIsSaved
<1>5. saved[Head(calls).on].number \in Numbers
  BY <1>2, <1>4, SavedNumbers
<1>6. On = << Head(calls).on, saved[Head(calls).on].number >>
  BY DEF On, At
<1>7. /\ Head(calls).call \in MarketCalls => Head(calls).on \in Markets
      /\ Head(calls).call = "_setPendingAdmin" => Head(calls).on \in HandedOver
      /\ Head(calls).call = "setUnderlyingPrice" => Head(calls).on = "SimplePriceOracle"
  BY <1>1 DEF CallFits
<1> QED  BY <1>2, <1>4, <1>5, <1>6, <1>7

\* How the proxy changes: nothing is taken back, and a setting of the
\* multisig's comes after an offer.
ProxyMoves ==
  /\ UNCHANGED << network, saved, markets, sources, prices, seed, nominated, handed >>
  /\ \/ proxy' = proxy
     \/ /\ saved["Comptroller"].number > 0
        /\ \/ proxy' = [proxy EXCEPT !.pendingImplementation = At("Comptroller")]
           \/ proxy' = [proxy EXCEPT !.implementation = At("Comptroller"), !.pendingImplementation = Nowhere]
     \/ /\ saved["Comp"].number > 0 /\ saved["Reservoir"].number > 0 /\ proxy.comp = Nowhere
        /\ proxy' = [proxy EXCEPT !.comp = At("Comp"), !.reservoir = At("Reservoir")]
     \/ proxy' = [proxy EXCEPT !.closeFactor = "scripted"]
     \/ proxy' = [proxy EXCEPT !.liquidationIncentive = "scripted"]
     \/ /\ saved["OracleAggregatorV1"].number > 0
        /\ proxy' = [proxy EXCEPT !.oracle = At("OracleAggregatorV1")]
     \/ /\ Offered /\ \/ proxy' = [proxy EXCEPT !.closeFactor = "tuned"]
                      \/ proxy' = [proxy EXCEPT !.liquidationIncentive = "tuned"]

\* Each transaction about the proxy changes it so.
LEMMA ProxyActionsMove ==
  ASSUME RunInv, ChainInv,
         \/ SetPendingImplementation \/ Become \/ InitializeCompParameters
         \/ SetCloseFactor \/ SetLiquidationIncentive \/ SetPriceOracle
         \/ \E setting \in {"closeFactor", "liquidationIncentive"} : Tune(setting)
  PROVE  ProxyMoves
<1>1. ASSUME NEW call, Calling(call)
      PROVE  /\ call \in {"_setPendingImplementation", "_become"} => saved["Comptroller"].number > 0
             /\ call = "_setPriceOracle" => saved["OracleAggregatorV1"].number > 0
             /\ call = "_initializeCompParameters" =>
                  saved["Comp"].number > 0 /\ saved["Reservoir"].number > 0
  <2>1. Running /\ calls # <<>> /\ Head(calls).call = call
    BY <1>1 DEF Calling
  <2>2. PICK i \in DOMAIN Here.calls :
          /\ Head(calls) = Here.calls[i] /\ CallFits(Here, i)
          /\ CallComesAfter(Plan[network], pos, i)
    BY <2>1, CallFacts
  <2>3. /\ call \in {"_setPendingImplementation", "_become"} => "Comptroller" \in Here.uses
        /\ call = "_setPriceOracle" => "OracleAggregatorV1" \in Here.uses
    BY <2>1, <2>2 DEF CallFits
  <2>4. call = "_initializeCompParameters" => {"Comp", "Reservoir"} \subseteq DeployedBefore(Plan[network], pos)
    BY <2>1, <2>2 DEF CallComesAfter, Here
  <2>5. {"Comptroller", "Comp", "Reservoir", "OracleAggregatorV1"} \subseteq Names
    BY NamesInclude DEF HandedOver
  <2> QED  BY <2>1, <2>3, <2>4, <2>5, DeployedIsSaved
<1>2. CASE SetPendingImplementation
  BY <1>1, <1>2 DEF SetPendingImplementation, ProxyMoves
<1>3. CASE Become
  BY <1>1, <1>3 DEF Become, ProxyMoves
<1>4. CASE InitializeCompParameters
  BY <1>1, <1>4 DEF InitializeCompParameters, ProxyMoves
<1>5. CASE SetCloseFactor
  BY <1>1, <1>5 DEF SetCloseFactor, ProxyMoves
<1>6. CASE SetLiquidationIncentive
  BY <1>1, <1>6 DEF SetLiquidationIncentive, ProxyMoves
<1>7. CASE SetPriceOracle
  BY <1>1, <1>7 DEF SetPriceOracle, ProxyMoves
<1>8. ASSUME NEW setting \in {"closeFactor", "liquidationIncentive"}, Tune(setting)
      PROVE  ProxyMoves
  <2>1. Offered
    BY <1>8 DEF Tune, Offered
  <2> QED  BY <1>8, <2>1 DEF Tune, ProxyMoves
<1> QED  BY <1>2, <1>3, <1>4, <1>5, <1>6, <1>7, <1>8

\* Changed so, the Comptroller keeps what lending and the offers rest on.
LEMMA ProxyMovesKeeps ==
  ASSUME RunInv, ChainInv, ProxyMoves
  PROVE  /\ ProxyRight' /\ SourcesRight' /\ MarketsRight' /\ OffersRight'
         /\ \A c : HasPrice(c) => HasPrice(c)'
         /\ \A c : ~Offered' /\ Met(c) => Met(c)'
<1> DEFINE aggregator == "OracleAggregatorV1"
<1>0. \A n : At(n)' = At(n)
  BY DEF At, ProxyMoves
<1>1. {"Comptroller", "Comp", "Reservoir", aggregator} \subseteq Names
  BY NamesInclude DEF HandedOver
<1>2. \A n \in {"Comptroller", "Comp", "Reservoir", aggregator} : saved[n].number > 0 =>
        At(n) \in Names \X Numbers /\ At(n) # Nowhere /\ IsSaved(At(n)) /\ At(n)[1] = n
  BY <1>1, SavedNumbers DEF At
<1>3. ProxyRight /\ proxy \in Proxies /\ Nowhere \in Address /\ IsSaved(Nowhere)
  BY DEF ChainInv, ProxyRight, Address, IsSaved
<1>4. proxy' \in Proxies
  BY <1>2, <1>3 DEF ProxyMoves, Proxies, Address, Factors
<1>5. /\ IsSaved(proxy'.implementation) /\ IsSaved(proxy'.pendingImplementation)
      /\ IsSaved(proxy'.comp) /\ IsSaved(proxy'.reservoir) /\ IsSaved(proxy'.oracle)
  BY <1>2, <1>3 DEF ProxyMoves, Proxies, ProxyRight
<1>6. /\ proxy'.oracle # Nowhere => proxy'.oracle[1] = aggregator
      /\ proxy'.comp # Nowhere => proxy'.comp = At("Comp") /\ proxy'.reservoir # Nowhere
  BY <1>2, <1>3 DEF ProxyMoves, Proxies, ProxyRight
<1>7. ProxyRight'
  BY <1>0, <1>4, <1>5, <1>6 DEF ProxyRight, IsSaved, ProxyMoves
<1>8. LoansReady => LoansReady'
  BY <1>2, <1>3 DEF LoansReady, ProxyMoves, Proxies, Factors
<1>9. saved[aggregator].number \in Nat
  BY <1>1, SavedNumbers
<1>10. ASSUME NEW m, Priced(m), ~(saved[aggregator].number > 1)
       PROVE  Priced(m)'
  <2>1. proxy.oracle # Nowhere /\ proxy.oracle[2] = saved[aggregator].number
    <3>1. proxy.oracle # Nowhere /\ proxy.oracle[2] \in 1 .. saved[aggregator].number
      BY <1>3, <1>10 DEF Priced, ProxyRight, IsSaved
    <3> QED  BY <1>9, <1>10, <3>1
  <2>2. proxy'.oracle # Nowhere /\ proxy'.oracle[2] = proxy.oracle[2]
    <3>1. proxy'.oracle = proxy.oracle \/ (proxy'.oracle = At(aggregator) /\ saved[aggregator].number > 0)
      BY <1>3 DEF ProxyMoves, Proxies
    <3>2. saved[aggregator].number > 0 => At(aggregator) # Nowhere
      BY <1>2
    <3> QED  BY <2>1, <3>1, <3>2 DEF At
  <2> QED  BY <1>10, <2>2 DEF Priced, ProxyMoves
<1>11. SourcesRight'
  BY DEF ChainInv, SourcesRight, ProxyMoves
<1>12. MarketsRight'
  BY <1>8, <1>10 DEF ChainInv, MarketsRight, MarketRight, ProxyMoves
<1>13. OffersRight'
  BY <1>8 DEF ChainInv, OffersRight, Offered, ProxyMoves
<1>14. ASSUME NEW c, ~Offered', Met(c)
       PROVE  Met(c)'
  <2>1. ~Offered /\ UNCHANGED << saved, markets, sources >>
    BY <1>14 DEF Offered, ProxyMoves
  <2>2. /\ proxy.implementation = At("Comptroller") => proxy'.implementation = At("Comptroller")
        /\ proxy.comp # Nowhere => proxy'.comp # Nowhere
        /\ proxy.closeFactor = "scripted" => proxy'.closeFactor = "scripted"
        /\ proxy.liquidationIncentive = "scripted" => proxy'.liquidationIncentive = "scripted"
        /\ proxy.oracle = At(aggregator) => proxy'.oracle = At(aggregator)
    BY <1>2, <1>3, <2>1 DEF ProxyMoves, Proxies
  <2> QED  BY <1>0, <1>14, <2>1, <2>2 DEF Met
<1>15. \A c : HasPrice(c) => HasPrice(c)'
  BY <1>0 DEF HasPrice, ProxyMoves
<1> QED  BY <1>7, <1>11, <1>12, <1>13, <1>14, <1>15

\* How the markets change: a market that was not listed is, or a listed one
\* gets the factor it has what it needs for.
MarketMoves(m) ==
  /\ m \in Markets \X Numbers /\ seed' \in {0, 1}
  /\ UNCHANGED << network, saved, proxy, sources, prices, nominated, handed >>
  /\ \/ markets' = markets
     \/ /\ ~markets[m].listed
        /\ markets' = [markets EXCEPT ![m] = [NotListed EXCEPT !.listed = TRUE,
                                                              !.reserveFactor = markets[m].reserveFactor]]
     \/ /\ markets[m].listed /\ Priced(m) /\ LoansReady
        /\ markets' = [markets EXCEPT ![m].collateralFactor = TRUE]
     \/ markets[m].listed /\ markets' = [markets EXCEPT ![m].compWeight = TRUE]
     \/ markets' = [markets EXCEPT ![m].reserveFactor = TRUE]

\* Each transaction about a market changes the markets so.
LEMMA MarketActionsMove ==
  ASSUME RunInv, ChainInv,
         TransferSeed \/ SupportMarket \/ SetCollateralFactor \/ SetCompWeight \/ SetReserveFactor
  PROVE  MarketMoves(On)
<1>1. Running /\ calls # <<>> /\ Head(calls).call \in MarketCalls
  BY DEF TransferSeed, SupportMarket, SetCollateralFactor, SetCompWeight, SetReserveFactor, Calling,
         MarketCalls
<1>2. On \in Markets \X Numbers
  BY <1>1, CallTarget
<1>3. seed \in {0, 1}
  BY DEF ChainInv, MarketsRight
<1>4. CASE TransferSeed
  BY <1>2, <1>3, <1>4 DEF TransferSeed, MarketMoves
<1>5. CASE SupportMarket
  BY <1>2, <1>3, <1>5 DEF SupportMarket, MarketMoves
<1>6. CASE SetCollateralFactor
  <2>1. LoansReady
    BY <1>1, <1>6, LoansReadyHere DEF SetCollateralFactor, Calling
  <2> QED  BY <1>2, <1>3, <1>6, <2>1 DEF SetCollateralFactor, MarketMoves
<1>7. CASE SetCompWeight
  BY <1>2, <1>3, <1>7 DEF SetCompWeight, MarketMoves
<1>8. CASE SetReserveFactor
  BY <1>2, <1>3, <1>8 DEF SetReserveFactor, MarketMoves
<1> QED  BY <1>4, <1>5, <1>6, <1>7, <1>8

\* A market changed so is still listed and seeded before it lends.
LEMMA MarketMovesKeeps ==
  ASSUME RunInv, ChainInv, NEW m, MarketMoves(m)
  PROVE  /\ ProxyRight' /\ SourcesRight' /\ MarketsRight' /\ OffersRight'
         /\ \A c : HasPrice(c) => HasPrice(c)'
         /\ \A c : c.call \in MarketCalls /\ At(c.on) \in Markets \X Numbers /\ Met(c) => Met(c)'
         /\ \A c : c.call \notin MarketCalls /\ Met(c) => Met(c)'
<1>0. (\A n : At(n)' = At(n)) /\ UNCHANGED << saved, proxy, sources, prices, nominated, handed >>
  BY DEF At, MarketMoves
<1>1. m \in Markets \X Numbers /\ markets \in [Markets \X Numbers -> Listings]
  BY DEF MarketMoves, ChainInv, MarketsRight
<1>2. markets' \in [Markets \X Numbers -> Listings]
  <2>1. ASSUME NEW l \in Listings
        PROVE  /\ [l EXCEPT !.collateralFactor = TRUE] \in Listings
               /\ [l EXCEPT !.compWeight = TRUE] \in Listings
               /\ [l EXCEPT !.reserveFactor = TRUE] \in Listings
               /\ [NotListed EXCEPT !.listed = TRUE, !.reserveFactor = l.reserveFactor] \in Listings
    BY DEF Listings, NotListed
  <2>2. markets[m] \in Listings
    BY <1>1
  <2>3. markets' = markets \/ \E l \in Listings : markets' = [markets EXCEPT ![m] = l]
    <3>1. CASE markets' = [markets EXCEPT ![m].collateralFactor = TRUE]
      BY <2>1, <2>2, <3>1
    <3>2. CASE markets' = [markets EXCEPT ![m].compWeight = TRUE]
      BY <2>1, <2>2, <3>2
    <3>3. CASE markets' = [markets EXCEPT ![m].reserveFactor = TRUE]
      BY <2>1, <2>2, <3>3
    <3> QED  BY <2>1, <2>2, <3>1, <3>2, <3>3 DEF MarketMoves
  <2> QED  BY <1>1, <2>3
<1>3. \A k \in Markets \X Numbers : MarketRight(k)
  BY DEF ChainInv, MarketsRight
<1>4. ASSUME NEW k \in Markets \X Numbers
      PROVE  /\ markets[k].listed => markets'[k].listed
             /\ markets[k].collateralFactor => markets'[k].collateralFactor
             /\ markets[k].compWeight => markets'[k].compWeight
             /\ markets[k].reserveFactor => markets'[k].reserveFactor
             /\ markets'[k].collateralFactor \/ markets'[k].compWeight => markets'[k].listed
             /\ markets'[k].collateralFactor =>
                  LoansReady /\ (Priced(k) \/ saved["OracleAggregatorV1"].number > 1)
  <2>1. markets[k] \in Listings /\ MarketRight(k)
    BY <1>1, <1>3
  <2>2. CASE k # m
    <3>1. markets'[k] = markets[k]
      BY <1>1, <2>2 DEF MarketMoves
    <3> QED  BY <2>1, <3>1 DEF MarketRight
  <2>3. CASE k = m
    BY <1>1, <2>1, <2>3 DEF MarketMoves, MarketRight, Listings, NotListed
  <2> QED  BY <2>2, <2>3
<1>5. \A k : Priced(k)' <=> Priced(k)
  BY <1>0 DEF Priced
<1>6. LoansReady' <=> LoansReady
  BY <1>0 DEF LoansReady
<1>7. MarketsRight'
  BY <1>0, <1>2, <1>4, <1>5, <1>6 DEF MarketsRight, MarketRight, MarketMoves
<1>8. ProxyRight' /\ SourcesRight' /\ OffersRight'
  BY <1>0, <1>6 DEF ChainInv, ProxyRight, SourcesRight, OffersRight, Offered, IsSaved, At
<1>9. \A c : HasPrice(c) => HasPrice(c)'
  BY <1>0 DEF HasPrice
<1>10. ASSUME NEW c, c.call \in MarketCalls, At(c.on) \in Markets \X Numbers, Met(c)
       PROVE  Met(c)'
  BY <1>0, <1>4, <1>10 DEF Met
<1>11. ASSUME NEW c, c.call \notin MarketCalls, Met(c)
       PROVE  Met(c)'
  BY <1>0, <1>11 DEF Met, MarketCalls
<1> QED  BY <1>7, <1>8, <1>9, <1>10, <1>11

\* A market's only source is now one that has its price.
SourceMoves(m, n, s) ==
  /\ m \in Markets \X Numbers /\ n \in Numbers /\ s \in prices \cup {Wrapper}
  /\ UNCHANGED << network, saved, proxy, markets, prices, seed, nominated, handed >>
  /\ \/ sources' = sources
     \/ sources' = [sources EXCEPT ![n] = {r \in sources[n] : r[1] # m} \cup {<< m, s >>}]

\* setAggregators gives a market the source of its prices.
LEMMA SourceActionMoves ==
  ASSUME RunInv, ChainInv, SetAggregators
  PROVE  \E s : SourceMoves(On, saved["OracleAggregatorV1"].number, s)
<1>1. Running /\ calls # <<>> /\ Head(calls).call = "setAggregators"
  BY DEF SetAggregators, Calling
<1>2. On \in Markets \X Numbers /\ Head(calls).on \in Markets
  BY <1>1, CallTarget DEF MarketCalls
<1>3. PICK i \in DOMAIN Here.calls :
        /\ Head(calls) = Here.calls[i] /\ CallFits(Here, i)
        /\ CallComesAfter(Plan[network], pos, i)
  BY <1>1, CallFacts
<1>4. saved["OracleAggregatorV1"].number \in Numbers
  <2>1. "OracleAggregatorV1" \in Names /\ "OracleAggregatorV1" \in Here.uses
    BY <1>1, <1>3, NamesInclude DEF CallFits, HandedOver
  <2> QED  BY <1>1, <2>1, DeployedIsSaved, SavedNumbers
<1> DEFINE from == IF Head(calls).on = "XMada" THEN Wrapper ELSE At("SimplePriceOracle")
<1>5. from \in prices \cup {Wrapper}
  <2>1. CASE Head(calls).on # "XMada"
    <3>1. Head(calls).on = "xUSDCDelegator"
      BY <1>2, <2>1 DEF Markets
    <3>2. Call("setUnderlyingPrice", "SimplePriceOracle") \in SentBefore(Plan[network], pos)
      BY <1>1, <1>3, <3>1 DEF CallComesAfter, Here
    <3>3. HasPrice(Call("setUnderlyingPrice", "SimplePriceOracle"))
      BY <1>1, <3>2, SentIsPassed
    <3> QED  BY <2>1, <3>3 DEF HasPrice, Call
  <2> QED  BY <2>1
<1>6. \/ sources' = sources
      \/ LET n == saved["OracleAggregatorV1"].number
         IN sources' = [sources EXCEPT ![n] = {r \in sources[n] : r[1] # On} \cup {<< On, from >>}]
  BY DEF SetAggregators, Wrapper
<1>7. UNCHANGED << network, saved, proxy, markets, prices, seed, nominated, handed >>
  BY DEF SetAggregators
<1> HIDE DEF from
<1>8. SourceMoves(On, saved["OracleAggregatorV1"].number, from)
  BY <1>2, <1>4, <1>5, <1>6, <1>7 DEF SourceMoves
<1> QED  BY <1>8

\* A source given so is saved and priced, and no market loses its price.
LEMMA SourceMovesKeeps ==
  ASSUME RunInv, ChainInv, NEW m, NEW n, NEW s, SourceMoves(m, n, s)
  PROVE  /\ ProxyRight' /\ SourcesRight' /\ MarketsRight' /\ OffersRight'
         /\ \A c : HasPrice(c) => HasPrice(c)'
         /\ \A c : saved["OracleAggregatorV1"].number \in Numbers /\ Met(c) => Met(c)'
<1>0. (\A k : At(k)' = At(k)) /\ UNCHANGED << saved, proxy, markets, prices, seed, nominated, handed >>
  BY DEF At, SourceMoves
<1>1. /\ m \in Markets \X Numbers /\ n \in Numbers /\ s \in prices \cup {Wrapper}
      /\ sources \in [Numbers -> SUBSET ((Markets \X Numbers) \X (prices \cup {Wrapper}))]
  BY DEF SourceMoves, ChainInv, SourcesRight
<1>2. sources' \in [Numbers -> SUBSET ((Markets \X Numbers) \X (prices \cup {Wrapper}))]
  <2>1. {r \in sources[n] : r[1] # m} \cup {<< m, s >>}
           \in SUBSET ((Markets \X Numbers) \X (prices \cup {Wrapper}))
    BY <1>1
  <2> QED  BY <1>1, <2>1 DEF SourceMoves
<1>3. SourcesRight'
  BY <1>0, <1>2 DEF ChainInv, SourcesRight
<1>4. ASSUME NEW k, NEW o \in Numbers, NEW r \in sources[o], r[1] = k
      PROVE  \E t \in sources'[o] : t[1] = k
  <2>1. CASE sources' = sources \/ o # n
    <3>1. sources'[o] = sources[o]
      BY <1>1, <2>1 DEF SourceMoves
    <3> QED  BY <1>4, <3>1
  <2>2. CASE sources' # sources /\ o = n
    <3>1. sources'[n] = {t \in sources[n] : t[1] # m} \cup {<< m, s >>}
      BY <1>1, <2>2 DEF SourceMoves
    <3>2. k = m => << m, s >> \in sources'[n] /\ << m, s >>[1] = k
      BY <3>1
    <3>3. k # m => r \in sources'[n]
      BY <1>4, <2>2, <3>1
    <3> QED  BY <1>4, <2>2, <3>2, <3>3
  <2> QED  BY <2>1, <2>2
<1>5. ASSUME NEW k, Priced(k)
      PROVE  Priced(k)'
  <2>1. proxy.oracle # Nowhere /\ proxy.oracle[2] \in Numbers
    BY <1>5 DEF Priced, ChainInv, ProxyRight, Proxies, Address
  <2>2. PICK r \in sources[proxy.oracle[2]] : r[1] = k
    BY <1>5 DEF Priced
  <2>3. PICK t \in sources'[proxy.oracle[2]] : t[1] = k
    BY <1>4, <2>1, <2>2
  <2>4. t[2] \in prices \cup {Wrapper}
    BY <1>2, <2>1, <2>3
  <2> QED  BY <1>0, <2>1, <2>3, <2>4 DEF Priced, Wrapper
<1>6. LoansReady' <=> LoansReady
  BY <1>0 DEF LoansReady
<1>7. MarketsRight'
  BY <1>0, <1>5, <1>6 DEF ChainInv, MarketsRight, MarketRight
<1>8. ProxyRight' /\ OffersRight'
  BY <1>0, <1>6 DEF ChainInv, ProxyRight, OffersRight, Offered, IsSaved, At
<1>9. \A c : HasPrice(c) => HasPrice(c)'
  BY <1>0 DEF HasPrice
<1>10. ASSUME NEW c, saved["OracleAggregatorV1"].number \in Numbers, Met(c)
       PROVE  Met(c)'
  <2>1. c.call = "setAggregators" =>
          \E r \in sources'[saved["OracleAggregatorV1"].number] : r[1] = At(c.on)
    BY <1>4, <1>10 DEF Met
  <2> QED  BY <1>0, <1>10, <2>1 DEF Met
<1> QED  BY <1>3, <1>7, <1>8, <1>9, <1>10

\* A price that is set stays.
LEMMA PriceActionKeeps ==
  ASSUME RunInv, ChainInv, SetUnderlyingPrice
  PROVE  /\ ProxyRight' /\ SourcesRight' /\ MarketsRight' /\ OffersRight'
         /\ \A c : HasPrice(c) => HasPrice(c)'
         /\ \A c : Met(c) => Met(c)'
<1>1. Running /\ calls # <<>> /\ Head(calls).call = "setUnderlyingPrice"
  BY DEF SetUnderlyingPrice, Calling
<1>2. On \in {"SimplePriceOracle"} \X Numbers
  BY <1>1, CallTarget
<1>3. prices' = prices \cup {On} /\ UNCHANGED << saved, proxy, markets, sources, seed, nominated, handed >>
  BY DEF SetUnderlyingPrice
<1>4. \A n : At(n)' = At(n)
  BY <1>3 DEF At
<1>5. SourcesRight'
  BY <1>2, <1>3 DEF ChainInv, SourcesRight
<1>6. \A m : Priced(m) => Priced(m)'
  BY <1>3 DEF Priced
<1>7. LoansReady' <=> LoansReady
  BY <1>3 DEF LoansReady
<1>8. MarketsRight'
  BY <1>3, <1>6, <1>7 DEF ChainInv, MarketsRight, MarketRight
<1>9. ProxyRight' /\ OffersRight'
  BY <1>3, <1>4, <1>7 DEF ChainInv, ProxyRight, OffersRight, Offered, IsSaved
<1>10. \A c : HasPrice(c) => HasPrice(c)'
  BY <1>3, <1>4 DEF HasPrice
<1>11. \A c : Met(c) => Met(c)'
  BY <1>3, <1>4 DEF Met
<1> QED  BY <1>5, <1>8, <1>9, <1>10, <1>11

\* An offer is made when a loan can be liquidated, and is not taken back.
LEMMA OfferActionsKeep ==
  ASSUME RunInv, ChainInv, SetPendingAdmin \/ \E a \in nominated : Accept(a)
  PROVE  /\ ProxyRight' /\ SourcesRight' /\ MarketsRight' /\ OffersRight'
         /\ \A c : HasPrice(c) => HasPrice(c)'
         /\ \A c : Met(c) => Met(c)'
<1>1. UNCHANGED << saved, proxy, markets, sources, prices, seed >>
  BY DEF SetPendingAdmin, Accept
<1>2. nominated \subseteq HandedOver \X Numbers /\ handed \subseteq HandedOver \X Numbers
      /\ (Offered => LoansReady)
  BY DEF ChainInv, OffersRight
<1>3. \A n : At(n)' = At(n)
  BY <1>1 DEF At
<1>4. LoansReady' <=> LoansReady
  BY <1>1 DEF LoansReady
<1>5. ASSUME SetPendingAdmin
      PROVE  OffersRight'
  <2>1. Running /\ calls # <<>> /\ Head(calls).call = "_setPendingAdmin"
    BY <1>5 DEF SetPendingAdmin, Calling
  <2>2. On \in HandedOver \X Numbers /\ LoansReady
    BY <2>1, CallTarget, LoansReadyHere
  <2> QED  BY <1>1, <1>2, <1>4, <1>5, <2>2 DEF SetPendingAdmin, OffersRight
<1>6. ASSUME NEW a \in nominated, Accept(a)
      PROVE  OffersRight'
  <2>1. Offered
    BY <1>6 DEF Offered
  <2> QED  BY <1>2, <1>4, <1>6, <2>1 DEF Accept, OffersRight
<1>7. ProxyRight' /\ SourcesRight' /\ MarketsRight'
  <2>1. \A m : Priced(m)' <=> Priced(m)
    BY <1>1 DEF Priced
  <2>2. MarketsRight'
    BY <1>1, <1>4, <2>1 DEF ChainInv, MarketsRight, MarketRight
  <2>3. SourcesRight'
    BY <1>1 DEF ChainInv, SourcesRight
  <2> QED  BY <1>1, <1>3, <2>2, <2>3 DEF ChainInv, ProxyRight, IsSaved
<1>8. \A c : HasPrice(c) => HasPrice(c)'
  BY <1>1, <1>3 DEF HasPrice
<1>9. \A c : Met(c) => Met(c)'
  BY <1>1, <1>3 DEF Met
<1> QED  BY <1>5, <1>6, <1>7, <1>8, <1>9

\* An offer stands: the multisig accepts it or leaves it.
LEMMA OffersStand ==
  ASSUME [DeploymentNext]_deploymentVars, Offered
  PROVE  Offered'
<1>1. CASE Transact
  BY <1>1 DEF Transact, SetPendingImplementation, Become, InitializeCompParameters, SetCloseFactor,
     SetLiquidationIncentive, SetPriceOracle, TransferSeed, SupportMarket, SetUnderlyingPrice,
     SetAggregators, SetCollateralFactor, SetCompWeight, SetReserveFactor, TransferShare,
     SetPendingAdmin, Offered
<1> QED
  BY <1>1 DEF DeploymentNext, Proceed, Start, MissingName, Deploy, Read, Crash, Accept, Tune, Upgrade,
              deploymentVars, chainVars, Offered

\* The calls of the steps that are passed: what they are about is saved.
LEMMA PassedCalls ==
  ASSUME RunInv, NEW j \in 1 .. pos - 1, NEW i \in DOMAIN Stage(j).calls
  PROVE  /\ j \in 1 .. Len(Plan[network]) /\ CallFits(Stage(j), i)
         /\ LET c == Stage(j).calls[i]
            IN c.call \in MarketCalls => At(c.on) \in Markets \X Numbers
<1>1. /\ Len(Plan[network]) \in Nat /\ j \in 1 .. Len(Plan[network]) /\ Stage(j) \in AnyStep
      /\ CallFits(Stage(j), i) /\ CallComesAfter(Plan[network], j, i)
  <2>1. Len(Plan[network]) \in Nat /\ j \in 1 .. Len(Plan[network])
    BY StepFacts DEF RunInv, RunTypeOK
  <2> QED  BY <2>1, StepFacts DEF RunInv, RunTypeOK, WellMade
<1> DEFINE c == Stage(j).calls[i]
<1>2. ASSUME c.call \in MarketCalls
      PROVE  At(c.on) \in Markets \X Numbers
  <2>1. c.on \in Markets /\ c.on \in Names /\ c.on \in HandedOver
    BY <1>1, <1>2, NamesInclude DEF CallFits, HandedOver
  <2>2. c.on \in Stage(j).uses \cup DeployedBefore(Plan[network], j)
    BY <1>1 DEF CallComesAfter, Stage
  <2>3. saved[c.on].number > 0
    <3>1. CASE c.on \in Stage(j).uses
      BY <2>1, <3>1, NamesInclude DEF RunInv, StepsPassed, UsesKnown, Known, Externals
    <3>2. CASE c.on \in DeployedBefore(Plan[network], j)
      <4>1. PICK k \in 1 .. j - 1 : Stage(k).deploys = c.on
        BY <3>2 DEF DeployedBefore, Stage
      <4>2. k \in 1 .. pos - 1
        BY <1>1, <4>1 DEF RunInv, RunTypeOK
      <4> QED  BY <2>1, <4>1, <4>2, NamesInclude DEF RunInv, StepsPassed, Current
    <3> QED  BY <2>2, <3>1, <3>2
  <2> QED  BY <2>1, <2>3, SavedNumbers DEF At
<1> QED  BY <1>1, <1>2

ChainRight == ProxyRight /\ SourcesRight /\ MarketsRight /\ OffersRight
PassedCall(c) == \E j \in 1 .. pos - 1 : \E i \in DOMAIN Stage(j).calls : c = Stage(j).calls[i]
PassedStay ==
  \A c : PassedCall(c) => (HasPrice(c) => HasPrice(c)') /\ (~Offered' /\ Met(c) => Met(c)')

\* A step that leaves the chain alone leaves its invariant.
LEMMA SameChainKeeps ==
  ASSUME ChainInv, UNCHANGED << saved, proxy, markets, sources, prices, seed, nominated, handed >>
  PROVE  ChainRight' /\ PassedStay
<1>1. (\A n : At(n)' = At(n)) /\ (\A m : Priced(m)' <=> Priced(m)) /\ (LoansReady' <=> LoansReady)
  BY DEF At, Priced, LoansReady
<1>2. MarketsRight' /\ OffersRight'
  BY <1>1 DEF ChainInv, MarketsRight, MarketRight, OffersRight, Offered
<1>3. SourcesRight' /\ ProxyRight'
  BY <1>1 DEF ChainInv, SourcesRight, ProxyRight, IsSaved
<1>4. \A c : (HasPrice(c) => HasPrice(c)') /\ (Met(c) => Met(c)')
  BY <1>1 DEF HasPrice, Met
<1> QED  BY <1>2, <1>3, <1>4 DEF ChainRight, PassedStay

\* What a step passed used or asked is not the contract deployed here.
LEMMA DeployKeepsPassed ==
  ASSUME RunInv, Deploy, Redeploys(Here.deploys)
  PROVE  PassedStay
<1> DEFINE n == Here.deploys
<1>1. /\ n \in Names /\ n # "nothing" /\ Here = Stage(pos) /\ pos \in 1 .. Len(Plan[network])
      /\ UNCHANGED << proxy, markets, sources, prices, seed, nominated, handed >>
  BY DeployFacts DEF Deploy
<1>2. ASSUME NEW j \in 1 .. pos - 1, NEW i \in DOMAIN Stage(j).calls, NEW c, c = Stage(j).calls[i]
      PROVE  (HasPrice(c) => HasPrice(c)') /\ (Met(c) => Met(c)')
  <2>1. CallFits(Stage(j), i)
    BY PassedCalls
  <2>2. n \notin Stage(j).uses /\ c.on # n
    <3>1. j \in 1 .. pos
      BY <1>1
    <3> QED  BY <1>1, <1>2, <3>1, OthersStay DEF RunInv
  <2>3. /\ c.call \in {"_setPendingImplementation", "_become"} => "Comptroller" # n
        /\ c.call = "setUnderlyingPrice" => "SimplePriceOracle" # n
        /\ c.call \in {"_setPriceOracle", "setAggregators"} => "OracleAggregatorV1" # n
    BY <1>2, <2>1, <2>2 DEF CallFits
  <2>4. \A m \in Names : m # n => At(m)' = At(m) /\ saved'[m] = saved[m]
    BY RedeployedNumbers
  <2>5. {"Comptroller", "SimplePriceOracle", "OracleAggregatorV1"} \subseteq Names
    BY NamesInclude DEF HandedOver
  <2>6. c.call \in MarketCalls => c.on \in Names
    BY <1>2, <2>1, NamesInclude DEF CallFits, HandedOver
  <2>7. c.call \in MarketCalls => At(c.on)' = At(c.on)
    BY <2>2, <2>4, <2>6
  <2>8. /\ c.call = "_become" => At("Comptroller")' = At("Comptroller")
        /\ c.call = "setUnderlyingPrice" => At("SimplePriceOracle")' = At("SimplePriceOracle")
        /\ c.call \in {"_setPriceOracle", "setAggregators"} =>
             /\ At("OracleAggregatorV1")' = At("OracleAggregatorV1")
             /\ saved'["OracleAggregatorV1"] = saved["OracleAggregatorV1"]
    BY <2>3, <2>4, <2>5
  <2>9. HasPrice(c) => HasPrice(c)'
    BY <1>1, <2>8 DEF HasPrice
  <2>10. Met(c) => Met(c)'
    BY <1>1, <2>7, <2>8 DEF Met, MarketCalls
  <2> QED  BY <2>9, <2>10
<1> QED  BY <1>2 DEF PassedStay, PassedCall

\* A deployment replaces no address the chain was configured with, but for the
\* aggregator, whose markets then have an aggregator with a higher number.
LEMMA DeployKeepsChain ==
  ASSUME RunInv, RunInv', ChainInv, Deploy, Redeploys(Here.deploys)
  PROVE  ChainRight'
<1>1. UNCHANGED << proxy, markets, sources, prices, seed, nominated, handed >>
  BY DEF Deploy
<1>2. \A m \in Names : saved[m].number \in Nat /\ saved'[m].number \in Nat
        /\ saved[m].number <= saved'[m].number
  BY RedeployedNumbers
<1>3. ASSUME NEW a \in Address, IsSaved(a)
      PROVE  IsSaved(a)'
  <2>1. CASE a # Nowhere
    <3>1. a[1] \in Names /\ a[2] \in Nat /\ a[2] \in 1 .. saved[a[1]].number
      BY <1>3, <2>1 DEF Address, Numbers, IsSaved
    <3>2. \A x \in Nat, y \in Nat : x <= y => 1 .. x \subseteq 1 .. y
      OBVIOUS
    <3>3. a[2] \in 1 .. saved'[a[1]].number
      BY <1>2, <3>1, <3>2
    <3> QED  BY <3>3 DEF IsSaved
  <2> QED  BY <2>1 DEF IsSaved
<1>4. proxy.comp # Nowhere => At("Comp")' = At("Comp")
  <2>1. ASSUME proxy.comp # Nowhere
        PROVE  saved["Comp"].number = 1 /\ saved'["Comp"].number = 1
    <3>1. "Comp" \in Names
      BY NamesInclude
    <3>2. saved["Comp"].number \in Nat \ {0}
      <4>1. proxy.comp = At("Comp") /\ IsSaved(proxy.comp)
        BY <2>1 DEF ChainInv, ProxyRight
      <4>2. saved["Comp"].number \in 1 .. saved["Comp"].number
        BY <2>1, <4>1 DEF IsSaved, At
      <4> QED  BY <1>2, <3>1, <4>2
    <3>3. saved["Comp"].number = 1
      BY <3>2 DEF RunInv, Once
    <3>4. saved'["Comp"].number \in {0, 1}
      BY DEF RunInv, Once
    <3> QED  BY <1>2, <3>1, <3>3, <3>4
  <2> QED  BY <2>1 DEF At
<1>5. ProxyRight'
  <2>1. proxy \in Proxies
    BY DEF ChainInv, ProxyRight
  <2>2. /\ proxy.implementation \in Address /\ proxy.pendingImplementation \in Address
        /\ proxy.comp \in Address /\ proxy.reservoir \in Address /\ proxy.oracle \in Address
    BY <2>1 DEF Proxies
  <2>3. /\ IsSaved(proxy.implementation) /\ IsSaved(proxy.pendingImplementation) /\ IsSaved(proxy.comp)
        /\ IsSaved(proxy.reservoir) /\ IsSaved(proxy.oracle)
    BY DEF ChainInv, ProxyRight
  <2>4. (/\ IsSaved(proxy.implementation) /\ IsSaved(proxy.pendingImplementation) /\ IsSaved(proxy.comp)
         /\ IsSaved(proxy.reservoir) /\ IsSaved(proxy.oracle))'
    BY <1>1, <1>3, <2>2, <2>3 DEF IsSaved
  <2> QED  BY <1>1, <1>4, <2>4 DEF ChainInv, ProxyRight
<1>6. SourcesRight'
  BY <1>1 DEF ChainInv, SourcesRight
<1>7. (LoansReady' <=> LoansReady) /\ \A m : Priced(m)' <=> Priced(m)
  BY <1>1 DEF LoansReady, Priced
<1>8. saved["OracleAggregatorV1"].number > 1 => saved'["OracleAggregatorV1"].number > 1
  <2>1. "OracleAggregatorV1" \in Names
    BY NamesInclude DEF HandedOver
  <2> QED  BY <1>2, <2>1
<1>9. MarketsRight'
  BY <1>1, <1>7, <1>8 DEF ChainInv, MarketsRight, MarketRight
<1>10. OffersRight'
  BY <1>1, <1>7 DEF ChainInv, OffersRight, Offered
<1> QED  BY <1>5, <1>6, <1>9, <1>10 DEF ChainRight

\* Whatever happens, the chain stays right, and what was met stays met as
\* long as nothing is offered.
LEMMA ChainKeeps ==
  ASSUME RunInv, RunInv', ChainInv, [DeploymentNext]_deploymentVars
  PROVE  ChainRight' /\ PassedStay
<1>1. CASE \/ SetPendingImplementation \/ Become \/ InitializeCompParameters
           \/ SetCloseFactor \/ SetLiquidationIncentive \/ SetPriceOracle
           \/ \E setting \in {"closeFactor", "liquidationIncentive"} : Tune(setting)
  <2>1. ProxyMoves
    BY <1>1, ProxyActionsMove
  <2> QED  BY <2>1, ProxyMovesKeeps DEF ChainRight, PassedStay
<1>2. CASE TransferSeed \/ SupportMarket \/ SetCollateralFactor \/ SetCompWeight \/ SetReserveFactor
  <2>1. MarketMoves(On)
    BY <1>2, MarketActionsMove
  <2>2. ChainRight' /\ \A c : HasPrice(c) => HasPrice(c)'
    BY <2>1, MarketMovesKeeps DEF ChainRight
  <2>3. ASSUME NEW c, c.call \in MarketCalls => At(c.on) \in Markets \X Numbers, Met(c)
        PROVE  Met(c)'
    BY <2>1, <2>3, MarketMovesKeeps
  <2> QED  BY <2>2, <2>3, PassedCalls DEF PassedStay, PassedCall
<1>3. CASE SetAggregators
  <2>1. PICK s : SourceMoves(On, saved["OracleAggregatorV1"].number, s)
    BY <1>3, SourceActionMoves
  <2>2. saved["OracleAggregatorV1"].number \in Numbers
    BY <2>1 DEF SourceMoves
  <2> QED  BY <2>1, <2>2, SourceMovesKeeps DEF ChainRight, PassedStay
<1>4. CASE SetUnderlyingPrice
  BY <1>4, PriceActionKeeps DEF ChainRight, PassedStay
<1>5. CASE SetPendingAdmin \/ \E a \in nominated : Accept(a)
  BY <1>5, OfferActionsKeep DEF ChainRight, PassedStay
<1>6. CASE Deploy
  <2>1. CASE saved' = saved
    BY <1>6, <2>1, SameChainKeeps DEF Deploy
  <2>2. CASE saved' # saved
    <3>1. Redeploys(Here.deploys)
      BY <1>6, <2>2, DeployFacts DEF Deploy, Redeploys
    <3> QED  BY <1>6, <3>1, DeployKeepsPassed, DeployKeepsChain
  <2> QED  BY <2>1, <2>2
<1>7. CASE \/ Start \/ MissingName \/ Read \/ Crash \/ TransferShare
           \/ (\E name \in Upgradable : Upgrade(name)) \/ UNCHANGED deploymentVars
  <2>1. UNCHANGED << saved, proxy, markets, sources, prices, seed, nominated, handed >>
    BY <1>7 DEF Start, MissingName, Read, Crash, TransferShare, Upgrade, deploymentVars, chainVars
  <2> QED  BY <2>1, SameChainKeeps
<1> QED
  BY <1>1, <1>2, <1>3, <1>4, <1>5, <1>6, <1>7 DEF DeploymentNext, Proceed, Transact

\* A transaction that does not end the run does what it was sent for, as
\* long as nothing is offered; a price is set in any case.
LEMMA TransactMeets ==
  ASSUME RunInv, ChainInv, Transact, pos' # 0, NEW c, c = Head(calls)
  PROVE  HasPrice(c)' /\ (~Offered' => Met(c)')
<1>1. /\ Running /\ calls # <<>> /\ Calling(c.call)
      /\ UNCHANGED << network, code, saved >> /\ ~Throws
  BY DEF Transact, SetPendingImplementation, Become, InitializeCompParameters, SetCloseFactor,
         SetLiquidationIncentive, SetPriceOracle, TransferSeed, SupportMarket, SetUnderlyingPrice,
         SetAggregators, SetCollateralFactor, SetCompWeight, SetReserveFactor, TransferShare,
         SetPendingAdmin, Calling, Throws
<1>2. (\A n : At(n)' = At(n)) /\ On = At(c.on)
  BY <1>1 DEF At, On
<1>3. PICK i \in DOMAIN Here.calls :
        c = Here.calls[i] /\ CallFits(Here, i) /\ CallComesAfter(Plan[network], pos, i)
  BY <1>1, CallFacts
<1>4. c.call = "setUnderlyingPrice" => On = At("SimplePriceOracle")
  BY <1>2, <1>3 DEF CallFits
<1>5. HasPrice(c)'
  <2>1. c.call = "setUnderlyingPrice" => SetUnderlyingPrice
    BY <1>1 DEF Transact, SetPendingImplementation, Become, InitializeCompParameters, SetCloseFactor,
         SetLiquidationIncentive, SetPriceOracle, TransferSeed, SupportMarket,
         SetAggregators, SetCollateralFactor, SetCompWeight, SetReserveFactor, TransferShare,
         SetPendingAdmin, Calling
  <2>2. SetUnderlyingPrice => prices' = prices \cup {On}
    BY DEF SetUnderlyingPrice
  <2> QED  BY <1>2, <1>4, <2>1, <2>2 DEF HasPrice
<1>6. ASSUME ~Offered'
      PROVE  Met(c)'
  <2>1. ~Offered /\ nominated' = {} /\ handed' = {} /\ handed = {} /\ nominated = {}
    BY <1>6, OffersStand DEF Offered, DeploymentNext, Proceed
  <2>2. \A n : Owns(n)
    BY <2>1 DEF Owns
  <2>3. c.call \in MarketCalls => On \in Markets \X Numbers
    BY <1>1, CallTarget
  <2>4. markets \in [Markets \X Numbers -> Listings] /\ proxy \in Proxies
    BY DEF ChainInv, MarketsRight, ProxyRight
  <2>5. c.call \in {"_setCollateralFactor", "_setCompWeight"} => markets[On].listed
    <3>1. ASSUME c.call \in {"_setCollateralFactor", "_setCompWeight"}
          PROVE  Met(Call("_supportMarket", c.on))
      <4>1. Call("_supportMarket", c.on) \in SentBefore(Plan[network], pos)
        BY <1>3, <3>1 DEF CallComesAfter, Here
      <4> QED  BY <1>1, <2>1, <4>1, SentIsPassed
    <3> QED  BY <1>2, <3>1 DEF Met, Call
  <2>6. CASE SetPendingImplementation \/ TransferSeed \/ SetUnderlyingPrice \/ TransferShare
    BY <2>6 DEF SetPendingImplementation, TransferSeed, SetUnderlyingPrice, TransferShare, Calling, Met
  <2>7. CASE Become
    <3>1. proxy' = [proxy EXCEPT !.implementation = At("Comptroller"), !.pendingImplementation = Nowhere]
      BY <1>1, <2>7 DEF Become, Requires
    <3>2. proxy'.implementation = At("Comptroller") /\ c.call = "_become"
      BY <2>4, <2>7, <3>1 DEF Become, Calling, Proxies
    <3> QED  BY <1>2, <3>2 DEF Met
  <2>8. CASE InitializeCompParameters
    <3>1. At("Comp") # Nowhere
      BY DEF At, Nowhere
    <3>2. proxy'.comp # Nowhere /\ c.call = "_initializeCompParameters"
      BY <2>2, <2>4, <2>8, <3>1 DEF InitializeCompParameters, Calling, Proxies
    <3> QED  BY <3>2 DEF Met
  <2>9. CASE SetCloseFactor
    <3>1. proxy'.closeFactor = "scripted" /\ c.call = "_setCloseFactor"
      BY <2>2, <2>4, <2>9 DEF SetCloseFactor, Calling, Proxies
    <3> QED  BY <3>1 DEF Met
  <2>10. CASE SetLiquidationIncentive
    <3>1. proxy'.liquidationIncentive = "scripted" /\ c.call = "_setLiquidationIncentive"
      BY <2>2, <2>4, <2>10 DEF SetLiquidationIncentive, Calling, Proxies
    <3> QED  BY <3>1 DEF Met
  <2>11. CASE SetPriceOracle
    <3>1. proxy'.oracle = At("OracleAggregatorV1") /\ c.call = "_setPriceOracle"
      BY <2>2, <2>4, <2>11 DEF SetPriceOracle, Calling, Proxies
    <3> QED  BY <1>2, <3>1 DEF Met
  <2>12. CASE SupportMarket
    <3>1. c.call = "_supportMarket" /\ On \in Markets \X Numbers
      BY <2>3, <2>12 DEF SupportMarket, Calling, MarketCalls
    <3>2. CASE markets[On].listed
      <4>1. markets' = markets
        BY <2>12, <3>2 DEF SupportMarket
      <4> QED  BY <1>2, <3>1, <3>2, <4>1 DEF Met
    <3>3. CASE ~markets[On].listed
      <4>1. markets' = [markets EXCEPT ![On] = [NotListed EXCEPT !.listed = TRUE,
                                                                !.reserveFactor = markets[On].reserveFactor]]
        BY <1>1, <2>2, <2>12, <3>3 DEF SupportMarket, Requires
      <4>2. markets'[On].listed
        BY <2>4, <3>1, <4>1 DEF NotListed
      <4> QED  BY <1>2, <3>1, <4>2 DEF Met
    <3> QED  BY <3>2, <3>3
  <2>13. CASE SetAggregators
    <3>1. c.call = "setAggregators" /\ "OracleAggregatorV1" \in Here.uses
      BY <1>3, <2>13 DEF SetAggregators, Calling, CallFits
    <3>2. saved["OracleAggregatorV1"].number \in Numbers
      <4>1. "OracleAggregatorV1" \in Names
        BY NamesInclude DEF HandedOver
      <4> QED  BY <1>1, <3>1, <4>1, DeployedIsSaved, SavedNumbers
    <3>3. PICK from : sources' = [sources EXCEPT ![saved["OracleAggregatorV1"].number] =
                                   {s \in @ : s[1] # On} \cup {<< On, from >>}]
      BY <2>2, <2>13 DEF SetAggregators
    <3>4. << On, from >> \in sources'[saved["OracleAggregatorV1"].number] /\ << On, from >>[1] = On
      BY <3>2, <3>3 DEF ChainInv, SourcesRight
    <3> QED  BY <1>1, <1>2, <3>1, <3>4 DEF Met
  <2>14. CASE SetCollateralFactor
    <3>1. c.call = "_setCollateralFactor" /\ On \in Markets \X Numbers /\ markets[On].listed
      BY <2>3, <2>5, <2>14 DEF SetCollateralFactor, Calling, MarketCalls
    <3>2. markets' = [markets EXCEPT ![On].collateralFactor = TRUE]
      BY <1>1, <2>2, <2>14, <3>1 DEF SetCollateralFactor, Requires
    <3>3. markets'[On].collateralFactor
      BY <2>4, <3>1, <3>2 DEF Listings
    <3> QED  BY <1>2, <3>1, <3>3 DEF Met
  <2>15. CASE SetCompWeight
    <3>1. c.call = "_setCompWeight" /\ On \in Markets \X Numbers /\ markets[On].listed
      BY <2>3, <2>5, <2>15 DEF SetCompWeight, Calling, MarketCalls
    <3>2. markets' = [markets EXCEPT ![On].compWeight = TRUE]
      BY <2>2, <2>15, <3>1 DEF SetCompWeight
    <3>3. markets'[On].compWeight
      BY <2>4, <3>1, <3>2 DEF Listings
    <3> QED  BY <1>2, <3>1, <3>3 DEF Met
  <2>16. CASE SetReserveFactor
    <3>1. c.call = "_setReserveFactor" /\ On \in Markets \X Numbers
      BY <2>3, <2>16 DEF SetReserveFactor, Calling, MarketCalls
    <3>2. markets' = [markets EXCEPT ![On].reserveFactor = TRUE]
      BY <1>1, <2>1, <2>16 DEF SetReserveFactor, Requires
    <3>3. markets'[On].reserveFactor
      BY <2>4, <3>1, <3>2 DEF Listings
    <3> QED  BY <1>2, <3>1, <3>3 DEF Met
  <2>17. CASE SetPendingAdmin
    BY <2>17 DEF SetPendingAdmin, Calling, Met
  <2> QED
    BY <2>6, <2>7, <2>8, <2>9, <2>10, <2>11, <2>12, <2>13, <2>14, <2>15, <2>16, <2>17 DEF Transact
<1> QED  BY <1>5, <1>6

\* A step that wants nothing finds what its calls are for.
LEMMA UnwantedIsMet ==
  ASSUME RunInv, ChainInv, Running, ~Wanted
  PROVE  AllPriced(Here) /\ AllMet(Here)
<1>1. ASSUME NEW i \in DOMAIN Here.calls
      PROVE  HasPrice(Here.calls[i]) /\ Met(Here.calls[i])
  <2>1. CallFits(Here, i) /\ Here.calls # <<>>
    BY HereFacts DEF WellMade, RunInv
  <2> DEFINE c == Here.calls[i]
  <2>2. c.call \in DOMAIN Purpose /\ Here.wants = Purpose[c.call]
        /\ (c.call \in MarketCalls => c.on = Here.calls[1].on)
    BY <2>1 DEF CallFits
  <2>3. c.call \in MarketCalls => MarketOf = At(c.on)
    BY <2>1, <2>2 DEF MarketOf
  <2> HIDE DEF c
  <2>4. HasPrice(c)
    BY <2>2 DEF HasPrice, Purpose, Wanted
  <2>5. Met(c)
    BY <2>2, <2>3 DEF Met, Purpose, Wanted, MarketCalls, ListingWanted
  <2> QED  BY <2>4, <2>5 DEF c
<1> QED  BY <1>1 DEF AllPriced, AllMet

\* The calls of the steps passed before
LEMMA OldCallsKeep ==
  ASSUME RunInv, RunInv', ChainInv, [DeploymentNext]_deploymentVars, NEW j \in 1 .. pos - 1
  PROVE  AllPriced(Stage(j))' /\ (~Offered' => AllMet(Stage(j))')
<1>1. Stage(j)' = Stage(j)
  <2>1. network' = network
    BY StepKinds DEF RunInv, Start, Deploy, Read, Upgrade, Ends, Sends, Waits, SameContracts
  <2> QED  BY <2>1 DEF Stage
<1>2. ASSUME NEW i \in DOMAIN Stage(j).calls, NEW c, c = Stage(j).calls[i]
      PROVE  HasPrice(c)' /\ (~Offered' => Met(c)')
  <2>1. PassedCall(c)
    BY <1>2 DEF PassedCall
  <2>2. HasPrice(c) /\ (~Offered => Met(c))
    BY <1>2 DEF ChainInv, CallsPassed, AllPriced, AllMet
  <2> QED  BY <2>1, <2>2, ChainKeeps, OffersStand DEF PassedStay
<1> QED  BY <1>1, <1>2 DEF AllPriced, AllMet

\* The calls of the steps that are passed now
LEMMA CallsKeep ==
  ASSUME RunInv, RunInv', ChainInv, [DeploymentNext]_deploymentVars
  PROVE  CallsPassed'
<1>1. SUFFICES ASSUME NEW j \in 1 .. pos' - 1
               PROVE  AllPriced(Stage(j))' /\ (~Offered' => AllMet(Stage(j))')
  BY DEF CallsPassed
<1>2. \/ Start \/ Deploy \/ Read \/ \E name \in Upgradable : Upgrade(name)
      \/ Ends \/ Sends \/ Waits
  BY StepKinds DEF RunInv
<1>3. CASE j \in 1 .. pos - 1
  BY <1>3, OldCallsKeep
<1>4. CASE j \notin 1 .. pos - 1
  <2>1. pos \in Nat /\ pos' \in Nat /\ Len(Plan[network]) \in Nat
    BY StepFacts DEF RunInv, RunTypeOK
  <2>2. pos' > pos /\ pos' # 0 /\ pos' # 1
    <3>1. \A a, b \in Nat : \A k \in 1 .. b - 1 : k \notin 1 .. a - 1 => b > a /\ b # 0 /\ b # 1
      OBVIOUS
    <3> QED  BY <1>4, <2>1, <3>1
  <2>3. Running /\ pos' = Later /\ j = pos /\ (Deploy \/ Read \/ Sends)
    <3>1. ~Start /\ ~Ends /\ ~Waits /\ ~\E name \in Upgradable : Upgrade(name)
      BY <2>1, <2>2 DEF Start, Ends, Waits, Throws, Upgrade
    <3>2. Running /\ pos' = Later
      BY <1>2, <2>1, <2>2, <3>1 DEF Deploy, Read, AtStep, Sends, Mined
    <3>3. pos' = pos + 1
      BY <2>2, <3>2 DEF Later
    <3> QED  BY <1>1, <1>2, <1>4, <2>1, <3>1, <3>2, <3>3
  <2>4. Stage(j) = Here /\ UNCHANGED network
    BY <2>3 DEF Stage, Here, Deploy, Read, Sends, SameContracts
  <2>5. Stage(j)' = Stage(j)
    BY <2>4 DEF Stage
  <2>6. CASE Deploy
    <3>1. Here.wants = "nothing" /\ Here.calls = <<>>
      BY <2>3, <2>6, HereFacts DEF WellMade, Deploy, RunInv
    <3>2. DOMAIN Stage(j)'.calls = {}
      BY <2>4, <2>5, <3>1
    <3> QED  BY <3>2 DEF AllPriced, AllMet
  <2>7. CASE Read
    <3>1. calls = <<>> /\ UNCHANGED << saved, proxy, markets, sources, prices, nominated, handed >>
      BY <2>7 DEF Read, AtStep, chainVars
    <3>2. ~Wanted
      BY <2>1, <2>2, <2>7 DEF Read
    <3>3. AllPriced(Here) /\ AllMet(Here)
      BY <2>3, <3>2, UnwantedIsMet
    <3>4. ASSUME NEW c
          PROVE  (HasPrice(c) => HasPrice(c)') /\ (Met(c) => Met(c)')
      BY <3>1 DEF HasPrice, Met, At
    <3> QED  BY <2>4, <2>5, <3>3, <3>4 DEF AllPriced, AllMet
  <2>8. CASE Sends /\ ~Deploy /\ ~Read
    <3>1. Len(calls) = 1
      BY <2>1, <2>2, <2>8 DEF Sends, Mined
    <3>2. Transact
      <4>1. calls' # calls
        <5>1. calls \in Seq([call : STRING, on : Names]) /\ calls # <<>> /\ calls' = Tail(calls)
          BY <2>8 DEF Sends, Mined, RunInv, RunTypeOK
        <5>2. Len(Tail(calls)) = Len(calls) - 1
          BY <5>1, HeadTailProperties
        <5>3. Len(Tail(calls)) # Len(calls)
          BY <3>1, <5>2
        <5>4. Tail(calls) # calls
          BY <5>3
        <5> QED  BY <5>1, <5>4
      <4>2. ~Start /\ ~MissingName /\ ~Crash
        BY <2>2 DEF Start, MissingName, Crash, Throws
      <4> QED
        BY <2>8, <4>1, <4>2 DEF DeploymentNext, Proceed, Accept, Tune, Upgrade, deploymentVars
    <3>3. ASSUME NEW i \in DOMAIN Here.calls, NEW c, c = Here.calls[i]
          PROVE  HasPrice(c)' /\ (~Offered' => Met(c)')
      <4>1. calls # <<>> /\ DOMAIN Here.calls = 1 .. Len(Here.calls) /\ WellMade(Here)
        BY <2>3, <2>8, HereFacts, LenProperties DEF Sends, RunInv
      <4>2. CASE i = Len(Here.calls)
        <5>1. c = Head(calls)
          BY <2>3, <3>1, <3>3, <4>1, <4>2, CallFacts
        <5> QED  BY <2>2, <3>2, <5>1, TransactMeets
      <4>3. CASE i # Len(Here.calls)
        <5>1. c.call \in Preparations \cup {"transferShare"}
          BY <3>3, <4>1, <4>3 DEF WellMade, CallFits
        <5> QED  BY <5>1 DEF HasPrice, Met, Preparations
      <4> QED  BY <4>2, <4>3
    <3> QED  BY <2>4, <2>5, <3>3 DEF AllPriced, AllMet
  <2> QED  BY <2>3, <2>6, <2>7, <2>8
<1> QED  BY <1>3, <1>4

\* Before the first run nothing is configured.
LEMMA ChainInitially ==
  ASSUME DeploymentInit, RunInv
  PROVE  ChainInv
<1>1. Numbers \subseteq Nat /\ Nowhere \in Address
  BY ConstantsOK DEF Numbers, ConstantsOK, Address
<1>2. ProxyRight
  BY <1>1 DEF DeploymentInit, ProxyRight, Proxies, Factors, IsSaved
<1>3. SourcesRight
  BY DEF DeploymentInit, SourcesRight
<1>4. MarketsRight
  <2>1. NotListed \in Listings
    BY DEF NotListed, Listings
  <2> QED  BY <2>1 DEF DeploymentInit, MarketsRight, MarketRight, NotListed
<1>5. OffersRight
  BY DEF DeploymentInit, OffersRight, Offered
<1>6. CallsPassed
  BY DEF DeploymentInit, CallsPassed
<1> QED  BY <1>2, <1>3, <1>4, <1>5, <1>6 DEF ChainInv

\* Whatever run died where, the chain is configured in the order of the scripts.
THEOREM RunsKeepChain == DeploymentSpec => []ChainInv
<1>1. RunInv /\ RunInv' /\ ChainInv /\ [DeploymentNext]_deploymentVars => ChainInv'
  BY ChainKeeps, CallsKeep DEF ChainInv, ChainRight
<1> QED  BY <1>1, RunsKeepInv, RunInitially, ChainInitially, PTL DEF DeploymentSpec

\* Every variable has its type.
THEOREM DeploymentTypes == DeploymentSpec => []DeploymentTypeOK
<1>1. RunInv /\ ChainInv => DeploymentTypeOK
  <2> SUFFICES ASSUME RunInv, ChainInv  PROVE DeploymentTypeOK
    OBVIOUS
  <2>1. MaxUpgrades \in Nat /\ left.upgrades \in 0 .. MaxUpgrades /\ Compiled \in Nat /\ Compiled <= MaxUpgrades
    BY ConstantsOK DEF ConstantsOK, RunInv, RunTypeOK, Compiled
  <2>2. DOMAIN code = Names /\ DOMAIN saved = Names
    BY DEF RunInv, RunTypeOK
  <2>3. ASSUME NEW n \in Names
        PROVE  /\ code[n] \in Numbers /\ saved[n].number \in 0 .. MaxUpgrades + 1
               /\ saved[n].code = 0 <=> saved[n].number = 0
               /\ \A a \in saved[n].args : a[2] \in 1 .. saved[a[1]].number
    <3>1. code[n] \in Nat \ {0} /\ saved[n].number \in Nat
      BY DEF RunInv, RunTypeOK, Deployment
    <3>2. code[n] <= 1 + Compiled /\ saved[n].number <= 1 + Compiled
      BY DEF RunInv, NumbersFollow
    <3>3. code[n] \in Numbers /\ saved[n].number \in 0 .. MaxUpgrades + 1
      BY <2>1, <3>1, <3>2 DEF Numbers
    <3> QED  BY <3>3 DEF RunInv, ArgumentsSaved
  <2>4. \A a \in {proxy.implementation, proxy.pendingImplementation, proxy.comp, proxy.reservoir, proxy.oracle} :
          a # Nowhere => a[2] \in 1 .. saved[a[1]].number
    BY DEF ChainInv, ProxyRight, IsSaved
  <2>5. {proxy.closeFactor, proxy.liquidationIncentive} \subseteq {"zero", "scripted", "tuned"}
    BY DEF ChainInv, ProxyRight, Proxies, Factors
  <2>6. calls # <<>> => Running
    BY DEF RunInv, CallsAreHere
  <2> QED
    BY <2>2, <2>3, <2>4, <2>5, <2>6
       DEF DeploymentTypeOK, RunInv, RunTypeOK, ChainInv, MarketsRight, Listings, SourcesRight, OffersRight
<1> QED  BY <1>1, RunsKeepInv, RunsKeepChain, PTL

\* A market takes collateral only when a loan against it can be liquidated.
THEOREM LendingStaysGuarded == DeploymentSpec => []LendingIsGuarded
<1>1. ChainInv => LendingIsGuarded
  BY DEF ChainInv, MarketsRight, MarketRight, LoansReady, LendingIsGuarded
<1> QED  BY <1>1, RunsKeepChain, PTL

\* The first offer is of a protocol that is complete: the runs of a network
\* that lacks an address end before it.
LEMMA FirstOffer ==
  ASSUME RunInv, ChainInv, [DeploymentNext]_deploymentVars,
         nominated = {}, handed = {}, nominated' # {}
  PROVE  Configured
<1>1. SetPendingAdmin
  BY DEF DeploymentNext, Proceed, Start, MissingName, Deploy, Read, Crash, Accept, Tune, Upgrade,
         deploymentVars, chainVars, Transact, SetPendingImplementation, Become,
         InitializeCompParameters, SetCloseFactor, SetLiquidationIncentive, SetPriceOracle, TransferSeed,
         SupportMarket, SetUnderlyingPrice, SetAggregators, SetCollateralFactor, SetCompWeight,
         SetReserveFactor, TransferShare
<1>2. Running /\ calls # <<>> /\ Head(calls).call = "_setPendingAdmin" /\ ~Offered
  BY <1>1 DEF SetPendingAdmin, Calling, Offered
<1>3. OfferComesLast(network, pos)
  BY <1>2, CallFacts
<1>4. network = "devnet"
  <2> SUFFICES ASSUME network # "devnet"  PROVE FALSE
    OBVIOUS
  <2>0. PICK j \in 1 .. pos - 1 : \E n \in Stage(j).uses \ Externals(network) :
          \A l \in DOMAIN Plan[network] : Stage(l).deploys # n
    BY <1>3 DEF OfferComesLast, Stage
  <2>1. PICK n \in Stage(j).uses \ Externals(network) :
          \A l \in DOMAIN Plan[network] : Stage(l).deploys # n
    BY <2>0
  <2>2. Known(n)
    BY <2>1 DEF RunInv, StepsPassed, UsesKnown
  <2>3. n \in Names /\ saved[n].number > 0
    BY <2>1, <2>2 DEF Known, RunInv, RunTypeOK
  <2>4. PICK k \in 1 .. Len(Plan[network]) : Stage(k).deploys = n
    BY <2>3 DEF RunInv, NumbersFollow
  <2>5. DOMAIN Plan[network] = 1 .. Len(Plan[network])
    BY StepFacts, LenProperties DEF RunInv, RunTypeOK
  <2> QED  BY <2>1, <2>4, <2>5
<1>5. Names \subseteq DeployedBefore(Plan[network], pos) /\ OpeningCalls \subseteq SentBefore(Plan[network], pos)
  BY <1>3, <1>4 DEF OfferComesLast
<1>6. \A n \in Names : saved[n].number > 0 /\ saved[n].number \in Numbers /\ At(n) \in Names \X Numbers
  BY <1>2, <1>5, DeployedIsSaved, SavedNumbers
<1>7. \A c \in OpeningCalls : Met(c)
  BY <1>2, <1>5, SentIsPassed
<1>8. /\ proxy.implementation = At("Comptroller") /\ proxy.oracle = At("OracleAggregatorV1")
      /\ proxy.comp = At("Comp")
      /\ proxy.closeFactor = "scripted" /\ proxy.liquidationIncentive = "scripted"
  <2>1. /\ Met(Call("_become", "Comptroller")) /\ Met(Call("_setPriceOracle", "Unitroller"))
        /\ Met(Call("_initializeCompParameters", "Unitroller"))
        /\ Met(Call("_setCloseFactor", "Unitroller")) /\ Met(Call("_setLiquidationIncentive", "Unitroller"))
    BY <1>7 DEF OpeningCalls, LoanCalls
  <2>2. proxy.comp # Nowhere
    BY <2>1 DEF Met, Call
  <2> QED  BY <2>1, <2>2 DEF Met, Call, ChainInv, ProxyRight
<1>9. ASSUME NEW m \in Markets
      PROVE  Open(m)
  <2>1. m \in Names /\ "OracleAggregatorV1" \in Names
    BY NamesInclude DEF HandedOver
  <2>2. At(m) \in Markets \X Numbers /\ saved[m].number > 0
    BY <1>6, <2>1 DEF At
  <2>3. /\ Met(Call("_supportMarket", m)) /\ Met(Call("setAggregators", m))
        /\ Met(Call("_setCollateralFactor", m)) /\ Met(Call("_setCompWeight", m))
        /\ Met(Call("_setReserveFactor", m))
    BY <1>7 DEF OpeningCalls, MarketCalls
  <2>4. markets[At(m)] \in Listings
    BY <2>2 DEF ChainInv, MarketsRight
  <2>5. markets[At(m)] = [listed |-> TRUE, collateralFactor |-> TRUE, compWeight |-> TRUE, reserveFactor |-> TRUE]
    BY <2>3, <2>4 DEF Met, Call, Listings
  <2>6. PICK s \in sources[saved["OracleAggregatorV1"].number] : s[1] = At(m)
    BY <2>3 DEF Met, Call
  <2>7. s[2] \in prices \cup {Wrapper}
    BY <1>6, <2>1, <2>6 DEF ChainInv, SourcesRight
  <2>8. Priced(At(m))
    BY <1>8, <2>6, <2>7 DEF Priced, At, Nowhere, Wrapper
  <2> QED  BY <2>2, <2>5, <2>8 DEF Open
<1>10. DOMAIN saved = Names
  BY DEF RunInv, RunTypeOK
<1> QED  BY <1>6, <1>8, <1>9, <1>10 DEF Configured

\* Nobody is offered the protocol half built.
THEOREM HandoverIsLast == DeploymentSpec => HandoverComesLast
<1>1. RunInv /\ ChainInv /\ [DeploymentNext]_deploymentVars
        => [ (nominated = {} /\ handed = {} /\ nominated' # {}) => Configured ]_deploymentVars
  BY FirstOffer
<1> QED  BY <1>1, RunsKeepInv, RunsKeepChain, PTL DEF DeploymentSpec, HandoverComesLast

-----------------------------------------------------------------------------
\* The UTDX: who has how much, and what a run that divides it has seen.
Deployer == <<"deployer", 0>>
Locks == {"Reservoir", "CompLock"} \X Numbers
Accounts == {Deployer} \cup Locks

SharesRight ==
  /\ utdx \in [Accounts -> Nat] /\ utdx[Deployer] \in {0, 1, Supply}
  /\ \A a \in Locks : utdx[a] \in {0, Shares[a[1]]}
  /\ saved["Comp"].number = 0 => \A a \in Accounts : utdx[a] = 0
  /\ saved["Comp"].number # 0 => SumFunctionOnSet(utdx, Accounts) = Supply
NothingDivided == utdx[Deployer] = Supply => \A a \in Locks : utdx[a] = 0
HalfDivided ==
  /\ utdx[Deployer] = 1 => \A a \in Locks : a[1] = "CompLock" => utdx[a] = 0
  /\ utdx[Deployer] = 1 \/ (\E a \in Locks : a[1] = "CompLock" /\ utdx[a] > 0) =>
       \E b \in Locks : b[1] = "Reservoir" /\ utdx[b] > 0

\* Both shares are still to be sent, or the second.
Dividing ==
  calls # <<>> /\ Here.wants = "shares" =>
    /\ Len(calls) = 2 => utdx[Deployer] = Supply
    /\ Len(calls) = 1 => utdx[Deployer] = 1

SharesInv == SharesRight /\ NothingDivided /\ HalfDivided /\ Dividing

\* The accounts that can hold UTDX are finitely many.
LEMMA AccountsFinite == IsFiniteSet(Accounts) /\ Deployer \in Accounts /\ Deployer \notin Locks
<1>1. IsFiniteSet(Numbers)
  BY ConstantsOK, FS_Interval DEF Numbers, ConstantsOK
<1>2. IsFiniteSet({"Reservoir", "CompLock"}) /\ IsFiniteSet({Deployer})
  <2>1. IsFiniteSet({"Reservoir"}) /\ IsFiniteSet({"CompLock"}) /\ IsFiniteSet({Deployer})
    BY FS_Singleton
  <2>2. {"Reservoir", "CompLock"} = {"Reservoir"} \cup {"CompLock"}
    OBVIOUS
  <2> QED  BY <2>1, <2>2, FS_Union
<1>3. IsFiniteSet(Locks)
  BY <1>1, <1>2, FS_Product DEF Locks
<1> QED  BY <1>2, <1>3, FS_Union DEF Accounts, Locks, Deployer

\* What goes from one account to another is in the sum once.
LEMMA TransferKeepsSum ==
  ASSUME NEW S, IsFiniteSet(S), NEW f \in [S -> Nat], NEW g \in [S -> Nat],
         NEW x \in S, NEW y \in S, x # y, NEW v \in Nat,
         g[x] = f[x] - v, g[y] = f[y] + v, \A z \in S \ {x, y} : g[z] = f[z]
  PROVE  SumFunctionOnSet(g, S) = SumFunctionOnSet(f, S)
<1> DEFINE h == [f EXCEPT ![x] = g[x]]
<1>1. h \in [S -> Nat] /\ h[x] = g[x] /\ h[y] = f[y] /\ (\A z \in S \ {x} : h[z] = f[z])
      /\ (\A z \in S \ {y} : g[z] = h[z])
  OBVIOUS
<1>2. (\A z \in S : f[z] \in Int) /\ (\A z \in S : g[z] \in Int) /\ (\A z \in S : h[z] \in Int)
  <2>1. ASSUME NEW z \in S  PROVE f[z] \in Int /\ g[z] \in Int /\ h[z] \in Int
    BY <1>1
  <2> QED  BY <2>1
<1> HIDE DEF h
<1>3. SumFunctionOnSet(h, S) = SumFunctionOnSet(f, S) - f[x] + h[x]
  BY <1>1, <1>2, SumChange
<1>4. SumFunctionOnSet(g, S) = SumFunctionOnSet(h, S) - h[y] + g[y]
  BY <1>1, <1>2, SumChange
<1>5. SumFunctionOnSet(f, S) \in Int
  BY <1>2, SumType
<1> QED  BY <1>1, <1>2, <1>3, <1>4, <1>5

\* Only deploying Comp and dividing the UTDX move any.
LEMMA SharesStay ==
  ASSUME RunInv, RunInv', SharesInv, utdx' = utdx,
         saved'["Comp"].number = 0 <=> saved["Comp"].number = 0
  PROVE  SharesRight' /\ NothingDivided' /\ HalfDivided'
BY DEF SharesInv, SharesRight, NothingDivided, HalfDivided

\* The constructor of Comp gives the deployer the supply, once.
LEMMA DeploySharesKeep ==
  ASSUME RunInv, RunInv', SharesInv, Deploy
  PROVE  SharesRight' /\ NothingDivided' /\ HalfDivided'
<1> DEFINE n == Here.deploys
<1>1. /\ n \in Names /\ "Comp" \in Names /\ (n # "nothing")
      /\ Once("Comp") /\ Once("Comp")' /\ saved \in [Names -> Deployment(Names)]
      /\ Here = Stage(pos) /\ pos \in 1 .. Len(Plan[network]) /\ Running
  BY DeployFacts, NamesInclude DEF Deploy, RunInv, RunTypeOK
<1>2. CASE UpToDate(n) \/ n # "Comp"
  <2>1. utdx' = utdx /\ saved'["Comp"] = saved["Comp"]
    BY <1>1, <1>2 DEF Deploy
  <2> QED  BY <2>1, SharesStay
<1>3. CASE ~UpToDate(n) /\ n = "Comp"
  <2>1. saved["Comp"].number = 0
    <3>1. Here.uses = {}
      BY <1>1, <1>3, HereFacts DEF WellMade, RunInv
    <3>2. Arguments = {}
      BY <3>1, DeployFacts
    <3>3. saved["Comp"] = [number |-> 1, code |-> 1, args |-> {}] /\ code["Comp"] = 1 => UpToDate("Comp")
      BY <3>2 DEF UpToDate
    <3> QED  BY <1>1, <1>3, <3>3 DEF Once
  <2>2. saved'["Comp"].number # 0
    <3>1. saved'["Comp"].number = saved["Comp"].number + 1
      BY <1>1, <1>3 DEF Deploy, Deployment
    <3> QED  BY <2>1, <3>1
  <2>3. /\ utdx \in [Accounts -> Nat] /\ \A a \in Accounts : utdx[a] = 0
        /\ utdx' = [utdx EXCEPT ![Deployer] = Supply]
    BY <1>3, <2>1 DEF SharesInv, SharesRight, Deploy, Deployer
  <2>4. /\ utdx' \in [Accounts -> Nat] /\ utdx'[Deployer] = Supply /\ Supply = 4
        /\ \A a \in Locks : utdx'[a] = 0 /\ a \in Accounts /\ a # Deployer
    BY <2>3, AccountsFinite DEF Supply, Accounts
  <2>5. SumFunctionOnSet(utdx', Accounts) = Supply
    <3>1. SumFunctionOnSet(utdx, Accounts) = 0
      BY <2>3, AccountsFinite, SumZeros
    <3>2. (\A a \in Accounts : utdx[a] \in Int) /\ (\A a \in Accounts : utdx'[a] \in Int)
      <4>1. ASSUME NEW a \in Accounts  PROVE utdx[a] \in Int /\ utdx'[a] \in Int
        BY <2>3, <2>4
      <4> QED  BY <4>1
    <3>3. \A a \in Accounts \ {Deployer} : utdx'[a] = utdx[a]
      BY <2>3, <2>4 DEF Accounts
    <3>4. SumFunctionOnSet(utdx', Accounts) = SumFunctionOnSet(utdx, Accounts) - utdx[Deployer] + utdx'[Deployer]
      BY <3>2, <3>3, AccountsFinite, SumChange
    <3>5. utdx[Deployer] = 0
      BY <2>3, AccountsFinite
    <3> QED  BY <2>4, <3>1, <3>4, <3>5
  <2>6. SharesRight'
    BY <2>2, <2>4, <2>5 DEF SharesRight
  <2> QED  BY <2>4, <2>6 DEF NothingDivided, HalfDivided
<1> QED  BY <1>2, <1>3

\* Nothing follows the only element of a sequence.
LEMMA LastIsAlone ==
  ASSUME NEW S, NEW s \in Seq(S), Len(s) = 1
  PROVE  Tail(s) = <<>>
<1>1. s # <<>>
  BY EmptySeq
<1>2. Tail(s) \in Seq(S) /\ Len(Tail(s)) = Len(s) - 1
  BY <1>1, HeadTailProperties
<1>3. Len(Tail(s)) = 0
  BY <1>2
<1> QED  BY <1>2, <1>3, EmptySeq

\* A share is sent as long as the one before it is the last that was.
LEMMA ShareFacts ==
  ASSUME RunInv, SharesInv, TransferShare
  PROVE  /\ Running /\ calls # <<>> /\ Here.wants = "shares" /\ Len(Here.calls) = 2
         /\ On \in Locks /\ On[1] = Head(calls).on /\ On # Deployer
         /\ \/ On[1] = "Reservoir" /\ utdx[Deployer] = Supply /\ Len(calls) = 2
            \/ On[1] = "CompLock" /\ utdx[Deployer] = 1 /\ Len(calls) = 1
<1>1. Running /\ calls # <<>> /\ Head(calls).call = "transferShare"
  BY DEF TransferShare, Calling
<1>2. PICK i \in DOMAIN Here.calls :
        Head(calls) = Here.calls[i] /\ (Len(calls) = 1 <=> i = Len(Here.calls)) /\ CallFits(Here, i)
  BY <1>1, CallFacts
<1>3. /\ Here.wants = "shares" /\ Len(Here.calls) = 2
      /\ Head(calls).on = IF i = 1 THEN "Reservoir" ELSE "CompLock"
  BY <1>1, <1>2 DEF CallFits, Purpose
<1>4. i \in 1 .. 2
  BY <1>1, <1>2, <1>3, HereFacts, LenProperties DEF RunInv
<1>5. Len(calls) \in Nat /\ Len(calls) <= 2 /\ Len(calls) # 0
  BY <1>1, <1>3, LenProperties, EmptySeq DEF RunInv, RunTypeOK, CallsAreHere, Rest
<1>6. On \in Locks /\ On[1] = Head(calls).on
  BY <1>1, <1>3, CallTarget DEF Locks
<1>7. CASE i = 1
  <2>1. Len(calls) # 1
    BY <1>2, <1>3, <1>7
  <2>2. \A l \in Nat : l <= 2 /\ l # 0 /\ l # 1 => l = 2
    OBVIOUS
  <2>3. Len(calls) = 2
    BY <1>5, <2>1, <2>2
  <2> QED  BY <1>1, <1>3, <1>6, <1>7, <2>3, AccountsFinite DEF SharesInv, Dividing
<1>8. CASE i = 2
  <2>1. Len(calls) = 1
    BY <1>2, <1>3, <1>8
  <2> QED  BY <1>1, <1>3, <1>6, <1>8, <2>1, AccountsFinite DEF SharesInv, Dividing
<1> QED  BY <1>4, <1>7, <1>8

\* A share that is sent was not sent before.
LEMMA TransferShareKeeps ==
  ASSUME RunInv, RunInv', SharesInv, TransferShare
  PROVE  SharesInv'
<1>1. /\ Running /\ calls # <<>> /\ Here.wants = "shares" /\ Len(Here.calls) = 2
      /\ On \in Locks /\ On[1] = Head(calls).on /\ On # Deployer
      /\ \/ On[1] = "Reservoir" /\ utdx[Deployer] = Supply /\ Len(calls) = 2
         \/ On[1] = "CompLock" /\ utdx[Deployer] = 1 /\ Len(calls) = 1
  BY ShareFacts
<1> DEFINE v == Shares[On[1]]
<1>2. v \in Nat /\ v > 0 /\ Supply = 4 /\ (On[1] = "Reservoir" => v = 3) /\ (On[1] = "CompLock" => v = 1)
  BY <1>1 DEF Shares, Supply
<1>3. /\ utdx \in [Accounts -> Nat] /\ Deployer \in Accounts /\ On \in Accounts
      /\ \A a \in Accounts : a \in Locks \/ a = Deployer
  BY <1>1, AccountsFinite DEF SharesInv, SharesRight, Accounts
<1>4. utdx[On] = 0 /\ utdx[Deployer] >= v /\ utdx[Deployer] - v \in {0, 1}
      /\ (On[1] = "Reservoir" => utdx[Deployer] - v = 1) /\ (On[1] = "CompLock" => utdx[Deployer] - v = 0)
  BY <1>1, <1>2 DEF SharesInv, NothingDivided, HalfDivided
<1>5. /\ utdx' = [utdx EXCEPT ![Deployer] = @ - v, ![On] = @ + v] /\ Mined
      /\ UNCHANGED << network, saved >>
  BY <1>1, <1>4 DEF TransferShare, Requires, Deployer
<1> HIDE DEF v
<1>6. /\ utdx'[Deployer] = utdx[Deployer] - v /\ utdx'[On] = utdx[On] + v /\ utdx'[On] = v
      /\ \A a \in Accounts \ {Deployer, On} : utdx'[a] = utdx[a]
      /\ utdx' \in [Accounts -> Nat]
  <2>1. utdx[Deployer] - v \in Nat /\ utdx[On] + v \in Nat /\ utdx[On] + v = v
    BY <1>2, <1>4
  <2> QED  BY <1>1, <1>3, <1>5, <2>1
<1>7. SharesRight'
  <2>1. \A a \in Locks : utdx'[a] \in {0, Shares[a[1]]}
    <3>1. ASSUME NEW a \in Locks
          PROVE  utdx'[a] \in {0, Shares[a[1]]}
      <4>1. a \in Accounts /\ a # Deployer
        BY AccountsFinite DEF Accounts
      <4> QED  BY <1>6, <4>1 DEF SharesInv, SharesRight, v
    <3> QED  BY <3>1
  <2>2. SumFunctionOnSet(utdx', Accounts) = SumFunctionOnSet(utdx, Accounts)
    <3> DEFINE f == utdx
               g == utdx'
               o == On
    <3>1. /\ f \in [Accounts -> Nat] /\ g \in [Accounts -> Nat] /\ o \in Accounts /\ o # Deployer
          /\ g[Deployer] = f[Deployer] - v /\ g[o] = f[o] + v /\ v \in Nat
          /\ \A z \in Accounts \ {Deployer, o} : g[z] = f[z]
      BY <1>1, <1>2, <1>3, <1>6
    <3> HIDE DEF f, g, o
    <3>2. SumFunctionOnSet(g, Accounts) = SumFunctionOnSet(f, Accounts)
      BY <3>1, AccountsFinite, TransferKeepsSum
    <3> QED  BY <3>2 DEF f, g
  <2>3. saved'["Comp"].number # 0
    <3>1. utdx[Deployer] # 0
      BY <1>1, <1>2
    <3> QED  BY <1>3, <1>5, <3>1 DEF SharesInv, SharesRight
  <2>4. utdx'[Deployer] \in {0, 1, Supply}
    BY <1>4, <1>6
  <2> QED  BY <1>5, <1>6, <2>1, <2>2, <2>3, <2>4 DEF SharesInv, SharesRight
<1>8. NothingDivided'
  BY <1>2, <1>4, <1>6 DEF NothingDivided
<1>9. HalfDivided'
  <2>1. CASE On[1] = "Reservoir"
    <3>1. \A a \in Locks : a[1] = "CompLock" => utdx'[a] = 0
      <4>1. ASSUME NEW a \in Locks, a[1] = "CompLock"
            PROVE  utdx'[a] = 0
        <5>1. a \in Accounts /\ a # Deployer /\ a # On
          BY <2>1, <4>1, AccountsFinite DEF Accounts
        <5> QED  BY <1>1, <1>6, <2>1, <5>1 DEF SharesInv, NothingDivided
      <4> QED  BY <4>1
    <3> QED  BY <1>1, <1>2, <1>6, <2>1, <3>1 DEF HalfDivided
  <2>2. CASE On[1] = "CompLock"
    <3>1. PICK b \in Locks : b[1] = "Reservoir" /\ utdx[b] > 0
      BY <1>1, <2>2 DEF SharesInv, HalfDivided
    <3>2. b \in Accounts /\ b # Deployer /\ b # On
      BY <2>2, <3>1, AccountsFinite DEF Accounts
    <3>3. utdx'[b] > 0
      BY <1>6, <3>1, <3>2
    <3>4. utdx'[Deployer] # 1
      BY <1>4, <1>6, <2>2
    <3> QED  BY <3>1, <3>3, <3>4 DEF HalfDivided
  <2> QED  BY <1>1, <2>1, <2>2
<1>10. Dividing'
  <2>1. CASE Len(calls) = 1
    <3>1. Tail(calls) = <<>>
      BY <1>1, <2>1, LastIsAlone DEF RunInv, RunTypeOK
    <3>2. calls' = <<>>
      BY <1>5, <3>1 DEF Mined
    <3> QED  BY <3>2 DEF Dividing
  <2>2. CASE Len(calls) = 2
    <3>1. calls' = Tail(calls)
      BY <1>5 DEF Mined
    <3>2. Len(calls') = 1
      <4>1. Len(Tail(calls)) = Len(calls) - 1
        BY <1>1, HeadTailProperties DEF RunInv, RunTypeOK
      <4> QED  BY <2>2, <3>1, <4>1
    <3>3. utdx'[Deployer] = 1
      BY <1>1, <1>4, <1>6, <2>2
    <3> QED  BY <3>2, <3>3 DEF Dividing
  <2> QED  BY <1>1, <2>1, <2>2
<1> QED  BY <1>7, <1>8, <1>9, <1>10 DEF SharesInv

\* The other transactions move no UTDX and come from steps that want no share.
LEMMA NoShareSent ==
  ASSUME RunInv, Transact, ~TransferShare
  PROVE  utdx' = utdx /\ Running /\ calls # <<>> /\ Here.wants # "shares"
<1>1. utdx' = utdx /\ Running /\ calls # <<>> /\ Head(calls).call # "transferShare"
  BY DEF Transact, SetPendingImplementation, Become, InitializeCompParameters, SetCloseFactor,
         SetLiquidationIncentive, SetPriceOracle, TransferSeed, SupportMarket, SetUnderlyingPrice,
         SetAggregators, SetCollateralFactor, SetCompWeight, SetReserveFactor, SetPendingAdmin, Calling
<1>2. PICK i \in DOMAIN Here.calls : Head(calls) = Here.calls[i] /\ CallFits(Here, i)
  BY <1>1, CallFacts
<1> QED  BY <1>1, <1>2 DEF CallFits, Purpose

\* Apart from the deployment of Comp and the division, nothing moves UTDX.
LEMMA NoShareMoves ==
  ASSUME RunInv, [DeploymentNext]_deploymentVars, ~Deploy, ~TransferShare
  PROVE  utdx' = utdx /\ saved' = saved
<1>1. CASE Transact
  <2>1. saved' = saved
    BY <1>1, TransactMoves DEF Ends, Sends, SameContracts, RunInv
  <2> QED  BY <1>1, <2>1, NoShareSent
<1>2. CASE Start \/ MissingName \/ Read \/ Crash
  BY <1>2 DEF Start, MissingName, Read, Crash, chainVars
<1>3. CASE \/ \E a \in nominated : Accept(a)
          \/ \E setting \in {"closeFactor", "liquidationIncentive"} : Tune(setting)
          \/ \E name \in Upgradable : Upgrade(name)
  BY <1>3 DEF Accept, Tune, Upgrade, chainVars
<1>4. CASE UNCHANGED deploymentVars
  BY <1>4 DEF deploymentVars, chainVars
<1> QED  BY <1>1, <1>2, <1>3, <1>4 DEF DeploymentNext, Proceed

\* A run that comes to the division finds the whole supply or nothing to do.
LEMMA ReadDivides ==
  ASSUME RunInv, SharesInv, Read
  PROVE  Dividing'
<1>1. Running /\ network' = network /\ utdx' = utdx
  BY DEF Read, AtStep, chainVars
<1>2. SUFFICES ASSUME calls' # <<>>, Here'.wants = "shares"
               PROVE  Len(calls') = 2 /\ utdx'[Deployer] = Supply
  BY DEF Dividing
<1>3. Wanted /\ calls' = Here.calls /\ Here' = Here
  BY <1>1, <1>2 DEF Read, Here
<1>4. utdx[Deployer] = Supply
  BY <1>2, <1>3 DEF Wanted, SharesWanted, Deployer
<1>5. Here.calls \in Seq([call : STRING, on : Names]) /\ Here.calls # <<>> /\ WellMade(Here)
  BY <1>1, <1>2, <1>3, HereFacts DEF RunInv
<1>6. 1 \in DOMAIN Here.calls
  BY <1>5, EmptySeq, LenProperties
<1>7. Len(Here.calls) = 2
  <2>1. CallFits(Here, 1)
    BY <1>5, <1>6 DEF WellMade
  <2> QED  BY <1>2, <1>3, <2>1 DEF CallFits, Purpose
<1> QED  BY <1>1, <1>3, <1>4, <1>7

\* Nothing else disturbs a division under way.
LEMMA DividingStays ==
  ASSUME RunInv, SharesInv, [DeploymentNext]_deploymentVars, ~TransferShare
  PROVE  Dividing'
<1>1. CASE Transact
  <2>1. Running /\ calls # <<>> /\ Here.wants # "shares" /\ (Ends \/ Sends)
    BY <1>1, NoShareSent, TransactMoves DEF RunInv
  <2>2. CASE Ends
    BY <2>2 DEF Ends, Throws, Dividing
  <2>3. CASE Sends /\ Len(calls) = 1
    <3>1. calls' = <<>>
      BY <2>3, LastIsAlone DEF Sends, Mined, RunInv, RunTypeOK
    <3> QED  BY <3>1 DEF Dividing
  <2>4. CASE Sends /\ Len(calls) # 1
    <3>1. Here' = Here
      BY <2>4 DEF Sends, Mined, SameContracts, Here
    <3> QED  BY <2>1, <3>1 DEF Dividing
  <2> QED  BY <2>1, <2>2, <2>3, <2>4
<1>2. CASE Start \/ MissingName \/ Deploy \/ Crash \/ (\E name \in Upgradable : Upgrade(name))
  <2>1. calls' = <<>>
    BY <1>2 DEF Start, MissingName, Throws, Deploy, AtStep, Crash, Upgrade, RunInv, CallsAreHere
  <2> QED  BY <2>1 DEF Dividing
<1>3. CASE Read
  BY <1>3, ReadDivides
<1>4. CASE \/ \E a \in nominated : Accept(a)
          \/ \E setting \in {"closeFactor", "liquidationIncentive"} : Tune(setting)
          \/ UNCHANGED deploymentVars
  <2>1. UNCHANGED << network, pos, calls, utdx >>
    BY <1>4 DEF Accept, Tune, deploymentVars, chainVars
  <2> QED  BY <2>1 DEF SharesInv, Dividing, Here
<1> QED  BY <1>1, <1>2, <1>3, <1>4 DEF DeploymentNext, Proceed

\* Before the first run nobody has any UTDX.
LEMMA SharesInitially ==
  ASSUME DeploymentInit
  PROVE  SharesInv
<1>1. /\ utdx = [a \in Accounts |-> 0] /\ calls = <<>>
      /\ saved = [n \in Names |-> Undeployed]
  BY DEF DeploymentInit, Accounts, Locks, Deployer
<1>2. /\ utdx \in [Accounts -> Nat] /\ (\A a \in Accounts : utdx[a] = 0)
      /\ saved["Comp"].number = 0
  BY <1>1, NamesInclude DEF Undeployed
<1>3. utdx[Deployer] = 0 /\ \A a \in Locks : utdx[a] = 0
  BY <1>2, AccountsFinite DEF Accounts
<1>4. Supply = 4
  BY DEF Supply
<1> QED  BY <1>1, <1>2, <1>3, <1>4 DEF SharesInv, SharesRight, NothingDivided, HalfDivided, Dividing

\* The division stands at one of four points: nothing minted, nothing given,
\* the Reservoir served, both served.
THEOREM RunsKeepShares == DeploymentSpec => []SharesInv
<1>1. DeploymentInit => SharesInv
  BY SharesInitially
<1>2. ASSUME RunInv, RunInv', SharesInv, [DeploymentNext]_deploymentVars
      PROVE  SharesInv'
  <2>1. CASE TransferShare
    BY <1>2, <2>1, TransferShareKeeps
  <2>2. CASE Deploy /\ ~TransferShare
    BY <1>2, <2>2, DeploySharesKeep, DividingStays DEF SharesInv
  <2>3. CASE ~Deploy /\ ~TransferShare
    BY <1>2, <2>3, NoShareMoves, SharesStay, DividingStays DEF SharesInv
  <2> QED  BY <2>1, <2>2, <2>3
<1> QED  BY <1>1, <1>2, RunsKeepInv, PTL DEF DeploymentSpec

\* The UTDX is divided once, whatever run died between the two transfers, and
\* the Comptroller holds the seed of one market at most.
THEOREM PaidOnce == DeploymentSpec => []NothingIsPaidTwice
<1>1. ASSUME RunInv, ChainInv, SharesInv
      PROVE  NothingIsPaidTwice
  <2>1. utdx \in [Accounts -> Nat] /\ DOMAIN utdx = Accounts
    BY <1>1 DEF SharesInv, SharesRight
  <2>2. \A a \in Accounts : a[1] # "deployer" => a \in Locks
    BY DEF Accounts, Deployer
  <2>3. \A a \in Locks : a \in Accounts /\ a[1] \in {"Reservoir", "CompLock"}
    BY DEF Accounts, Locks
  <2>4. saved["Comp"].number = 1 => SumFunction(utdx) = Supply
    BY <1>1, <2>1 DEF SumFunction, SharesInv, SharesRight
  <2>5. \A a \in DOMAIN utdx : a[1] # "deployer" => utdx[a] \in {0, Shares[a[1]]}
    BY <1>1, <2>1, <2>2 DEF SharesInv, SharesRight
  <2>6. ASSUME NEW a \in DOMAIN utdx, a[1] = "CompLock", utdx[a] > 0
        PROVE  \E b \in DOMAIN utdx : b[1] = "Reservoir" /\ utdx[b] > 0
    BY <1>1, <2>1, <2>2, <2>3, <2>6 DEF SharesInv, HalfDivided
  <2>7. seed <= 1
    <3>1. seed \in {0, 1}
      BY <1>1 DEF ChainInv, MarketsRight
    <3> QED  BY <3>1
  <2> QED  BY <2>4, <2>5, <2>6, <2>7 DEF NothingIsPaidTwice
<1> QED  BY <1>1, RunsKeepInv, RunsKeepChain, RunsKeepShares, PTL
=============================================================================
