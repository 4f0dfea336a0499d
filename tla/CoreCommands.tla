--------------------------- MODULE CoreCommands ---------------------------
(***************************************************************************)
(* The top-level commands (scenario/src/CoreEvent.ts) and what `Assert` may *)
(* ask (scenario/src/Event/AssertionEvent.ts).  The commands that change   *)
(* what the interpreter checks or how it runs another command (Invariant,  *)
(* Expect, HoldInvariants, ClearInvariants, From, Trx, Gate, Given, Block) *)
(* are actions of Scenario.tla.                                            *)
(***************************************************************************)
EXTENDS MarketCommands, GovernanceCommands

\* Until the next transaction nothing but the screen changes.
sessionCommands ==
    [History |-> Prints, SleepSeconds |-> Prints, SleepUntilTimestamp |-> Prints,
     SleepBlocks |-> Prints, SleepUntilBlock |-> Prints,
     Throw |-> [Throws EXCEPT !.requireFrom = FALSE],
     Read |-> Prints, Print_ |-> Prints, PrintNumber |-> Prints, PrintTransactionLogs |-> Prints]

\* Settings are written to their file by `updateSettings`, at once.  UseConfigs
\* loads the contracts of a network into the session.
settingsCommands ==
    [UseConfigs |-> View("loadContracts", "none"), MyAddress |-> View("alias", "none"),
     Alias |-> View("alias", "none"), Aliases |-> Prints]

nodeCommands ==
    [IncreaseTime |-> AsksNode, SetTime |-> AsksNode, FreezeTime |-> AsksNode,
     MineBlock |-> AsksNode, SetBlockNumber |-> AsksNodeFrom, AdvanceBlocks |-> AsksNodeFrom,
     Inspect |-> Prints, Debug |-> Prints, DebugNumber |-> Prints]

\* Ether for anyone is sent by `fallback`, through `invoke` like a method.
sendEther == Invokes("none")

helpCommands == [Help |-> Prints]

coreCommands ==
    UNION {Table("none", sessionCommands), Table("none", settingsCommands),
           Table("none", nodeCommands), Table("none", helpCommands), {On("none", sendEther)}}

marketFamilies ==
    UNION {unitrollerCommands, comptrollerCommands, comptrollerImplCommands, cTokenCommands,
           cTokenDelegateCommands, erc20Commands, interestRateModelCommands}

otherFamilies ==
    UNION {priceOracleCommands, priceOracleProxyCommands, maximillionCommands,
           timelockCommands, compCommands, governorCommands, governorBravoCommands}

getCommands == UNION {coreCommands, marketFamilies, otherFamilies}
-----------------------------------------------------------------------------
(* The outcomes of the last invokation ("none" before the first) that an   *)
(* assertion accepts, provided what it asks of their details is so.        *)

Anything == {"none", "success", "failure", "error", "revertFailure", "revertCustomError"}

\* On values, whatever was invoked.
valueAssertions ==
    [assertApprox |-> Anything, assertEqual |-> Anything, assertLessThan |-> Anything,
     assertGreaterThan |-> Anything, assertReadError |-> Anything]

failureAssertions ==
    [assertFailure |-> {"failure"}, assertRevertFailure |-> {"revertFailure"},
     assertRevertCustomError |-> {"revertCustomError"}]

\* An error of any kind has a message; no invokation is as good as success;
\* a log needs a receipt, which only a transaction that went through has.
outcomeAssertions ==
    [assertError |-> {"error", "revertFailure", "revertCustomError"},
     assertRevert |-> {"error", "revertFailure", "revertCustomError"},
     assertSuccess |-> {"none", "success"}, assertLog |-> {"success", "failure"}]

valueAssertionCommands ==
    LET h == valueAssertions IN
    [Approx |-> h.assertApprox, Equal |-> h.assertEqual, LessThan |-> h.assertLessThan,
     GreaterThan |-> h.assertGreaterThan, True |-> h.assertEqual, False |-> h.assertEqual,
     ReadRevert |-> h.assertReadError, ReadError |-> h.assertReadError]

outcomeAssertionCommands ==
    LET f == failureAssertions
        o == outcomeAssertions IN
    [Failure |-> f.assertFailure, RevertFailure |-> f.assertRevertFailure,
     RevertCustomError |-> f.assertRevertCustomError, Revert |-> o.assertRevert,
     Error |-> o.assertError, Success |-> o.assertSuccess, Log |-> o.assertLog]

assertionCommands ==
    {valueAssertionCommands[name] : name \in DOMAIN valueAssertionCommands} \cup
    {outcomeAssertionCommands[name] : name \in DOMAIN outcomeAssertionCommands}
=============================================================================
