----------------------------- MODULE MCScenario -----------------------------
(***************************************************************************)
(* A session on a network with a Unitroller, an implementation of it and a *)
(* GovernorBravo.  Two conditions' worth of chain values, one address to   *)
(* deploy at, and networks files as earlier sessions may have left them.   *)
(***************************************************************************)
EXTENDS Scenario

CONSTANTS U, I, G, D, Fresh

MCNames == {"Unitroller", "Comptroller", "Impl", "GovernorBravo", "BravoDelegate"}
MCAddresses == {U, I, G, D, Fresh}
MCLoadOrder == <<"Unitroller", "Impl", "Comptroller", "BravoDelegate", "GovernorBravo">>
MCNamesOf ==
    [Unitroller |-> {"Unitroller"}, Comptroller |-> {"Comptroller"}, ComptrollerImpl |-> {"Impl"},
     GovernorBravo |-> {"GovernorBravo", "BravoDelegate"}]

\* Deployed, and not yet connected to their implementations.
Apart ==
    [networks |-> [NoNames EXCEPT !["Unitroller"] = U, !["Impl"] = I,
                                  !["GovernorBravo"] = G, !["BravoDelegate"] = D],
     abi |-> [EmptyABI EXCEPT
                !["Unitroller"] = artifacts["Unitroller"],
                !["Impl"] = artifacts["Comptroller"],
                !["GovernorBravo"] = artifacts["GovernorBravoDelegator"],
                !["BravoDelegate"] = artifacts["GovernorBravoDelegate"]]]

\* After `ComptrollerImpl Impl Become`.
Joined ==
    mergeContractABI(Apart, "Comptroller", U, "Unitroller", "Impl")

\* A process that stopped between the two writes of the Unitroller's files.
Cut ==
    [networks |-> [NoNames EXCEPT !["Unitroller"] = U, !["Impl"] = I],
     abi |-> [EmptyABI EXCEPT !["Impl"] = artifacts["Comptroller"]]]

MCInitialFiles == {Joined, Cut}
=============================================================================
