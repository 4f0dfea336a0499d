--------------------------- MODULE ScenarioWorld ---------------------------
(***************************************************************************)
(* The world of the scenario interpreter (scenario/src/World.ts) and the   *)
(* files that outlive it (Networks.ts).  A world is an immutable record: a *)
(* command maps one to the next, and a command that throws leaves its      *)
(* predecessor in force.  Not everything is in the record: invariants are  *)
(* mutable objects that successive worlds share (here `objects', which a   *)
(* world refers to by their indexes), and the two files per network, one   *)
(* for addresses and one for ABIs, are written one after the other.        *)
(*                                                                         *)
(* An ABI is a set of interfaces, a contract is what the session knows of  *)
(* an address, and the one number all conditions read is the chain's value.*)
(***************************************************************************)
EXTENDS Integers, Sequences, FiniteSets

CONSTANTS Names,      \* names under which contracts are stored
          Addresses,
          Nowhere,    \* no address
          LoadOrder,  \* the order in which the networks file lists the names
          Values,     \* what the chain may answer to a condition
          Outcomes    \* of an invokation, among AllOutcomes

ASSUME NowhereIsNoAddress == Nowhere \notin Addresses
ASSUME TargetsAreNames == {"Comptroller", "GovernorBravo"} \subseteq Names
ASSUME ZeroIsAValue == 0 \in Values
ASSUME LoadOrderListsNames == LoadOrder \in Seq(Names)

AllOutcomes == {"success", "failure", "revertFailure", "revertCustomError", "error"}
Reverted == AllOutcomes \ {"success", "failure"}
ASSUME OutcomesInclude == "success" \in Outcomes /\ Outcomes \subseteq AllOutcomes

NoContract == [name |-> "", abi |-> {}]
EmptyABI == [n \in Names |-> {}]
NoNames == [n \in Names |-> Nowhere]

\* A fresh process, before it loads the network's files.  (initWorld)
initWorld(dryRun) ==
    [invariants |-> {1}, expectations |-> {}, lastInvokation |-> "none", newInvokation |-> TRUE,
     trxInvokationOpts |-> FALSE, contracts |-> NoNames,
     contractIndex |-> [a \in Addresses |-> NoContract], dryRun |-> dryRun]

successInvariant == [kind |-> "success", value |-> 0, held |-> FALSE]
-----------------------------------------------------------------------------
(* Lookups. *)

getWorldContract(world, name) ==
    IF world.contracts[name] = Nowhere THEN NoContract
    ELSE world.contractIndex[world.contracts[name]]

Known(world, name) == getWorldContract(world, name) # NoContract

\* Faulty variant: the invokation is kept, and not marked as new.
addActionUnmarked(world, outcome) == [world EXCEPT !.lastInvokation = outcome]

\* An invokation as the world records it.  (addAction)
addAction(world, outcome) ==
    [world EXCEPT !.lastInvokation = outcome, !.newInvokation = TRUE]
-----------------------------------------------------------------------------
(* Invariants and expectations. *)

InvariantTypes == {"all", "success", "remains", "static"}

getInvariantFilter(type, object) == type = "all" \/ object.kind # type

addInvariant(world, id) == [world EXCEPT !.invariants = @ \cup {id}]
addExpectation(world, expected) == [world EXCEPT !.expectations = @ \cup {expected}]

\* The list keeps what the filter is true of.
clearInvariants(world, objects, type) ==
    [world EXCEPT !.invariants = {i \in @ : getInvariantFilter(type, objects[i])}]

\* The objects of the filter are held, in this world and in every other.
holdInvariants(world, objects, type) ==
    [i \in DOMAIN objects |->
        IF i \in world.invariants /\ getInvariantFilter(type, objects[i])
        THEN [objects[i] EXCEPT !.held = TRUE] ELSE objects[i]]

\* What the checker of an invariant asks.
Holds(world, object, value) ==
    IF object.kind = "success"
    THEN world.lastInvokation \in {"none", "success"}
    ELSE value = object.value

checkInvariants(world, objects, value) ==
    world.newInvokation =>
        \A i \in world.invariants : objects[i].held \/ Holds(world, objects[i], value)

\* After a check that passed.
releaseHolds(world, objects) ==
    IF world.newInvokation
    THEN [i \in DOMAIN objects |-> IF i \in world.invariants
                                   THEN [objects[i] EXCEPT !.held = FALSE] ELSE objects[i]]
    ELSE objects

checkExpectations(world, value) ==
    world.newInvokation => \A expected \in world.expectations : value = expected

\* Faulty variant: expectations are dropped whether or not they were checked.
dropExpectationsAlways(world) == [world EXCEPT !.expectations = {}]

dropExpectations(world) ==
    IF world.newInvokation THEN [world EXCEPT !.expectations = {}] ELSE world

\* Faulty variant: the options of the transaction stay.
endEventKeepsOptions(world) == [dropExpectations(world) EXCEPT !.newInvokation = FALSE]

\* The end of an event: fields that belong to one transaction are cleared.
endEvent(world) ==
    [dropExpectations(world) EXCEPT !.trxInvokationOpts = FALSE, !.newInvokation = FALSE]
-----------------------------------------------------------------------------
(* The network's files. *)

\* The session learns of a contract under a name.
storeContract(world, name, address, abi) ==
    [world EXCEPT !.contracts[name] = address,
                  !.contractIndex[address] = [name |-> name, abi |-> abi]]

\* What a save writes: both files are read, changed and written as a whole.
saveContract(files, name, address, abi) ==
    [networks |-> [files.networks EXCEPT ![name] = address],
     abi |-> [files.abi EXCEPT ![name] = abi]]

\* mergeContractABI adds the ABI on file of b to the one of a and stores the
\* result as target's, at the address of a.  It throws where one is missing.
Mergeable(files, a, b) == files.abi[a] # {} /\ files.abi[b] # {}
mergeContractABI(files, target, address, a, b) ==
    saveContract(files, target, address, files.abi[a] \cup files.abi[b])

\* Every name on file gets a contract, with an empty ABI where the ABI file has
\* none; the index has room for one contract per address, the last one loaded.
LastAt(files, address) ==
    {i \in DOMAIN LoadOrder :
        /\ files.networks[LoadOrder[i]] = address
        /\ \A j \in DOMAIN LoadOrder : files.networks[LoadOrder[j]] = address => j <= i}

Found(files, name) == [name |-> name, abi |-> files.abi[name]]

loadContractData(world, files) ==
    [world EXCEPT
        !.contracts = [n \in Names |-> IF files.networks[n] = Nowhere THEN @[n]
                                       ELSE files.networks[n]],
        !.contractIndex = [a \in Addresses |->
            IF LastAt(files, a) = {} THEN @[a]
            ELSE Found(files, LoadOrder[CHOOSE i \in LastAt(files, a) : TRUE])]]
=============================================================================
