------------------------------ MODULE Scenario ------------------------------
(***************************************************************************)
(* The scenario interpreter (scenario/src): a loop that reads a command,   *)
(* expands it to events, and processes them one after the other            *)
(* (Repl.ts, Runner.ts, processEvents of CoreEvent.ts).  An event that     *)
(* throws makes the loop go on with the world from before the command;     *)
(* what the event did to the chain, to the files and to shared objects     *)
(* stays.  A process may stop at any step, and a new one starts from the   *)
(* files.                                                                  *)
(*                                                                         *)
(* Reading and writing files suspends a command.  The one thing that runs  *)
(* meanwhile is a merge of ABIs that a former command started and did not  *)
(* wait for.                                                               *)
(***************************************************************************)
EXTENDS ScenarioWorld, CoreCommands

CONSTANTS NamesOf,      \* per role of interest, the names such contracts have
          Other,        \* stands for any name not in Names
          InitialFiles, \* what earlier sessions may have left on file
          StartsDry,    \* whether the first process is a dry run
          HasAccount,   \* whether the node has unlocked accounts
          Deployable,   \* the artifacts that are deployed, of those in `artifacts`
          MaxSteps,     \* bounds the events, nested ones included, and restarts of a behaviour,
          MaxObjects,   \* and the invariants of a process
          DryRuns       \* whether a process that is started may and must be a dry run

\* Roles the instance keeps track of; other contracts are taken to be known.
Tracked == DOMAIN NamesOf

AnyAddress == Addresses \cup {Nowhere}
AnyName == Names \cup {Other}
Contents == [networks : [Names -> AnyAddress], abi : [Names -> SUBSET Interfaces]]

ASSUME DeployableAreKnown == Deployable \subseteq DOMAIN artifacts
ASSUME OtherIsNoName == Other \notin Names
ASSUME RolesHaveNames == \A role \in Tracked : NamesOf[role] \subseteq Names
ASSUME FlagsAreBoolean == {StartsDry, HasAccount} \cup DryRuns \subseteq BOOLEAN
ASSUME InitialFilesAreContents == InitialFiles \subseteq Contents
ASSUME BoundsAreNaturals == MaxSteps \in Nat /\ MaxObjects \in Nat

VARIABLES world,     \* the world of the command at work
          before,    \* the world the loop has
          objects,   \* the invariants, shared by all worlds of a process
          me,        \* whether there is a default sender
          files,     \* the network's two files
          chain,     \* what conditions read, and the contracts deployed
          jobs,      \* reads and writes of files under way
          pc,
          event,     \* the sender of the event, and what it did to the chain
          ledger,    \* names saved by the command and by failed ones, and whether a
                     \* merge nobody waits for has run
          left       \* steps of MaxSteps left

scenarioVars == <<world, before, objects, me, files, chain, jobs, pc, event, ledger, left>>

\* Contracts of other roles are taken to be known and to have the method.
Untracked(command) == command.on \notin Tracked

\* The commands, but for differences that no step depends on.
Commands ==
    {IF Untracked(c) THEN [c EXCEPT !.on = "other", !.method = "none"] ELSE c : c \in getCommands}

Workers == {"event", "background"}
Idle == [stage |-> "idle", merge |-> FALSE, name |-> Other, address |-> Nowhere, abi |-> {},
         a |-> Other, b |-> Other, outcome |-> "unrecorded",
         files |-> [networks |-> NoNames, abi |-> EmptyABI]]
NothingSaved == [saved |-> {}, doubtful |-> {}, raced |-> FALSE]
NoEvent == [from |-> FALSE, valueBefore |-> 0, failed |-> FALSE, unrecorded |-> FALSE,
            cleared |-> "none"]

\* A save reads the files, then writes them with the contract in it.
Saving(name, address, abi, outcome) ==
    [Idle EXCEPT !.stage = "read", !.name = name, !.address = address, !.abi = abi,
                 !.outcome = outcome]
Merging(target, address, a, b, outcome) ==
    [Saving(target, address, {}, outcome) EXCEPT !.merge = TRUE, !.a = a, !.b = b]
-----------------------------------------------------------------------------
(* The loop. *)

\* A process, loaded from the files of a network.
Loaded(dryRun) == loadContractData(initWorld(dryRun), files)

ScenarioInit ==
    /\ files \in InitialFiles
    /\ world = Loaded(StartsDry)
    /\ before = world
    /\ objects = <<successInvariant>>
    /\ me = HasAccount
    /\ chain = [value |-> 0, contracts |-> {a \in Addresses : \E n \in Names : files.networks[n] = a}]
    /\ jobs = [w \in Workers |-> Idle]
    /\ pc = "prompt"
    /\ event = NoEvent
    /\ ledger = NothingSaved
    /\ left = MaxSteps

\* The next event of the command, or the first of a new one.
StartEvent ==
    /\ pc \in {"prompt", "next"}
    /\ left > 0
    /\ left' = left - 1
    /\ before' = IF pc = "prompt" THEN world ELSE before
    /\ event' = [NoEvent EXCEPT !.from = me, !.valueBefore = chain.value]
    /\ pc' = "event"
    /\ UNCHANGED <<world, objects, me, files, chain, jobs, ledger>>

\* The command has no more events: the loop goes on with its world.
EndCommand ==
    /\ pc = "next"
    /\ pc' = "prompt"
    /\ before' = world
    /\ ledger' = [ledger EXCEPT !.doubtful = @ \ ledger.saved, !.saved = {}]
    /\ UNCHANGED <<world, objects, me, files, chain, jobs, event, left>>

\* Faulty variant: a job on the files goes on after its command failed.
ThrownKeepsJob ==
    /\ world' = before
    /\ pc' = "prompt"
    /\ event' = NoEvent
    /\ ledger' = [ledger EXCEPT !.doubtful = @ \cup ledger.saved, !.saved = {}]
    /\ UNCHANGED <<before, me, files, left, jobs>>

\* What a command that throws leaves behind, to be joined with its effects.
Thrown ==
    /\ world' = before
    /\ pc' = "prompt"
    /\ jobs' = [jobs EXCEPT !.event = Idle]
    /\ event' = NoEvent
    /\ ledger' = [ledger EXCEPT !.doubtful = @ \cup ledger.saved, !.saved = {}]
    /\ UNCHANGED <<before, me, files, left>>

\* Any command may throw: its name or one of its arguments is unknown, it has no
\* sender, its contract no such method, or it exists to throw.
Throw ==
    /\ pc = "event"
    /\ Thrown
    /\ UNCHANGED <<objects, chain>>

\* The process ends, in the middle of anything, and another one starts.
Restart(dryRun) ==
    /\ left > 0
    /\ left' = left - 1
    /\ world' = Loaded(dryRun)
    /\ before' = world'
    /\ objects' = <<successInvariant>>
    /\ jobs' = [w \in Workers |-> Idle]
    /\ pc' = "prompt"
    /\ event' = NoEvent
    /\ ledger' = NothingSaved
    /\ UNCHANGED <<me, files, chain>>

\* What processEvents does after each event.
CheckEvent ==
    /\ pc = "check"
    /\ \/ /\ ~checkInvariants(world, objects, chain.value)
          /\ Thrown
          /\ UNCHANGED objects
       \/ /\ checkInvariants(world, objects, chain.value)
          /\ objects' = releaseHolds(world, objects)
          /\ \/ /\ ~checkExpectations(world, chain.value)
                /\ Thrown
             \/ /\ checkExpectations(world, chain.value)
                /\ world' = endEvent(world)
                /\ pc' = "next"
                /\ event' = NoEvent
                /\ UNCHANGED <<before, me, files, jobs, ledger, left>>
    /\ UNCHANGED chain
-----------------------------------------------------------------------------
(* Commands that change what is checked, and how others run. *)

HasSender == event.from

\* The frame of a command that does one thing to the session.
Session(nextWorld, nextObjects) ==
    /\ pc = "event"
    /\ world' = nextWorld
    /\ objects' = nextObjects
    /\ pc' = "check"
    /\ UNCHANGED <<before, me, files, chain, jobs, event, ledger, left>>

NewInvariant(kind, value) ==
    /\ HasSender
    /\ Len(objects) < MaxObjects
    /\ Session(addInvariant(world, Len(objects) + 1),
               Append(objects, [kind |-> kind, value |-> value, held |-> FALSE]))

InvariantStatic == NewInvariant("static", chain.value)
\* Throws where the value is not the one given.
InvariantRemains(value) == chain.value = value /\ NewInvariant("remains", value)
InvariantSuccess == NewInvariant("success", 0)

\* The delta is whatever leads from here to `expected`.
ExpectChanges(expected) == HasSender /\ Session(addExpectation(world, expected), objects)
ExpectRemains(value) ==
    HasSender /\ chain.value = value /\ Session(addExpectation(world, value), objects)

HoldInvariants(type) == Session(world, holdInvariants(world, objects, type))
ClearInvariants(type) ==
    /\ pc = "event"
    /\ world' = clearInvariants(world, objects, type)
    /\ event' = [event EXCEPT !.cleared = type]
    /\ pc' = "check"
    /\ UNCHANGED <<before, objects, me, files, chain, jobs, ledger, left>>

\* Throws where the last invokation is not as asserted.
AssertOutcome(accepted) ==
    HasSender /\ world.lastInvokation \in accepted /\ Session(world, objects)

\* `Gate` with a truthy value and `Given` with another run nothing.
SkipGated == HasSender /\ Session(world, objects)

\* The event that an event contains counts as one of its own.
Nests == left > 0 /\ left' = left - 1

\* `From` and `Trx` set the sender and the options of the event they contain.
From ==
    /\ pc = "event"
    /\ Nests
    /\ event' = [event EXCEPT !.from = TRUE]
    /\ UNCHANGED <<world, before, objects, me, files, chain, jobs, pc, ledger>>

Trx ==
    /\ pc = "event"
    /\ Nests
    /\ HasSender
    /\ world' = [world EXCEPT !.trxInvokationOpts = TRUE]
    /\ UNCHANGED <<before, objects, me, files, chain, jobs, pc, event, ledger>>

\* `Block` mines up to a block and runs an event in it.
Block(value) ==
    /\ pc = "event"
    /\ Nests
    /\ HasSender
    /\ chain' = [chain EXCEPT !.value = value]
    /\ event' = [event EXCEPT !.unrecorded = TRUE]
    /\ UNCHANGED <<world, before, objects, me, files, jobs, pc, ledger>>
-----------------------------------------------------------------------------
(* Commands that reach the node or the files. *)

\* The command has its sender, and its contract is known and has the method.
\* Of contracts not kept track of either may be so.
Resolves(command, name) ==
    /\ pc = "event"
    /\ command.requireFrom => HasSender
    /\ ~Untracked(command) =>
          /\ name \in NamesOf[command.on]
          /\ Known(world, name)
          /\ command.method \in {"none"} \cup getWorldContract(world, name).abi

\* The names a command may be about, or one to stand for those not tracked.
NamesFor(command) == IF command.on \in Tracked THEN NamesOf[command.on] ELSE {Other}

\* Faulty variant: dry runs send.
SendsInDryRun(outcome, value) ==
    /\ outcome \in Reverted => value = chain.value
    /\ chain' = [chain EXCEPT !.value = value]
    /\ event' = [event EXCEPT !.failed = outcome # "success"]

\* A transaction goes out, unless in a dry run, where it counts as a success;
\* one that reverts changes nothing.  (A "failure" is an error code, not a revert.)
Sends(outcome, value) ==
    /\ world.dryRun \/ outcome \in Reverted => value = chain.value
    /\ world.dryRun => outcome = "success"
    /\ chain' = [chain EXCEPT !.value = value]
    /\ event' = [event EXCEPT !.failed = outcome # "success"]

Invoke(command, name) ==
    /\ Resolves(command, name)
    /\ \/ command.does = "invoke"
       \/ command.does = "invokeLive" /\ ~world.dryRun
    /\ \E outcome \in Outcomes, value \in Values :
          /\ Sends(outcome, value)
          /\ world' = addAction(world, outcome)
    /\ pc' = "check"
    /\ UNCHANGED <<before, objects, me, files, jobs, ledger, left>>

\* Dry runs stop short of listing a market.
SkipInDryRun(command, name) ==
    /\ Resolves(command, name)
    /\ command.does = "invokeLive"
    /\ world.dryRun
    /\ Session(world, objects)

Read(command, name) ==
    /\ Resolves(command, name)
    /\ command.does = "read"
    /\ Session(world, objects)

\* Something happens on the chain that no invokation tells of: web3 throws where
\* the transaction fails, and the node is told to mine or to set its clock.
BypassInvoke(command, name, value) ==
    /\ Resolves(command, name)
    /\ command.does \in {"send", "rpc"}
    /\ chain' = [chain EXCEPT !.value = value]
    /\ event' = [event EXCEPT !.unrecorded = TRUE]
    /\ pc' = "check"
    /\ UNCHANGED <<world, before, objects, me, files, jobs, ledger, left>>

\* An alias "Me" is the sender from now on.  Settings are written in dry runs too,
\* and they are one object, which a command that fails has changed all the same.
Alias(command) ==
    /\ Resolves(command, Other)
    /\ command.does = "alias"
    /\ pc' = "check"
    /\ me' = TRUE
    /\ UNCHANGED <<world, before, objects, files, chain, jobs, event, ledger, left>>

\* UseConfigs loads what is on file; that it can do so for another network than
\* the process was started for is left out.
UseConfigs(command) ==
    /\ Resolves(command, Other)
    /\ command.does = "loadContracts"
    /\ Session(loadContractData(world, files), objects)

\* The event waits for a job on the files.
Await(nextWorld, job) ==
    /\ world' = nextWorld
    /\ jobs' = [jobs EXCEPT !.event = job]
    /\ pc' = "saving"
    /\ UNCHANGED <<before, objects, me, files, ledger, left>>

Unused(address) ==
    /\ address \notin chain.contracts
    /\ \A n \in Names : address \notin {world.contracts[n], before.contracts[n]}
    /\ world.contractIndex[address] = NoContract

\* A dry run makes an address up.  The builder deletes the invokation from what it
\* returns, so that the event records a new one that is none.
Deploy(command, name, address) ==
    /\ pc = "event"
    /\ HasSender
    /\ command.does = "deploy"
    /\ name \in NamesFor(command) \ {Other}
    /\ command.method \in Deployable
    /\ Unused(address)
    /\ chain' = IF world.dryRun THEN chain
                ELSE [chain EXCEPT !.contracts = @ \cup {address}]
    /\ event' = event
    /\ LET abi == artifacts[command.method] IN
          Await(storeContract(world, name, address, abi), Saving(name, address, abi, "none"))

\* Contracts of other roles are saved too, deployed here or adopted.  The builders
\* of some put the invokation back.
SaveOther(command) ==
    /\ pc = "event"
    /\ HasSender
    /\ Untracked(command)
    /\ command.does \in {"deploy", "adopt", "adoptUnrecorded"}
    /\ UNCHANGED <<chain, event>>
    /\ \E outcome \in IF command.does = "adoptUnrecorded" THEN {"unrecorded"}
                      ELSE {"none", "success"} :
          Await(world, Saving(Other, Nowhere, {}, outcome))

\* An implementation becomes the Unitroller's.  The names in the merge are those
\* of the contracts found at the addresses, and it goes on if the call failed.
Become(command, name, proxy) ==
    /\ ~Untracked(command)
    /\ Resolves(command, name)
    /\ command.does \in {"become", "recome"}
    /\ proxy \in NamesOf["Unitroller"]
    /\ Known(world, proxy)
    /\ \E outcome \in Outcomes, value \in Values :
          /\ Sends(outcome, value)
          /\ \/ /\ command.does = "become" => ~world.dryRun
                /\ Await(world, Merging("Comptroller", world.contracts[proxy],
                          getWorldContract(world, proxy).name,
                          getWorldContract(world, name).name, outcome))
             \/ /\ command.does = "become" /\ world.dryRun
                /\ world' = addAction(world, outcome)
                /\ pc' = "check"
                /\ UNCHANGED <<before, objects, me, files, jobs, ledger, left>>

\* MergeABI, on an implementation and the Unitroller or on two Governors.
MergeTarget(role) == IF role = "ComptrollerImpl" THEN "Comptroller" ELSE "GovernorBravo"
ProxyRole(role) == IF role = "ComptrollerImpl" THEN "Unitroller" ELSE "GovernorBravo"

MergeOf(role, proxy, name, outcome) ==
    Merging(MergeTarget(role), world.contracts[proxy], getWorldContract(world, proxy).name,
            getWorldContract(world, name).name, outcome)

MergeABI(command, name, proxy) ==
    /\ ~Untracked(command)
    /\ Resolves(command, name)
    /\ command.does = "merge"
    /\ proxy \in NamesOf[ProxyRole(command.on)]
    /\ Known(world, proxy)
    /\ UNCHANGED <<chain, event>>
    /\ IF world.dryRun
       THEN /\ pc' = "check"
            /\ UNCHANGED <<world, before, objects, me, files, jobs, ledger, left>>
       ELSE Await(world, MergeOf(command.on, proxy, name, "unrecorded"))

\* GovernorBravo SetImplementation: the merge goes on by itself, for the files
\* alone, as the world it computes is dropped.  One such merge at a time.
SetImplementation(command, proxy, name) ==
    /\ ~Untracked(command)
    /\ Resolves(command, proxy)
    /\ command.does = "mergeLater"
    /\ name \in NamesOf["GovernorBravo"]
    /\ Known(world, name)
    /\ jobs.background.stage = "idle"
    /\ \E outcome \in Outcomes, value \in Values :
          /\ Sends(outcome, value)
          /\ world' = addAction(world, outcome)
    /\ IF world.dryRun THEN UNCHANGED <<jobs, ledger>>
       ELSE /\ jobs' = [jobs EXCEPT !.background =
                            MergeOf("GovernorBravo", proxy, name, "unrecorded")]
            /\ ledger' = [ledger EXCEPT !.raced = TRUE]
    /\ pc' = "check"
    /\ UNCHANGED <<before, objects, me, files, left>>
-----------------------------------------------------------------------------
(* Jobs: the two files are read, and then written, one after the other. *)

\* The event has its files written and records its invokation.
FinishJob(worker, nextWorld) ==
    /\ jobs' = [jobs EXCEPT ![worker] = Idle]
    /\ IF worker = "background" THEN UNCHANGED <<world, pc>>
       ELSE /\ pc' = "check"
            /\ world' = IF jobs.event.outcome = "unrecorded" THEN nextWorld
                        ELSE addAction(nextWorld, jobs.event.outcome)

ReadNetworks(worker) ==
    /\ jobs[worker].stage = "read"
    /\ jobs' = [jobs EXCEPT ![worker].files.networks = files.networks, ![worker].stage = "readABI"]
    /\ UNCHANGED <<world, before, objects, me, files, chain, pc, event, ledger, left>>

\* Faulty variant: a merge is for the session only.
ChangedSkipsMerge(job, read) ==
    IF job.name \in Names /\ ~job.merge
    THEN saveContract(read, job.name, job.address, job.abi) ELSE read

\* The files as the job is going to write them.
Changed(job, read) ==
    IF job.merge THEN mergeContractABI(read, job.name, job.address, job.a, job.b)
    ELSE IF job.name \in Names THEN saveContract(read, job.name, job.address, job.abi)
    ELSE read

ReadABI(worker) ==
    /\ jobs[worker].stage = "readABI"
    /\ LET job == jobs[worker]
           read == [networks |-> job.files.networks, abi |-> files.abi]
           written == Changed(job, read)
           merged == IF job.merge /\ worker = "event"
                     THEN storeContract(world, job.name, job.address,
                              read.abi[job.a] \cup read.abi[job.b])
                     ELSE world IN
          \/ /\ job.merge /\ ~Mergeable(read, job.a, job.b)
             /\ IF worker = "event" THEN Thrown
                ELSE /\ jobs' = [jobs EXCEPT !.background = Idle]
                     /\ UNCHANGED <<world, before, me, files, pc, event, ledger, left>>
          \/ /\ job.merge => Mergeable(read, job.a, job.b)
             /\ IF world.dryRun THEN FinishJob(worker, merged)
                ELSE /\ jobs' = [jobs EXCEPT ![worker].files = written,
                                             ![worker].stage = "writeNetworks"]
                     /\ world' = merged
                     /\ UNCHANGED pc
             /\ UNCHANGED <<before, me, files, event, ledger, left>>
    /\ UNCHANGED <<objects, chain>>

WriteNetworks(worker) ==
    /\ jobs[worker].stage = "writeNetworks"
    /\ files' = [files EXCEPT !.networks = jobs[worker].files.networks]
    /\ jobs' = [jobs EXCEPT ![worker].stage = "writeABI"]
    /\ ledger' = IF worker = "event" THEN [ledger EXCEPT !.saved = @ \cup {jobs.event.name}]
                 ELSE ledger
    /\ UNCHANGED <<world, before, objects, me, chain, pc, event, left>>

WriteABI(worker) ==
    /\ jobs[worker].stage = "writeABI"
    /\ files' = [files EXCEPT !.abi = jobs[worker].files.abi]
    /\ FinishJob(worker, world)
    /\ UNCHANGED <<before, objects, me, chain, event, ledger, left>>

\* A read or a write that fails rejects, and the command throws; nobody hears it
\* of the merge that nobody waits for.  The file is taken to be as it was.
FileFails(worker) ==
    /\ jobs[worker].stage # "idle"
    /\ \/ worker = "event" /\ Thrown
       \/ /\ worker = "background"
          /\ jobs' = [jobs EXCEPT !.background = Idle]
          /\ UNCHANGED <<world, before, me, files, pc, event, ledger, left>>
    /\ UNCHANGED <<objects, chain>>
-----------------------------------------------------------------------------
Checking ==
    \/ InvariantStatic \/ InvariantSuccess \/ SkipGated
    \/ \E value \in Values : InvariantRemains(value) \/ ExpectChanges(value) \/ ExpectRemains(value)
    \/ \E type \in InvariantTypes : HoldInvariants(type) \/ ClearInvariants(type)
    \/ \E accepted \in assertionCommands : AssertOutcome(accepted)

\* (The first conjunct spares TLC the table in states where no command runs.)
Running ==
    pc = "event" /\ \E command \in Commands :
        \/ Alias(command) \/ UseConfigs(command) \/ SaveOther(command)
        \/ \E name \in NamesFor(command) :
              \/ Invoke(command, name) \/ SkipInDryRun(command, name) \/ Read(command, name)
              \/ \E value \in Values : BypassInvoke(command, name, value)
              \/ \E address \in Addresses : Deploy(command, name, address)
              \/ \E other \in Names : \/ Become(command, name, other)
                                    \/ MergeABI(command, name, other)
                                    \/ SetImplementation(command, name, other)

Jobs == \E w \in Workers :
    ReadNetworks(w) \/ ReadABI(w) \/ WriteNetworks(w) \/ WriteABI(w) \/ FileFails(w)

ScenarioNext ==
    \/ StartEvent \/ Throw \/ CheckEvent \/ EndCommand
    \/ From \/ Trx \/ \E value \in Values : Block(value)
    \/ Checking
    \/ Running
    \/ Jobs
    \/ \E dryRun \in DryRuns : Restart(dryRun)

ScenarioSpec == ScenarioInit /\ [][ScenarioNext]_scenarioVars
-----------------------------------------------------------------------------
(* Properties. *)

Stages == {"idle", "read", "readABI", "writeNetworks", "writeABI"}
AnyWorld ==
    [invariants : SUBSET Nat, expectations : SUBSET Values,
     lastInvokation : {"none"} \cup Outcomes, newInvokation : BOOLEAN,
     trxInvokationOpts : BOOLEAN, contracts : [Names -> AnyAddress],
     contractIndex : [Addresses -> [name : Names, abi : SUBSET Interfaces] \cup {NoContract}],
     dryRun : BOOLEAN]
AnyJob ==
    [stage : Stages, merge : BOOLEAN, name : AnyName, address : AnyAddress,
     abi : SUBSET Interfaces, a : AnyName, b : AnyName,
     outcome : Outcomes \cup {"none", "unrecorded"}, files : Contents]

\* The variables have their types, the worlds of a process share its invariants,
\* and an event waits for the files exactly while a job of its own is under way.
ScenarioTypeOK ==
    /\ world \in AnyWorld /\ before \in AnyWorld
    /\ objects \in Seq([kind : InvariantTypes \ {"all"}, value : Values, held : BOOLEAN])
    /\ world.invariants \cup before.invariants \subseteq DOMAIN objects
    /\ world.dryRun = before.dryRun
    /\ me \in BOOLEAN
    /\ files \in Contents
    /\ chain \in [value : Values, contracts : SUBSET AnyAddress]
    /\ jobs \in [Workers -> AnyJob]
    /\ pc \in {"prompt", "event", "saving", "check", "next"}
    /\ pc = "saving" <=> jobs.event.stage # "idle"
    /\ event \in [from : BOOLEAN, valueBefore : Values, failed : BOOLEAN, unrecorded : BOOLEAN,
                   cleared : InvariantTypes \cup {"none"}]
    /\ ledger \in [saved : SUBSET AnyName, doubtful : SUBSET AnyName, raced : BOOLEAN]
    /\ left \in Nat

\* An event whose transaction failed ends well only if every success invariant in
\* force was held, and one that changed what a static or remains invariant fixed
\* only if that one was held or the change came by no recorded invokation.
\* (checkInvariants of World.ts, after each event of processEvents)
NoSilentBreak ==
    [][pc = "check" /\ pc' = "next" =>
        \A i \in world.invariants : ~objects[i].held =>
            /\ objects[i].kind = "success" => ~event.failed
            /\ objects[i].kind # "success" /\ objects[i].value = event.valueBefore =>
                    chain.value = event.valueBefore \/ event.unrecorded]_scenarioVars

\* An expectation is not lost: it leaves the session when it was met after a
\* recorded invokation, with the command that made it, or with the process.
\* (checkExpectations of World.ts, the loop of Repl.ts)
ExpectationsAreJudged ==
    [][\A expected \in world.expectations \ world'.expectations :
        \/ pc = "check" /\ pc' = "next" /\ world.newInvokation /\ chain.value = expected
        \/ pc' = "prompt" /\ expected \notin before.expectations
        \/ \E dryRun \in DryRuns : Restart(dryRun)]_scenarioVars

\* What a process that starts makes of the address of a name is the name on file
\* there that the file lists last.
ListedLast(n) == \E i \in LastAt(files, files.networks[n]) : LoadOrder[i] = n

\* Between commands, every contract that the session has under the contract's own
\* name is on file at its address, with an ABI no poorer, and a new process finds
\* it so unless another name is listed after it at that address; but for names
\* saved by commands that failed and for merges that nobody waited for.
\* (storeAndSaveContract, mergeContractABI and loadContractData of Networks.ts)
RestartLosesNothing ==
    pc = "prompt" /\ ~world.dryRun /\ ~ledger.raced =>
        \A n \in Names \ ledger.doubtful :
          Known(world, n) /\ getWorldContract(world, n).name = n =>
            /\ Loaded(FALSE).contracts[n] = world.contracts[n]
            /\ getWorldContract(world, n).abi \subseteq files.abi[n]
            /\ ListedLast(n) => getWorldContract(Loaded(FALSE), n) = Found(files, n)

\* A dry run writes neither of the network's two files (an alias is written to the
\* settings), deploys nothing, and changes what conditions read only through a
\* command that does not go by `invoke`.
\* (the tests of world.dryRun in Invokation.ts, Contract.ts and Networks.ts)
DryRunLeavesNoTrace ==
    [][world.dryRun =>
        /\ files' = files
        /\ chain' = chain \/ event'.unrecorded]_scenarioVars

\* What concerns one event is gone when the next one starts: the options of its
\* transaction, the mark of its invokation (but for the mark every process
\* starts with), and its work on the files.  (the end of processEvents)
EventsAreSelfContained ==
    pc \in {"prompt", "next"} =>
        /\ ~world.trxInvokationOpts
        /\ jobs.event = Idle
        /\ world.newInvokation => pc = "prompt" /\ world.lastInvokation = "none"

\* After `ClearInvariants` of a type, or of all, none of that type is left.
\* (CoreEvent.ts on ClearInvariants; clearInvariants of World.ts)
ClearedInvariantsAreGone ==
    pc = "check" /\ event.cleared # "none" =>
        \A i \in world.invariants : event.cleared \notin {"all", objects[i].kind}

=============================================================================
