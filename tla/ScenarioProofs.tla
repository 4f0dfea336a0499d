--------------------------- MODULE ScenarioProofs ---------------------------
(***************************************************************************)
(* The interpreter for every table of commands, every network and every    *)
(* number of events, invariants and restarts: no failure or change goes    *)
(* unnoticed, no expectation is lost, a dry run leaves no trace, and an    *)
(* event takes nothing of the one before.                                  *)
(***************************************************************************)
EXTENDS Scenario, TLAPS

AnyContract == [name : Names, abi : SUBSET Interfaces]

\* A dry run has no job that writes.
DryJobs == world.dryRun => \A w \in Workers : jobs[w].stage \notin {"writeNetworks", "writeABI"}

\* A merge is of two contracts that have names, into one that has.
NamedMerge(job) == job.merge => job.name \in Names /\ job.a \in Names /\ job.b \in Names
MergesAreNamed == \A w \in Workers : NamedMerge(jobs[w])

\* Nothing that an invariant looks at has happened in the event.
Quiet == ~event.failed /\ (chain.value = event.valueBefore \/ event.unrecorded)

\* What has happened is what the check is going to look at.
Marked ==
  /\ event.failed => world.newInvokation /\ world.lastInvokation \notin {"none", "success"}
  /\ chain.value = event.valueBefore \/ event.unrecorded \/ world.newInvokation

\* What an event waiting for its files is going to record.
MarkComes ==
  /\ jobs.event.outcome # "unrecorded"
  /\ event.failed => jobs.event.outcome \notin {"none", "success"}

EventSeen ==
  /\ pc = "event" => Quiet
  /\ pc = "saving" => Quiet \/ MarkComes
  /\ pc = "check" => Marked

CleanWorld(w) == ~w.trxInvokationOpts /\ (w.newInvokation => w.lastInvokation = "none")

\* The world to return to has nothing of an event in it, and neither has the next.
Clean ==
  /\ CleanWorld(before)
  /\ pc \in {"prompt", "next"} => CleanWorld(world)
  /\ pc = "next" => ~world.newInvokation
  /\ pc # "saving" => jobs.event = Idle

IndInv == ScenarioTypeOK /\ DryJobs /\ MergesAreNamed /\ EventSeen /\ Clean

\* The fields of a world, one by one
LEMMA WorldFields ==
  ASSUME NEW w \in AnyWorld
  PROVE  /\ w.invariants \in SUBSET Nat /\ w.expectations \in SUBSET Values
         /\ w.lastInvokation \in {"none"} \cup Outcomes
         /\ w.newInvokation \in BOOLEAN /\ w.trxInvokationOpts \in BOOLEAN
         /\ w.contracts \in [Names -> AnyAddress]
         /\ w.contractIndex \in [Addresses -> AnyContract \cup {NoContract}]
         /\ w.dryRun \in BOOLEAN
BY DEF AnyWorld, AnyContract

\* A contract that is known is at an address and has a name.
LEMMA KnownIsNamed ==
  ASSUME NEW w \in AnyWorld, NEW n \in Names, Known(w, n)
  PROVE  getWorldContract(w, n).name \in Names /\ w.contracts[n] \in Addresses
<1>1. w.contracts[n] \in AnyAddress /\ w.contracts \in [Names -> AnyAddress]
      /\ w.contractIndex \in [Addresses -> AnyContract \cup {NoContract}]
  BY WorldFields
<1>2. w.contracts[n] # Nowhere
  BY DEF Known, getWorldContract
<1>3. w.contracts[n] \in Addresses
  BY <1>1, <1>2 DEF AnyAddress
<1>4. getWorldContract(w, n) \in AnyContract
  BY <1>1, <1>2, <1>3 DEF Known, getWorldContract
<1>5. QED
  BY <1>3, <1>4 DEF AnyContract

\* Recording an invokation
LEMMA AddActionFields ==
  ASSUME NEW w \in AnyWorld, NEW outcome \in Outcomes \cup {"none"}
  PROVE  /\ addAction(w, outcome) \in AnyWorld
         /\ addAction(w, outcome).newInvokation
         /\ addAction(w, outcome).lastInvokation = outcome
         /\ addAction(w, outcome).dryRun = w.dryRun
         /\ addAction(w, outcome).invariants = w.invariants
         /\ addAction(w, outcome).expectations = w.expectations
BY DEF addAction, AnyWorld

\* Storing a contract
LEMMA StoreContractFields ==
  ASSUME NEW w \in AnyWorld, NEW n \in Names, NEW a \in AnyAddress, NEW abi \in SUBSET Interfaces
  PROVE  /\ storeContract(w, n, a, abi) \in AnyWorld
         /\ storeContract(w, n, a, abi).dryRun = w.dryRun
         /\ storeContract(w, n, a, abi).invariants = w.invariants
         /\ storeContract(w, n, a, abi).expectations = w.expectations
         /\ storeContract(w, n, a, abi).newInvokation = w.newInvokation
         /\ storeContract(w, n, a, abi).lastInvokation = w.lastInvokation
<1> DEFINE c == [name |-> n, abi |-> abi]
<1>1. c \in AnyContract
  BY DEF AnyContract
<1>2. [w.contractIndex EXCEPT ![a] = c] \in [Addresses -> AnyContract \cup {NoContract}]
  BY <1>1, WorldFields
<1>3. [w.contracts EXCEPT ![n] = a] \in [Names -> AnyAddress]
  BY WorldFields
<1>4. storeContract(w, n, a, abi) =
        [w EXCEPT !.contracts = [w.contracts EXCEPT ![n] = a],
                  !.contractIndex = [w.contractIndex EXCEPT ![a] = c]]
  BY DEF storeContract
<1> HIDE DEF c
<1>5. QED
  BY <1>2, <1>3, <1>4 DEF AnyWorld, AnyContract

\* Loading the contracts on file
LEMMA LoadContractDataFields ==
  ASSUME NEW w \in AnyWorld, NEW f \in Contents
  PROVE  /\ loadContractData(w, f) \in AnyWorld
         /\ loadContractData(w, f).dryRun = w.dryRun
         /\ loadContractData(w, f).invariants = w.invariants
         /\ loadContractData(w, f).expectations = w.expectations
         /\ loadContractData(w, f).newInvokation = w.newInvokation
         /\ loadContractData(w, f).lastInvokation = w.lastInvokation
         /\ loadContractData(w, f).trxInvokationOpts = w.trxInvokationOpts
<1> DEFINE contracts == [n \in Names |-> IF f.networks[n] = Nowhere THEN w.contracts[n]
                                         ELSE f.networks[n]]
           at(a) == IF LastAt(f, a) = {} THEN w.contractIndex[a]
                    ELSE Found(f, LoadOrder[CHOOSE i \in LastAt(f, a) : TRUE])
           index == [a \in Addresses |-> at(a)]
<1>1. f.networks \in [Names -> AnyAddress] /\ f.abi \in [Names -> SUBSET Interfaces]
  BY DEF Contents
<1>2. contracts \in [Names -> AnyAddress]
  BY <1>1, WorldFields
<1>3. ASSUME NEW a \in Addresses PROVE at(a) \in AnyContract \cup {NoContract}
  <2>1. CASE LastAt(f, a) = {}
    BY <2>1, WorldFields
  <2>2. CASE LastAt(f, a) # {}
    <3>1. PICK i \in LastAt(f, a) : i = CHOOSE j \in LastAt(f, a) : TRUE
      BY <2>2
    <3>2. i \in DOMAIN LoadOrder
      BY DEF LastAt
    <3>3. LoadOrder[i] \in Names
      BY <3>2, LoadOrderListsNames
    <3>4. Found(f, LoadOrder[i]) \in AnyContract
      BY <1>1, <3>3 DEF Found, AnyContract
    <3>5. at(a) = Found(f, LoadOrder[i])
      BY <2>2, <3>1
    <3>6. QED
      BY <3>4, <3>5
  <2>3. QED
    BY <2>1, <2>2
<1>4. index \in [Addresses -> AnyContract \cup {NoContract}]
  BY <1>3
<1>5. loadContractData(w, f) = [w EXCEPT !.contracts = contracts, !.contractIndex = index]
  BY DEF loadContractData
<1> HIDE DEF contracts, index
<1>6. QED
  BY <1>2, <1>4, <1>5 DEF AnyWorld, AnyContract

\* A process that has just started
LEMMA LoadedFields ==
  ASSUME NEW dryRun \in BOOLEAN, files \in Contents
  PROVE  /\ Loaded(dryRun) \in AnyWorld
         /\ Loaded(dryRun).dryRun = dryRun
         /\ Loaded(dryRun).invariants = {1}
         /\ Loaded(dryRun).expectations = {}
         /\ CleanWorld(Loaded(dryRun))
<1> DEFINE w == initWorld(dryRun)
<1>1. w \in AnyWorld
  BY DEF initWorld, AnyWorld, NoNames, AnyAddress
<1>2. w.dryRun = dryRun /\ w.invariants = {1} /\ w.expectations = {} /\ CleanWorld(w)
  BY DEF initWorld, CleanWorld
<1> HIDE DEF w
<1>3. Loaded(dryRun) = loadContractData(w, files)
  BY DEF Loaded, w
<1>4. QED
  BY <1>1, <1>2, <1>3, LoadContractDataFields DEF CleanWorld

\* The invariant's conjuncts, for steps that cite them
AnyObject == [kind : InvariantTypes \ {"all"}, value : Values, held : BOOLEAN]
AnyEvent == [from : BOOLEAN, valueBefore : Values, failed : BOOLEAN, unrecorded : BOOLEAN,
             cleared : InvariantTypes \cup {"none"}]
AnyChain == [value : Values, contracts : SUBSET AnyAddress]
AnyLedger == [saved : SUBSET AnyName, doubtful : SUBSET AnyName, raced : BOOLEAN]
PCs == {"prompt", "event", "saving", "check", "next"}

Typed ==
  /\ world \in AnyWorld /\ before \in AnyWorld
  /\ objects \in Seq(AnyObject)
  /\ world.invariants \cup before.invariants \subseteq DOMAIN objects
  /\ world.dryRun = before.dryRun
  /\ me \in BOOLEAN
  /\ files \in Contents
  /\ chain \in AnyChain
  /\ jobs \in [Workers -> AnyJob]
  /\ pc \in PCs
  /\ pc = "saving" <=> jobs.event.stage # "idle"
  /\ event \in AnyEvent
  /\ ledger \in AnyLedger
  /\ left \in Nat

LEMMA TypeFacts == /\ ScenarioTypeOK <=> Typed
                   /\ ScenarioTypeOK' <=> Typed'
BY DEF ScenarioTypeOK, Typed, AnyObject, AnyEvent, AnyChain, AnyLedger, PCs

\* Nothing is known of no name and no contract: an idle job has its type.
LEMMA IdleJob ==
  Idle \in AnyJob /\ Idle.stage = "idle" /\ ~Idle.merge
<1>1. NoNames \in [Names -> AnyAddress] /\ EmptyABI \in [Names -> SUBSET Interfaces]
  BY DEF NoNames, EmptyABI, AnyAddress
<1>2. [networks |-> NoNames, abi |-> EmptyABI] \in Contents
  BY <1>1 DEF Contents
<1>3. QED
  BY <1>2 DEF Idle, AnyJob, AnyName, AnyAddress, Stages

\* Session commands: a new world, maybe other invariants, and no transaction.
LEMMA SessionKeeps ==
  ASSUME IndInv, NEW w \in AnyWorld, NEW o \in Seq(AnyObject), Session(w, o),
         w.dryRun = world.dryRun, w.invariants \cup before.invariants \subseteq DOMAIN o
  PROVE  IndInv'
<1>1. /\ pc = "event" /\ pc' = "check" /\ world' = w /\ objects' = o
      /\ UNCHANGED <<before, me, files, chain, jobs, event, ledger, left>>
  BY DEF Session
<1>2. ScenarioTypeOK'
  BY <1>1, TypeFacts DEF Typed, IndInv, PCs
<1>3. DryJobs' /\ MergesAreNamed'
  BY <1>1 DEF IndInv, DryJobs, MergesAreNamed
<1>4. Marked'
  BY <1>1 DEF IndInv, EventSeen, Quiet, Marked
<1>5. EventSeen' /\ Clean'
  BY <1>1, <1>4 DEF IndInv, EventSeen, Clean
<1>6. QED
  BY <1>2, <1>3, <1>5 DEF IndInv

\* An event that sends a job on its way
LEMMA AwaitKeeps ==
  ASSUME IndInv, pc = "event", NEW w \in AnyWorld, NEW job \in AnyJob, Await(w, job),
         w.dryRun = world.dryRun, w.invariants = world.invariants,
         job.stage = "read", NamedMerge(job),
         chain' \in AnyChain, event' \in AnyEvent,
         \/ Quiet'
         \/ /\ job.outcome # "unrecorded"
            /\ event'.failed => job.outcome \notin {"none", "success"}
  PROVE  IndInv'
<1>1. /\ pc' = "saving" /\ world' = w /\ jobs' = [jobs EXCEPT !.event = job]
      /\ UNCHANGED <<before, objects, me, files, ledger, left>>
  BY DEF Await
<1>2. jobs \in [Workers -> AnyJob]
  BY TypeFacts DEF Typed, IndInv
<1>3. jobs' \in [Workers -> AnyJob] /\ jobs'.event = job /\ jobs'.background = jobs.background
  BY <1>1, <1>2 DEF Workers
<1>4. ScenarioTypeOK'
  <2>1. pc' \in PCs /\ (pc' = "saving" <=> jobs'.event.stage # "idle")
    BY <1>1, <1>3 DEF PCs
  <2>2. QED
    BY <1>1, <1>3, <2>1, TypeFacts DEF Typed, IndInv
<1>5. DryJobs' /\ MergesAreNamed'
  BY <1>1, <1>3 DEF IndInv, DryJobs, MergesAreNamed, Workers
<1>6. EventSeen' /\ Clean'
  BY <1>1, <1>3 DEF IndInv, EventSeen, Clean, MarkComes
<1>7. QED
  BY <1>4, <1>5, <1>6 DEF IndInv

\* A transaction, from an event that has done nothing yet
LEMMA SendsFacts ==
  ASSUME IndInv, pc = "event", NEW outcome \in Outcomes, NEW value \in Values,
         Sends(outcome, value)
  PROVE  /\ chain' \in AnyChain /\ event' \in AnyEvent
         /\ chain'.contracts = chain.contracts
         /\ world.dryRun => chain' = chain
         /\ event'.valueBefore = event.valueBefore /\ event'.unrecorded = event.unrecorded
         /\ event'.failed => outcome # "success"
<1>1. chain \in AnyChain /\ event \in AnyEvent
  BY TypeFacts DEF Typed, IndInv
<1>2. chain' = [chain EXCEPT !.value = value]
      /\ event' = [event EXCEPT !.failed = (outcome # "success")]
      /\ (world.dryRun => value = chain.value)
  BY DEF Sends
<1>3. QED
  BY <1>1, <1>2 DEF AnyChain, AnyEvent

\* A transaction that is recorded at once
LEMMA RecordedKeeps ==
  ASSUME IndInv, pc = "event", NEW outcome \in Outcomes, NEW value \in Values,
         Sends(outcome, value), world' = addAction(world, outcome), pc' = "check",
         jobs' \in [Workers -> AnyJob], jobs'.event = jobs.event,
         NamedMerge(jobs'.background),
         world.dryRun => jobs' = jobs, ledger' \in AnyLedger,
         UNCHANGED <<before, objects, me, files, left>>
  PROVE  IndInv'
<1>1. world \in AnyWorld
  BY TypeFacts DEF Typed, IndInv
<1>2. /\ world' \in AnyWorld /\ world'.newInvokation /\ world'.lastInvokation = outcome
      /\ world'.dryRun = world.dryRun /\ world'.invariants = world.invariants
  BY <1>1, AddActionFields
<1>3. /\ chain' \in AnyChain /\ event' \in AnyEvent /\ (event'.failed => outcome # "success")
  BY SendsFacts
<1>4. ScenarioTypeOK'
  BY <1>2, <1>3, TypeFacts DEF Typed, IndInv, PCs
<1>5. DryJobs' /\ MergesAreNamed'
  BY <1>2 DEF IndInv, DryJobs, MergesAreNamed, Workers
<1>6. outcome # "none"
  BY OutcomesInclude DEF AllOutcomes
<1>7. EventSeen' /\ Clean'
  BY <1>2, <1>3, <1>6 DEF IndInv, EventSeen, Clean, Marked
<1>8. QED
  BY <1>4, <1>5, <1>7 DEF IndInv

\* A command that throws
LEMMA ThrownKeeps ==
  ASSUME IndInv, Thrown, objects' \in Seq(AnyObject), DOMAIN objects' = DOMAIN objects,
         UNCHANGED chain
  PROVE  IndInv'
<1>1. /\ world' = before /\ pc' = "prompt" /\ event' = NoEvent
      /\ jobs' = [jobs EXCEPT !.event = Idle]
      /\ ledger' = [ledger EXCEPT !.doubtful = @ \cup ledger.saved, !.saved = {}]
      /\ UNCHANGED <<before, me, files, left>>
  BY DEF Thrown
<1>2. jobs \in [Workers -> AnyJob] /\ ledger \in AnyLedger
  BY TypeFacts DEF Typed, IndInv
<1>3. jobs' \in [Workers -> AnyJob] /\ jobs'.event = Idle /\ jobs'.background = jobs.background
  BY <1>1, <1>2, IdleJob DEF Workers
<1>4. ledger' \in AnyLedger
  BY <1>1, <1>2 DEF AnyLedger
<1>5. NoEvent \in AnyEvent
  BY ZeroIsAValue DEF NoEvent, AnyEvent
<1>6. ScenarioTypeOK'
  BY <1>1, <1>3, <1>4, <1>5, IdleJob, TypeFacts DEF Typed, IndInv, PCs
<1>7. DryJobs' /\ MergesAreNamed'
  BY <1>1, <1>3, IdleJob, TypeFacts DEF Typed, IndInv, DryJobs, MergesAreNamed, NamedMerge, Workers
<1>8. EventSeen' /\ Clean'
  BY <1>1, <1>3 DEF IndInv, EventSeen, Clean
<1>9. QED
  BY <1>6, <1>7, <1>8 DEF IndInv

\* The loop: a command starts, ends, or throws, and processes start.
LEMMA LoopKeeps ==
  ASSUME IndInv, StartEvent \/ EndCommand \/ Throw \/ \E dryRun \in DryRuns : Restart(dryRun)
  PROVE  IndInv'
<1> USE DEF IndInv
<1>1. CASE StartEvent
  <2>1. /\ pc \in {"prompt", "next"} /\ pc' = "event" /\ left' = left - 1 /\ left > 0
        /\ before' = (IF pc = "prompt" THEN world ELSE before)
        /\ event' = [NoEvent EXCEPT !.from = me, !.valueBefore = chain.value]
        /\ UNCHANGED <<world, objects, me, files, chain, jobs, ledger>>
    BY <1>1 DEF StartEvent
  <2>2. Typed
    BY TypeFacts
  <2>3. event' \in AnyEvent /\ ~event'.failed /\ event'.valueBefore = chain.value
    BY <2>1, <2>2 DEF AnyEvent, NoEvent, Typed, AnyChain
  <2>4. ScenarioTypeOK'
    BY <2>1, <2>2, <2>3, TypeFacts DEF Typed, PCs
  <2>5. EventSeen'
    BY <2>1, <2>3 DEF EventSeen, Quiet
  <2>6. Clean' /\ DryJobs' /\ MergesAreNamed'
    BY <2>1 DEF Clean, DryJobs, MergesAreNamed
  <2>7. QED
    BY <2>4, <2>5, <2>6
<1>2. CASE EndCommand
  <2>1. /\ pc = "next" /\ pc' = "prompt" /\ before' = world
        /\ ledger' = [ledger EXCEPT !.doubtful = @ \ ledger.saved, !.saved = {}]
        /\ UNCHANGED <<world, objects, me, files, chain, jobs, event, left>>
    BY <1>2 DEF EndCommand
  <2>2. Typed
    BY TypeFacts
  <2>3. ledger' \in AnyLedger
    BY <2>1, <2>2 DEF Typed, AnyLedger
  <2>4. ScenarioTypeOK'
    BY <2>1, <2>2, <2>3, TypeFacts DEF Typed, PCs
  <2>5. EventSeen' /\ Clean' /\ DryJobs' /\ MergesAreNamed'
    BY <2>1 DEF EventSeen, Clean, DryJobs, MergesAreNamed
  <2>6. QED
    BY <2>4, <2>5
<1>3. CASE Throw
  <2>1. Thrown /\ UNCHANGED <<objects, chain>>
    BY <1>3 DEF Throw
  <2>2. objects \in Seq(AnyObject)
    BY TypeFacts DEF Typed
  <2>3. QED
    BY <2>1, <2>2, ThrownKeeps
<1>4. ASSUME NEW dryRun \in DryRuns, Restart(dryRun) PROVE IndInv'
  <2>1. /\ pc' = "prompt" /\ left' = left - 1 /\ left > 0 /\ world' = Loaded(dryRun)
        /\ before' = world' /\ objects' = <<successInvariant>>
        /\ jobs' = [w \in Workers |-> Idle] /\ event' = NoEvent /\ ledger' = NothingSaved
        /\ UNCHANGED <<me, files, chain>>
    BY <1>4 DEF Restart
  <2>2. Typed /\ dryRun \in BOOLEAN
    BY TypeFacts, FlagsAreBoolean
  <2>3. /\ world' \in AnyWorld /\ world'.invariants = {1} /\ CleanWorld(world')
    BY <2>1, <2>2, LoadedFields DEF Typed
  <2>4. successInvariant \in AnyObject
    BY ZeroIsAValue DEF successInvariant, AnyObject, InvariantTypes
  <2>5. objects' \in Seq(AnyObject) /\ DOMAIN objects' = {1}
    BY <2>1, <2>4
  <2>6. jobs' \in [Workers -> AnyJob] /\ \A w \in Workers : jobs'[w] = Idle
    BY <2>1, IdleJob
  <2>7. event' \in AnyEvent /\ ledger' \in AnyLedger
    BY <2>1, ZeroIsAValue DEF NoEvent, NothingSaved, AnyEvent, AnyLedger
  <2>8. "event" \in Workers
    BY DEF Workers
  <2>9. ScenarioTypeOK'
    BY <2>1, <2>2, <2>3, <2>5, <2>6, <2>7, <2>8, IdleJob, TypeFacts DEF Typed, PCs
  <2>10. DryJobs' /\ MergesAreNamed'
    BY <2>6, IdleJob DEF DryJobs, MergesAreNamed, NamedMerge
  <2>11. EventSeen' /\ Clean'
    BY <2>1, <2>3, <2>6, <2>8 DEF EventSeen, Clean
  <2>12. QED
    BY <2>9, <2>10, <2>11
<1>5. QED
  BY <1>1, <1>2, <1>3, <1>4

\* Holding or releasing invariants changes nothing else about them.
LEMMA HoldsKept ==
  ASSUME NEW o \in Seq(AnyObject), NEW w, NEW type
  PROVE  /\ holdInvariants(w, o, type) \in Seq(AnyObject)
         /\ DOMAIN holdInvariants(w, o, type) = DOMAIN o
         /\ releaseHolds(w, o) \in Seq(AnyObject)
         /\ DOMAIN releaseHolds(w, o) = DOMAIN o
<1>1. \A i \in DOMAIN o : /\ [o[i] EXCEPT !.held = TRUE] \in AnyObject
                          /\ [o[i] EXCEPT !.held = FALSE] \in AnyObject
                          /\ o[i] \in AnyObject
  <2>1. \A i \in DOMAIN o : o[i] \in AnyObject
    OBVIOUS
  <2>2. \A x \in AnyObject : /\ [x EXCEPT !.held = TRUE] \in AnyObject
                              /\ [x EXCEPT !.held = FALSE] \in AnyObject
    BY DEF AnyObject
  <2>3. QED
    BY <2>1, <2>2
<1> DEFINE chosen(i) == i \in w.invariants /\ getInvariantFilter(type, o[i])
           held == [i \in DOMAIN o |-> IF chosen(i) THEN [o[i] EXCEPT !.held = TRUE] ELSE o[i]]
           free == [i \in DOMAIN o |-> IF i \in w.invariants
                                       THEN [o[i] EXCEPT !.held = FALSE] ELSE o[i]]
<1>0. holdInvariants(w, o, type) = held
  BY DEF holdInvariants
<1> HIDE DEF chosen
<1>2. /\ DOMAIN held = DOMAIN o /\ \A i \in DOMAIN o : held[i] \in AnyObject
  BY <1>1
<1>3. /\ DOMAIN free = DOMAIN o /\ \A i \in DOMAIN o : free[i] \in AnyObject
  BY <1>1
<1>4. PICK n \in Nat : DOMAIN o = 1..n
  OBVIOUS
<1>5. held = [i \in 1..n |-> held[i]] /\ free = [i \in 1..n |-> free[i]]
  BY <1>2, <1>3, <1>4
<1>6. held \in [1..n -> AnyObject] /\ free \in [1..n -> AnyObject]
  BY <1>2, <1>3, <1>4, <1>5
<1> HIDE DEF held, free
<1>7. held \in Seq(AnyObject) /\ free \in Seq(AnyObject)
  BY <1>6
<1>8. releaseHolds(w, o) = IF w.newInvokation THEN free ELSE o
  BY DEF releaseHolds, free
<1>9. QED
  BY <1>0, <1>2, <1>3, <1>7, <1>8

\* The end of an event leaves nothing of it in the world.
LEMMA EndEventFields ==
  ASSUME NEW w \in AnyWorld
  PROVE  /\ endEvent(w) \in AnyWorld /\ endEvent(w).dryRun = w.dryRun
         /\ endEvent(w).invariants = w.invariants
         /\ endEvent(w).newInvokation = FALSE /\ endEvent(w).trxInvokationOpts = FALSE
         /\ endEvent(w).expectations = IF w.newInvokation THEN {} ELSE w.expectations
<1>1. /\ dropExpectations(w) \in AnyWorld /\ dropExpectations(w).dryRun = w.dryRun
      /\ dropExpectations(w).invariants = w.invariants
      /\ dropExpectations(w).expectations = IF w.newInvokation THEN {} ELSE w.expectations
  <2>1. CASE w.newInvokation
    BY <2>1 DEF dropExpectations, AnyWorld
  <2>2. CASE ~w.newInvokation
    BY <2>2 DEF dropExpectations
  <2>3. QED
    BY <2>1, <2>2
<1>2. QED
  BY <1>1 DEF endEvent, AnyWorld

LEMMA CheckEventKeeps ==
  ASSUME IndInv, CheckEvent
  PROVE  IndInv'
<1> USE DEF IndInv
<1>1. Typed /\ pc = "check" /\ UNCHANGED chain
  BY TypeFacts DEF CheckEvent
<1>2. objects \in Seq(AnyObject)
  BY <1>1 DEF Typed
<1>3. objects' \in Seq(AnyObject) /\ DOMAIN objects' = DOMAIN objects
  BY <1>2, HoldsKept DEF CheckEvent
<1>4. CASE Thrown
  BY <1>1, <1>3, <1>4, ThrownKeeps
<1>5. CASE ~Thrown
  <2>1. /\ world' = endEvent(world) /\ pc' = "next" /\ event' = NoEvent
        /\ UNCHANGED <<before, me, files, jobs, ledger, left>>
    BY <1>5 DEF CheckEvent
  <2>2. /\ world' \in AnyWorld /\ world'.dryRun = world.dryRun
        /\ world'.invariants = world.invariants
        /\ ~world'.newInvokation /\ ~world'.trxInvokationOpts
    BY <1>1, <2>1, EndEventFields DEF Typed
  <2>3. event' \in AnyEvent
    BY <2>1, ZeroIsAValue DEF NoEvent, AnyEvent
  <2>4. ScenarioTypeOK'
    BY <1>1, <1>3, <2>1, <2>2, <2>3, TypeFacts DEF Typed, PCs
  <2>5. DryJobs' /\ MergesAreNamed' /\ EventSeen'
    BY <2>1, <2>2 DEF DryJobs, MergesAreNamed, EventSeen
  <2>6. Clean'
    BY <1>1, <2>1, <2>2 DEF Clean, CleanWorld
  <2>7. QED
    BY <2>4, <2>5, <2>6
<1>6. QED
  BY <1>4, <1>5

\* Commands on invariants, expectations and assertions
LEMMA NewInvariantKeeps ==
  ASSUME IndInv, NEW kind \in InvariantTypes \ {"all"}, NEW value \in Values,
         NewInvariant(kind, value)
  PROVE  IndInv'
<1> DEFINE object == [kind |-> kind, value |-> value, held |-> FALSE]
           n == Len(objects) + 1
           w == addInvariant(world, n)
           o == Append(objects, object)
<1>1. Typed /\ Session(w, o)
  BY TypeFacts DEF IndInv, NewInvariant
<1>2. object \in AnyObject
  BY DEF AnyObject
<1> HIDE DEF object
<1>3. objects \in Seq(AnyObject) /\ world \in AnyWorld
      /\ world.invariants \cup before.invariants \subseteq DOMAIN objects
  BY <1>1 DEF Typed
<1>4. o \in Seq(AnyObject) /\ n \in Nat /\ DOMAIN o = DOMAIN objects \cup {n}
  <2>1. Len(o) = n /\ o \in Seq(AnyObject) /\ n \in Nat
    BY <1>2, <1>3
  <2>2. DOMAIN o = 1..n /\ DOMAIN objects = 1..(n - 1)
    BY <1>2, <1>3, <2>1
  <2>3. QED
    BY <2>1, <2>2
<1>5. w \in AnyWorld /\ w.dryRun = world.dryRun /\ w.invariants = world.invariants \cup {n}
  <2> HIDE DEF n
  <2>1. QED
    BY <1>3, <1>4 DEF addInvariant, AnyWorld
<1> HIDE DEF w, o, n
<1>6. QED
  BY <1>1, <1>3, <1>4, <1>5, SessionKeeps

LEMMA CheckingKeeps ==
  ASSUME IndInv, Checking
  PROVE  IndInv'
<1>1. Typed
  BY TypeFacts DEF IndInv
<1>2. /\ world \in AnyWorld /\ objects \in Seq(AnyObject) /\ chain.value \in Values
      /\ world.invariants \cup before.invariants \subseteq DOMAIN objects
  BY <1>1 DEF Typed, AnyChain
<1>3. CASE InvariantStatic \/ InvariantSuccess \/ \E value \in Values : InvariantRemains(value)
  BY <1>2, <1>3, NewInvariantKeeps, ZeroIsAValue
     DEF InvariantStatic, InvariantSuccess, InvariantRemains, InvariantTypes
<1>4. CASE SkipGated \/ \E accepted \in assertionCommands : AssertOutcome(accepted)
  <2>1. Session(world, objects)
    BY <1>4 DEF SkipGated, AssertOutcome
  <2>2. QED
    BY <1>2, <2>1, SessionKeeps
<1>5. ASSUME NEW value \in Values, ExpectChanges(value) \/ ExpectRemains(value) PROVE IndInv'
  <2>1. Session(addExpectation(world, value), objects)
    BY <1>5 DEF ExpectChanges, ExpectRemains
  <2>2. /\ addExpectation(world, value) \in AnyWorld
        /\ addExpectation(world, value).dryRun = world.dryRun
        /\ addExpectation(world, value).invariants = world.invariants
    BY <1>2 DEF addExpectation, AnyWorld
  <2>3. QED
    BY <1>2, <2>1, <2>2, SessionKeeps
<1>6. ASSUME NEW type \in InvariantTypes, HoldInvariants(type) PROVE IndInv'
  <2>1. Session(world, holdInvariants(world, objects, type))
    BY <1>6 DEF HoldInvariants
  <2>2. QED
    BY <1>2, <2>1, HoldsKept, SessionKeeps
<1>7. ASSUME NEW type \in InvariantTypes, ClearInvariants(type) PROVE IndInv'
  <2>1. /\ pc = "event" /\ pc' = "check" /\ world' = clearInvariants(world, objects, type)
        /\ event' = [event EXCEPT !.cleared = type]
        /\ UNCHANGED <<before, objects, me, files, chain, jobs, ledger, left>>
    BY <1>7 DEF ClearInvariants
  <2>2. /\ world' \in AnyWorld /\ world'.dryRun = world.dryRun
        /\ world'.invariants \subseteq world.invariants
    <3> DEFINE kept == {i \in world.invariants : getInvariantFilter(type, objects[i])}
    <3>1. world' = [world EXCEPT !.invariants = kept] /\ kept \subseteq world.invariants
      BY <2>1 DEF clearInvariants
    <3> HIDE DEF kept
    <3>2. QED
      BY <1>2, <3>1 DEF AnyWorld
  <2>3. /\ event' \in AnyEvent /\ event'.failed = event.failed
        /\ event'.valueBefore = event.valueBefore /\ event'.unrecorded = event.unrecorded
    BY <1>1, <2>1 DEF Typed, AnyEvent
  <2>4. ScenarioTypeOK'
    BY <1>1, <2>1, <2>2, <2>3, TypeFacts DEF Typed, PCs
  <2>5. DryJobs' /\ MergesAreNamed'
    BY <2>1, <2>2 DEF IndInv, DryJobs, MergesAreNamed
  <2>6. Marked'
    BY <2>1, <2>3 DEF IndInv, EventSeen, Quiet, Marked
  <2>7. EventSeen' /\ Clean'
    BY <2>1, <2>6 DEF IndInv, EventSeen, Clean
  <2>8. QED
    BY <2>4, <2>5, <2>7 DEF IndInv
<1>8. QED
  BY <1>3, <1>4, <1>5, <1>6, <1>7 DEF Checking

\* The commands that contain another event
LEMMA WrapperKeeps ==
  ASSUME IndInv, From \/ Trx \/ \E value \in Values : Block(value)
  PROVE  IndInv'
<1>1. Typed
  BY TypeFacts DEF IndInv
<1>2. CASE From
  <2>1. /\ pc = "event" /\ event' = [event EXCEPT !.from = TRUE]
        /\ UNCHANGED <<world, before, objects, me, files, chain, jobs, pc, ledger>>
        /\ left > 0 /\ left' = left - 1
    BY <1>2 DEF From, Nests
  <2>2. /\ event' \in AnyEvent /\ event'.failed = event.failed
        /\ event'.valueBefore = event.valueBefore /\ event'.unrecorded = event.unrecorded
    BY <1>1, <2>1 DEF Typed, AnyEvent
  <2>3. ScenarioTypeOK'
    BY <1>1, <2>1, <2>2, TypeFacts DEF Typed
  <2>4. DryJobs' /\ MergesAreNamed' /\ EventSeen' /\ Clean'
    BY <2>1, <2>2 DEF IndInv, DryJobs, MergesAreNamed, EventSeen, Quiet, Clean
  <2>5. QED
    BY <2>3, <2>4 DEF IndInv
<1>3. CASE Trx
  <2>1. /\ pc = "event" /\ world' = [world EXCEPT !.trxInvokationOpts = TRUE]
        /\ UNCHANGED <<before, objects, me, files, chain, jobs, pc, event, ledger>>
        /\ left > 0 /\ left' = left - 1
    BY <1>3 DEF Trx, Nests
  <2>2. /\ world' \in AnyWorld /\ world'.dryRun = world.dryRun
        /\ world'.invariants = world.invariants
    BY <1>1, <2>1 DEF Typed, AnyWorld
  <2>3. ScenarioTypeOK'
    BY <1>1, <2>1, <2>2, TypeFacts DEF Typed
  <2>4. DryJobs' /\ MergesAreNamed' /\ EventSeen' /\ Clean'
    BY <2>1, <2>2 DEF IndInv, DryJobs, MergesAreNamed, EventSeen, Quiet, Clean
  <2>5. QED
    BY <2>3, <2>4 DEF IndInv
<1>4. ASSUME NEW value \in Values, Block(value) PROVE IndInv'
  <2>1. /\ pc = "event" /\ chain' = [chain EXCEPT !.value = value]
        /\ event' = [event EXCEPT !.unrecorded = TRUE]
        /\ UNCHANGED <<world, before, objects, me, files, jobs, pc, ledger>>
        /\ left > 0 /\ left' = left - 1
    BY <1>4 DEF Block, Nests
  <2>2. /\ event' \in AnyEvent /\ event'.failed = event.failed /\ event'.unrecorded
        /\ chain' \in AnyChain
    BY <1>1, <2>1 DEF Typed, AnyEvent, AnyChain
  <2>3. ScenarioTypeOK'
    BY <1>1, <2>1, <2>2, TypeFacts DEF Typed
  <2>4. DryJobs' /\ MergesAreNamed' /\ EventSeen' /\ Clean'
    BY <2>1, <2>2 DEF IndInv, DryJobs, MergesAreNamed, EventSeen, Quiet, Clean
  <2>5. QED
    BY <2>3, <2>4 DEF IndInv
<1>5. QED
  BY <1>2, <1>3, <1>4

\* Jobs as commands make them
LEMMA SavingJob ==
  ASSUME NEW n \in AnyName, NEW a \in AnyAddress, NEW abi \in SUBSET Interfaces,
         NEW outcome \in Outcomes \cup {"none", "unrecorded"}
  PROVE  /\ Saving(n, a, abi, outcome) \in AnyJob
         /\ Saving(n, a, abi, outcome).stage = "read"
         /\ Saving(n, a, abi, outcome).merge = FALSE
         /\ Saving(n, a, abi, outcome).outcome = outcome
BY IdleJob DEF Saving, AnyJob, Stages

LEMMA MergingJob ==
  ASSUME NEW n \in Names, NEW a \in AnyAddress, NEW x \in Names, NEW y \in Names,
         NEW outcome \in Outcomes \cup {"none", "unrecorded"}
  PROVE  /\ Merging(n, a, x, y, outcome) \in AnyJob
         /\ Merging(n, a, x, y, outcome).stage = "read"
         /\ NamedMerge(Merging(n, a, x, y, outcome))
         /\ Merging(n, a, x, y, outcome).outcome = outcome
<1>0. {} \in SUBSET Interfaces /\ n \in AnyName
  BY DEF AnyName
<1>1. /\ Saving(n, a, {}, outcome) \in AnyJob /\ Saving(n, a, {}, outcome).stage = "read"
      /\ Saving(n, a, {}, outcome).outcome = outcome
  BY <1>0, SavingJob, Zenon
<1>2. Saving(n, a, {}, outcome).name = n
  BY DEF Saving, Idle
<1>3. QED
  BY <1>1, <1>2 DEF Merging, AnyJob, AnyName, NamedMerge

\* A merge of two contracts the session knows
LEMMA MergeOfJob ==
  ASSUME Typed, NEW role, NEW proxy \in Names, NEW name \in Names, Known(world, proxy),
         Known(world, name), NEW outcome \in Outcomes \cup {"none", "unrecorded"}
  PROVE  /\ MergeOf(role, proxy, name, outcome) \in AnyJob
         /\ MergeOf(role, proxy, name, outcome).stage = "read"
         /\ NamedMerge(MergeOf(role, proxy, name, outcome))
         /\ MergeOf(role, proxy, name, outcome).outcome = outcome
<1>1. /\ getWorldContract(world, proxy).name \in Names /\ world.contracts[proxy] \in AnyAddress
      /\ getWorldContract(world, name).name \in Names
  BY KnownIsNamed DEF Typed, AnyAddress
<1>2. MergeTarget(role) \in Names
  BY TargetsAreNames DEF MergeTarget
<1>3. QED
  BY <1>1, <1>2, MergingJob DEF MergeOf

\* A name that resolves is one of the network's, unless its role is not tracked.
LEMMA ResolvedIsNamed ==
  ASSUME NEW command, NEW name, Resolves(command, name), ~Untracked(command)
  PROVE  name \in Names /\ Known(world, name) /\ pc = "event"
BY RolesHaveNames DEF Resolves, Untracked

\* Commands that do not touch the files
LEMMA ChainCommandsKeep ==
  ASSUME IndInv, NEW command, NEW name,
         \/ Invoke(command, name) \/ SkipInDryRun(command, name) \/ Read(command, name)
         \/ \E value \in Values : BypassInvoke(command, name, value)
         \/ Alias(command) \/ UseConfigs(command)
  PROVE  IndInv'
<1>1. Typed
  BY TypeFacts DEF IndInv
<1>2. /\ world \in AnyWorld /\ objects \in Seq(AnyObject) /\ files \in Contents
      /\ world.invariants \cup before.invariants \subseteq DOMAIN objects
      /\ jobs \in [Workers -> AnyJob] /\ ledger \in AnyLedger
  BY <1>1 DEF Typed
<1>3. CASE Invoke(command, name)
  <2>1. PICK outcome \in Outcomes, value \in Values :
          Sends(outcome, value) /\ world' = addAction(world, outcome)
    BY <1>3 DEF Invoke
  <2>2. /\ pc = "event" /\ pc' = "check"
        /\ UNCHANGED <<before, objects, me, files, jobs, ledger, left>>
    BY <1>3 DEF Invoke, Resolves
  <2>3. NamedMerge(jobs.background)
    BY DEF IndInv, MergesAreNamed, Workers
  <2>4. QED
    BY <1>2, <2>1, <2>2, <2>3, RecordedKeeps
<1>4. CASE SkipInDryRun(command, name) \/ Read(command, name)
  <2>1. Session(world, objects)
    BY <1>4 DEF SkipInDryRun, Read
  <2>2. QED
    BY <1>2, <2>1, SessionKeeps
<1>5. ASSUME NEW value \in Values, BypassInvoke(command, name, value) PROVE IndInv'
  <2>1. /\ pc = "event" /\ pc' = "check" /\ chain' = [chain EXCEPT !.value = value]
        /\ event' = [event EXCEPT !.unrecorded = TRUE]
        /\ UNCHANGED <<world, before, objects, me, files, jobs, ledger, left>>
    BY <1>5 DEF BypassInvoke, Resolves
  <2>2. /\ event' \in AnyEvent /\ event'.failed = event.failed /\ event'.unrecorded
        /\ chain' \in AnyChain
    BY <1>1, <2>1 DEF Typed, AnyEvent, AnyChain
  <2>3. ScenarioTypeOK'
    BY <1>1, <2>1, <2>2, TypeFacts DEF Typed, PCs
  <2>4. DryJobs' /\ MergesAreNamed' /\ EventSeen' /\ Clean'
    BY <2>1, <2>2 DEF IndInv, DryJobs, MergesAreNamed, EventSeen, Quiet, Marked, Clean
  <2>5. QED
    BY <2>3, <2>4 DEF IndInv
<1>6. CASE Alias(command)
  <2>1. /\ pc = "event" /\ pc' = "check" /\ me' = TRUE
        /\ UNCHANGED <<world, before, objects, files, chain, jobs, event, ledger, left>>
    BY <1>6 DEF Alias, Resolves
  <2>2. ScenarioTypeOK'
    BY <1>1, <2>1, TypeFacts DEF Typed, PCs
  <2>3. DryJobs' /\ MergesAreNamed' /\ EventSeen' /\ Clean'
    BY <2>1 DEF IndInv, DryJobs, MergesAreNamed, EventSeen, Quiet, Marked, Clean
  <2>4. QED
    BY <2>2, <2>3 DEF IndInv
<1>7. CASE UseConfigs(command)
  <2>1. Session(loadContractData(world, files), objects)
    BY <1>7 DEF UseConfigs
  <2>2. /\ loadContractData(world, files) \in AnyWorld
        /\ loadContractData(world, files).dryRun = world.dryRun
        /\ loadContractData(world, files).invariants = world.invariants
    BY <1>2, LoadContractDataFields
  <2>3. QED
    BY <1>2, <2>1, <2>2, SessionKeeps
<1>8. QED
  BY <1>3, <1>4, <1>5, <1>6, <1>7

\* Commands that save a contract
LEMMA SavingCommandsKeep ==
  ASSUME IndInv, NEW command, NEW name,
         SaveOther(command) \/ \E address \in Addresses : Deploy(command, name, address)
  PROVE  IndInv'
<1>1. (Typed /\ Quiet) \/ pc # "event"
  BY TypeFacts DEF IndInv, EventSeen
<1>2. Typed
  BY TypeFacts DEF IndInv
<1>3. /\ world \in AnyWorld /\ chain \in AnyChain /\ event \in AnyEvent
  BY <1>2 DEF Typed
<1>4. CASE SaveOther(command)
  <2>1. PICK outcome \in {"unrecorded", "none", "success"} :
          Await(world, Saving(Other, Nowhere, {}, outcome))
    BY <1>4 DEF SaveOther
  <2>2. pc = "event" /\ UNCHANGED <<chain, event>>
    BY <1>4 DEF SaveOther
  <2>3. Quiet'
    BY <1>1, <2>2 DEF Quiet
  <2>4. /\ Other \in AnyName /\ Nowhere \in AnyAddress
        /\ outcome \in Outcomes \cup {"none", "unrecorded"}
    BY OutcomesInclude DEF AnyName, AnyAddress
  <2>5. QED
    <3> DEFINE job == Saving(Other, Nowhere, {}, outcome)
    <3>1. {} \in SUBSET Interfaces
      OBVIOUS
    <3>2. job \in AnyJob /\ job.stage = "read" /\ job.merge = FALSE
      BY <3>1, <2>4, SavingJob, Zenon
    <3>3. Await(world, job)
      BY <2>1
    <3> HIDE DEF job
    <3>4. NamedMerge(job)
      BY <3>2 DEF NamedMerge
    <3>5. chain' \in AnyChain /\ event' \in AnyEvent
      BY <1>3, <2>2
    <3>6. QED
      BY <1>3, <2>2, <2>3, <3>2, <3>3, <3>4, <3>5, AwaitKeeps
<1>5. ASSUME NEW address \in Addresses, Deploy(command, name, address) PROVE IndInv'
  <2> DEFINE abi == artifacts[command.method]
  <2>1. /\ pc = "event" /\ event' = event
        /\ chain' = IF world.dryRun THEN chain
                    ELSE [chain EXCEPT !.contracts = @ \cup {address}]
        /\ Await(storeContract(world, name, address, abi), Saving(name, address, abi, "none"))
    BY <1>5 DEF Deploy
  <2>2. name \in Names
    BY <1>5, RolesHaveNames DEF Deploy, NamesFor
  <2>3. abi \in SUBSET Interfaces
    BY <1>5, DeployableAreKnown DEF Deploy, Interfaces
  <2> HIDE DEF abi
  <2>4. chain' \in AnyChain /\ chain'.value = chain.value
    BY <1>3, <2>1 DEF AnyChain, AnyAddress
  <2>5. Quiet'
    BY <1>1, <2>1, <2>4 DEF Quiet
  <2>6. /\ storeContract(world, name, address, abi) \in AnyWorld
        /\ storeContract(world, name, address, abi).dryRun = world.dryRun
        /\ storeContract(world, name, address, abi).invariants = world.invariants
    BY <1>3, <2>2, <2>3, StoreContractFields DEF AnyAddress
  <2>7. /\ Saving(name, address, abi, "none") \in AnyJob
        /\ Saving(name, address, abi, "none").stage = "read"
        /\ ~Saving(name, address, abi, "none").merge
    <3>1. /\ name \in AnyName /\ address \in AnyAddress
          /\ "none" \in Outcomes \cup {"none", "unrecorded"}
      BY <2>2 DEF AnyName, AnyAddress
    <3>2. QED
      BY <3>1, <2>3, SavingJob, Zenon
  <2>8. NamedMerge(Saving(name, address, abi, "none"))
    BY <2>7 DEF NamedMerge
  <2>9. QED
    BY <1>3, <2>1, <2>4, <2>5, <2>6, <2>7, <2>8, AwaitKeeps
<1>6. QED
  BY <1>4, <1>5

\* Commands that merge ABIs
LEMMA BecomeKeeps ==
  ASSUME IndInv, NEW command, NEW name, NEW proxy \in Names, Become(command, name, proxy)
  PROVE  IndInv'
<1>1. Typed
  BY TypeFacts DEF IndInv
<1>2. /\ ~Untracked(command) /\ Resolves(command, name) /\ Known(world, proxy)
      /\ world \in AnyWorld /\ jobs \in [Workers -> AnyJob] /\ ledger \in AnyLedger
  BY <1>1 DEF Become, Typed
<1>3. name \in Names /\ Known(world, name) /\ pc = "event"
  BY <1>2, ResolvedIsNamed
<1> DEFINE job(outcome) == Merging("Comptroller", world.contracts[proxy],
                                   getWorldContract(world, proxy).name,
                                   getWorldContract(world, name).name, outcome)
           recorded(outcome) == /\ world' = addAction(world, outcome)
                                /\ pc' = "check"
                                /\ UNCHANGED <<before, objects, me, files, jobs, ledger, left>>
<1>4. PICK outcome \in Outcomes, value \in Values :
        /\ Sends(outcome, value)
        /\ Await(world, job(outcome)) \/ recorded(outcome)
  BY DEF Become
<1>5. CASE recorded(outcome)
  <2>1. NamedMerge(jobs.background)
    BY DEF IndInv, MergesAreNamed, Workers
  <2>2. QED
    BY <1>2, <1>3, <1>4, <1>5, <2>1, RecordedKeeps
<1>6. CASE Await(world, job(outcome))
  <2>1. /\ getWorldContract(world, proxy).name \in Names /\ world.contracts[proxy] \in AnyAddress
        /\ getWorldContract(world, name).name \in Names
    BY <1>2, <1>3, KnownIsNamed DEF AnyAddress
  <2>2. "Comptroller" \in Names /\ outcome \in Outcomes \cup {"none", "unrecorded"}
    BY TargetsAreNames
  <2>3. /\ job(outcome) \in AnyJob /\ job(outcome).stage = "read" /\ NamedMerge(job(outcome))
        /\ job(outcome).outcome = outcome
    <3>1. \A n, x, y \in Names, a \in AnyAddress : 
            LET j == Merging(n, a, x, y, outcome)
            IN  j \in AnyJob /\ j.stage = "read" /\ NamedMerge(j) /\ j.outcome = outcome
      BY <2>2, MergingJob
    <3>2. QED
      BY <2>1, <2>2, <3>1, Zenon
  <2> HIDE DEF job
  <2>4. outcome \notin {"none", "unrecorded"}
    BY OutcomesInclude DEF AllOutcomes
  <2>5. /\ chain' \in AnyChain /\ event' \in AnyEvent /\ (event'.failed => outcome # "success")
    BY <1>3, <1>4, SendsFacts
  <2>6. QED
    BY <1>2, <1>3, <1>6, <2>3, <2>4, <2>5, AwaitKeeps
<1>7. QED
  BY <1>4, <1>5, <1>6

LEMMA MergeABIKeeps ==
  ASSUME IndInv, NEW command, NEW name, NEW proxy \in Names, MergeABI(command, name, proxy)
  PROVE  IndInv'
<1>1. Typed
  BY TypeFacts DEF IndInv
<1>2. /\ ~Untracked(command) /\ Resolves(command, name) /\ Known(world, proxy)
      /\ world \in AnyWorld /\ objects \in Seq(AnyObject) /\ chain \in AnyChain
      /\ event \in AnyEvent /\ world.invariants \cup before.invariants \subseteq DOMAIN objects
      /\ UNCHANGED <<chain, event>>
  BY <1>1 DEF MergeABI, Typed
<1>3. name \in Names /\ Known(world, name) /\ pc = "event"
  BY <1>2, ResolvedIsNamed
<1>4. CASE world.dryRun
  <2>1. Session(world, objects)
    BY <1>2, <1>3, <1>4 DEF MergeABI, Session
  <2>2. QED
    BY <1>2, <2>1, SessionKeeps
<1>5. CASE ~world.dryRun
  <2> DEFINE job == MergeOf(command.on, proxy, name, "unrecorded")
  <2>1. /\ job \in AnyJob /\ job.stage = "read" /\ NamedMerge(job)
    BY <1>1, <1>2, <1>3, MergeOfJob
  <2>2. Await(world, job)
    BY <1>5 DEF MergeABI
  <2>3. Quiet'
    BY <1>2, <1>3 DEF IndInv, EventSeen, Quiet
  <2> HIDE DEF job
  <2>4. QED
    BY <1>2, <1>3, <2>1, <2>2, <2>3, AwaitKeeps
<1>6. QED
  BY <1>4, <1>5

LEMMA SetImplementationKeeps ==
  ASSUME IndInv, NEW command, NEW proxy, NEW name \in Names,
         SetImplementation(command, proxy, name)
  PROVE  IndInv'
<1>1. Typed
  BY TypeFacts DEF IndInv
<1>2. /\ ~Untracked(command) /\ Resolves(command, proxy) /\ Known(world, name)
      /\ jobs \in [Workers -> AnyJob] /\ ledger \in AnyLedger
      /\ pc' = "check" /\ UNCHANGED <<before, objects, me, files, left>>
  BY <1>1 DEF SetImplementation, Typed
<1>3. proxy \in Names /\ Known(world, proxy) /\ pc = "event"
  BY <1>2, ResolvedIsNamed
<1>4. PICK outcome \in Outcomes, value \in Values :
        Sends(outcome, value) /\ world' = addAction(world, outcome)
  BY DEF SetImplementation
<1>5. NamedMerge(jobs.background)
  BY DEF IndInv, MergesAreNamed, Workers
<1> DEFINE job == MergeOf("GovernorBravo", proxy, name, "unrecorded")
<1>6. job \in AnyJob /\ NamedMerge(job)
  BY <1>1, <1>2, <1>3, MergeOfJob
<1>7. \/ world.dryRun /\ UNCHANGED <<jobs, ledger>>
      \/ /\ ~world.dryRun /\ jobs' = [jobs EXCEPT !.background = job]
         /\ ledger' = [ledger EXCEPT !.raced = TRUE]
  BY DEF SetImplementation
<1> HIDE DEF job
<1>8. /\ jobs' \in [Workers -> AnyJob] /\ jobs'.event = jobs.event /\ ledger' \in AnyLedger
      /\ NamedMerge(jobs'.background)
  BY <1>2, <1>5, <1>6, <1>7 DEF Workers, AnyLedger
<1>9. QED
  BY <1>2, <1>3, <1>4, <1>7, <1>8, RecordedKeeps

\* A job that ends, and records the event it was for
LEMMA FinishKeeps ==
  ASSUME IndInv, NEW worker \in Workers, NEW w \in AnyWorld, FinishJob(worker, w),
         w.dryRun = world.dryRun, w.invariants = world.invariants,
         jobs[worker].stage # "idle", files' \in Contents,
         UNCHANGED <<before, objects, me, chain, event, ledger, left>>
  PROVE  IndInv'
<1>1. Typed
  BY TypeFacts DEF IndInv
<1>2. jobs \in [Workers -> AnyJob] /\ world \in AnyWorld
  BY <1>1 DEF Typed
<1>3. /\ jobs' \in [Workers -> AnyJob] /\ jobs'[worker] = Idle
      /\ \A v \in Workers \ {worker} : jobs'[v] = jobs[v]
  BY <1>2, IdleJob DEF FinishJob
<1>4. MergesAreNamed'
  BY <1>3, IdleJob DEF IndInv, MergesAreNamed, NamedMerge
<1>5. CASE worker = "background"
  <2>1. UNCHANGED <<world, pc>> /\ jobs'.event = jobs.event
    BY <1>3, <1>5 DEF FinishJob, Workers
  <2>2. ScenarioTypeOK'
    BY <1>1, <1>3, <2>1, TypeFacts DEF Typed
  <2>3. DryJobs' /\ EventSeen' /\ Clean'
    BY <1>3, <2>1, IdleJob
       DEF IndInv, DryJobs, EventSeen, Clean, Quiet, Marked, MarkComes
  <2>4. QED
    BY <1>4, <2>2, <2>3 DEF IndInv
<1>6. CASE worker = "event"
  <2>1. /\ pc = "saving" /\ pc' = "check" /\ jobs'.event = Idle
        /\ world' = IF jobs.event.outcome = "unrecorded" THEN w
                    ELSE addAction(w, jobs.event.outcome)
    BY <1>1, <1>3, <1>6 DEF FinishJob, Typed
  <2>2. jobs.event.outcome \in Outcomes \cup {"none", "unrecorded"}
    BY <1>2 DEF AnyJob, Workers
  <2>3. /\ world' \in AnyWorld /\ world'.dryRun = world.dryRun
        /\ world'.invariants = world.invariants
        /\ jobs.event.outcome # "unrecorded" =>
             world'.newInvokation /\ world'.lastInvokation = jobs.event.outcome
    BY <2>1, <2>2, AddActionFields
  <2>4. ScenarioTypeOK'
    BY <1>1, <1>3, <2>1, <2>3, IdleJob, TypeFacts DEF Typed, PCs
  <2>5. DryJobs'
    BY <1>3, <2>3, IdleJob DEF IndInv, DryJobs
  <2>7. Marked'
    BY <2>1, <2>3 DEF IndInv, EventSeen, Quiet, MarkComes, Marked
  <2>8. EventSeen' /\ Clean'
    BY <2>1, <2>7 DEF IndInv, EventSeen, Clean
  <2>9. QED
    BY <1>4, <2>4, <2>5, <2>8 DEF IndInv
<1>7. QED
  BY <1>5, <1>6 DEF Workers

\* A job that goes from one stage to the next
LEMMA AdvanceKeeps ==
  ASSUME IndInv, NEW worker \in Workers, NEW job \in AnyJob,
         jobs[worker].stage # "idle", job.stage # "idle",
         jobs' = [jobs EXCEPT ![worker] = job],
         job.merge = jobs[worker].merge, job.a = jobs[worker].a, job.b = jobs[worker].b,
         job.name = jobs[worker].name, job.outcome = jobs[worker].outcome,
         world.dryRun => job.stage \notin {"writeNetworks", "writeABI"},
         world' \in AnyWorld, world'.dryRun = world.dryRun,
         world'.invariants = world.invariants, worker = "background" => world' = world,
         files' \in Contents, ledger' \in AnyLedger,
         UNCHANGED <<before, objects, me, chain, pc, event, left>>
  PROVE  IndInv'
<1>1. Typed
  BY TypeFacts DEF IndInv
<1>2. jobs \in [Workers -> AnyJob]
  BY <1>1 DEF Typed
<1>3. /\ jobs' \in [Workers -> AnyJob] /\ jobs'[worker] = job
      /\ \A v \in Workers \ {worker} : jobs'[v] = jobs[v]
  BY <1>2
<1>4. DryJobs' /\ MergesAreNamed'
  BY <1>3 DEF IndInv, DryJobs, MergesAreNamed, NamedMerge
<1>5. CASE worker = "background"
  <2>1. jobs'.event = jobs.event
    BY <1>3, <1>5 DEF Workers
  <2>2. ScenarioTypeOK'
    BY <1>1, <1>3, <1>5, <2>1, TypeFacts DEF Typed
  <2>3. EventSeen' /\ Clean'
    BY <1>5, <2>1 DEF IndInv, EventSeen, Clean, Quiet, Marked, MarkComes
  <2>4. QED
    BY <1>4, <2>2, <2>3 DEF IndInv
<1>6. CASE worker = "event"
  <2>1. /\ pc = "saving" /\ jobs'.event = job
    BY <1>1, <1>3, <1>6 DEF Typed
  <2>2. ScenarioTypeOK'
    BY <1>1, <1>3, <2>1, TypeFacts DEF Typed, PCs
  <2>3. EventSeen' /\ Clean'
    BY <1>6, <2>1 DEF IndInv, EventSeen, Clean, Quiet, MarkComes
  <2>4. QED
    BY <1>4, <2>2, <2>3 DEF IndInv
<1>7. QED
  BY <1>5, <1>6 DEF Workers

\* What a save makes of the files
LEMMA ChangedFiles ==
  ASSUME NEW job \in AnyJob, NamedMerge(job), NEW f \in Contents
  PROVE  Changed(job, f) \in Contents
<1>1. /\ f.networks \in [Names -> AnyAddress] /\ f.abi \in [Names -> SUBSET Interfaces]
      /\ job.address \in AnyAddress /\ job.abi \in SUBSET Interfaces
  BY DEF Contents, AnyJob
<1>2. ASSUME NEW n \in Names, NEW abi \in SUBSET Interfaces
      PROVE  saveContract(f, n, job.address, abi) \in Contents
  BY <1>1, <1>2 DEF saveContract, Contents
<1>3. CASE job.merge
  <2>1. f.abi[job.a] \cup f.abi[job.b] \in SUBSET Interfaces /\ job.name \in Names
    BY <1>1, <1>3 DEF NamedMerge
  <2>2. Changed(job, f) = saveContract(f, job.name, job.address, f.abi[job.a] \cup f.abi[job.b])
    BY <1>3 DEF Changed, mergeContractABI
  <2>3. QED
    BY <1>2, <2>1, <2>2
<1>4. CASE ~job.merge
  BY <1>1, <1>2, <1>4 DEF Changed
<1>5. QED
  BY <1>3, <1>4

\* Every job on the files
LEMMA JobsKeep ==
  ASSUME IndInv, Jobs
  PROVE  IndInv'
<1>1. Typed
  BY TypeFacts DEF IndInv
<1>2. /\ jobs \in [Workers -> AnyJob] /\ world \in AnyWorld /\ files \in Contents
      /\ ledger \in AnyLedger /\ objects \in Seq(AnyObject)
      /\ files.networks \in [Names -> AnyAddress] /\ files.abi \in [Names -> SUBSET Interfaces]
  BY <1>1 DEF Typed, Contents
<1>3. PICK worker \in Workers : \/ ReadNetworks(worker) \/ ReadABI(worker)
                               \/ WriteNetworks(worker) \/ WriteABI(worker)
                               \/ FileFails(worker)
  BY DEF Jobs
<1> DEFINE job == jobs[worker]
<1>4. /\ job \in AnyJob /\ NamedMerge(job) /\ job.files \in Contents
      /\ job.files.networks \in [Names -> AnyAddress]
      /\ job.files.abi \in [Names -> SUBSET Interfaces]
      /\ job.name \in AnyName /\ job.address \in AnyAddress
      /\ world.dryRun => job.stage \notin {"writeNetworks", "writeABI"}
  BY <1>2 DEF AnyJob, Contents, IndInv, MergesAreNamed, DryJobs
<1>5. CASE ReadNetworks(worker)
  <2> DEFINE next == [job EXCEPT !.files.networks = files.networks, !.stage = "readABI"]
  <2>1. /\ job.stage = "read" /\ jobs' = [jobs EXCEPT ![worker] = next]
        /\ UNCHANGED <<world, before, objects, me, files, chain, pc, event, ledger, left>>
    BY <1>2, <1>5 DEF ReadNetworks
  <2>2. [job.files EXCEPT !.networks = files.networks] \in Contents
    BY <1>2, <1>4 DEF Contents
  <2>3. /\ next \in AnyJob /\ next.stage = "readABI"
        /\ next.merge = job.merge /\ next.a = job.a /\ next.b = job.b
        /\ next.name = job.name /\ next.outcome = job.outcome
    BY <1>4, <2>2 DEF AnyJob, Stages
  <2> HIDE DEF next
  <2>4. QED
    BY <1>2, <2>1, <2>3, AdvanceKeeps
<1>6. CASE ReadABI(worker)
  <2> DEFINE read == [networks |-> job.files.networks, abi |-> files.abi]
             abi == read.abi[job.a] \cup read.abi[job.b]
             merged == IF job.merge /\ worker = "event"
                       THEN storeContract(world, job.name, job.address, abi) ELSE world
             next == [job EXCEPT !.files = Changed(job, read), !.stage = "writeNetworks"]
  <2>1. read \in Contents
    BY <1>2, <1>4 DEF Contents
  <2>2. Changed(job, read) \in Contents
    BY <1>4, <2>1, ChangedFiles
  <2>3. job.merge => abi \in SUBSET Interfaces
    BY <1>2, <1>4 DEF NamedMerge
  <2>4. /\ job.stage = "readABI" /\ UNCHANGED <<objects, chain>>
        /\ \/ /\ job.merge /\ worker = "event" /\ Thrown
           \/ /\ worker # "event" /\ jobs' = [jobs EXCEPT !.background = Idle]
              /\ UNCHANGED <<world, before, me, files, pc, event, ledger, left>>
           \/ /\ world.dryRun /\ FinishJob(worker, merged)
              /\ UNCHANGED <<before, me, files, event, ledger, left>>
           \/ /\ ~world.dryRun
              /\ jobs' = [jobs EXCEPT ![worker].files = Changed(job, read),
                                      ![worker].stage = "writeNetworks"]
              /\ world' = merged
              /\ UNCHANGED <<pc, before, me, files, event, ledger, left>>
    BY <1>6 DEF ReadABI
  <2> HIDE DEF abi
  <2>5. /\ merged \in AnyWorld /\ merged.dryRun = world.dryRun
        /\ merged.invariants = world.invariants
    BY <1>2, <1>4, <2>3, StoreContractFields DEF NamedMerge
  <2>6. /\ next \in AnyJob /\ next.stage = "writeNetworks"
        /\ next.merge = job.merge /\ next.a = job.a /\ next.b = job.b
        /\ next.name = job.name /\ next.outcome = job.outcome
    BY <1>4, <2>2 DEF AnyJob, Stages
  <2>7. CASE Thrown
    BY <1>2, <2>4, <2>7, ThrownKeeps
  <2>8. CASE /\ worker # "event" /\ jobs' = [jobs EXCEPT !.background = Idle]
             /\ UNCHANGED <<world, before, me, files, pc, event, ledger, left>>
    <3>1. FinishJob(worker, world)
      BY <2>8 DEF FinishJob, Workers
    <3>2. QED
      BY <1>2, <2>4, <2>8, <3>1, FinishKeeps
  <2>9. CASE /\ FinishJob(worker, merged)
             /\ UNCHANGED <<before, me, files, event, ledger, left>>
    BY <1>2, <2>4, <2>5, <2>9, FinishKeeps
  <2>10. CASE /\ ~world.dryRun
              /\ jobs' = [jobs EXCEPT ![worker].files = Changed(job, read),
                                      ![worker].stage = "writeNetworks"]
              /\ world' = merged
              /\ UNCHANGED <<pc, before, me, files, event, ledger, left>>
    <3>1. jobs' = [jobs EXCEPT ![worker] = next]
      BY <1>2, <2>10
    <3>2. worker = "background" => world' = world
      BY <2>10
    <3> HIDE DEF next, merged
    <3>3. QED
      BY <1>2, <2>4, <2>5, <2>6, <2>10, <3>1, <3>2, AdvanceKeeps
  <2>11. QED
    BY <2>4, <2>7, <2>8, <2>9, <2>10
<1>7. CASE WriteNetworks(worker)
  <2> DEFINE next == [job EXCEPT !.stage = "writeABI"]
  <2>1. /\ job.stage = "writeNetworks" /\ jobs' = [jobs EXCEPT ![worker] = next]
        /\ files' = [files EXCEPT !.networks = job.files.networks]
        /\ ledger' = (IF worker = "event"
                      THEN [ledger EXCEPT !.saved = @ \cup {jobs.event.name}] ELSE ledger)
        /\ UNCHANGED <<world, before, objects, me, chain, pc, event, left>>
    BY <1>2, <1>7 DEF WriteNetworks
  <2>2. files' \in Contents
    BY <1>2, <1>4, <2>1 DEF Contents
  <2>3. ledger' \in AnyLedger
    BY <1>2, <1>4, <2>1 DEF AnyLedger
  <2>4. /\ next \in AnyJob /\ next.stage = "writeABI"
        /\ next.merge = job.merge /\ next.a = job.a /\ next.b = job.b
        /\ next.name = job.name /\ next.outcome = job.outcome
    BY <1>4 DEF AnyJob, Stages
  <2> HIDE DEF next
  <2>5. ~world.dryRun
    BY <1>4, <2>1
  <2>6. QED
    BY <1>2, <2>1, <2>2, <2>3, <2>4, <2>5, AdvanceKeeps
<1>8. CASE WriteABI(worker)
  <2>1. /\ job.stage = "writeABI" /\ files' = [files EXCEPT !.abi = job.files.abi]
        /\ FinishJob(worker, world)
        /\ UNCHANGED <<before, objects, me, chain, event, ledger, left>>
    BY <1>8 DEF WriteABI
  <2>2. files' \in Contents
    BY <1>2, <1>4, <2>1 DEF Contents
  <2>3. QED
    BY <1>2, <2>1, <2>2, FinishKeeps
<1>9. CASE FileFails(worker)
  <2>1. CASE Thrown
    BY <1>2, <1>9, <2>1, ThrownKeeps DEF FileFails
  <2>2. CASE /\ worker = "background" /\ jobs' = [jobs EXCEPT !.background = Idle]
             /\ UNCHANGED <<world, before, me, files, pc, event, ledger, left>>
    <3>1. FinishJob(worker, world)
      BY <2>2 DEF FinishJob
    <3>2. job.stage # "idle" /\ UNCHANGED <<objects, chain>>
      BY <1>9 DEF FileFails
    <3>3. QED
      BY <1>2, <2>2, <3>1, <3>2, FinishKeeps
  <2>3. QED
    BY <1>9, <2>1, <2>2 DEF FileFails
<1>10. QED
  BY <1>3, <1>5, <1>6, <1>7, <1>8, <1>9

\* Every command of the tables
LEMMA RunningKeeps ==
  ASSUME IndInv, Running
  PROVE  IndInv'
<1>1. PICK command \in Commands :
        \/ Alias(command) \/ UseConfigs(command) \/ SaveOther(command)
        \/ \E name \in NamesFor(command) :
              \/ Invoke(command, name) \/ SkipInDryRun(command, name) \/ Read(command, name)
              \/ \E value \in Values : BypassInvoke(command, name, value)
              \/ \E address \in Addresses : Deploy(command, name, address)
              \/ \E other \in Names : \/ Become(command, name, other)
                                    \/ MergeABI(command, name, other)
                                    \/ SetImplementation(command, name, other)
  BY DEF Running
<1>2. QED
  BY <1>1, ChainCommandsKeep, SavingCommandsKeep, BecomeKeeps, MergeABIKeeps,
     SetImplementationKeeps

LEMMA StepKeeps ==
  ASSUME IndInv, [ScenarioNext]_scenarioVars
  PROVE  IndInv'
<1>1. CASE ScenarioNext
  BY <1>1, LoopKeeps, CheckEventKeeps, WrapperKeeps, CheckingKeeps, RunningKeeps, JobsKeep
     DEF ScenarioNext
<1>2. CASE UNCHANGED scenarioVars
  <2>1. ScenarioTypeOK'
    BY <1>2, TypeFacts DEF scenarioVars, IndInv, Typed
  <2>2. QED
    BY <1>2, <2>1 DEF scenarioVars, IndInv, DryJobs, MergesAreNamed, EventSeen, Quiet, Marked,
                      MarkComes, Clean
<1>3. QED
  BY <1>1, <1>2

LEMMA InitKeeps ==
  ASSUME ScenarioInit
  PROVE  IndInv
<1>1. files \in Contents /\ StartsDry \in BOOLEAN /\ HasAccount \in BOOLEAN
  BY InitialFilesAreContents, FlagsAreBoolean DEF ScenarioInit
<1>2. /\ world \in AnyWorld /\ world.invariants = {1} /\ CleanWorld(world) /\ before = world
  BY <1>1, LoadedFields DEF ScenarioInit
<1>3. successInvariant \in AnyObject
  BY ZeroIsAValue DEF successInvariant, AnyObject, InvariantTypes
<1>4. objects \in Seq(AnyObject) /\ DOMAIN objects = {1}
  <2>1. objects = <<successInvariant>>
    BY DEF ScenarioInit
  <2>2. QED
    BY <1>3, <2>1
<1>5. jobs \in [Workers -> AnyJob] /\ \A w \in Workers : jobs[w] = Idle
  BY IdleJob DEF ScenarioInit
<1>6. event \in AnyEvent /\ ledger \in AnyLedger /\ chain \in AnyChain
  BY ZeroIsAValue DEF ScenarioInit, NoEvent, NothingSaved, AnyEvent, AnyLedger, AnyChain,
                      AnyAddress
<1>7. "event" \in Workers /\ pc = "prompt" /\ me \in BOOLEAN /\ left \in Nat
  BY <1>1, BoundsAreNaturals DEF Workers, ScenarioInit
<1>8. ScenarioTypeOK
  BY <1>1, <1>2, <1>4, <1>5, <1>6, <1>7, IdleJob, TypeFacts DEF Typed, PCs
<1>9. DryJobs /\ MergesAreNamed
  BY <1>5, IdleJob DEF DryJobs, MergesAreNamed, NamedMerge
<1>10. EventSeen /\ Clean
  BY <1>2, <1>5, <1>7 DEF EventSeen, Clean
<1>11. QED
  BY <1>8, <1>9, <1>10 DEF IndInv

\* The inductive invariant holds in every session.
THEOREM SessionInvariance == ScenarioSpec => []IndInv
<1>1. ScenarioInit => IndInv
  BY InitKeeps
<1>2. IndInv /\ [ScenarioNext]_scenarioVars => IndInv'
  BY StepKeeps
<1>3. QED
  BY <1>1, <1>2, PTL DEF ScenarioSpec

\* The session's variables have their types, whatever the commands are, and an
\* event waits for the files exactly while its job is under way.
THEOREM SessionTypeCorrect == ScenarioSpec => []ScenarioTypeOK
<1>1. IndInv => ScenarioTypeOK
  BY DEF IndInv
<1>2. QED
  BY <1>1, SessionInvariance, PTL

\* After an event nothing of it is left for the next one.
THEOREM EventsStaySelfContained == ScenarioSpec => []EventsAreSelfContained
<1>1. IndInv => EventsAreSelfContained
  BY DEF IndInv, Clean, CleanWorld, EventsAreSelfContained
<1>2. QED
  BY <1>1, SessionInvariance, PTL

\* No failed transaction and no recorded change slips past the invariants in force.
THEOREM BreaksAreHeard == ScenarioSpec => NoSilentBreak
<1> DEFINE Heard ==
      pc = "check" /\ pc' = "next" =>
        \A i \in world.invariants : ~objects[i].held =>
            /\ objects[i].kind = "success" => ~event.failed
            /\ objects[i].kind # "success" /\ objects[i].value = event.valueBefore =>
                    chain.value = event.valueBefore \/ event.unrecorded
<1>1. ASSUME IndInv, [ScenarioNext]_scenarioVars PROVE Heard
  <2> SUFFICES ASSUME pc = "check", pc' = "next", NEW i \in world.invariants, ~objects[i].held
               PROVE  /\ objects[i].kind = "success" => ~event.failed
                      /\ objects[i].kind # "success" /\ objects[i].value = event.valueBefore =>
                            chain.value = event.valueBefore \/ event.unrecorded
    OBVIOUS
  <2>1. CheckEvent \/ Jobs \/ \E dryRun \in DryRuns : Restart(dryRun)
    <3>1. ScenarioNext
      BY <1>1 DEF scenarioVars
    <3>2. ~(From \/ Trx \/ \E value \in Values : Block(value))
      BY DEF From, Trx, Block
    <3>3. ~(StartEvent \/ Throw \/ EndCommand)
      BY DEF StartEvent, Throw, EndCommand
    <3>4. ~Checking
      BY DEF Checking, InvariantStatic, InvariantSuccess, InvariantRemains, SkipGated,
             AssertOutcome, ExpectChanges, ExpectRemains, HoldInvariants, ClearInvariants,
             NewInvariant, Session
    <3>5. ~Running
      BY DEF Running
    <3>6. QED
      BY <3>1, <3>2, <3>3, <3>4, <3>5 DEF ScenarioNext
  <2>2. ~Jobs
    BY DEF Jobs, ReadNetworks, ReadABI, WriteNetworks, WriteABI, FileFails, FinishJob, Thrown
  <2>3. checkInvariants(world, objects, chain.value)
    BY <2>1, <2>2 DEF CheckEvent, Thrown, Restart
  <2>4. world.newInvokation => Holds(world, objects[i], chain.value)
    BY <2>3 DEF checkInvariants
  <2>5. Marked
    BY <1>1 DEF IndInv, EventSeen
  <2>6. QED
    BY <2>4, <2>5 DEF Holds, Marked
<1>2. QED
  BY <1>1, SessionInvariance, PTL DEF ScenarioSpec, NoSilentBreak

\* Which steps change the expectations, one part of the next-state relation at a time
LEMMA ExpectationsOfJobs ==
  ASSUME IndInv, Jobs
  PROVE  \/ world'.expectations = world.expectations
         \/ world' = before /\ pc' = "prompt"
<1>1. Typed
  BY TypeFacts DEF IndInv
<1>2. PICK worker \in Workers : \/ ReadNetworks(worker) \/ ReadABI(worker)
                               \/ WriteNetworks(worker) \/ WriteABI(worker)
                               \/ FileFails(worker)
  BY DEF Jobs
<1> DEFINE job == jobs[worker]
<1>3. world \in AnyWorld /\ job \in AnyJob /\ NamedMerge(job) /\ files \in Contents
  BY <1>1 DEF Typed, IndInv, MergesAreNamed
<1>4. jobs.event.outcome \in Outcomes \cup {"none", "unrecorded"}
  BY <1>1 DEF Typed, AnyJob, Workers
<1>5. ASSUME NEW w \in AnyWorld, w.expectations = world.expectations, FinishJob(worker, w)
      PROVE  world'.expectations = world.expectations
  BY <1>4, <1>5, AddActionFields DEF FinishJob
<1>6. CASE ReadNetworks(worker) \/ WriteNetworks(worker)
  BY <1>6 DEF ReadNetworks, WriteNetworks
<1>7. CASE WriteABI(worker)
  <2>1. FinishJob(worker, world)
    BY <1>7 DEF WriteABI
  <2>2. QED
    BY <1>3, <1>5, <2>1
<1>8. CASE ReadABI(worker)
  <2> DEFINE read == [networks |-> job.files.networks, abi |-> files.abi]
             abi == read.abi[job.a] \cup read.abi[job.b]
             merged == IF job.merge /\ worker = "event"
                       THEN storeContract(world, job.name, job.address, abi) ELSE world
  <2>1. job.merge => abi \in SUBSET Interfaces
    BY <1>3 DEF NamedMerge, Contents
  <2>2. \/ Thrown \/ world' = world \/ FinishJob(worker, merged) \/ world' = merged
    BY <1>8 DEF ReadABI
  <2> HIDE DEF abi
  <2>3. job.address \in AnyAddress
    BY <1>3 DEF AnyJob
  <2>4. merged \in AnyWorld /\ merged.expectations = world.expectations
    BY <1>3, <2>1, <2>3, StoreContractFields DEF NamedMerge
  <2> HIDE DEF merged
  <2>5. QED
    BY <1>5, <2>2, <2>4 DEF Thrown
<1>9. CASE FileFails(worker)
  BY <1>9 DEF FileFails, Thrown
<1>10. QED
  BY <1>2, <1>6, <1>7, <1>8, <1>9

LEMMA ExpectationsOfCommands ==
  ASSUME IndInv, Checking \/ Running \/ From \/ Trx \/ \E value \in Values : Block(value)
  PROVE  world.expectations \subseteq world'.expectations
<1>1. Typed
  BY TypeFacts DEF IndInv
<1>2. world \in AnyWorld /\ files \in Contents
  BY <1>1 DEF Typed
<1>3. CASE From \/ Trx \/ \E value \in Values : Block(value)
  BY <1>2, <1>3 DEF From, Trx, Block, AnyWorld
<1>4. CASE Checking
  <2>1. ASSUME NEW value \in Values, ExpectChanges(value) \/ ExpectRemains(value)
        PROVE  world.expectations \subseteq world'.expectations
    BY <1>2, <2>1 DEF ExpectChanges, ExpectRemains, Session, addExpectation, AnyWorld
  <2>2. ASSUME NEW type \in InvariantTypes, HoldInvariants(type) \/ ClearInvariants(type)
        PROVE  world'.expectations = world.expectations
    BY <1>2, <2>2 DEF HoldInvariants, ClearInvariants, Session, clearInvariants, AnyWorld
  <2>3. ASSUME \/ InvariantStatic \/ InvariantSuccess \/ SkipGated
               \/ \E value \in Values : InvariantRemains(value)
               \/ \E accepted \in assertionCommands : AssertOutcome(accepted)
        PROVE  world'.expectations = world.expectations
    BY <1>2, <2>3 DEF InvariantStatic, InvariantSuccess, InvariantRemains, SkipGated,
       AssertOutcome, NewInvariant, Session, addInvariant, AnyWorld
  <2>4. QED
    BY <1>4, <2>1, <2>2, <2>3 DEF Checking
<1>5. CASE Running
  <2>1. PICK command \in Commands :
          \/ Alias(command) \/ UseConfigs(command) \/ SaveOther(command)
          \/ \E name \in NamesFor(command) :
                \/ Invoke(command, name) \/ SkipInDryRun(command, name) \/ Read(command, name)
                \/ \E value \in Values : BypassInvoke(command, name, value)
                \/ \E address \in Addresses : Deploy(command, name, address)
                \/ \E other \in Names : \/ Become(command, name, other)
                                      \/ MergeABI(command, name, other)
                                      \/ SetImplementation(command, name, other)
    BY <1>5 DEF Running
  <2>2. CASE \/ Alias(command) \/ SaveOther(command)
             \/ \E name \in NamesFor(command) :
                   \/ SkipInDryRun(command, name) \/ Read(command, name)
                   \/ \E value \in Values : BypassInvoke(command, name, value)
                   \/ \E other \in Names : MergeABI(command, name, other)
    BY <2>2 DEF Alias, SaveOther, SkipInDryRun, Read, BypassInvoke, MergeABI, Session, Await
  <2>3. CASE UseConfigs(command)
    BY <1>2, <2>3, LoadContractDataFields DEF UseConfigs, Session
  <2>4. ASSUME NEW name \in NamesFor(command), NEW address \in Addresses,
               Deploy(command, name, address)
        PROVE  world'.expectations = world.expectations
    <3>1. world' = storeContract(world, name, address, artifacts[command.method])
      BY <2>4 DEF Deploy, Await
    <3>2. QED
      BY <1>2, <3>1 DEF storeContract, AnyWorld
  <2>5. ASSUME NEW name \in NamesFor(command), NEW other \in Names,
               \/ Invoke(command, name) \/ Become(command, name, other)
               \/ SetImplementation(command, name, other)
        PROVE  world'.expectations = world.expectations
    <3>1. world' = world \/ \E outcome \in Outcomes : world' = addAction(world, outcome)
      BY <2>5 DEF Invoke, Become, SetImplementation, Await
    <3>2. QED
      BY <1>2, <3>1, AddActionFields
  <2>6. ASSUME NEW name \in NamesFor(command), Invoke(command, name)
        PROVE  world'.expectations = world.expectations
    <3>1. \E outcome \in Outcomes : world' = addAction(world, outcome)
      BY <2>6 DEF Invoke
    <3>2. QED
      BY <1>2, <3>1, AddActionFields
  <2>7. QED
    BY <2>1, <2>2, <2>3, <2>4, <2>5, <2>6
<1>6. QED
  BY <1>3, <1>4, <1>5

\* An expectation leaves the session judged, or with the command that made it.
THEOREM ExpectationsStayUntilJudged == ScenarioSpec => ExpectationsAreJudged
<1> DEFINE Judged ==
      \A expected \in world.expectations \ world'.expectations :
        \/ pc = "check" /\ pc' = "next" /\ world.newInvokation /\ chain.value = expected
        \/ pc' = "prompt" /\ expected \notin before.expectations
        \/ \E dryRun \in DryRuns : Restart(dryRun)
<1>1. ASSUME IndInv, [ScenarioNext]_scenarioVars PROVE Judged
  <2> SUFFICES ASSUME NEW expected \in world.expectations, expected \notin world'.expectations,
                      ~(\E dryRun \in DryRuns : Restart(dryRun))
               PROVE  \/ /\ pc = "check" /\ pc' = "next" /\ world.newInvokation
                         /\ chain.value = expected
                      \/ pc' = "prompt" /\ expected \notin before.expectations
    OBVIOUS
  <2>1. Typed
    BY <1>1, TypeFacts DEF IndInv
  <2>2. world \in AnyWorld
    BY <2>1 DEF Typed
  <2>3. ~(Checking \/ Running \/ From \/ Trx \/ \E value \in Values : Block(value))
    BY <1>1, ExpectationsOfCommands
  <2>4. ~(StartEvent \/ EndCommand) /\ ~UNCHANGED scenarioVars
    BY DEF StartEvent, EndCommand, scenarioVars
  <2>5. CASE Jobs
    BY <1>1, <2>5, ExpectationsOfJobs
  <2>6. CASE Thrown
    BY <2>6 DEF Thrown
  <2>7. CASE CheckEvent /\ ~Thrown
    <3>1. /\ pc = "check" /\ pc' = "next" /\ world' = endEvent(world)
          /\ checkExpectations(world, chain.value)
      BY <2>7 DEF CheckEvent
    <3>2. world.newInvokation
      BY <2>2, <3>1, EndEventFields
    <3>3. chain.value = expected
      BY <3>1, <3>2 DEF checkExpectations
    <3>4. QED
      BY <3>1, <3>2, <3>3
  <2>8. QED
    BY <1>1, <2>3, <2>4, <2>5, <2>6, <2>7 DEF ScenarioNext, Throw
<1>2. QED
  BY <1>1, SessionInvariance, PTL DEF ScenarioSpec, ExpectationsAreJudged

\* A dry run writes neither of the network's two files, and changes the chain only
\* past `invoke`.
THEOREM DryRunsLeaveNoTrace == ScenarioSpec => DryRunLeavesNoTrace
<1> DEFINE NoTrace == world.dryRun => files' = files /\ (chain' = chain \/ event'.unrecorded)
<1>1. ASSUME IndInv, [ScenarioNext]_scenarioVars PROVE NoTrace
  <2> SUFFICES ASSUME world.dryRun
               PROVE  files' = files /\ (chain' = chain \/ event'.unrecorded)
    OBVIOUS
  <2>1. Typed
    BY <1>1, TypeFacts DEF IndInv
  <2>2. event \in AnyEvent /\ chain \in AnyChain
    BY <2>1 DEF Typed
  <2>3. CASE UNCHANGED scenarioVars
    BY <2>3 DEF scenarioVars
  <2>4. CASE StartEvent \/ EndCommand \/ Throw \/ CheckEvent
             \/ \E dryRun \in DryRuns : Restart(dryRun)
    BY <2>4 DEF StartEvent, EndCommand, Throw, CheckEvent, Restart, Thrown
  <2>5. CASE From \/ Trx \/ Checking
    BY <2>5 DEF From, Trx, Checking, InvariantStatic, InvariantSuccess, InvariantRemains,
       SkipGated, AssertOutcome, ExpectChanges, ExpectRemains, HoldInvariants,
       ClearInvariants, NewInvariant, Session
  <2>6. CASE \E value \in Values : Block(value)
    BY <2>2, <2>6 DEF Block, AnyEvent
  <2>7. CASE Jobs
    <3>1. \A w \in Workers : jobs[w].stage \notin {"writeNetworks", "writeABI"}
      BY <1>1 DEF IndInv, DryJobs
    <3>2. PICK worker \in Workers : ReadNetworks(worker) \/ ReadABI(worker) \/ FileFails(worker)
      BY <2>7, <3>1 DEF Jobs, WriteNetworks, WriteABI
    <3>3. QED
      BY <3>2 DEF ReadNetworks, ReadABI, FileFails, Thrown
  <2>8. CASE Running
    <3>1. PICK command \in Commands :
          \/ Alias(command) \/ UseConfigs(command) \/ SaveOther(command)
          \/ \E name \in NamesFor(command) :
                \/ Invoke(command, name) \/ SkipInDryRun(command, name) \/ Read(command, name)
                \/ \E value \in Values : BypassInvoke(command, name, value)
                \/ \E address \in Addresses : Deploy(command, name, address)
                \/ \E other \in Names : \/ Become(command, name, other)
                                      \/ MergeABI(command, name, other)
                                      \/ SetImplementation(command, name, other)
      BY <2>8 DEF Running
    <3>2. files' = files
      BY <3>1 DEF Alias, UseConfigs, SaveOther, Invoke, SkipInDryRun, Read, BypassInvoke,
         Deploy, Become, MergeABI, SetImplementation, Session, Await
    <3>3. ASSUME NEW name \in NamesFor(command), NEW value \in Values,
                 BypassInvoke(command, name, value)
          PROVE  event'.unrecorded
      BY <2>2, <3>3 DEF BypassInvoke, AnyEvent
    <3>4. pc = "event"
      BY <2>8 DEF Running
    <3>5. ASSUME NEW outcome \in Outcomes, NEW value \in Values, Sends(outcome, value)
          PROVE  chain' = chain
      BY <1>1, <3>4, <3>5, SendsFacts
    <3>6. ASSUME NEW name \in NamesFor(command), NEW other \in Names,
                 \/ Invoke(command, name) \/ Become(command, name, other)
                 \/ SetImplementation(command, name, other)
          PROVE  chain' = chain
      BY <3>5, <3>6 DEF Invoke, Become, SetImplementation
    <3>7. ASSUME NEW name \in NamesFor(command), Invoke(command, name)
          PROVE  chain' = chain
      BY <3>5, <3>7 DEF Invoke
    <3>8. CASE Alias(command) \/ UseConfigs(command) \/ SaveOther(command)
      BY <3>2, <3>8 DEF Alias, UseConfigs, SaveOther, Session
    <3>9. ASSUME NEW name \in NamesFor(command),
                 \/ SkipInDryRun(command, name) \/ Read(command, name)
                 \/ \E address \in Addresses : Deploy(command, name, address)
                 \/ \E other \in Names : MergeABI(command, name, other)
          PROVE  chain' = chain
      BY <3>9 DEF SkipInDryRun, Read, MergeABI, Deploy, Session
    <3>10. QED
      BY <3>1, <3>2, <3>3, <3>6, <3>7, <3>8, <3>9
  <2>9. QED
    BY <1>1, <2>3, <2>4, <2>5, <2>6, <2>7, <2>8 DEF ScenarioNext
<1>2. QED
  BY <1>1, SessionInvariance, PTL DEF ScenarioSpec, DryRunLeavesNoTrace

-----------------------------------------------------------------------------
(* The session and the files. *)

\* The session, or the world to return to, has of a name what is on file.
OnFile(w, n) ==
  /\ files.networks[n] = w.contracts[n]
  /\ getWorldContract(w, n).name = n => getWorldContract(w, n).abi \subseteq files.abi[n]

\* The name whose contract an event is saving
InWork == IF jobs.event.stage = "idle" THEN {} ELSE {jobs.event.name}

\* Both worlds have what is on file, but for names that failed commands saved,
\* unless the command at work saved them again.
SessionOnFile == \A n \in Names \ ((ledger.doubtful \ ledger.saved) \cup InWork) : OnFile(world, n)
ReturnOnFile == \A n \in Names \ (ledger.doubtful \cup ledger.saved) : OnFile(before, n)

\* What the session has of the name in work is what the job is going to write.
Stored(job) == job.name \in Names /\ (job.merge => job.stage \in {"writeNetworks", "writeABI"})
Promised(job) ==
  /\ world.contracts[job.name] = job.address
  /\ getWorldContract(world, job.name).name = job.name =>
        getWorldContract(world, job.name).abi \subseteq
            IF job.stage \in {"read", "readABI"} THEN job.abi ELSE job.files.abi[job.name]

\* A job changes its own name in the files that it has read, and no other.
OnlyItsName(job) ==
  /\ job.stage = "readABI" => \A n \in Names : job.files.networks[n] = files.networks[n]
  /\ job.stage = "writeNetworks" =>
        \A n \in Names : job.files.networks[n] = IF n = job.name THEN job.address
                                                 ELSE files.networks[n]
  /\ job.stage = "writeABI" => (job.name \in Names => files.networks[job.name] = job.address)
  /\ job.stage \in {"writeNetworks", "writeABI"} =>
        \A n \in Names : n # job.name => job.files.abi[n] = files.abi[n]

JobOnFile ==
  jobs.event.stage # "idle" =>
    /\ OnlyItsName(jobs.event)
    /\ Stored(jobs.event) => Promised(jobs.event)
    /\ jobs.event.stage = "writeABI" => jobs.event.name \in ledger.saved

\* As long as nobody's merge has run
FilesInv ==
  ~ledger.raced =>
    /\ jobs.background.stage = "idle"
    /\ pc = "prompt" => ledger.saved = {}
    /\ ~world.dryRun => SessionOnFile /\ ReturnOnFile /\ JobOnFile

\* Worlds that have the same contracts
SameContracts(v, w) ==
  v.contracts = w.contracts /\ v.contractIndex = w.contractIndex /\ v.dryRun = w.dryRun

LEMMA WhatKeepsContracts ==
  ASSUME NEW w \in AnyWorld
  PROVE  /\ SameContracts(w, w)
         /\ \A outcome : SameContracts(addAction(w, outcome), w)
         /\ \A id : SameContracts(addInvariant(w, id), w)
         /\ \A expected : SameContracts(addExpectation(w, expected), w)
         /\ \A o, type : SameContracts(clearInvariants(w, o, type), w)
         /\ SameContracts(endEvent(w), w)
         /\ SameContracts([w EXCEPT !.trxInvokationOpts = TRUE], w)
<1>1. SameContracts(endEvent(w), w)
  BY DEF SameContracts, endEvent, dropExpectations, AnyWorld
<1>2. /\ \A outcome : SameContracts(addAction(w, outcome), w)
      /\ \A id : SameContracts(addInvariant(w, id), w)
      /\ \A expected : SameContracts(addExpectation(w, expected), w)
  BY DEF SameContracts, addAction, addInvariant, addExpectation, AnyWorld
<1>3. /\ \A o, type : SameContracts(clearInvariants(w, o, type), w)
      /\ SameContracts([w EXCEPT !.trxInvokationOpts = TRUE], w)
  BY DEF SameContracts, clearInvariants, AnyWorld
<1>4. QED
  BY <1>1, <1>2, <1>3 DEF SameContracts

\* A step that leaves the files, the jobs and all contracts alone
LEMMA BookKept ==
  ASSUME FilesInv, SameContracts(world', world), pc' = "prompt" => pc = "prompt",
         UNCHANGED <<files, jobs, ledger, before>>
  PROVE  FilesInv'
<1>1. ASSUME NEW n \in Names PROVE /\ OnFile(world, n) => OnFile(world, n)'
                                   /\ OnFile(before, n) => OnFile(before, n)'
                                   /\ getWorldContract(world, n)' = getWorldContract(world, n)
  BY DEF OnFile, getWorldContract, SameContracts
<1>2. InWork' = InWork
  BY DEF InWork
<1>3. SessionOnFile => SessionOnFile'
  BY <1>1, <1>2 DEF SessionOnFile
<1>4. ReturnOnFile => ReturnOnFile'
  BY <1>1 DEF ReturnOnFile
<1>5. JobOnFile => JobOnFile'
  <2>1. OnlyItsName(jobs.event) => OnlyItsName(jobs.event)'
    BY DEF OnlyItsName
  <2>2. Stored(jobs.event) /\ Promised(jobs.event) => Promised(jobs.event)'
    BY <1>1 DEF Promised, SameContracts, Stored
  <2>3. Stored(jobs.event)' = Stored(jobs.event)
    BY DEF Stored
  <2>4. QED
    BY <2>1, <2>2, <2>3 DEF JobOnFile
<1>6. QED
  BY <1>3, <1>4, <1>5 DEF FilesInv, SameContracts

\* A command that throws, at any moment
LEMMA ThrownBook ==
  ASSUME Typed, FilesInv, Thrown
  PROVE  FilesInv'
<1>1. /\ world' = before /\ jobs' = [jobs EXCEPT !.event = Idle]
      /\ ledger' = [ledger EXCEPT !.doubtful = @ \cup ledger.saved, !.saved = {}]
      /\ before' = before /\ files' = files /\ pc' = "prompt"
  BY DEF Thrown
<1>2. jobs \in [Workers -> AnyJob] /\ ledger \in AnyLedger /\ world.dryRun = before.dryRun
  BY DEF Typed
<1>3. /\ jobs'.event.stage = "idle" /\ jobs'.background = jobs.background
      /\ ledger'.doubtful = ledger.doubtful \cup ledger.saved /\ ledger'.saved = {}
      /\ ledger'.raced = ledger.raced
  BY <1>1, <1>2, IdleJob DEF Workers, AnyLedger
<1>4. ASSUME NEW n \in Names PROVE OnFile(before, n) => OnFile(world, n)' /\ OnFile(before, n)'
  BY <1>1 DEF OnFile, getWorldContract
<1>5. ReturnOnFile => SessionOnFile' /\ ReturnOnFile'
  BY <1>3, <1>4 DEF ReturnOnFile, SessionOnFile, InWork
<1>6. JobOnFile'
  BY <1>3 DEF JobOnFile
<1>7. QED
  BY <1>1, <1>2, <1>3, <1>5, <1>6 DEF FilesInv

\* A process that has just started has what is on file.
LEMMA LoadedOnFile ==
  ASSUME NEW dryRun \in BOOLEAN, files \in Contents, NEW n \in Names
  PROVE  OnFile(Loaded(dryRun), n) /\ Loaded(dryRun).contracts[n] = files.networks[n]
<1> DEFINE w == initWorld(dryRun)
           a == files.networks[n]
<1>1. Loaded(dryRun).contracts[n] = a
  BY DEF Loaded, loadContractData, initWorld, NoNames
<1>2. a \in AnyAddress /\ files.abi \in [Names -> SUBSET Interfaces]
  BY DEF Contents
<1>3. CASE a = Nowhere
  BY <1>1, <1>3 DEF OnFile, getWorldContract, NoContract
<1>4. CASE a # Nowhere
  <2>1. a \in Addresses
    BY <1>2, <1>4 DEF AnyAddress
  <2>2. getWorldContract(Loaded(dryRun), n) =
          IF LastAt(files, a) = {} THEN NoContract
          ELSE Found(files, LoadOrder[CHOOSE i \in LastAt(files, a) : TRUE])
    BY <1>1, <1>4, <2>1 DEF getWorldContract, Loaded, loadContractData, initWorld
  <2>3. getWorldContract(Loaded(dryRun), n).name = n =>
          getWorldContract(Loaded(dryRun), n).abi \subseteq files.abi[n]
    <3> DEFINE k == LoadOrder[CHOOSE i \in LastAt(files, a) : TRUE]
    <3>1. Found(files, k).name = k /\ Found(files, k).abi = files.abi[k]
      BY DEF Found
    <3> HIDE DEF k
    <3>2. NoContract.abi \subseteq files.abi[n]
      BY DEF NoContract
    <3>3. QED
      BY <2>2, <3>1, <3>2 DEF k
  <2>4. QED
    BY <1>1, <2>3 DEF OnFile
<1>5. QED
  BY <1>1, <1>3, <1>4

\* UseConfigs in a session that had what is on file
LEMMA ReloadedOnFile ==
  ASSUME NEW w \in AnyWorld, files \in Contents, NEW n \in Names, OnFile(w, n)
  PROVE  OnFile(loadContractData(w, files), n)
<1> DEFINE v == loadContractData(w, files)
           a == files.networks[n]
<1>1. a \in AnyAddress /\ w.contracts[n] = a
  BY DEF Contents, OnFile
<1>2. v.contracts[n] = a
  BY <1>1 DEF loadContractData, AnyWorld
<1>3. CASE a = Nowhere
  BY <1>2, <1>3 DEF OnFile, getWorldContract, NoContract
<1>4. CASE a # Nowhere
  <2>1. a \in Addresses
    BY <1>1, <1>4 DEF AnyAddress
  <2>2. getWorldContract(v, n) =
          IF LastAt(files, a) = {} THEN getWorldContract(w, n)
          ELSE Found(files, LoadOrder[CHOOSE i \in LastAt(files, a) : TRUE])
    BY <1>1, <1>2, <1>4, <2>1 DEF getWorldContract, loadContractData, AnyWorld
  <2>3. getWorldContract(v, n).name = n => getWorldContract(v, n).abi \subseteq files.abi[n]
    <3> DEFINE k == LoadOrder[CHOOSE i \in LastAt(files, a) : TRUE]
    <3>1. Found(files, k).name = k /\ Found(files, k).abi = files.abi[k]
      BY DEF Found
    <3> HIDE DEF k
    <3>2. getWorldContract(v, n) = getWorldContract(w, n) \/ getWorldContract(v, n) = Found(files, k)
      BY <2>2 DEF k
    <3> HIDE DEF v
    <3>3. QED
      BY <3>1, <3>2 DEF OnFile
  <2>4. QED
    BY <1>2, <2>3 DEF OnFile
<1>5. QED
  BY <1>3, <1>4

\* A contract that is stored leaves every other name as it was, or hides it.
LEMMA StoredOnFile ==
  ASSUME NEW w \in AnyWorld, NEW n \in Names, NEW a \in AnyAddress, NEW abi \in SUBSET Interfaces
  PROVE  /\ \A k \in Names \ {n} : OnFile(w, k) => OnFile(storeContract(w, n, a, abi), k)
         /\ storeContract(w, n, a, abi).contracts[n] = a
         /\ getWorldContract(storeContract(w, n, a, abi), n).abi \subseteq abi
<1> DEFINE v == storeContract(w, n, a, abi)
           c == [name |-> n, abi |-> abi]
<1>1. /\ w.contracts \in [Names -> AnyAddress]
      /\ w.contractIndex \in [Addresses -> AnyContract \cup {NoContract}]
  BY WorldFields
<1>2. /\ v.contracts = [w.contracts EXCEPT ![n] = a]
      /\ v.contractIndex = [w.contractIndex EXCEPT ![a] = c]
  BY DEF storeContract, AnyWorld
<1> HIDE DEF v
<1>3. v.contracts[n] = a /\ \A k \in Names \ {n} : v.contracts[k] = w.contracts[k]
  BY <1>1, <1>2
<1>4. \A b \in Addresses : v.contractIndex[b] = IF b = a THEN c ELSE w.contractIndex[b]
  BY <1>1, <1>2
<1>5. ASSUME NEW k \in Names \ {n}, OnFile(w, k) PROVE OnFile(v, k)
  <2>1. v.contracts[k] = w.contracts[k] /\ w.contracts[k] \in AnyAddress
    BY <1>1, <1>3
  <2>2. CASE w.contracts[k] = Nowhere
    BY <1>5, <2>1, <2>2 DEF OnFile, getWorldContract
  <2>3. CASE w.contracts[k] # Nowhere /\ w.contracts[k] = a
    <3>1. getWorldContract(v, k) = c
      BY <1>4, <2>1, <2>3 DEF getWorldContract, AnyAddress
    <3>2. QED
      BY <1>5, <2>1, <3>1 DEF OnFile
  <2>4. CASE w.contracts[k] # Nowhere /\ w.contracts[k] # a
    <3>1. getWorldContract(v, k) = getWorldContract(w, k)
      BY <1>4, <2>1, <2>4 DEF getWorldContract, AnyAddress
    <3>2. QED
      BY <1>5, <2>1, <3>1 DEF OnFile
  <2>5. QED
    BY <2>2, <2>3, <2>4
<1>6. getWorldContract(v, n).abi \subseteq abi
  BY <1>3, <1>4 DEF getWorldContract, NoContract, AnyAddress
<1>7. QED
  BY <1>3, <1>5, <1>6 DEF v

\* An event that sends a job on its way, having stored what the job saves
LEMMA AwaitBook ==
  ASSUME Typed, FilesInv, pc = "event", NEW w \in AnyWorld, NEW job \in AnyJob, Await(w, job),
         w.dryRun = world.dryRun, job.stage = "read",
         \A n \in Names \ {job.name} : OnFile(world, n) => OnFile(w, n),
         job.name \in Names /\ ~job.merge =>
            /\ w.contracts[job.name] = job.address
            /\ getWorldContract(w, job.name).abi \subseteq job.abi
  PROVE  FilesInv'
<1>1. /\ world' = w /\ jobs' = [jobs EXCEPT !.event = job] /\ pc' = "saving"
      /\ UNCHANGED <<before, files, ledger>>
  BY DEF Await
<1>2. jobs \in [Workers -> AnyJob] /\ jobs.event.stage = "idle"
  BY DEF Typed
<1>3. jobs'.event = job /\ jobs'.background = jobs.background
  BY <1>1, <1>2 DEF Workers
<1>4. ASSUME NEW n \in Names PROVE /\ OnFile(w, n) => OnFile(world, n)'
                                   /\ OnFile(before, n) => OnFile(before, n)'
  BY <1>1 DEF OnFile, getWorldContract
<1>5. SessionOnFile => SessionOnFile'
  BY <1>1, <1>2, <1>3, <1>4 DEF SessionOnFile, InWork
<1>6. ReturnOnFile => ReturnOnFile'
  BY <1>1, <1>4 DEF ReturnOnFile
<1>7. JobOnFile'
  <2>1. OnlyItsName(jobs.event)'
    BY <1>3 DEF OnlyItsName
  <2>2. Stored(jobs.event)' => Promised(jobs.event)'
    BY <1>1, <1>3 DEF Stored, Promised, getWorldContract
  <2>3. QED
    BY <1>3, <2>1, <2>2 DEF JobOnFile
<1>8. QED
  BY <1>1, <1>3, <1>5, <1>6, <1>7 DEF FilesInv

\* The loop
LEMMA LoopBook ==
  ASSUME Typed, FilesInv,
         StartEvent \/ EndCommand \/ Throw \/ \E dryRun \in DryRuns : Restart(dryRun)
  PROVE  FilesInv'
<1>1. /\ world \in AnyWorld /\ ledger \in AnyLedger /\ files \in Contents
      /\ jobs \in [Workers -> AnyJob] /\ (pc = "saving" <=> jobs.event.stage # "idle")
  BY DEF Typed
<1>2. ASSUME NEW n \in Names, UNCHANGED files
      PROVE  /\ UNCHANGED world => (OnFile(world, n) => OnFile(world, n)')
             /\ UNCHANGED before => (OnFile(before, n) => OnFile(before, n)')
             /\ before' = world => (OnFile(world, n) => OnFile(before, n)')
  BY <1>2 DEF OnFile, getWorldContract
<1>3. CASE StartEvent
  <2>1. /\ pc \in {"prompt", "next"} /\ pc' = "event" /\ UNCHANGED <<world, files, jobs, ledger>>
        /\ before' = IF pc = "prompt" THEN world ELSE before
    BY <1>3 DEF StartEvent
  <2>2. jobs.event.stage = "idle" /\ jobs'.event.stage = "idle"
    BY <1>1, <2>1
  <2>3. SessionOnFile => SessionOnFile'
    BY <1>2, <2>1, <2>2 DEF SessionOnFile, InWork
  <2>4. SessionOnFile /\ ReturnOnFile /\ (pc = "prompt" => ledger.saved = {}) => ReturnOnFile'
    BY <1>2, <2>1, <2>2 DEF SessionOnFile, ReturnOnFile, InWork
  <2>5. JobOnFile'
    BY <2>2 DEF JobOnFile
  <2>6. QED
    BY <2>1, <2>3, <2>4, <2>5 DEF FilesInv
<1>4. CASE EndCommand
  <2>1. /\ pc = "next" /\ before' = world /\ UNCHANGED <<world, files, jobs>>
        /\ ledger' = [ledger EXCEPT !.doubtful = @ \ ledger.saved, !.saved = {}]
    BY <1>4 DEF EndCommand
  <2>2. /\ jobs.event.stage = "idle" /\ jobs'.event.stage = "idle"
        /\ ledger'.doubtful = ledger.doubtful \ ledger.saved /\ ledger'.saved = {}
        /\ ledger'.raced = ledger.raced
    BY <1>1, <2>1 DEF AnyLedger
  <2>3. SessionOnFile => SessionOnFile' /\ ReturnOnFile'
    BY <1>2, <2>1, <2>2 DEF SessionOnFile, ReturnOnFile, InWork
  <2>4. JobOnFile'
    BY <2>2 DEF JobOnFile
  <2>5. QED
    BY <2>1, <2>2, <2>3, <2>4 DEF FilesInv
<1>5. CASE Throw
  BY <1>5, ThrownBook DEF Throw
<1>6. CASE \E dryRun \in DryRuns : Restart(dryRun)
  <2>1. PICK dryRun \in DryRuns : Restart(dryRun)
    BY <1>6
  <2>2. /\ world' = Loaded(dryRun) /\ before' = world' /\ jobs' = [w \in Workers |-> Idle]
        /\ ledger' = NothingSaved /\ UNCHANGED files
    BY <2>1 DEF Restart
  <2>3. /\ jobs'.event.stage = "idle" /\ jobs'.background.stage = "idle"
        /\ ledger'.saved = {} /\ ledger'.doubtful = {}
    BY <2>2, IdleJob DEF Workers, NothingSaved
  <2>4. dryRun \in BOOLEAN
    BY FlagsAreBoolean
  <2>5. \A n \in Names : OnFile(Loaded(dryRun), n)
    BY <1>1, <2>4, LoadedOnFile
  <2>6. \A n \in Names : OnFile(world, n)' /\ OnFile(before, n)'
    BY <2>2, <2>5 DEF OnFile, getWorldContract
  <2>7. SessionOnFile' /\ ReturnOnFile' /\ JobOnFile'
    BY <2>3, <2>6 DEF SessionOnFile, ReturnOnFile, JobOnFile
  <2>8. QED
    BY <2>3, <2>7 DEF FilesInv
<1>7. QED
  BY <1>3, <1>4, <1>5, <1>6

\* Events that change what is checked, that contain others, or that have ended
LEMMA SessionBook ==
  ASSUME Typed, FilesInv,
         \/ Checking \/ CheckEvent \/ From \/ Trx \/ \E value \in Values : Block(value)
  PROVE  FilesInv'
<1>1. world \in AnyWorld
  BY DEF Typed
<1>2. CASE Thrown
  BY <1>2, ThrownBook
<1>3. CASE ~Thrown
  <2>1. UNCHANGED <<files, jobs, ledger, before>> /\ pc' # "prompt"
    <3>1. CASE Checking
      BY <3>1 DEF Checking, InvariantStatic, InvariantSuccess, InvariantRemains, SkipGated,
         AssertOutcome, ExpectChanges, ExpectRemains, HoldInvariants, ClearInvariants,
         NewInvariant, Session
    <3>2. CASE CheckEvent
      BY <1>3, <3>2 DEF CheckEvent
    <3>3. CASE From \/ Trx \/ \E value \in Values : Block(value)
      BY <3>3 DEF From, Trx, Block
    <3>4. QED
      BY <3>1, <3>2, <3>3
  <2>2. SameContracts(world', world)
    <3>1. CASE Checking
      <4>1. \/ world' = world
            \/ \E id : world' = addInvariant(world, id)
            \/ \E expected : world' = addExpectation(world, expected)
            \/ \E o, type : world' = clearInvariants(world, o, type)
        <5>1. CASE \E value \in Values : InvariantRemains(value)
          BY <5>1 DEF InvariantRemains, NewInvariant, Session
        <5>2. CASE InvariantStatic \/ InvariantSuccess
          BY <5>2 DEF InvariantStatic, InvariantSuccess, NewInvariant, Session
        <5>3. CASE \E value \in Values : ExpectChanges(value) \/ ExpectRemains(value)
          BY <5>3 DEF ExpectChanges, ExpectRemains, Session
        <5>4. CASE SkipGated \/ \E accepted \in assertionCommands : AssertOutcome(accepted)
          BY <5>4 DEF SkipGated, AssertOutcome, Session
        <5>5. CASE \E type \in InvariantTypes : HoldInvariants(type) \/ ClearInvariants(type)
          BY <5>5 DEF HoldInvariants, ClearInvariants, Session
        <5>6. QED
          BY <3>1, <5>1, <5>2, <5>3, <5>4, <5>5 DEF Checking
      <4>2. QED
        BY <1>1, <4>1, WhatKeepsContracts
    <3>2. CASE CheckEvent
      BY <1>1, <1>3, <3>2, WhatKeepsContracts DEF CheckEvent
    <3>3. CASE From \/ Trx \/ \E value \in Values : Block(value)
      BY <1>1, <3>3, WhatKeepsContracts DEF From, Trx, Block
    <3>4. QED
      BY <3>1, <3>2, <3>3
  <2>3. QED
    BY <2>1, <2>2, BookKept
<1>4. QED
  BY <1>2, <1>3

\* Commands that reach the chain, load the files or leave a merge running
LEMMA ChainBook ==
  ASSUME Typed, FilesInv, NEW command, NEW name, NEW other,
         \/ Alias(command) \/ UseConfigs(command)
         \/ Invoke(command, name) \/ SkipInDryRun(command, name) \/ Read(command, name)
         \/ \E value \in Values : BypassInvoke(command, name, value)
         \/ SetImplementation(command, name, other)
  PROVE  FilesInv'
<1>1. world \in AnyWorld /\ files \in Contents
  BY DEF Typed
<1>2. CASE Alias(command) \/ SkipInDryRun(command, name) \/ Read(command, name)
           \/ \E value \in Values : BypassInvoke(command, name, value)
  <2>1. UNCHANGED <<world, files, jobs, ledger, before>> /\ pc' # "prompt"
    BY <1>2 DEF Alias, SkipInDryRun, Read, BypassInvoke, Session
  <2>2. QED
    BY <1>1, <2>1, BookKept, WhatKeepsContracts
<1>3. CASE Invoke(command, name)
  <2>1. /\ UNCHANGED <<files, jobs, ledger, before>> /\ pc' # "prompt"
        /\ \E outcome : world' = addAction(world, outcome)
    BY <1>3 DEF Invoke
  <2>2. QED
    BY <1>1, <2>1, BookKept, WhatKeepsContracts
<1>4. CASE SetImplementation(command, name, other)
  <2>1. /\ UNCHANGED <<files, before>> /\ pc' # "prompt"
        /\ UNCHANGED <<jobs, ledger>> \/ ledger' = [ledger EXCEPT !.raced = TRUE]
        /\ \E outcome : world' = addAction(world, outcome)
    BY <1>4 DEF SetImplementation
  <2>2. CASE UNCHANGED <<jobs, ledger>>
    BY <1>1, <2>1, <2>2, BookKept, WhatKeepsContracts
  <2>3. CASE ledger' = [ledger EXCEPT !.raced = TRUE]
    BY <2>3 DEF FilesInv, Typed, AnyLedger
  <2>4. QED
    BY <2>1, <2>2, <2>3
<1>5. CASE UseConfigs(command)
  <2> DEFINE w == loadContractData(world, files)
  <2>1. /\ UNCHANGED <<files, jobs, ledger, before>> /\ world' = w
        /\ pc = "event" /\ pc' = "check"
    BY <1>5 DEF UseConfigs, Session
  <2>2. \A n \in Names : OnFile(world, n) => OnFile(w, n)
    BY <1>1, ReloadedOnFile
  <2>3. w.dryRun = world.dryRun
    BY <1>1, LoadContractDataFields
  <2> HIDE DEF w
  <2>4. ASSUME NEW n \in Names PROVE /\ OnFile(w, n) => OnFile(world, n)'
                                     /\ OnFile(before, n) => OnFile(before, n)'
    BY <2>1 DEF OnFile, getWorldContract
  <2>5. jobs.event.stage = "idle"
    BY <2>1 DEF Typed
  <2>6. (SessionOnFile => SessionOnFile') /\ (ReturnOnFile => ReturnOnFile') /\ JobOnFile'
    BY <2>1, <2>2, <2>4, <2>5 DEF SessionOnFile, ReturnOnFile, JobOnFile, InWork
  <2>7. QED
    BY <2>1, <2>3, <2>6 DEF FilesInv
<1>6. QED
  BY <1>2, <1>3, <1>4, <1>5

\* Commands that save or merge
LEMMA SavingBook ==
  ASSUME Typed, FilesInv, NEW command \in Commands, NEW name \in NamesFor(command),
         NEW other \in Names,
         \/ SaveOther(command)
         \/ \E address \in Addresses : Deploy(command, name, address)
         \/ Become(command, name, other) \/ MergeABI(command, name, other)
  PROVE  FilesInv'
<1>1. world \in AnyWorld
  BY DEF Typed
<1>2. CASE SaveOther(command)
  <2>1. PICK outcome \in {"unrecorded", "none", "success"} :
          pc = "event" /\ Await(world, Saving(Other, Nowhere, {}, outcome))
    BY <1>2 DEF SaveOther
  <2> DEFINE job == Saving(Other, Nowhere, {}, outcome)
  <2>2. /\ outcome \in Outcomes \cup {"none", "unrecorded"} /\ Other \in AnyName
        /\ Nowhere \in AnyAddress /\ {} \in SUBSET Interfaces
    BY OutcomesInclude DEF AnyName, AnyAddress
  <2>3. job \in AnyJob /\ job.stage = "read"
    BY <2>2, SavingJob
  <2>4. job.name \notin Names
    BY OtherIsNoName DEF Saving, Idle
  <2> HIDE DEF job
  <2>5. Await(world, job)
    BY <2>1 DEF job
  <2>6. QED
    BY <1>1, <2>1, <2>3, <2>4, <2>5, AwaitBook
<1>3. ASSUME NEW address \in Addresses, Deploy(command, name, address) PROVE FilesInv'
  <2> DEFINE abi == artifacts[command.method]
             job == Saving(name, address, abi, "none")
             w == storeContract(world, name, address, abi)
  <2>1. /\ pc = "event" /\ Await(w, job) /\ name \in Names
        /\ command.method \in Deployable
    BY <1>3, RolesHaveNames DEF Deploy, NamesFor
  <2>2. abi \in SUBSET Interfaces
    BY <2>1, DeployableAreKnown DEF Interfaces
  <2>3. /\ "none" \in Outcomes \cup {"none", "unrecorded"}
        /\ name \in AnyName /\ address \in AnyAddress
    BY <2>1 DEF AnyName, AnyAddress
  <2> HIDE DEF abi
  <2>4. job \in AnyJob /\ job.stage = "read"
    BY <2>2, <2>3, SavingJob
  <2>5. job.name = name /\ job.address = address /\ job.abi = abi
    BY DEF Saving, Idle
  <2>6. w \in AnyWorld /\ w.dryRun = world.dryRun
    BY <1>1, <2>1, <2>2, <2>3, StoreContractFields
  <2>7. /\ \A k \in Names \ {name} : OnFile(world, k) => OnFile(w, k)
        /\ w.contracts[name] = address
        /\ getWorldContract(w, name).abi \subseteq abi
    BY <1>1, <2>1, <2>2, <2>3, StoredOnFile
  <2> HIDE DEF w, job
  <2>8. QED
    BY <2>1, <2>4, <2>5, <2>6, <2>7, AwaitBook
<1>4. ASSUME NEW job \in AnyJob, pc = "event", Await(world, job), job.stage = "read", job.merge
      PROVE  FilesInv'
  BY <1>1, <1>4, AwaitBook
<1>5. CASE Become(command, name, other)
  <2>1. PICK outcome \in Outcomes, value \in Values :
          /\ pc = "event" /\ ~Untracked(command) /\ Resolves(command, name)
          /\ Known(world, other)
          /\ \/ Await(world, Merging("Comptroller", world.contracts[other],
                        getWorldContract(world, other).name,
                        getWorldContract(world, name).name, outcome))
             \/ /\ world' = addAction(world, outcome) /\ pc' = "check"
                /\ UNCHANGED <<before, files, jobs, ledger>>
    BY <1>5 DEF Become, Resolves
  <2> DEFINE job == Merging("Comptroller", world.contracts[other],
                      getWorldContract(world, other).name, getWorldContract(world, name).name,
                      outcome)
  <2>2. name \in Names /\ Known(world, name)
    BY <2>1, ResolvedIsNamed
  <2>3. /\ getWorldContract(world, other).name \in Names /\ world.contracts[other] \in AnyAddress
        /\ getWorldContract(world, name).name \in Names
    BY <1>1, <2>1, <2>2, KnownIsNamed DEF AnyAddress
  <2>4. job \in AnyJob /\ job.stage = "read"
    BY <2>3, MergingJob, TargetsAreNames
  <2>5. job.merge
    BY DEF Merging, Saving, Idle
  <2> HIDE DEF job
  <2>6. CASE Await(world, job)
    BY <1>4, <2>1, <2>4, <2>5, <2>6
  <2>7. CASE /\ world' = addAction(world, outcome) /\ pc' = "check"
             /\ UNCHANGED <<before, files, jobs, ledger>>
    BY <1>1, <2>7, BookKept, WhatKeepsContracts
  <2>8. QED
    BY <2>1, <2>6, <2>7 DEF job
<1>6. CASE MergeABI(command, name, other)
  <2> DEFINE job == MergeOf(command.on, other, name, "unrecorded")
  <2>1. /\ pc = "event" /\ ~Untracked(command) /\ Resolves(command, name)
        /\ Known(world, other)
        /\ \/ Await(world, job)
           \/ pc' = "check" /\ UNCHANGED <<world, before, files, jobs, ledger>>
    BY <1>6 DEF MergeABI, Resolves
  <2>2. name \in Names /\ Known(world, name)
    BY <2>1, ResolvedIsNamed
  <2>3. job \in AnyJob /\ job.stage = "read"
    BY <2>1, <2>2, MergeOfJob
  <2>4. job.merge
    BY DEF MergeOf, Merging, Saving, Idle
  <2> HIDE DEF job
  <2>5. QED
    BY <1>1, <1>4, <2>1, <2>3, <2>4, BookKept, WhatKeepsContracts
<1>7. QED
  BY <1>2, <1>3, <1>5, <1>6

\* The job of an event is done: its contract is on file.
LEMMA FinishBook ==
  ASSUME Typed, FilesInv, ~world.dryRun, WriteABI("event"), ~ledger.raced
  PROVE  FilesInv'
<1> DEFINE job == jobs.event
<1>1. /\ job.stage = "writeABI" /\ files' = [files EXCEPT !.abi = job.files.abi]
      /\ jobs' = [jobs EXCEPT !["event"] = Idle] /\ pc' = "check"
      /\ UNCHANGED <<before, ledger>>
      /\ world' = world \/ \E outcome : world' = addAction(world, outcome)
  BY DEF WriteABI, FinishJob
<1>2. /\ world \in AnyWorld /\ jobs \in [Workers -> AnyJob] /\ files \in Contents
      /\ job \in AnyJob /\ job.files \in Contents
  BY DEF Typed, AnyJob, Workers
<1>3. /\ jobs'.event.stage = "idle" /\ jobs'.background = jobs.background
      /\ files'.networks = files.networks /\ files'.abi = job.files.abi
  BY <1>1, <1>2, IdleJob DEF Workers, Contents
<1>4. SameContracts(world', world)
  BY <1>1, <1>2, WhatKeepsContracts
<1>5. /\ SessionOnFile /\ ReturnOnFile /\ OnlyItsName(job) /\ (Stored(job) => Promised(job))
      /\ job.name \in ledger.saved
  BY <1>1 DEF FilesInv, JobOnFile
<1>6. ASSUME NEW n \in Names, n # job.name
      PROVE  /\ OnFile(world, n) => OnFile(world, n)'
             /\ OnFile(before, n) => OnFile(before, n)'
  <2>1. files'.abi[n] = files.abi[n]
    BY <1>1, <1>3, <1>5, <1>6 DEF OnlyItsName
  <2>2. QED
    BY <1>1, <1>3, <1>4, <2>1 DEF OnFile, getWorldContract, SameContracts
<1>7. ASSUME NEW n \in Names, n = job.name PROVE OnFile(world, n)'
  <2>1. Promised(job) /\ files.networks[n] = job.address
    BY <1>1, <1>5, <1>7 DEF Stored, OnlyItsName
  <2>2. /\ files.networks[n] = world.contracts[n]
        /\ getWorldContract(world, n).name = n =>
              getWorldContract(world, n).abi \subseteq job.files.abi[n]
    BY <1>1, <1>7, <2>1 DEF Promised
  <2>3. /\ files'.networks[n] = world'.contracts[n]
        /\ getWorldContract(world', n) = getWorldContract(world, n)
    BY <1>3, <1>4, <2>2 DEF SameContracts, getWorldContract
  <2>4. QED
    BY <1>3, <2>2, <2>3 DEF OnFile, getWorldContract
<1>8. SessionOnFile'
  BY <1>1, <1>3, <1>5, <1>6, <1>7 DEF SessionOnFile, InWork
<1>9. ReturnOnFile'
  BY <1>1, <1>5, <1>6 DEF ReturnOnFile
<1>10. JobOnFile'
  BY <1>3 DEF JobOnFile
<1>11. QED
  BY <1>1, <1>3, <1>8, <1>9, <1>10 DEF FilesInv

\* The names and addresses are written: the contract is at its address.
LEMMA WriteBook ==
  ASSUME Typed, FilesInv, ~world.dryRun, WriteNetworks("event"), ~ledger.raced
  PROVE  FilesInv'
<1> DEFINE job == jobs.event
<1>1. /\ job.stage = "writeNetworks" /\ jobs' = [jobs EXCEPT !["event"] = [@ EXCEPT !.stage = "writeABI"]]
      /\ files' = [files EXCEPT !.networks = job.files.networks]
      /\ ledger' = [ledger EXCEPT !.saved = @ \cup {job.name}]
      /\ UNCHANGED <<world, before, pc>>
  BY DEF WriteNetworks, Typed
<1>2. /\ jobs \in [Workers -> AnyJob] /\ files \in Contents /\ ledger \in AnyLedger
      /\ job \in AnyJob /\ pc = "saving"
  BY <1>1 DEF Typed, AnyJob, Workers
<1>3. /\ jobs'.event.stage = "writeABI" /\ jobs'.background = jobs.background
      /\ jobs'.event.name = job.name /\ jobs'.event.address = job.address
      /\ jobs'.event.files = job.files
      /\ files'.networks = job.files.networks /\ files'.abi = files.abi
      /\ ledger'.saved = ledger.saved \cup {job.name} /\ ledger'.doubtful = ledger.doubtful
      /\ ledger'.raced = ledger.raced
  BY <1>1, <1>2 DEF Workers, Contents, AnyJob, AnyLedger
<1>4. SessionOnFile /\ ReturnOnFile /\ OnlyItsName(job) /\ (Stored(job) => Promised(job))
  BY <1>1 DEF FilesInv, JobOnFile
<1>5. ASSUME NEW n \in Names, n # job.name
      PROVE  /\ OnFile(world, n) => OnFile(world, n)'
             /\ OnFile(before, n) => OnFile(before, n)'
  <2>1. files'.networks[n] = files.networks[n]
    BY <1>1, <1>3, <1>4, <1>5 DEF OnlyItsName
  <2>2. QED
    BY <1>1, <1>3, <2>1 DEF OnFile, getWorldContract
<1>6. SessionOnFile'
  BY <1>1, <1>3, <1>4, <1>5 DEF SessionOnFile, InWork
<1>7. ReturnOnFile'
  BY <1>3, <1>4, <1>5 DEF ReturnOnFile
<1>8. JobOnFile'
  <2>1. OnlyItsName(jobs.event)'
    BY <1>1, <1>3, <1>4 DEF OnlyItsName
  <2>2. Stored(jobs.event)' => Promised(jobs.event)'
    BY <1>1, <1>3, <1>4 DEF Stored, Promised, getWorldContract
  <2>3. QED
    BY <1>3, <2>1, <2>2 DEF JobOnFile
<1>9. QED
  BY <1>1, <1>2, <1>3, <1>6, <1>7, <1>8 DEF FilesInv

\* The names and addresses are read.
LEMMA ReadBook ==
  ASSUME Typed, FilesInv, ~world.dryRun, ReadNetworks("event"), ~ledger.raced
  PROVE  FilesInv'
<1> DEFINE job == jobs.event
<1>1. /\ job.stage = "read"
      /\ jobs' = [jobs EXCEPT !["event"].files.networks = files.networks,
                              !["event"].stage = "readABI"]
      /\ UNCHANGED <<world, before, pc, files, ledger>>
  BY DEF ReadNetworks
<1>2. /\ jobs \in [Workers -> AnyJob] /\ files \in Contents
      /\ job \in AnyJob /\ job.files \in Contents /\ pc = "saving"
  BY <1>1 DEF Typed, AnyJob, Workers
<1>3. /\ jobs'.event.stage = "readABI" /\ jobs'.background = jobs.background
      /\ jobs'.event.name = job.name /\ jobs'.event.address = job.address
      /\ jobs'.event.merge = job.merge /\ jobs'.event.abi = job.abi
      /\ jobs'.event.files.networks = files.networks
      /\ world' = world /\ files' = files
  BY <1>1, <1>2 DEF Workers, Contents, AnyJob
<1>4. SessionOnFile /\ ReturnOnFile /\ (Stored(job) => Promised(job))
  BY <1>1 DEF FilesInv, JobOnFile
<1>5. ASSUME NEW n \in Names PROVE /\ OnFile(world, n) => OnFile(world, n)'
                                   /\ OnFile(before, n) => OnFile(before, n)'
  BY <1>1 DEF OnFile, getWorldContract
<1>6. SessionOnFile'
  BY <1>1, <1>3, <1>4, <1>5 DEF SessionOnFile, InWork
<1>7. ReturnOnFile'
  BY <1>1, <1>4, <1>5 DEF ReturnOnFile
<1>8. JobOnFile'
  <2>1. OnlyItsName(jobs.event)'
    BY <1>3 DEF OnlyItsName
  <2>2. Stored(jobs.event)' => Promised(jobs.event)'
    <3>1. job.stage = "read"
      BY <1>1
    <3>2. Stored(jobs.event)' => Stored(job)
      BY <1>3, <3>1 DEF Stored
    <3>3. Promised(job) => Promised(jobs.event)'
      BY <1>3, <3>1 DEF Promised, getWorldContract
    <3>4. QED
      BY <1>4, <3>2, <3>3
  <2>3. QED
    BY <1>3, <2>1, <2>2 DEF JobOnFile
<1>9. QED
  BY <1>1, <1>2, <1>3, <1>6, <1>7, <1>8 DEF FilesInv

\* What a save is about to write differs from what it has read in its own name only.
LEMMA ChangedPointwise ==
  ASSUME NEW job \in AnyJob, NamedMerge(job), NEW f \in Contents, NEW n \in Names
  PROVE  /\ Changed(job, f).networks[n] = IF n = job.name THEN job.address ELSE f.networks[n]
         /\ n # job.name => Changed(job, f).abi[n] = f.abi[n]
         /\ n = job.name => Changed(job, f).abi[n] =
              IF job.merge THEN f.abi[job.a] \cup f.abi[job.b] ELSE job.abi
<1>1. f.networks \in [Names -> AnyAddress] /\ f.abi \in [Names -> SUBSET Interfaces]
  BY DEF Contents
<1>2. ASSUME NEW m \in Names, NEW a, NEW abi
      PROVE  /\ saveContract(f, m, a, abi).networks[n] = IF n = m THEN a ELSE f.networks[n]
             /\ saveContract(f, m, a, abi).abi[n] = IF n = m THEN abi ELSE f.abi[n]
  BY <1>1 DEF saveContract
<1>3. CASE job.merge
  <2>1. job.name \in Names
    BY <1>3 DEF NamedMerge
  <2>2. Changed(job, f) = saveContract(f, job.name, job.address, f.abi[job.a] \cup f.abi[job.b])
    BY <1>3 DEF Changed, mergeContractABI
  <2>3. QED
    BY <1>2, <1>3, <2>1, <2>2
<1>4. CASE ~job.merge /\ job.name \in Names
  <2>1. Changed(job, f) = saveContract(f, job.name, job.address, job.abi)
    BY <1>4 DEF Changed
  <2>2. QED
    BY <1>2, <1>4, <2>1
<1>5. CASE ~job.merge /\ job.name \notin Names
  BY <1>5 DEF Changed
<1>6. QED
  BY <1>3, <1>4, <1>5

\* The ABIs are read, and a merge tells the session of its contract.
LEMMA MergeBook ==
  ASSUME Typed, FilesInv, MergesAreNamed, ~world.dryRun, ReadABI("event"), ~ledger.raced
  PROVE  FilesInv'
<1> DEFINE job == jobs.event
           read == [networks |-> job.files.networks, abi |-> files.abi]
           abi == read.abi[job.a] \cup read.abi[job.b]
           merged == IF job.merge THEN storeContract(world, job.name, job.address, abi)
                     ELSE world
           written == Changed(job, read)
<1>1. CASE Thrown
  BY <1>1, ThrownBook
<1>2. CASE ~Thrown
  <2>1. /\ job.stage = "readABI"
        /\ jobs' = [jobs EXCEPT !["event"].files = written, !["event"].stage = "writeNetworks"]
        /\ world' = merged
        /\ UNCHANGED <<pc, before, files, ledger>>
    BY <1>2 DEF ReadABI
  <2>2. /\ jobs \in [Workers -> AnyJob] /\ files \in Contents /\ world \in AnyWorld
        /\ job \in AnyJob /\ job.files \in Contents /\ pc = "saving"
        /\ job.name \in AnyName /\ job.address \in AnyAddress
    BY <2>1 DEF Typed, AnyJob, Workers
  <2>3. NamedMerge(job) /\ read \in Contents
    BY <2>2 DEF MergesAreNamed, Workers, Contents
  <2>4. job.merge => abi \in SUBSET Interfaces /\ job.name \in Names
    BY <2>2, <2>3 DEF NamedMerge, Contents
  <2>5. /\ jobs'.event.stage = "writeNetworks" /\ jobs'.background = jobs.background
        /\ jobs'.event.name = job.name /\ jobs'.event.address = job.address
        /\ jobs'.event.merge = job.merge /\ jobs'.event.files = written
    BY <2>1, <2>2 DEF Workers, AnyJob
  <2>6. /\ SessionOnFile /\ ReturnOnFile /\ OnlyItsName(job) /\ (Stored(job) => Promised(job))
    BY <2>1 DEF FilesInv, JobOnFile
  <2>7. \A n \in Names :
          /\ written.networks[n] = IF n = job.name THEN job.address ELSE files.networks[n]
          /\ n # job.name => written.abi[n] = files.abi[n]
          /\ n = job.name => written.abi[n] = IF job.merge THEN abi ELSE job.abi
    <3>1. \A n \in Names : read.networks[n] = files.networks[n] /\ read.abi[n] = files.abi[n]
      BY <2>1, <2>6 DEF OnlyItsName
    <3> HIDE DEF read
    <3>2. \A n \in Names :
            /\ written.networks[n] = IF n = job.name THEN job.address ELSE read.networks[n]
            /\ n # job.name => written.abi[n] = read.abi[n]
            /\ n = job.name => written.abi[n] = IF job.merge THEN abi ELSE job.abi
      BY <2>2, <2>3, ChangedPointwise
    <3> HIDE DEF written, abi
    <3>3. QED
      BY <3>1, <3>2
  <2> HIDE DEF written
  <2>8. /\ \A n \in Names \ {job.name} : OnFile(world, n) => OnFile(merged, n)
        /\ job.merge => /\ merged.contracts[job.name] = job.address
                        /\ getWorldContract(merged, job.name).abi \subseteq abi
        /\ merged.dryRun = world.dryRun
    <3> HIDE DEF abi
    <3>1. CASE job.merge
      BY <2>2, <2>4, <3>1, StoredOnFile, StoreContractFields
    <3>2. CASE ~job.merge
      BY <3>2
    <3>3. QED
      BY <3>1, <3>2
  <2>9. ~job.merge => merged = world
    OBVIOUS
  <2> HIDE DEF merged, abi
  <2>10. ASSUME NEW n \in Names PROVE /\ OnFile(merged, n) => OnFile(world, n)'
                                      /\ OnFile(before, n) => OnFile(before, n)'
    BY <2>1 DEF OnFile, getWorldContract
  <2>11. SessionOnFile'
    BY <2>1, <2>5, <2>6, <2>8, <2>10 DEF SessionOnFile, InWork
  <2>12. ReturnOnFile'
    BY <2>1, <2>6, <2>10 DEF ReturnOnFile
  <2>13. world' = merged /\ files' = files
    BY <2>1
  <2>14. OnlyItsName(jobs.event)'
    BY <2>5, <2>7, <2>13 DEF OnlyItsName
  <2>15. Stored(jobs.event)' => Promised(jobs.event)'
    <3> SUFFICES ASSUME job.name \in Names
                 PROVE  /\ merged.contracts[job.name] = job.address
                        /\ getWorldContract(merged, job.name).name = job.name =>
                              getWorldContract(merged, job.name).abi \subseteq written.abi[job.name]
      BY <2>5, <2>13 DEF Stored, Promised, getWorldContract
    <3>1. CASE job.merge
      BY <2>7, <2>8, <3>1
    <3>2. CASE ~job.merge
      <4>1. Promised(job) /\ merged = world
        BY <2>6, <2>9, <3>2 DEF Stored
      <4>2. QED
        BY <2>1, <2>7, <3>2, <4>1 DEF Promised
    <3>3. QED
      BY <3>1, <3>2
  <2>16. JobOnFile'
    BY <2>5, <2>14, <2>15 DEF JobOnFile
  <2>17. QED
    BY <2>1, <2>2, <2>5, <2>8, <2>11, <2>12, <2>16 DEF FilesInv
<1>3. QED
  BY <1>1, <1>2

\* Every job on the files
LEMMA JobsBook ==
  ASSUME IndInv, FilesInv, Jobs
  PROVE  FilesInv'
<1>1. Typed /\ MergesAreNamed
  BY TypeFacts DEF IndInv
<1>2. PICK worker \in Workers : \/ ReadNetworks(worker) \/ ReadABI(worker)
                               \/ WriteNetworks(worker) \/ WriteABI(worker)
                               \/ FileFails(worker)
  BY DEF Jobs
<1>3. ledger'.raced = ledger.raced
  BY <1>1, <1>2 DEF ReadNetworks, ReadABI, WriteNetworks, WriteABI, FileFails, Thrown, Typed,
         AnyLedger
<1>4. CASE ledger.raced
  BY <1>3, <1>4 DEF FilesInv
<1>5. CASE ~ledger.raced
  <2>1. worker = "event"
    BY <1>2, <1>5 DEF FilesInv, Workers, ReadNetworks, ReadABI, WriteNetworks, WriteABI, FileFails
  <2>2. CASE ~world.dryRun
    BY <1>1, <1>2, <1>5, <2>1, <2>2, ReadBook, MergeBook, WriteBook, FinishBook, ThrownBook
       DEF FileFails
  <2>3. CASE world.dryRun
    <3>1. /\ jobs \in [Workers -> AnyJob] /\ world \in AnyWorld
          /\ jobs.event.stage # "idle"
      BY <1>1, <1>2, <2>1 DEF Typed, ReadNetworks, ReadABI, WriteNetworks, WriteABI, FileFails
    <3>2. jobs'.background = jobs.background
      BY <1>2, <2>1, <3>1 DEF ReadNetworks, ReadABI, WriteNetworks, WriteABI, FileFails,
                              FinishJob, Thrown, Workers
    <3>3. world'.dryRun
      <4>1. IndInv'
        BY JobsKeep
      <4>2. Typed'
        BY <4>1, TypeFacts DEF IndInv
      <4>3. before' = before
        BY <1>2 DEF ReadNetworks, ReadABI, WriteNetworks, WriteABI, FileFails, Thrown
      <4>4. QED
        BY <1>1, <2>3, <4>2, <4>3 DEF Typed
    <3>4. pc' = "prompt" => ledger'.saved = {}
      <4>1. pc = "saving"
        BY <1>1, <3>1 DEF Typed
      <4>2. CASE Thrown
        BY <1>1, <4>2 DEF Thrown, Typed, AnyLedger
      <4>3. CASE ~Thrown
        BY <1>2, <2>1, <4>1, <4>3
           DEF ReadNetworks, ReadABI, WriteNetworks, WriteABI, FileFails, FinishJob
      <4>4. QED
        BY <4>2, <4>3
    <3>5. QED
      BY <1>5, <3>2, <3>3, <3>4 DEF FilesInv
  <2>4. QED
    BY <2>2, <2>3
<1>6. QED
  BY <1>4, <1>5

\* Every command of the tables
LEMMA RunningBook ==
  ASSUME Typed, FilesInv, Running
  PROVE  FilesInv'
<1>1. PICK command \in Commands :
        \/ Alias(command) \/ UseConfigs(command) \/ SaveOther(command)
        \/ \E name \in NamesFor(command) :
              \/ Invoke(command, name) \/ SkipInDryRun(command, name) \/ Read(command, name)
              \/ \E value \in Values : BypassInvoke(command, name, value)
              \/ \E address \in Addresses : Deploy(command, name, address)
              \/ \E other \in Names : \/ Become(command, name, other)
                                    \/ MergeABI(command, name, other)
                                    \/ SetImplementation(command, name, other)
  BY DEF Running
<1>2. CASE Alias(command) \/ UseConfigs(command)
  BY <1>2, ChainBook
<1>3. ASSUME NEW name \in NamesFor(command),
             \/ Invoke(command, name) \/ SkipInDryRun(command, name) \/ Read(command, name)
             \/ \E value \in Values : BypassInvoke(command, name, value)
             \/ \E other \in Names : SetImplementation(command, name, other)
      PROVE  FilesInv'
  BY <1>3, ChainBook
<1>4. ASSUME NEW name \in NamesFor(command), NEW other \in Names,
             \/ \E address \in Addresses : Deploy(command, name, address)
             \/ Become(command, name, other) \/ MergeABI(command, name, other)
      PROVE  FilesInv'
  BY <1>4, SavingBook
<1>5. CASE SaveOther(command)
  <2>1. Other \in NamesFor(command)
    BY <1>5 DEF SaveOther, Untracked, NamesFor
  <2>2. "Comptroller" \in Names
    BY TargetsAreNames
  <2>3. QED
    BY <1>5, <2>1, <2>2, SavingBook
<1>6. QED
  BY <1>1, <1>2, <1>3, <1>4, <1>5, TargetsAreNames

\* The book agrees in every session.
LEMMA FilesInvariance == ScenarioSpec => []FilesInv
<1>1. ASSUME ScenarioInit PROVE FilesInv
  <2>1. files \in Contents /\ StartsDry \in BOOLEAN
    BY <1>1, InitialFilesAreContents, FlagsAreBoolean DEF ScenarioInit
  <2>2. /\ world = Loaded(StartsDry) /\ before = world /\ pc = "prompt"
        /\ jobs = [w \in Workers |-> Idle] /\ ledger = NothingSaved
    BY <1>1 DEF ScenarioInit
  <2>3. /\ jobs.event.stage = "idle" /\ jobs.background.stage = "idle"
        /\ ledger.saved = {} /\ ledger.doubtful = {}
    BY <2>2, IdleJob DEF Workers, NothingSaved
  <2>4. \A n \in Names : OnFile(world, n) /\ OnFile(before, n)
    BY <2>1, <2>2, LoadedOnFile
  <2>5. QED
    BY <2>3, <2>4 DEF FilesInv, SessionOnFile, ReturnOnFile, JobOnFile
<1>2. ASSUME IndInv, FilesInv, [ScenarioNext]_scenarioVars PROVE FilesInv'
  <2>1. Typed
    BY <1>2, TypeFacts DEF IndInv
  <2>2. CASE UNCHANGED scenarioVars
    BY <1>2, <2>1, <2>2, BookKept, WhatKeepsContracts DEF scenarioVars, Typed
  <2>3. CASE ScenarioNext
    BY <1>2, <2>1, <2>3, LoopBook, SessionBook, RunningBook, JobsBook DEF ScenarioNext
  <2>4. QED
    BY <1>2, <2>2, <2>3
<1>3. QED
  BY <1>1, <1>2, SessionInvariance, PTL DEF ScenarioSpec

\* Of two names listed last at an address there is one.
LEMMA LastIsOne ==
  ASSUME NEW f, NEW a, NEW i \in LastAt(f, a), NEW j \in LastAt(f, a)
  PROVE  i = j
<1>1. i \in Nat /\ j \in Nat
  BY LoadOrderListsNames DEF LastAt
<1>2. i <= j /\ j <= i
  BY DEF LastAt
<1>3. QED
  BY <1>1, <1>2

\* Whatever a session has at the prompt, the next process has too.
THEOREM RestartsLoseNothing == ScenarioSpec => []RestartLosesNothing
<1>1. ASSUME IndInv, FilesInv PROVE RestartLosesNothing
  <2> SUFFICES ASSUME pc = "prompt", ~world.dryRun, ~ledger.raced, 
                      NEW n \in Names \ ledger.doubtful, Known(world, n),
                      getWorldContract(world, n).name = n
               PROVE  /\ Loaded(FALSE).contracts[n] = world.contracts[n]
                      /\ getWorldContract(world, n).abi \subseteq files.abi[n]
                      /\ ListedLast(n) => getWorldContract(Loaded(FALSE), n) = Found(files, n)
    BY DEF RestartLosesNothing
  <2>1. Typed
    BY <1>1, TypeFacts DEF IndInv
  <2>2. jobs.event.stage = "idle" /\ files \in Contents
    BY <2>1 DEF Typed
  <2>3. OnFile(world, n)
    BY <1>1, <2>2 DEF FilesInv, SessionOnFile, InWork
  <2>4. Loaded(FALSE).contracts[n] = files.networks[n]
    BY <2>2, LoadedOnFile
  <2>5. ASSUME ListedLast(n) PROVE getWorldContract(Loaded(FALSE), n) = Found(files, n)
    <3> DEFINE a == files.networks[n]
    <3>1. PICK i \in LastAt(files, a) : LoadOrder[i] = n
      BY <2>5 DEF ListedLast
    <3>2. (CHOOSE j \in LastAt(files, a) : TRUE) = i
      BY <3>1, LastIsOne
    <3>3. CASE a # Nowhere
      <4>1. a \in Addresses
        BY <2>2, <3>3 DEF Contents, AnyAddress
      <4>2. getWorldContract(Loaded(FALSE), n) =
              IF LastAt(files, a) = {} THEN NoContract
              ELSE Found(files, LoadOrder[CHOOSE j \in LastAt(files, a) : TRUE])
        BY <2>4, <3>3, <4>1 DEF getWorldContract, Loaded, loadContractData, initWorld
      <4>3. QED
        BY <3>1, <3>2, <4>2
    <3>4. a # Nowhere
      BY <2>3 DEF OnFile, Known, getWorldContract
    <3>5. QED
      BY <3>3, <3>4
  <2>6. QED
    BY <2>3, <2>4, <2>5 DEF OnFile
<1>2. QED
  BY <1>1, SessionInvariance, FilesInvariance, PTL
=============================================================================
