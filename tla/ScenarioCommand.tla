-------------------------- MODULE ScenarioCommand --------------------------
(***************************************************************************)
(* The vocabulary of the command tables.  The interpreter has some two     *)
(* hundred commands that differ in little: whether they need a sender      *)
(* (Command) or not (View), the contract they look up, the interface their *)
(* method belongs to, and what they do with the transaction.  A command is *)
(* that record; Scenario.tla says what each kind does to the world.        *)
(***************************************************************************)
EXTENDS TLC

\* Needs a sender, and looks its contract up before anything else.
Command(does, method) == [does |-> does, method |-> method, on |-> "none", requireFrom |-> TRUE]
View(does, method) == [Command(does, method) EXCEPT !.requireFrom = FALSE]

\* Sends a transaction through `invoke` and records it with `addAction`.
Invokes(interface) == Command("invoke", interface)
\* The same, but a dry run returns before it.
InvokesLive(interface) == Command("invokeLive", interface)
\* Sends with sendTransaction of web3 and records nothing.
SendsUnrecorded(interface) == Command("send", interface)
\* Prints, reads or sleeps.
Reads(interface) == View("read", interface)
Prints == Reads("none")
\* Throws whatever its arguments are.
Throws == Command("throw", "none")

\* Deploys an artifact, stores and saves it under a name, and records an
\* action; throws if the deployment failed.
Deploys(artifact) == Command("deploy", artifact)
\* Stores and saves a contract that is on the chain already, with and
\* without recording an action for it.
Adopts(interface) == Command("adopt", interface)
AdoptsUnrecorded(interface) == Command("adoptUnrecorded", interface)

\* Invokes, merges the ABIs of the proxy and the implementation, then records;
\* Recome does not leave the merge out in a dry run.
Becomes(interface) == Command("become", interface)
Recomes(interface) == Command("recome", interface)
Merges == Command("merge", "none")
\* Invokes and records, and leaves the merge running.
MergesLater(interface) == Command("mergeLater", interface)

\* Asks the node to mine or to move its clock.
AsksNode == View("rpc", "none")
AsksNodeFrom == Command("rpc", "none")

\* The commands of a table or a set, on the contract they look up.
On(role, command) == [command EXCEPT !.on = role]
Table(role, table) == {On(role, table[name]) : name \in DOMAIN table}
Variants(role, builder) == {On(role, builder[name]) : name \in DOMAIN builder}
=============================================================================
