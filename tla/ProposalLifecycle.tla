-------------------------- MODULE ProposalLifecycle --------------------------
(***************************************************************************)
(* What a governor promises of its proposals, whatever the votes and the   *)
(* clock: a proposal is pending, then open, then decided for good; one     *)
(* that succeeded may be queued, and only a queued one executed; one that  *)
(* is not executed may be canceled at any time; canceled and executed are  *)
(* final; and nobody has two proposals before or under the vote at once.   *)
(***************************************************************************)
EXTENDS Naturals

CONSTANTS Ids, Proposers

VARIABLES stage,    \* of each proposal
          proposer  \* of each proposal once it is made

Stages == {"None", "Pending", "Active", "Canceled", "Defeated", "Succeeded", "Queued", "Expired", "Executed"}
Live == {"Pending", "Active"}

(* The stages a proposal may go to in one step. *)
Successors(s) ==
  (IF s \in {"None", "Executed", "Canceled"} THEN {} ELSE {"Canceled"}) \cup
  (IF s = "Pending" THEN {"Active"} ELSE {}) \cup
  (IF s = "Active" THEN {"Defeated", "Succeeded"} ELSE {}) \cup
  (IF s = "Succeeded" THEN {"Queued"} ELSE {}) \cup
  (IF s = "Queued" THEN {"Executed", "Expired"} ELSE {})

LifecycleInit == /\ stage = [i \in Ids |-> "None"]
                 /\ proposer \in [Ids -> Proposers]

(* A proposal is made, by someone without a live one. *)
Propose(i, who) ==
  /\ stage[i] = "None"
  /\ \A j \in Ids : proposer[j] = who => stage[j] \notin Live
  /\ stage' = [stage EXCEPT ![i] = "Pending"]
  /\ proposer' = [proposer EXCEPT ![i] = who]

Progress(from, to) ==
  \A i \in Ids : to[i] \in Stages /\ (to[i] = from[i] \/ to[i] \in Successors(from[i]))

(* A block is mined, or somebody acts: proposals that were made move on. *)
Advance == /\ DOMAIN stage' = Ids /\ Progress(stage, stage')
           /\ UNCHANGED proposer

LifecycleNext == Advance \/ (\E i \in Ids, who \in Proposers : Propose(i, who))

LifecycleSpec == LifecycleInit /\ [][LifecycleNext]_<<stage, proposer>>
=============================================================================
