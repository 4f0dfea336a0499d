------------------------------ MODULE CompToken ------------------------------
(***************************************************************************)
(* Comp.sol: balances, delegates and the checkpoints of the votes of each  *)
(* delegate, as operators on the record of the contract's storage.  Votes  *)
(* of an account at a past block are found by binary search.               *)
(***************************************************************************)
EXTENDS Naturals, Sequences

CONSTANTS Accounts,  \* holders of UTDX
          Nobody     \* address(0): no delegate

ASSUME NobodyHolds == Nobody \notin Accounts

NoCheckpoints == << >>

(* checkpoints[account][nCheckpoints - 1].votes *)
currentVotes(cps) == IF cps = NoCheckpoints THEN 0 ELSE cps[Len(cps)].votes

(* A plausible slip: every move of a block leaves a checkpoint of its own. *)
writeCheckpointAnew(cps, now, votes) == Append(cps, [fromBlock |-> now, votes |-> votes])

(* Moves of one block share a checkpoint. *)
writeCheckpoint(cps, now, votes) ==
  IF cps # NoCheckpoints /\ cps[Len(cps)].fromBlock = now
  THEN [cps EXCEPT ![Len(cps)].votes = votes]
  ELSE Append(cps, [fromBlock |-> now, votes |-> votes])

(* sub96 does not revert. *)
canMove(cp, srcRep, dstRep, amount) ==
  srcRep # dstRep /\ srcRep # Nobody => amount <= currentVotes(cp[srcRep])

moveDelegates(cp, srcRep, dstRep, amount, now) ==
  LET without == IF srcRep = Nobody THEN cp
                 ELSE [cp EXCEPT ![srcRep] = writeCheckpoint(@, now, currentVotes(@) - amount)]
  IN IF srcRep = dstRep \/ amount = 0 THEN cp
     ELSE IF dstRep = Nobody THEN without
     ELSE [without EXCEPT ![dstRep] = writeCheckpoint(@, now, currentVotes(@) + amount)]

canTransfer(token, src, dst, amount) ==
  /\ amount <= token.balances[src]
  /\ canMove(token.checkpoints, token.delegates[src], token.delegates[dst], amount)

transferTokens(token, src, dst, amount, now) ==
  LET paid == [token.balances EXCEPT ![src] = @ - amount]
  IN [balances |-> [paid EXCEPT ![dst] = @ + amount],
      delegates |-> token.delegates,
      checkpoints |-> moveDelegates(token.checkpoints, token.delegates[src], token.delegates[dst], amount, now)]

canDelegate(token, delegator, delegatee) ==
  canMove(token.checkpoints, token.delegates[delegator], delegatee, token.balances[delegator])

delegateTo(token, delegator, delegatee, now) ==
  [balances |-> token.balances,
   delegates |-> [token.delegates EXCEPT ![delegator] = delegatee],
   checkpoints |-> moveDelegates(token.checkpoints, token.delegates[delegator], delegatee,
                                 token.balances[delegator], now)]

(* A plausible slip: the search stops at the first checkpoint not before. *)
getPriorVotesNext(cps, number) ==
  LET later == {i \in DOMAIN cps : i = Len(cps) \/ cps[i].fromBlock >= number}
  IN IF cps = NoCheckpoints \/ cps[1].fromBlock > number THEN 0
     ELSE cps[CHOOSE i \in later : \A j \in later : i <= j].votes

(* The votes at the end of a block that is over: the last checkpoint, none
   before the first, or the binary search between them. *)
getPriorVotes(cps, number) ==
  LET search[range \in (DOMAIN cps) \X (DOMAIN cps)] ==
        LET lower == range[1]
            upper == range[2]
            center == upper - (upper - lower) \div 2
        IN IF lower >= upper THEN cps[lower].votes
           ELSE IF cps[center].fromBlock = number THEN cps[center].votes
           ELSE IF cps[center].fromBlock < number THEN search[<< center, upper >>]
           ELSE search[<< lower, center - 1 >>]
  IN IF cps = NoCheckpoints THEN 0
     ELSE IF cps[Len(cps)].fromBlock <= number THEN cps[Len(cps)].votes
     ELSE IF cps[1].fromBlock > number THEN 0
     ELSE search[<< 1, Len(cps) >>]
=============================================================================
