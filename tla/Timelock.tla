------------------------------ MODULE Timelock ------------------------------
(***************************************************************************)
(* Timelock.sol as operators on the record of its storage, each for the    *)
(* actions of one proposal and their common eta.  A transaction is what is *)
(* called and the time from which it may be: what the code hashes.  Calls  *)
(* to the Timelock itself change it, others only succeed.                  *)
(***************************************************************************)
EXTENDS Naturals

CONSTANTS MINIMUM_DELAY, MAXIMUM_DELAY, GRACE_PERIOD

ASSUME DelaysAreNaturals ==
  /\ MINIMUM_DELAY \in Nat /\ MAXIMUM_DELAY \in Nat /\ GRACE_PERIOD \in Nat
  /\ 0 < MINIMUM_DELAY /\ MINIMUM_DELAY <= MAXIMUM_DELAY /\ 0 < GRACE_PERIOD

transactions(actions, eta) == {<< actions[i], eta >> : i \in DOMAIN actions}

mayQueue(lock, caller, eta, now) == caller = lock.admin /\ eta >= now + lock.delay

queueTransactions(lock, actions, eta) ==
  [lock EXCEPT !.queued = @ \cup transactions(actions, eta)]

mayCancel(lock, caller) == caller = lock.admin

cancelTransactions(lock, actions, eta) ==
  [lock EXCEPT !.queued = @ \ transactions(actions, eta)]

(* The called function does not revert: setDelay keeps its bounds. *)
callSucceeds(action) == action.call = "setDelay" => action.arg \in MINIMUM_DELAY .. MAXIMUM_DELAY

mayExecute(lock, caller, actions, eta, now) ==
  /\ caller = lock.admin
  /\ transactions(actions, eta) \subseteq lock.queued
  /\ eta <= now /\ now <= eta + GRACE_PERIOD
  /\ \A i \in DOMAIN actions : callSucceeds(actions[i])

(* The argument of the last call of that name in a batch. *)
lastArgument(actions, name, default) ==
  LET calls == {i \in DOMAIN actions : actions[i].call = name}
  IN IF calls = {} THEN default
     ELSE actions[CHOOSE i \in calls : \A j \in calls : j <= i].arg

(* In order: each leaves the queue before its call is made. *)
executeTransactions(lock, actions, eta) ==
  [lock EXCEPT !.queued = @ \ transactions(actions, eta),
               !.delay = lastArgument(actions, "setDelay", @),
               !.pendingAdmin = lastArgument(actions, "setPendingAdmin", @)]

mayAcceptAdmin(lock, caller) == caller = lock.pendingAdmin

acceptAdmin(lock, zero) == [lock EXCEPT !.admin = lock.pendingAdmin, !.pendingAdmin = zero]
=============================================================================
