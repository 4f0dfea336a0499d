--------------------------- MODULE MCGovernorBravo ---------------------------
(***************************************************************************)
(* Instance of GovernorBravo: two holders of two votes each, where two are *)
(* a quorum; proposals that change the Timelock's delay within and beyond  *)
(* its bounds, give it away, or call something else.                       *)
(***************************************************************************)
EXTENDS GovernorBravo

CONSTANTS alice, bob, deployer

MCAccounts == {alice, bob}
MCOfficials == {deployer}
MCGenesis == [a \in MCAccounts |-> 2]
MCFirstDelegates == {[a \in MCAccounts |-> a]}
SetDelay(delay) == [call |-> "setDelay", arg |-> delay]
SetPendingAdmin_(who) == [call |-> "setPendingAdmin", arg |-> who]
Other == [call |-> "other", arg |-> 0]
Errand == { << SetDelay(2) >> }
Quarrel == { << Other >>, << Other, SetDelay(3) >> }
Coup == { << SetPendingAdmin_(Deployer) >> }
MCAgendas == {Errand, Quarrel, Coup}
MCInstalling == { << SetPendingAdmin_(Bravo) >> }
Budget(m, p, b, s, agenda) == [moves |-> m, proposals |-> p, ballots |-> b, settings |-> s, agenda |-> agenda]
MCBudgets == {
  Budget(0, 2, 2, 0, Quarrel),   \* two proposals that share an action
  Budget(1, 1, 1, 0, Errand),    \* tokens that move while there is a vote
  Budget(3, 0, 0, 0, Errand),    \* tokens that move often
  Budget(0, 1, 1, 2, Coup) }     \* the Timelock changes hands
=============================================================================
