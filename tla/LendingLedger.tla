---------------------------- MODULE LendingLedger ----------------------------
(***************************************************************************)
(* What lending markets promise to those who use them, without accounts of *)
(* interest, blocks or a Comptroller.  A market has a book: its cash, what *)
(* is lent out, the part that is the market's own reserve, and what each   *)
(* holder has of its tokens and owes to it.  Tokens are bought and sold at *)
(* the price that the book gives them, rounded in favour of the others; a  *)
(* debt is made by a loan, grows by interest alone, and is settled unit by *)
(* unit; tokens are taken only for a debt that somebody pays.              *)
(***************************************************************************)
EXTENDS Naturals

CONSTANTS Markets, Holders,
          Scale             \* a price of Scale is one unit for one token

VARIABLES book,             \* of every market
          wallet            \* what every holder has of a market's underlying

Book == [cash : Nat, lent : Nat, reserves : Nat, supply : Nat, firstPrice : Nat \ {0},
         tokens : [Holders -> Nat], owed : [Holders -> Nat]]

nothing == [h \in Holders |-> 0]

(* The units that back the tokens, shared by the tokens there are *)
price(b) == IF b.supply = 0 THEN b.firstPrice
            ELSE ((b.cash + b.lent - b.reserves) * Scale) \div b.supply

bought(b, units) == (units * Scale) \div price(b)   \* tokens for units
worth(b, n) == (price(b) * n) \div Scale            \* units for n tokens

write(m, b) == book' = [book EXCEPT ![m] = b]
pay(m, payer, units) == wallet' = [wallet EXCEPT ![m][payer] = @ - units]

(* A transfer out of which a token may keep a fee *)
payOut(m, to, units) ==
    \E arrived \in 0 .. units : wallet' = [wallet EXCEPT ![m][to] = @ + arrived]

(* Nothing is lent yet, and at most one holder has made a first deposit. *)
LedgerInit ==
    /\ wallet \in [Markets -> [Holders -> Nat]]
    /\ book \in [Markets -> Book]
    /\ \A m \in Markets : \E h \in Holders :
          LET b == book[m]
          IN  /\ b.lent = 0 /\ b.reserves = 0 /\ b.owed = nothing
              /\ b.supply = (b.cash * Scale) \div b.firstPrice
              /\ b.tokens = [nothing EXCEPT ![h] = b.supply]
-----------------------------------------------------------------------------
(* The underlying may keep a part of what is paid: what arrives counts. *)

deposited(b, h, x) ==
    [b EXCEPT !.cash = @ + x, !.supply = @ + bought(b, x), !.tokens[h] = @ + bought(b, x)]

Deposit(m, payer, h) ==
    /\ price(book[m]) # 0
    /\ \E paid \in 0 .. wallet[m][payer] :
          /\ pay(m, payer, paid)
          /\ \E x \in 0 .. paid : write(m, deposited(book[m], h, x))

(* Either the tokens or the units are chosen, and the others rounded down. *)
withdrawn(b, h, n, x) == [b EXCEPT !.cash = @ - x, !.supply = @ - n, !.tokens[h] = @ - n]

Withdraw(m, h) ==
    LET b == book[m]
    IN  \E n \in 0 .. b.tokens[h], x \in 0 .. b.cash :
           /\ x = worth(b, n) \/ (price(b) # 0 /\ n = bought(b, x))
           /\ n = 0 => x = 0
           /\ payOut(m, h, x)
           /\ write(m, withdrawn(b, h, n, x))

Move(m, src, dst) ==
    LET b == book[m]
    IN  /\ src # dst
        /\ UNCHANGED wallet
        /\ \E n \in 0 .. b.tokens[src] :
              write(m, [b EXCEPT !.tokens = [b.tokens EXCEPT ![src] = @ - n, ![dst] = @ + n]])

lentTo(b, h, x) == [b EXCEPT !.cash = @ - x, !.lent = @ + x, !.owed[h] = @ + x]

Lend(m, h) ==
    \E x \in 0 .. book[m].cash : payOut(m, h, x) /\ write(m, lentTo(book[m], h, x))

(* The book after x of h's debt were paid *)
settled(b, h, x) == [b EXCEPT !.cash = @ + x, !.lent = @ - x, !.owed[h] = @ - x]
canSettle(b, h, x) == x <= b.owed[h] /\ x <= b.lent

Settle(m, payer, h) ==
    \E paid \in 0 .. wallet[m][payer] :
       /\ pay(m, payer, paid)
       /\ \E x \in 0 .. paid :
             canSettle(book[m], h, x) /\ write(m, settled(book[m], h, x))

(* The book after n tokens of debtor went to liquidator, but for p that are
   burnt for r units of reserves *)
seized(b, debtor, liquidator, n, p, r) ==
    [b EXCEPT !.supply = @ - p, !.reserves = @ + r,
              !.tokens = [b.tokens EXCEPT ![debtor] = @ - n, ![liquidator] = @ + (n - p)]]

(* Whoever pays x of another's debt in m may get tokens of the debtor in c. *)
Liquidate(m, c, liquidator, debtor) ==
    /\ liquidator # debtor
    /\ \E paid \in 0 .. wallet[m][liquidator] :
          /\ pay(m, liquidator, paid)
          /\ \E x \in 0 .. paid :
                LET repaid == settled(book[m], debtor, x)
                    b      == IF c = m THEN repaid ELSE book[c]
                IN  /\ canSettle(book[m], debtor, x)
                    /\ \E n \in 0 .. b.tokens[debtor] :
                          /\ x = 0 => n = 0
                          /\ \E p \in 0 .. n : \E r \in 0 .. worth(b, p) :
                                book' = [book EXCEPT ![m] = repaid,
                                                     ![c] = seized(b, debtor, liquidator, n, p, r)]

ToReserves(m, payer) ==
    \E paid \in 0 .. wallet[m][payer] :
       /\ pay(m, payer, paid)
       /\ \E x \in 0 .. paid :
             write(m, [book[m] EXCEPT !.cash = @ + x, !.reserves = @ + x])

FromReserves(m, to) ==
    LET b == book[m]
    IN  \E x \in 0 .. b.cash :
           /\ x <= b.reserves
           /\ payOut(m, to, x)
           /\ write(m, [b EXCEPT !.cash = @ - x, !.reserves = @ - x])
-----------------------------------------------------------------------------
(* b with higher debts, a part of the interest in the reserves, and nobody
   in debt who was not *)
charged(b, b_) ==
    /\ b_ = [b EXCEPT !.lent = b_.lent, !.reserves = b_.reserves, !.owed = b_.owed]
    /\ b.lent <= b_.lent /\ (b.lent = 0 => b_.lent = 0)
    /\ b.reserves <= b_.reserves /\ b_.reserves - b.reserves <= b_.lent - b.lent
    /\ DOMAIN b_.owed = Holders
    /\ \A h \in Holders : b.owed[h] <= b_.owed[h] /\ (b.owed[h] = 0 => b_.owed[h] = 0)

(* Time passes: interest, and nothing else. *)
Interest ==
    /\ DOMAIN book' = Markets
    /\ \A m \in Markets : charged(book[m], book'[m])
    /\ UNCHANGED wallet

(* Units that come for nothing.  With them less of the market is lent, so the
   interest since its last operation can turn out lower than it stood. *)
Gift(m, giver) ==
    \E paid \in 0 .. wallet[m][giver] :
       /\ pay(m, giver, paid)
       /\ \E x \in 0 .. paid :
             LET b == [book[m] EXCEPT !.cash = @ + x]
                 lower == [b EXCEPT !.lent = book'[m].lent, !.reserves = book'[m].reserves,
                                    !.owed = book'[m].owed]
             IN  write(m, lower) /\ charged(lower, b)

LedgerNext ==
    \/ \E m \in Markets, h \in Holders :
          \/ Withdraw(m, h) \/ Lend(m, h) \/ ToReserves(m, h) \/ FromReserves(m, h) \/ Gift(m, h)
          \/ \E g \in Holders :
                \/ Deposit(m, h, g) \/ Settle(m, h, g) \/ Move(m, h, g)
                \/ \E c \in Markets : Liquidate(m, c, h, g)
    \/ Interest

LedgerSpec == LedgerInit /\ [][LedgerNext]_<<book, wallet>>
=============================================================================
