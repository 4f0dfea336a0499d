---------------------------- MODULE MCMoneyMarket ----------------------------
(***************************************************************************)
(* Small instances of MoneyMarket.  Scale 10: a mantissa of 8 is 0.8.  The *)
(* rates per block are huge so that one block moves amounts of one unit.   *)
(***************************************************************************)
EXTENDS MoneyMarket, TLC

CONSTANTS u1, u2, comp,     \* u1 is also the Admin
          xA, xE            \* a CErc20 and a CEther

mcHolders == {u1, u2, comp}
mcModel == [baseRatePerBlock |-> 2, multiplierPerBlock |-> 5,
            jumpMultiplierPerBlock |-> 10, kink |-> 8]
mcFreeModel == [mcModel EXCEPT !.baseRatePerBlock = 0, !.multiplierPerBlock = 0]
mcModels == [m \in Markets |-> mcModel]
mcFreeModels == {mcFreeModel}
mcNoFee == [m \in Markets |-> 0]
mcUnitPrices == [m \in Markets |-> 10]
mcSpec == DeployedInit([m \in Markets |-> 8], [m \in Markets |-> 5], 1) /\ [][Next]_vars

(* Two markets: u1 lends xA and liquidates, u2 borrows xA against xE. *)
crossRates == xA :> 5 @@ xE :> 10
crossUnderlying == xA :> (u1 :> 2 @@ u2 :> 0 @@ comp :> 0)
                @@ xE :> (u1 :> 0 @@ u2 :> 3 @@ comp :> 0)
crossPriceVectors == { xA :> 20 @@ xE :> 10 }
crossSuppliers == xA :> {u1} @@ xE :> {u2}
crossBorrowers == xA :> {u2} @@ xE :> {}
crossEntered == u1 :> {} @@ u2 :> {xE}

(* One market whose underlying keeps 1 of 3 units transferred: 4/10 of them, *)
(* truncated.                                                               *)
feeRates == xA :> 5
feeUnderlying == xA :> (u1 :> 3 @@ u2 :> 6 @@ comp :> 0)
fourTenths == xA :> 4
everyone == [m \in Markets |-> Accounts]
enterAll == [a \in Accounts |-> Markets]
justU2 == [m \in Markets |-> {u2}]

(* The protocol before its first listing; u2 may become a guardian.  The    *)
(* Comptroller holds the underlying it seeds the market with.               *)
adminUnderlying == [m \in Markets |-> u1 :> 0 @@ u2 :> 1 @@ comp :> 1]
adminEntered == u1 :> {} @@ u2 :> Markets
nobody == [m \in Markets |-> {}]
noneEntered == [a \in Accounts |-> {}]

(* A first exchange rate of 1.5 underlying units per cToken *)
oddRates == [m \in Markets |-> 15]
seedUnderlying == [m \in Markets |-> u1 :> 0 @@ u2 :> 0 @@ comp :> 1]

(* u2 alone supplies and borrows; u1 liquidates. *)
unitRates == [m \in Markets |-> 10]
soleUnderlying == [m \in Markets |-> u1 :> 1 @@ u2 :> 3 @@ comp :> 0]
=============================================================================
