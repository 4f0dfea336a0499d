---------------------------- MODULE JumpRateModel ----------------------------
(***************************************************************************)
(* contracts/JumpRateModel.sol: the borrow rate as a function of a         *)
(* market's cash, borrows and reserves.  A deployed model is a record of   *)
(* the four parameters its constructor stores.  JumpRateModelV2 computes   *)
(* the same function, and WhitePaperInterestRateModel is the case whose    *)
(* kink no utilization reaches.                                            *)
(***************************************************************************)
EXTENDS ExponentialNoError

InterestRateModel ==
    [baseRatePerBlock : Nat, multiplierPerBlock : Nat,
     jumpMultiplierPerBlock : Nat, kink : Nat]

\* The call reverts when reserves exceed cash + borrows, or equal them.
utilizationDefined(cash, borrows, reserves) ==
    borrows = 0 \/ cash + borrows > reserves

utilizationRate(cash, borrows, reserves) ==
    IF borrows = 0 THEN 0
    ELSE (borrows * expScale) \div (cash + borrows - reserves)

getBorrowRate(irm, cash, borrows, reserves) ==
    LET util       == utilizationRate(cash, borrows, reserves)
        normalRate == mul_Exp(irm.kink, irm.multiplierPerBlock) + irm.baseRatePerBlock
    IN  IF util <= irm.kink
        THEN mul_Exp(util, irm.multiplierPerBlock) + irm.baseRatePerBlock
        ELSE mul_Exp(util - irm.kink, irm.jumpMultiplierPerBlock) + normalRate
=============================================================================
