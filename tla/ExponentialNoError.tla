------------------------- MODULE ExponentialNoError -------------------------
(***************************************************************************)
(* The fixed-point arithmetic of contracts/ExponentialNoError.sol.  An Exp *)
(* is its mantissa, a natural number that stands for mantissa / expScale,  *)
(* and every quotient truncates.  The scale is a parameter: 10^18 in the   *)
(* contracts, small in the models TLC explores (TLC's integers have 32     *)
(* bits).  Checked overflow of 256-bit words cannot be reached at these    *)
(* sizes, and a subtraction that would underflow is a guard of its caller. *)
(***************************************************************************)
EXTENDS Naturals

CONSTANT expScale   \* the mantissa of one

ASSUME ExpScaleAssumption == expScale \in Nat \ {0}

truncate(exp) == exp \div expScale

mul_ScalarTruncate(exp, scalar) == truncate(exp * scalar)

mul_ScalarTruncateAddUInt(exp, scalar, addend) ==
    truncate(exp * scalar) + addend

\* mul_(Exp, Exp) and mul_(uint, Exp) compute the same quotient
mul_Exp(a, exp) == (a * exp) \div expScale

\* div_(uint, Exp) and div_(Exp, Exp); a zero divisor reverts: a caller's guard
div_Exp(a, exp) == (a * expScale) \div exp
=============================================================================
