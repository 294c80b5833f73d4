----------------------------- MODULE CheckedMath -----------------------------
(***************************************************************************)
(* The checked i128 arithmetic of contracts/common/src/checked_math.rs.    *)
(* Every caller passes an Err on, which rolls the call back, so an action  *)
(* that uses a checked result has its Checked... predicate as a guard.     *)
(***************************************************************************)
EXTENDS Integers

CONSTANT I128Max   \* the largest i128

ASSUME I128Assumption == I128Max \in Nat

FitsI128(x) == -I128Max - 1 <= x /\ x <= I128Max

CheckedAdd(a, b) == FitsI128(a + b)
CheckedSub(a, b) == FitsI128(a - b)
CheckedMul(a, b) == FitsI128(a * b)
=============================================================================
