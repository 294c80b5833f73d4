--------------------------- MODULE MCFinancingPool ---------------------------
(* Small instance of FinancingPool: an admin, a liquidity provider and a     *)
(* farmer, two invoices, amounts around the rounding edges of a discount of  *)
(* 10%, and a face value whose product overflows I128Max.                    *)
EXTENDS FinancingPool, TLC

CONSTANTS a1, a2, a3

MCAddress == {a1, a2, a3}
MCSignerVecs == {<<a1>>}
MCRoleGrants == {<<"LiquidityManager", a2>>}
MCOracleConfigs == {[min_discount_bps |-> 100, max_discount_bps |-> 300, enabled |-> TRUE]}
=============================================================================
