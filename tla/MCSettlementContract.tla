------------------------ MODULE MCSettlementContract ------------------------
(* Small instance of SettlementContract: an admin, a borrower and a          *)
(* financier.                                                                *)
EXTENDS SettlementContract, TLC

CONSTANTS a1, a2, a3, i1, i2, n1, n2

MCAddress == {a1, a2, a3}
MCSignerVecs == {<<a1>>}
MCParties == {<<a2, a3>>}
MCFeeWithdrawals == {-5, 5}
MCAuthFlags == {<<FALSE, TRUE, FALSE>>}
MCSymmetry == Permutations({i1, i2}) \cup Permutations({n1, n2})
=============================================================================
