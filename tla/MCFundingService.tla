-------------------------- MODULE MCFundingService --------------------------
(* Two requests of one key or two, for one invoice and two wallets.          *)
EXTENDS FundingService

CONSTANTS r1, r2, k1, k2, i1, w1, w2
=============================================================================
