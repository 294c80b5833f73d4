-------------------------- MODULE MCSettlementSync --------------------------
(* Small instances of SettlementSync.                                        *)
EXTENDS SettlementSync, TLC

\* Ledgers with no event, with one and with two, of which one may be foreign.
MCContents == {<<>>, <<"inv1">>, <<"inv1", "inv2">>, <<"other", "inv2">>}

\* Two events in one ledger.
MCDouble == {<<>>, <<"inv1", "inv2">>}

MCRanges == {<<2, 3>>}
MCNoRanges == {}
=============================================================================
