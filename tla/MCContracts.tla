----------------------------- MODULE MCContracts -----------------------------
(* Small instances of the three contracts and of the access-control library  *)
(* each of them embeds.  A behaviour is one of a single contract, or of the  *)
(* library alone (contract): they share no storage on the chain, so their    *)
(* state spaces add up.  The library is explored with more signer sets,      *)
(* roles and ledgers than the contracts around it; its ledgers reach U32Max, *)
(* so the end of a time-lock saturates.                                      *)
EXTENDS InvoiceContract, FinancingPool, SettlementContract, TLC

CONSTANTS a1, a2, a3, i1, i2, n1, n2

VARIABLE contract

MCAddress == {a1, a2, a3}
MCSignerVecs == {<<a1>>, <<a2>>, <<a1, a2>>, <<a2, a2>>, <<a2, a3>>, <<a1, a2, a3>>}
MCRoleGrants == {<<"Pauser", a3>>, <<"LiquidityManager", a2>>, <<"Admin", a3>>}
MCOracleConfigs == {[min_discount_bps |-> 100, max_discount_bps |-> 300, enabled |-> TRUE]}
MCParties == {<<a2, a2>>}
MCAuthFlags == {<<FALSE, TRUE, FALSE>>}
MCFeeWithdrawals == {-5, 5}
MCSymmetry == Permutations({i1, i2}) \cup Permutations({n1, n2})

mcVars == <<acVars, invoiceVars, poolVars, settlementVars, contract>>

(* How far each behaviour explores the embedded library, and how many        *)
(* payments the settlement contract accepts.                                 *)
MaxAccepted == 3

Bounds ==
    [library    |-> [signers |-> MCSignerVecs, proposals |-> MCSignerVecs, timelocks |-> Timelocks,
                     roles |-> MCRoleGrants, ledger |-> MaxLedger],
     invoice    |-> [signers |-> {<<a1>>, <<a2>>}, proposals |-> {<<a1>>, <<a2>>}, timelocks |-> {1},
                     roles |-> {<<"LiquidityManager", a2>>}, ledger |-> 1],
     pool       |-> [signers |-> {<<a1>>}, proposals |-> {}, timelocks |-> {1},
                     roles |-> {<<"LiquidityManager", a2>>}, ledger |-> 1],
     settlement |-> [signers |-> {<<a1>>}, proposals |-> {}, timelocks |-> {1},
                     roles |-> {}, ledger |-> 0]]

WithinBounds ==
    LET b == Bounds[contract]
    IN  /\ multisig'.signers \in b.signers \cup {<<>>}
        /\ pendingTransfer'.new_signers \in b.proposals \cup {<<>>}
        /\ timelockLedgers' \in b.timelocks
        /\ roleHolders' \subseteq b.roles
        /\ ledger' <= b.ledger

MCInit == ICInit /\ FPInit /\ SCInit /\ contract \in DOMAIN Bounds

LibraryStep ==
    /\ contract = "library" /\ ACNext /\ WithinBounds
    /\ UNCHANGED <<invoiceVars, poolVars, settlementVars, contract>>
InvoiceStep ==
    /\ contract = "invoice" /\ ICNext /\ WithinBounds
    /\ UNCHANGED <<poolVars, settlementVars, contract>>
PoolStep ==
    /\ contract = "pool" /\ FPNext /\ WithinBounds
    /\ UNCHANGED <<invoiceVars, settlementVars, contract>>
SettlementStep ==
    /\ contract = "settlement" /\ SCNext /\ WithinBounds
    /\ accepted'[i1] + accepted'[i2] <= MaxAccepted
    /\ UNCHANGED <<invoiceVars, poolVars, contract>>

MCNext == LibraryStep \/ InvoiceStep \/ PoolStep \/ SettlementStep

MCSpec == MCInit /\ [][MCNext]_mcVars
=============================================================================
