-------------------------- MODULE InvoiceLifecycle --------------------------
(***************************************************************************)
(* What the invoice contract promises of an invoice's life: the state      *)
(* graph that the doc comment of enum Status draws                         *)
(* (contracts/invoice/src/lib.rs:19-27).  An invoice is minted once,       *)
(* Settled and Defaulted are terminal, and a holder may change until the   *)
(* invoice is settled.                                                     *)
(***************************************************************************)
CONSTANTS Holder, InvoiceId

VARIABLES
    life,     \* [InvoiceId -> "Absent" or a Status]
    holder    \* the owner of each minted invoice

lifecycleVars == <<life, holder>>

\* An invoice may be transferred in every minted state but Settled.
Transferable == {"Pending", "Funded", "Defaulted"}

Minting(i) ==
    /\ life[i] = "Absent"
    /\ life' = [life EXCEPT ![i] = "Pending"]
    /\ \E h \in Holder : holder' = [j \in DOMAIN holder \cup {i} |->
                                       IF j = i THEN h ELSE holder[j]]

Advance(i, from, to) ==
    /\ life[i] = from
    /\ life' = [life EXCEPT ![i] = to]
    /\ UNCHANGED holder

ChangeOfHolder(i) ==
    /\ life[i] \in Transferable
    /\ \E h \in Holder \ {holder[i]} : holder' = [holder EXCEPT ![i] = h]
    /\ UNCHANGED life

Init ==
    /\ life = [i \in InvoiceId |-> "Absent"]
    /\ holder = [i \in {} |-> {}]

Next ==
    \E i \in InvoiceId :
        \/ Minting(i)
        \/ Advance(i, "Pending", "Funded")
        \/ Advance(i, "Pending", "Defaulted")
        \/ Advance(i, "Funded", "Settled")
        \/ Advance(i, "Funded", "Defaulted")
        \/ ChangeOfHolder(i)

Spec == Init /\ [][Next]_lifecycleVars
=============================================================================
