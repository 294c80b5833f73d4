------------------------------- MODULE Storage -------------------------------
(***************************************************************************)
(* Soroban contract storage as partial functions from keys to values: a    *)
(* key is in the DOMAIN exactly when storage().has(key).  External: the    *)
(* Soroban host, modelled from how the contracts use it.                   *)
(***************************************************************************)

\* storage().set(key, value)
Put(store, key, value) ==
    [k \in DOMAIN store \cup {key} |-> IF k = key THEN value ELSE store[k]]

\* storage().remove(key)
Remove(store, key) == [k \in DOMAIN store \ {key} |-> store[k]]

\* storage().has(key)
Has(store, key) == key \in DOMAIN store

\* storage().get(key).unwrap_or(default)
GetOr(store, key, default) == IF key \in DOMAIN store THEN store[key] ELSE default

EmptyStore == [k \in {} |-> {}]
=============================================================================
