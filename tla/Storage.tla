------------------------------ MODULE Storage ------------------------------
(***************************************************************************)
(* A contract's keyed storage: a function whose domain is the set of keys  *)
(* that are present.  Set is env.storage().set, Remove is                  *)
(* env.storage().remove, and Get is get(..).unwrap_or(default).            *)
(* Sum(f, n) is f[1] + ... + f[n], the total of a quantity over records    *)
(* that are numbered from 1, as the contracts' counters number them.       *)
(***************************************************************************)
EXTENDS Integers

Empty == [k \in {} |-> {}]

Has(store, k) == k \in DOMAIN store

Get(store, k, default) == IF k \in DOMAIN store THEN store[k] ELSE default

Set(store, k, v) == [x \in DOMAIN store \cup {k} |-> IF x = k THEN v ELSE store[x]]

Remove(store, keys) == [x \in DOMAIN store \ keys |-> store[x]]

Sum(f, n) ==
    LET partial[i \in 0..n] == IF i = 0 THEN 0 ELSE partial[i - 1] + f[i]
    IN  partial[n]
=============================================================================
