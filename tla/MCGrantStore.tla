---------------------------- MODULE MCGrantStore ----------------------------
(* Model-checking instances of GrantStore: ids and requests are model      *)
(* values, interchangeable.                                                *)
EXTENDS GrantStore, TLC

Interchangeable ==
    Permutations(Handler) \cup Permutations(Grant) \cup Permutations(Txn)
=============================================================================
