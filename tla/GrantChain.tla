----------------------------- MODULE GrantChain -----------------------------
(***************************************************************************)
(* What the grant store promises about one-time credentials, abstractly:   *)
(* a grant is a chain of credentials, the authorization code first and     *)
(* then one refresh token after the other.  A credential is spent at most  *)
(* once, a token pair is minted only for a credential that was spent, and  *)
(* the next one can be spent only after it was minted: at no time are two  *)
(* credentials of a grant redeemable (docs/MCP.md, "Grants and tokens").   *)
(* A chain may end anywhere: a lost answer or a crash leaves a credential  *)
(* spent and nothing minted, and the client authorizes again.              *)
(***************************************************************************)
EXTENDS Naturals

CONSTANT Grant

VARIABLES
    spent,   \* spent[g]: redemptions of g's credentials that succeeded
    issued   \* issued[g]: token pairs minted under g

Init ==
    /\ spent  = [g \in Grant |-> 0]
    /\ issued = [g \in Grant |-> 0]

Spend(g) ==
    /\ spent[g] = issued[g]
    /\ spent' = [spent EXCEPT ![g] = @ + 1]
    /\ UNCHANGED issued

Issue(g) ==
    /\ issued[g] < spent[g]
    /\ issued' = [issued EXCEPT ![g] = @ + 1]
    /\ UNCHANGED spent

Next == \E g \in Grant : Spend(g) \/ Issue(g)

Spec == Init /\ [][Next]_<<spent, issued>>
=============================================================================
