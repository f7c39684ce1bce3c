----------------------------- MODULE MCBilling ------------------------------
(***************************************************************************)
(* A small Billing: two tenants that both sell, two runs of one tenant and *)
(* one of the other, payments for each.                                    *)
(***************************************************************************)
EXTENDS Billing, TLC

CONSTANTS t1, t2, r1, r2, e1, e2, l1, l2, k1

MCTenants == {t1, t2}
MCRuns == {r1, r2}
MCOwner == r1 :> t1 @@ r2 :> t1
MCEvents == {e1, e2}
MCEventTenant == e1 :> t1 @@ e2 :> t2
MCEventCredits == e1 :> 3 @@ e2 :> 2
MCListings == {l1, l2}
MCSeller == l1 :> t2 @@ l2 :> t1
MCPrice == l1 :> 2 @@ l2 :> 1
\* 5000 of 2 credits is an exact half; 8000 of 1 credit rounds down to 0.
MCShareBps == l1 :> 5000 @@ l2 :> 8000
MCPurchaseKeys == {k1}
=============================================================================
