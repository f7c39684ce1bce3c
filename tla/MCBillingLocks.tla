--------------------------- MODULE MCBillingLocks ---------------------------
(***************************************************************************)
(* Two tenants who buy from each other, a run of one of them, and three    *)
(* concurrent transactions, which are interchangeable.                     *)
(***************************************************************************)
EXTENDS BillingLocks, TLC

CONSTANTS t1, t2, r1, e1, e2, l1, l2, k1, x1, x2, x3

MCTenants == {t1, t2}
MCRank == t1 :> 1 @@ t2 :> 2
MCRuns == {r1}
MCOwner == r1 :> t1
MCEvents == {e1, e2}
MCEventTenant == e1 :> t1 @@ e2 :> t2
MCEventCredits == e1 :> 2 @@ e2 :> 1
MCListings == {l1, l2}
MCSeller == l1 :> t2 @@ l2 :> t1
MCPrice == l1 :> 1 @@ l2 :> 1
MCShareBps == l1 :> 10000 @@ l2 :> 8000
MCPurchaseKeys == {k1}
MCTransactions == {x1, x2, x3}
Symmetry == Permutations(MCTransactions)
=============================================================================
