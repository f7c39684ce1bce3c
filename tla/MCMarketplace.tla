---------------------------- MODULE MCMarketplace ---------------------------
(***************************************************************************)
(* A buyer and a publisher who may rotate its key; two versions, each with *)
(* a listing.                                                              *)
(***************************************************************************)
EXTENDS Marketplace, TLC

CONSTANTS t1, t2, e1, l1, l2, k1, k2, v1, v2, p1, p2

MCTenants == {t1, t2}
MCOwner == <<>>
MCEvents == {e1}
MCEventTenant == e1 :> t1
MCEventCredits == e1 :> 3
MCListings == {l1, l2}
MCSeller == [l \in MCListings |-> t2]
MCPrice == l1 :> 2 @@ l2 :> 1
MCShareBps == l1 :> 5000 @@ l2 :> 8000
MCPurchaseKeys == {k1, k2}
MCVersions == {v1, v2}
MCPublicKeys == {p1, p2}
MCPublisherOf == [v \in MCVersions |-> t2]
MCVersionOf == l1 :> v1 @@ l2 :> v2
=============================================================================
