--------------------------- MODULE MCRunLifecycle ---------------------------
(***************************************************************************)
(* One tenant with paid credits and an agent of two skills, each reserving *)
(* one credit; a metered call may turn out to cost two.                    *)
(***************************************************************************)
EXTENDS DocumentedRun, TLC

CONSTANTS t1, r1, e1

MCTenants == {t1}
MCRuns == {r1}
MCOwner == r1 :> t1
MCEvents == {e1}
MCEventTenant == e1 :> t1
MCEventCredits == e1 :> 2
None == {}
NoFunction == <<>>
MCRequired == <<1, 1>>
MCCharges == {1, 2}
=============================================================================
