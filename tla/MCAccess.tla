------------------------------ MODULE MCAccess ------------------------------
(***************************************************************************)
(* A tenant with up to three keys, two concurrent requests and a limit of  *)
(* one run a minute.                                                       *)
(***************************************************************************)
EXTENDS Access

CONSTANTS k1, k2, k3, q1, q2, a1, a2

MCKeys == {k1, k2, k3}
MCRequests == {q1, q2}
MCAdmins == {a1}
DocAdmins == {a1, a2}
MCStatuses == {"active", "paused"}
DocStatuses == {"active", "paused", "cancelled"}
=============================================================================
