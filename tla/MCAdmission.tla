---------------------------- MODULE MCAdmission -----------------------------
(***************************************************************************)
(* A buyer and a seller; two requests of the buyer under one key, the      *)
(* same or not, and one without a key, in a month that may turn.           *)
(***************************************************************************)
EXTENDS Admission, TLC

CONSTANTS t1, t2, r1, r2, r3, e1, l1, k1, k2, b1, b2, a1, s1, s2

MCTenants == {t1, t2}
MCRuns == {r1, r2, r3}
MCOwner == [r \in MCRuns |-> t1]
Req(key, bodies, agent, skill) ==
    [key |-> key, bodies |-> bodies, agent |-> agent, skill |-> skill, amount |-> 1]
MCRequest ==
    r1 :> Req(k1, {b1}, a1, s1) @@ r2 :> Req(k1, {b1, b2}, a1, s2)
        @@ r3 :> Req(NoKey, {b1}, a1, NoSkill)
MCEvents == {e1}
MCEventTenant == [e \in MCEvents |-> t1]
MCEventCredits == [e \in MCEvents |-> 2]
MCListings == {l1}
MCSeller == l1 :> t2
MCPrice == l1 :> 1
MCShareBps == l1 :> 10000
MCPurchaseKeys == {k2}
MCControls ==
    {[agents |-> {a1}, skills |-> {s1}, runs |-> 1, credits |-> NoLimit],
     [agents |-> {}, skills |-> {}, runs |-> NoLimit, credits |-> 1]}
=============================================================================
