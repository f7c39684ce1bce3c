------------------------------ MODULE PaidRun -------------------------------
(***************************************************************************)
(* What a tenant is promised about a paid run, with no queue, no workers   *)
(* and no retries: credits are held before any skill is executed, each     *)
(* skill of the sequence is executed at most once and in order, and the    *)
(* hold ends once: billed what a prefix of the skills cost, released, or,  *)
(* while it is in doubt what became of a started skill, billed what an     *)
(* operator decides.                                                       *)
(***************************************************************************)
EXTENDS Sums

CONSTANTS Runs, Length, Charges, MaxCredits

Steps == 1 .. Length

VARIABLES account,    \* "none", "held", "billed" or "released"
          amount,     \* what is held for the run
          bill,       \* what it was billed
          started,    \* which skills were executed, with or without a result
          cost,       \* what each completed skill costs
          doubtful    \* runs an operator has to decide about

vars == <<account, amount, bill, started, cost, doubtful>>

Init ==
    /\ account = [r \in Runs |-> "none"]
    /\ amount = [r \in Runs |-> 0]
    /\ bill = [r \in Runs |-> 0]
    /\ started = [r \in Runs |-> {}]
    /\ cost = [r \in Runs |-> [i \in Steps |-> 0]]
    /\ doubtful = {}

Admit(r, a) ==
    /\ account[r] = "none"
    /\ account' = [account EXCEPT ![r] = "held"]
    /\ amount' = [amount EXCEPT ![r] = a]
    /\ UNCHANGED <<bill, started, cost, doubtful>>

CostBefore(r, i) == Total([j \in 1 .. i - 1 |-> cost[r][j]])

\* The next skill is executed only when its predecessors are done and the
\* credits they left are not used up.
Execute(r, i) ==
    /\ account[r] # "none"
    /\ started[r] = 1 .. i - 1
    /\ CostBefore(r, i) < amount[r]
    /\ started' = [started EXCEPT ![r] = @ \cup {i}]
    /\ UNCHANGED <<account, amount, bill, cost, doubtful>>

Complete(r, i, c) ==
    /\ i \in started[r]
    /\ cost[r][i] = 0
    /\ cost' = [cost EXCEPT ![r][i] = c]
    /\ UNCHANGED <<account, amount, bill, started, doubtful>>

Doubt(r) ==
    /\ started[r] # {}
    /\ doubtful' = doubtful \cup {r}
    /\ UNCHANGED <<account, amount, bill, started, cost>>

Clear(r) ==
    /\ doubtful' = doubtful \ {r}
    /\ UNCHANGED <<account, amount, bill, started, cost>>

\* The hold ends; an operator's decision may clear the doubt as well.
Bill(r, c) ==
    /\ account[r] = "held"
    /\ c <= amount[r]
    /\ \/ doubtful' = doubtful /\ \E i \in started[r] \cup {0} : c = CostBefore(r, i + 1)
       \/ r \in doubtful /\ doubtful' \in {doubtful, doubtful \ {r}}
    /\ account' = [account EXCEPT ![r] = "billed"]
    /\ bill' = [bill EXCEPT ![r] = c]
    /\ UNCHANGED <<amount, started, cost>>

Release(r) ==
    /\ account[r] = "held"
    /\ account' = [account EXCEPT ![r] = "released"]
    /\ doubtful' \in {doubtful, doubtful \ {r}}
    /\ UNCHANGED <<amount, bill, started, cost>>

Next ==
    \E r \in Runs :
        \/ \E a \in 1 .. MaxCredits : Admit(r, a)
        \/ \E i \in Steps : Execute(r, i)
        \/ \E i \in Steps, c \in Charges : Complete(r, i, c)
        \/ \E c \in 0 .. MaxCredits : Bill(r, c)
        \/ Release(r)
        \/ Doubt(r)
        \/ Clear(r)

Spec == Init /\ [][Next]_vars
=============================================================================
