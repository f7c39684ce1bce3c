------------------------------- MODULE Escrow -------------------------------
(***************************************************************************)
(* What the credit wallet promises, with no wallet row and no ledger: a    *)
(* tenant owns funds; a run may hold a part of them; a hold ends exactly   *)
(* once, captured in part or released; nobody can spend or hold what is    *)
(* already held.  Billing implements it, with funds read off the ledger.   *)
(***************************************************************************)
EXTENDS Sums

CONSTANTS Tenants, Runs,
          Owner,        \* the tenant of each run
          MaxCredits    \* the largest amount of one operation

VARIABLES funds,        \* what each tenant owns, held or not
          hold,         \* what each run holds, 0 when it holds nothing
          closed        \* the runs whose hold has ended

vars == <<funds, hold, closed>>

HeldBy(t) == Total([r \in Runs |-> IF Owner[r] = t THEN hold[r] ELSE 0])

Spendable(t) == funds[t] - HeldBy(t)

Init ==
    /\ funds = [t \in Tenants |-> 0]
    /\ hold = [r \in Runs |-> 0]
    /\ closed = {}

Deposit(t, c) ==
    /\ funds' = [funds EXCEPT ![t] = @ + c]
    /\ UNCHANGED <<hold, closed>>

Hold(r, a) ==
    /\ r \notin closed
    /\ hold[r] = 0
    /\ a <= Spendable(Owner[r])
    /\ hold' = [hold EXCEPT ![r] = a]
    /\ UNCHANGED <<funds, closed>>

\* Capturing nothing is releasing the hold.
Capture(r, c) ==
    /\ hold[r] > 0
    /\ c <= hold[r]
    /\ funds' = [funds EXCEPT ![Owner[r]] = @ - c]
    /\ hold' = [hold EXCEPT ![r] = 0]
    /\ closed' = closed \cup {r}

\* A sale: the buyer pays p, the seller receives its share q of it.
Transfer(b, s, p, q) ==
    /\ b # s
    /\ p <= Spendable(b)
    /\ q <= p
    /\ funds' = [funds EXCEPT ![b] = @ - p, ![s] = @ + q]
    /\ UNCHANGED <<hold, closed>>

Next ==
    \/ \E t \in Tenants, c \in 1 .. MaxCredits : Deposit(t, c)
    \/ \E r \in Runs, a \in 1 .. MaxCredits : Hold(r, a)
    \/ \E r \in Runs, c \in 0 .. MaxCredits : Capture(r, c)
    \/ \E b, s \in Tenants, p \in 1 .. MaxCredits, q \in 0 .. MaxCredits :
          Transfer(b, s, p, q)

Spec == Init /\ [][Next]_vars
=============================================================================
