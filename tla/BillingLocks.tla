---------------------------- MODULE BillingLocks ----------------------------
(***************************************************************************)
(* The transactions of Billing lock by lock.  Billing takes each of them   *)
(* for one step; here a transaction takes its row and advisory locks one   *)
(* after the other, reads each row when it has its lock, waits while       *)
(* another transaction has it, and commits what it computed from the       *)
(* copies it read.  It may also end without effect at any moment: an early *)
(* return, a refusal, an error, a crash.                                   *)
(***************************************************************************)
EXTENDS Billing, Sequences

CONSTANTS Transactions,
          Rank,          \* the order of tenant ids
          NoOp

ASSUME RankAssumption ==
    /\ Rank \in [Tenants -> Nat]
    /\ \A s, t \in Tenants : Rank[s] = Rank[t] => s = t

VARIABLES op,      \* what each transaction does
          seen     \* the values it read, in the order of its locks

lockVars == <<vars, op, seen>>

Operations ==
    [kind : {"payment"}, event : Events, status : {"verified", "ignored"}]
        \cup [kind : {"reserve"}, run : Runs, amount : 1 .. MaxCredits]
        \cup [kind : {"settle"}, run : Runs, charge : Credits]
        \cup [kind : {"refund"}, run : Runs]
        \cup [kind : {"purchase"}, buyer : Tenants, key : PurchaseKeys, listing : Listings]
        \cup [kind : {"reconcile"}, tenant : Tenants]

LockInit ==
    /\ Init
    /\ op = [x \in Transactions |-> NoOp]
    /\ seen = [x \in Transactions |-> <<>>]

Wallet(t) == <<"wallet", t>>

BuyerFirst(s, t) == <<Wallet(s), Wallet(t)>>    \* mutation

\* ORDER BY tenant_id FOR UPDATE.
WalletsInOrder(s, t) ==
    IF Rank[s] < Rank[t] THEN <<Wallet(s), Wallet(t)>> ELSE <<Wallet(t), Wallet(s)>>

(***************************************************************************)
(* What a transaction locks, in its order: the unique key an INSERT ... ON *)
(* CONFLICT waits for, the advisory locks of the monthly quota and of a    *)
(* purchase key, the rows read FOR UPDATE.  reconcile_wallet reads its two *)
(* sums, which are no rows, under the lock of the wallet.                  *)
(***************************************************************************)
LockOrder(o) ==
    CASE o.kind = "payment" -> <<<<"event", o.event>>, Wallet(EventTenant[o.event])>>
      [] o.kind = "reserve" -> <<<<"quota", Owner[o.run]>>, Wallet(Owner[o.run])>>
      [] o.kind \in {"settle", "refund"} ->
            <<<<"reservation", o.run>>, Wallet(Owner[o.run])>>
      [] o.kind = "purchase" -> <<<<"purchase", <<o.buyer, o.key>>>>>>
                                 \o WalletsInOrder(o.buyer, Seller[o.listing])
      [] o.kind = "reconcile" -> <<Wallet(o.tenant), <<"open", o.tenant>>,
                                   <<"net", o.tenant>>>>

ValueOf(row) ==
    CASE row[1] = "wallet" -> <<available[row[2]], reserved[row[2]]>>
      [] row[1] = "reservation" -> reservation[row[2]]
      [] row[1] = "event" -> payment[row[2]]
      [] row[1] = "purchase" -> purchase[row[2]]
      [] row[1] = "open" -> OpenReserved(row[2])
      [] row[1] = "net" -> LedgerNet(row[2])
      [] row[1] = "quota" -> "no row"

Active(x) == op[x] # NoOp
Complete(x) == Len(seen[x]) = Len(LockOrder(op[x]))
Wanted(x) == LockOrder(op[x])[Len(seen[x]) + 1]
Holds(x, row) == Active(x) /\ \E i \in 1 .. Len(seen[x]) : LockOrder(op[x])[i] = row

FreeReservation(x, row) ==    \* mutation
    row[1] = "reservation" \/ \A y \in Transactions \ {x} : ~Holds(y, row)

FreeForReader(x, row) ==      \* mutation
    op[x].kind = "reconcile" \/ \A y \in Transactions \ {x} : ~Holds(y, row)

Free(x, row) == \A y \in Transactions \ {x} : ~Holds(y, row)

\* A run id is fresh: nobody else reserves for it.  Only a reservation that
\* was committed is closed.  The buyer of a listing is not its seller, who is
\* refused before any lock of a wallet.
Sensible(o) ==
    /\ o.kind = "reserve" =>
          /\ reservation[o.run].status = "none"
          /\ \A y \in Transactions :
                Active(y) /\ op[y].kind = "reserve" => op[y].run # o.run
    /\ o.kind \in {"settle", "refund"} => reservation[o.run].status # "none"
    /\ o.kind = "purchase" => Seller[o.listing] # o.buyer

Begin(x, o) ==
    /\ ~Active(x)
    /\ Sensible(o)
    /\ op' = [op EXCEPT ![x] = o]
    /\ UNCHANGED <<vars, seen>>

TakeLock(x) ==
    /\ Active(x) /\ ~Complete(x)
    /\ Free(x, Wanted(x))
    /\ seen' = [seen EXCEPT ![x] = Append(@, ValueOf(Wanted(x)))]
    /\ UNCHANGED <<vars, op>>

End(x) ==
    /\ op' = [op EXCEPT ![x] = NoOp]
    /\ seen' = [seen EXCEPT ![x] = <<>>]

Commit(x) ==
    LET o == op[x]
    IN  /\ Active(x) /\ Complete(x)
        /\ \/ o.kind = "payment" /\ ProcessVerifiedPayment(o.event, o.status)
           \/ o.kind = "reserve" /\ Reserve(o.run, o.amount)
           \/ o.kind = "settle" /\ SettleRun(o.run, o.charge)
           \/ o.kind = "refund" /\ RefundRun(o.run)
           \/ o.kind = "purchase" /\ PurchaseListing(o.buyer, o.key, o.listing)
        /\ End(x)

Rollback(x) ==
    /\ Active(x)
    /\ End(x)
    /\ UNCHANGED vars

LockNext ==
    \E x \in Transactions :
        \/ \E o \in Operations : Begin(x, o)
        \/ TakeLock(x)
        \/ Commit(x)
        \/ Rollback(x)

LockSpec == LockInit /\ [][LockNext]_lockVars

-----------------------------------------------------------------------------
LocksTypeOK ==
    /\ TypeOK
    /\ op \in [Transactions -> Operations \cup {NoOp}]
    /\ \A x \in Transactions :
          IF Active(x) THEN Len(seen[x]) <= Len(LockOrder(op[x])) ELSE seen[x] = <<>>

\* What a transaction has read is still true when it commits, sums included:
\* no other transaction changes a row, or a sum over rows, that it computes
\* its writes from.  This is what lets Billing take it for one step, and what
\* the locks are for (billing.py:52, 73-80, 112-118, 135;
\* run_service.py:109-111; marketplace.py:79-83, 108-113).
ReadsStayTrue ==
    \A x \in Transactions : Active(x) =>
        \A i \in 1 .. Len(seen[x]) : seen[x][i] = ValueOf(LockOrder(op[x])[i])

\* No group of transactions waits for itself: the reservation comes before
\* the wallet, advisory locks before both, and two wallets in the order of
\* their tenants (marketplace.py:108-113).
WaitsFor(x, y) == Active(x) /\ ~Complete(x) /\ Holds(y, Wanted(x)) /\ x # y

NoDeadlock ==
    \A group \in (SUBSET Transactions) \ {{}} :
        \E x \in group : \A y \in group : ~WaitsFor(x, y)

\* wallet_reconciler never reports a mismatch, although it reads the wallet
\* and the two sums in three statements (billing.py:133-156).
ReconcilerIsQuiet ==
    \A x \in Transactions :
        Active(x) /\ op[x].kind = "reconcile" /\ Complete(x) =>
            LET w == seen[x][1]
            IN  w[1] >= 0 /\ w[2] = seen[x][2] /\ w[1] + w[2] = seen[x][3]
=============================================================================
