------------------------------ MODULE Billing -------------------------------
(***************************************************************************)
(* The money tables of zomega: wallets, reservations, wallet_ledger,       *)
(* payment_events and marketplace_ledger, and the transactions of          *)
(* billing.py, of run_service._create_run and of marketplace.py that write *)
(* them.                                                                   *)
(*                                                                         *)
(* Each action is one committed transaction.  Every one of them locks the  *)
(* wallet rows it changes (FOR UPDATE) before it reads them and, where a   *)
(* reservation is closed, the reservation row before that, so committed    *)
(* transactions on one wallet are serial; a transaction that raises rolls  *)
(* back and is a stutter.                                                  *)
(*                                                                         *)
(* wallet_ledger is a function of its unique key (tenant, kind, reference) *)
(* to the magnitude of the row, 0 where there is no row: a row's amount is *)
(* never 0 and its kind fixes its sign.                                    *)
(*                                                                         *)
(* A definition marked "mutation" is not part of the model: it is the      *)
(* definition that follows it as a plausible bug would have it, kept to    *)
(* show that the properties can fail.                                      *)
(***************************************************************************)
EXTENDS Sums

CONSTANTS Tenants,
          Runs,          \* run ids; a run has one reservation
          Owner,         \* the tenant of each run
          Events,        \* provider event ids
          EventTenant,   \* the tenant a provider event pays for
          EventCredits,  \* the size of the package it pays for
          Listings,
          Seller,        \* the tenant of a listing's publisher
          Price,
          ShareBps,      \* the publisher's share in basis points
          PurchaseKeys,  \* idempotency keys of purchases
          NoListing,
          MaxCredits     \* bound on a package, a price and a reservation

ASSUME FiniteAssumption ==
    /\ IsFiniteSet(Tenants) /\ IsFiniteSet(Runs)
    /\ IsFiniteSet(Events) /\ IsFiniteSet(PurchaseKeys)
ASSUME CreditsAssumption == MaxCredits \in Nat
ASSUME RunsAssumption == Owner \in [Runs -> Tenants]
ASSUME EventsAssumption ==
    /\ EventTenant \in [Events -> Tenants]
    /\ EventCredits \in [Events -> 1 .. MaxCredits]
ASSUME ListingsAssumption ==
    /\ NoListing \notin Listings
    /\ Seller \in [Listings -> Tenants]
    /\ Price \in [Listings -> 1 .. MaxCredits]
    /\ ShareBps \in [Listings -> 0 .. 10000]

Purchases == Tenants \X PurchaseKeys
Refs == Runs \cup Events \cup Purchases
Kinds == {"credit", "reserve", "charge", "refund",
          "marketplace_charge", "marketplace_earning"}
LedgerKeys == Tenants \X Kinds \X Refs
Credits == 0 .. MaxCredits

VARIABLES available, reserved,    \* the wallet row of each tenant
          reservation,            \* the reservation row of each run
          ledger,                 \* wallet_ledger
          payment,                \* payment_events.status of each event
          purchase                \* marketplace_ledger.listing_id by buyer, key

wallet == <<available, reserved>>
vars == <<available, reserved, reservation, ledger, payment, purchase>>

ReservationStatus == {"none", "reserved", "settled", "refunded"}

TypeOK ==
    /\ available \in [Tenants -> Int]
    /\ reserved \in [Tenants -> Int]
    /\ reservation \in [Runs -> [status : ReservationStatus,
                                 amount : Credits,
                                 settled_amount : Credits]]
    /\ ledger \in [LedgerKeys -> Credits]
    /\ payment \in [Events -> {"none", "verified", "ignored"}]
    /\ purchase \in [Purchases -> Listings \cup {NoListing}]

Init ==
    /\ available = [t \in Tenants |-> 0]
    /\ reserved = [t \in Tenants |-> 0]
    /\ reservation = [r \in Runs |-> [status |-> "none", amount |-> 0,
                                      settled_amount |-> 0]]
    /\ ledger = [k \in LedgerKeys |-> 0]
    /\ payment = [e \in Events |-> "none"]
    /\ purchase = [p \in Purchases |-> NoListing]

(***************************************************************************)
(* An INSERT into wallet_ledger: the unique key refuses a second row.      *)
(***************************************************************************)
NoRow(t, kind, ref) == ledger[<<t, kind, ref>>] = 0

\* The funds check, made under the lock of the wallet row.
CoversHeldToo(t, amount) == available[t] + reserved[t] >= amount  \* mutation
Covers(t, amount) == available[t] >= amount

\* ON CONFLICT DO NOTHING on the provider's event id.
AnyEvent(e) == TRUE    \* mutation
IsNewEvent(e) == payment[e] = "none"

(***************************************************************************)
(* The webhook's transaction.  An event id seen before, in any status,     *)
(* inserts nothing and credits nothing.  The webhook verifies or ignores   *)
(* the event by the packages configured when it arrives.                   *)
(***************************************************************************)
ProcessVerifiedPayment(e, status) ==
    LET t == EventTenant[e]
        c == EventCredits[e]
    IN  /\ IsNewEvent(e)
        /\ payment' = [payment EXCEPT ![e] = status]
        /\ IF status = "verified"
           THEN /\ NoRow(t, "credit", e)
                /\ available' = [available EXCEPT ![t] = @ + c]
                /\ ledger' = [ledger EXCEPT ![<<t, "credit", e>>] = c]
           ELSE UNCHANGED <<available, ledger>>
        /\ UNCHANGED <<reserved, reservation, purchase>>

(***************************************************************************)
(* The money part of _create_run.                                          *)
(***************************************************************************)
Reserve(r, amount) ==
    LET t == Owner[r]
    IN  /\ reservation[r].status = "none"
        /\ amount > 0
        /\ Covers(t, amount)
        /\ NoRow(t, "reserve", r)
        /\ available' = [available EXCEPT ![t] = @ - amount]
        /\ reserved' = [reserved EXCEPT ![t] = @ + amount]
        /\ reservation' = [reservation EXCEPT ![r] =
               [status |-> "reserved", amount |-> amount, settled_amount |-> 0]]
        /\ ledger' = [ledger EXCEPT ![<<t, "reserve", r>>] = amount]
        /\ UNCHANGED <<payment, purchase>>

WasOpened(r) == reservation[r].status # "none"    \* mutation
IsOpen(r) == reservation[r].status = "reserved"

(***************************************************************************)
(* settle_run raises unless the reservation is open and the charge fits;   *)
(* zero rows are not written.                                              *)
(***************************************************************************)
SettleRun(r, charge) ==
    LET t == Owner[r]
        amount == reservation[r].amount
    IN  /\ IsOpen(r)
        /\ charge >= 0 /\ charge <= amount
        /\ NoRow(t, "charge", r) /\ NoRow(t, "refund", r)
        /\ reserved' = [reserved EXCEPT ![t] = @ - amount]
        /\ available' = [available EXCEPT ![t] = @ + (amount - charge)]
        /\ reservation' = [reservation EXCEPT ![r] =
               [status |-> "settled", amount |-> amount, settled_amount |-> charge]]
        /\ ledger' = [ledger EXCEPT ![<<t, "charge", r>>] = charge,
                                    ![<<t, "refund", r>>] = amount - charge]
        /\ UNCHANGED <<payment, purchase>>

(***************************************************************************)
(* refund_run returns without a write unless the reservation is open.      *)
(***************************************************************************)
RefundRun(r) ==
    LET t == Owner[r]
        amount == reservation[r].amount
    IN  /\ IsOpen(r)
        /\ NoRow(t, "refund", r)
        /\ reserved' = [reserved EXCEPT ![t] = @ - amount]
        /\ available' = [available EXCEPT ![t] = @ + amount]
        /\ reservation' = [reservation EXCEPT ![r] =
               [status |-> "refunded", amount |-> amount, settled_amount |-> @.settled_amount]]
        /\ ledger' = [ledger EXCEPT ![<<t, "refund", r>>] = amount]
        /\ UNCHANGED <<payment, purchase>>

(***************************************************************************)
(* purchase_listing.  The advisory lock on (buyer, key) makes the replay   *)
(* check and the insert one step; a replay writes nothing.  Any listing    *)
(* may be active.  The row of `purchase` stands also for the grant that is *)
(* inserted with it.                                                       *)
(***************************************************************************)
PublisherCreditsPerMille(l) == (Price[l] * ShareBps[l]) \div 1000    \* mutation
PublisherCredits(l) == (Price[l] * ShareBps[l]) \div 10000

PurchaseListing(t, key, l) ==
    LET s == Seller[l]
        p == <<t, key>>
    IN  /\ purchase[p] = NoListing
        /\ s # t
        /\ Covers(t, Price[l])
        /\ NoRow(t, "marketplace_charge", p) /\ NoRow(s, "marketplace_earning", p)
        /\ available' = [available EXCEPT ![t] = @ - Price[l],
                                          ![s] = @ + PublisherCredits(l)]
        /\ purchase' = [purchase EXCEPT ![p] = l]
        /\ ledger' = [ledger EXCEPT
               ![<<t, "marketplace_charge", p>>] = Price[l],
               ![<<s, "marketplace_earning", p>>] = PublisherCredits(l)]
        /\ UNCHANGED <<reserved, reservation, payment>>

Next ==
    \/ \E e \in Events, s \in {"verified", "ignored"} : ProcessVerifiedPayment(e, s)
    \/ \E r \in Runs, a \in Credits : Reserve(r, a)
    \/ \E r \in Runs, c \in Credits : SettleRun(r, c)
    \/ \E r \in Runs : RefundRun(r)
    \/ \E t \in Tenants, key \in PurchaseKeys, l \in Listings :
          PurchaseListing(t, key, l)

Spec == Init /\ [][Next]_vars

-----------------------------------------------------------------------------
(***************************************************************************)
(* reconcile_wallet: the two sums it queries and its verdict `ok`.         *)
(***************************************************************************)
OpenAmounts(t) ==
    [r \in Runs |-> IF Owner[r] = t /\ IsOpen(r) THEN reservation[r].amount ELSE 0]

RowsOf(t, kinds) ==
    [k \in LedgerKeys |-> IF k[1] = t /\ k[2] \in kinds THEN ledger[k] ELSE 0]

OpenReserved(t) == Total(OpenAmounts(t))

\* The kinds the query selects, by the sign their amounts have.
Earned == {"credit", "marketplace_earning"}
Spent == {"charge", "marketplace_charge"}

LedgerNet(t) == Total(RowsOf(t, Earned)) - Total(RowsOf(t, Spent))

ReconcileOk(t) ==
    /\ available[t] >= 0
    /\ reserved[t] >= 0
    /\ reserved[t] = OpenReserved(t)
    /\ available[t] + reserved[t] = LedgerNet(t)

\* The wallet_reconciler never reports a mismatch: at every commit each
\* wallet agrees with its open reservations and with its ledger, and is
\* never overdrawn (billing.py:151-156).
Reconciled == \A t \in Tenants : ReconcileOk(t)

\* The ledger tells the whole story of a run: what was reserved is what was
\* charged plus what was refunded once the reservation is closed, the charge
\* is the settled amount, and an open or absent reservation has no closing
\* row (billing.py:91-107, 124-131).
RunLedgerBalanced ==
    \A r \in Runs :
        LET t == Owner[r]
            row(kind) == ledger[<<t, kind, r>>]
        IN  /\ row("reserve") = reservation[r].amount
            /\ row("charge") = reservation[r].settled_amount
            /\ row("charge") + row("refund") =
                 IF reservation[r].status \in {"settled", "refunded"}
                 THEN reservation[r].amount ELSE 0

\* A sale never creates credits: the publisher earns exactly its share of
\* what the buyer paid for that purchase, and at most the price, and only a
\* recorded purchase has ledger rows (marketplace.py:129-165).
SaleConserved ==
    \A p \in Purchases :
        LET l == purchase[p]
            paid == ledger[<<p[1], "marketplace_charge", p>>]
        IN  IF l = NoListing
            THEN \A t \in Tenants : /\ NoRow(t, "marketplace_charge", p)
                                    /\ NoRow(t, "marketplace_earning", p)
            ELSE /\ paid = Price[l]
                 /\ Seller[l] # p[1]
                 /\ ledger[<<Seller[l], "marketplace_earning", p>>] = PublisherCredits(l)
                 /\ PublisherCredits(l) <= paid

\* A provider event is credited at most once, and only when it was recorded
\* as verified; nothing later takes the credit back (billing.py:30-69).
PaymentCreditedOnce ==
    \A e \in Events :
        ledger[<<EventTenant[e], "credit", e>>] =
            IF payment[e] = "verified" THEN EventCredits[e] ELSE 0

\* A reservation is closed at most once and keeps the amount it was made
\* with: whoever closes it second, in whatever order the worker, the reaper,
\* a cancellation and an operator arrive, changes nothing (billing.py:76,115).
ReservationClosedOnce ==
    [][\A r \in Runs :
          reservation[r].status # "none" =>
             /\ reservation'[r].amount = reservation[r].amount
             /\ reservation[r].status # "reserved" => reservation'[r] = reservation[r]
      ]_vars

-----------------------------------------------------------------------------
(***************************************************************************)
(* Billing implements Escrow.  What a tenant owns is what its ledger says, *)
(* not what its wallet row says: the implementation's guards read the      *)
(* wallet row, so it is only right while the two agree.                    *)
(***************************************************************************)
Promise == INSTANCE Escrow WITH
    funds <- [t \in Tenants |-> LedgerNet(t)],
    hold <- [r \in Runs |-> IF IsOpen(r) THEN reservation[r].amount ELSE 0],
    closed <- {r \in Runs : reservation[r].status \in {"settled", "refunded"}}

\* Every committed transaction is a deposit, a hold, a capture, a release or
\* a transfer of the abstract escrow account, or changes none of it.
EscrowSpec == Promise!Spec
=============================================================================
