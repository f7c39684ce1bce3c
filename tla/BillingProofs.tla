--------------------------- MODULE BillingProofs ----------------------------
(***************************************************************************)
(* Theorems of Billing for every set of tenants, runs, events, listings    *)
(* and every bound on credits.                                             *)
(***************************************************************************)
EXTENDS Billing, SumTheorems

-----------------------------------------------------------------------------
(* The publisher's share.                                                  *)

\* Rounding down a share of at most 10000 basis points never pays out more
\* than the price.
LEMMA ShareBound ==
    ASSUME NEW l \in Listings
    PROVE  PublisherCredits(l) \in 0 .. Price[l]
<1> DEFINE p == Price[l]
           b == ShareBps[l]
           n == p * b
<1>1. p \in Nat /\ b \in Nat /\ b <= 10000
  <2>1. p \in 1 .. MaxCredits /\ b \in 0 .. 10000
    BY ListingsAssumption
  <2> HIDE DEF p, b
  <2> QED
    BY <2>1, CreditsAssumption
<1>2. n \in Nat /\ n <= 10000 * p
  <2> HIDE DEF p, b
  <2> QED
    BY <1>1, Z3
<1>3. n \div 10000 \in 0 .. p
  <2> HIDE DEF p, n
  <2> QED
    BY <1>1, <1>2, Z3
<1> QED
  BY <1>3 DEF PublisherCredits

LEMMA PriceType ==
    ASSUME NEW l \in Listings
    PROVE  /\ Seller[l] \in Tenants
           /\ Price[l] \in Nat /\ Price[l] > 0 /\ Price[l] \in Credits
           /\ PublisherCredits(l) \in Nat
           /\ PublisherCredits(l) <= Price[l]
           /\ PublisherCredits(l) \in Credits
<1>1. Seller[l] \in Tenants /\ Price[l] \in 1 .. MaxCredits
  BY ListingsAssumption
<1>2. PublisherCredits(l) \in 0 .. Price[l]
  BY ShareBound
<1> HIDE DEF PublisherCredits
<1> QED
  BY <1>1, <1>2, CreditsAssumption DEF Credits

-----------------------------------------------------------------------------
(* Type correctness.                                                       *)

LEMMA InitType == Init => TypeOK
  BY CreditsAssumption DEF Init, TypeOK, Credits, ReservationStatus

LEMMA ReserveType ==
    ASSUME TypeOK, NEW r \in Runs, NEW a \in Credits, Reserve(r, a)
    PROVE  TypeOK'
<1> USE CreditsAssumption DEF TypeOK, Credits
<1>1. Owner[r] \in Tenants
  BY RunsAssumption
<1>2. available' \in [Tenants -> Int] /\ reserved' \in [Tenants -> Int]
  BY <1>1 DEF Reserve
<1>3. reservation' \in [Runs -> [status : ReservationStatus, amount : Credits,
                                 settled_amount : Credits]]
  BY DEF Reserve, ReservationStatus
<1>4. ledger' \in [LedgerKeys -> Credits]
  BY DEF Reserve
<1> QED
  BY <1>2, <1>3, <1>4 DEF Reserve

LEMMA SettleType ==
    ASSUME TypeOK, NEW r \in Runs, NEW c \in Credits, SettleRun(r, c)
    PROVE  TypeOK'
<1> USE CreditsAssumption DEF TypeOK, Credits
<1>1. Owner[r] \in Tenants /\ reservation[r].amount \in Credits
  BY RunsAssumption
<1>2. available' \in [Tenants -> Int] /\ reserved' \in [Tenants -> Int]
  BY <1>1 DEF SettleRun
<1>3. reservation' \in [Runs -> [status : ReservationStatus, amount : Credits,
                                 settled_amount : Credits]]
  BY <1>1 DEF SettleRun, ReservationStatus
<1>4. ledger' \in [LedgerKeys -> Credits]
  <2>1. reservation[r].amount - c \in Credits
    BY <1>1 DEF SettleRun
  <2> QED
    BY <2>1 DEF SettleRun
<1> QED
  BY <1>2, <1>3, <1>4 DEF SettleRun

LEMMA RefundType ==
    ASSUME TypeOK, NEW r \in Runs, RefundRun(r)
    PROVE  TypeOK'
<1> USE CreditsAssumption DEF TypeOK, Credits
<1>1. /\ Owner[r] \in Tenants
      /\ reservation[r].amount \in Credits
      /\ reservation[r].settled_amount \in Credits
  BY RunsAssumption
<1>2. available' \in [Tenants -> Int] /\ reserved' \in [Tenants -> Int]
  BY <1>1 DEF RefundRun
<1>3. reservation' \in [Runs -> [status : ReservationStatus, amount : Credits,
                                 settled_amount : Credits]]
  BY <1>1 DEF RefundRun, ReservationStatus
<1>4. ledger' \in [LedgerKeys -> Credits]
  BY <1>1 DEF RefundRun
<1> QED
  BY <1>2, <1>3, <1>4 DEF RefundRun

LEMMA PurchaseType ==
    ASSUME TypeOK, NEW t \in Tenants, NEW key \in PurchaseKeys,
           NEW l \in Listings, PurchaseListing(t, key, l)
    PROVE  TypeOK'
<1>1. /\ Seller[l] \in Tenants
      /\ Price[l] \in Nat /\ Price[l] \in Credits
      /\ PublisherCredits(l) \in Nat /\ PublisherCredits(l) \in Credits
  BY PriceType
<1> HIDE DEF PublisherCredits
<1>2. available' \in [Tenants -> Int] /\ reserved' \in [Tenants -> Int]
  BY <1>1 DEF PurchaseListing, TypeOK
<1>3. ledger' \in [LedgerKeys -> Credits]
  BY <1>1 DEF PurchaseListing, TypeOK
<1> QED
  BY <1>2, <1>3 DEF PurchaseListing, TypeOK

LEMMA StepType ==
    ASSUME TypeOK, [Next]_vars
    PROVE  TypeOK'
<1>1. ASSUME NEW e \in Events, NEW s \in {"verified", "ignored"},
             ProcessVerifiedPayment(e, s)
      PROVE  TypeOK'
  <2>1. EventTenant[e] \in Tenants /\ EventCredits[e] \in 1 .. MaxCredits
    BY EventsAssumption
  <2> QED
    BY <1>1, <2>1, CreditsAssumption DEF ProcessVerifiedPayment, TypeOK, Credits
<1>2. CASE UNCHANGED vars
  BY <1>2 DEF vars, TypeOK
<1> QED
  BY <1>1, <1>2, ReserveType, SettleType, RefundType, PurchaseType DEF Next

\* Every column keeps its type: statuses are the code's, amounts stay within
\* the bound (models.py).
THEOREM TypeCorrect == Spec => []TypeOK
<1>1. Init => TypeOK
  BY InitType
<1>2. TypeOK /\ [Next]_vars => TypeOK'
  BY StepType
<1> QED
  BY <1>1, <1>2, PTL DEF Spec

-----------------------------------------------------------------------------
(* Sums over the tables.                                                   *)

LEMMA PairFinite == ASSUME NEW x, NEW y PROVE IsFiniteSet({x, y})
<1>1. {x, y} = {x} \cup {y}
  OBVIOUS
<1>2. IsFiniteSet({x}) /\ IsFiniteSet({y})
  BY FS_Singleton
<1>3. IsFiniteSet({x} \cup {y})
  BY <1>2, FS_Union
<1> QED
  BY <1>1, <1>3

LEMMA KindsFinite == IsFiniteSet(Kinds)
<1>1. IsFiniteSet({"credit", "reserve"}) /\ IsFiniteSet({"charge", "refund"})
      /\ IsFiniteSet({"marketplace_charge", "marketplace_earning"})
  BY PairFinite
<1>2. Kinds = ({"credit", "reserve"} \cup {"charge", "refund"})
              \cup {"marketplace_charge", "marketplace_earning"}
  BY DEF Kinds
<1> QED
  BY <1>1, <1>2, FS_Union

LEMMA KeysFinite == IsFiniteSet(LedgerKeys)
<1> DEFINE Pairs == (Tenants \X Kinds) \X Refs
           f == [p \in Pairs |-> <<p[1][1], p[1][2], p[2]>>]
<1>1. IsFiniteSet(Refs)
  <2>1. IsFiniteSet(Purchases)
    BY FiniteAssumption, FS_Product DEF Purchases
  <2>2. IsFiniteSet(Runs \cup Events)
    BY FiniteAssumption, FS_Union
  <2> QED
    BY <2>1, <2>2, FS_Union DEF Refs
<1>2. IsFiniteSet(Pairs)
  <2>1. IsFiniteSet(Tenants \X Kinds)
    BY FiniteAssumption, KindsFinite, FS_Product
  <2> QED
    BY <1>1, <2>1, FS_Product
<1>3. f \in Surjection(Pairs, LedgerKeys)
  <2>1. f \in [Pairs -> LedgerKeys]
    BY DEF LedgerKeys
  <2>2. ASSUME NEW k \in LedgerKeys
        PROVE  \E p \in Pairs : f[p] = k
    <3>1. <<<<k[1], k[2]>>, k[3]>> \in Pairs
      BY DEF LedgerKeys
    <3>2. f[<<<<k[1], k[2]>>, k[3]>>] = k
      BY <3>1 DEF LedgerKeys
    <3> QED
      BY <3>1, <3>2
  <2> QED
    BY <2>1, <2>2 DEF Surjection
<1> QED
  BY <1>2, <1>3, FS_Surjection

LEMMA ColumnTypes ==
    ASSUME TypeOK, NEW t \in Tenants, NEW kinds
    PROVE  /\ OpenAmounts(t) \in [Runs -> Credits]
           /\ RowsOf(t, kinds) \in [LedgerKeys -> Credits]
           /\ Total(OpenAmounts(t)) \in Nat
           /\ Total(RowsOf(t, kinds)) \in Nat
<1>1. OpenAmounts(t) \in [Runs -> 0 .. MaxCredits]
  BY CreditsAssumption DEF TypeOK, OpenAmounts, Credits
<1>2. RowsOf(t, kinds) \in [LedgerKeys -> 0 .. MaxCredits]
  BY CreditsAssumption DEF TypeOK, RowsOf, Credits
<1>3. Total(OpenAmounts(t)) \in Nat
  BY <1>1, FiniteAssumption, CreditsAssumption, TotalType
<1>4. Total(RowsOf(t, kinds)) \in Nat
  BY <1>2, KeysFinite, CreditsAssumption, TotalType
<1> QED
  BY <1>1, <1>2, <1>3, <1>4 DEF Credits

\* When one reservation row changes, the sum of open reservations changes by
\* that row.
LEMMA OpenChange ==
    ASSUME TypeOK, TypeOK', NEW t \in Tenants, NEW r \in Runs,
           \A q \in Runs \ {r} : reservation'[q] = reservation[q]
    PROVE  OpenReserved(t)' = OpenReserved(t) - OpenAmounts(t)[r] + OpenAmounts(t)'[r]
<1> DEFINE f == OpenAmounts(t)
           g == OpenAmounts(t)'
<1>1. f \in [Runs -> 0 .. MaxCredits] /\ g \in [Runs -> 0 .. MaxCredits]
  BY CreditsAssumption DEF TypeOK, OpenAmounts, Credits
<1>2. \A q \in Runs \ {r} : g[q] = f[q]
  BY DEF OpenAmounts, IsOpen
<1>3. Total(g) = Total(f) - f[r] + g[r]
  <2> HIDE DEF f, g
  <2> QED
    BY <1>1, <1>2, FiniteAssumption, CreditsAssumption, TotalUpdate
<1> QED
  BY <1>3 DEF OpenReserved

\* When at most one ledger row of the given kinds changes, so does the sum.
LEMMA RowsChange ==
    ASSUME TypeOK, TypeOK', NEW t \in Tenants, NEW kinds, NEW k \in LedgerKeys,
           \A j \in LedgerKeys \ {k} : j[2] \in kinds => ledger'[j] = ledger[j]
    PROVE  Total(RowsOf(t, kinds))'
             = Total(RowsOf(t, kinds)) - RowsOf(t, kinds)[k] + RowsOf(t, kinds)'[k]
<1> DEFINE f == RowsOf(t, kinds)
           g == RowsOf(t, kinds)'
<1>1. f \in [LedgerKeys -> 0 .. MaxCredits] /\ g \in [LedgerKeys -> 0 .. MaxCredits]
  BY CreditsAssumption DEF TypeOK, RowsOf, Credits
<1>2. \A j \in LedgerKeys \ {k} : g[j] = f[j]
  BY DEF RowsOf
<1>3. Total(g) = Total(f) - f[k] + g[k]
  <2> HIDE DEF f, g
  <2> QED
    BY <1>1, <1>2, KeysFinite, CreditsAssumption, TotalUpdate
<1> QED
  BY <1>3

\* When no row of the given kinds changes, neither does the sum.
LEMMA RowsSame ==
    ASSUME NEW t \in Tenants, NEW kinds,
           \A j \in LedgerKeys : j[2] \in kinds => ledger'[j] = ledger[j]
    PROVE  Total(RowsOf(t, kinds))' = Total(RowsOf(t, kinds))
<1>1. RowsOf(t, kinds)' = RowsOf(t, kinds)
  BY DEF RowsOf
<1> QED
  BY <1>1

-----------------------------------------------------------------------------
(* Reconciliation.  With TypeOK it is inductive: a transaction moves the   *)
(* wallet columns and the sums by the same amounts.                        *)

LEMMA WalletTypes ==
    ASSUME TypeOK, NEW t \in Tenants
    PROVE  /\ available[t] \in Int /\ reserved[t] \in Int
           /\ OpenReserved(t) \in Nat
           /\ Total(RowsOf(t, Earned)) \in Nat
           /\ Total(RowsOf(t, Spent)) \in Nat
  BY ColumnTypes DEF TypeOK, OpenReserved

LEMMA OpenTypeNext ==
    ASSUME TypeOK', NEW t \in Tenants
    PROVE  OpenReserved(t)' \in Nat
<1>1. OpenAmounts(t)' \in [Runs -> 0 .. MaxCredits]
  BY CreditsAssumption DEF TypeOK, OpenAmounts, Credits
<1>2. Total(OpenAmounts(t)') \in Nat
  BY <1>1, FiniteAssumption, CreditsAssumption, TotalType
<1> QED
  BY <1>2 DEF OpenReserved

LEMMA InitReconciled == Init => Reconciled
<1> SUFFICES ASSUME Init, NEW t \in Tenants
             PROVE  ReconcileOk(t)
  BY DEF Reconciled
<1>1. OpenAmounts(t) = [r \in Runs |-> 0]
  BY DEF Init, OpenAmounts, IsOpen
<1>2. \A kinds : RowsOf(t, kinds) = [k \in LedgerKeys |-> 0]
  BY DEF Init, RowsOf
<1>3. OpenReserved(t) = 0
  BY <1>1, TotalZero DEF OpenReserved
<1>4. LedgerNet(t) = 0
  BY <1>2, TotalZero DEF LedgerNet
<1> QED
  BY <1>3, <1>4 DEF Init, ReconcileOk

LEMMA PaymentReconciled ==
    ASSUME TypeOK, TypeOK', Reconciled,
           NEW e \in Events, NEW s \in {"verified", "ignored"},
           ProcessVerifiedPayment(e, s), NEW t \in Tenants
    PROVE  ReconcileOk(t)'
<1> DEFINE k == <<EventTenant[e], "credit", e>>
           c == EventCredits[e]
           got == IF EventTenant[e] = t THEN c ELSE 0
<1>1. OpenReserved(t)' = OpenReserved(t)
  BY DEF ProcessVerifiedPayment, OpenReserved, OpenAmounts, IsOpen
<1>2. Total(RowsOf(t, Spent))' = Total(RowsOf(t, Spent))
  <2>1. \A j \in LedgerKeys : j[2] \in Spent => ledger'[j] = ledger[j]
    BY DEF ProcessVerifiedPayment, Spent, TypeOK
  <2> QED
    BY <2>1, RowsSame
<1>3. CASE s = "verified"
  <2>1. k \in LedgerKeys /\ c \in Nat /\ EventTenant[e] \in Tenants
    BY EventsAssumption, CreditsAssumption DEF LedgerKeys, Kinds, Refs
  <2>2. /\ ledger[k] = 0
        /\ ledger' = [ledger EXCEPT ![k] = c]
        /\ available' = [available EXCEPT ![EventTenant[e]] = @ + c]
        /\ reserved' = reserved
    BY <1>3 DEF ProcessVerifiedPayment, NoRow
  <2>3. Total(RowsOf(t, Earned))' = Total(RowsOf(t, Earned))
            - RowsOf(t, Earned)[k] + RowsOf(t, Earned)'[k]
    BY <2>1, <2>2, RowsChange DEF TypeOK
  <2>4. /\ RowsOf(t, Earned)[k] = 0
        /\ RowsOf(t, Earned)'[k] = got
    BY <2>1, <2>2 DEF RowsOf, Earned, TypeOK
  <2>5. available'[t] = available[t] + got
    BY <2>1, <2>2, WalletTypes DEF TypeOK
  <2>6. got \in Nat
    BY <2>1
  <2> HIDE DEF k, c, got
  <2>7. LedgerNet(t) \in Int /\ LedgerNet(t)' = LedgerNet(t) + got
    BY <1>2, <2>3, <2>4, <2>6, WalletTypes DEF LedgerNet
  <2>8. available[t] \in Int /\ reserved[t] \in Int /\ ReconcileOk(t)
    BY WalletTypes DEF Reconciled
  <2> QED
    BY <1>1, <2>2, <2>5, <2>6, <2>7, <2>8 DEF ReconcileOk
<1>4. CASE s = "ignored"
  <2>1. UNCHANGED <<available, reserved, ledger>>
    BY <1>4 DEF ProcessVerifiedPayment
  <2>2. Total(RowsOf(t, Earned))' = Total(RowsOf(t, Earned))
    BY <2>1, RowsSame
  <2> QED
    BY <1>1, <1>2, <2>1, <2>2 DEF Reconciled, ReconcileOk, LedgerNet
<1> QED
  BY <1>3, <1>4

LEMMA ReserveReconciled ==
    ASSUME TypeOK, TypeOK', Reconciled,
           NEW r \in Runs, NEW a \in Credits, Reserve(r, a), NEW t \in Tenants
    PROVE  ReconcileOk(t)'
<1> DEFINE moved == IF Owner[r] = t THEN a ELSE 0
<1>1. Owner[r] \in Tenants /\ a \in Nat
  BY RunsAssumption, CreditsAssumption DEF Credits
<1>2. OpenReserved(t)' = OpenReserved(t) + moved
  <2>1. OpenReserved(t)' = OpenReserved(t) - OpenAmounts(t)[r] + OpenAmounts(t)'[r]
    BY OpenChange DEF Reserve, TypeOK
  <2>2. OpenAmounts(t)[r] = 0
    BY DEF Reserve, OpenAmounts, IsOpen
  <2>3. OpenAmounts(t)'[r] = moved
    BY DEF Reserve, OpenAmounts, IsOpen, TypeOK
  <2> QED
    BY <1>1, <2>1, <2>2, <2>3, WalletTypes
<1>3. /\ Total(RowsOf(t, Earned))' = Total(RowsOf(t, Earned))
      /\ Total(RowsOf(t, Spent))' = Total(RowsOf(t, Spent))
  <2>1. \A j \in LedgerKeys : j[2] # "reserve" => ledger'[j] = ledger[j]
    BY DEF Reserve, TypeOK
  <2> QED
    BY <2>1, RowsSame DEF Earned, Spent
<1>4. /\ available'[t] = available[t] - moved
      /\ reserved'[t] = reserved[t] + moved
  BY <1>1, WalletTypes DEF Reserve, TypeOK
<1>5. available[t] >= moved
  BY <1>1, WalletTypes DEF Reserve, Covers, Reconciled, ReconcileOk
<1>6. moved \in Nat
  BY <1>1
<1> HIDE DEF moved
<1>7. LedgerNet(t) \in Int /\ LedgerNet(t)' = LedgerNet(t)
  BY <1>3, WalletTypes DEF LedgerNet
<1>8. available[t] \in Int /\ reserved[t] \in Int /\ ReconcileOk(t)
  BY WalletTypes DEF Reconciled
<1> QED
  BY <1>2, <1>4, <1>5, <1>6, <1>7, <1>8 DEF ReconcileOk

LEMMA SettleReconciled ==
    ASSUME TypeOK, TypeOK', Reconciled,
           NEW r \in Runs, NEW c \in Credits, SettleRun(r, c), NEW t \in Tenants
    PROVE  ReconcileOk(t)'
<1> DEFINE k == <<Owner[r], "charge", r>>
           a == reservation[r].amount
           released == IF Owner[r] = t THEN a ELSE 0
           charged == IF Owner[r] = t THEN c ELSE 0
<1>1. /\ Owner[r] \in Tenants /\ a \in Nat /\ c \in Nat /\ c <= a
      /\ released \in Nat /\ charged \in Nat /\ charged <= released
      /\ k \in LedgerKeys
  BY RunsAssumption, CreditsAssumption
  DEF Credits, TypeOK, SettleRun, LedgerKeys, Kinds, Refs
<1>2. OpenReserved(t)' = OpenReserved(t) - released
  <2>1. OpenReserved(t)' = OpenReserved(t) - OpenAmounts(t)[r] + OpenAmounts(t)'[r]
    BY OpenChange DEF SettleRun, TypeOK
  <2>2. OpenAmounts(t)[r] = released
    BY DEF SettleRun, OpenAmounts, IsOpen
  <2>3. OpenAmounts(t)'[r] = 0
    BY DEF SettleRun, OpenAmounts, IsOpen, TypeOK
  <2> QED
    BY <1>1, <2>1, <2>2, <2>3, WalletTypes
<1>3. Total(RowsOf(t, Earned))' = Total(RowsOf(t, Earned))
  <2>1. \A j \in LedgerKeys : j[2] \in Earned => ledger'[j] = ledger[j]
    BY DEF SettleRun, TypeOK, Earned
  <2> QED
    BY <2>1, RowsSame
<1>4. Total(RowsOf(t, Spent))' = Total(RowsOf(t, Spent)) + charged
  <2>1. \A j \in LedgerKeys \ {k} : j[2] \in Spent => ledger'[j] = ledger[j]
    BY DEF SettleRun, TypeOK, Spent
  <2>2. Total(RowsOf(t, Spent))' = Total(RowsOf(t, Spent))
            - RowsOf(t, Spent)[k] + RowsOf(t, Spent)'[k]
    BY <1>1, <2>1, RowsChange
  <2>3. ledger[k] = 0 /\ ledger'[k] = c
    BY <1>1 DEF SettleRun, NoRow, TypeOK
  <2>4. /\ RowsOf(t, Spent)[k] = 0
        /\ RowsOf(t, Spent)'[k] = charged
    BY <1>1, <2>3 DEF RowsOf, Spent
  <2> QED
    BY <1>1, <2>2, <2>4, WalletTypes
<1>5. /\ available'[t] = available[t] + (released - charged)
      /\ reserved'[t] = reserved[t] - released
  BY <1>1, WalletTypes DEF SettleRun, TypeOK
<1>6. OpenReserved(t)' \in Nat
  BY OpenTypeNext
<1> HIDE DEF released, charged, k, a
<1>7. LedgerNet(t) \in Int /\ LedgerNet(t)' = LedgerNet(t) - charged
  BY <1>1, <1>3, <1>4, WalletTypes DEF LedgerNet
<1>8. available[t] \in Int /\ reserved[t] \in Int /\ ReconcileOk(t)
  BY WalletTypes DEF Reconciled
<1> QED
  BY <1>1, <1>2, <1>5, <1>6, <1>7, <1>8 DEF ReconcileOk

LEMMA RefundReconciled ==
    ASSUME TypeOK, TypeOK', Reconciled,
           NEW r \in Runs, RefundRun(r), NEW t \in Tenants
    PROVE  ReconcileOk(t)'
<1> DEFINE moved == IF Owner[r] = t THEN reservation[r].amount ELSE 0
<1>1. Owner[r] \in Tenants /\ reservation[r].amount \in Nat /\ moved \in Nat
  BY RunsAssumption, CreditsAssumption DEF Credits, TypeOK
<1>2. OpenReserved(t)' = OpenReserved(t) - moved
  <2>1. OpenReserved(t)' = OpenReserved(t) - OpenAmounts(t)[r] + OpenAmounts(t)'[r]
    BY OpenChange DEF RefundRun, TypeOK
  <2>2. OpenAmounts(t)[r] = moved
    BY DEF RefundRun, OpenAmounts, IsOpen
  <2>3. OpenAmounts(t)'[r] = 0
    BY DEF RefundRun, OpenAmounts, IsOpen, TypeOK
  <2> QED
    BY <1>1, <2>1, <2>2, <2>3, WalletTypes
<1>3. /\ Total(RowsOf(t, Earned))' = Total(RowsOf(t, Earned))
      /\ Total(RowsOf(t, Spent))' = Total(RowsOf(t, Spent))
  <2>1. \A j \in LedgerKeys : j[2] # "refund" => ledger'[j] = ledger[j]
    BY DEF RefundRun, TypeOK
  <2> QED
    BY <2>1, RowsSame DEF Earned, Spent
<1>4. /\ available'[t] = available[t] + moved
      /\ reserved'[t] = reserved[t] - moved
  BY <1>1, WalletTypes DEF RefundRun, TypeOK
<1>5. OpenReserved(t)' \in Nat
  BY OpenTypeNext
<1> HIDE DEF moved
<1>6. LedgerNet(t) \in Int /\ LedgerNet(t)' = LedgerNet(t)
  BY <1>3, WalletTypes DEF LedgerNet
<1>7. available[t] \in Int /\ reserved[t] \in Int /\ ReconcileOk(t)
  BY WalletTypes DEF Reconciled
<1> QED
  BY <1>1, <1>2, <1>4, <1>5, <1>6, <1>7 DEF ReconcileOk

LEMMA PurchaseReconciled ==
    ASSUME TypeOK, TypeOK', Reconciled,
           NEW b \in Tenants, NEW key \in PurchaseKeys, NEW l \in Listings,
           PurchaseListing(b, key, l), NEW t \in Tenants
    PROVE  ReconcileOk(t)'
<1> DEFINE s == Seller[l]
           p == <<b, key>>
           kb == <<b, "marketplace_charge", p>>
           ks == <<s, "marketplace_earning", p>>
           paid == IF b = t THEN Price[l] ELSE 0
           got == IF s = t THEN PublisherCredits(l) ELSE 0
<1> HIDE DEF PublisherCredits
<1>1. /\ s \in Tenants /\ s # b
      /\ Price[l] \in Nat /\ PublisherCredits(l) \in Nat
      /\ paid \in Nat /\ got \in Nat
  BY PriceType DEF PurchaseListing
<1>2. kb \in LedgerKeys /\ ks \in LedgerKeys
  BY <1>1 DEF LedgerKeys, Kinds, Refs, Purchases
<1>3. /\ ledger[kb] = 0 /\ ledger[ks] = 0
      /\ ledger'[kb] = Price[l] /\ ledger'[ks] = PublisherCredits(l)
      /\ \A j \in LedgerKeys \ {kb, ks} : ledger'[j] = ledger[j]
  BY <1>2 DEF PurchaseListing, NoRow, TypeOK
<1>4. Total(RowsOf(t, Earned))' = Total(RowsOf(t, Earned)) + got
  <2>1. \A j \in LedgerKeys \ {ks} : j[2] \in Earned => ledger'[j] = ledger[j]
    BY <1>3 DEF Earned
  <2>2. Total(RowsOf(t, Earned))' = Total(RowsOf(t, Earned))
            - RowsOf(t, Earned)[ks] + RowsOf(t, Earned)'[ks]
    BY <1>2, <2>1, RowsChange
  <2>3. RowsOf(t, Earned)[ks] = 0 /\ RowsOf(t, Earned)'[ks] = got
    BY <1>2, <1>3 DEF RowsOf, Earned
  <2> HIDE DEF got, ks
  <2> QED
    BY <1>1, <2>2, <2>3, WalletTypes
<1>5. Total(RowsOf(t, Spent))' = Total(RowsOf(t, Spent)) + paid
  <2>1. \A j \in LedgerKeys \ {kb} : j[2] \in Spent => ledger'[j] = ledger[j]
    BY <1>3 DEF Spent
  <2>2. Total(RowsOf(t, Spent))' = Total(RowsOf(t, Spent))
            - RowsOf(t, Spent)[kb] + RowsOf(t, Spent)'[kb]
    BY <1>2, <2>1, RowsChange
  <2>3. RowsOf(t, Spent)[kb] = 0 /\ RowsOf(t, Spent)'[kb] = paid
    BY <1>2, <1>3 DEF RowsOf, Spent
  <2> HIDE DEF paid, kb
  <2> QED
    BY <1>1, <2>2, <2>3, WalletTypes
<1>6. OpenReserved(t)' = OpenReserved(t)
  BY DEF PurchaseListing, OpenReserved, OpenAmounts, IsOpen
<1>7. /\ available'[t] = available[t] - paid + got
      /\ reserved'[t] = reserved[t]
      /\ available[t] >= paid
  BY <1>1, WalletTypes DEF PurchaseListing, Covers, TypeOK, Reconciled, ReconcileOk
<1> HIDE DEF paid, got, kb, ks, s, p
<1>8. LedgerNet(t) \in Int /\ LedgerNet(t)' = LedgerNet(t) + got - paid
  BY <1>1, <1>4, <1>5, WalletTypes DEF LedgerNet
<1>9. available[t] \in Int /\ reserved[t] \in Int /\ ReconcileOk(t)
  BY WalletTypes DEF Reconciled
<1> QED
  BY <1>1, <1>6, <1>7, <1>8, <1>9 DEF ReconcileOk

LEMMA StepReconciled ==
    ASSUME TypeOK, Reconciled, [Next]_vars
    PROVE  Reconciled'
<1>1. TypeOK'
  BY StepType
<1>2. SUFFICES ASSUME NEW t \in Tenants
               PROVE  ReconcileOk(t)'
  BY DEF Reconciled
<1>3. CASE UNCHANGED vars
  <2>1. /\ OpenReserved(t)' = OpenReserved(t)
        /\ LedgerNet(t)' = LedgerNet(t)
    BY <1>3 DEF vars, OpenReserved, OpenAmounts, IsOpen, LedgerNet, RowsOf
  <2> QED
    BY <1>3, <2>1 DEF vars, Reconciled, ReconcileOk
<1> QED
  BY <1>1, <1>3, PaymentReconciled, ReserveReconciled, SettleReconciled,
     RefundReconciled, PurchaseReconciled DEF Next

\* At every commit, whatever transactions ran before and in whatever order,
\* every wallet agrees with its open reservations and with its ledger and
\* neither column is negative: the wallet_reconciler has nothing to report
\* (billing.py:133-156).
THEOREM AlwaysReconciled == Spec => []Reconciled
<1>1. Init => TypeOK /\ Reconciled
  BY InitType, InitReconciled
<1>2. (TypeOK /\ Reconciled) /\ [Next]_vars => (TypeOK /\ Reconciled)'
  BY StepType, StepReconciled
<1> QED
  BY <1>1, <1>2, PTL DEF Spec

(***************************************************************************)
(* A reservation is closed once.                                           *)
(***************************************************************************)

\* What each transaction may do to one reservation row.
LEMMA ReservationStep ==
    ASSUME TypeOK, [Next]_vars, NEW r \in Runs, reservation[r].status # "none"
    PROVE  /\ reservation'[r].amount = reservation[r].amount
           /\ reservation[r].status # "reserved" => reservation'[r] = reservation[r]
<1>1. ASSUME NEW q \in Runs, NEW a \in Credits, Reserve(q, a)
      PROVE  reservation'[r] = reservation[r]
  BY <1>1 DEF Reserve, TypeOK
<1>2. ASSUME NEW q \in Runs, NEW c \in Credits, SettleRun(q, c)
      PROVE  /\ reservation'[r].amount = reservation[r].amount
             /\ reservation[r].status # "reserved" => reservation'[r] = reservation[r]
  <2>1. CASE q = r
    BY <1>2, <2>1 DEF SettleRun, IsOpen, TypeOK
  <2>2. CASE q # r
    BY <1>2, <2>2 DEF SettleRun, TypeOK
  <2> QED
    BY <2>1, <2>2
<1>3. ASSUME NEW q \in Runs, RefundRun(q)
      PROVE  /\ reservation'[r].amount = reservation[r].amount
             /\ reservation[r].status # "reserved" => reservation'[r] = reservation[r]
  <2>1. CASE q = r
    BY <1>3, <2>1 DEF RefundRun, IsOpen, TypeOK
  <2>2. CASE q # r
    BY <1>3, <2>2 DEF RefundRun, TypeOK
  <2> QED
    BY <2>1, <2>2
<1>4. ASSUME NEW e \in Events, NEW s, ProcessVerifiedPayment(e, s)
      PROVE  reservation'[r] = reservation[r]
  BY <1>4 DEF ProcessVerifiedPayment
<1>5. ASSUME NEW t \in Tenants, NEW k \in PurchaseKeys, NEW l \in Listings,
             PurchaseListing(t, k, l)
      PROVE  reservation'[r] = reservation[r]
  BY <1>5 DEF PurchaseListing
<1>6. CASE UNCHANGED vars
  BY <1>6 DEF vars
<1> QED
  BY <1>1, <1>2, <1>3, <1>4, <1>5, <1>6 DEF Next

\* A row that is there stays.
LEMMA StatusKept ==
    ASSUME TypeOK, [Next]_vars, NEW r \in Runs, reservation[r].status # "none"
    PROVE  reservation'[r].status # "none"
<1>1. ASSUME NEW q \in Runs, NEW a \in Credits, Reserve(q, a)
      PROVE  reservation'[r].status # "none"
  BY <1>1 DEF Reserve, TypeOK
<1>2. ASSUME NEW q \in Runs, NEW c \in Credits, SettleRun(q, c)
      PROVE  reservation'[r].status # "none"
  BY <1>2 DEF SettleRun, TypeOK
<1>3. ASSUME NEW q \in Runs, RefundRun(q)
      PROVE  reservation'[r].status # "none"
  BY <1>3 DEF RefundRun, TypeOK
<1>4. ASSUME NEW e \in Events, NEW s, ProcessVerifiedPayment(e, s)
      PROVE  reservation'[r].status # "none"
  BY <1>4 DEF ProcessVerifiedPayment
<1>5. ASSUME NEW t \in Tenants, NEW k \in PurchaseKeys, NEW l \in Listings,
             PurchaseListing(t, k, l)
      PROVE  reservation'[r].status # "none"
  BY <1>5 DEF PurchaseListing
<1>6. CASE UNCHANGED vars
  BY <1>6 DEF vars
<1> QED
  BY <1>1, <1>2, <1>3, <1>4, <1>5, <1>6 DEF Next

\* Whoever closes a reservation second changes nothing of it, and its amount
\* never changes (billing.py:76, 115): the worker, the reaper, a cancellation
\* and an operator may arrive in any order.
THEOREM ClosedOnce == Spec => ReservationClosedOnce
<1>1. TypeOK /\ [Next]_vars =>
        [\A r \in Runs :
            reservation[r].status # "none" =>
               /\ reservation'[r].amount = reservation[r].amount
               /\ reservation[r].status # "reserved" => reservation'[r] = reservation[r]
        ]_vars
  BY ReservationStep
<1> QED
  BY <1>1, TypeCorrect, PTL DEF Spec, ReservationClosedOnce
=============================================================================
