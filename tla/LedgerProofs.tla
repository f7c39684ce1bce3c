---------------------------- MODULE LedgerProofs ----------------------------
(***************************************************************************)
(* What the ledger of Billing says of each payment, run and sale, and that *)
(* Billing implements Escrow, for every instance.                          *)
(***************************************************************************)
EXTENDS BillingProofs

-----------------------------------------------------------------------------
(* The rows each transaction writes.                                       *)

LEMMA KeyType ==
    ASSUME NEW t \in Tenants, NEW kind \in Kinds, NEW ref \in Refs
    PROVE  <<t, kind, ref>> \in LedgerKeys
  BY DEF LedgerKeys

\* Writing one row leaves every other row as it was.
LEMMA OneRowWritten ==
    ASSUME TypeOK, NEW k \in LedgerKeys, NEW c, ledger' = [ledger EXCEPT ![k] = c]
    PROVE  /\ ledger'[k] = c
           /\ \A j \in LedgerKeys : j # k => ledger'[j] = ledger[j]
  BY DEF TypeOK

LEMMA TwoRowsWritten ==
    ASSUME TypeOK, NEW k \in LedgerKeys, NEW m \in LedgerKeys, k # m, NEW c, NEW d,
           ledger' = [ledger EXCEPT ![k] = c, ![m] = d]
    PROVE  /\ ledger'[k] = c /\ ledger'[m] = d
           /\ \A j \in LedgerKeys : j # k /\ j # m => ledger'[j] = ledger[j]
  BY DEF TypeOK

LEMMA ReserveRows ==
    ASSUME TypeOK, NEW r \in Runs, NEW a \in Credits, Reserve(r, a)
    PROVE  /\ ledger'[<<Owner[r], "reserve", r>>] = a
           /\ \A j \in LedgerKeys : j[2] # "reserve" \/ j[3] # r => ledger'[j] = ledger[j]
<1> DEFINE k == <<Owner[r], "reserve", r>>
<1>1. k \in LedgerKeys
  BY KeyType, RunsAssumption DEF Kinds, Refs
<1>2. ledger' = [ledger EXCEPT ![k] = a]
  BY DEF Reserve
<1>3. \A j \in LedgerKeys : j[2] # "reserve" \/ j[3] # r => j # k
  OBVIOUS
<1> HIDE DEF k
<1>4. /\ ledger'[k] = a
      /\ \A j \in LedgerKeys : j # k => ledger'[j] = ledger[j]
  BY <1>1, <1>2, OneRowWritten
<1> QED
  BY <1>3, <1>4 DEF k

LEMMA SettleRows ==
    ASSUME TypeOK, NEW r \in Runs, NEW c \in Credits, SettleRun(r, c)
    PROVE  /\ ledger'[<<Owner[r], "charge", r>>] = c
           /\ ledger'[<<Owner[r], "refund", r>>] = reservation[r].amount - c
           /\ \A j \in LedgerKeys : j[2] \notin {"charge", "refund"} \/ j[3] # r
                 => ledger'[j] = ledger[j]
<1> DEFINE k == <<Owner[r], "charge", r>>
           m == <<Owner[r], "refund", r>>
           back == reservation[r].amount - c
<1>1. k \in LedgerKeys /\ m \in LedgerKeys /\ k # m
  BY KeyType, RunsAssumption DEF Kinds, Refs
<1>2. ledger' = [ledger EXCEPT ![k] = c, ![m] = back]
  BY DEF SettleRun
<1>3. \A j \in LedgerKeys : j[2] \notin {"charge", "refund"} \/ j[3] # r => j # k /\ j # m
  OBVIOUS
<1> HIDE DEF k, m, back
<1>4. /\ ledger'[k] = c /\ ledger'[m] = back
      /\ \A j \in LedgerKeys : j # k /\ j # m => ledger'[j] = ledger[j]
  BY <1>1, <1>2, TwoRowsWritten
<1> QED
  BY <1>3, <1>4 DEF k, m, back

LEMMA RefundRows ==
    ASSUME TypeOK, NEW r \in Runs, RefundRun(r)
    PROVE  /\ ledger'[<<Owner[r], "refund", r>>] = reservation[r].amount
           /\ \A j \in LedgerKeys : j[2] # "refund" \/ j[3] # r => ledger'[j] = ledger[j]
<1> DEFINE k == <<Owner[r], "refund", r>>
           back == reservation[r].amount
<1>1. k \in LedgerKeys
  BY KeyType, RunsAssumption DEF Kinds, Refs
<1>2. ledger' = [ledger EXCEPT ![k] = back]
  BY DEF RefundRun
<1>3. \A j \in LedgerKeys : j[2] # "refund" \/ j[3] # r => j # k
  OBVIOUS
<1> HIDE DEF k, back
<1>4. /\ ledger'[k] = back
      /\ \A j \in LedgerKeys : j # k => ledger'[j] = ledger[j]
  BY <1>1, <1>2, OneRowWritten
<1> QED
  BY <1>3, <1>4 DEF k, back

LEMMA PaymentRows ==
    ASSUME TypeOK, NEW e \in Events, NEW s \in {"verified", "ignored"},
           ProcessVerifiedPayment(e, s)
    PROVE  /\ s = "verified" => ledger'[<<EventTenant[e], "credit", e>>] = EventCredits[e]
           /\ s # "verified" => ledger' = ledger
           /\ \A j \in LedgerKeys : j[2] # "credit" \/ j[3] # e => ledger'[j] = ledger[j]
<1> DEFINE k == <<EventTenant[e], "credit", e>>
           c == EventCredits[e]
<1>1. k \in LedgerKeys
  BY KeyType, EventsAssumption DEF Kinds, Refs
<1>2. /\ s = "verified" => ledger' = [ledger EXCEPT ![k] = c]
      /\ s # "verified" => ledger' = ledger
  BY DEF ProcessVerifiedPayment
<1>3. \A j \in LedgerKeys : j[2] # "credit" \/ j[3] # e => j # k
  OBVIOUS
<1> HIDE DEF k, c
<1>4. s = "verified" => /\ ledger'[k] = c
                        /\ \A j \in LedgerKeys : j # k => ledger'[j] = ledger[j]
  BY <1>1, <1>2, OneRowWritten
<1> QED
  BY <1>2, <1>3, <1>4 DEF k, c

LEMMA PurchaseRows ==
    ASSUME TypeOK, NEW t \in Tenants, NEW key \in PurchaseKeys, NEW l \in Listings,
           PurchaseListing(t, key, l)
    PROVE  /\ ledger'[<<t, "marketplace_charge", <<t, key>>>>] = Price[l]
           /\ ledger'[<<Seller[l], "marketplace_earning", <<t, key>>>>] = PublisherCredits(l)
           /\ \A j \in LedgerKeys :
                 \/ j[2] \notin {"marketplace_charge", "marketplace_earning"}
                 \/ j[3] # <<t, key>>
                 => ledger'[j] = ledger[j]
<1> DEFINE p == <<t, key>>
           k == <<t, "marketplace_charge", p>>
           m == <<Seller[l], "marketplace_earning", p>>
           c == Price[l]
           d == PublisherCredits(l)
<1> HIDE DEF PublisherCredits
<1>1. k \in LedgerKeys /\ m \in LedgerKeys /\ k # m
  <2>1. Seller[l] \in Tenants /\ p \in Refs
    BY PriceType DEF Refs, Purchases
  <2> HIDE DEF p
  <2> QED
    BY <2>1, KeyType DEF Kinds
<1>2. ledger' = [ledger EXCEPT ![k] = c, ![m] = d]
  BY DEF PurchaseListing
<1>3. \A j \in LedgerKeys :
         j[2] \notin {"marketplace_charge", "marketplace_earning"} \/ j[3] # p
         => j # k /\ j # m
  OBVIOUS
<1> HIDE DEF k, m, c, d, p
<1>4. /\ ledger'[k] = c /\ ledger'[m] = d
      /\ \A j \in LedgerKeys : j # k /\ j # m => ledger'[j] = ledger[j]
  BY <1>1, <1>2, TwoRowsWritten
<1> QED
  BY <1>3, <1>4 DEF k, m, c, d, p

-----------------------------------------------------------------------------
(* Payments.                                                               *)

\* The rows of a step that is no payment.
LEMMA CreditRowsKept ==
    ASSUME TypeOK, [Next]_vars, ~ \E e \in Events, s \in {"verified", "ignored"} :
                                        ProcessVerifiedPayment(e, s)
    PROVE  /\ payment' = payment
           /\ \A j \in LedgerKeys : j[2] = "credit" => ledger'[j] = ledger[j]
<1>1. ASSUME NEW r \in Runs, NEW a \in Credits, Reserve(r, a)
      PROVE  /\ payment' = payment
             /\ \A j \in LedgerKeys : j[2] = "credit" => ledger'[j] = ledger[j]
  <2>1. payment' = payment
    BY <1>1 DEF Reserve
  <2> QED
    BY <1>1, <2>1, ReserveRows
<1>2. ASSUME NEW r \in Runs, NEW c \in Credits, SettleRun(r, c)
      PROVE  /\ payment' = payment
             /\ \A j \in LedgerKeys : j[2] = "credit" => ledger'[j] = ledger[j]
  <2>1. payment' = payment
    BY <1>2 DEF SettleRun
  <2> QED
    BY <1>2, <2>1, SettleRows
<1>3. ASSUME NEW r \in Runs, RefundRun(r)
      PROVE  /\ payment' = payment
             /\ \A j \in LedgerKeys : j[2] = "credit" => ledger'[j] = ledger[j]
  <2>1. payment' = payment
    BY <1>3 DEF RefundRun
  <2> QED
    BY <1>3, <2>1, RefundRows
<1>4. ASSUME NEW t \in Tenants, NEW key \in PurchaseKeys, NEW l \in Listings,
             PurchaseListing(t, key, l)
      PROVE  /\ payment' = payment
             /\ \A j \in LedgerKeys : j[2] = "credit" => ledger'[j] = ledger[j]
  <2>1. payment' = payment
    BY <1>4 DEF PurchaseListing
  <2> QED
    BY <1>4, <2>1, PurchaseRows
<1>5. CASE UNCHANGED vars
  BY <1>5 DEF vars
<1> QED
  BY <1>1, <1>2, <1>3, <1>4, <1>5 DEF Next

LEMMA PaymentStep ==
    ASSUME TypeOK, PaymentCreditedOnce, [Next]_vars
    PROVE  PaymentCreditedOnce'
<1> SUFFICES ASSUME NEW f \in Events
             PROVE  ledger'[<<EventTenant[f], "credit", f>>] =
                       IF payment'[f] = "verified" THEN EventCredits[f] ELSE 0
  BY DEF PaymentCreditedOnce
<1> DEFINE k == <<EventTenant[f], "credit", f>>
<1>1. k \in LedgerKeys /\ k[2] = "credit" /\ k[3] = f
  BY KeyType, EventsAssumption DEF Kinds, Refs
<1>2. ledger[k] = IF payment[f] = "verified" THEN EventCredits[f] ELSE 0
  BY DEF PaymentCreditedOnce
<1>3. ASSUME NEW e \in Events, NEW s \in {"verified", "ignored"},
             ProcessVerifiedPayment(e, s)
      PROVE  ledger'[k] = IF payment'[f] = "verified" THEN EventCredits[f] ELSE 0
  <2>1. payment[e] = "none" /\ payment' = [payment EXCEPT ![e] = s]
    BY <1>3 DEF ProcessVerifiedPayment, IsNewEvent
  <2>2. CASE e = f
    <3>1. payment'[f] = s /\ ledger[k] = 0
      BY <1>2, <2>1, <2>2 DEF TypeOK
    <3> QED
      BY <1>3, <2>2, <3>1, PaymentRows
  <2>3. CASE e # f
    <3>1. payment'[f] = payment[f]
      BY <2>1, <2>3 DEF TypeOK
    <3>2. ledger'[k] = ledger[k]
      <4> HIDE DEF k
      <4> QED
        BY <1>1, <1>3, <2>3, PaymentRows
    <3> QED
      BY <1>2, <3>1, <3>2
  <2> QED
    BY <2>2, <2>3
<1> HIDE DEF k
<1>4. CASE ~ \E e \in Events, s \in {"verified", "ignored"} : ProcessVerifiedPayment(e, s)
  BY <1>1, <1>2, <1>4, CreditRowsKept DEF k
<1> QED
  BY <1>3, <1>4 DEF k

\* However often the payment provider delivers an event, and whatever runs
\* beside it, the event is credited once with its package, or never
\* (billing.py:30-69).
THEOREM CreditedOnce == Spec => []PaymentCreditedOnce
<1>1. Init => PaymentCreditedOnce
  <2> SUFFICES ASSUME Init, NEW e \in Events
               PROVE  /\ ledger[<<EventTenant[e], "credit", e>>] = 0
                      /\ payment[e] # "verified"
    BY DEF PaymentCreditedOnce
  <2>1. <<EventTenant[e], "credit", e>> \in LedgerKeys
    BY KeyType, EventsAssumption DEF Kinds, Refs
  <2> QED
    BY <2>1 DEF Init
<1>2. TypeOK /\ PaymentCreditedOnce /\ [Next]_vars => PaymentCreditedOnce'
  BY PaymentStep
<1> QED
  BY <1>1, <1>2, TypeCorrect, PTL DEF Spec

-----------------------------------------------------------------------------
(* Runs.                                                                   *)

Row(r, kind) == ledger[<<Owner[r], kind, r>>]

\* RunLedgerBalanced for one run.
RunBalanced(r) ==
    /\ Row(r, "reserve") = reservation[r].amount
    /\ Row(r, "charge") = reservation[r].settled_amount
    /\ Row(r, "charge") + Row(r, "refund") =
         IF reservation[r].status \in {"settled", "refunded"}
         THEN reservation[r].amount ELSE 0

LEMMA BalancedRuns == RunLedgerBalanced <=> \A r \in Runs : RunBalanced(r)
  BY DEF RunLedgerBalanced, RunBalanced, Row

LEMMA RowKeys ==
    ASSUME NEW r \in Runs, NEW kind \in {"reserve", "charge", "refund"}
    PROVE  <<Owner[r], kind, r>> \in LedgerKeys
  BY KeyType, RunsAssumption DEF Kinds, Refs

LEMMA RunTypes ==
    ASSUME TypeOK, NEW r \in Runs
    PROVE  /\ Row(r, "reserve") \in Nat /\ Row(r, "charge") \in Nat
           /\ Row(r, "refund") \in Nat
           /\ reservation[r].amount \in Nat /\ reservation[r].settled_amount \in Nat
           /\ reservation[r].status \in ReservationStatus
  BY RowKeys, CreditsAssumption DEF TypeOK, Credits, Row

\* A run whose rows and reservation are left alone stays balanced.
LEMMA RunKept ==
    ASSUME NEW r \in Runs, RunBalanced(r), reservation'[r] = reservation[r],
           \A kind \in {"reserve", "charge", "refund"} : Row(r, kind)' = Row(r, kind)
    PROVE  RunBalanced(r)'
  BY DEF RunBalanced

\* An open or absent reservation has no closing row.
LEMMA NoClosingRow ==
    ASSUME TypeOK, NEW r \in Runs, RunBalanced(r),
           reservation[r].status \in {"none", "reserved"}
    PROVE  Row(r, "charge") = 0 /\ Row(r, "refund") = 0 /\ reservation[r].settled_amount = 0
  BY RunTypes DEF RunBalanced

LEMMA RunReserveStep ==
    ASSUME TypeOK, NEW q \in Runs, NEW a \in Credits, Reserve(q, a),
           NEW r \in Runs, RunBalanced(r)
    PROVE  RunBalanced(r)'
<1>1. CASE q = r
  <2>1. reservation[r].status = "none"
    BY <1>1 DEF Reserve
  <2>2. reservation'[r] = [status |-> "reserved", amount |-> a, settled_amount |-> 0]
    BY <1>1 DEF Reserve, TypeOK
  <2>3. /\ Row(r, "reserve")' = a
        /\ Row(r, "charge")' = Row(r, "charge") /\ Row(r, "refund")' = Row(r, "refund")
    BY <1>1, ReserveRows, RowKeys DEF Row
  <2> QED
    BY <2>1, <2>2, <2>3, NoClosingRow DEF RunBalanced
<1>2. CASE q # r
  <2>1. reservation'[r] = reservation[r]
    BY <1>2 DEF Reserve, TypeOK
  <2>2. \A kind \in {"reserve", "charge", "refund"} : Row(r, kind)' = Row(r, kind)
    BY <1>2, ReserveRows, RowKeys DEF Row
  <2> QED
    BY <2>1, <2>2, RunKept
<1> QED
  BY <1>1, <1>2

LEMMA RunSettleStep ==
    ASSUME TypeOK, NEW q \in Runs, NEW c \in Credits, SettleRun(q, c),
           NEW r \in Runs, RunBalanced(r)
    PROVE  RunBalanced(r)'
<1>1. CASE q = r
  <2> DEFINE a == reservation[r].amount
  <2>1. reservation'[r] = [status |-> "settled", amount |-> a, settled_amount |-> c]
    BY <1>1 DEF SettleRun, TypeOK
  <2>2. /\ Row(r, "reserve")' = Row(r, "reserve")
        /\ Row(r, "charge")' = c /\ Row(r, "refund")' = a - c
    BY <1>1, SettleRows, RowKeys DEF Row
  <2>3. a \in Nat /\ c \in Nat /\ Row(r, "reserve") = a
    BY RunTypes, CreditsAssumption DEF Credits, RunBalanced
  <2> HIDE DEF a
  <2>4. c + (a - c) = a
    BY <2>3
  <2> QED
    BY <2>1, <2>2, <2>3, <2>4 DEF RunBalanced
<1>2. CASE q # r
  <2>1. reservation'[r] = reservation[r]
    BY <1>2 DEF SettleRun, TypeOK
  <2>2. \A kind \in {"reserve", "charge", "refund"} : Row(r, kind)' = Row(r, kind)
    BY <1>2, SettleRows, RowKeys DEF Row
  <2> QED
    BY <2>1, <2>2, RunKept
<1> QED
  BY <1>1, <1>2

LEMMA RunRefundStep ==
    ASSUME TypeOK, NEW q \in Runs, RefundRun(q), NEW r \in Runs, RunBalanced(r)
    PROVE  RunBalanced(r)'
<1>1. CASE q = r
  <2> DEFINE a == reservation[r].amount
  <2>1. /\ reservation[r].status = "reserved"
        /\ reservation'[r] = [status |-> "refunded", amount |-> a,
                              settled_amount |-> reservation[r].settled_amount]
    BY <1>1 DEF RefundRun, IsOpen, TypeOK
  <2>2. /\ Row(r, "reserve")' = Row(r, "reserve")
        /\ Row(r, "charge")' = Row(r, "charge") /\ Row(r, "refund")' = a
    BY <1>1, RefundRows, RowKeys DEF Row
  <2>3. /\ a \in Nat /\ Row(r, "reserve") = a
        /\ Row(r, "charge") = 0 /\ reservation[r].settled_amount = 0
    BY <2>1, RunTypes, NoClosingRow DEF RunBalanced
  <2> HIDE DEF a
  <2> QED
    BY <2>1, <2>2, <2>3 DEF RunBalanced
<1>2. CASE q # r
  <2>1. reservation'[r] = reservation[r]
    BY <1>2 DEF RefundRun, TypeOK
  <2>2. \A kind \in {"reserve", "charge", "refund"} : Row(r, kind)' = Row(r, kind)
    BY <1>2, RefundRows, RowKeys DEF Row
  <2> QED
    BY <2>1, <2>2, RunKept
<1> QED
  BY <1>1, <1>2

LEMMA RunStep ==
    ASSUME TypeOK, [Next]_vars, NEW r \in Runs, RunBalanced(r)
    PROVE  RunBalanced(r)'
<1>1. ASSUME NEW e \in Events, NEW s \in {"verified", "ignored"}, ProcessVerifiedPayment(e, s)
      PROVE  RunBalanced(r)'
  <2>1. reservation'[r] = reservation[r]
    BY <1>1 DEF ProcessVerifiedPayment
  <2>2. \A kind \in {"reserve", "charge", "refund"} : Row(r, kind)' = Row(r, kind)
    BY <1>1, PaymentRows, RowKeys DEF Row
  <2> QED
    BY <2>1, <2>2, RunKept
<1>2. ASSUME NEW t \in Tenants, NEW key \in PurchaseKeys, NEW l \in Listings,
             PurchaseListing(t, key, l)
      PROVE  RunBalanced(r)'
  <2>1. reservation'[r] = reservation[r]
    BY <1>2 DEF PurchaseListing
  <2>2. \A kind \in {"reserve", "charge", "refund"} : Row(r, kind)' = Row(r, kind)
    BY <1>2, PurchaseRows, RowKeys DEF Row
  <2> QED
    BY <2>1, <2>2, RunKept
<1>3. CASE UNCHANGED vars
  BY <1>3, RunKept DEF vars, Row
<1> QED
  BY <1>1, <1>2, <1>3, RunReserveStep, RunSettleStep, RunRefundStep DEF Next

\* The ledger tells every run whole: its reservation, and once it is closed a
\* charge and a refund that add up to it (billing.py:91-107, 124-131;
\* run_service.py:109-156).
THEOREM LedgerTellsRuns == Spec => []RunLedgerBalanced
<1>1. Init => RunLedgerBalanced
  <2> SUFFICES ASSUME Init, NEW r \in Runs PROVE RunBalanced(r)
    BY BalancedRuns
  <2>1. \A kind \in {"reserve", "charge", "refund"} : Row(r, kind) = 0
    BY RowKeys DEF Init, Row
  <2> QED
    BY <2>1 DEF Init, RunBalanced
<1>2. ASSUME TypeOK, RunLedgerBalanced, [Next]_vars
      PROVE  RunLedgerBalanced'
  <2>1. \A r \in Runs : RunBalanced(r)'
    BY <1>2, RunStep, BalancedRuns
  <2> QED
    BY <2>1 DEF RunLedgerBalanced, RunBalanced, Row
<1> QED
  BY <1>1, <1>2, TypeCorrect, PTL DEF Spec

-----------------------------------------------------------------------------
(* Sales.                                                                  *)

\* SaleConserved for one purchase.
SaleBalanced(p) ==
    IF purchase[p] = NoListing
    THEN \A t \in Tenants : /\ ledger[<<t, "marketplace_charge", p>>] = 0
                            /\ ledger[<<t, "marketplace_earning", p>>] = 0
    ELSE /\ ledger[<<p[1], "marketplace_charge", p>>] = Price[purchase[p]]
         /\ Seller[purchase[p]] # p[1]
         /\ ledger[<<Seller[purchase[p]], "marketplace_earning", p>>]
              = PublisherCredits(purchase[p])
         /\ PublisherCredits(purchase[p]) <= Price[purchase[p]]

LEMMA BalancedSales ==
    SaleConserved <=> \A p \in Purchases : SaleBalanced(p)
<1> HIDE DEF PublisherCredits
<1> QED
  BY DEF SaleConserved, SaleBalanced, NoRow

LEMMA SaleKeys ==
    ASSUME NEW p \in Purchases, NEW t \in Tenants,
           NEW kind \in {"marketplace_charge", "marketplace_earning"}
    PROVE  <<t, kind, p>> \in LedgerKeys
  BY KeyType DEF Kinds, Refs

LEMMA SaleKept ==
    ASSUME TypeOK, NEW p \in Purchases, SaleBalanced(p), purchase'[p] = purchase[p],
           \A j \in LedgerKeys :
              j[2] \in {"marketplace_charge", "marketplace_earning"} /\ j[3] = p
                 => ledger'[j] = ledger[j]
    PROVE  SaleBalanced(p)'
<1>1. \A t \in Tenants, kind \in {"marketplace_charge", "marketplace_earning"} :
         ledger'[<<t, kind, p>>] = ledger[<<t, kind, p>>]
  BY SaleKeys
<1>2. CASE purchase[p] = NoListing
  BY <1>1, <1>2 DEF SaleBalanced
<1>3. CASE purchase[p] # NoListing
  <2>1. purchase[p] \in Listings /\ p[1] \in Tenants
    BY <1>3 DEF TypeOK, Purchases
  <2>2. Seller[purchase[p]] \in Tenants
    BY <2>1, PriceType
  <2> HIDE DEF PublisherCredits
  <2>3. PublisherCredits(purchase[p])' = PublisherCredits(purchase[p])
    BY DEF PublisherCredits
  <2> QED
    BY <1>1, <1>3, <2>1, <2>2, <2>3 DEF SaleBalanced
<1> QED
  BY <1>2, <1>3

LEMMA SaleStep ==
    ASSUME TypeOK, [Next]_vars, NEW p \in Purchases, SaleBalanced(p)
    PROVE  SaleBalanced(p)'
<1> DEFINE Kept == \A j \in LedgerKeys :
                      j[2] \in {"marketplace_charge", "marketplace_earning"} /\ j[3] = p
                         => ledger'[j] = ledger[j]
<1>1. ASSUME NEW e \in Events, NEW s \in {"verified", "ignored"}, ProcessVerifiedPayment(e, s)
      PROVE  purchase'[p] = purchase[p] /\ Kept
  <2>1. purchase' = purchase
    BY <1>1 DEF ProcessVerifiedPayment
  <2> QED
    BY <1>1, <2>1, PaymentRows
<1>2. ASSUME NEW r \in Runs, NEW a \in Credits, Reserve(r, a)
      PROVE  purchase'[p] = purchase[p] /\ Kept
  <2>1. purchase' = purchase
    BY <1>2 DEF Reserve
  <2> QED
    BY <1>2, <2>1, ReserveRows
<1>3. ASSUME NEW r \in Runs, NEW c \in Credits, SettleRun(r, c)
      PROVE  purchase'[p] = purchase[p] /\ Kept
  <2>1. purchase' = purchase
    BY <1>3 DEF SettleRun
  <2> QED
    BY <1>3, <2>1, SettleRows
<1>4. ASSUME NEW r \in Runs, RefundRun(r)
      PROVE  purchase'[p] = purchase[p] /\ Kept
  <2>1. purchase' = purchase
    BY <1>4 DEF RefundRun
  <2> QED
    BY <1>4, <2>1, RefundRows
<1>5. ASSUME NEW t \in Tenants, NEW key \in PurchaseKeys, NEW l \in Listings,
             PurchaseListing(t, key, l), p # <<t, key>>
      PROVE  purchase'[p] = purchase[p] /\ Kept
  <2>1. purchase'[p] = purchase[p]
    <3>1. purchase' = [purchase EXCEPT ![<<t, key>>] = l]
      BY <1>5 DEF PurchaseListing
    <3> QED
      BY <1>5, <3>1 DEF TypeOK
  <2> QED
    BY <1>5, <2>1, PurchaseRows
<1>6. ASSUME NEW t \in Tenants, NEW key \in PurchaseKeys, NEW l \in Listings,
             PurchaseListing(t, key, l), p = <<t, key>>
      PROVE  SaleBalanced(p)'
  <2> HIDE DEF PublisherCredits
  <2>1. purchase'[p] = l /\ Seller[l] # t /\ p[1] = t
    <3>1. purchase' = [purchase EXCEPT ![<<t, key>>] = l] /\ Seller[l] # t
      BY <1>6 DEF PurchaseListing
    <3> QED
      BY <1>6, <3>1 DEF TypeOK
  <2>2. /\ ledger'[<<t, "marketplace_charge", p>>] = Price[l]
        /\ ledger'[<<Seller[l], "marketplace_earning", p>>] = PublisherCredits(l)
    BY <1>6, PurchaseRows
  <2>3. l # NoListing /\ PublisherCredits(l) <= Price[l]
    BY ListingsAssumption, PriceType
  <2>4. PublisherCredits(purchase[p])' = PublisherCredits(l)
    BY <2>1 DEF PublisherCredits
  <2> QED
    BY <2>1, <2>2, <2>3, <2>4 DEF SaleBalanced
<1>7. CASE UNCHANGED vars
  BY <1>7, SaleKept DEF vars
<1>8. purchase'[p] = purchase[p] /\ Kept => SaleBalanced(p)'
  BY SaleKept
<1> HIDE DEF Kept
<1> QED
  BY <1>1, <1>2, <1>3, <1>4, <1>5, <1>6, <1>7, <1>8 DEF Next

\* No sale creates credits, for any price and any share: a purchase charges
\* its price, credits the publisher its share, at most the price, and
\* nothing else has rows of a sale (marketplace.py:129-165).
THEOREM SalesConserve == Spec => []SaleConserved
<1>1. Init => SaleConserved
  <2> SUFFICES ASSUME Init, NEW p \in Purchases PROVE SaleBalanced(p)
    BY BalancedSales
  <2>1. purchase[p] = NoListing
    BY DEF Init
  <2>2. \A t \in Tenants, kind \in {"marketplace_charge", "marketplace_earning"} :
           ledger[<<t, kind, p>>] = 0
    BY SaleKeys DEF Init
  <2> QED
    BY <2>1, <2>2 DEF SaleBalanced
<1>2. ASSUME TypeOK, SaleConserved, [Next]_vars
      PROVE  SaleConserved'
  <2>1. \A p \in Purchases : SaleBalanced(p)'
    BY <1>2, SaleStep, BalancedSales
  <2> HIDE DEF PublisherCredits
  <2> QED
    BY <2>1 DEF SaleConserved, SaleBalanced, NoRow
<1> QED
  BY <1>1, <1>2, TypeCorrect, PTL DEF Spec

-----------------------------------------------------------------------------
(* Billing implements Escrow.                                              *)

HoldOf == [r \in Runs |-> IF IsOpen(r) THEN reservation[r].amount ELSE 0]
FundsOf == [t \in Tenants |-> LedgerNet(t)]
ClosedOf == {r \in Runs : reservation[r].status \in {"settled", "refunded"}}

LEMMA SameCardinality == ASSUME NEW S PROVE Promise!Cardinality(S) = Cardinality(S)
  BY DEF Promise!Cardinality, Cardinality, Promise!IsFiniteSet, IsFiniteSet

\* What the abstract account holds for a tenant is the sum the reconciler
\* computes, and so what the wallet row says is reserved; what it may spend
\* is what the wallet row says is available.
LEMMA SpendableIsAvailable ==
    ASSUME TypeOK, Reconciled, NEW t \in Tenants
    PROVE  Promise!Spendable(t) = available[t]
<1>1. Promise!HeldBy(t) = OpenReserved(t)
  <2>1. [r \in Runs |-> IF Owner[r] = t THEN HoldOf[r] ELSE 0] = OpenAmounts(t)
    BY DEF HoldOf, OpenAmounts
  <2> QED
    BY <2>1, SameCardinality
       DEF Promise!HeldBy, Promise!Total, Promise!Units, Total, Units, HoldOf, OpenReserved
<1>2. available[t] + reserved[t] = LedgerNet(t) /\ reserved[t] = OpenReserved(t)
  BY DEF Reconciled, ReconcileOk
<1>3. available[t] \in Int /\ reserved[t] \in Int
  BY WalletTypes
<1> QED
  BY <1>1, <1>2, <1>3 DEF Promise!Spendable

-----------------------------------------------------------------------------
(* An open reservation holds something.                                    *)

HoldsPositive == \A r \in Runs : IsOpen(r) => reservation[r].amount > 0

LEMMA PositiveStep ==
    ASSUME TypeOK, HoldsPositive, [Next]_vars
    PROVE  HoldsPositive'
<1> SUFFICES ASSUME NEW q \in Runs, reservation'[q].status = "reserved"
             PROVE  reservation'[q].amount > 0
  BY DEF HoldsPositive, IsOpen
<1>1. CASE reservation'[q] = reservation[q]
  BY <1>1 DEF HoldsPositive, IsOpen
<1>2. ASSUME NEW r \in Runs, NEW a \in Credits, Reserve(r, a)
      PROVE  reservation'[q].amount > 0
  BY <1>1, <1>2 DEF Reserve, TypeOK
<1>3. ASSUME NEW r \in Runs, NEW c \in Credits, SettleRun(r, c)
      PROVE  reservation'[q].amount > 0
  BY <1>1, <1>3 DEF SettleRun, TypeOK
<1>4. ASSUME NEW r \in Runs, RefundRun(r)
      PROVE  reservation'[q].amount > 0
  BY <1>1, <1>4 DEF RefundRun, TypeOK
<1>5. ASSUME NEW e \in Events, NEW s \in {"verified", "ignored"}, ProcessVerifiedPayment(e, s)
      PROVE  reservation'[q].amount > 0
  BY <1>1, <1>5 DEF ProcessVerifiedPayment
<1>6. ASSUME NEW t \in Tenants, NEW key \in PurchaseKeys, NEW l \in Listings,
             PurchaseListing(t, key, l)
      PROVE  reservation'[q].amount > 0
  BY <1>1, <1>6 DEF PurchaseListing
<1>7. CASE UNCHANGED vars
  BY <1>1, <1>7 DEF vars
<1> QED
  BY <1>2, <1>3, <1>4, <1>5, <1>6, <1>7 DEF Next

-----------------------------------------------------------------------------
(* Each transaction is one operation of the account.  Its effect on the    *)
(* funds is read off the wallet row: both agree before and after.          *)

Sound == TypeOK /\ Reconciled /\ HoldsPositive

LEMMA FundsAreWallet ==
    ASSUME Sound
    PROVE  /\ FundsOf = [t \in Tenants |-> available[t] + reserved[t]]
           /\ \A t \in Tenants : available[t] \in Int /\ reserved[t] \in Int
  BY WalletTypes DEF Sound, FundsOf, Reconciled, ReconcileOk

LEMMA FundsAreWalletNext ==
    ASSUME Sound'
    PROVE  FundsOf' = [t \in Tenants |-> available'[t] + reserved'[t]]
  BY DEF Sound, FundsOf, Reconciled, ReconcileOk

LEMMA PaymentEscrow ==
    ASSUME Sound, Sound', NEW e \in Events, NEW s \in {"verified", "ignored"},
           ProcessVerifiedPayment(e, s)
    PROVE  [Promise!Next]_(Promise!vars)
<1> DEFINE t == EventTenant[e]
           c == EventCredits[e]
<1>1. t \in Tenants /\ c \in 1 .. MaxCredits /\ c \in Int
  BY EventsAssumption, CreditsAssumption
<1>2. HoldOf' = HoldOf /\ ClosedOf' = ClosedOf
  BY DEF ProcessVerifiedPayment, HoldOf, ClosedOf, IsOpen
<1>3. CASE s = "verified"
  <2>1. available' = [available EXCEPT ![t] = @ + c] /\ reserved' = reserved
    BY <1>3 DEF ProcessVerifiedPayment
  <2>2. FundsOf' = [FundsOf EXCEPT ![t] = @ + c]
    <3> HIDE DEF t, c
    <3>1. \A u \in Tenants : available'[u] + reserved'[u] =
             IF u = t THEN available[u] + reserved[u] + c ELSE available[u] + reserved[u]
      BY <1>1, <2>1, FundsAreWallet DEF Sound, TypeOK
    <3> QED
      BY <1>1, <3>1, FundsAreWallet, FundsAreWalletNext
  <2>3. Promise!Deposit(t, c)
    BY <1>2, <2>2 DEF Promise!Deposit, FundsOf, HoldOf, ClosedOf
  <2> QED
    BY <1>1, <2>3 DEF Promise!Next
<1>4. CASE s = "ignored"
  <2>1. FundsOf' = FundsOf
    BY <1>4, FundsAreWallet, FundsAreWalletNext DEF ProcessVerifiedPayment
  <2> QED
    BY <1>2, <2>1 DEF Promise!vars, FundsOf, HoldOf, ClosedOf
<1> QED
  BY <1>3, <1>4

LEMMA ReserveEscrow ==
    ASSUME Sound, Sound', NEW r \in Runs, NEW a \in Credits, Reserve(r, a)
    PROVE  Promise!Next
<1>1. Owner[r] \in Tenants /\ a \in 1 .. MaxCredits
  BY RunsAssumption, CreditsAssumption DEF Credits, Reserve
<1>2. FundsOf' = FundsOf
  <2>1. \A u \in Tenants : available'[u] + reserved'[u] = available[u] + reserved[u]
    BY <1>1, FundsAreWallet DEF Reserve, Sound, TypeOK
  <2> QED
    BY <2>1, FundsAreWallet, FundsAreWalletNext
<1>3. HoldOf' = [HoldOf EXCEPT ![r] = a]
  BY DEF Reserve, HoldOf, IsOpen, Sound, TypeOK
<1>4. ClosedOf' = ClosedOf /\ r \notin ClosedOf /\ HoldOf[r] = 0
  BY DEF Reserve, ClosedOf, HoldOf, IsOpen, Sound, TypeOK
<1>5. a <= Promise!Spendable(Owner[r])
  BY <1>1, SpendableIsAvailable, FundsAreWallet DEF Reserve, Covers, Sound, Credits
<1>6. Promise!Hold(r, a)
  BY <1>2, <1>3, <1>4, <1>5 DEF Promise!Hold, FundsOf, HoldOf, ClosedOf
<1> QED
  BY <1>1, <1>6 DEF Promise!Next

\* Closing a reservation of a with a charge of c, whoever does it.
LEMMA CloseEscrow ==
    ASSUME Sound, Sound', NEW r \in Runs, NEW c \in Credits, IsOpen(r),
           c <= reservation[r].amount,
           reserved' = [reserved EXCEPT ![Owner[r]] = @ - reservation[r].amount],
           available' = [available EXCEPT ![Owner[r]] = @ + (reservation[r].amount - c)],
           reservation'[r].status \in {"settled", "refunded"},
           \A q \in Runs \ {r} : reservation'[q] = reservation[q]
    PROVE  Promise!Next
<1> DEFINE t == Owner[r]
           a == reservation[r].amount
<1>1. t \in Tenants /\ a \in Nat /\ a > 0 /\ c \in Nat
  BY RunsAssumption, CreditsAssumption DEF Sound, HoldsPositive, TypeOK, Credits
<1>2. FundsOf' = [FundsOf EXCEPT ![t] = @ - c]
  <2> HIDE DEF t, a
  <2>1. \A u \in Tenants : available'[u] + reserved'[u] =
           IF u = t THEN available[u] + reserved[u] - c ELSE available[u] + reserved[u]
    BY <1>1, FundsAreWallet DEF Sound, TypeOK, t, a
  <2> QED
    BY <1>1, <2>1, FundsAreWallet, FundsAreWalletNext
<1>3. HoldOf' = [HoldOf EXCEPT ![r] = 0]
  BY DEF HoldOf, IsOpen
<1>4. HoldOf[r] = a /\ ClosedOf' = ClosedOf \cup {r}
  BY DEF HoldOf, ClosedOf
<1>5. Promise!Capture(r, c)
  BY <1>1, <1>2, <1>3, <1>4 DEF Promise!Capture, FundsOf, HoldOf, ClosedOf
<1> QED
  BY <1>5 DEF Promise!Next, Credits

LEMMA SettleEscrow ==
    ASSUME Sound, Sound', NEW r \in Runs, NEW c \in Credits, SettleRun(r, c)
    PROVE  Promise!Next
<1>1. /\ reservation'[r].status \in {"settled", "refunded"}
      /\ \A q \in Runs \ {r} : reservation'[q] = reservation[q]
  BY DEF SettleRun, Sound, TypeOK
<1> QED
  BY <1>1, CloseEscrow DEF SettleRun

LEMMA RefundEscrow ==
    ASSUME Sound, Sound', NEW r \in Runs, RefundRun(r)
    PROVE  Promise!Next
<1>1. /\ reservation'[r].status \in {"settled", "refunded"}
      /\ \A q \in Runs \ {r} : reservation'[q] = reservation[q]
  BY DEF RefundRun, Sound, TypeOK
<1>2. /\ reservation[r].amount \in Nat /\ 0 \in Credits
      /\ reservation[r].amount - 0 = reservation[r].amount
  BY CreditsAssumption DEF Sound, TypeOK, Credits
<1>3. 0 <= reservation[r].amount
  BY <1>2
<1>4. available' = [available EXCEPT ![Owner[r]] = @ + (reservation[r].amount - 0)]
  BY <1>2 DEF RefundRun
<1> QED
  BY <1>1, <1>2, <1>3, <1>4, CloseEscrow DEF RefundRun

LEMMA PurchaseEscrow ==
    ASSUME Sound, Sound', NEW b \in Tenants, NEW key \in PurchaseKeys, NEW l \in Listings,
           PurchaseListing(b, key, l)
    PROVE  Promise!Next
<1> DEFINE s == Seller[l]
           p == Price[l]
           q == PublisherCredits(l)
<1> HIDE DEF PublisherCredits
<1>1. /\ s \in Tenants /\ b # s /\ p \in 1 .. MaxCredits /\ q \in 0 .. MaxCredits
      /\ p \in Int /\ q \in Int /\ q <= p
  BY PriceType, ListingsAssumption DEF PurchaseListing, Credits
<1>2. HoldOf' = HoldOf /\ ClosedOf' = ClosedOf
  BY DEF PurchaseListing, HoldOf, ClosedOf, IsOpen
<1>3. /\ available' = [available EXCEPT ![b] = @ - p, ![s] = @ + q]
      /\ reserved' = reserved /\ available[b] >= p
  BY DEF PurchaseListing, Covers
<1> HIDE DEF s, p, q
<1>4. FundsOf' = [FundsOf EXCEPT ![b] = @ - p, ![s] = @ + q]
  <2>1. \A u \in Tenants : available'[u] + reserved'[u] =
           IF u = s THEN available[u] + reserved[u] + q
           ELSE IF u = b THEN available[u] + reserved[u] - p
           ELSE available[u] + reserved[u]
    BY <1>1, <1>3, FundsAreWallet DEF Sound, TypeOK
  <2> QED
    BY <1>1, <2>1, FundsAreWallet, FundsAreWalletNext
<1>5. p <= Promise!Spendable(b)
  BY <1>1, <1>3, SpendableIsAvailable, FundsAreWallet DEF Sound
<1>6. Promise!Transfer(b, s, p, q)
  BY <1>1, <1>2, <1>4, <1>5 DEF Promise!Transfer, FundsOf, HoldOf, ClosedOf
<1> QED
  BY <1>1, <1>6 DEF Promise!Next

LEMMA InitEscrow == Init => Promise!Init
<1> SUFFICES ASSUME Init PROVE Promise!Init
  OBVIOUS
<1>1. Sound
  BY InitType, InitReconciled DEF Init, Sound, HoldsPositive, IsOpen
<1>2. FundsOf = [t \in Tenants |-> 0]
  BY <1>1, FundsAreWallet DEF Init
<1>3. HoldOf = [r \in Runs |-> 0] /\ ClosedOf = {}
  BY DEF Init, HoldOf, ClosedOf, IsOpen
<1> QED
  BY <1>2, <1>3 DEF Promise!Init, FundsOf, HoldOf, ClosedOf

LEMMA StepEscrow ==
    ASSUME Sound, Sound', [Next]_vars
    PROVE  [Promise!Next]_(Promise!vars)
<1>1. CASE UNCHANGED vars
  <2>1. FundsOf' = FundsOf
    BY <1>1, FundsAreWallet, FundsAreWalletNext DEF vars
  <2>2. HoldOf' = HoldOf /\ ClosedOf' = ClosedOf
    BY <1>1 DEF vars, HoldOf, ClosedOf, IsOpen
  <2> QED
    BY <2>1, <2>2 DEF Promise!vars, FundsOf, HoldOf, ClosedOf
<1> QED
  BY <1>1, PaymentEscrow, ReserveEscrow, SettleEscrow, RefundEscrow, PurchaseEscrow DEF Next

\* The money tables implement the escrow account for every instance: whatever
\* the ledger says a tenant owns moves only by deposits, captures of holds
\* and transfers of what is not held (billing.py, run_service.py:109-156,
\* marketplace.py:93-165).
THEOREM ImplementsEscrow == Spec => EscrowSpec
<1>1. Init => Sound
  BY InitType, InitReconciled DEF Init, Sound, HoldsPositive, IsOpen
<1>2. Sound /\ [Next]_vars => Sound'
  BY StepType, StepReconciled, PositiveStep DEF Sound
<1>3. Sound /\ Sound' /\ [Next]_vars => [Promise!Next]_(Promise!vars)
  BY StepEscrow
<1> QED
  BY <1>1, <1>2, <1>3, InitEscrow, PTL DEF Spec, EscrowSpec, Promise!Spec
=============================================================================
