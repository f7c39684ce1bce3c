------------------------- MODULE MarketplaceProofs --------------------------
(***************************************************************************)
(* Theorems of Marketplace for every set of tenants, versions, listings,   *)
(* keys and payments.                                                      *)
(***************************************************************************)
EXTENDS Marketplace, LedgerProofs

-----------------------------------------------------------------------------
(* The marketplace does to the money tables what Billing does.             *)

LEMMA MoneyStep ==
    ASSUME [MarketNext]_mvars
    PROVE  [Next]_vars
<1>1. ASSUME NEW t \in Publishers, NEW key \in PublicKeys, CreateOrUpdatePublisher(t, key)
      PROVE  UNCHANGED vars
  BY <1>1 DEF CreateOrUpdatePublisher
<1>2. ASSUME NEW v \in Versions, NEW key \in PublicKeys, VerifySubmission(v, key)
      PROVE  UNCHANGED vars
  BY <1>2 DEF VerifySubmission
<1>3. ASSUME NEW s \in submitted, InsertVersion(s[1], s[2], s[3])
      PROVE  UNCHANGED vars
  BY <1>3 DEF InsertVersion
<1>4. ASSUME NEW t \in Tenants, NEW l \in Listings, CreateListing(t, l)
      PROVE  UNCHANGED vars
  BY <1>4 DEF CreateListing
<1>5. ASSUME NEW e \in Events, Pay(e)
      PROVE  Next
  BY <1>5 DEF Pay, Next
<1>6. ASSUME NEW t \in Tenants, NEW key \in PurchaseKeys, NEW l \in Listings,
             Purchase(t, key, l) \/ ReplayPurchase(t, key, l)
      PROVE  [Next]_vars
  BY <1>6 DEF Purchase, ReplayPurchase, Next
<1>7. ASSUME NEW change \in unaudited, RecordAudit(change)
      PROVE  UNCHANGED vars
  BY <1>7 DEF RecordAudit
<1>8. CASE Crash \/ UNCHANGED mvars
  BY <1>8 DEF Crash, mvars
<1> QED
  BY <1>1, <1>2, <1>3, <1>4, <1>5, <1>6, <1>7, <1>8 DEF MarketNext

\* Registry, listings, grants and audit events on top of the money tables
\* never do to them what Billing does not: each theorem about Billing holds
\* in the marketplace (marketplace.py:93-165).
THEOREM MarketImplementsBilling == MarketSpec => Spec
<1>1. MarketInit => Init
  BY DEF MarketInit
<1>2. [MarketNext]_mvars => [Next]_vars
  BY MoneyStep
<1> QED
  BY <1>1, <1>2, PTL DEF MarketSpec, Spec

-----------------------------------------------------------------------------
(* Signed versions.                                                        *)

\* A submission waiting for its INSERT carries the key its signature was
\* verified with.
SubmissionsVerified ==
    \A s \in submitted : s[1] \in Versions /\ s[2] = s[3]

StoredTyped == stored \in [Versions -> [signature : PublicKeys \cup {NoPublicKey},
                                        key : PublicKeys \cup {NoPublicKey}]]

SubmittedTyped == submitted \subseteq Versions \X PublicKeys \X PublicKeys

VersionsInv == StoredTyped /\ SubmittedTyped /\ SubmissionsVerified /\ HistoryVerifiable

LEMMA VersionsSame ==
    ASSUME VersionsInv, submitted' \subseteq submitted, UNCHANGED stored
    PROVE  VersionsInv'
  BY DEF VersionsInv, StoredTyped, SubmittedTyped, SubmissionsVerified,
         HistoryVerifiable, VerifySkillVersion

LEMMA InsertStep ==
    ASSUME VersionsInv, NEW s \in submitted, InsertVersion(s[1], s[2], s[3])
    PROVE  VersionsInv'
<1>1. submitted' \subseteq submitted
  BY DEF InsertVersion
<1>2. CASE UNCHANGED stored
  BY <1>1, <1>2, VersionsSame
<1>3. CASE stored' = [stored EXCEPT ![s[1]] = [signature |-> s[2], key |-> s[3]]]
  <2>1. /\ s[1] \in Versions /\ s[2] \in PublicKeys /\ s[3] \in PublicKeys
        /\ s[2] = s[3]
    BY DEF VersionsInv, SubmittedTyped, SubmissionsVerified
  <2>2. StoredTyped'
    BY <1>3, <2>1 DEF VersionsInv, StoredTyped
  <2>3. HistoryVerifiable'
    BY <1>3, <2>1 DEF VersionsInv, StoredTyped, HistoryVerifiable, VerifySkillVersion
  <2> QED
    BY <1>1, <2>2, <2>3 DEF VersionsInv, SubmittedTyped, SubmissionsVerified
<1> QED
  BY <1>2, <1>3 DEF InsertVersion, Snapshot

LEMMA SubmitStep ==
    ASSUME VersionsInv, NEW v \in Versions, NEW key \in PublicKeys, VerifySubmission(v, key)
    PROVE  VersionsInv'
<1>1. submitted' = submitted \cup {<<v, key, key>>} /\ stored' = stored
  BY DEF VerifySubmission
<1>2. SubmittedTyped' /\ SubmissionsVerified'
  BY <1>1 DEF VersionsInv, SubmittedTyped, SubmissionsVerified
<1> QED
  BY <1>1, <1>2 DEF VersionsInv, StoredTyped, HistoryVerifiable, VerifySkillVersion

LEMMA VersionsStep ==
    ASSUME VersionsInv, [MarketNext]_mvars
    PROVE  VersionsInv'
<1>1. ASSUME NEW t \in Publishers, NEW key \in PublicKeys, CreateOrUpdatePublisher(t, key)
      PROVE  VersionsInv'
  BY <1>1, VersionsSame DEF CreateOrUpdatePublisher
<1>2. ASSUME NEW t \in Tenants, NEW l \in Listings, CreateListing(t, l)
      PROVE  VersionsInv'
  BY <1>2, VersionsSame DEF CreateListing, registry
<1>3. ASSUME NEW e \in Events, Pay(e)
      PROVE  VersionsInv'
  BY <1>3, VersionsSame DEF Pay, registry
<1>4. ASSUME NEW t \in Tenants, NEW key \in PurchaseKeys, NEW l \in Listings,
             Purchase(t, key, l) \/ ReplayPurchase(t, key, l)
      PROVE  VersionsInv'
  BY <1>4, VersionsSame DEF Purchase, ReplayPurchase, registry
<1>5. ASSUME NEW change \in unaudited, RecordAudit(change)
      PROVE  VersionsInv'
  BY <1>5, VersionsSame DEF RecordAudit, registry
<1>6. CASE Crash
  BY <1>6, VersionsSame DEF Crash
<1>7. CASE UNCHANGED mvars
  BY <1>7, VersionsSame DEF mvars, registry
<1> QED
  BY <1>1, <1>2, <1>3, <1>4, <1>5, <1>6, <1>7, InsertStep, SubmitStep DEF MarketNext

LEMMA InitVersions == MarketInit => VersionsInv
  BY DEF MarketInit, VersionsInv, StoredTyped, SubmittedTyped, SubmissionsVerified,
         HistoryVerifiable, VerifySkillVersion, NotStored

LEMMA AlwaysVersions == MarketSpec => []VersionsInv
<1>1. VersionsInv /\ [MarketNext]_mvars => VersionsInv'
  BY VersionsStep
<1> QED
  BY <1>1, InitVersions, PTL DEF MarketSpec

\* A version, once published, verifies for ever, however often its publisher
\* replaces its key and however a replacement interleaves with a publication
\* (registry.py:60-80, 89-104).
THEOREM HistoryStaysVerifiable == MarketSpec => []HistoryVerifiable
<1>1. VersionsInv => HistoryVerifiable
  BY DEF VersionsInv
<1> QED
  BY <1>1, AlwaysVersions, PTL

-----------------------------------------------------------------------------
(* Entitlements.                                                           *)

Bought == {<<p[1], VersionOf[purchase[p]]>> : p \in {q \in Purchases : purchase[q] # NoListing}}

\* Rows that are never taken back: what was stored or listed stays.
StoredStays == \A v \in Versions : stored[v] # NotStored => stored'[v] = stored[v]

ListedStored == \A l \in listed : l \in Listings /\ stored[VersionOf[l]] # NotStored

GrantsInv ==
    /\ TypeOK
    /\ VersionsInv
    /\ ListedStored
    /\ granted = Bought
    /\ \A g \in granted : g[2] \in Versions /\ stored[g[2]] # NotStored

LEMMA VersionsKeep ==
    ASSUME VersionsInv, [MarketNext]_mvars
    PROVE  StoredStays
<1>1. ASSUME NEW s \in submitted, InsertVersion(s[1], s[2], s[3])
      PROVE  StoredStays
  <2>1. CASE UNCHANGED stored
    BY <2>1 DEF StoredStays
  <2>2. CASE /\ stored[s[1]] = NotStored
             /\ stored' = [stored EXCEPT ![s[1]] = [signature |-> s[2], key |-> s[3]]]
    BY <2>2 DEF StoredStays, VersionsInv, StoredTyped
  <2> QED
    BY <1>1, <2>1, <2>2 DEF InsertVersion, IsNewVersion, Snapshot
<1>2. CASE UNCHANGED stored
  BY <1>2 DEF StoredStays
<1>3. ASSUME NEW t \in Publishers, NEW key \in PublicKeys, CreateOrUpdatePublisher(t, key)
      PROVE  StoredStays
  BY <1>2, <1>3 DEF CreateOrUpdatePublisher
<1>4. ASSUME NEW v \in Versions, NEW key \in PublicKeys, VerifySubmission(v, key)
      PROVE  StoredStays
  BY <1>2, <1>4 DEF VerifySubmission
<1>5. ASSUME NEW t \in Tenants, NEW l \in Listings, CreateListing(t, l)
      PROVE  StoredStays
  BY <1>2, <1>5 DEF CreateListing, registry
<1>6. ASSUME NEW e \in Events, Pay(e)
      PROVE  StoredStays
  BY <1>2, <1>6 DEF Pay, registry
<1>7. ASSUME NEW t \in Tenants, NEW key \in PurchaseKeys, NEW l \in Listings,
             Purchase(t, key, l) \/ ReplayPurchase(t, key, l)
      PROVE  StoredStays
  BY <1>2, <1>7 DEF Purchase, ReplayPurchase, registry
<1>8. ASSUME NEW change \in unaudited, RecordAudit(change)
      PROVE  StoredStays
  BY <1>2, <1>8 DEF RecordAudit, registry
<1>9. CASE Crash \/ UNCHANGED mvars
  BY <1>2, <1>9 DEF Crash, mvars, registry
<1> QED
  BY <1>1, <1>3, <1>4, <1>5, <1>6, <1>7, <1>8, <1>9 DEF MarketNext

\* The steps that sell nothing.
LEMMA GrantsSame ==
    ASSUME GrantsInv, TypeOK', VersionsInv', StoredStays,
           purchase' = purchase, granted' = granted, ListedStored'
    PROVE  GrantsInv'
  BY DEF GrantsInv, Bought, StoredStays

LEMMA ListedSame ==
    ASSUME GrantsInv, StoredStays, listed' = listed
    PROVE  ListedStored'
  BY MarketAssumption DEF GrantsInv, ListedStored, StoredStays

LEMMA PurchaseStep ==
    ASSUME GrantsInv, TypeOK', VersionsInv', StoredStays,
           NEW t \in Tenants, NEW key \in PurchaseKeys, NEW l \in Listings,
           Purchase(t, key, l)
    PROVE  GrantsInv'
<1> DEFINE p == <<t, key>>
<1>1. /\ purchase[p] = NoListing
      /\ purchase' = [purchase EXCEPT ![p] = l]
      /\ granted' = granted \cup {<<t, VersionOf[l]>>}
      /\ listed' = listed /\ stored' = stored /\ l \in listed
  BY DEF Purchase, PurchaseListing, registry
<1>2. p \in Purchases /\ p[1] = t /\ l # NoListing
  BY ListingsAssumption DEF Purchases
<1>3. purchase'[p] = l /\ \A q \in Purchases \ {p} : purchase'[q] = purchase[q]
  BY <1>1, <1>2 DEF GrantsInv, TypeOK
<1> HIDE DEF p
<1>4. Bought' = Bought \cup {<<t, VersionOf[l]>>}
  BY <1>1, <1>2, <1>3 DEF Bought
<1>5. VersionOf[l] \in Versions /\ stored[VersionOf[l]] # NotStored
  BY <1>1, MarketAssumption DEF GrantsInv, ListedStored
<1>6. ListedStored'
  BY <1>1, ListedSame
<1> QED
  BY <1>1, <1>4, <1>5, <1>6 DEF GrantsInv

LEMMA GrantsStep ==
    ASSUME GrantsInv, [MarketNext]_mvars
    PROVE  GrantsInv'
<1>1. TypeOK' /\ VersionsInv' /\ StoredStays
  BY MoneyStep, StepType, VersionsStep, VersionsKeep DEF GrantsInv
<1>2. CASE UNCHANGED <<purchase, granted, listed>>
  BY <1>1, <1>2, ListedSame, GrantsSame
<1>3. ASSUME NEW t \in Publishers, NEW key \in PublicKeys, CreateOrUpdatePublisher(t, key)
      PROVE  GrantsInv'
  BY <1>2, <1>3 DEF CreateOrUpdatePublisher, vars
<1>4. ASSUME NEW v \in Versions, NEW key \in PublicKeys, VerifySubmission(v, key)
      PROVE  GrantsInv'
  BY <1>2, <1>4 DEF VerifySubmission, vars
<1>5. ASSUME NEW s \in submitted, InsertVersion(s[1], s[2], s[3])
      PROVE  GrantsInv'
  BY <1>2, <1>5 DEF InsertVersion, vars
<1>6. ASSUME NEW t \in Tenants, NEW l \in Listings, CreateListing(t, l)
      PROVE  GrantsInv'
  <2>1. /\ listed' = listed \cup {l} /\ stored[VersionOf[l]] # NotStored
        /\ purchase' = purchase /\ granted' = granted
    BY <1>6 DEF CreateListing, vars
  <2>2. ListedStored'
    BY <1>1, <2>1, MarketAssumption DEF GrantsInv, ListedStored, StoredStays
  <2> QED
    BY <1>1, <2>1, <2>2, GrantsSame
<1>7. ASSUME NEW e \in Events, Pay(e)
      PROVE  GrantsInv'
  BY <1>2, <1>7 DEF Pay, ProcessVerifiedPayment
<1>8. ASSUME NEW t \in Tenants, NEW key \in PurchaseKeys, NEW l \in Listings,
             Purchase(t, key, l)
      PROVE  GrantsInv'
  BY <1>1, <1>8, PurchaseStep
<1>9. ASSUME NEW t \in Tenants, NEW key \in PurchaseKeys, NEW l \in Listings,
             ReplayPurchase(t, key, l)
      PROVE  GrantsInv'
  BY <1>2, <1>9 DEF ReplayPurchase, ReplayGrants, vars
<1>10. ASSUME NEW change \in unaudited, RecordAudit(change)
       PROVE  GrantsInv'
  BY <1>2, <1>10 DEF RecordAudit, vars
<1>11. CASE Crash \/ UNCHANGED mvars
  BY <1>2, <1>11 DEF Crash, mvars, vars
<1> QED
  BY <1>3, <1>4, <1>5, <1>6, <1>7, <1>8, <1>9, <1>10, <1>11 DEF MarketNext

LEMMA InitGrants == MarketInit => GrantsInv
<1> SUFFICES ASSUME MarketInit PROVE GrantsInv
  OBVIOUS
<1>1. TypeOK /\ VersionsInv
  BY InitType, InitVersions DEF MarketInit
<1>2. Bought = {} /\ granted = {} /\ listed = {}
  BY DEF MarketInit, Init, Bought
<1> QED
  BY <1>1, <1>2 DEF GrantsInv, ListedStored

LEMMA AlwaysGrants == MarketSpec => []GrantsInv
<1>1. GrantsInv /\ [MarketNext]_mvars => GrantsInv'
  BY GrantsStep
<1> QED
  BY <1>1, InitGrants, PTL DEF MarketSpec

\* A tenant holds exactly the grants it paid for, each of a published
\* version, for any number of listings, keys and replays
\* (marketplace.py:79-90, 166-174).
THEOREM EntitlementsArePaid == MarketSpec => []EntitlementIsPaid
<1>1. GrantsInv => EntitlementIsPaid
  BY DEF GrantsInv, EntitlementIsPaid, Bought
<1> QED
  BY <1>1, AlwaysGrants, PTL

-----------------------------------------------------------------------------
(* What the marketplace says a publisher earned.                           *)

ShareOf == [l \in Listings |-> PublisherCredits(l)]

\* What each purchase earned t.
EarnedBy(t) ==
    [p \in Purchases |->
        IF purchase[p] # NoListing /\ Seller[purchase[p]] = t
        THEN ShareOf[purchase[p]] ELSE 0]

EarningRows(t) == Total(RowsOf(t, {"marketplace_earning"}))

LEMMA PurchasesFinite == IsFiniteSet(Purchases)
  BY FiniteAssumption, FS_Product DEF Purchases

LEMMA ShareTypes == ShareOf \in [Listings -> Credits]
<1>1. \A l \in Listings : PublisherCredits(l) \in Credits
  BY PriceType
<1> HIDE DEF PublisherCredits
<1> QED
  BY <1>1 DEF ShareOf

LEMMA EarningsColumn ==
    ASSUME TypeOK, NEW t
    PROVE  /\ PublisherEarnings(t) = Total(EarnedBy(t))
           /\ EarnedBy(t) \in [Purchases -> 0 .. MaxCredits]
           /\ Total(EarnedBy(t)) \in Nat
<1>1. \A p \in Purchases : purchase[p] # NoListing => purchase[p] \in Listings
  BY DEF TypeOK
<1>2. EarnedBy(t) \in [Purchases -> 0 .. MaxCredits]
  BY <1>1, ShareTypes, CreditsAssumption DEF EarnedBy, Credits
<1>3. EarnedBy(t) = [p \in Purchases |->
                        IF p \in Sales(t) THEN PublisherCredits(purchase[p]) ELSE 0]
  <2> HIDE DEF PublisherCredits
  <2> QED
    BY <1>1 DEF EarnedBy, Sales, ShareOf
<1>4. Total(EarnedBy(t)) \in Nat
  BY <1>2, PurchasesFinite, CreditsAssumption, TotalType
<1> QED
  BY <1>2, <1>3, <1>4 DEF PublisherEarnings

LEMMA EarningsColumnNext ==
    ASSUME TypeOK', NEW t
    PROVE  /\ PublisherEarnings(t)' = Total(EarnedBy(t)')
           /\ EarnedBy(t)' \in [Purchases -> 0 .. MaxCredits]
<1>1. \A p \in Purchases : purchase'[p] # NoListing => purchase'[p] \in Listings
  BY DEF TypeOK
<1>2. EarnedBy(t)' \in [Purchases -> 0 .. MaxCredits]
  BY <1>1, ShareTypes, CreditsAssumption DEF EarnedBy, Credits
<1>3. EarnedBy(t)' = [p \in Purchases |->
                        IF p \in Sales(t)' THEN PublisherCredits(purchase'[p]) ELSE 0]
  <2> HIDE DEF PublisherCredits
  <2> QED
    BY <1>1 DEF EarnedBy, Sales, ShareOf
<1>4. PublisherEarnings(t)' = Total([p \in Purchases |->
                        IF p \in Sales(t)' THEN PublisherCredits(purchase'[p]) ELSE 0])
  BY DEF PublisherEarnings
<1> QED
  BY <1>2, <1>3, <1>4

\* EarningsAgree by name, without the sums' expressions.
LEMMA AgreeColumns ==
    ASSUME TypeOK
    PROVE  EarningsAgree <=> \A t \in Tenants : Total(EarnedBy(t)) = EarningRows(t)
  BY EarningsColumn DEF EarningsAgree, EarningRows

\* A sale adds the publisher's share to both.
LEMMA SaleEarns ==
    ASSUME TypeOK, TypeOK', NEW t \in Tenants,
           NEW b \in Tenants, NEW key \in PurchaseKeys, NEW l \in Listings,
           PurchaseListing(b, key, l), Total(EarnedBy(t)) = EarningRows(t)
    PROVE  Total(EarnedBy(t)') = EarningRows(t)'
<1> DEFINE s == Seller[l]
           p == <<b, key>>
           ks == <<s, "marketplace_earning", p>>
           got == IF s = t THEN ShareOf[l] ELSE 0
           kinds == {"marketplace_earning"}
<1>1. /\ s \in Tenants /\ p \in Purchases /\ ks \in LedgerKeys
      /\ l # NoListing /\ got \in Nat
  BY PriceType, KeyType, ShareTypes, CreditsAssumption, ListingsAssumption
     DEF Kinds, Refs, Purchases, Credits
<1>2. /\ ledger[ks] = 0 /\ ledger'[ks] = ShareOf[l]
      /\ \A j \in LedgerKeys \ {ks} : j[2] \in kinds => ledger'[j] = ledger[j]
  <2>1. ledger[ks] = 0
    BY DEF PurchaseListing, NoRow
  <2>2. /\ ledger'[ks] = PublisherCredits(l)
        /\ \A j \in LedgerKeys : j[3] # p => ledger'[j] = ledger[j]
    BY PurchaseRows
  <2>3. PublisherCredits(l) = ShareOf[l]
    BY DEF ShareOf
  <2>4. \A j \in LedgerKeys \ {ks} : j[2] \in kinds => ledger'[j] = ledger[j]
    <3>1. \A j \in LedgerKeys : j = <<j[1], j[2], j[3]>>
      BY DEF LedgerKeys
    <3>2. ledger' = [ledger EXCEPT ![<<b, "marketplace_charge", p>>] = Price[l],
                                   ![ks] = PublisherCredits(l)]
      BY DEF PurchaseListing
    <3> HIDE DEF PublisherCredits, ks, p
    <3> QED
      BY <3>2 DEF TypeOK
  <2> HIDE DEF PublisherCredits
  <2> QED
    BY <2>1, <2>2, <2>3, <2>4
<1>3. /\ purchase[p] = NoListing /\ purchase'[p] = l
      /\ \A q \in Purchases \ {p} : purchase'[q] = purchase[q]
  <2>1. purchase[p] = NoListing /\ purchase' = [purchase EXCEPT ![p] = l]
    BY DEF PurchaseListing
  <2> HIDE DEF p
  <2> QED
    BY <1>1, <2>1 DEF TypeOK
<1>4. EarningRows(t)' = EarningRows(t) + got
  <2>1. EarningRows(t)' = EarningRows(t) - RowsOf(t, kinds)[ks] + RowsOf(t, kinds)'[ks]
    BY <1>1, <1>2, RowsChange DEF EarningRows
  <2>2. RowsOf(t, kinds)[ks] = 0 /\ RowsOf(t, kinds)'[ks] = got
    BY <1>1, <1>2 DEF RowsOf
  <2>3. EarningRows(t) \in Nat
    BY ColumnTypes DEF EarningRows
  <2> HIDE DEF got, ks, kinds
  <2> QED
    BY <1>1, <2>1, <2>2, <2>3
<1>5. Total(EarnedBy(t)') = Total(EarnedBy(t)) + got
  <2> DEFINE f == EarnedBy(t)
             g == EarnedBy(t)'
  <2> HIDE DEF p
  <2>1. f[p] = 0 /\ g[p] = got /\ \A q \in Purchases \ {p} : g[q] = f[q]
    BY <1>1, <1>3 DEF EarnedBy
  <2>2. /\ f \in [Purchases -> 0 .. MaxCredits] /\ g \in [Purchases -> 0 .. MaxCredits]
        /\ Total(f) \in Nat
    BY EarningsColumn, EarningsColumnNext
  <2> HIDE DEF f, g, got
  <2>3. Total(g) = Total(f) - f[p] + g[p]
    BY <1>1, <2>1, <2>2, PurchasesFinite, CreditsAssumption, TotalUpdate
  <2>4. Total(g) = Total(f) + got
    BY <1>1, <2>1, <2>2, <2>3
  <2> QED
    BY <2>4 DEF f, g
<1> HIDE DEF got
<1> QED
  BY <1>4, <1>5

\* Nothing else touches either.
LEMMA EarningsKept ==
    ASSUME TypeOK, [Next]_vars,
           ~ \E b \in Tenants, key \in PurchaseKeys, l \in Listings : PurchaseListing(b, key, l)
    PROVE  /\ purchase' = purchase
           /\ \A j \in LedgerKeys : j[2] = "marketplace_earning" => ledger'[j] = ledger[j]
<1> DEFINE Kept == /\ purchase' = purchase
                   /\ \A j \in LedgerKeys :
                         j[2] = "marketplace_earning" => ledger'[j] = ledger[j]
<1>1. ASSUME NEW e \in Events, NEW s \in {"verified", "ignored"}, ProcessVerifiedPayment(e, s)
      PROVE  Kept
  <2>1. purchase' = purchase
    BY <1>1 DEF ProcessVerifiedPayment
  <2> QED
    BY <1>1, <2>1, PaymentRows
<1>2. ASSUME NEW r \in Runs, NEW a \in Credits, Reserve(r, a)
      PROVE  Kept
  <2>1. purchase' = purchase
    BY <1>2 DEF Reserve
  <2> QED
    BY <1>2, <2>1, ReserveRows
<1>3. ASSUME NEW r \in Runs, NEW c \in Credits, SettleRun(r, c)
      PROVE  Kept
  <2>1. purchase' = purchase
    BY <1>3 DEF SettleRun
  <2> QED
    BY <1>3, <2>1, SettleRows
<1>4. ASSUME NEW r \in Runs, RefundRun(r)
      PROVE  Kept
  <2>1. purchase' = purchase
    BY <1>4 DEF RefundRun
  <2> QED
    BY <1>4, <2>1, RefundRows
<1>5. CASE UNCHANGED vars
  BY <1>5 DEF vars
<1> QED
  BY <1>1, <1>2, <1>3, <1>4, <1>5 DEF Next

LEMMA EarningsStep ==
    ASSUME TypeOK, TypeOK', [Next]_vars, EarningsAgree
    PROVE  EarningsAgree'
<1>1. ASSUME NEW t \in Tenants
      PROVE  Total(EarnedBy(t)') = EarningRows(t)'
  <2>1. Total(EarnedBy(t)) = EarningRows(t)
    BY AgreeColumns
  <2>2. ASSUME NEW b \in Tenants, NEW key \in PurchaseKeys, NEW l \in Listings,
               PurchaseListing(b, key, l)
        PROVE  Total(EarnedBy(t)') = EarningRows(t)'
    BY <2>1, <2>2, SaleEarns
  <2>3. CASE ~ \E b \in Tenants, key \in PurchaseKeys, l \in Listings :
                  PurchaseListing(b, key, l)
    <3>1. /\ purchase' = purchase
          /\ \A j \in LedgerKeys : j[2] \in {"marketplace_earning"} => ledger'[j] = ledger[j]
      BY <2>3, EarningsKept
    <3>2. EarnedBy(t)' = EarnedBy(t)
      BY <3>1 DEF EarnedBy
    <3>3. EarningRows(t)' = EarningRows(t)
      BY <3>1, RowsSame DEF EarningRows
    <3> QED
      BY <2>1, <3>2, <3>3
  <2> QED
    BY <2>2, <2>3
<1>2. \A t \in Tenants : PublisherEarnings(t)' = EarningRows(t)'
  BY <1>1, EarningsColumnNext
<1> QED
  BY <1>2 DEF EarningsAgree, EarningRows

\* Whatever is sold, by whom and for what share, the earnings a publisher is
\* shown are what its wallet was credited with (marketplace.py:129-165,
\* 190-204).
THEOREM EarningsAreCredited == MarketSpec => []EarningsAgree
<1>1. MarketInit => EarningsAgree
  <2> SUFFICES ASSUME MarketInit, NEW t \in Tenants
               PROVE  Total(EarnedBy(t)) = EarningRows(t)
    BY InitType, AgreeColumns DEF MarketInit
  <2>1. EarnedBy(t) = [p \in Purchases |-> 0]
    BY DEF MarketInit, Init, EarnedBy
  <2>2. RowsOf(t, {"marketplace_earning"}) = [k \in LedgerKeys |-> 0]
    BY DEF MarketInit, Init, RowsOf
  <2> QED
    BY <2>1, <2>2, TotalZero DEF EarningRows
<1>2. TypeOK /\ EarningsAgree /\ [MarketNext]_mvars => EarningsAgree'
  BY MoneyStep, StepType, EarningsStep
<1>3. MarketSpec => []TypeOK
  BY MarketImplementsBilling, TypeCorrect, PTL
<1> QED
  BY <1>1, <1>2, <1>3, PTL DEF MarketSpec

-----------------------------------------------------------------------------
(* Types of the registry and of the listings.                              *)

ProfileTyped == profile \in [Tenants -> PublicKeys \cup {NoPublicKey}]

\* A profile, once there, is never taken away.
ProfilesStay ==
    \A t \in Tenants : profile[t] # NoPublicKey => profile'[t] # NoPublicKey

LEMMA ProfileStep ==
    ASSUME ProfileTyped, [MarketNext]_mvars
    PROVE  ProfileTyped' /\ ProfilesStay
<1>1. CASE UNCHANGED profile
  BY <1>1 DEF ProfileTyped, ProfilesStay
<1>2. ASSUME NEW t \in Publishers, NEW key \in PublicKeys, CreateOrUpdatePublisher(t, key)
      PROVE  ProfileTyped' /\ ProfilesStay
  <2>1. t \in Tenants /\ key # NoPublicKey
    BY MarketAssumption DEF Publishers
  <2>2. profile' = [profile EXCEPT ![t] = key]
    BY <1>2 DEF CreateOrUpdatePublisher
  <2> QED
    BY <2>1, <2>2 DEF ProfileTyped, ProfilesStay
<1>3. ASSUME NEW v \in Versions, NEW key \in PublicKeys, VerifySubmission(v, key)
      PROVE  ProfileTyped' /\ ProfilesStay
  BY <1>1, <1>3 DEF VerifySubmission
<1>4. ASSUME NEW s \in submitted, InsertVersion(s[1], s[2], s[3])
      PROVE  ProfileTyped' /\ ProfilesStay
  BY <1>1, <1>4 DEF InsertVersion
<1>5. ASSUME NEW t \in Tenants, NEW l \in Listings, CreateListing(t, l)
      PROVE  ProfileTyped' /\ ProfilesStay
  BY <1>1, <1>5 DEF CreateListing, registry
<1>6. ASSUME NEW e \in Events, Pay(e)
      PROVE  ProfileTyped' /\ ProfilesStay
  BY <1>1, <1>6 DEF Pay, registry
<1>7. ASSUME NEW t \in Tenants, NEW key \in PurchaseKeys, NEW l \in Listings,
             Purchase(t, key, l) \/ ReplayPurchase(t, key, l)
      PROVE  ProfileTyped' /\ ProfilesStay
  BY <1>1, <1>7 DEF Purchase, ReplayPurchase, registry
<1>8. ASSUME NEW change \in unaudited, RecordAudit(change)
      PROVE  ProfileTyped' /\ ProfilesStay
  BY <1>1, <1>8 DEF RecordAudit, registry
<1>9. CASE Crash \/ UNCHANGED mvars
  BY <1>1, <1>9 DEF Crash, mvars, registry
<1> QED
  BY <1>2, <1>3, <1>4, <1>5, <1>6, <1>7, <1>8, <1>9 DEF MarketNext

\* The types hold whatever is published, listed and sold.
THEOREM MarketTypeCorrect == MarketSpec => []MarketTypeOK
<1>1. MarketInit => ProfileTyped
  BY DEF MarketInit, ProfileTyped
<1>2. ProfileTyped /\ [MarketNext]_mvars => ProfileTyped'
  BY ProfileStep
<1>3. GrantsInv /\ ProfileTyped => MarketTypeOK
  <2> SUFFICES ASSUME GrantsInv, ProfileTyped PROVE MarketTypeOK
    OBVIOUS
  <2>1. TypeOK /\ StoredTyped /\ SubmittedTyped /\ listed \subseteq Listings
    BY DEF GrantsInv, VersionsInv, ListedStored
  <2>2. \A p \in Purchases : /\ p[1] \in Tenants
                             /\ purchase[p] # NoListing => purchase[p] \in Listings
    BY <2>1 DEF TypeOK, Purchases
  <2>3. granted \subseteq Tenants \X Versions
    BY <2>2, MarketAssumption DEF GrantsInv, Bought
  <2> QED
    BY <2>1, <2>3 DEF MarketTypeOK, ProfileTyped, StoredTyped, SubmittedTyped
<1> QED
  BY <1>1, <1>2, <1>3, AlwaysGrants, PTL DEF MarketSpec

-----------------------------------------------------------------------------
(* The audit trail.                                                        *)

\* A change, with the rows that show it.  Each disjunct stays true: no row
\* of the four tables is ever taken back or replaced.
ChangeHappened(c) ==
    \/ \E v \in Versions, key \in PublicKeys :
          /\ c = <<"private_skill.published", v, key>>
          /\ stored[v].signature = key
    \/ \E t \in Tenants, l \in listed :
          /\ c = <<"marketplace.listing_created", t, l>>
          /\ Seller[l] = t
    \/ \E p \in Purchases, l \in Listings :
          /\ c = <<"marketplace.purchased", p, l>>
          /\ purchase[p] = l
    \/ \E t \in Tenants :
          /\ c = <<"publisher.updated", t>>
          /\ profile[t] # NoPublicKey

AuditInv == \A c \in audit \cup unaudited : ChangeHappened(c)

\* Purchases are never taken back, nor sold again under the same key.
PurchasesStay ==
    \A p \in Purchases : purchase[p] # NoListing => purchase'[p] = purchase[p]

LEMMA PurchasesKeep ==
    ASSUME TypeOK, [Next]_vars
    PROVE  PurchasesStay
<1>1. ASSUME NEW b \in Tenants, NEW key \in PurchaseKeys, NEW l \in Listings,
             PurchaseListing(b, key, l)
      PROVE  PurchasesStay
  <2>1. purchase[<<b, key>>] = NoListing /\ purchase' = [purchase EXCEPT ![<<b, key>>] = l]
    BY <1>1 DEF PurchaseListing
  <2> QED
    BY <2>1 DEF PurchasesStay, TypeOK
<1>2. CASE ~ \E b \in Tenants, key \in PurchaseKeys, l \in Listings : PurchaseListing(b, key, l)
  BY <1>2, EarningsKept DEF PurchasesStay
<1> QED
  BY <1>1, <1>2

\* What happened stays so.
LEMMA ChangeKept ==
    ASSUME NEW c, ChangeHappened(c), StoredStays, ProfilesStay, PurchasesStay,
           listed \subseteq listed'
    PROVE  ChangeHappened(c)'
<1>1. ASSUME NEW v \in Versions, NEW key \in PublicKeys,
             c = <<"private_skill.published", v, key>>, stored[v].signature = key
      PROVE  ChangeHappened(c)'
  <2>1. stored[v] # NotStored
    BY <1>1, MarketAssumption DEF NotStored
  <2>2. stored'[v].signature = key
    BY <1>1, <2>1 DEF StoredStays
  <2> QED
    BY <1>1, <2>2 DEF ChangeHappened
<1>2. ASSUME NEW t \in Tenants, NEW l \in listed,
             c = <<"marketplace.listing_created", t, l>>, Seller[l] = t
      PROVE  ChangeHappened(c)'
  <2>1. l \in listed'
    OBVIOUS
  <2> QED
    BY <1>2, <2>1 DEF ChangeHappened
<1>3. ASSUME NEW p \in Purchases, NEW l \in Listings,
             c = <<"marketplace.purchased", p, l>>, purchase[p] = l
      PROVE  ChangeHappened(c)'
  <2>1. purchase'[p] = l
    BY <1>3, ListingsAssumption DEF PurchasesStay
  <2> QED
    BY <1>3, <2>1 DEF ChangeHappened
<1>4. ASSUME NEW t \in Tenants, c = <<"publisher.updated", t>>, profile[t] # NoPublicKey
      PROVE  ChangeHappened(c)'
  <2>1. profile'[t] # NoPublicKey
    BY <1>4 DEF ProfilesStay
  <2> QED
    BY <1>4, <2>1 DEF ChangeHappened
<1> QED
  BY <1>1, <1>2, <1>3, <1>4 DEF ChangeHappened

\* The handler's event waits, or was recorded, or nothing was to record.
LEMMA AuditKept ==
    ASSUME AuditInv, StoredStays, ProfilesStay, PurchasesStay, listed \subseteq listed',
           (audit \cup unaudited)' \subseteq audit \cup unaudited
    PROVE  AuditInv'
  BY ChangeKept DEF AuditInv

LEMMA AuditAdded ==
    ASSUME AuditInv, StoredStays, ProfilesStay, PurchasesStay, listed \subseteq listed',
           NEW c, Changed(c), ChangeHappened(c)'
    PROVE  AuditInv'
  BY ChangeKept DEF AuditInv, Changed

LEMMA AuditStep ==
    ASSUME GrantsInv, ProfileTyped, AuditInv, [MarketNext]_mvars
    PROVE  AuditInv'
<1>1. /\ StoredStays /\ ProfilesStay /\ PurchasesStay
      /\ TypeOK /\ VersionsInv /\ ListedStored
  BY VersionsKeep, ProfileStep, PurchasesKeep, MoneyStep DEF GrantsInv
<1>2. CASE UNCHANGED listed /\ (audit \cup unaudited)' \subseteq audit \cup unaudited
  BY <1>1, <1>2, AuditKept
<1>3. ASSUME NEW t \in Publishers, NEW key \in PublicKeys, CreateOrUpdatePublisher(t, key)
      PROVE  AuditInv'
  <2>1. /\ profile' = [profile EXCEPT ![t] = key] /\ listed' = listed
        /\ Changed(<<"publisher.updated", t>>)
    BY <1>3 DEF CreateOrUpdatePublisher
  <2>2. t \in Tenants /\ profile'[t] # NoPublicKey
    BY <2>1, MarketAssumption DEF Publishers, ProfileTyped
  <2>3. ChangeHappened(<<"publisher.updated", t>>)'
    BY <2>2 DEF ChangeHappened
  <2> QED
    BY <1>1, <2>1, <2>3, AuditAdded
<1>4. ASSUME NEW v \in Versions, NEW key \in PublicKeys, VerifySubmission(v, key)
      PROVE  AuditInv'
  BY <1>2, <1>4 DEF VerifySubmission
<1>5. ASSUME NEW s \in submitted, InsertVersion(s[1], s[2], s[3])
      PROVE  AuditInv'
  <2>1. CASE UNCHANGED <<unaudited, audit>>
    BY <1>2, <1>5, <2>1 DEF InsertVersion
  <2>2. CASE /\ stored' = [stored EXCEPT ![s[1]] = [signature |-> s[2], key |-> s[3]]]
             /\ Changed(<<"private_skill.published", s[1], s[2]>>)
    <3>1. s[1] \in Versions /\ s[2] \in PublicKeys
      BY <1>1 DEF VersionsInv, SubmittedTyped
    <3>2. stored'[s[1]].signature = s[2]
      BY <1>1, <2>2, <3>1 DEF VersionsInv, StoredTyped
    <3>3. ChangeHappened(<<"private_skill.published", s[1], s[2]>>)'
      BY <3>1, <3>2 DEF ChangeHappened
    <3>4. listed' = listed
      BY <1>5 DEF InsertVersion
    <3> QED
      BY <1>1, <2>2, <3>3, <3>4, AuditAdded
  <2> QED
    BY <1>5, <2>1, <2>2 DEF InsertVersion, Snapshot
<1>6. ASSUME NEW t \in Tenants, NEW l \in Listings, CreateListing(t, l)
      PROVE  AuditInv'
  <2>1. /\ PublisherOf[VersionOf[l]] = t /\ listed' = listed \cup {l}
        /\ Changed(<<"marketplace.listing_created", t, l>>)
    BY <1>6 DEF CreateListing
  <2>2. Seller[l] = t /\ l \in listed'
    BY <2>1, MarketAssumption
  <2>3. ChangeHappened(<<"marketplace.listing_created", t, l>>)'
    BY <2>2 DEF ChangeHappened
  <2> QED
    BY <1>1, <2>1, <2>3, AuditAdded
<1>7. ASSUME NEW e \in Events, Pay(e)
      PROVE  AuditInv'
  BY <1>2, <1>7 DEF Pay
<1>8. ASSUME NEW t \in Tenants, NEW key \in PurchaseKeys, NEW l \in Listings,
             Purchase(t, key, l)
      PROVE  AuditInv'
  <2>1. /\ purchase' = [purchase EXCEPT ![<<t, key>>] = l] /\ listed' = listed
        /\ Changed(<<"marketplace.purchased", <<t, key>>, l>>)
    BY <1>8 DEF Purchase, PurchaseListing
  <2>2. <<t, key>> \in Purchases /\ purchase'[<<t, key>>] = l
    BY <1>1, <2>1 DEF TypeOK, Purchases
  <2>3. ChangeHappened(<<"marketplace.purchased", <<t, key>>, l>>)'
    BY <2>2 DEF ChangeHappened
  <2> QED
    BY <1>1, <2>1, <2>3, AuditAdded
<1>9. ASSUME NEW t \in Tenants, NEW key \in PurchaseKeys, NEW l \in Listings,
             ReplayPurchase(t, key, l)
      PROVE  AuditInv'
  BY <1>2, <1>9 DEF ReplayPurchase
<1>10. ASSUME NEW change \in unaudited, RecordAudit(change)
       PROVE  AuditInv'
  BY <1>2, <1>10 DEF RecordAudit
<1>11. CASE Crash \/ UNCHANGED mvars
  BY <1>2, <1>11 DEF Crash, mvars
<1> QED
  BY <1>3, <1>4, <1>5, <1>6, <1>7, <1>8, <1>9, <1>10, <1>11 DEF MarketNext

\* The audit log reports no publication, listing or purchase that did not
\* happen, however submissions race and wherever the API dies between a
\* change and its event (registry.py:83-86, marketplace.py:177-180).
THEOREM AuditIsTrue == MarketSpec => []AuditTellsTruth
<1> DEFINE MarketInv == GrantsInv /\ ProfileTyped /\ AuditInv
<1>1. MarketInit => MarketInv
  <2> SUFFICES ASSUME MarketInit PROVE MarketInv
    OBVIOUS
  <2>1. ProfileTyped /\ audit = {} /\ unaudited = {}
    BY DEF MarketInit, ProfileTyped
  <2> QED
    BY <2>1, InitGrants DEF AuditInv
<1>2. MarketInv /\ [MarketNext]_mvars => MarketInv'
  BY GrantsStep, ProfileStep, AuditStep
<1>3. MarketInv => AuditTellsTruth
  <2> SUFFICES ASSUME AuditInv, NEW c \in audit \cup unaudited
               PROVE  CASE c[1] = "private_skill.published" ->
                              stored[c[2]].signature = c[3]
                        [] c[1] = "marketplace.listing_created" ->
                              c[3] \in listed /\ Seller[c[3]] = c[2]
                        [] c[1] = "marketplace.purchased" -> purchase[c[2]] = c[3]
                        [] OTHER -> profile[c[2]] # NoPublicKey
    BY DEF AuditTellsTruth
  <2>1. ChangeHappened(c)
    BY DEF AuditInv
  <2> QED
    BY <2>1 DEF ChangeHappened
<1> QED
  BY <1>1, <1>2, <1>3, PTL DEF MarketSpec
=============================================================================
