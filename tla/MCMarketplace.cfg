CONSTANTS
    t1 = t1  t2 = t2  e1 = e1  l1 = l1  l2 = l2  k1 = k1  k2 = k2
    v1 = v1  v2 = v2  p1 = p1  p2 = p2
    Tenants <- MCTenants
    Runs = {}
    Owner <- MCOwner
    Events <- MCEvents
    EventTenant <- MCEventTenant
    EventCredits <- MCEventCredits
    Listings <- MCListings
    Seller <- MCSeller
    Price <- MCPrice
    ShareBps <- MCShareBps
    PurchaseKeys <- MCPurchaseKeys
    NoListing = NoListing
    MaxCredits = 3
    Versions <- MCVersions
    PublicKeys <- MCPublicKeys
    NoPublicKey = NoPublicKey
    PublisherOf <- MCPublisherOf
    VersionOf <- MCVersionOf
SPECIFICATION MarketSpec
INVARIANTS MarketTypeOK EntitlementIsPaid HistoryVerifiable EarningsAgree AuditTellsTruth
CHECK_DEADLOCK FALSE
