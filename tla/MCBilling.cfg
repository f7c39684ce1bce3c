CONSTANTS
    t1 = t1  t2 = t2  r1 = r1  r2 = r2  e1 = e1  e2 = e2
    l1 = l1  l2 = l2  k1 = k1
    Tenants <- MCTenants
    Runs <- MCRuns
    Owner <- MCOwner
    Events <- MCEvents
    EventTenant <- MCEventTenant
    EventCredits <- MCEventCredits
    Listings <- MCListings
    Seller <- MCSeller
    Price <- MCPrice
    ShareBps <- MCShareBps
    PurchaseKeys <- MCPurchaseKeys
    NoListing = NoListing
    MaxCredits = 3
SPECIFICATION Spec
INVARIANTS TypeOK Reconciled RunLedgerBalanced SaleConserved PaymentCreditedOnce
PROPERTIES ReservationClosedOnce EscrowSpec
CHECK_DEADLOCK FALSE
