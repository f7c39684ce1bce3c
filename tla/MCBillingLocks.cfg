CONSTANTS
    t1 = t1  t2 = t2  r1 = r1  e1 = e1  e2 = e2  l1 = l1  l2 = l2  k1 = k1
    x1 = x1  x2 = x2  x3 = x3
    Tenants <- MCTenants
    Rank <- MCRank
    Runs <- MCRuns
    Owner <- MCOwner
    Events <- MCEvents
    EventTenant <- MCEventTenant
    EventCredits <- MCEventCredits
    Listings <- MCListings
    Seller <- MCSeller
    Price <- MCPrice
    ShareBps <- MCShareBps
    PurchaseKeys <- MCPurchaseKeys
    NoListing = NoListing
    MaxCredits = 2
    Transactions <- MCTransactions
    NoOp = NoOp
SPECIFICATION LockSpec
INVARIANTS LocksTypeOK ReadsStayTrue NoDeadlock ReconcilerIsQuiet
SYMMETRY Symmetry
CHECK_DEADLOCK FALSE
