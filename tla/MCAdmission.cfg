CONSTANTS
    t1 = t1  t2 = t2  r1 = r1  r2 = r2  r3 = r3  e1 = e1
    l1 = l1  k1 = k1  k2 = k2  b1 = b1  b2 = b2  a1 = a1  s1 = s1  s2 = s2
    Tenants <- MCTenants
    Runs <- MCRuns
    Owner <- MCOwner
    Events <- MCEvents
    EventTenant <- MCEventTenant
    EventCredits <- MCEventCredits
    Listings <- MCListings
    Seller <- MCSeller
    Price <- MCPrice
    ShareBps <- MCShareBps
    PurchaseKeys <- MCPurchaseKeys
    NoListing = NoListing
    MaxCredits = 2
    Request <- MCRequest
    Controls <- MCControls
    NoKey = NoKey  NoRun = NoRun  NoSkill = NoSkill
    NoLimit = NoLimit
    LastMonth = 2
SPECIFICATION AdmissionSpec
INVARIANTS AdmissionTypeOK OneRunPerKey
PROPERTIES RunLimitHolds HoldsWithinLimit EveryRequestEnds
CHECK_DEADLOCK FALSE
