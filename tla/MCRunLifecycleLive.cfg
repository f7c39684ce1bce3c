CONSTANTS
    t1 = t1  r1 = r1  e1 = e1
    Tenants <- MCTenants
    Runs <- MCRuns
    Owner <- MCOwner
    Events <- MCEvents
    EventTenant <- MCEventTenant
    EventCredits <- MCEventCredits
    Listings <- None
    Seller <- NoFunction
    Price <- NoFunction
    ShareBps <- NoFunction
    PurchaseKeys <- None
    NoListing = NoListing
    MaxCredits = 2
    Length = 2
    Required <- MCRequired
    Charges <- MCCharges
    Workers = {w1}
    Dispatchers = {d1, d2}
    Operators = {}
    NoRun = NoRun
    MaxTries = 2
    Faults = {"crash", "database", "redis", "provider"}
SPECIFICATION FairLifecycleSpec
PROPERTIES EveryHoldEnds EveryEventDispatched CancellationEndsRun PassStands
CHECK_DEADLOCK FALSE
