CONSTANTS
    t1 = t1  r1 = r1  e1 = e1
    Tenants <- MCTenants
    Runs <- MCRuns
    Owner <- MCOwner
    Events <- MCEvents
    EventTenant <- MCEventTenant
    EventCredits <- MCEventCredits
    Listings <- None
    Seller <- NoFunction
    Price <- NoFunction
    ShareBps <- NoFunction
    PurchaseKeys <- None
    NoListing = NoListing
    MaxCredits = 2
    Length = 2
    Required <- MCRequired
    Charges <- MCCharges
    Workers = {w1, w2}
    Dispatchers = {d1}
    Operators = {o1}
    NoRun = NoRun
    MaxTries = 2
    Faults = {"crash", "worker", "database", "job", "redis", "provider", "timeout", "stall"}
SPECIFICATION LifecycleSpec
INVARIANTS LifecycleTypeOK ProviderCalledOnce PassIsPaid ChargeIsSettled CallsFitReservation NothingForNothing StartedMeansDispatched
PROPERTIES PaidRunSpec
CHECK_DEADLOCK FALSE
