CONSTANTS
    k1 = k1  k2 = k2  k3 = k3  q1 = q1  q2 = q2  a1 = a1  a2 = a2
    Keys <- MCKeys
    FirstKey = k1
    NoKey = NoKey
    Requests <- MCRequests
    Admins <- DocAdmins
    SubscriptionStatuses <- DocStatuses
    Limit = 1
SPECIFICATION AccessSpec
INVARIANT OnlyPaidSubscriptionsActive
CHECK_DEADLOCK FALSE
