SPECIFICATION DeliverySpec
CONSTANTS
    User = {u1, u2}
    Device = {d1}
    PushToken = {t1, t2}
    Notification = {n1, n2}
    Nobody = Nobody
    Fcm = {t1}
    Lifetime = 3
    Lead = 1
    Timeout = 1
    MaxTime = 3
CONSTRAINT OneChooses
SYMMETRY Interchangeable
INVARIANTS DeliveryTypeOK WaitsAtMost
PROPERTIES PushReachesHolder PushRespectsChoice ImplementsDevicePush BearerIsFresh FetchedSparingly
CHECK_DEADLOCK FALSE
