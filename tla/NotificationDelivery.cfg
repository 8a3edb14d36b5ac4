\* One message, two users, a fan-out of one at a time: redelivery, crashes,
\* lost acks, failing calls; nothing waits for ever.
SPECIFICATION FairSpec
CONSTANTS
    Event = {e1}
    User = {u1, u2}
    Keys = {"tags", "names"}
    MaxDeliver = 2
    FanOut = 1
    MaxCrashes = 1
INVARIANTS TypeOK AckedIsDone
PROPERTIES KeepsLedger Settled
CHECK_DEADLOCK FALSE
