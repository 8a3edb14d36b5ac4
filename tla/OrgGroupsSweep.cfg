\* Two groups and the sweeper against a client that joins them and asks for
\* tokens: a sweep that fails on one, or dies on it, deletes both in the end.
SPECIFICATION FairSpec
CONSTANTS
    Group = {g1, g2}
    User = {u1}
    Proc = {p1}
    Ops = {"create", "add", "token"}
    Expiry = {0}
    MaxTime = 1
    MaxCrashes = 1
INVARIANTS LiveTokenLiveGroup DeletedMeansGone
PROPERTIES KeepsRegister  ExpiredIsDeleted
CHECK_DEADLOCK FALSE
