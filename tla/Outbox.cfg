\* Two replicas, batches of two of three rows, one of them refused for ever; a crash.
SPECIFICATION FairSpec
CONSTANTS
    Event = {e1, e2, e3}
    Worker = {w1, w2}
    Limit = 2
    Poison = {e1}
    MaxTime = 1
    MaxCrashes = 1
INVARIANTS SentOnce
PROPERTIES InOrder KeepsPromise
CHECK_DEADLOCK FALSE
