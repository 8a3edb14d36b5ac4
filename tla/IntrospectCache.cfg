\* Two tokens, two requests, a cache of two ticks and a timeout of one.
SPECIFICATION Spec
CONSTANTS
    Token = {t1, t2}
    Proc = {p1, p2}
    TTL = 2
    Timeout = 1
    MaxTime = 5
SYMMETRY Interchangeable
INVARIANTS StaleAtMost CacheExpires
CHECK_DEADLOCK FALSE
