\* Two messages in the buffer of one process: each is handled once per delivery, none is skipped.
SPECIFICATION Spec
CONSTANTS
    Event = {e1, e2}
    User = {u1}
    Keys = {"tags", "names"}
    MaxDeliver = 2
    FanOut = 1
    MaxCrashes = 1
SYMMETRY Interchangeable
INVARIANTS OnePerDelivery NoneSkipped
CHECK_DEADLOCK FALSE
