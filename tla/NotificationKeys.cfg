\* The events as the org service publishes them.
SPECIFICATION Spec
CONSTANTS
    Event = {e1}
    User = {u1}
    Keys = {"names"}
    MaxDeliver = 2
    FanOut = 1
    MaxCrashes = 1
INVARIANTS AddedMemberTold
CHECK_DEADLOCK FALSE
