\* One group, two users, two requests at the same time: every race on a member.
SPECIFICATION Spec
CONSTANTS
    Group = {g1}
    User = {u1, u2}
    Proc = {p1, p2}
    Ops = {"create", "add", "remove"}
    Expiry = {0}
    MaxTime = 1
    MaxCrashes = 1
SYMMETRY Interchangeable
INVARIANTS TypeOK EphemeralHasNoTuples KetoMirrorsTables FeedMirrorsMembers
CHECK_DEADLOCK FALSE
