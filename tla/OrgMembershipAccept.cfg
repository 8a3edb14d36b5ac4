\* Two organizations after one slug, two users, one invitation, two requests: every race on them.
SPECIFICATION Spec
CONSTANTS
    Org = {o1, o2}
    Slug = {s1}
    User = {u1, u2}
    Inv = {i1}
    Proc = {p1, p2}
    Ops = {"create", "invite", "accept", "remove"}
    Offered = {"owner", "member"}
    TTL = 1
    MaxTime = 2
    MaxCrashes = 1
SYMMETRY Interchangeable
INVARIANTS TypeOK OneUserPerInvitation AcceptedIffUsed OwnerIsMember EventsAreTrue
PROPERTIES KeepsAdmission
CHECK_DEADLOCK FALSE
