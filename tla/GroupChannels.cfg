\* A permanent or an ephemeral group, its members and one subscription at a time:
\* what holds of every subscription by itself.
SPECIFICATION ChannelSpec
CONSTANTS
    g1 = g1
    u1 = u1
    Group = {g1}
    User = {u1, u2}
    Proc = {p1}
    Ops = {"create", "add", "remove", "token"}
    Expiry = {0}
    Channel <- AllChannels
    MaxTime = 1
    MaxCrashes = 1
    MaxListeners = 1
INVARIANTS ChannelTypeOK OnlyMembersEverListen ListenersHaveGroup
PROPERTY GrantedToMembers
CHECK_DEADLOCK FALSE
