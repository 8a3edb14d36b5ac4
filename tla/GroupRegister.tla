--------------------------- MODULE GroupRegister ---------------------------
(***************************************************************************)
(* What the org service promises the clients of groups, with each promise  *)
(* kept at once: an id is a group once, its row never changes, a group     *)
(* leaves the table when it is ephemeral and past its expiry and for no    *)
(* other reason, nobody joins or leaves a group that never was, a token is *)
(* signed for a member and until the group expires, and the events of its  *)
(* life are true.                                                          *)
(***************************************************************************)
EXTENDS Integers

CONSTANTS
    Group,      \* ids of groups
    User,       \* users
    NewGroup,   \* what a group may be: the rows clients may ask for
    Token       \* subscription tokens that may be signed

VARIABLES
    groups,     \* the groups there are: a function from ids to rows
    spent,      \* ids that are, or were, or failed to become a group
    members,    \* pairs of a group and a user
    tokens,     \* tokens signed
    announced,  \* group.created and group.deleted events
    clock       \* the time

vars == <<groups, spent, members, tokens, announced, clock>>

Init ==
    /\ DOMAIN groups = {}
    /\ spent = {}
    /\ members = {}
    /\ tokens = {}
    /\ announced = {}
    /\ clock = 0

Create(g, r) ==
    /\ g \notin spent
    /\ groups' = [h \in DOMAIN groups \cup {g} |-> IF h = g THEN r ELSE groups[h]]
    /\ spent' = spent \cup {g}
    /\ UNCHANGED <<members, tokens, announced, clock>>

\* Requests that were to create these groups failed.
Discard(ids) ==
    /\ spent' = spent \cup ids
    /\ UNCHANGED <<groups, members, tokens, announced, clock>>

Join(g, u) ==
    /\ g \in spent
    /\ members' = members \cup {<<g, u>>}
    /\ UNCHANGED <<groups, spent, tokens, announced, clock>>

Leave(g, u) ==
    /\ members' = members \ {<<g, u>>}
    /\ UNCHANGED <<groups, spent, tokens, announced, clock>>

\* A request that the expiry overtakes still gets a token, which is of no use.
Sign(k) ==
    /\ <<k.group, k.user>> \in members
    /\ IF k.group \in DOMAIN groups
       THEN groups[k.group].ephemeral /\ k.exp = groups[k.group].expiresAt
       ELSE k.exp < clock
    /\ tokens' = tokens \cup {k}
    /\ UNCHANGED <<groups, spent, members, announced, clock>>

Delete(g) ==
    /\ groups[g].ephemeral
    /\ groups[g].expiresAt < clock
    /\ groups' = [h \in DOMAIN groups \ {g} |-> groups[h]]
    /\ UNCHANGED <<spent, members, tokens, announced, clock>>

Announce(kind, g) ==
    /\ g \in spent
    /\ kind = "deleted" => g \notin DOMAIN groups
    /\ announced' = announced \cup {<<kind, g>>}
    /\ UNCHANGED <<groups, spent, members, tokens, clock>>

Tick ==
    /\ clock' = clock + 1
    /\ UNCHANGED <<groups, spent, members, tokens, announced>>

Next ==
    \/ \E g \in Group : \/ \E r \in NewGroup : Create(g, r)
                        \/ \E u \in User : Join(g, u) \/ Leave(g, u)
                        \/ \E kind \in {"created", "deleted"} : Announce(kind, g)
    \/ \E g \in DOMAIN groups : Delete(g)
    \/ \E ids \in SUBSET Group : Discard(ids)
    \/ \E k \in Token : Sign(k)
    \/ Tick

Spec == Init /\ [][Next]_vars
=============================================================================
