---------------------------- MODULE OrgAdmission ----------------------------
(***************************************************************************)
(* What the org service promises of organizations and their members, with  *)
(* each promise kept at once: a slug is of one organization; its founder   *)
(* is its owner; everybody else is let in by an invitation to it, in time  *)
(* and with the role it gives, and an invitation lets in one user; what    *)
(* was let in leaves only when removed; events are true.  What failures    *)
(* and overlapping requests take away from this is stated too: an          *)
(* organization may be left without an owner, and an invitation loose, so  *)
(* that it lets in somebody else.                                          *)
(***************************************************************************)
EXTENDS Integers

CONSTANTS
    Org,        \* ids of organizations
    User,       \* users
    Inv,        \* ids of invitations
    OrgRow,     \* what an organization may be: its slug, its owner, when it was made
    Invitation  \* what an invitation may be

VARIABLES
    orgs,         \* the organizations there are: a function from ids to rows
    members,      \* their members: a function from pairs <<org, user>>
    invitations,  \* a function from ids to rows
    unseated,     \* organizations whose owner is still to become a member
    used,         \* invitations that let somebody in
    loose,        \* those that may let in more than one
    left,         \* members that were removed
    published,    \* events
    clock         \* the time

vars == <<orgs, members, invitations, unseated, used, loose, left, published, clock>>

Init ==
    /\ DOMAIN orgs = {}
    /\ DOMAIN members = {}
    /\ DOMAIN invitations = {}
    /\ unseated = {}
    /\ used = {}
    /\ loose = {}
    /\ left = {}
    /\ published = {}
    /\ clock = 0

With(table, key, row) ==
    [k \in DOMAIN table \cup {key} |-> IF k = key THEN row ELSE table[k]]

\* If the request that founds it is cut short, nobody waits for the seat.
Found(o, row) ==
    /\ o \notin DOMAIN orgs
    /\ \A other \in DOMAIN orgs : orgs[other].slug # row.slug
    /\ orgs' = With(orgs, o, row)
    /\ unseated' \in {unseated, unseated \cup {o}}
    /\ UNCHANGED <<members, invitations, used, loose, left, published, clock>>

\* The owner takes the seat, before anybody else is in, or never will.
Seat(o) ==
    /\ o \in unseated
    /\ \A m \in DOMAIN members : m[1] # o
    /\ members' = With(members, <<o, orgs[o].owner>>,
                       [role |-> "owner", joinedAt |-> orgs[o].createdAt])
    /\ unseated' = unseated \ {o}
    /\ UNCHANGED <<orgs, invitations, used, loose, left, published, clock>>

Invite(i, row) ==
    /\ i \notin DOMAIN invitations
    /\ ~row.accepted
    /\ invitations' = With(invitations, i, row)
    /\ UNCHANGED <<orgs, members, unseated, used, loose, left, published, clock>>

\* A request that is cut short right after this leaves the invitation loose.
Admit(i, u) ==
    /\ i \in DOMAIN invitations
    /\ i \in used => i \in loose
    /\ <<invitations[i].org, u>> \notin DOMAIN members
    /\ used' = used \cup {i}
    /\ loose' \in {loose, loose \cup {i}}
    /\ \E t \in 0..clock :
          /\ t <= invitations[i].expiresAt
          /\ members' = With(members, <<invitations[i].org, u>>,
                             [role |-> invitations[i].role, joinedAt |-> t])
    /\ UNCHANGED <<orgs, invitations, unseated, left, published, clock>>

Accept(i) ==
    /\ i \in used
    /\ invitations' = [invitations EXCEPT ![i].accepted = TRUE]
    /\ UNCHANGED <<orgs, members, unseated, used, loose, left, published, clock>>

\* Requests are cut short, or two hold the same invitation.
Fail ==
    /\ unseated' \subseteq unseated
    /\ loose \subseteq loose'
    /\ UNCHANGED <<orgs, members, invitations, used, left, published, clock>>

Expel(o, u) ==
    /\ <<o, u>> \in DOMAIN members
    /\ members' = [m \in DOMAIN members \ {<<o, u>>} |-> members[m]]
    /\ left' = left \cup {<<o, u>>}
    /\ UNCHANGED <<orgs, invitations, unseated, used, loose, published, clock>>

Announce(e) ==
    /\ published' = published \cup {e}
    /\ UNCHANGED <<orgs, members, invitations, unseated, used, loose, left, clock>>

\* Whoever is announced is a member, or was one and has been removed since.
AnnounceOrg(o) ==
    /\ o \in DOMAIN orgs
    /\ <<o, orgs[o].owner>> \in DOMAIN members \cup left
    /\ Announce(<<"org.created", o>>)

AnnounceInvitation(i) ==
    /\ i \in DOMAIN invitations
    /\ Announce(<<"org.member.invited", i>>)

AnnounceMember(i, u) ==
    /\ i \in DOMAIN invitations
    /\ invitations[i].accepted
    /\ <<invitations[i].org, u>> \in DOMAIN members \cup left
    /\ Announce(<<"org.member.joined", invitations[i].org, u>>)

Tick ==
    /\ clock' = clock + 1
    /\ UNCHANGED <<orgs, members, invitations, unseated, used, loose, left, published>>

Next ==
    \/ Fail
    \/ Tick
    \/ \E o \in Org :
          \/ Seat(o)
          \/ AnnounceOrg(o)
          \/ \E row \in OrgRow : Found(o, row)
          \/ \E u \in User : Expel(o, u)
    \/ \E i \in Inv :
          \/ Accept(i)
          \/ AnnounceInvitation(i)
          \/ \E row \in Invitation : Invite(i, row)
          \/ \E u \in User : Admit(i, u) \/ AnnounceMember(i, u)

Spec == Init /\ [][Next]_vars
=============================================================================
