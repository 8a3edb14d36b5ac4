--------------------------- MODULE OrgMembership ---------------------------
(***************************************************************************)
(* Organizations and their members in the org service: OrgService.CreateOrg*)
(* and MemberService (InviteMember, AcceptInvitation, RemoveMember), over  *)
(* the tables organizations, org_members and org_invitations.              *)
(*                                                                         *)
(* As with groups nothing is a transaction: every call to PostgreSQL or    *)
(* NATS is a step, requests interleave between them, a call may fail or be *)
(* done although the caller sees an error, and the process may crash.      *)
(***************************************************************************)
EXTENDS Integers, FiniteSets

CONSTANTS
    Org,        \* the organization ids uuid.New() may draw
    Slug,       \* slugs
    User,       \* users
    Inv,        \* invitations: an id and its token
    Proc,       \* the requests the service handles at the same time
    Ops,        \* the operations clients call: a bound of the instances
    Offered,    \* the roles they invite others to: another one
    TTL,        \* the 7 days an invitation is good for
    MaxTime,    \* bound on the clock
    MaxCrashes  \* bound on crashes of the process

Role == {"owner", "admin", "member"}

ASSUME OrgMembershipAssumption ==
    /\ TTL \in Nat
    /\ MaxTime \in Nat
    /\ MaxCrashes \in Nat
    /\ Ops \subseteq {"create", "invite", "accept", "remove"}
    /\ Offered \subseteq Role
    /\ Org \cap Inv = {}

\* One call: done and answered, not done, or done and answered by an error.
Outcome == {"ok", "lost", "ambiguous"}
Applied(o) == o # "lost"

Time == 0..(MaxTime + TTL)
OrgRow     == [slug : Slug, owner : User, createdAt : Time]
Invitation == [org : Org, role : Role, expiresAt : Time, accepted : BOOLEAN]
Membership == [role : Role, joinedAt : Time]

NoRequest == [pc |-> "idle"]
Request ==
    [op : {"create"}, pc : {"org", "owner", "publish"}, org : Org, row : OrgRow]
    \cup [op : {"invite"}, pc : {"db", "publish"}, inv : Inv, row : Invitation]
    \cup [op : {"accept"}, pc : {"join", "mark", "publish"}, inv : Inv,
          row : Invitation, user : User, now : Time]

VARIABLES
    orgs,         \* table organizations: a function from the ids of its rows
    members,      \* table org_members: a function from pairs <<org, user>>
    invitations,  \* table org_invitations: a function from the ids of its rows
    published,    \* the events published so far
    clock,        \* time.Now()
    proc,         \* what each request does next
    \* The four below are history: no step of the code reads them.
    uses,         \* how often an invitation let somebody in; 2 is twice or more
    left,         \* members RemoveMember has removed, as pairs <<org, user>>
    half,         \* organizations and invitations a failure left half done, and
                  \* invitations two requests accepted at the same time
    crashes       \* crashes so far

tables == <<orgs, members, invitations>>
vars == <<orgs, members, invitations, published, clock, proc, uses, left, half, crashes>>

TypeOK ==
    /\ DOMAIN orgs \subseteq Org
    /\ \A o \in DOMAIN orgs : orgs[o] \in OrgRow
    /\ DOMAIN members \subseteq Org \X User
    /\ \A m \in DOMAIN members : members[m] \in Membership
    /\ DOMAIN invitations \subseteq Inv
    /\ \A i \in DOMAIN invitations : invitations[i] \in Invitation
    /\ published \subseteq ({"org.created"} \X Org) \cup ({"org.member.invited"} \X Inv)
                           \cup ({"org.member.joined"} \X Org \X User)
    /\ clock \in 0..MaxTime
    /\ proc \in [Proc -> {NoRequest} \cup Request]
    /\ uses \in [Inv -> 0..2]
    /\ left \subseteq Org \X User
    /\ half \subseteq Org \cup Inv
    /\ crashes \in 0..MaxCrashes

Init ==
    /\ orgs = [o \in {} |-> NoRequest]
    /\ members = [m \in {} |-> NoRequest]
    /\ invitations = [i \in {} |-> NoRequest]
    /\ published = {}
    /\ clock = 0
    /\ proc = [p \in Proc |-> NoRequest]
    /\ uses = [i \in Inv |-> 0]
    /\ left = {}
    /\ half = {}
    /\ crashes = 0

(***************************************************************************)
(* Helpers.                                                                *)
(***************************************************************************)
Busy == {p \in Proc : proc[p].pc # "idle"}
Doing(op) == {p \in Busy : proc[p].op = op}

\* INSERT: the table with one more row.
Insert(table, key, row) ==
    [k \in DOMAIN table \cup {key} |-> IF k = key THEN row ELSE table[k]]

\* Random ids are new: no row and no request has them.
NewOrg(o) == /\ o \notin DOMAIN orgs
             /\ \A p \in Doing("create") : proc[p].org # o
             /\ \A i \in DOMAIN invitations : invitations[i].org # o
             /\ \A p \in Doing("invite") : proc[p].row.org # o
NewInv(i) == /\ i \notin DOMAIN invitations
             /\ \A p \in Doing("invite") : proc[p].inv # i

\* What a request leaves half done if it ends at its pc: the organization has
\* no owner among its members, the invitation let somebody in and stays open.
HalfDone(r) ==
    CASE r.pc = "owner" -> {r.org}
      [] r.pc = "mark"  -> {r.inv}
      [] OTHER          -> {}

\* The request goes to its next call, or ends because this call failed.
Proceed(p, o, pc) ==
    proc' = [proc EXCEPT ![p] = IF o = "ok" THEN [@ EXCEPT !.pc = pc] ELSE NoRequest]
Finish(p) == proc' = [proc EXCEPT ![p] = NoRequest]

(***************************************************************************)
(* CreateOrg: the organization, its owner among the members, the event.    *)
(***************************************************************************)
StartCreate(p, o, row) ==
    /\ proc[p].pc = "idle"
    /\ NewOrg(o)
    /\ row.createdAt = clock
    /\ proc' = [proc EXCEPT ![p] = [op |-> "create", pc |-> "org", org |-> o, row |-> row]]
    /\ UNCHANGED <<tables, published, clock, uses, left, half, crashes>>

SlugTaken(slug) == \E o \in DOMAIN orgs : orgs[o].slug = slug

\* The unique slug refuses the row; so may the call, with the row in or out.
InsertOrg(p, o) ==
    /\ proc[p].pc = "org"
    /\ IF SlugTaken(proc[p].row.slug)
       THEN /\ Finish(p)
            /\ UNCHANGED <<orgs, half>>
       ELSE /\ orgs' = IF Applied(o) THEN Insert(orgs, proc[p].org, proc[p].row) ELSE orgs
            /\ half' = IF o = "ambiguous" THEN half \cup {proc[p].org} ELSE half
            /\ Proceed(p, o, "owner")
    /\ UNCHANGED <<members, invitations, published, clock, uses, left, crashes>>

\* A mutant: the error of members.Add is ignored like the publisher's.
AddOwnerBestEffort(p, o) ==
    /\ proc[p].pc = "owner"
    /\ members' = IF Applied(o)
                  THEN Insert(members, <<proc[p].org, proc[p].row.owner>>,
                              [role |-> "owner", joinedAt |-> proc[p].row.createdAt])
                  ELSE members
    /\ Proceed(p, "ok", "publish")
    /\ UNCHANGED <<orgs, invitations, published, clock, uses, left, half, crashes>>

\* A failure leaves the organization, and its slug, without the owner.
AddOwner(p, o) ==
    /\ proc[p].pc = "owner"
    /\ members' = IF Applied(o)
                  THEN Insert(members, <<proc[p].org, proc[p].row.owner>>,
                              [role |-> "owner", joinedAt |-> proc[p].row.createdAt])
                  ELSE members
    /\ half' = IF Applied(o) THEN half ELSE half \cup {proc[p].org}
    /\ Proceed(p, o, "publish")
    /\ UNCHANGED <<orgs, invitations, published, clock, uses, left, crashes>>

(***************************************************************************)
(* InviteMember: the invitation, the event.  Neither the inviter nor the   *)
(* organization is looked up; an id the service has not answered yet cannot*)
(* be asked for.                                                           *)
(***************************************************************************)
\* A mutant: the 7 days are added twice.
StartInviteTwiceAsLong(p, i, o, r) ==
    /\ proc[p].pc = "idle"
    /\ NewInv(i)
    /\ \A q \in Doing("create") : proc[q].org # o
    /\ proc' = [proc EXCEPT ![p] =
                   [op |-> "invite", pc |-> "db", inv |-> i,
                    row |-> [org |-> o, role |-> r, expiresAt |-> clock + TTL + TTL,
                             accepted |-> FALSE]]]
    /\ UNCHANGED <<tables, published, clock, uses, left, half, crashes>>

StartInvite(p, i, o, r) ==
    /\ proc[p].pc = "idle"
    /\ NewInv(i)
    /\ \A q \in Doing("create") : proc[q].org # o
    /\ proc' = [proc EXCEPT ![p] =
                   [op |-> "invite", pc |-> "db", inv |-> i,
                    row |-> [org |-> o, role |-> r, expiresAt |-> clock + TTL,
                             accepted |-> FALSE]]]
    /\ UNCHANGED <<tables, published, clock, uses, left, half, crashes>>

InsertInvitation(p, o) ==
    /\ proc[p].pc = "db"
    /\ invitations' = IF Applied(o) THEN Insert(invitations, proc[p].inv, proc[p].row)
                                    ELSE invitations
    /\ Proceed(p, o, "publish")
    /\ UNCHANGED <<orgs, members, published, clock, uses, left, half, crashes>>

(***************************************************************************)
(* AcceptInvitation: read and check, join, mark, the event.                *)
(***************************************************************************)
\* Mutants: the check of accepted_at is gone; the check of expires_at is gone.
FindByTokenAnyState(p, i, u) ==
    /\ proc[p].pc = "idle"
    /\ i \in DOMAIN invitations
    /\ invitations[i].expiresAt >= clock
    /\ proc' = [proc EXCEPT ![p] = [op |-> "accept", pc |-> "join", inv |-> i,
                   row |-> invitations[i], user |-> u, now |-> clock]]
    /\ half' = IF \E q \in Doing("accept") : proc[q].pc # "publish" /\ proc[q].inv = i
               THEN half \cup {i} ELSE half
    /\ UNCHANGED <<tables, published, clock, uses, left, crashes>>
FindByTokenAnyTime(p, i, u) ==
    /\ proc[p].pc = "idle"
    /\ i \in DOMAIN invitations
    /\ ~invitations[i].accepted
    /\ proc' = [proc EXCEPT ![p] = [op |-> "accept", pc |-> "join", inv |-> i,
                   row |-> invitations[i], user |-> u, now |-> clock]]
    /\ half' = IF \E q \in Doing("accept") : proc[q].pc # "publish" /\ proc[q].inv = i
               THEN half \cup {i} ELSE half
    /\ UNCHANGED <<tables, published, clock, uses, left, crashes>>

\* The row read decides; joined_at is taken right after the checks.  The second
\* of two requests that hold the same invitation open makes it a shared one.
FindByToken(p, i, u) ==
    /\ proc[p].pc = "idle"
    /\ i \in DOMAIN invitations
    /\ ~invitations[i].accepted
    /\ invitations[i].expiresAt >= clock
    /\ proc' = [proc EXCEPT ![p] = [op |-> "accept", pc |-> "join", inv |-> i,
                   row |-> invitations[i], user |-> u, now |-> clock]]
    /\ half' = IF \E q \in Doing("accept") : proc[q].pc # "publish" /\ proc[q].inv = i
               THEN half \cup {i} ELSE half
    /\ UNCHANGED <<tables, published, clock, uses, left, crashes>>

\* A mutant: ON CONFLICT DO NOTHING, as group_members has it.
JoinOnConflictDoNothing(p, o) ==
    /\ proc[p].pc = "join"
    /\ LET m == <<proc[p].row.org, proc[p].user>>
       IN  members' = IF m \in DOMAIN members \/ ~Applied(o) THEN members
                      ELSE Insert(members, m, [role |-> proc[p].row.role,
                                               joinedAt |-> proc[p].now])
    /\ uses' = IF members' = members THEN uses
               ELSE [uses EXCEPT ![proc[p].inv] = IF @ = 0 THEN 1 ELSE 2]
    /\ half' = IF o = "ambiguous" THEN half \cup {proc[p].inv} ELSE half
    /\ Proceed(p, o, "mark")
    /\ UNCHANGED <<orgs, invitations, published, clock, left, crashes>>

\* members.Add; the primary key refuses someone who is a member already.
Join(p, o) ==
    /\ proc[p].pc = "join"
    /\ LET m == <<proc[p].row.org, proc[p].user>>
           i == proc[p].inv
       IN  IF m \in DOMAIN members
           THEN /\ Finish(p)
                /\ UNCHANGED <<members, uses, half>>
           ELSE /\ members' = IF Applied(o)
                              THEN Insert(members, m, [role |-> proc[p].row.role,
                                                       joinedAt |-> proc[p].now])
                              ELSE members
                /\ uses' = IF Applied(o) THEN [uses EXCEPT ![i] = IF @ = 0 THEN 1 ELSE 2]
                                         ELSE uses
                /\ half' = IF o = "ambiguous" THEN half \cup {i} ELSE half
                /\ Proceed(p, o, "mark")
    /\ UNCHANGED <<orgs, invitations, published, clock, left, crashes>>

\* A mutant: an error of MarkAccepted is ignored.
MarkAcceptedBestEffort(p, o) ==
    /\ proc[p].pc = "mark"
    /\ invitations' = IF Applied(o) THEN [invitations EXCEPT ![proc[p].inv].accepted = TRUE]
                                    ELSE invitations
    /\ half' = IF Applied(o) THEN half ELSE half \cup {proc[p].inv}
    /\ Proceed(p, "ok", "publish")
    /\ UNCHANGED <<orgs, members, published, clock, uses, left, crashes>>

MarkAccepted(p, o) ==
    /\ proc[p].pc = "mark"
    /\ invitations' = IF Applied(o) THEN [invitations EXCEPT ![proc[p].inv].accepted = TRUE]
                                    ELSE invitations
    /\ half' = IF Applied(o) THEN half ELSE half \cup {proc[p].inv}
    /\ Proceed(p, o, "publish")
    /\ UNCHANGED <<orgs, members, published, clock, uses, left, crashes>>

(***************************************************************************)
(* The last call of the three requests; its error is ignored.              *)
(***************************************************************************)
EventOf(r) ==
    CASE r.op = "create" -> <<"org.created", r.org>>
      [] r.op = "invite" -> <<"org.member.invited", r.inv>>
      [] OTHER           -> <<"org.member.joined", r.row.org, r.user>>

Publish(p, o) ==
    /\ proc[p].pc = "publish"
    /\ published' = IF Applied(o) THEN published \cup {EventOf(proc[p])} ELSE published
    /\ Finish(p)
    /\ UNCHANGED <<tables, clock, uses, left, half, crashes>>

\* RemoveMember: one DELETE, no event; it succeeds when there is no such row.
RemoveMember(o, u) ==
    /\ members' = [m \in DOMAIN members \ {<<o, u>>} |-> members[m]]
    /\ left' = left \cup ({<<o, u>>} \cap DOMAIN members)
    /\ UNCHANGED <<orgs, invitations, published, clock, proc, uses, half, crashes>>

(***************************************************************************)
(* The environment.                                                        *)
(***************************************************************************)
Tick ==
    /\ clock < MaxTime
    /\ clock' = clock + 1
    /\ UNCHANGED <<tables, published, proc, uses, left, half, crashes>>

Crash ==
    /\ crashes < MaxCrashes
    /\ crashes' = crashes + 1
    /\ half' = half \cup UNION {HalfDone(proc[p]) : p \in Busy}
    /\ proc' = [p \in Proc |-> NoRequest]
    /\ UNCHANGED <<tables, published, clock, uses, left>>

Start(p) ==
    \/ \E o \in Org, row \in OrgRow : "create" \in Ops /\ StartCreate(p, o, row)
    \/ \E i \in Inv, o \in Org, r \in Offered : "invite" \in Ops /\ StartInvite(p, i, o, r)
    \/ \E i \in Inv, u \in User : "accept" \in Ops /\ FindByToken(p, i, u)

Call(p, o) ==
    \/ InsertOrg(p, o)
    \/ AddOwner(p, o)
    \/ InsertInvitation(p, o)
    \/ Join(p, o)
    \/ MarkAccepted(p, o)
    \/ Publish(p, o)

Next ==
    \/ \E p \in Proc : Start(p)
    \/ \E p \in Proc, o \in Outcome : Call(p, o)
    \/ \E o \in Org, u \in User : "remove" \in Ops /\ RemoveMember(o, u)
    \/ Tick
    \/ Crash

Spec == Init /\ [][Next]_vars

(***************************************************************************)
(* Properties.                                                             *)
(***************************************************************************)

\* Nobody is a member but the owner of the organization and those an invitation
\* to it let in, in time and with the role the invitation gives (CreateOrg,
\* AcceptInvitation), whatever happened to the invitation in between.
MembersAreInvited ==
    \A m \in DOMAIN members :
        \/ /\ m[1] \in DOMAIN orgs
           /\ orgs[m[1]].owner = m[2]
           /\ members[m].role = "owner"
        \/ \E i \in DOMAIN invitations :
              /\ uses[i] > 0
              /\ invitations[i].org = m[1]
              /\ invitations[i].role = members[m].role
              /\ members[m].joinedAt <= invitations[i].expiresAt

\* What is promised of organizations and members, over all tables at once: the
\* owner gets the seat the moment the organization is complete or never, nobody
\* else becomes a member but by an invitation to it that was open or is in half,
\* in time and with its role, and nobody is announced who is not in or was not.
Unseated == {proc[p].org : p \in {q \in Proc : proc[q].pc = "owner"}}
Used == {i \in Inv : uses[i] > 0}
Admission == INSTANCE OrgAdmission WITH
    unseated <- Unseated, used <- Used, loose <- half \cap Inv

KeepsAdmission == Admission!Spec

\* An invitation lets in one user, unless AcceptInvitation was cut short between
\* members.Add and MarkAccepted or ran twice at the same time.
OneUserPerInvitation ==
    \A i \in Inv : uses[i] > 1 => i \in half

\* An invitation is accepted only if it let somebody in, and with no request
\* between its two writes the converse holds, but for those a failure left open.
AcceptedIffUsed ==
    /\ \A i \in DOMAIN invitations : invitations[i].accepted => uses[i] > 0
    /\ \A i \in DOMAIN invitations :
          uses[i] > 0 => \/ invitations[i].accepted
                         \/ i \in half
                         \/ \E p \in Busy : proc[p].pc = "mark" /\ proc[p].inv = i

\* Every organization has its owner among its members until the owner leaves,
\* but for one being created or left half created.
OwnerIsMember ==
    \A o \in DOMAIN orgs :
        \/ <<o, orgs[o].owner>> \in DOMAIN members
        \/ <<o, orgs[o].owner>> \in left
        \/ o \in half
        \/ \E p \in Doing("create") : proc[p].org = o /\ proc[p].pc = "owner"

\* An event is published only of what is in the tables: an organization complete
\* with its owner, an invitation, a member whose invitation is accepted.
EventsAreTrue ==
    /\ \A o \in Org : <<"org.created", o>> \in published => o \in DOMAIN orgs \ half
    /\ \A i \in Inv : <<"org.member.invited", i>> \in published => i \in DOMAIN invitations
    /\ \A m \in Org \X User :
          <<"org.member.joined", m[1], m[2]>> \in published
             => \E i \in DOMAIN invitations : /\ invitations[i].org = m[1]
                                              /\ invitations[i].accepted

\* member.go: IsAccepted reports whether the invitation has already been
\* accepted.  Violated: when MarkAccepted fails after members.Add, the member
\* is in, the invitation is not accepted, and the next user gets in with it.
UsedIsAccepted ==
    Busy = {} => \A i \in DOMAIN invitations : uses[i] > 0 => invitations[i].accepted
=============================================================================
