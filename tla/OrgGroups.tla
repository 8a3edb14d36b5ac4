----------------------------- MODULE OrgGroups -----------------------------
(***************************************************************************)
(* Groups of the org service: GroupService (CreateGroup, AddGroupMember,   *)
(* RemoveGroupMember, IssueSubscriptionToken) and GroupExpirySweeper, over *)
(* the tables groups and group_members, the Keto tuple store and the event *)
(* stream.                                                                 *)
(*                                                                         *)
(* No operation is a transaction.  Each one reads the group, writes the    *)
(* database, calls Keto and publishes an event, one call after the other,  *)
(* and each call is a step of its own here, so that requests interleave    *)
(* with one another and with the sweeper, calls fail in between, and the   *)
(* process crashes between any two of them.                                *)
(***************************************************************************)
EXTENDS Integers, FiniteSets

CONSTANTS
    Group,      \* the group ids uuid.New() may draw
    User,       \* the users that create, join and leave groups
    Proc,       \* the requests the service handles at the same time
    Ops,        \* the operations clients call: a bound of the instances
    Expiry,     \* the values of expires_at a client may ask for
    MaxTime,    \* bound on the clock
    MaxCrashes  \* bound on crashes of the process

NoTime == 0 - 1    \* ExpiresAt = nil

ASSUME OrgGroupsAssumption ==
    /\ MaxTime \in Nat
    /\ MaxCrashes \in Nat
    /\ Expiry \subseteq 0..MaxTime
    /\ Ops \subseteq {"create", "add", "remove", "token"}

(***************************************************************************)
(* Data.  A row of the table groups keeps the columns the code decides by. *)
(***************************************************************************)
Row == [ephemeral : BOOLEAN, expiresAt : Expiry \cup {NoTime}, createdBy : User]

\* NewGroup's checks: an ephemeral group needs an expires_at; any group may
\* have one, in the past too.
NewGroup == {r \in Row : r.ephemeral => r.expiresAt # NoTime}

\* One call to PostgreSQL, Keto or NATS: it is done and answered; it is not
\* done; or it is done and the caller sees an error (a timeout, a lost
\* connection, a client that went away).
Outcome == {"ok", "lost", "ambiguous"}
Applied(o) == o # "lost"

Tuple == Group \X {"admin", "member"} \X User       \* relation tuples in Keto
Token == [group : Group, user : User, exp : Expiry \cup {NoTime}]
NoRequest == [pc |-> "idle"]
Request == [op : Ops,
            pc : {"db", "keto", "publish", "list"},
            group : Group, user : User, row : NewGroup]

VARIABLES
    groups,     \* table groups: a function from the ids of its rows to rows
    members,    \* table group_members: pairs of a group and a user
    keto,       \* the relation tuples Keto holds
    feed,       \* for a group and a user: the last membership event published
    announced,  \* group.created and group.deleted events published so far
    tokens,     \* subscription tokens issued so far
    clock,      \* time.Now(), for the service and for token verification
    proc,       \* what each request handler does next, NoRequest if free
    sweep,      \* what the sweeper does next
    \* The two variables below are history: no step of the code reads them.
    taken,      \* ids that uuid.New() has drawn
    drift,      \* writes that a failure, a crash or a race may have left undone
    crashes     \* crashes so far

tables  == <<groups, members>>
events  == <<feed, announced>>
history == <<taken, crashes>>
vars == <<groups, members, keto, feed, announced, tokens, clock, proc, sweep,
          taken, drift, crashes>>

\* Mutants of ListExpiredGroups: <= for <; no test of ephemeral; a join with
\* group_members, which misses the groups nobody joined.
ExpiredTooSoon == {<<g, groups[g].createdBy>> : g \in
    {h \in DOMAIN groups : groups[h].ephemeral /\ groups[h].expiresAt <= clock}}
ExpiredOfAnyKind == {<<g, groups[g].createdBy>> : g \in
    {h \in DOMAIN groups : groups[h].expiresAt # NoTime /\ groups[h].expiresAt < clock}}
ExpiredWithMembers == {<<m[1], groups[m[1]].createdBy>> : m \in
    {n \in members : n[1] \in DOMAIN groups /\ groups[n[1]].ephemeral
                    /\ groups[n[1]].expiresAt < clock}}

(***************************************************************************)
(* The sweeper holds the snapshot of ListExpired it works through, the     *)
(* group it is deleting and the tuples it has still to delete for it.      *)
(***************************************************************************)
NoSweep == [pc |-> "idle"]
Expired == {<<g, groups[g].createdBy>> : g \in
              {h \in DOMAIN groups : /\ groups[h].ephemeral
                                     /\ groups[h].expiresAt # NoTime
                                     /\ groups[h].expiresAt < clock}}

TypeOK ==
    /\ DOMAIN groups \subseteq Group
    /\ \A g \in DOMAIN groups : groups[g] \in NewGroup
    /\ members \subseteq Group \X User
    /\ keto \subseteq Tuple
    /\ feed \in [Group \X User -> {"none", "added", "removed"}]
    /\ announced \subseteq {"created", "deleted"} \X Group
    /\ tokens \subseteq Token
    /\ clock \in 0..MaxTime
    /\ proc \in [Proc -> {NoRequest} \cup Request]
    /\ sweep \in {NoSweep}
                 \cup [pc : {"pick"}, todo : SUBSET (Group \X User)]
                 \cup [pc : {"keto", "publish"}, todo : SUBSET (Group \X User),
                       group : Group, doomed : SUBSET Tuple]
    /\ taken \subseteq Group
    /\ drift \subseteq Group \X {"admin", "member", "feed"} \X User
    /\ crashes \in 0..MaxCrashes

Init ==
    /\ groups = [g \in {} |-> NoRequest]
    /\ members = {}
    /\ keto = {}
    /\ feed = [m \in Group \X User |-> "none"]
    /\ announced = {}
    /\ tokens = {}
    /\ clock = 0
    /\ proc = [p \in Proc |-> NoRequest]
    /\ sweep = NoSweep
    /\ taken = {}
    /\ drift = {}
    /\ crashes = 0

(***************************************************************************)
(* What a request still owes Keto and the stream when it is at its pc.     *)
(***************************************************************************)
TupleOf(r) == <<r.group, IF r.op = "create" THEN "admin" ELSE "member", r.user>>
FeedOf(r)  == <<r.group, "feed", r.user>>
Owes(r) ==
    (IF r.pc = "keto" THEN {TupleOf(r)} ELSE {}) \cup
    (IF r.pc \in {"keto", "publish"} /\ r.op \in {"add", "remove"}
     THEN {FeedOf(r)} ELSE {})

\* Another request that adds or removes the same member is under way.
Overlaps(p, g, u) ==
    \E q \in Proc \ {p} : /\ proc[q].pc # "idle"
                          /\ proc[q].op \in {"add", "remove"}
                          /\ proc[q].group = g
                          /\ proc[q].user = u

(***************************************************************************)
(* Requests: the first step.                                               *)
(***************************************************************************)

\* CreateGroup: NewGroup validates and draws the id.
StartCreate(p, g, r) ==
    /\ proc[p].pc = "idle"
    /\ g \notin taken
    /\ r \in NewGroup
    /\ taken' = taken \cup {g}
    /\ proc' = [proc EXCEPT ![p] = [op |-> "create", pc |-> "db", group |-> g,
                                    user |-> r.createdBy, row |-> r]]
    /\ UNCHANGED <<tables, keto, events, tokens, clock, sweep, drift, crashes>>

\* AddGroupMember and RemoveGroupMember: FindByID, whose answer the request
\* keeps; an unknown group ends the request.
StartChange(p, op, g, u) ==
    /\ proc[p].pc = "idle"
    /\ op \in {"add", "remove"}
    /\ g \in DOMAIN groups
    /\ proc' = [proc EXCEPT ![p] = [op |-> op, pc |-> "db", group |-> g,
                                    user |-> u, row |-> groups[g]]]
    /\ drift' = IF Overlaps(p, g, u)
                THEN drift \cup {<<g, "member", u>>, <<g, "feed", u>>}
                ELSE drift
    /\ UNCHANGED <<tables, keto, events, tokens, clock, sweep, history>>

\* IssueSubscriptionToken: FindByID and the checks on the row.
StartToken(p, g, u) ==
    /\ proc[p].pc = "idle"
    /\ g \in DOMAIN groups
    /\ groups[g].ephemeral
    /\ groups[g].expiresAt # NoTime
    /\ groups[g].expiresAt >= clock
    /\ proc' = [proc EXCEPT ![p] = [op |-> "token", pc |-> "list", group |-> g,
                                    user |-> u, row |-> groups[g]]]
    /\ UNCHANGED <<tables, keto, events, tokens, clock, sweep, drift, history>>

(***************************************************************************)
(* Requests: the database write.  An error ends the request; the snapshot  *)
(* decides whether Keto is called.  A write no other request overlaps      *)
(* settles the debts of earlier ones: it now owes them itself.             *)
(***************************************************************************)
\* A mutant: the guard on Ephemeral is gone.
AfterWriteAlwaysKeto(r) == [r EXCEPT !.pc = "keto"]

AfterWrite(r) == [r EXCEPT !.pc = IF r.row.ephemeral THEN "publish" ELSE "keto"]

Settle(p, o) ==
    /\ proc' = [proc EXCEPT ![p] = IF o = "ok" THEN AfterWrite(proc[p])
                                               ELSE NoRequest]
    /\ drift' = CASE o = "ambiguous" -> drift \cup Owes(AfterWrite(proc[p]))
                 [] o = "ok" /\ ~Overlaps(p, proc[p].group, proc[p].user)
                      -> drift \ Owes(AfterWrite(proc[p]))
                 [] OTHER -> drift

\* A mutant: the expiry is not marked valid and is stored as NULL.
CreateRowWithoutExpiry(p, o) ==
    /\ proc[p].pc = "db" /\ proc[p].op = "create"
    /\ groups' = [g \in DOMAIN groups \cup {proc[p].group} |->
                     IF g = proc[p].group
                     THEN [proc[p].row EXCEPT !.expiresAt = NoTime] ELSE groups[g]]
    /\ Settle(p, o)
    /\ UNCHANGED <<members, keto, events, tokens, clock, sweep, history>>

CreateRow(p, o) ==
    /\ proc[p].pc = "db" /\ proc[p].op = "create"
    /\ groups' = IF Applied(o)
                 THEN [g \in DOMAIN groups \cup {proc[p].group} |->
                          IF g = proc[p].group THEN proc[p].row ELSE groups[g]]
                 ELSE groups
    /\ Settle(p, o)
    /\ UNCHANGED <<members, keto, events, tokens, clock, sweep, history>>

\* INSERT ... ON CONFLICT DO NOTHING; no foreign key ties the row to a group.
AddMember(p, o) ==
    /\ proc[p].pc = "db" /\ proc[p].op = "add"
    /\ members' = IF Applied(o) THEN members \cup {<<proc[p].group, proc[p].user>>}
                                ELSE members
    /\ Settle(p, o)
    /\ UNCHANGED <<groups, keto, events, tokens, clock, sweep, history>>

RemoveMember(p, o) ==
    /\ proc[p].pc = "db" /\ proc[p].op = "remove"
    /\ members' = IF Applied(o) THEN members \ {<<proc[p].group, proc[p].user>>}
                                ELSE members
    /\ Settle(p, o)
    /\ UNCHANGED <<groups, keto, events, tokens, clock, sweep, history>>

(***************************************************************************)
(* Requests: Keto, then the stream.  Both are best effort: the request     *)
(* goes on and answers success whatever comes of the call.                 *)
(***************************************************************************)
BestEffort(p, o, next, debt) ==
    /\ proc' = [proc EXCEPT ![p] = next]
    /\ drift' = IF Applied(o) THEN drift ELSE drift \cup debt

WriteRelation(p, o) ==
    /\ proc[p].pc = "keto" /\ proc[p].op \in {"create", "add"}
    /\ keto' = IF Applied(o) THEN keto \cup {TupleOf(proc[p])} ELSE keto
    /\ BestEffort(p, o, [proc[p] EXCEPT !.pc = "publish"], {TupleOf(proc[p])})
    /\ UNCHANGED <<tables, events, tokens, clock, sweep, history>>

\* A mutant: the tuple is deleted under another relation.
DeleteRelationOfAdmin(p, o) ==
    /\ proc[p].pc = "keto" /\ proc[p].op = "remove"
    /\ keto' = keto \ {<<proc[p].group, "admin", proc[p].user>>}
    /\ BestEffort(p, o, [proc[p] EXCEPT !.pc = "publish"], {TupleOf(proc[p])})
    /\ UNCHANGED <<tables, events, tokens, clock, sweep, history>>

DeleteRelation(p, o) ==
    /\ proc[p].pc = "keto" /\ proc[p].op = "remove"
    /\ keto' = IF Applied(o) THEN keto \ {TupleOf(proc[p])} ELSE keto
    /\ BestEffort(p, o, [proc[p] EXCEPT !.pc = "publish"], {TupleOf(proc[p])})
    /\ UNCHANGED <<tables, events, tokens, clock, sweep, history>>

PublishCreated(p, o) ==
    /\ proc[p].pc = "publish" /\ proc[p].op = "create"
    /\ announced' = IF Applied(o) THEN announced \cup {<<"created", proc[p].group>>}
                                  ELSE announced
    /\ BestEffort(p, o, NoRequest, {})
    /\ UNCHANGED <<tables, keto, feed, tokens, clock, sweep, history>>

\* A mutant: both operations publish group.member_added.
PublishAlwaysAdded(p, o) ==
    /\ proc[p].pc = "publish" /\ proc[p].op \in {"add", "remove"}
    /\ feed' = IF Applied(o) THEN [feed EXCEPT ![<<proc[p].group, proc[p].user>>] = "added"]
                             ELSE feed
    /\ BestEffort(p, o, NoRequest, {FeedOf(proc[p])})
    /\ UNCHANGED <<tables, keto, announced, tokens, clock, sweep, history>>

PublishChange(p, o) ==
    /\ proc[p].pc = "publish" /\ proc[p].op \in {"add", "remove"}
    /\ feed' = IF Applied(o)
               THEN [feed EXCEPT ![<<proc[p].group, proc[p].user>>] =
                        IF proc[p].op = "add" THEN "added" ELSE "removed"]
               ELSE feed
    /\ BestEffort(p, o, NoRequest, {FeedOf(proc[p])})
    /\ UNCHANGED <<tables, keto, announced, tokens, clock, sweep, history>>

\* IssueSubscriptionToken: ListMembers, then sign; the expiry is the one the
\* request read.
IssueToken(p) ==
    /\ proc[p].pc = "list"
    /\ tokens' = IF <<proc[p].group, proc[p].user>> \in members
                 THEN tokens \cup {[group |-> proc[p].group, user |-> proc[p].user,
                                    exp |-> proc[p].row.expiresAt]}
                 ELSE tokens
    /\ proc' = [proc EXCEPT ![p] = NoRequest]
    /\ UNCHANGED <<tables, keto, events, clock, sweep, drift, history>>

(***************************************************************************)
(* The sweeper: one goroutine, one group at a time.                        *)
(***************************************************************************)
Onward(todo) == IF todo = {} THEN NoSweep ELSE [pc |-> "pick", todo |-> todo]

\* A tick: ListExpired; an error waits for the next tick, as does an empty list.
SweepList ==
    /\ sweep.pc = "idle"
    /\ sweep' = Onward(Expired)
    /\ UNCHANGED <<tables, keto, events, tokens, clock, proc, drift, history>>

\* deleteGroup: ListMembers; an error is logged and the list taken as empty.
SweepMembers(e, o) ==
    /\ sweep.pc = "pick" /\ e \in sweep.todo
    /\ sweep' = [pc |-> "keto", todo |-> sweep.todo \ {e}, group |-> e[1],
                 doomed |-> {<<e[1], "admin", e[2]>>} \cup
                    (IF o = "ok" THEN {<<m[1], "member", m[2]>> :
                                         m \in {n \in members : n[1] = e[1]}}
                                 ELSE {})]
    /\ UNCHANGED <<tables, keto, events, tokens, clock, proc, drift, history>>

\* DeleteRelation for each member, the creator's admin tuple last; errors ignored.
SweepRelation(t, o) ==
    /\ sweep.pc = "keto" /\ t \in sweep.doomed
    /\ t[2] = "admin" => sweep.doomed = {t}
    /\ keto' = IF Applied(o) THEN keto \ {t} ELSE keto
    /\ sweep' = [sweep EXCEPT !.doomed = @ \ {t}]
    /\ UNCHANGED <<tables, events, tokens, clock, proc, drift, history>>

\* A mutant: the missing return after a failed delete.
SweepDeleteNoReturn(o) ==
    /\ sweep.pc = "keto" /\ sweep.doomed = {}
    /\ groups' = IF Applied(o) THEN [g \in DOMAIN groups \ {sweep.group} |-> groups[g]]
                               ELSE groups
    /\ sweep' = [sweep EXCEPT !.pc = "publish"]
    /\ UNCHANGED <<members, keto, events, tokens, clock, proc, drift, history>>

\* A mutant: the delete cascades to the rows of group_members.
SweepDeleteCascade(o) ==
    /\ sweep.pc = "keto" /\ sweep.doomed = {}
    /\ groups' = IF Applied(o)
                 THEN [g \in DOMAIN groups \ {sweep.group} |-> groups[g]]
                 ELSE groups
    /\ members' = IF Applied(o) THEN {m \in members : m[1] # sweep.group} ELSE members
    /\ sweep' = IF o = "ok" THEN [sweep EXCEPT !.pc = "publish"]
                            ELSE Onward(sweep.todo)
    /\ UNCHANGED <<keto, events, tokens, clock, proc, drift, history>>

\* groups.Delete: only the row of the table groups; an error skips the event.
SweepDelete(o) ==
    /\ sweep.pc = "keto" /\ sweep.doomed = {}
    /\ groups' = IF Applied(o)
                 THEN [g \in DOMAIN groups \ {sweep.group} |-> groups[g]]
                 ELSE groups
    /\ sweep' = IF o = "ok" THEN [sweep EXCEPT !.pc = "publish"]
                            ELSE Onward(sweep.todo)
    /\ UNCHANGED <<members, keto, events, tokens, clock, proc, drift, history>>

SweepPublish(o) ==
    /\ sweep.pc = "publish"
    /\ announced' = IF Applied(o) THEN announced \cup {<<"deleted", sweep.group>>}
                                  ELSE announced
    /\ sweep' = Onward(sweep.todo)
    /\ UNCHANGED <<tables, keto, feed, tokens, clock, proc, drift, history>>

(***************************************************************************)
(* The environment.                                                        *)
(***************************************************************************)
Tick ==
    /\ clock < MaxTime
    /\ clock' = clock + 1
    /\ UNCHANGED <<tables, keto, events, tokens, proc, sweep, drift, history>>

\* The process dies and restarts: the requests under way and the sweeper's
\* snapshot are gone; what they wrote stays.
Crash ==
    /\ crashes < MaxCrashes
    /\ crashes' = crashes + 1
    /\ drift' = drift \cup UNION {Owes(proc[p]) : p \in {q \in Proc : proc[q].pc # "idle"}}
    /\ proc' = [p \in Proc |-> NoRequest]
    /\ sweep' = NoSweep
    /\ UNCHANGED <<tables, keto, events, tokens, clock, taken>>

Start(p) ==
    \/ \E g \in Group, r \in Row : "create" \in Ops /\ StartCreate(p, g, r)
    \/ \E op \in Ops, g \in Group, u \in User : StartChange(p, op, g, u)
    \/ \E g \in Group, u \in User : "token" \in Ops /\ StartToken(p, g, u)

Handle(p) ==
    \/ \E o \in Outcome : \/ CreateRow(p, o)
                          \/ AddMember(p, o)
                          \/ RemoveMember(p, o)
                          \/ WriteRelation(p, o)
                          \/ DeleteRelation(p, o)
                          \/ PublishCreated(p, o)
                          \/ PublishChange(p, o)
    \/ IssueToken(p)

Sweeper ==
    \/ SweepList
    \/ \E e \in Group \X User, o \in {"ok", "lost"} : SweepMembers(e, o)
    \/ \E t \in Tuple, o \in {"ok", "lost"} : SweepRelation(t, o)
    \/ \E o \in Outcome : SweepDelete(o)
    \/ \E o \in {"ok", "lost"} : SweepPublish(o)

Next ==
    \/ \E p \in Proc : Start(p) \/ Handle(p)
    \/ Sweeper
    \/ Tick
    \/ Crash

Spec == Init /\ [][Next]_vars

(***************************************************************************)
(* The ticker fires for as long as the process runs and every call returns *)
(* (clients have timeouts): the sweeper takes its steps.  An outage of the *)
(* database ends: a delete tried again and again is done at some time.     *)
(***************************************************************************)
Fairness ==
    /\ WF_vars(Sweeper)
    /\ \A g \in Group : SF_vars(sweep.pc = "keto" /\ sweep.group = g /\ SweepDelete("ok"))

FairSpec == Spec /\ Fairness

(***************************************************************************)
(* Properties.                                                             *)
(***************************************************************************)

\* docs/groups-and-notifications.md: an ephemeral group writes no Keto tuples.
\* The guard is a snapshot; the property relates Keto to the table and also
\* says that no tuple outlives its group, whatever the sweeper deletes.
EphemeralHasNoTuples ==
    \A t \in keto : t[1] \in DOMAIN groups /\ ~groups[t[1]].ephemeral

\* Keto mirrors the tables for every permanent group and user, but for the
\* tuple a request is about to write and those in drift: a failed call, a crash
\* or overlapping requests are the only causes of a difference, and the next
\* request on the same member repairs it.
Due(t) == IF t[2] = "admin" THEN groups[t[1]].createdBy = t[3]
                            ELSE <<t[1], t[3]>> \in members
Pending(t) == \E p \in Proc : proc[p].pc = "keto" /\ TupleOf(proc[p]) = t
TupleRight(t) ==
    \/ t[1] \notin DOMAIN groups
    \/ groups[t[1]].ephemeral
    \/ t \in drift
    \/ Pending(t)
    \/ t \in keto <=> Due(t)
KetoMirrorsTables == \A t \in Tuple : TupleRight(t)

\* A consumer that follows the membership events knows the members, with the
\* same exceptions (a lost event, a crash before it, overlapping requests).
Unannounced(g, u) ==
    \E p \in Proc : /\ proc[p].pc \in {"keto", "publish"}
                    /\ proc[p].op \in {"add", "remove"}
                    /\ proc[p].group = g
                    /\ proc[p].user = u
FeedRight(g, u) ==
    \/ <<g, "feed", u>> \in drift
    \/ Unannounced(g, u)
    \/ <<g, u>> \in members <=> feed[<<g, u>>] = "added"
FeedMirrorsMembers == \A g \in Group, u \in User : FeedRight(g, u)

\* A subscription token that has not expired is for a group that exists: the
\* sweeper never deletes a group whose channel a client can still join.
LiveTokenLiveGroup ==
    \A k \in tokens : k.exp >= clock => k.group \in DOMAIN groups

\* group.deleted is published for groups that are gone and stay gone.
DeletedMeansGone ==
    \A g \in Group : <<"deleted", g>> \in announced => g \in taken \ DOMAIN groups

Creating(p) == proc[p].pc = "db" /\ proc[p].op = "create"

\* The id is taken and no request is yet to insert its row: the row is in the
\* table or will never be again.
Born(g) == g \in taken /\ \A p \in Proc : Creating(p) => proc[p].group # g

\* What clients are promised of groups, which each use case keeps although it is
\* several calls on a snapshot: a row leaves the table only when it is of an
\* ephemeral group past its expiry, none changes or comes back, nobody joins
\* what never was a group, tokens are for members and the group's own expiry.
Spent == {g \in Group : Born(g)}
Register == INSTANCE GroupRegister WITH spent <- Spent

KeepsRegister == Register!Spec

\* Who was a member of a group is on its roster for good, unless a request
\* removed him: the sweeper deletes the group and leaves the rows of
\* group_members, which the notification service asks for when group.deleted
\* reaches it and the row of the group is gone.
RosterOutlivesGroup ==
    [][\A m \in members \ members' :
          \E p \in Proc : /\ proc[p].pc = "db" /\ proc[p].op = "remove"
                         /\ proc[p].group = m[1] /\ proc[p].user = m[2]]_vars

\* Every ephemeral group past its expiry is deleted in the end.
ExpiredIsDeleted ==
    \A g \in Group :
        (g \in DOMAIN groups /\ groups[g].ephemeral /\ groups[g].expiresAt < clock)
            ~> g \notin DOMAIN groups

(***************************************************************************)
(* The inductive invariants the proofs use.                                *)
(***************************************************************************)
Changing(p) == proc[p].pc # "idle" /\ proc[p].op \in {"add", "remove"}

IdsSound ==
    /\ \A g \in DOMAIN groups : Born(g)
    /\ \A m \in members : Born(m[1])
    /\ \A p \in Proc : Creating(p) =>
          /\ proc[p].group \in taken
          /\ \A q \in Proc \ {p} : Creating(q) => proc[q].group # proc[p].group

\* A snapshot is the row, or its group was ephemeral, expired and is deleted.
Snapshot(g, r) ==
    /\ Born(g)
    /\ g \in DOMAIN groups => groups[g] = r
    /\ g \notin DOMAIN groups => r.ephemeral /\ r.expiresAt < clock

RequestsSound ==
    \A p \in Proc : proc[p].pc # "idle" =>
        /\ proc[p].op = "token" => proc[p].pc = "list"
        /\ proc[p].pc = "list" => proc[p].op = "token"
        /\ proc[p].pc = "keto" => ~proc[p].row.ephemeral
        /\ proc[p].pc = "list" => proc[p].row.ephemeral
        /\ proc[p].op = "create" => proc[p].row.createdBy = proc[p].user
        /\ Creating(p) \/ Snapshot(proc[p].group, proc[p].row)

Condemned(g) ==
    /\ Born(g)
    /\ g \in DOMAIN groups => groups[g].ephemeral /\ groups[g].expiresAt < clock

SweepSound ==
    /\ sweep.pc # "idle" => \A e \in sweep.todo : Condemned(e[1])
    /\ sweep.pc \in {"keto", "publish"} =>
          Condemned(sweep.group) /\ \A t \in sweep.doomed : t[1] = sweep.group
    /\ sweep.pc = "publish" => sweep.group \notin DOMAIN groups

TokensSound ==
    \A k \in tokens :
        /\ Born(k.group)
        /\ k.group \in DOMAIN groups => groups[k.group].expiresAt = k.exp
        /\ k.group \notin DOMAIN groups => k.exp < clock

AnnouncedSound ==
    \A g \in Group : <<"deleted", g>> \in announced => Born(g) /\ g \notin DOMAIN groups

LifecycleInv ==
    /\ TypeOK
    /\ IdsSound
    /\ RequestsSound
    /\ SweepSound
    /\ TokensSound
    /\ AnnouncedSound
    /\ EphemeralHasNoTuples

\* Two requests on the same member have put it in drift.
RacesInDrift ==
    \A p \in Proc, q \in Proc :
        (p # q /\ Changing(p) /\ Changing(q) /\ proc[p].group = proc[q].group
               /\ proc[p].user = proc[q].user)
        => {<<proc[p].group, "member", proc[p].user>>, FeedOf(proc[p])} \subseteq drift

\* What a request is about to tell Keto or the stream is what the table says.
WrittenAsAsked(r) == <<r.group, r.user>> \in members <=> r.op = "add"
DebtsSound ==
    \A p \in Proc : Changing(p) =>
        /\ proc[p].pc = "keto" =>
              TupleOf(proc[p]) \in drift \/ WrittenAsAsked(proc[p])
        /\ proc[p].pc \in {"keto", "publish"} =>
              FeedOf(proc[p]) \in drift \/ WrittenAsAsked(proc[p])

MirrorInv ==
    /\ RacesInDrift
    /\ DebtsSound
    /\ KetoMirrorsTables
    /\ FeedMirrorsMembers
=============================================================================
