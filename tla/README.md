# A verification project for mobpilot

TLA+ modules, TLC configurations and TLAPS proofs about the services of
mobpilot (`src/services`, `src/internal/platform`).  Every definition is
translated from the Go code and the SQL under `src/`.

## 1. The system

Three Go services share PostgreSQL, Ory Keto (relation tuples), NATS JetStream
(events) and Centrifugo (real-time channels).  No operation of any service is a
database transaction over more than one statement: a use case is a sequence of
independent calls (SQL statement, Keto request, JetStream publication, HTTP
request to another service), and most calls after the first are *best effort*,
their errors being dropped.  The hard behaviours all follow from that:
concurrent requests interleave between any two calls, each call fails, times
out or is done without the caller knowing, and the process crashes in between.

| component | state | operations | interacts with |
|---|---|---|---|
| org: groups (`GroupService`, `GroupExpirySweeper`) | tables `groups`, `group_members`; Keto tuples `Group#admin/member`; issued subscription tokens | CreateGroup, AddGroupMember, RemoveGroupMember, IssueSubscriptionToken, sweep | Keto, JetStream, Centrifugo |
| org: organizations and members (`OrgService`, `MemberService`) | `organizations`, `org_members`, `org_invitations` | CreateOrg, InviteMember, AcceptInvitation, RemoveMember | JetStream |
| org: roles (`RoleService`) | `roles` | CreateRole, DeleteRole, ListRoles | |
| org: outbox (`OutboxWorker`) | `outbox` | poll, publish, mark | JetStream |
| org: Centrifugo proxy | none | subscribe check | Keto |
| notification: subscriber | JetStream consumer `notification-processor` | handle, ack, nak | JetStream, notification service |
| notification: service | `notifications`, `notification_preferences` | SendToUser, SendToGroup, MarkRead, UpsertPreference | org (members), identity (device tokens), push, email, Centrifugo |
| notification: push adapters and FCM token source | cached OAuth token under a mutex | Dispatcher.Send, FCM and APNs Send, Token, fetchToken | FCM, APNs, Google OAuth |
| identity: users | `user_profiles` | GetMe, UpdateMe, GetUser | JetStream |
| identity: devices, artifacts | `device_tokens`, `artifacts` | register, unregister, find; put, get, list, delete | |
| platform: bearer authentication | cache of introspection answers under a mutex | BearerAuth | Hydra |
| platform: Keto client | none | Check, WriteRelation, DeleteRelation | Keto |

What makes each part correct, and where it is hard:

- **Groups.** Keto and the events must mirror `groups` and `group_members`; an
  ephemeral group must never have tuples; the sweeper must delete the expired
  ephemeral groups, all of them, and nothing else; no token may outlive its
  group.  Hard: every request decides on a snapshot, the sweeper runs beside
  the requests, calls fail half way.
- **Organizations and members.** Nobody joins without an invitation; an
  invitation lets in one user; an organization has its owner; events are true.
  Hard: two writes per use case and nothing that resumes after the first.
- **Outbox.** Every committed row is published, none that is not committed.
  Hard: replicas poll the same rows, marking fails after publishing, rows become
  visible late.
- **Channels.** Whoever listens to a group is, or was, a member.  Hard: the
  answer of the proxy is older than the subscription it allows.
- **Notification.** An acked event has been dealt with, an event is dealt with
  as often as it is delivered at most, and the only handler is never stuck.
  Hard: redelivery by ack wait, lost acks, a fan-out of bounded width, and a
  shutdown that waits for none of it.
- **Push.** A push reaches the device of its addressee, and nobody who refused
  it, with a bearer token that lasts.  Hard: preferences, devices and push are
  three calls, devices change hands, and the callers meet in a mutex that is
  held over a request to Google.
- **Profiles.** Patches are kept and first logins announced once.  Hard: rows are
  read, changed in memory and written back whole.
- **Bearer cache.** A revoked token is refused after a bounded time.  Hard: the
  answer of Hydra is cached when it arrives, not when it was true.
- **Roles, artifacts, inbox, adapters.** One statement or one best-effort request
  per operation: correct if PostgreSQL is.

## 2. Plan

The order is that of importance: groups first, as the product is built on them
and their state is spread over three stores; then the other use cases of the
org service; the two ways events travel (outbox, subscriber); the cache every
request passes; and the compositions.

| module | extends / instantiates | what it models | proved in |
|---|---|---|---|
| `GroupRegister` | | what groups promise their clients | |
| `OrgGroups` | `INSTANCE GroupRegister`, which it implements | GroupService and the sweeper | `OrgGroupsProofs` |
| `OrgAdmission` | | what organizations and invitations promise | |
| `OrgMembership` | `INSTANCE OrgAdmission`, which it implements | OrgService, MemberService | `OrgMembershipProofs` |
| `AtLeastOnce` | | what an outbox promises | |
| `Outbox` | `INSTANCE AtLeastOnce` | OutboxWorker | `OutboxProofs` |
| `NotificationLedger` | | what the notification service promises of a message | |
| `NotificationSubscriber` | `INSTANCE NotificationLedger`, which it implements | Subscriber, SendToUser, SendToGroup, shutdown | `NotificationSubscriberProofs` |
| `IntrospectCache` | | BearerAuth | `IntrospectCacheProofs` |
| `GroupChannels` | `EXTENDS OrgGroups` | the Centrifugo proxy and tokens on top of groups | `GroupChannelsProofs` |
| `IdentityProfile` | | GetMe, UpdateMe | `IdentityProfileProofs` |
| `DevicePush` | | devices, preferences, tryPush | `PushDeliveryProofs` |
| `PushDelivery` | `EXTENDS DevicePush`, which it implements | Dispatcher, FCM and APNs adapters, FCM token source | `PushDeliveryProofs` |

Every `MC...` module adds symmetry or constants for TLC to the module it is
named after.  `PushDelivery` is checked in place of `DevicePush`, whose properties
it inherits.  `GroupRegister`, `OrgAdmission`, `NotificationLedger` and `AtLeastOnce` are
abstract: a use case is one step of them, and they have no requests, calls or
crashes.  What could follow:

1. the two halves of push as one: `NotificationSubscriber` has tryPush as one
   best-effort step, `PushDelivery` starts from a saved notification, so that a
   redelivery that overtakes its own first push is in neither;
2. email and in-app preferences in `DevicePush`, the roles and the artifacts if
   they get operations of more than one statement;
3. the outbox as the source of the events, if a use case comes to write it.

## 3. How the modules correspond to the code

Conventions of all modules:

- A **request** is a record in `proc[p]` whose `pc` names the call it is about to
  make; the other fields are the local variables the handler decides by, in
  particular rows it has read.  A step is one call to PostgreSQL, Keto, NATS, Hydra
  or another service with the code up to the next one.  A handler that only
  validates, or finds no row, ends without a step.
- A call has one of three **outcomes**: `ok`, `lost` (not done, an error) and
  `ambiguous` (done, the caller sees an error: a timeout, a closed connection, a
  cancelled request).  Every use case is modelled with all three for every call.
- A **crash** of the process sets all requests and workers to idle and may come
  between any two steps, `MaxCrashes` times.
- Variables called **history** in their module are read by no step.  They record
  the excuses of a property: `drift`, `half`, `failed`, `late`, `stale`, `excused`.
  An excuse is set only by the step that deserves it (a failed call, a crash at a
  certain `pc`, an overlapping request), so that a property says "never, except
  for these causes", and the mutants show that a bug is not excused.
- Names, titles, payloads and other columns no code decides by are left out.

**`OrgGroups`.**  `groups`, `members` are the tables, `keto` the tuples,
`announced` and `feed` what NATS took (of the membership events only the last per
group and user, which is what a consumer that follows them would believe),
`tokens` the subscription tokens signed, `sweep` the stack frame of
`GroupExpirySweeper.sweep`.  CreateGroup is `StartCreate`, `CreateRow`,
`WriteRelation`, `PublishCreated`; AddGroupMember and RemoveGroupMember are
`StartChange` (FindByID), `AddMember` / `RemoveMember`, `WriteRelation` /
`DeleteRelation`, `PublishChange`; IssueSubscriptionToken is `StartToken` and
`IssueToken`.  `AfterWrite` is the test of `Ephemeral` on the snapshot.  A sweep
is `SweepList` (ListExpired), and per group `SweepMembers`, `SweepRelation` for each
tuple, `SweepDelete`, `SweepPublish`.  A group draws a fresh id: `taken`.
`GroupRegister` sees the tables, the tokens and the announcements as they are; of the
ids drawn it sees those no request is still about to insert (`Spent`).  An id whose
insert failed is spent by `Discard`.

**`GroupChannels`** adds the realtime side: `CheckSubscription` is the proxy
(`centrifugo_proxy.go`), `granted` an answer on its way, `Subscribe`,
`SubscribeWithToken` and `Unsubscribe` are Centrifugo, which is external.  Every step
of `OrgGroups` runs between them.

**`OrgMembership`.**  CreateOrg is `StartCreate`, `InsertOrg` (with the unique
slug), `AddOwner`, `Publish`; InviteMember is `StartInvite`, `InsertInvitation`,
`Publish`; AcceptInvitation is `FindByToken` with the tests of the invitation,
`Join`, `MarkAccepted`, `Publish`; RemoveMember is one statement.  `Join` fails on
the primary key, as the statement has no ON CONFLICT clause; `AddOwner` has no such
branch, since the primary key never refuses an owner (`OwnersComeFirst`).
`OrgAdmission` sees the three tables as they are, organizations between the two
writes of CreateOrg as `unseated`, invitations that let somebody in as `used`, and
those in `half` as `loose`.  Its `Fail` is all that failures, crashes and overlapping
requests may do: give up a seat or loosen an invitation.

**`Outbox`.**  `Insert`, `Commit` and `Rollback` are the transaction a use case
would write the outbox in; `created_at` is its start.  `Poll` is the SELECT, with
ties of `created_at` in any order, `PublishRow` and `MarkPublished` the loop, `Onward`
its `continue`.  No code of the repository calls `InsertOutboxEvent` today: the
module is about the worker, which main starts, and about the promise of its
comment.

**`NotificationSubscriber`.**  `stream` to `deliveries` are JetStream's durable
consumer as `Run` configures it, `buffer` the messages pulled ahead of the
callback, `work` the callback.  `Begin` is `handle` up to its switch; `SaveRow` and
`PushUser` are SendToUser; `Realtime`, `ListGroupMembers`, `Spawn`, `MemberSave`,
`MemberPush`, `Wait` are SendToGroup with its semaphore and errgroup.  `Shutdown` is
SIGTERM: main cancels the context and returns without waiting for `Run`, so that
until `Exit` the callback goes on with calls that fail (`WithContext`) and acks that
do not (Ack takes no context), and messages still arrive (`Receives`).  `Expire` is
the age limit of the stream, 72 hours, which strikes only while nobody consumes.  `Keys` says
with which JSON keys an event was published; those of the org service are
`"names"`.  The keys the subscriber's tags ask for (`"tags"`) are kept in the
instances, as any other publisher of the subjects may use them and only then is
there any work to check.  `NotificationLedger` sees a delivery as a try (`deliveries`),
the addressee or the members listed last as `Owed`, those whose row could not be
saved as excused (`missed`), and acked messages as `Closed`; the consumer, the
buffer and the process are not in it.

**`IntrospectCache`.**  `Hit` and `Miss` are `tokenCache.get`, `Introspect` the
moment Hydra looks at the token, `Answer` the return of the call with `set`, `Fail` the
401.  Time passes between calls; `Tick` cannot pass the timeout of a call.

**`IdentityProfile`.**  GetMe is `GetMe` (FindByID), `Upsert`, `Publish`; UpdateMe
is `StartUpdate` and `Update`.  `Write` is the statement that writes all columns.

**`DevicePush`.**  `RegisterDevice`, `UnregisterDevice` and `UpsertPreference` are one
statement each; tryPush is `StartPush`, `IsEnabled`, `FindTokens`, `Send` per device and
`Finish`.  `Enabled` is the query that lets the exact row win over `*`, with the
default of the push channel.  `Request` and `TryPush` name the two sides, the
handlers of the identity service and the push of the notification service.

**`PushDelivery`** replaces each `Send` of `DevicePush`.  A push token in `Fcm` goes
through `FCMAdapter` and `ServiceAccountTokenSource`: `Lock` is the call of Token, which
queues in `mutex`; `Locked` is the look at the cache by who has the mutex; `Grant` is
the token endpoint at some moment of the request, `Fetched` its answer and
`FetchFails` an error or the 10 seconds running out; `PostToFcm` is the POST.  The
others go straight to `PushToApns`.  `Tick` passes time during calls and waits, not
between two calls, and never past the timeout of a request.  The mutex is first
come, first served: `sync.Mutex` may let a newcomer barge in for the first
millisecond of a wait, which is below the clock of the model.  `Restart` is `Crash` of
`DevicePush` with the cache, the mutex and the calls gone.

## 4. What the runs show

| run | distinct states | bounds |
|---|---|---|
| `org_groups_race` | 1 458 754 | 1 group, 2 users, 2 requests, 1 crash |
| `org_groups_sweep` | 485 218 | 2 groups, 1 user, 1 request, clock 0..1, 1 crash |
| `group_channels` | 3 769 162 | 1 group, 2 users, 1 request, 1 subscription at a time, 1 crash |
| `org_membership` | 2 255 514 | 2 organizations, 1 slug, 2 users, 1 invitation to one of 2 roles, 2 requests, clock 0..2, 1 crash |
| `org_membership_reuse` | violated | the same with 1 organization |
| `outbox` | 856 613 | 2 workers, 3 rows, batches of 2, 1 poison row, 1 crash |
| `notification_delivery` | 69 704 | 1 message, 2 users, fan-out of 1, 2 deliveries, 1 crash or shutdown |
| `notification_queue` | 657 364 | 2 messages, 1 user, 2 deliveries, 1 crash or shutdown |
| `notification_keys` | violated | 1 message as the org service publishes it |
| `introspect_cache` | 83 251 | 2 tokens, 2 requests, TTL 2, timeout 1, clock 0..5 |
| `identity_profile` | 112 950 | 1 profile, 2 fields, 2 values, 2 requests, 1 crash |
| `device_push` | 640 242 | 2 users, 1 device, an FCM and an APNs token, 2 notifications, lifetime 3, lead 1, timeout 1, clock 0..3 |

What is checked in each is stated, in words, above the property in its module;
`PROJECT.json` gives a sentence per run.  Why the bounds are enough:

- *Two requests.*  Requests meet only through the rows, tuples and events of one
  key (a group and a user, an invitation, a profile).  Every excuse of a property
  is about a pair of steps on one key, so that two requests and the sweeper
  show each pair; where the property is proved, the proof is for any number.
- *One group* where the property is about one group and a member of it; two
  where the sweeper works through a list.
- *The clock* has a tick before, at and after each deadline.
- *One crash* cuts every sequence of steps once, and the properties do not
  depend on the number of crashes: a crash only sets `pc`s to idle.
- *Two of the three roles* in `org_membership`: that of an owner, which an invitation
  may give as well, and another; no code decides by the role.
- *One subscription at a time* in `group_channels`: no property relates two.
- *Two notifications* in `device_push`: one holds the mutex of the token source
  while the other waits.  With a lifetime of 3, a lead of 1 and a clock up to 3 a
  token is fetched, used from the cache, and refreshed.  One device, as a push
  goes through its list of devices one after the other and a list of one already
  changes under it; the constraint `OneChooses` lets one of the two users state
  preferences, as those of two users never meet.
- *Two deliveries* instead of five: the first, and the one after it failed, timed
  out or was cut short.
- *A fan-out of one* with two users instead of ten goroutines: the loop waits for
  a slot while a goroutine has it, which is the case the semaphore is for.

`CHECK_DEADLOCK FALSE` is set where the clock, the number of crashes or that of
fresh ids ends, and every request is done: the bounded system really stops there.
Symmetry is used in runs without liveness only.

**Two runs end in a violation** and are findings:

- `org_membership_reuse`: `AcceptInvitation` writes the member and marks the
  invitation in two statements.  After a failure in between, the member is in, no
  event is published, `IsAccepted` is false and the next holder of the token gets in
  as well, while a retry by the first one fails on the primary key for ever.
- `notification_keys`: the org service marshals events without JSON tags
  (`GroupID`), the subscriber reads `group_id`.  The ids are empty, `uuid.Parse` fails,
  the handler returns nil, and the event is acked without a notification.

## 5. Fairness

Fairness is assumed in four modules only.

- `OrgGroups!Fairness`: the ticker of the sweeper fires while the process runs
  and its calls return (the HTTP clients and pgx have timeouts, or the server
  answers): WF of the sweeper's step.  An outage of the database ends: SF of a
  successful delete of each group.  Without the second, a delete may fail on every
  sweep and nothing is owed.
- `Outbox!Fairness`: WF of each worker's step; SF that *some* publication and
  *some* mark is done if tried for ever, i.e. an outage of NATS or PostgreSQL
  ends.  It is not assumed of every row: rows in `Poison` are refused whenever they
  are tried (larger than the maximum payload).
- `NotificationSubscriber!Fairness`: the process starts, and exits once told to
  stop (main waits for nothing but the HTTP server, for 10 seconds); the callback
  and the goroutines run and their calls return, JetStream hands out messages and
  runs its ack timers.  That calls return is an assumption the code does not fully earn:
  the client of the org service has no timeout (`org_client.go:27`); it is listed
  as a hazard.
- `AtLeastOnce!Spec`: WF of each delivery that is possible at all; it is the
  promise, not an assumption.

`IntrospectCache` and `PushDelivery` have no fairness but an assumption on time: code
between two calls takes none, and a call that timed out has been done by then or
never will be.

## 6. What is proved

All theorems hold for every value of the constants under the `ASSUME` of the
module, i.e. for any number of groups, users, requests, workers, tokens and
crashes.  TLC checks the inductive invariants' parts, or the invariants
themselves, in the runs.

**`OrgGroupsProofs`.**  None of the properties is inductive, because the code
decides on snapshots.  `LifecycleInv` adds what makes the snapshots harmless: an id is
drawn once (`IdsSound`), the row a request holds is the row of the table or that
of an ephemeral group that has expired and is gone (`RequestsSound`; no statement
changes a group's row), everything on the sweeper's list has expired
(`SweepSound`), a token expires with its group (`TokensSound`).  From it follow
`TypeOK`, `EphemeralHasNoTuples`, `LiveTokenLiveGroup`, `DeletedMeansGone` and
`OnlyExpiredLeave`.  `RosterOutlivesGroup` needs no invariant: one action takes rows
from `members`.  `ImplementsRegister` maps each step to one of `GroupRegister` or to
none (`KeepsRegister`): the snapshot a token is signed by is the row of the table, or
the group has expired and gone in the meantime and so has the token; a deletion
finds the row the sweep listed or none.  `MirrorInv` is proved on top: two requests on one member are in
`drift` (`RacesInDrift`), and what a request still owes Keto or the stream is what
the table says (`DebtsSound`); it gives `KetoMirrorsTables` and `FeedMirrorsMembers`.
Two consequences are stated as they would be used.  `KetoAtRest`: with nothing under
way and no failure on record, Keto has exactly the tuples the tables call for.
`RosterFreezes`: once a group is gone and no request for it is under way, its roster
never changes again, so that whoever reads it on `group.deleted` reads the last one.

**`OutboxProofs`.**  `OutboxInv` says that workers hold rows of the table only, mark
what was sent, and have in their batch every older row that is still due
(`BatchIsComplete`, from the ORDER BY); it gives `TypeOK`, `MarkedIsSent`, `InOrder`, and,
with the refinement mapping of `Outbox`, that every behaviour is one of
`AtLeastOnce` without its fairness.  `HoldersSound` (an undisturbed row has one
holder and is not yet sent while it waits) gives `SentOnce`.

**`IntrospectCacheProofs`.**  `CacheInv` dates each pending question: it was asked at
most `Timeout` ago, and a positive answer was true when asked or later.  The bound
`TTL + Timeout` of `StaleAtMost` and `CacheExpires` follows.

**`IdentityProfileProofs`.**  `ProfileInv` needs that rows never leave the table (no
statement deletes a profile), so that a request past its look-up writes a row that
is there (`RowsStay`), and that a profile not excused has one request making it,
which has not announced it yet (`OneMaker`).  The lemma `WriteKeeps` is the core: what
a write of the whole row sets back is what its request had read before.

**`GroupChannelsProofs`.**  Every behaviour of the channels is one of the groups
(`ChannelsRefineGroups`), so that `LifecycleInv` and `MirrorInv` hold of it.  `ChannelInv`
adds that whoever is taken for a member was one (`BeliefsSound`: the table, Keto, a
request on its way to Keto, a token), and that each listener is entitled to the
channel or holds a token for it.  A permanent group stays, and a token outlives no
group, which gives `OnlyMembersEverListen` and `ListenersHaveGroup`; `GrantedToMembers` is
`KetoMirrorsTables` at the moment the proxy asks.  The refinements compose:
`ChannelsKeepRegister`.

**`OrgMembershipProofs`.**  `MembershipInv` says for each kind of request what it has
read and written at each of its calls (`CreatesSound`, `InvitesSound`, `AcceptsSound`): a
request past `Join` has used its invitation, in time; an invitation used and not
accepted is in `half` or in the hands of one request that is about to mark it.  It
holds `MembersAreInvited` and the properties of the run as conjuncts.

`ImplementsAdmission` (`KeepsAdmission`) needs three facts more.  `FreshIsUnknown`: until
CreateOrg has answered, nobody is invited to the organization, and nobody is in it
before the owner; it is a theorem of its own (`OwnersComeFirst`).  `JoinsSound`: whoever
a request let in is a member or has been removed since.  `MembersAreAFunction`: a
DELETE of no row changes nothing.  `RowsAreFinal` is then read off `OrgAdmission`
alone: none of the three tables is written over, but for marking an invitation.

**`NotificationSubscriberProofs`.**  `SubscriberInv` relates the consumer to the stream
(`StreamSound`), the callback to the message it handles (`WorkSound`) and counts:
the rows a user has of a message, the one the handling under way still owes, and the
deliveries in the buffer are together no more than the deliveries (`RowsPaidFor`).
The count is what makes `OnePerDelivery` inductive, as a redelivered message can be
in the buffer twice while a third delivery is being handled.

`ImplementsLedger` (`KeepsLedger`) rests on `LedgerInv`: the members listed are listed for
a published deletion that can be read (`ListedSound`), the members the fan-out of a message
not yet acked works through are listed for it (`ChosenAreListed`), and a message in flight
or waiting for redelivery has been handed out (`HandedOut`).  The count above is what allows
`Save` its guard, a row less than tries.  `ExactlyOnceAtBest` puts `OnePerDelivery` and
`AckedIsDone` together: a message delivered once and acked has exactly one row for
everybody it was for, but for those whose row failed.  `FanOutIsBounded`: the members
under way never outnumber the slots of the semaphore.

**`PushDeliveryProofs`.**  Of `DevicePush`: `PushInv` says that what a running tryPush
has read still holds unless noted as changed; the two action properties follow
for the one step that sends.  Of `PushDelivery`: `SourceInv` adds that who fetches is
first in the mutex, found the cache empty or too old, and has done so for the
timeout at most.  From it follow that the sends implement those of `DevicePush`
(`DeliveryRefines`), `BearerIsFresh` and `FetchedSparingly`.  `WaitIsShared` bounds the
wait of the i-th in the mutex by the timeouts of those who were ahead of him, which
gives `WaitsAtMost` for any number of callers.

`TypeOK` of `Outbox`, `IntrospectCache`, `IdentityProfile` and `DevicePush`, `MarkedIsSent` of
`Outbox`, and what the refinements contain (`OnlyExpiredLeave`, `MembersAreInvited`,
`PushedIsRecorded`) are proved and need no run.

**Only model-checked:** liveness (`ExpiredIsDeleted`, `Settled`, the fairness part
of `KeepsPromise`), which is out of reach of the prover used.

## 7. What is not modelled

- Roles, artifacts, inbox: single statements that nothing else reads.  MarkRead
  reads before it writes, but what it reads, the owner, never changes.
- The email adapter: no caller of the service sets the address it looks for.
- The Centrifugo adapter: one best-effort publication (`Realtime`, `PushUser`).
- The choice of adapters: the notification service's main wires `NoopPushPort`,
  whatever is configured; `PushDelivery` is about the adapters that are there to
  take its place.
- Growth of the cache of bearer tokens, and a client of the org service without
  a timeout: hazards without a property, as there is no limit in the code to state.
- HTTP encoding, status codes, SQL encoding, telemetry, pools, configuration.
- Shutdown of the org and identity services: it leaves what failed calls and a
  crash leave.
- The app store: a protocol file without a service.  The Flutter example and the
  deployment.

## 8. Where documents and code differ, without a run

Met while modelling; none changes a model except as said.

- `repositories.go:55` "Delete removes a group and its members", and the comment of
  `GroupExpirySweeper`: `GroupRepo.Delete` deletes the group's row only.  Rows of
  `group_members` stay; the model keeps them.
- `group.go:20` "nil for permanent groups": `NewGroup` accepts an expiry for a
  permanent group.  The model does, and the sweeper leaves such groups alone.
- `docs/groups-and-notifications.md:103` "tuples written on every add/remove": their
  errors are dropped (`drift`).
- `schema.sql:72` events are written to the outbox "in the same transaction": the
  services publish to NATS after the writes instead, best effort.
- `member_service.go:134`: removing the last owner is not refused, and removing a
  member ends neither group memberships nor subscriptions.
- `notification.go:18` "one record per recipient per event": one per delivery
  (`OnePerDelivery` is what holds).
- `docs/groups-and-notifications.md:125` "every member receives it": a failed Save
  of one member is logged and not retried (`missed`).
- `docs/groups-and-notifications.md:144`: `SendToGroup` publishes on `group:<id>`, and is
  called for `group.deleted` only, which the sweeper publishes of ephemeral groups,
  whose members listen on `ephemeral-group:<id>`.
- `docs/groups-and-notifications.md:242` shows `DELETE /groups/{id}`: there is no such
  route, and the sweeper alone deletes.
- The creator of a permanent group gets the tuple `admin`, which the proxy does not
  ask for: until added as a member, the creator cannot listen to the group.
- `ROADMAP.md:125` "`org` service writes tuples on member join/leave": it writes
  tuples for groups only.
- `deploy/docker-compose.yml:325` points the notification service to the org
  service's public port 8081; the member list is served on 8082.
- `event.go:15` `UserCreatedEvent` "for the first time": two first logins at the same
  time both announce, and the second upsert blanks what was patched in between
  (`TwiceOnlyTogether`, `PatchesKept`).
- The status of a notification is never changed from "pending".
- `member_service.go:58`: the organization of an invitation is never looked up, and
  `schema.sql` ties no invitation to one: `Join` makes a member of an organization
  that does not exist (`MembersAreInvited` asks for the invitation only).
- `docs/groups-and-notifications.md:125` again: a fan-out that is told to stop fails
  for the members it has not reached, counts as done and is acked, while one that
  crashes is redelivered.  `AckedIsDone` says so through `missed`.
- `notification_service.go` `tryEmail` looks for an address in the data of the
  notification that no caller puts there: email is never sent.
- `ArtifactService.Put` and `DeviceService.RegisterDevice` answer with a freshly drawn
  id and time, though `ON CONFLICT DO UPDATE` keeps those of the row that was there.
- `ROADMAP.md:280` "token rotation": an FCM answer that a token is not registered is
  logged, and the token stays.
