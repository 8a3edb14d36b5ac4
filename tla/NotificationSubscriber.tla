----------------------- MODULE NotificationSubscriber -----------------------
(***************************************************************************)
(* The notification service behind NATS: Subscriber, which handles the     *)
(* group events of one durable JetStream consumer one after the other, and *)
(* NotificationService.SendToUser and SendToGroup, which it calls.         *)
(*                                                                         *)
(* JetStream is modelled from how the subscriber configures and uses it:   *)
(* explicit acks, redelivery after a Nak or 30s without an ack, at most    *)
(* MaxDeliver deliveries, only messages published since the consumer       *)
(* exists.  Delivered messages wait in a buffer of the process, and their  *)
(* 30s run while they do.                                                  *)
(***************************************************************************)
EXTENDS Integers, Sequences, FiniteSets

CONSTANTS
    Event,        \* messages published to the stream
    User,         \* users
    Keys,         \* the JSON keys publishers use for the data of an event
    MaxDeliver,   \* deliveries of a message at most: 5
    FanOut,       \* fanOutConcurrency: 10
    MaxCrashes    \* bound on ends of the process: crashes and signals to stop

ASSUME NotificationSubscriberAssumption ==
    /\ MaxDeliver \in Nat \ {0}
    /\ FanOut \in Nat \ {0}
    /\ MaxCrashes \in Nat
    /\ Keys \subseteq {"tags", "names"}

\* An event of one group.  Its data has the keys of memberAddedData's tags
\* (group_id, user_id...) or the names of Go's fields (GroupID, UserID...),
\* which is what the org service publishes.
Message == [type : {"member_added", "group_deleted", "member_removed"},
            keys : Keys, user : User]

Outcome == {"ok", "lost", "ambiguous"}
Applied(o) == o # "lost"

VARIABLES
    stream,      \* messages of the group subjects, in the order of publication
    message,     \* what each of them says
    \* JetStream's view of the consumer.
    consumer,    \* whether the durable consumer exists
    next,        \* position in the stream of the next new message
    status,      \* of each message: pending, inflight, redeliver, acked, exhausted,
                 \* or expired: dropped by the stream before it was settled
    deliveries,  \* of each message
    \* The process.
    subscriber,  \* starting, up, dead if the consumer could not be created, or
                 \* stopping: the context of all its calls is cancelled
    buffer,      \* deliveries received and not yet handled
    work,        \* the message being handled
    \* What is around it.
    roster,      \* members of the group, as the org service lists them
    records,     \* rows of the table notifications, for a message and a user
    pushed,      \* pairs of a message and a user push was called for
    \* The three below are history.
    listed,      \* pairs of a message and a member its last fan-out was given
    missed,      \* those whose row could not be saved, the fan-out going on
    crashes      \* times the process died or was told to stop

jetstream == <<consumer, next, status, deliveries>>
published == <<stream, message>>
history == <<listed, missed, crashes>>
vars == <<published, jetstream, subscriber, buffer, work, roster, records, pushed, history>>

NoWork == [pc |-> "none"]
Work ==
    [pc : {"save", "push", "realtime", "list", "ack", "nak"}, event : Event]
    \cup [pc : {"fanout"}, event : Event, todo : SUBSET User,
          saving : SUBSET User, pushing : SUBSET User]

Published == {stream[k] : k \in DOMAIN stream}

TypeOK ==
    /\ stream \in Seq(Event)
    /\ DOMAIN message = Published
    /\ \A e \in Published : message[e] \in Message
    /\ consumer \in BOOLEAN
    /\ next \in 1..(Len(stream) + 1)
    /\ status \in [Event -> {"none", "pending", "inflight", "redeliver", "acked",
                            "exhausted", "expired"}]
    /\ deliveries \in [Event -> 0..MaxDeliver]
    /\ subscriber \in {"starting", "up", "dead", "stopping"}
    /\ buffer \in Seq(Published)
    /\ work \in {NoWork} \cup Work
    /\ roster \subseteq User
    /\ records \in [Event \X User -> 0..MaxDeliver]
    /\ pushed \subseteq Event \X User
    /\ listed \subseteq Event \X User
    /\ missed \subseteq listed
    /\ crashes \in 0..MaxCrashes

Init ==
    /\ stream = <<>>
    /\ message = [e \in {} |-> NoWork]
    /\ consumer = FALSE
    /\ next = 1
    /\ status = [e \in Event |-> "none"]
    /\ deliveries = [e \in Event |-> 0]
    /\ subscriber = "starting"
    /\ buffer = <<>>
    /\ work = NoWork
    /\ roster \in SUBSET User
    /\ records = [r \in Event \X User |-> 0]
    /\ pushed = {}
    /\ listed = {}
    /\ missed = {}
    /\ crashes = 0

(***************************************************************************)
(* Around the process: publishers, the group, JetStream.                   *)
(***************************************************************************)
Publish(e, m) ==
    /\ e \notin Published
    /\ stream' = Append(stream, e)
    /\ message' = [f \in Published \cup {e} |-> IF f = e THEN m ELSE message[f]]
    /\ status' = IF consumer THEN [status EXCEPT ![e] = "pending"] ELSE status
    /\ UNCHANGED <<consumer, next, deliveries, subscriber, buffer, work, roster,
                   records, pushed, history>>

JoinOrLeave(u) ==
    /\ roster' = IF u \in roster THEN roster \ {u} ELSE roster \cup {u}
    /\ UNCHANGED <<published, jetstream, subscriber, buffer, work, records, pushed, history>>

Hand(e) ==
    /\ status' = [status EXCEPT ![e] = "inflight"]
    /\ deliveries' = [deliveries EXCEPT ![e] = @ + 1]
    /\ buffer' = Append(buffer, e)

\* A process told to stop receives until Run gets to cc.Stop().
Receives == subscriber \in {"up", "stopping"}

DeliverNew ==
    /\ Receives
    /\ next \in DOMAIN stream
    /\ Hand(stream[next])
    /\ next' = next + 1
    /\ UNCHANGED <<published, consumer, subscriber, work, roster, records, pushed, history>>

Redeliver(e) ==
    /\ Receives
    /\ status[e] = "redeliver"
    /\ Hand(e)
    /\ UNCHANGED <<published, consumer, next, subscriber, work, roster, records,
                   pushed, history>>

\* A mutant: MaxDeliver is not set.
AgainForEver(e) == "redeliver"

\* What becomes of a message whose delivery failed.
Again(e) == IF deliveries[e] < MaxDeliver THEN "redeliver" ELSE "exhausted"

\* 30 seconds after a delivery, be it handled, in the buffer or lost.
AckTimeout(e) ==
    /\ status[e] = "inflight"
    /\ status' = [status EXCEPT ![e] = Again(e)]
    /\ UNCHANGED <<published, consumer, next, deliveries, subscriber, buffer, work,
                   roster, records, pushed, history>>

\* MaxAge of the stream, 72 hours: while nobody consumes, it drops the oldest
\* messages, up to the k-th.
Expire(k) ==
    /\ consumer
    /\ subscriber \in {"starting", "dead"}
    /\ status' = [e \in Event |->
                      IF /\ \E j \in 1..k : stream[j] = e
                         /\ status[e] \in {"pending", "inflight", "redeliver"}
                      THEN "expired" ELSE status[e]]
    /\ next' = IF k < next THEN next ELSE k + 1
    /\ UNCHANGED <<published, consumer, deliveries, subscriber, buffer, work, roster,
                   records, pushed, history>>

(***************************************************************************)
(* Subscriber.Run: create or resume the consumer; an error ends the        *)
(* goroutine and the process serves on without it.                         *)
(***************************************************************************)
\* A mutant: the consumer is not durable, every start creates a new one.
StartEphemeral(o) ==
    /\ subscriber = "starting"
    /\ subscriber' = IF o = "ok" THEN "up" ELSE "dead"
    /\ consumer' = (consumer \/ Applied(o))
    /\ next' = Len(stream) + 1
    /\ UNCHANGED <<published, status, deliveries, buffer, work, roster, records,
                   pushed, history>>

Start(o) ==
    /\ subscriber = "starting"
    /\ subscriber' = IF o = "ok" THEN "up" ELSE "dead"
    /\ consumer' = (consumer \/ Applied(o))
    /\ next' = IF consumer THEN next ELSE Len(stream) + 1
    /\ UNCHANGED <<published, status, deliveries, buffer, work, roster, records,
                   pushed, history>>

(***************************************************************************)
(* Subscriber.handle: decode, dispatch.  What cannot be decoded, and types *)
(* nobody is told about, are acked.                                        *)
(***************************************************************************)
First(m) ==
    CASE m.keys = "tags" /\ m.type = "member_added"  -> "save"
      [] m.keys = "tags" /\ m.type = "group_deleted" -> "realtime"
      [] OTHER                                       -> "ack"

\* A mutant: the message is acked before it is handled.
BeginWithAck ==
    /\ work = NoWork
    /\ buffer # <<>>
    /\ work' = [pc |-> First(message[Head(buffer)]), event |-> Head(buffer)]
    /\ status' = [status EXCEPT ![Head(buffer)] = IF @ = "exhausted" THEN @ ELSE "acked"]
    /\ buffer' = Tail(buffer)
    /\ UNCHANGED <<published, consumer, next, deliveries, subscriber, roster, records,
                   pushed, history>>

Begin ==
    /\ work = NoWork
    /\ buffer # <<>>
    /\ work' = [pc |-> First(message[Head(buffer)]), event |-> Head(buffer)]
    /\ buffer' = Tail(buffer)
    /\ UNCHANGED <<published, jetstream, subscriber, roster, records, pushed, history>>

GoTo(pc) == work' = [pc |-> pc, event |-> work.event]

\* How a call that takes the context can end: once it is cancelled, with an
\* error and nothing done.  What was under way then is a call that ended before.
WithContext(o) == subscriber = "up" \/ o = "lost"

Record(e, u, o) ==
    records' = IF Applied(o) THEN [records EXCEPT ![<<e, u>>] = @ + 1] ELSE records

\* Both channels are best effort: a preference that is off, a failed look-up
\* of the devices and a failed push are all one here.
Push(e, u, o) ==
    pushed' = IF Applied(o) THEN pushed \cup {<<e, u>>} ELSE pushed

\* SendToUser for handleMemberAdded: Save, whose error asks for redelivery.
SaveRow(o) ==
    /\ work.pc = "save" /\ WithContext(o)
    /\ Record(work.event, message[work.event].user, o)
    /\ GoTo(IF o = "ok" THEN "push" ELSE "nak")
    /\ UNCHANGED <<published, jetstream, subscriber, buffer, roster, pushed, history>>

PushUser(o) ==
    /\ work.pc = "push" /\ WithContext(o)
    /\ Push(work.event, message[work.event].user, o)
    /\ GoTo("ack")
    /\ UNCHANGED <<published, jetstream, subscriber, buffer, roster, records, history>>

(***************************************************************************)
(* SendToGroup for handleGroupDeleted: the channel of the group, the       *)
(* members from the org service, a goroutine for each of them.             *)
(***************************************************************************)
Realtime ==
    /\ work.pc = "realtime"
    /\ GoTo("list")
    /\ UNCHANGED <<published, jetstream, subscriber, buffer, roster, records, pushed, history>>

Of(e) == {e} \X User

ListGroupMembers(o) ==
    /\ work.pc = "list" /\ WithContext(o)
    /\ IF o = "ok"
       THEN work' = [pc |-> "fanout", event |-> work.event, todo |-> roster,
                     saving |-> {}, pushing |-> {}]
       ELSE GoTo("nak")
    /\ IF o = "ok" /\ status[work.event] # "acked"
       THEN /\ listed' = (listed \ Of(work.event)) \cup ({work.event} \X roster)
            /\ missed' = missed \ Of(work.event)
       ELSE UNCHANGED <<listed, missed>>
    /\ UNCHANGED <<published, jetstream, subscriber, buffer, roster, records, pushed, crashes>>

\* A mutant: the channel of the semaphore is one slot short.
SpawnOneShort(u) ==
    /\ work.pc = "fanout"
    /\ u \in work.todo
    /\ Cardinality(work.saving \cup work.pushing) < FanOut - 1
    /\ work' = [work EXCEPT !.todo = @ \ {u}, !.saving = @ \cup {u}]
    /\ UNCHANGED <<published, jetstream, subscriber, buffer, roster, records, pushed, history>>

\* sem <- struct{}{}: at most FanOut goroutines hold a slot.
Spawn(u) ==
    /\ work.pc = "fanout"
    /\ u \in work.todo
    /\ Cardinality(work.saving \cup work.pushing) < FanOut
    /\ work' = [work EXCEPT !.todo = @ \ {u}, !.saving = @ \cup {u}]
    /\ UNCHANGED <<published, jetstream, subscriber, buffer, roster, records, pushed, history>>

\* A mutant: no return after the error of Save; push is tried all the same.
MemberSaveAndGoOn(u, o) ==
    /\ work.pc = "fanout" /\ u \in work.saving /\ WithContext(o)
    /\ Record(work.event, u, o)
    /\ work' = [work EXCEPT !.saving = @ \ {u}, !.pushing = @ \cup {u}]
    /\ UNCHANGED <<published, jetstream, subscriber, buffer, roster, pushed, history>>

\* A mutant: a Save that failed is tried again at once.
MemberSaveRetry(u, o) ==
    /\ work.pc = "fanout" /\ u \in work.saving /\ WithContext(o)
    /\ Record(work.event, u, o)
    /\ work' = IF o = "ok" THEN [work EXCEPT !.saving = @ \ {u}, !.pushing = @ \cup {u}]
                          ELSE work
    /\ UNCHANGED <<published, jetstream, subscriber, buffer, roster, pushed, history>>

\* SendToUser for one member: an error of Save ends this goroutine, not the others.
MemberSave(u, o) ==
    /\ work.pc = "fanout" /\ u \in work.saving /\ WithContext(o)
    /\ Record(work.event, u, o)
    /\ work' = [work EXCEPT !.saving = @ \ {u},
                            !.pushing = IF o = "ok" THEN @ \cup {u} ELSE @]
    /\ missed' = IF o = "lost" /\ <<work.event, u>> \in listed
                 THEN missed \cup {<<work.event, u>>} ELSE missed
    /\ UNCHANGED <<published, jetstream, subscriber, buffer, roster, pushed, listed, crashes>>

MemberPush(u, o) ==
    /\ work.pc = "fanout" /\ u \in work.pushing /\ WithContext(o)
    /\ Push(work.event, u, o)
    /\ work' = [work EXCEPT !.pushing = @ \ {u}]
    /\ UNCHANGED <<published, jetstream, subscriber, buffer, roster, records, history>>

\* g.Wait() returns nil: no goroutine returns an error.
Wait ==
    /\ work.pc = "fanout"
    /\ work.todo \cup work.saving \cup work.pushing = {}
    /\ GoTo("ack")
    /\ UNCHANGED <<published, jetstream, subscriber, buffer, roster, records, pushed, history>>

(***************************************************************************)
(* The callback of Consume ends with an Ack or a Nak, which may get lost;  *)
(* either is about the message, whichever delivery it answers.             *)
(***************************************************************************)
Ack(o) ==
    /\ work.pc = "ack"
    /\ status' = IF Applied(o) /\ status[work.event] \in {"inflight", "redeliver"}
                 THEN [status EXCEPT ![work.event] = "acked"]
                 ELSE status
    /\ work' = NoWork
    /\ UNCHANGED <<published, consumer, next, deliveries, subscriber, buffer, roster,
                   records, pushed, history>>

Nak(o) ==
    /\ work.pc = "nak"
    /\ status' = IF Applied(o) /\ status[work.event] = "inflight"
                 THEN [status EXCEPT ![work.event] = Again(work.event)]
                 ELSE status
    /\ work' = NoWork
    /\ UNCHANGED <<published, consumer, next, deliveries, subscriber, buffer, roster,
                   records, pushed, history>>

\* The process dies and starts again: the buffer and what it was doing are lost.
Crash ==
    /\ crashes < MaxCrashes
    /\ crashes' = crashes + 1
    /\ subscriber' = "starting"
    /\ buffer' = <<>>
    /\ work' = NoWork
    /\ UNCHANGED <<published, jetstream, roster, records, pushed, listed, missed>>

(***************************************************************************)
(* SIGTERM: main cancels the context and returns without waiting for Run.  *)
(* The callback goes on until the process exits, its calls failing, and    *)
(* can still ack: Ack takes no context.                                    *)
(***************************************************************************)
Shutdown ==
    /\ subscriber = "up"
    /\ crashes < MaxCrashes
    /\ crashes' = crashes + 1
    /\ subscriber' = "stopping"
    /\ UNCHANGED <<published, jetstream, buffer, work, roster, records, pushed, listed,
                   missed>>

\* main returns, and the process is started again.
Exit ==
    /\ subscriber = "stopping"
    /\ subscriber' = "starting"
    /\ buffer' = <<>>
    /\ work' = NoWork
    /\ UNCHANGED <<published, jetstream, roster, records, pushed, history>>

Handler ==
    \/ Begin
    \/ \E o \in Outcome : SaveRow(o) \/ PushUser(o) \/ ListGroupMembers(o)
    \/ Realtime
    \/ \E u \in User : Spawn(u)
    \/ Wait
    \/ \E o \in {"ok", "lost"} : Ack(o) \/ Nak(o)

Member(u) == \E o \in Outcome : MemberSave(u, o) \/ MemberPush(u, o)

Next ==
    \/ \E e \in Event, m \in Message : Publish(e, m)
    \/ \E u \in User : JoinOrLeave(u)
    \/ DeliverNew
    \/ \E e \in Event : Redeliver(e) \/ AckTimeout(e)
    \/ \E k \in DOMAIN stream : Expire(k)
    \/ \E o \in Outcome : Start(o)
    \/ Handler
    \/ \E u \in User : Member(u)
    \/ Crash
    \/ Shutdown
    \/ Exit

Spec == Init /\ [][Next]_vars

(***************************************************************************)
(* The process starts, and stops when told to; the callback and the        *)
(* goroutines run and their calls return; JetStream hands out messages and *)
(* runs its timers.                                                        *)
(***************************************************************************)
Fairness ==
    /\ WF_vars(\E o \in Outcome : Start(o))
    /\ WF_vars(Exit)
    /\ WF_vars(Handler)
    /\ \A u \in User : WF_vars(Member(u))
    /\ WF_vars(DeliverNew)
    /\ \A e \in Event : WF_vars(Redeliver(e)) /\ WF_vars(AckTimeout(e))

FairSpec == Spec /\ Fairness

(***************************************************************************)
(* Properties.                                                             *)
(***************************************************************************)
Readable(e, type) == message[e].keys = "tags" /\ message[e].type = type

\* A message is acked only when its work is done: the added member has a
\* notification; of a deleted group, every member its fan-out was given has
\* one, or Save failed for that member and the fan-out went on: a fan-out that
\* is told to stop acks as well, where one that dies is done again.
AckedIsDone ==
    \A e \in Published : status[e] = "acked" =>
        /\ Readable(e, "member_added") => records[<<e, message[e].user>>] > 0
        /\ Readable(e, "group_deleted") =>
              \A u \in User : <<e, u>> \in listed =>
                                 records[<<e, u>>] > 0 \/ <<e, u>> \in missed

\* A user has at most one notification per delivery of the message, however the
\* deliveries, crashes and acks interleave; none for a message not delivered.
OnePerDelivery ==
    \A e \in Event, u \in User : records[<<e, u>>] <= deliveries[e]

\* Nobody is pushed what the history of notifications does not show, and only
\* the added member or a listed one is.
PushedIsRecorded ==
    \A p \in pushed : /\ records[p] > 0
                      /\ \/ Readable(p[1], "member_added") /\ message[p[1]].user = p[2]
                         \/ Readable(p[1], "group_deleted")

\* Whom a message is for: the added member, or the members of the last list.
Owed == listed \cup {<<e, message[e].user>> : e \in
                        {f \in Published : Readable(f, "member_added")}}
Closed == {e \in Event : status[e] = "acked"}

\* What is promised of messages, over all of the above at once: none is handed
\* out after its ack or too often, no row is written that no delivery pays for or
\* nobody is owed, none is pushed before its row, and an ack leaves nobody out
\* but those whose row could not be saved.
Ledger == INSTANCE NotificationLedger WITH
    MaxTries <- MaxDeliver, tries <- deliveries, owed <- Owed, excused <- missed,
    rows <- records, told <- pushed, closed <- Closed

KeepsLedger == Ledger!Spec

\* The consumer outlives the process: what is published while it is down is
\* still ahead of it unless the stream dropped it, and nothing is both behind it
\* and undelivered.
NoneSkipped ==
    \A k \in DOMAIN stream :
        status[stream[k]] # "none" => (status[stream[k]] = "pending" <=> k >= next)

\* Every message published since the consumer exists is acked or has used up
\* its deliveries in the end, and leaves the handler free for the next one,
\* unless the subscriber could not start or the message got too old while it
\* was down: no fan-out waits for ever.
Settled ==
    \A e \in Event :
        status[e] = "pending" ~> \/ status[e] \in {"acked", "exhausted"} /\ work = NoWork
                                 \/ status[e] = "expired"
                                 \/ subscriber = "dead"

\* subscriber.go: the envelope mirrors what the org service writes.  Violated:
\* the org service publishes Go's field names, which the tags do not match.
AddedMemberTold ==
    \A e \in Published : status[e] = "acked" /\ message[e].type = "member_added" =>
        records[<<e, message[e].user>>] > 0
=============================================================================
