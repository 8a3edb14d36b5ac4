-------------------- MODULE NotificationSubscriberProofs --------------------
(***************************************************************************)
(* The subscriber and the fan-out, for any number of messages, users,      *)
(* deliveries and ends of the process.  The properties speak of what has   *)
(* been done; the invariant adds what the handling under way and the buffer*)
(* may still do, so that the deliveries pay for it in advance.             *)
(***************************************************************************)
EXTENDS NotificationSubscriber, FiniteSetTheorems, SequenceTheorems, TLAPS

\* What the end of a handling with an ack says of its message.
Done(e) ==
    /\ Readable(e, "member_added") => records[<<e, message[e].user>>] > 0
    /\ Readable(e, "group_deleted") =>
          \A u \in User : <<e, u>> \in listed => records[<<e, u>>] > 0 \/ <<e, u>> \in missed

\* The handling is one its message asks for, and has done what is behind it.
WorkSound ==
    /\ work # NoWork => work.event \in Published
    /\ work.pc \in {"save", "push"} => Readable(work.event, "member_added")
    /\ work.pc = "push" => records[<<work.event, message[work.event].user>>] > 0
    /\ work.pc \in {"realtime", "list", "fanout"} => Readable(work.event, "group_deleted")
    /\ work.pc = "fanout" =>
          /\ work.todo \cap work.saving = {}
          /\ \A u \in work.pushing : records[<<work.event, u>>] > 0
          /\ \A u \in User : <<work.event, u>> \in listed =>
                \/ u \in work.todo \cup work.saving
                \/ records[<<work.event, u>>] > 0
                \/ <<work.event, u>> \in missed
    /\ work.pc = "ack" => Done(work.event)

\* The row the handling may still write for a user, and the handlings a message
\* still waits for in the buffer.
Due(e, u) ==
    IF /\ work # NoWork
       /\ work.event = e
       /\ \/ work.pc = "save" /\ message[e].user = u
          \/ work.pc \in {"realtime", "list"}
          \/ work.pc = "fanout" /\ u \in work.todo \cup work.saving
    THEN 1 ELSE 0
Positions(e) == {k \in DOMAIN buffer : buffer[k] = e}
Waiting(e) == Cardinality(Positions(e))

\* Each row written or still to be written is paid for by a delivery.
RowsPaidFor ==
    \A e \in Event, u \in User : records[<<e, u>>] + Due(e, u) + Waiting(e) <= deliveries[e]

\* The messages ahead of the consumer are those pending, once it exists, each at
\* one place of the stream and not yet delivered.
StreamSound ==
    /\ \A j, k \in DOMAIN stream : stream[j] = stream[k] => j = k
    /\ ~consumer => \A e \in Event : status[e] = "none"
    /\ subscriber \in {"up", "stopping"} => consumer
    /\ \A e \in Event : status[e] # "none" => e \in Published
    /\ \A k \in DOMAIN stream : k < next => status[stream[k]] # "pending"
    /\ consumer => \A k \in DOMAIN stream : k >= next => status[stream[k]] = "pending"
    /\ \A e \in Event : status[e] \in {"none", "pending"} => deliveries[e] = 0
    /\ \A e \in Event : status[e] = "redeliver" => deliveries[e] < MaxDeliver

SubscriberInv ==
    /\ TypeOK
    /\ StreamSound
    /\ WorkSound
    /\ RowsPaidFor
    /\ AckedIsDone
    /\ PushedIsRecorded
    /\ \A p \in pushed : p[1] \in Published

(***************************************************************************)
(* Counting what is in the buffer.                                         *)
(***************************************************************************)

\* A buffer holds each message a finite number of times.
LEMMA WaitingFinite ==
    ASSUME NEW S, buffer \in Seq(S), NEW e
    PROVE  IsFiniteSet(Positions(e)) /\ Waiting(e) \in Nat
<1>1. Len(buffer) \in Nat /\ DOMAIN buffer = 1..Len(buffer)
  OBVIOUS
<1>2. IsFiniteSet(1..Len(buffer))
  BY <1>1, FS_Interval
<1>3. Positions(e) \in SUBSET (1..Len(buffer))
  BY <1>1 DEF Positions
<1>4. IsFiniteSet(Positions(e))
  BY <1>2, <1>3, FS_Subset
<1>5. QED
  BY <1>4, FS_CardinalityType DEF Waiting

\* A delivery waits once more for its message.
LEMMA AppendCounts ==
    ASSUME NEW S, buffer \in Seq(S), NEW e \in S, buffer' = Append(buffer, e)
    PROVE  /\ Waiting(e)' = Waiting(e) + 1
           /\ \A f : f # e => Waiting(f)' = Waiting(f)
<1> DEFINE n == Len(buffer) + 1
<1>1. /\ Len(buffer) \in Nat /\ DOMAIN buffer = 1..Len(buffer)
      /\ DOMAIN buffer' = 1..n /\ buffer'[n] = e
      /\ \A k \in 1..Len(buffer) : buffer'[k] = buffer[k]
  BY AppendProperties
<1>2. Positions(e)' = Positions(e) \cup {n} /\ n \notin Positions(e)
  BY <1>1 DEF Positions
<1>3. \A f : f # e => Positions(f)' = Positions(f)
  BY <1>1 DEF Positions
<1>4. Waiting(e)' = Waiting(e) + 1
  BY <1>2, WaitingFinite, FS_AddElement DEF Waiting
<1>5. QED
  BY <1>3, <1>4 DEF Waiting

\* The callback takes one off.
LEMMA TailCounts ==
    ASSUME NEW S, buffer \in Seq(S), buffer # <<>>, buffer' = Tail(buffer),
           NEW h, h = Head(buffer)
    PROVE  /\ Waiting(h)' = Waiting(h) - 1
           /\ \A f : f # h => Waiting(f)' = Waiting(f)
<1>1. /\ Len(buffer) \in Nat \ {0} /\ DOMAIN buffer = 1..Len(buffer)
      /\ buffer' \in Seq(S) /\ Len(buffer') = Len(buffer) - 1
      /\ DOMAIN buffer' = 1..(Len(buffer) - 1)
      /\ \A k \in 1..(Len(buffer) - 1) : buffer'[k] = buffer[k + 1]
      /\ h = buffer[1]
  BY HeadTailProperties, EmptySeq
<1>2. \A f : IsFiniteSet(Positions(f)) /\ Waiting(f) \in Nat
  BY WaitingFinite
<1>3. \A f : IsFiniteSet(Positions(f)')
  <2> TAKE f
  <2>1. Positions(f)' \in SUBSET (1..(Len(buffer) - 1))
    BY <1>1 DEF Positions
  <2>2. IsFiniteSet(1..(Len(buffer) - 1))
    BY <1>1, FS_Interval
  <2>3. QED
    BY <2>1, <2>2, FS_Subset
<1>4. ASSUME NEW f
      PROVE  Cardinality(Positions(f) \ {1}) = Waiting(f)'
  <2> DEFINE later == Positions(f) \ {1}
             shift == [k \in Positions(f)' |-> k + 1]
  <2>1. Positions(f)' = {k \in 1..(Len(buffer) - 1) : buffer[k + 1] = f}
    BY <1>1 DEF Positions
  <2>2. later = {k \in 2..Len(buffer) : buffer[k] = f}
    BY <1>1 DEF Positions
  <2>3. shift \in [Positions(f)' -> later]
    BY <1>1, <2>1, <2>2
  <2>4. \A j, k \in Positions(f)' : shift[j] = shift[k] => j = k
    BY <1>1, <2>1
  <2>5. \A k \in later : k - 1 \in Positions(f)' /\ shift[k - 1] = k
    BY <1>1, <2>1, <2>2
  <2> HIDE DEF shift, later
  <2>6. shift \in Bijection(Positions(f)', later)
    BY <2>3, <2>4, <2>5 DEF Bijection, Injection, Surjection, IsInjective
  <2>7. ExistsBijection(Positions(f)', later)
    BY <2>6 DEF ExistsBijection
  <2>8. QED
    BY <1>3, <2>7, FS_Bijection DEF Waiting, later
<1>5. 1 \in Positions(h) /\ \A f : f # h => 1 \notin Positions(f)
  BY <1>1 DEF Positions
<1>6. Waiting(h)' = Waiting(h) - 1
  BY <1>2, <1>4, <1>5, FS_RemoveElement DEF Waiting
<1>7. ASSUME NEW f, f # h
      PROVE  Waiting(f)' = Waiting(f)
  <2>1. Positions(f) \ {1} = Positions(f)
    BY <1>5, <1>7
  <2>2. QED
    BY <1>4, <2>1 DEF Waiting
<1>8. QED
  BY <1>6, <1>7

\* With the process the buffer goes.
LEMMA EmptyCounts ==
    ASSUME buffer' = <<>>
    PROVE  \A e : Waiting(e)' = 0
BY FS_EmptySet DEF Waiting, Positions

(***************************************************************************)
(* What every step relies on.                                              *)
(***************************************************************************)

\* Nothing is published, delivered or under way at the start.
LEMMA InitInv == Init => SubscriberInv
<1> SUFFICES ASSUME Init PROVE SubscriberInv
  OBVIOUS
<1>1. Published = {} /\ Len(stream) = 0 /\ DOMAIN stream = {} /\ <<>> \in Seq(Event) /\ <<>> \in Seq({})
  BY EmptySeq DEF Init, Published
<1>2. TypeOK
  <2>1. stream \in Seq(Event) /\ buffer \in Seq(Published) /\ next \in 1..(Len(stream) + 1)
    BY <1>1 DEF Init
  <2>2. DOMAIN message = Published /\ \A e \in Published : message[e] \in Message
    BY <1>1 DEF Init
  <2>3. 0 \in 0..MaxDeliver /\ 0 \in 0..MaxCrashes
    BY NotificationSubscriberAssumption
  <2>4. deliveries \in [Event -> 0..MaxDeliver] /\ records \in [Event \X User -> 0..MaxDeliver]
    BY <2>3 DEF Init
  <2>5. status \in [Event -> {"none", "pending", "inflight", "redeliver", "acked",
                             "exhausted", "expired"}]
    BY DEF Init
  <2>6. QED
    BY <2>1, <2>2, <2>3, <2>4, <2>5 DEF Init, TypeOK
<1>3. StreamSound /\ WorkSound
  BY <1>1, NotificationSubscriberAssumption DEF Init, StreamSound, WorkSound, NoWork
<1>4. \A e : Waiting(e) = 0
  BY FS_EmptySet DEF Waiting, Positions, Init
<1>5. RowsPaidFor
  BY <1>4 DEF Init, RowsPaidFor, Due
<1>6. AckedIsDone /\ PushedIsRecorded /\ \A p \in pushed : p[1] \in Published
  BY <1>1 DEF Init, AckedIsDone, PushedIsRecorded
<1>7. QED
  BY <1>2, <1>3, <1>5, <1>6 DEF SubscriberInv

\* The stream holds events, the buffer some of them.
LEMMA StreamFacts ==
    ASSUME TypeOK
    PROVE  /\ Published \subseteq Event
           /\ \A k \in DOMAIN stream : stream[k] \in Published
           /\ Len(stream) \in Nat /\ DOMAIN stream = 1..Len(stream)
           /\ next \in 1..(Len(stream) + 1)
           /\ buffer \in Seq(Event)
           /\ \A e \in Event : Waiting(e) \in Nat
           /\ buffer # <<>> => /\ Head(buffer) \in Published
                               /\ Tail(buffer) \in Seq(Published)
<1>1. /\ Published \subseteq Event /\ (\A k \in DOMAIN stream : stream[k] \in Published)
      /\ Len(stream) \in Nat /\ DOMAIN stream = 1..Len(stream)
      /\ next \in 1..(Len(stream) + 1)
  BY DEF TypeOK, Published
<1>2. buffer \in Seq(Published)
  BY DEF TypeOK
<1>3. buffer \in Seq(Event)
  BY <1>1, <1>2
<1>4. \A e \in Event : Waiting(e) \in Nat
  BY <1>2, WaitingFinite
<1>5. buffer # <<>> => Head(buffer) \in Published /\ Tail(buffer) \in Seq(Published)
  BY <1>2, HeadTailProperties
<1>6. QED
  BY <1>1, <1>3, <1>4, <1>5

\* The fields of a handling.
LEMMA WorkFacts ==
    ASSUME TypeOK
    PROVE  /\ work = NoWork <=> work.pc = "none"
           /\ work # NoWork => work.event \in Event
           /\ work.pc \in {"none", "save", "push", "realtime", "list", "ack", "nak", "fanout"}
           /\ work.pc = "fanout" =>
                 /\ work \in [pc : {"fanout"}, event : Event, todo : SUBSET User,
                              saving : SUBSET User, pushing : SUBSET User]
                 /\ work.todo \subseteq User /\ work.saving \subseteq User
                 /\ work.pushing \subseteq User
           /\ \A e, u : Due(e, u) \in {0, 1}
BY DEF TypeOK, Work, NoWork, Due

\* The terms of RowsPaidFor are numbers.
LEMMA CountFacts ==
    ASSUME TypeOK, NEW e \in Event, NEW u \in User
    PROVE  /\ records[<<e, u>>] \in Nat /\ deliveries[e] \in Nat
           /\ Due(e, u) \in {0, 1} /\ Waiting(e) \in Nat
<1>1. records[<<e, u>>] \in 0..MaxDeliver /\ deliveries[e] \in 0..MaxDeliver
  BY DEF TypeOK
<1>2. Due(e, u) \in {0, 1} /\ Waiting(e) \in Nat
  BY StreamFacts, WorkFacts
<1>3. QED
  BY <1>1, <1>2

\* A step away from the handling does not disturb what is known of it.
LEMMA KeepsWork ==
    ASSUME SubscriberInv,
           UNCHANGED <<stream, message, work, records, pushed, listed, missed>>,
           \A e \in Event : status'[e] = "acked" => status[e] = "acked"
    PROVE  /\ Published' = Published
           /\ WorkSound'
           /\ AckedIsDone'
           /\ PushedIsRecorded'
           /\ \A p \in pushed' : p[1] \in Published'
           /\ \A e, u : Due(e, u)' = Due(e, u)
<1> USE DEF SubscriberInv
<1>1. Published' = Published
  BY DEF Published
<1>2. WorkSound'
  BY <1>1 DEF WorkSound, Readable, Done
<1>3. AckedIsDone'
  BY <1>1, StreamFacts DEF AckedIsDone, Readable
<1>4. PushedIsRecorded' /\ \A p \in pushed' : p[1] \in Published'
  BY <1>1 DEF PushedIsRecorded, Readable
<1>5. \A e, u : Due(e, u)' = Due(e, u)
  BY DEF Due
<1>6. QED
  BY <1>1, <1>2, <1>3, <1>4, <1>5

\* A step of the handling does not disturb JetStream.
LEMMA KeepsStream ==
    ASSUME SubscriberInv, UNCHANGED <<stream, message, consumer, next, status, deliveries, subscriber>>
    PROVE  Published' = Published /\ StreamSound'
BY DEF SubscriberInv, Published, StreamSound

(***************************************************************************)
(* The steps around the process.                                           *)
(***************************************************************************)

\* A new message is ahead of the consumer, if there is one.
LEMMA PublishStep ==
    ASSUME SubscriberInv, NEW e \in Event, NEW m \in Message, Publish(e, m)
    PROVE  SubscriberInv'
<1> USE DEF SubscriberInv
<1> DEFINE n == Len(stream) + 1
<1>1. /\ e \notin Published /\ stream' = Append(stream, e)
      /\ message' = [f \in Published \cup {e} |-> IF f = e THEN m ELSE message[f]]
      /\ status' = IF consumer THEN [status EXCEPT ![e] = "pending"] ELSE status
      /\ UNCHANGED <<consumer, next, deliveries, subscriber, buffer, work, roster,
                     records, pushed, listed, missed, crashes>>
  BY DEF Publish, history
<1>2. /\ Len(stream) \in Nat /\ DOMAIN stream = 1..Len(stream)
      /\ stream' \in Seq(Event) /\ Len(stream') = n
      /\ DOMAIN stream' = 1..n /\ stream'[n] = e
      /\ \A k \in 1..Len(stream) : stream'[k] = stream[k]
  BY <1>1, AppendProperties DEF TypeOK
<1>3. Published' = Published \cup {e}
  BY <1>2 DEF Published
<1>4. /\ DOMAIN message' = Published' /\ message'[e] = m
      /\ \A f \in Published : message'[f] = message[f]
  BY <1>1, <1>3
<1>5. status[e] = "none" /\ deliveries[e] = 0
  BY <1>1 DEF StreamSound, TypeOK
<1>6. /\ status'[e] \in {"none", "pending"} /\ (consumer => status'[e] = "pending")
      /\ \A f \in Event : f # e => status'[f] = status[f]
      /\ ~consumer => status' = status
  BY <1>1, <1>5 DEF TypeOK
<1>7. TypeOK'
  <2>1. buffer \in Seq(Published')
    BY <1>3 DEF TypeOK
  <2>2. next \in 1..(Len(stream') + 1)
    BY <1>2 DEF TypeOK
  <2>3. \A f \in Published' : message'[f] \in Message
    BY <1>3, <1>4 DEF TypeOK
  <2>4. status' \in [Event -> {"none", "pending", "inflight", "redeliver", "acked",
                              "exhausted", "expired"}]
    BY <1>1 DEF TypeOK
  <2>5. QED
    BY <1>1, <1>2, <1>4, <2>1, <2>2, <2>3, <2>4 DEF TypeOK
<1>8. StreamSound'
  <2>1. \A k \in DOMAIN stream : stream[k] # e /\ stream[k] \in Event
    BY <1>1, StreamFacts
  <2>2. \A j, k \in DOMAIN stream' : stream'[j] = stream'[k] => j = k
    BY <1>2, <2>1 DEF StreamSound
  <2>3. next \in Nat /\ n \in Nat /\ ~(n < next)
    BY <1>2 DEF TypeOK
  <2>4. \A k \in DOMAIN stream' : \/ k = n
                                  \/ /\ k \in DOMAIN stream
                                     /\ status'[stream'[k]] = status[stream[k]]
    BY <1>2, <1>6, <2>1
  <2>5. /\ \A k \in DOMAIN stream' : k < next => status'[stream'[k]] # "pending"
        /\ consumer => \A k \in DOMAIN stream' : k >= next => status'[stream'[k]] = "pending"
    BY <1>2, <1>6, <2>3, <2>4 DEF StreamSound
  <2>6. QED
    BY <1>1, <1>3, <1>5, <1>6, <2>2, <2>5 DEF StreamSound
<1>9. work # NoWork => work.event \in Published
  BY DEF WorkSound
<1>10. \A f \in Published : \A t : Readable(f, t)' = Readable(f, t)
  BY <1>4 DEF Readable
<1>11. WorkSound'
  <2>1. work.pc \in {"save", "push", "realtime", "list", "fanout", "ack"} =>
           work.event \in Published /\ message'[work.event] = message[work.event]
    BY <1>4, <1>9, WorkFacts DEF NoWork
  <2>2. QED
    BY <1>1, <1>3, <1>9, <1>10, <2>1 DEF WorkSound, Done
<1>12. RowsPaidFor'
  <2>1. \A f : Waiting(f)' = Waiting(f)
    BY <1>1 DEF Waiting, Positions
  <2>2. \A f \in Event, u \in User : Due(f, u)' = Due(f, u)
    BY <1>1, <1>4, <1>9 DEF Due
  <2>3. QED
    BY <1>1, <2>1, <2>2 DEF RowsPaidFor
<1>13. AckedIsDone'
  BY <1>1, <1>3, <1>4, <1>6, <1>10, StreamFacts DEF AckedIsDone
<1>14. PushedIsRecorded' /\ \A p \in pushed' : p[1] \in Published'
  BY <1>1, <1>3, <1>4, <1>10 DEF PushedIsRecorded
<1>15. QED
  BY <1>7, <1>8, <1>11, <1>12, <1>13, <1>14

\* The roster is asked for, never relied on.
LEMMA JoinOrLeaveStep ==
    ASSUME SubscriberInv, NEW u \in User, JoinOrLeave(u)
    PROVE  SubscriberInv'
<1> USE DEF SubscriberInv
<1>1. /\ roster' = IF u \in roster THEN roster \ {u} ELSE roster \cup {u}
      /\ UNCHANGED <<stream, message, consumer, next, status, deliveries, subscriber, buffer,
                     work, records, pushed, listed, missed, crashes>>
  BY DEF JoinOrLeave, published, jetstream, history
<1>2. Published' = Published /\ StreamSound'
  BY <1>1, KeepsStream
<1>3. TypeOK'
  BY <1>1, <1>2 DEF TypeOK
<1>4. /\ WorkSound' /\ AckedIsDone' /\ PushedIsRecorded'
      /\ \A p \in pushed' : p[1] \in Published'
      /\ \A e, v : Due(e, v)' = Due(e, v)
  BY <1>1, KeepsWork
<1>5. RowsPaidFor'
  BY <1>1, <1>4 DEF RowsPaidFor, Waiting, Positions
<1>6. QED
  BY <1>2, <1>3, <1>4, <1>5

\* A delivery pays for one more handling of its message.
LEMMA HandFacts ==
    ASSUME SubscriberInv, NEW e \in Published, Hand(e), deliveries[e] < MaxDeliver,
           UNCHANGED <<stream, message, consumer, subscriber, work, roster, records, pushed,
                       listed, missed, crashes>>,
           next' \in 1..(Len(stream) + 1)
    PROVE  /\ TypeOK'
           /\ Published' = Published
           /\ status'[e] = "inflight" /\ \A f \in Event : f # e => status'[f] = status[f]
           /\ \A f \in Event : f # e => deliveries'[f] = deliveries[f]
           /\ WorkSound' /\ AckedIsDone' /\ PushedIsRecorded'
           /\ \A p \in pushed' : p[1] \in Published'
           /\ RowsPaidFor'
<1> USE DEF SubscriberInv
<1>1. /\ status' = [status EXCEPT ![e] = "inflight"]
      /\ deliveries' = [deliveries EXCEPT ![e] = @ + 1]
      /\ buffer' = Append(buffer, e)
  BY DEF Hand
<1>2. e \in Event
  BY StreamFacts
<1>3. /\ status'[e] = "inflight" /\ (\A f \in Event : f # e => status'[f] = status[f])
      /\ deliveries'[e] = deliveries[e] + 1
      /\ \A f \in Event : f # e => deliveries'[f] = deliveries[f]
  BY <1>1, <1>2 DEF TypeOK
<1>4. Published' = Published
  BY DEF Published
<1>5. TypeOK'
  <2>1. buffer' \in Seq(Published')
    BY <1>1, <1>4, AppendProperties DEF TypeOK
  <2>2. deliveries' \in [Event -> 0..MaxDeliver]
    BY <1>1, <1>2, NotificationSubscriberAssumption DEF TypeOK
  <2>3. status' \in [Event -> {"none", "pending", "inflight", "redeliver", "acked",
                              "exhausted", "expired"}]
    BY <1>1 DEF TypeOK
  <2>4. QED
    BY <1>4, <2>1, <2>2, <2>3 DEF TypeOK
<1>6. /\ WorkSound' /\ AckedIsDone' /\ PushedIsRecorded'
      /\ \A p \in pushed' : p[1] \in Published'
      /\ \A f, u : Due(f, u)' = Due(f, u)
  BY <1>3, KeepsWork
<1>7. RowsPaidFor'
  <2>1. Waiting(e)' = Waiting(e) + 1 /\ \A f : f # e => Waiting(f)' = Waiting(f)
    <3>1. buffer \in Seq(Published)
      BY DEF TypeOK
    <3>2. QED
      BY <1>1, <3>1, AppendCounts
  <2>2. \A f \in Event, u \in User : /\ records[<<f, u>>] \in Nat /\ Waiting(f) \in Nat
                                    /\ Due(f, u) \in {0, 1} /\ deliveries[f] \in Nat
    BY CountFacts
  <2>3. ASSUME NEW f \in Event, NEW u \in User
        PROVE  records[<<f, u>>] + Due(f, u) + Waiting(f)' <= deliveries'[f]
    <3>1. records[<<f, u>>] + Due(f, u) + Waiting(f) <= deliveries[f]
      BY DEF RowsPaidFor
    <3>2. CASE f = e
      <4>1. /\ Waiting(f)' = Waiting(f) + 1 /\ deliveries'[f] = deliveries[f] + 1
            /\ records[<<f, u>>] \in Nat /\ Waiting(f) \in Nat /\ deliveries[f] \in Nat
            /\ Due(f, u) \in Nat
        BY <1>3, <2>1, <2>2, <3>2
      <4>2. QED
        BY <3>1, <4>1
    <3>3. CASE f # e
      BY <1>3, <2>1, <3>1, <3>3
    <3>4. QED
      BY <3>2, <3>3
  <2>4. QED
    BY <1>6, <2>3 DEF RowsPaidFor
<1>8. QED
  BY <1>3, <1>4, <1>5, <1>6, <1>7

\* The first delivery is that of the next message ahead.
LEMMA DeliverNewStep ==
    ASSUME SubscriberInv, DeliverNew
    PROVE  SubscriberInv'
<1> USE DEF SubscriberInv
<1>1. PICK e \in Published : e = stream[next]
  BY StreamFacts DEF DeliverNew
<1>2. /\ next \in DOMAIN stream /\ next' = next + 1 /\ Hand(e)
      /\ UNCHANGED <<stream, message, consumer, subscriber, work, roster, records, pushed,
                     listed, missed, crashes>>
  BY <1>1 DEF DeliverNew, published, history
<1>3. consumer /\ status[e] = "pending" /\ e \in Event
  <2>1. consumer
    BY DEF DeliverNew, Receives, StreamSound
  <2>2. next >= next
    BY DEF TypeOK
  <2>3. QED
    BY <1>1, <1>2, <2>1, <2>2, StreamFacts DEF StreamSound
<1>4. deliveries[e] < MaxDeliver
  <2>1. deliveries[e] = 0
    BY <1>3 DEF StreamSound
  <2>2. QED
    BY <2>1, NotificationSubscriberAssumption
<1>5. next \in Nat /\ next' \in 1..(Len(stream) + 1)
  BY <1>2, StreamFacts
<1>6. /\ TypeOK'
      /\ Published' = Published
      /\ status'[e] = "inflight" /\ (\A f \in Event : f # e => status'[f] = status[f])
      /\ \A f \in Event : f # e => deliveries'[f] = deliveries[f]
      /\ WorkSound' /\ AckedIsDone' /\ PushedIsRecorded'
      /\ \A p \in pushed' : p[1] \in Published'
      /\ RowsPaidFor'
  BY <1>2, <1>4, <1>5, HandFacts
<1>7. StreamSound'
  <2>1. \A k \in DOMAIN stream : k # next => stream[k] # e /\ stream[k] \in Event
    BY <1>1, <1>2, StreamFacts DEF StreamSound
  <2>2. \A k \in DOMAIN stream : k \in Nat
    BY StreamFacts
  <2>3. \A k \in DOMAIN stream : k < next + 1 => status'[stream[k]] # "pending"
    BY <1>1, <1>5, <1>6, <2>1, <2>2 DEF StreamSound
  <2>4. \A k \in DOMAIN stream : k >= next + 1 => status'[stream[k]] = "pending"
    BY <1>3, <1>5, <1>6, <2>1, <2>2 DEF StreamSound
  <2>5. QED
    BY <1>2, <1>3, <1>6, <2>3, <2>4 DEF StreamSound
<1>8. QED
  BY <1>6, <1>7

\* A message is delivered again only while it may be.
LEMMA RedeliverStep ==
    ASSUME SubscriberInv, NEW e \in Event, Redeliver(e)
    PROVE  SubscriberInv'
<1> USE DEF SubscriberInv
<1>1. /\ status[e] = "redeliver" /\ Hand(e)
      /\ UNCHANGED <<stream, message, consumer, next, subscriber, work, roster, records, pushed,
                     listed, missed, crashes>>
  BY DEF Redeliver, published, history
<1>2. consumer /\ e \in Published /\ deliveries[e] < MaxDeliver
  BY <1>1 DEF StreamSound
<1>3. next' \in 1..(Len(stream) + 1)
  BY <1>1 DEF TypeOK
<1>4. /\ TypeOK'
      /\ Published' = Published
      /\ status'[e] = "inflight" /\ (\A f \in Event : f # e => status'[f] = status[f])
      /\ \A f \in Event : f # e => deliveries'[f] = deliveries[f]
      /\ WorkSound' /\ AckedIsDone' /\ PushedIsRecorded'
      /\ \A p \in pushed' : p[1] \in Published'
      /\ RowsPaidFor'
  BY <1>1, <1>2, <1>3, HandFacts
<1>5. StreamSound'
  <2>1. \A k \in DOMAIN stream : stream[k] \in Event
    BY StreamFacts
  <2>2. consumer => \A k \in DOMAIN stream : k >= next => stream[k] # e
    BY <1>1 DEF StreamSound
  <2>3. QED
    BY <1>1, <1>2, <1>4, <2>1, <2>2 DEF StreamSound
<1>6. QED
  BY <1>4, <1>5

\* What becomes of a delivered message leaves the rest of the stream as it is.
LEMMA SettleFacts ==
    ASSUME SubscriberInv, NEW e \in Event, status[e] \in {"inflight", "redeliver"},
           NEW s \in {"redeliver", "acked", "exhausted"}, status' = [status EXCEPT ![e] = s],
           s = "redeliver" => deliveries[e] < MaxDeliver,
           UNCHANGED <<stream, message, consumer, next, deliveries, subscriber>>
    PROVE  /\ Published' = Published
           /\ StreamSound'
           /\ status' \in [Event -> {"none", "pending", "inflight", "redeliver", "acked",
                                     "exhausted", "expired"}]
           /\ status'[e] = s /\ \A f \in Event : f # e => status'[f] = status[f]
<1> USE DEF SubscriberInv
<1>1. status'[e] = s /\ \A f \in Event : f # e => status'[f] = status[f]
  BY DEF TypeOK
<1>2. status' \in [Event -> {"none", "pending", "inflight", "redeliver", "acked",
                             "exhausted", "expired"}]
  BY DEF TypeOK
<1>3. Published' = Published
  BY DEF Published
<1>4. StreamSound'
  <2>1. \A k \in DOMAIN stream : stream[k] \in Event
    BY StreamFacts
  <2>2. consumer => \A k \in DOMAIN stream : k >= next => stream[k] # e
    BY DEF StreamSound
  <2>3. QED
    BY <1>1, <1>3, <2>1, <2>2 DEF StreamSound
<1>5. QED
  BY <1>1, <1>2, <1>3, <1>4

\* A late handling is delivered again or has used up its deliveries.
LEMMA AckTimeoutStep ==
    ASSUME SubscriberInv, NEW e \in Event, AckTimeout(e)
    PROVE  SubscriberInv'
<1> USE DEF SubscriberInv
<1>1. /\ status[e] = "inflight" /\ status' = [status EXCEPT ![e] = Again(e)]
      /\ UNCHANGED <<stream, message, consumer, next, deliveries, subscriber, buffer, work,
                     roster, records, pushed, listed, missed, crashes>>
  BY DEF AckTimeout, published, history
<1>2. Again(e) \in {"redeliver", "exhausted"} /\ (Again(e) = "redeliver" => deliveries[e] < MaxDeliver)
  BY DEF Again
<1>3. /\ Published' = Published /\ StreamSound'
      /\ status' \in [Event -> {"none", "pending", "inflight", "redeliver", "acked",
                                "exhausted", "expired"}]
      /\ status'[e] = Again(e) /\ \A f \in Event : f # e => status'[f] = status[f]
  BY <1>1, <1>2, SettleFacts
<1>4. TypeOK'
  BY <1>1, <1>3 DEF TypeOK
<1>5. /\ WorkSound' /\ AckedIsDone' /\ PushedIsRecorded'
      /\ \A p \in pushed' : p[1] \in Published'
      /\ \A f, u : Due(f, u)' = Due(f, u)
  BY <1>1, <1>2, <1>3, KeepsWork
<1>6. RowsPaidFor'
  BY <1>1, <1>5 DEF RowsPaidFor, Waiting, Positions
<1>7. QED
  BY <1>3, <1>4, <1>5, <1>6

\* What the stream drops is settled, and the consumer is past it.
LEMMA ExpireStep ==
    ASSUME SubscriberInv, NEW k \in DOMAIN stream, Expire(k)
    PROVE  SubscriberInv'
<1> USE DEF SubscriberInv
<1> DEFINE old(e) == /\ \E j \in 1..k : stream[j] = e
                     /\ status[e] \in {"pending", "inflight", "redeliver"}
<1>1. /\ consumer /\ subscriber \in {"starting", "dead"}
      /\ status' = [e \in Event |-> IF old(e) THEN "expired" ELSE status[e]]
      /\ next' = IF k < next THEN next ELSE k + 1
      /\ UNCHANGED <<stream, message, consumer, deliveries, subscriber, buffer, work,
                     roster, records, pushed, listed, missed, crashes>>
  BY DEF Expire, published, history
<1>2. /\ k \in 1..Len(stream) /\ Len(stream) \in Nat /\ DOMAIN stream = 1..Len(stream)
      /\ next \in 1..(Len(stream) + 1) /\ next' \in 1..(Len(stream) + 1)
  <2>1. Len(stream) \in Nat /\ DOMAIN stream = 1..Len(stream) /\ next \in 1..(Len(stream) + 1)
    BY StreamFacts
  <2>2. k \in 1..Len(stream)
    BY <2>1
  <2>3. QED
    BY <1>1, <2>1, <2>2
<1>3. /\ status' \in [Event -> {"none", "pending", "inflight", "redeliver", "acked",
                                "exhausted", "expired"}]
      /\ \A e \in Event : status'[e] = IF old(e) THEN "expired" ELSE status[e]
  BY <1>1 DEF TypeOK
<1>4. \A j \in DOMAIN stream : stream[j] \in Event /\ (old(stream[j]) => j <= k)
  BY <1>2, StreamFacts DEF StreamSound
<1>5. \A j \in 1..k : status[stream[j]] = "pending" => old(stream[j])
  OBVIOUS
<1>6. \A e \in Event : status'[e] = status[e] \/ (status'[e] = "expired" /\ status[e] # "none")
  BY <1>3
<1> HIDE DEF old
<1>7. Published' = Published
  BY <1>1 DEF Published
<1>8. StreamSound'
  <2>1. \A j \in DOMAIN stream : j < next' => status'[stream[j]] # "pending"
    BY <1>1, <1>2, <1>3, <1>4, <1>5 DEF StreamSound
  <2>2. \A j \in DOMAIN stream : j >= next' => status'[stream[j]] = "pending"
    BY <1>1, <1>2, <1>3, <1>4 DEF StreamSound
  <2>3. QED
    BY <1>1, <1>6, <1>7, <2>1, <2>2 DEF StreamSound
<1>9. TypeOK'
  BY <1>1, <1>2, <1>3, <1>7 DEF TypeOK
<1>10. /\ WorkSound' /\ AckedIsDone' /\ PushedIsRecorded'
       /\ \A p \in pushed' : p[1] \in Published'
       /\ \A f, u : Due(f, u)' = Due(f, u)
  BY <1>1, <1>6, KeepsWork
<1>11. RowsPaidFor'
  BY <1>1, <1>10 DEF RowsPaidFor, Waiting, Positions
<1>12. QED
  BY <1>8, <1>9, <1>10, <1>11

\* A consumer is created at the end of the stream, or resumed where it was.
LEMMA StartStep ==
    ASSUME SubscriberInv, NEW o \in Outcome, Start(o)
    PROVE  SubscriberInv'
<1> USE DEF SubscriberInv
<1>1. /\ subscriber = "starting"
      /\ subscriber' = IF o = "ok" THEN "up" ELSE "dead"
      /\ consumer' = (consumer \/ Applied(o))
      /\ next' = IF consumer THEN next ELSE Len(stream) + 1
      /\ UNCHANGED <<stream, message, status, deliveries, buffer, work, roster, records,
                     pushed, listed, missed, crashes>>
  BY DEF Start, published, history
<1>2. /\ Len(stream) \in Nat /\ DOMAIN stream = 1..Len(stream)
      /\ next' \in 1..(Len(stream) + 1)
      /\ \A j \in DOMAIN stream : stream[j] \in Event
  BY <1>1, StreamFacts DEF TypeOK
<1>3. Published' = Published
  BY <1>1 DEF Published
<1>4. TypeOK'
  <2>1. consumer' \in BOOLEAN
    BY <1>1 DEF TypeOK
  <2>2. subscriber' \in {"starting", "up", "dead", "stopping"}
    BY <1>1
  <2>3. QED
    BY <1>1, <1>2, <1>3, <2>1, <2>2 DEF TypeOK
<1>5. StreamSound'
  <2>1. CASE consumer
    <3>1. consumer' /\ next' = next
      BY <1>1, <2>1
    <3>2. QED
      BY <1>1, <1>3, <2>1, <3>1 DEF StreamSound
  <2>2. CASE ~consumer
    <3>1. \A e \in Event : status[e] = "none"
      BY <2>2 DEF StreamSound
    <3>2. \A j \in DOMAIN stream : ~(j >= next')
      BY <1>1, <1>2, <2>2
    <3>3. subscriber' \in {"up", "stopping"} => consumer'
      BY <1>1 DEF Applied
    <3>4. QED
      BY <1>1, <1>2, <1>3, <3>1, <3>2, <3>3 DEF StreamSound
  <2>3. QED
    BY <2>1, <2>2
<1>6. /\ WorkSound' /\ AckedIsDone' /\ PushedIsRecorded'
      /\ \A p \in pushed' : p[1] \in Published'
      /\ \A f, u : Due(f, u)' = Due(f, u)
  BY <1>1, KeepsWork
<1>7. RowsPaidFor'
  BY <1>1, <1>6 DEF RowsPaidFor, Waiting, Positions
<1>8. QED
  BY <1>4, <1>5, <1>6, <1>7

\* Being told to stop changes nothing yet.
LEMMA ShutdownStep ==
    ASSUME SubscriberInv, Shutdown
    PROVE  SubscriberInv'
<1> USE DEF SubscriberInv
<1>1. /\ subscriber = "up" /\ subscriber' = "stopping"
      /\ crashes < MaxCrashes /\ crashes' = crashes + 1
      /\ UNCHANGED <<stream, message, consumer, next, status, deliveries, buffer, work,
                     roster, records, pushed, listed, missed>>
  BY DEF Shutdown, published, jetstream
<1>2. Published' = Published
  BY <1>1 DEF Published
<1>3. TypeOK'
  BY <1>1, <1>2, NotificationSubscriberAssumption DEF TypeOK
<1>4. StreamSound'
  BY <1>1, <1>2 DEF StreamSound
<1>5. /\ WorkSound' /\ AckedIsDone' /\ PushedIsRecorded'
      /\ \A p \in pushed' : p[1] \in Published'
      /\ \A f, u : Due(f, u)' = Due(f, u)
  BY <1>1, KeepsWork
<1>6. RowsPaidFor'
  BY <1>1, <1>5 DEF RowsPaidFor, Waiting, Positions
<1>7. QED
  BY <1>3, <1>4, <1>5, <1>6

(***************************************************************************)
(* The steps of a handling.                                                *)
(***************************************************************************)

\* More rows, and more members known to be missed, undo nothing.
LEMMA RowsGrow ==
    ASSUME SubscriberInv, UNCHANGED <<stream, message, status, listed>>,
           \A r \in Event \X User : records[r] > 0 => records'[r] > 0,
           missed \subseteq missed'
    PROVE  /\ Published' = Published
           /\ AckedIsDone'
           /\ \A e \in Published : Done(e) => Done(e)'
           /\ pushed' = pushed => /\ PushedIsRecorded'
                                 /\ \A p \in pushed' : p[1] \in Published'
<1> USE DEF SubscriberInv
<1>1. Published' = Published /\ \A e, t : Readable(e, t)' = Readable(e, t)
  BY DEF Published, Readable
<1>2. Published \subseteq Event /\ \A e \in Published : message[e].user \in User
  BY StreamFacts DEF TypeOK, Message
<1>3. \A e \in Published : Done(e) => Done(e)'
  BY <1>1, <1>2 DEF Done
<1>4. AckedIsDone'
  BY <1>1, <1>3 DEF AckedIsDone, Done
<1>5. pushed \subseteq Event \X User
  BY DEF TypeOK
<1>6. pushed' = pushed => PushedIsRecorded' /\ \A p \in pushed' : p[1] \in Published'
  BY <1>1, <1>5 DEF PushedIsRecorded
<1>7. QED
  BY <1>1, <1>3, <1>4, <1>6

\* Save writes the row that was due, at most once.
LEMMA RecordFacts ==
    ASSUME SubscriberInv, NEW e \in Event, NEW u \in User, NEW o \in Outcome,
           Record(e, u, o), Due(e, u) = 1
    PROVE  /\ records' \in [Event \X User -> 0..MaxDeliver]
           /\ records'[<<e, u>>] \in {records[<<e, u>>], records[<<e, u>>] + 1}
           /\ \A f \in Event, v \in User : <<f, v>> # <<e, u>> => records'[<<f, v>>] = records[<<f, v>>]
           /\ o # "lost" => records'[<<e, u>>] > 0
           /\ \A r \in Event \X User : records[r] > 0 => records'[r] > 0
<1> USE DEF SubscriberInv
<1> DEFINE r == <<e, u>>
<1>1. records' = IF Applied(o) THEN [records EXCEPT ![r] = @ + 1] ELSE records
  BY DEF Record
<1>2. r \in Event \X User
  OBVIOUS
<1>3. records[r] \in Nat /\ records[r] + 1 \in 0..MaxDeliver
  <2>1. records[r] + 1 + Waiting(e) <= deliveries[e]
    BY CountFacts DEF RowsPaidFor
  <2>2. deliveries[e] <= MaxDeliver
    BY NotificationSubscriberAssumption DEF TypeOK
  <2>3. QED
    BY <2>1, <2>2, CountFacts, NotificationSubscriberAssumption
<1> HIDE DEF r
<1>4. records' \in [Event \X User -> 0..MaxDeliver]
  BY <1>1, <1>2, <1>3 DEF TypeOK
<1>5. /\ records'[r] \in {records[r], records[r] + 1}
      /\ o # "lost" => records'[r] = records[r] + 1
      /\ \A q \in Event \X User : q # r => records'[q] = records[q]
  BY <1>1, <1>2 DEF TypeOK, Applied
<1>6. \A q \in Event \X User : records[q] > 0 => records'[q] > 0
  BY <1>3, <1>5
<1>7. QED
  BY <1>3, <1>4, <1>5, <1>6 DEF r

\* The callback takes the next delivery.
LEMMA BeginStep ==
    ASSUME SubscriberInv, Begin
    PROVE  SubscriberInv'
<1> USE DEF SubscriberInv
<1>1. PICK e \in Published : e = Head(buffer)
  BY StreamFacts DEF Begin
<1>2. /\ work = NoWork /\ buffer # <<>> /\ buffer' = Tail(buffer)
      /\ work' = [pc |-> First(message[e]), event |-> e]
      /\ UNCHANGED <<stream, message, consumer, next, status, deliveries, subscriber, roster,
                     records, pushed, listed, missed, crashes>>
  BY <1>1 DEF Begin, published, jetstream, history
<1>3. e \in Event /\ message[e] \in Message
  BY StreamFacts DEF TypeOK
<1>4. /\ First(message[e]) \in {"save", "realtime", "ack"}
      /\ First(message[e]) = "save" => Readable(e, "member_added")
      /\ First(message[e]) = "realtime" => Readable(e, "group_deleted")
      /\ First(message[e]) = "ack" => Done(e)
  BY DEF First, Readable, Done
<1>5. work' \in Work /\ work'.event = e /\ work'.pc = First(message[e]) /\ work' # NoWork
  BY <1>2, <1>3, <1>4 DEF Work, NoWork
<1>6. Published' = Published /\ StreamSound'
  BY <1>2, KeepsStream
<1>7. TypeOK'
  <2>1. buffer' \in Seq(Published')
    BY <1>2, <1>6, StreamFacts
  <2>2. QED
    BY <1>2, <1>5, <1>6, <2>1 DEF TypeOK
<1>8. /\ AckedIsDone' /\ PushedIsRecorded'
      /\ \A p \in pushed' : p[1] \in Published'
      /\ Done(e) => Done(e)'
  BY <1>2, RowsGrow
<1>9. WorkSound'
  BY <1>2, <1>4, <1>5, <1>6, <1>8 DEF WorkSound, Readable
<1>10. RowsPaidFor'
  <2>1. Waiting(e)' = Waiting(e) - 1 /\ \A f : f # e => Waiting(f)' = Waiting(f)
    <3>1. buffer \in Seq(Published)
      BY DEF TypeOK
    <3>2. QED
      BY <1>1, <1>2, <3>1, TailCounts
  <2>2. \A f, u : Due(f, u)' \in {0, 1} /\ (f # e => Due(f, u)' = 0)
    BY <1>5 DEF Due
  <2>3. ASSUME NEW f \in Event, NEW u \in User
        PROVE  records[<<f, u>>] + Due(f, u)' + Waiting(f)' <= deliveries[f]
    <3>1. records[<<f, u>>] + Due(f, u) + Waiting(f) <= deliveries[f]
      BY DEF RowsPaidFor
    <3>2. CASE f = e
      BY <2>1, <2>2, <3>1, <3>2, CountFacts
    <3>3. CASE f # e
      BY <2>1, <2>2, <3>1, <3>3, CountFacts
    <3>4. QED
      BY <3>2, <3>3
  <2>4. QED
    BY <1>2, <2>3 DEF RowsPaidFor
<1>11. QED
  BY <1>6, <1>7, <1>8, <1>9, <1>10

\* With the end of a handling, or of the process, nothing is due any more.
LEMMA NothingDue ==
    ASSUME SubscriberInv, UNCHANGED <<records, deliveries>>,
           \A e, u : Due(e, u)' = 0 \/ Due(e, u)' = Due(e, u),
           \A e \in Event : Waiting(e)' = 0 \/ Waiting(e)' = Waiting(e)
    PROVE  RowsPaidFor'
<1> SUFFICES ASSUME NEW e \in Event, NEW u \in User
             PROVE  records[<<e, u>>] + Due(e, u)' + Waiting(e)' <= deliveries[e]
  BY DEF RowsPaidFor
<1>1. records[<<e, u>>] + Due(e, u) + Waiting(e) <= deliveries[e]
  BY DEF SubscriberInv, RowsPaidFor
<1>2. QED
  BY <1>1, CountFacts DEF SubscriberInv

\* Going to another call that writes no row: nothing new is due.
LEMMA GoToFacts ==
    ASSUME SubscriberInv, work # NoWork, NEW pc \in {"push", "list", "ack", "nak"}, GoTo(pc),
           pc = "list" => work.pc = "realtime"
    PROVE  /\ work' \in Work /\ work'.pc = pc /\ work'.event = work.event /\ work' # NoWork
           /\ message' = message => \A e, u : Due(e, u)' = 0 \/ Due(e, u)' = Due(e, u)
<1> USE DEF SubscriberInv
<1>1. work' = [pc |-> pc, event |-> work.event] /\ work.event \in Event
  BY WorkFacts DEF GoTo
<1>2. work' \in Work /\ work'.pc = pc /\ work'.event = work.event /\ work' # NoWork
  BY <1>1 DEF Work, NoWork
<1>3. message' = message => \A e, u : Due(e, u)' = 0 \/ Due(e, u)' = Due(e, u)
  BY <1>2 DEF Due
<1>4. QED
  BY <1>2, <1>3

\* The row of an added member is written, or the handling ends with a nak.
LEMMA SaveRowStep ==
    ASSUME SubscriberInv, NEW o \in Outcome, SaveRow(o)
    PROVE  SubscriberInv'
<1> USE DEF SubscriberInv
<1>1. PICK e \in Published : e = work.event
  BY DEF SaveRow, WorkSound, NoWork
<1>2. PICK v \in User : v = message[e].user
  BY DEF TypeOK, Message
<1>3. /\ work.pc = "save" /\ Record(e, v, o) /\ GoTo(IF o = "ok" THEN "push" ELSE "nak")
      /\ UNCHANGED <<stream, message, consumer, next, status, deliveries, subscriber, buffer,
                     roster, pushed, listed, missed, crashes>>
  BY <1>1, <1>2 DEF SaveRow, published, jetstream, history
<1>4. work # NoWork /\ e \in Event /\ Due(e, v) = 1
  BY <1>1, <1>2, <1>3, StreamFacts DEF Due, NoWork
<1>5. /\ records' \in [Event \X User -> 0..MaxDeliver]
      /\ records'[<<e, v>>] \in {records[<<e, v>>], records[<<e, v>>] + 1}
      /\ \A f \in Event, u \in User : <<f, u>> # <<e, v>> => records'[<<f, u>>] = records[<<f, u>>]
      /\ o # "lost" => records'[<<e, v>>] > 0
      /\ \A r \in Event \X User : records[r] > 0 => records'[r] > 0
  BY <1>3, <1>4, RecordFacts
<1>6. /\ work' \in Work /\ work'.pc = (IF o = "ok" THEN "push" ELSE "nak")
      /\ work'.event = e /\ work' # NoWork
  BY <1>1, <1>3, <1>4, GoToFacts
<1>7. Published' = Published /\ StreamSound'
  BY <1>3, KeepsStream
<1>8. TypeOK'
  BY <1>3, <1>5, <1>6, <1>7 DEF TypeOK
<1>9. AckedIsDone' /\ PushedIsRecorded' /\ \A p \in pushed' : p[1] \in Published'
  BY <1>3, <1>5, RowsGrow
<1>10. WorkSound'
  BY <1>1, <1>2, <1>3, <1>5, <1>6, <1>7 DEF WorkSound, Readable
<1>11. RowsPaidFor'
  <2>1. \A f : Waiting(f)' = Waiting(f)
    BY <1>3 DEF Waiting, Positions
  <2>2. \A f, u : Due(f, u)' = 0
    BY <1>6 DEF Due
  <2>3. ASSUME NEW f \in Event, NEW u \in User
        PROVE  records'[<<f, u>>] + 0 + Waiting(f) <= deliveries[f]
    <3>1. records[<<f, u>>] + Due(f, u) + Waiting(f) <= deliveries[f]
      BY DEF RowsPaidFor
    <3>2. CASE <<f, u>> = <<e, v>>
      BY <1>4, <1>5, <3>1, <3>2, CountFacts
    <3>3. CASE <<f, u>> # <<e, v>>
      BY <1>5, <3>1, <3>3, CountFacts
    <3>4. QED
      BY <3>2, <3>3
  <2>4. QED
    BY <1>3, <2>1, <2>2, <2>3 DEF RowsPaidFor
<1>12. QED
  BY <1>7, <1>8, <1>9, <1>10, <1>11

\* Push comes after the row.
LEMMA PushUserStep ==
    ASSUME SubscriberInv, NEW o \in Outcome, PushUser(o)
    PROVE  SubscriberInv'
<1> USE DEF SubscriberInv
<1>1. PICK e \in Published : e = work.event
  BY DEF PushUser, WorkSound, NoWork
<1>2. PICK v \in User : v = message[e].user
  BY DEF TypeOK, Message
<1>3. /\ work.pc = "push" /\ GoTo("ack") /\ work # NoWork /\ e \in Event
      /\ pushed \subseteq pushed' /\ pushed' \subseteq pushed \cup {<<e, v>>}
      /\ UNCHANGED <<stream, message, consumer, next, status, deliveries, subscriber, buffer,
                     roster, records, listed, missed, crashes>>
  BY <1>1, <1>2, StreamFacts DEF PushUser, Push, NoWork, published, jetstream, history
<1>4. Readable(e, "member_added") /\ records[<<e, v>>] > 0
  BY <1>1, <1>2, <1>3 DEF WorkSound
<1>5. /\ work' \in Work /\ work'.pc = "ack" /\ work'.event = e /\ work' # NoWork
      /\ \A f, u : Due(f, u)' = 0 \/ Due(f, u)' = Due(f, u)
  BY <1>1, <1>3, GoToFacts
<1>6. Published' = Published /\ StreamSound'
  BY <1>3, KeepsStream
<1>7. TypeOK'
  BY <1>3, <1>5, <1>6 DEF TypeOK
<1>8. Done(e)
  BY <1>2, <1>4 DEF Done, Readable
<1>9. AckedIsDone' /\ (Done(e) => Done(e)')
  BY <1>3, RowsGrow
<1>10. WorkSound'
  BY <1>5, <1>6, <1>8, <1>9 DEF WorkSound
<1>11. PushedIsRecorded' /\ \A p \in pushed' : p[1] \in Published'
  <2>1. <<e, v>>[1] = e /\ <<e, v>>[2] = v
    OBVIOUS
  <2>2. QED
    BY <1>2, <1>3, <1>4, <1>6, <2>1 DEF PushedIsRecorded, Readable
<1>12. RowsPaidFor'
  BY <1>3, <1>5, NothingDue DEF Waiting, Positions
<1>13. QED
  BY <1>6, <1>7, <1>9, <1>10, <1>11, <1>12

\* A step of SendToGroup that does nothing but go on.
LEMMA OnwardStep ==
    ASSUME SubscriberInv, Realtime \/ Wait
    PROVE  SubscriberInv'
<1> USE DEF SubscriberInv
<1>1. PICK e \in Published : e = work.event
  BY DEF Realtime, Wait, WorkSound, NoWork
<1>2. /\ work # NoWork /\ Readable(e, "group_deleted")
      /\ UNCHANGED <<stream, message, consumer, next, status, deliveries, subscriber, buffer,
                     roster, records, pushed, listed, missed, crashes>>
  BY <1>1 DEF Realtime, Wait, WorkSound, NoWork, published, jetstream, history
<1>3. /\ work' \in Work /\ work'.event = e /\ work' # NoWork
      /\ work'.pc = "list" \/ (work'.pc = "ack" /\ Wait)
      /\ \A f, u : Due(f, u)' = 0 \/ Due(f, u)' = Due(f, u)
  <2>1. CASE Realtime
    BY <1>1, <1>2, <2>1, GoToFacts DEF Realtime
  <2>2. CASE Wait
    BY <1>1, <1>2, <2>2, GoToFacts DEF Wait
  <2>3. QED
    BY <2>1, <2>2
<1>4. Wait => Done(e)
  <2> SUFFICES ASSUME Wait
               PROVE  \A u \in User : <<e, u>> \in listed =>
                         records[<<e, u>>] > 0 \/ <<e, u>> \in missed
    BY <1>2 DEF Done, Readable
  <2>1. work.todo = {} /\ work.saving = {} /\ work.pc = "fanout"
    BY DEF Wait
  <2>2. QED
    BY <1>1, <2>1 DEF WorkSound
<1>5. Published' = Published /\ StreamSound'
  BY <1>2, KeepsStream
<1>6. TypeOK'
  BY <1>2, <1>3, <1>5 DEF TypeOK
<1>7. /\ AckedIsDone' /\ PushedIsRecorded' /\ (Done(e) => Done(e)')
      /\ \A p \in pushed' : p[1] \in Published'
  BY <1>2, RowsGrow
<1>8. WorkSound'
  BY <1>2, <1>3, <1>4, <1>5, <1>7 DEF WorkSound, Readable
<1>9. RowsPaidFor'
  BY <1>2, <1>3, NothingDue DEF Waiting, Positions
<1>10. QED
  BY <1>5, <1>6, <1>7, <1>8, <1>9

\* A fan-out owes a row to each member it was given.
LEMMA ListGroupMembersStep ==
    ASSUME SubscriberInv, NEW o \in Outcome, ListGroupMembers(o)
    PROVE  SubscriberInv'
<1> USE DEF SubscriberInv
<1>1. PICK e \in Published : e = work.event
  BY DEF ListGroupMembers, WorkSound, NoWork
<1>2. /\ work.pc = "list" /\ work # NoWork /\ e \in Event /\ Readable(e, "group_deleted")
      /\ UNCHANGED <<stream, message, consumer, next, status, deliveries, subscriber, buffer,
                     roster, records, pushed, crashes>>
  BY <1>1, StreamFacts DEF ListGroupMembers, WorkSound, NoWork, published, jetstream
<1>3. Published' = Published /\ StreamSound'
  BY <1>2, KeepsStream
<1>4. PushedIsRecorded' /\ \A p \in pushed' : p[1] \in Published'
  BY <1>2, <1>3 DEF PushedIsRecorded, Readable
<1>5. \/ /\ o = "ok" /\ status[e] # "acked"
         /\ listed' = (listed \ Of(e)) \cup ({e} \X roster)
         /\ missed' = missed \ Of(e)
      \/ /\ o = "ok" => status[e] = "acked"
         /\ listed' = listed /\ missed' = missed
  BY <1>1 DEF ListGroupMembers
<1>6. /\ listed' \subseteq Event \X User /\ missed' \subseteq listed'
      /\ \A f \in Event, u \in User : f # e \/ status[e] = "acked" =>
            (<<f, u>> \in listed' <=> <<f, u>> \in listed) /\
            (<<f, u>> \in missed' <=> <<f, u>> \in missed)
  BY <1>2, <1>5 DEF TypeOK, Of
<1>7. AckedIsDone'
  BY <1>2, <1>3, <1>6, StreamFacts DEF AckedIsDone, Readable
<1>8. /\ work' \in Work /\ work'.event = e /\ work' # NoWork
      /\ o # "ok" => work'.pc = "nak"
      /\ o = "ok" => /\ work'.pc = "fanout" /\ work'.todo = roster
                     /\ work'.saving = {} /\ work'.pushing = {}
      /\ \A f, u : Due(f, u)' = 0 \/ Due(f, u)' = Due(f, u)
  <2>1. CASE o = "ok"
    <3>1. work' = [pc |-> "fanout", event |-> e, todo |-> roster, saving |-> {}, pushing |-> {}]
      BY <1>1, <2>1 DEF ListGroupMembers
    <3>2. /\ work' \in Work /\ work'.event = e /\ work' # NoWork /\ work'.pc = "fanout"
          /\ work'.todo = roster /\ work'.saving = {} /\ work'.pushing = {}
      BY <1>2, <3>1 DEF Work, NoWork, TypeOK
    <3>3. \A f, u : Due(f, u)' = 0 \/ Due(f, u)' = Due(f, u)
      BY <1>1, <1>2, <3>2 DEF Due
    <3>4. QED
      BY <2>1, <3>2, <3>3
  <2>2. CASE o # "ok"
    BY <1>1, <1>2, <2>2, GoToFacts DEF ListGroupMembers
  <2>3. QED
    BY <2>1, <2>2
<1>9. TypeOK'
  BY <1>2, <1>3, <1>6, <1>8 DEF TypeOK
<1>10. WorkSound'
  <2>1. ASSUME o = "ok", NEW u \in User, <<e, u>> \in listed'
        PROVE  u \in roster \/ records[<<e, u>>] > 0 \/ <<e, u>> \in missed'
    <3>1. CASE status[e] = "acked"
      BY <1>2, <1>6, <2>1, <3>1 DEF AckedIsDone
    <3>2. CASE status[e] # "acked"
      BY <1>5, <2>1, <3>2 DEF Of
    <3>3. QED
      BY <3>1, <3>2
  <2>2. QED
    BY <1>2, <1>3, <1>8, <2>1 DEF WorkSound, Readable
<1>11. RowsPaidFor'
  BY <1>2, <1>8, NothingDue DEF Waiting, Positions
<1>12. QED
  BY <1>3, <1>4, <1>7, <1>9, <1>10, <1>11

\* A member gets a goroutine, and is not given one again.
LEMMA SpawnStep ==
    ASSUME SubscriberInv, NEW u \in User, Spawn(u)
    PROVE  SubscriberInv'
<1> USE DEF SubscriberInv
<1>1. PICK e \in Published : e = work.event
  BY DEF Spawn, WorkSound, NoWork
<1>2. /\ work.pc = "fanout" /\ u \in work.todo
      /\ work' = [work EXCEPT !.todo = @ \ {u}, !.saving = @ \cup {u}]
      /\ UNCHANGED <<stream, message, consumer, next, status, deliveries, subscriber, buffer,
                     roster, records, pushed, listed, missed, crashes>>
  BY DEF Spawn, published, jetstream, history
<1>3. work \in [pc : {"fanout"}, event : Event, todo : SUBSET User,
               saving : SUBSET User, pushing : SUBSET User]
  BY <1>2, WorkFacts
<1>4. /\ work' \in [pc : {"fanout"}, event : Event, todo : SUBSET User,
                   saving : SUBSET User, pushing : SUBSET User]
      /\ work'.pc = "fanout" /\ work'.event = e
      /\ work'.todo = work.todo \ {u} /\ work'.saving = work.saving \cup {u}
      /\ work'.pushing = work.pushing
  BY <1>1, <1>2, <1>3
<1>5. work' # NoWork /\ work' \in Work /\ work # NoWork
  BY <1>2, <1>4 DEF NoWork, Work
<1>6. \A f, v : Due(f, v)' = Due(f, v)
  BY <1>1, <1>2, <1>4, <1>5 DEF Due
<1>7. Published' = Published /\ StreamSound'
  BY <1>2, KeepsStream
<1>8. TypeOK'
  BY <1>2, <1>5, <1>7 DEF TypeOK
<1>9. /\ AckedIsDone' /\ PushedIsRecorded'
      /\ \A p \in pushed' : p[1] \in Published'
  BY <1>2, RowsGrow
<1>10. WorkSound'
  BY <1>1, <1>2, <1>4, <1>5, <1>7 DEF WorkSound, Readable
<1>11. RowsPaidFor'
  BY <1>2, <1>6, NothingDue DEF Waiting, Positions
<1>12. QED
  BY <1>7, <1>8, <1>9, <1>10, <1>11

\* A goroutine writes the row of its member, or notes that it could not.
LEMMA MemberSaveStep ==
    ASSUME SubscriberInv, NEW u \in User, NEW o \in Outcome, MemberSave(u, o)
    PROVE  SubscriberInv'
<1> USE DEF SubscriberInv
<1>1. PICK e \in Published : e = work.event
  BY DEF MemberSave, WorkSound, NoWork
<1>2. /\ work.pc = "fanout" /\ u \in work.saving /\ Record(e, u, o) /\ e \in Event
      /\ work' = [work EXCEPT !.saving = @ \ {u},
                              !.pushing = IF o = "ok" THEN @ \cup {u} ELSE @]
      /\ missed' = IF o = "lost" /\ <<e, u>> \in listed THEN missed \cup {<<e, u>>} ELSE missed
      /\ UNCHANGED <<stream, message, consumer, next, status, deliveries, subscriber, buffer,
                     roster, pushed, listed, crashes>>
  BY <1>1, StreamFacts DEF MemberSave, published, jetstream
<1>3. work \in [pc : {"fanout"}, event : Event, todo : SUBSET User,
               saving : SUBSET User, pushing : SUBSET User]
  BY <1>2, WorkFacts
<1>4. /\ work' \in [pc : {"fanout"}, event : Event, todo : SUBSET User,
                   saving : SUBSET User, pushing : SUBSET User]
      /\ work'.pc = "fanout" /\ work'.event = e
      /\ work'.todo = work.todo /\ work'.saving = work.saving \ {u}
      /\ work'.pushing = IF o = "ok" THEN work.pushing \cup {u} ELSE work.pushing
  BY <1>1, <1>2, <1>3
<1>5. work' # NoWork /\ work' \in Work /\ work # NoWork
  BY <1>2, <1>4 DEF NoWork, Work
<1>6. u \notin work.todo /\ Due(e, u) = 1
  BY <1>1, <1>2, <1>5 DEF WorkSound, Due
<1>7. /\ records' \in [Event \X User -> 0..MaxDeliver]
      /\ records'[<<e, u>>] \in {records[<<e, u>>], records[<<e, u>>] + 1}
      /\ \A f \in Event, v \in User : <<f, v>> # <<e, u>> => records'[<<f, v>>] = records[<<f, v>>]
      /\ o # "lost" => records'[<<e, u>>] > 0
      /\ \A r \in Event \X User : records[r] > 0 => records'[r] > 0
  BY <1>2, <1>6, RecordFacts
<1>8. Due(e, u)' = 0 /\ \A f, v : <<f, v>> # <<e, u>> => Due(f, v)' = Due(f, v)
  <2>1. Due(e, u)' = 0
    BY <1>4, <1>5, <1>6 DEF Due
  <2>2. \A v : v # u => (v \in work'.todo \cup work'.saving <=> v \in work.todo \cup work.saving)
    BY <1>4
  <2>3. QED
    BY <1>1, <1>2, <1>4, <1>5, <2>1, <2>2 DEF Due
<1>9. Published' = Published /\ StreamSound'
  BY <1>2, KeepsStream
<1>10. missed \subseteq missed' /\ missed' \subseteq listed
  BY <1>2 DEF TypeOK
<1>11. TypeOK'
  BY <1>2, <1>5, <1>7, <1>9, <1>10 DEF TypeOK
<1>12. /\ AckedIsDone' /\ PushedIsRecorded'
       /\ \A p \in pushed' : p[1] \in Published'
  BY <1>2, <1>7, <1>10, RowsGrow
<1>13. WorkSound'
  <2>1. \A v \in work'.pushing : records'[<<e, v>>] > 0
    <3>1. \A v \in work.pushing : v \in User /\ records[<<e, v>>] > 0
      BY <1>1, <1>2, <1>3 DEF WorkSound
    <3>2. QED
      BY <1>2, <1>4, <1>7, <3>1
  <2>2. ASSUME NEW v \in User, <<e, v>> \in listed
        PROVE  v \in work'.todo \cup work'.saving \/ records'[<<e, v>>] > 0 \/ <<e, v>> \in missed'
    <3>1. CASE v = u
      BY <1>2, <1>7, <2>2, <3>1 DEF Outcome
    <3>2. CASE v # u
      BY <1>1, <1>2, <1>4, <1>7, <1>10, <2>2, <3>2 DEF WorkSound
    <3>3. QED
      BY <3>1, <3>2
  <2>3. work'.todo \cap work'.saving = {} /\ Readable(e, "group_deleted")
    BY <1>1, <1>2, <1>4 DEF WorkSound
  <2>4. QED
    BY <1>2, <1>4, <1>5, <1>9, <2>1, <2>2, <2>3 DEF WorkSound, Readable
<1>14. RowsPaidFor'
  <2>1. \A f : Waiting(f)' = Waiting(f)
    BY <1>2 DEF Waiting, Positions
  <2>2. ASSUME NEW f \in Event, NEW v \in User
        PROVE  records'[<<f, v>>] + Due(f, v)' + Waiting(f) <= deliveries[f]
    <3>1. records[<<f, v>>] + Due(f, v) + Waiting(f) <= deliveries[f]
      BY DEF RowsPaidFor
    <3>2. CASE <<f, v>> = <<e, u>>
      BY <1>6, <1>7, <1>8, <3>1, <3>2, CountFacts
    <3>3. CASE <<f, v>> # <<e, u>>
      BY <1>7, <1>8, <3>1, <3>3
    <3>4. QED
      BY <3>2, <3>3
  <2>3. QED
    BY <1>2, <2>1, <2>2 DEF RowsPaidFor
<1>15. QED
  BY <1>9, <1>11, <1>12, <1>13, <1>14

\* A goroutine pushes to the member whose row it wrote.
LEMMA MemberPushStep ==
    ASSUME SubscriberInv, NEW u \in User, NEW o \in Outcome, MemberPush(u, o)
    PROVE  SubscriberInv'
<1> USE DEF SubscriberInv
<1>1. PICK e \in Published : e = work.event
  BY DEF MemberPush, WorkSound, NoWork
<1>2. /\ work.pc = "fanout" /\ u \in work.pushing /\ e \in Event
      /\ work' = [work EXCEPT !.pushing = @ \ {u}]
      /\ pushed \subseteq pushed' /\ pushed' \subseteq pushed \cup {<<e, u>>}
      /\ UNCHANGED <<stream, message, consumer, next, status, deliveries, subscriber, buffer,
                     roster, records, listed, missed, crashes>>
  BY <1>1, StreamFacts DEF MemberPush, Push, published, jetstream, history
<1>3. work \in [pc : {"fanout"}, event : Event, todo : SUBSET User,
               saving : SUBSET User, pushing : SUBSET User]
  BY <1>2, WorkFacts
<1>4. /\ work' \in [pc : {"fanout"}, event : Event, todo : SUBSET User,
                   saving : SUBSET User, pushing : SUBSET User]
      /\ work'.pc = "fanout" /\ work'.event = e
      /\ work'.todo = work.todo /\ work'.saving = work.saving
      /\ work'.pushing = work.pushing \ {u}
  BY <1>1, <1>2, <1>3
<1>5. work' # NoWork /\ work' \in Work /\ work # NoWork
  BY <1>2, <1>4 DEF NoWork, Work
<1>6. \A f, v : Due(f, v)' = Due(f, v)
  BY <1>1, <1>2, <1>4, <1>5 DEF Due
<1>7. Published' = Published /\ StreamSound'
  BY <1>2, KeepsStream
<1>8. TypeOK'
  BY <1>2, <1>5, <1>7 DEF TypeOK
<1>9. AckedIsDone'
  BY <1>2, RowsGrow
<1>10. Readable(e, "group_deleted") /\ records[<<e, u>>] > 0
  BY <1>1, <1>2 DEF WorkSound
<1>11. PushedIsRecorded' /\ \A p \in pushed' : p[1] \in Published'
  <2>1. <<e, u>>[1] = e
    OBVIOUS
  <2>2. QED
    BY <1>2, <1>7, <1>10, <2>1 DEF PushedIsRecorded, Readable
<1>12. WorkSound'
  BY <1>1, <1>2, <1>4, <1>5, <1>7 DEF WorkSound, Readable
<1>13. RowsPaidFor'
  BY <1>2, <1>6, NothingDue DEF Waiting, Positions
<1>14. QED
  BY <1>7, <1>8, <1>9, <1>11, <1>12, <1>13

\* The handling ends: an ack says that it was done.
LEMMA EndStep ==
    ASSUME SubscriberInv, NEW o \in Outcome, Ack(o) \/ Nak(o)
    PROVE  SubscriberInv'
<1> USE DEF SubscriberInv
<1>1. PICK e \in Published : e = work.event
  BY DEF Ack, Nak, WorkSound, NoWork
<1>2. /\ work' = NoWork /\ e \in Event
      /\ UNCHANGED <<stream, message, consumer, next, deliveries, subscriber, buffer,
                     roster, records, pushed, listed, missed, crashes>>
  BY <1>1, StreamFacts DEF Ack, Nak, published, history
<1>3. Again(e) \in {"redeliver", "exhausted"} /\ (Again(e) = "redeliver" => deliveries[e] < MaxDeliver)
  BY DEF Again
<1>4. \/ status' = status
      \/ /\ work.pc = "ack" /\ status[e] \in {"inflight", "redeliver"}
         /\ status' = [status EXCEPT ![e] = "acked"]
      \/ /\ status[e] = "inflight"
         /\ status' = [status EXCEPT ![e] = Again(e)]
  BY <1>1 DEF Ack, Nak
<1>5. /\ Published' = Published /\ StreamSound'
      /\ status' \in [Event -> {"none", "pending", "inflight", "redeliver", "acked",
                                "exhausted", "expired"}]
      /\ \A f \in Event : status'[f] = "acked" => status[f] = "acked" \/ (f = e /\ work.pc = "ack")
  <2>1. CASE status' = status
    BY <1>2, <2>1, KeepsStream DEF TypeOK
  <2>2. CASE /\ work.pc = "ack" /\ status[e] \in {"inflight", "redeliver"}
             /\ status' = [status EXCEPT ![e] = "acked"]
    BY <1>2, <2>2, SettleFacts
  <2>3. CASE status[e] = "inflight" /\ status' = [status EXCEPT ![e] = Again(e)]
    BY <1>2, <1>3, <2>3, SettleFacts
  <2>4. QED
    BY <1>4, <2>1, <2>2, <2>3
<1>6. TypeOK'
  BY <1>2, <1>5 DEF TypeOK
<1>7. AckedIsDone'
  <2>1. work.pc = "ack" => Done(e)
    BY <1>1 DEF WorkSound
  <2>2. \A f \in Published : status'[f] = "acked" => Done(f)
    BY <1>5, <2>1, StreamFacts DEF AckedIsDone, Done
  <2>3. QED
    BY <1>2, <1>5, <2>2 DEF AckedIsDone, Done, Readable
<1>8. PushedIsRecorded' /\ \A p \in pushed' : p[1] \in Published'
  BY <1>2, <1>5 DEF PushedIsRecorded, Readable
<1>9. WorkSound'
  BY <1>2 DEF WorkSound, NoWork
<1>10. RowsPaidFor'
  <2>1. \A f, u : Due(f, u)' = 0
    BY <1>2 DEF Due
  <2>2. QED
    BY <1>2, <2>1, NothingDue DEF Waiting, Positions
<1>11. QED
  BY <1>5, <1>6, <1>7, <1>8, <1>9, <1>10

\* The end of the process takes the handling and the buffer with it.
LEMMA StopStep ==
    ASSUME SubscriberInv, Crash \/ Exit
    PROVE  SubscriberInv'
<1> USE DEF SubscriberInv
<1>1. /\ work' = NoWork /\ buffer' = <<>> /\ subscriber' = "starting"
      /\ crashes' \in 0..MaxCrashes
      /\ UNCHANGED <<stream, message, consumer, next, status, deliveries,
                     roster, records, pushed, listed, missed>>
  <2>1. CASE Crash
    BY <2>1, NotificationSubscriberAssumption DEF Crash, TypeOK, published, jetstream
  <2>2. CASE Exit
    BY <2>2 DEF Exit, TypeOK, published, jetstream, history
  <2>3. QED
    BY <2>1, <2>2
<1>2. Published' = Published
  BY <1>1 DEF Published
<1>3. StreamSound'
  BY <1>1, <1>2 DEF StreamSound
<1>4. TypeOK'
  <2>1. buffer' \in Seq(Published')
    BY <1>1, EmptySeq
  <2>2. QED
    BY <1>1, <1>2, <2>1 DEF TypeOK
<1>5. /\ AckedIsDone' /\ PushedIsRecorded'
      /\ \A p \in pushed' : p[1] \in Published'
  BY <1>1, RowsGrow
<1>6. WorkSound'
  BY <1>1 DEF WorkSound, NoWork
<1>7. RowsPaidFor'
  <2>1. \A f, u : Due(f, u)' = 0
    BY <1>1 DEF Due
  <2>2. QED
    BY <1>1, <2>1, EmptyCounts, NothingDue
<1>8. QED
  BY <1>3, <1>4, <1>5, <1>6, <1>7

\* Every step preserves the invariant.
LEMMA InvStep == SubscriberInv /\ [Next]_vars => SubscriberInv'
<1> SUFFICES ASSUME SubscriberInv, [Next]_vars
             PROVE  SubscriberInv'
  OBVIOUS
<1>1. CASE Handler
  BY <1>1, BeginStep, SaveRowStep, PushUserStep, ListGroupMembersStep, OnwardStep, SpawnStep,
     EndStep DEF Handler, Outcome
<1>2. CASE \E u \in User : Member(u)
  BY <1>2, MemberSaveStep, MemberPushStep DEF Member
<1>3. CASE \E e \in Event, m \in Message : Publish(e, m)
  BY <1>3, PublishStep
<1>4. CASE \E u \in User : JoinOrLeave(u)
  BY <1>4, JoinOrLeaveStep
<1>5. CASE DeliverNew \/ \E e \in Event : Redeliver(e) \/ AckTimeout(e)
  BY <1>5, DeliverNewStep, RedeliverStep, AckTimeoutStep
<1>6. CASE \E k \in DOMAIN stream : Expire(k)
  BY <1>6, ExpireStep
<1>7. CASE (\E o \in Outcome : Start(o)) \/ Crash \/ Shutdown \/ Exit
  BY <1>7, StartStep, StopStep, ShutdownStep
<1>8. CASE UNCHANGED vars
  <2>1. UNCHANGED <<stream, message, consumer, next, status, deliveries, subscriber, buffer,
                    work, roster, records, pushed, listed, missed, crashes>>
    BY <1>8 DEF vars, published, jetstream, history
  <2>2. Published' = Published /\ StreamSound'
    BY <2>1, KeepsStream
  <2>3. TypeOK'
    BY <2>1, <2>2 DEF SubscriberInv, TypeOK
  <2>4. /\ WorkSound' /\ AckedIsDone' /\ PushedIsRecorded'
        /\ \A p \in pushed' : p[1] \in Published'
        /\ \A e, u : Due(e, u)' = Due(e, u)
    BY <2>1, KeepsWork
  <2>5. RowsPaidFor'
    BY <2>1, <2>4, NothingDue DEF Waiting, Positions
  <2>6. QED
    BY <2>2, <2>3, <2>4, <2>5 DEF SubscriberInv
<1>9. QED
  BY <1>1, <1>2, <1>3, <1>4, <1>5, <1>6, <1>7, <1>8 DEF Next

\* The invariant holds throughout (Subscriber, SendToUser, SendToGroup).
THEOREM InvariantHolds == Spec => []SubscriberInv
BY InitInv, InvStep, PTL DEF Spec

\* The consumer, the buffer, the handling and the rows are of their kinds; no
\* message is delivered, and none gets a user a row, more than MaxDeliver times.
THEOREM TypeCorrect == Spec => []TypeOK
BY InvariantHolds, PTL DEF SubscriberInv

\* An ack means that the work of the message was done, or was tried for the
\* member it misses (handle, SendToGroup).
THEOREM AcksAreEarned == Spec => []AckedIsDone
BY InvariantHolds, PTL DEF SubscriberInv

\* Push goes to those who have a row and whom the message is about (SendToUser).
THEOREM PushFollowsRow == Spec => []PushedIsRecorded
BY InvariantHolds, PTL DEF SubscriberInv

\* No more rows than deliveries, whatever is in the buffer and in the fan-out
\* (AckPolicy explicit, and one row per call of SendToUser).
THEOREM RowsPerDelivery == Spec => []OnePerDelivery
<1>1. SubscriberInv => OnePerDelivery
  <2> SUFFICES ASSUME SubscriberInv, NEW e \in Event, NEW u \in User
               PROVE  records[<<e, u>>] <= deliveries[e]
    BY DEF OnePerDelivery
  <2>1. records[<<e, u>>] + Due(e, u) + Waiting(e) <= deliveries[e]
    BY DEF SubscriberInv, RowsPaidFor
  <2>2. QED
    BY <2>1, CountFacts DEF SubscriberInv
<1>2. QED
  BY <1>1, InvariantHolds, PTL

\* The durable consumer skips nothing published since it exists (Run).
THEOREM NothingSkipped == Spec => []NoneSkipped
<1>1. SubscriberInv => NoneSkipped
  <2> SUFFICES ASSUME SubscriberInv, NEW k \in DOMAIN stream, status[stream[k]] # "none"
               PROVE  status[stream[k]] = "pending" <=> k >= next
    BY DEF NoneSkipped
  <2>1. consumer
    BY StreamFacts DEF SubscriberInv, StreamSound
  <2>2. k \in Nat /\ next \in Nat
    BY StreamFacts DEF SubscriberInv, TypeOK
  <2>3. QED
    BY <2>1, <2>2 DEF SubscriberInv, StreamSound
<1>2. QED
  BY <1>1, InvariantHolds, PTL

(***************************************************************************)
(* The promises of NotificationLedger.  The steps that count are the       *)
(* deliveries, the rows, the pushes, the acks and what says whom a message *)
(* is for; all others stutter.                                             *)
(***************************************************************************)

\* Lists are made of messages about deleted groups; a fan-out whose message is
\* not acked serves those of its list; what can be acked was delivered.
ListedSound == \A p \in listed : p[1] \in Published /\ Readable(p[1], "group_deleted")
ChosenAreListed ==
    work.pc = "fanout" /\ status[work.event] # "acked" =>
        \A u \in work.todo \cup work.saving : <<work.event, u>> \in listed
HandedOut == \A e \in Event : status[e] \in {"inflight", "redeliver"} => deliveries[e] > 0

LedgerInv == ListedSound /\ ChosenAreListed /\ HandedOut

\* What a step that neither lists nor fans out leaves as it is.
LEMMA KeepsLists ==
    ASSUME SubscriberInv, LedgerInv, UNCHANGED <<stream, message, listed>>,
           \A e \in Event : status[e] = "acked" => status'[e] = "acked",
           work' = work \/ work'.pc # "fanout"
    PROVE  ListedSound' /\ ChosenAreListed'
<1>1. Published' = Published /\ \A e, t : Readable(e, t)' = Readable(e, t)
  BY DEF Published, Readable
<1>2. ListedSound'
  BY <1>1 DEF LedgerInv, ListedSound
<1>3. ChosenAreListed'
  BY WorkFacts DEF LedgerInv, ChosenAreListed, SubscriberInv
<1> QED
  BY <1>2, <1>3

\* What a step of the fan-out leaves as it is.
LEMMA KeepsChosen ==
    ASSUME SubscriberInv, LedgerInv, UNCHANGED <<stream, message, listed, status, deliveries>>,
           work.pc = "fanout", work'.pc = "fanout", work'.event = work.event,
           work'.todo \cup work'.saving \subseteq work.todo \cup work.saving
    PROVE  LedgerInv'
<1>1. Published' = Published /\ \A e, t : Readable(e, t)' = Readable(e, t)
  BY DEF Published, Readable
<1>2. ListedSound'
  BY <1>1 DEF LedgerInv, ListedSound
<1> QED
  BY <1>2 DEF LedgerInv, ChosenAreListed, HandedOut

LEMMA LedgerHand ==
    ASSUME SubscriberInv, LedgerInv, DeliverNew \/ \E e \in Event : Redeliver(e)
    PROVE  LedgerInv' /\ Ledger!Next
<1> USE DEF SubscriberInv
<1>1. PICK e \in Published : /\ Hand(e) /\ deliveries[e] < MaxDeliver
                             /\ status[e] # "acked"
                             /\ UNCHANGED <<stream, message, work, records, pushed,
                                            listed, missed>>
  <2>1. CASE DeliverNew
    <3>1. consumer /\ next \in Nat /\ next \in DOMAIN stream
      BY <2>1, StreamFacts DEF DeliverNew, Receives, StreamSound
    <3>2. status[stream[next]] = "pending"
      BY <3>1 DEF StreamSound
    <3> QED
      BY <2>1, <3>1, <3>2, StreamFacts, NotificationSubscriberAssumption
         DEF DeliverNew, StreamSound, published, history
  <2>2. ASSUME NEW f \in Event, Redeliver(f)
        PROVE  /\ f \in Published /\ Hand(f) /\ deliveries[f] < MaxDeliver
               /\ status[f] # "acked"
               /\ UNCHANGED <<stream, message, work, records, pushed, listed, missed>>
    BY <2>2 DEF Redeliver, StreamSound, published, history
  <2> QED
    BY <2>1, <2>2
<1>2. e \in Event /\ deliveries[e] \in Nat
  BY StreamFacts DEF TypeOK
<1>3. /\ deliveries' = [deliveries EXCEPT ![e] = @ + 1]
      /\ status' = [status EXCEPT ![e] = "inflight"]
  BY <1>1 DEF Hand
<1>4. /\ deliveries'[e] > 0
      /\ \A f \in Event : f # e => status'[f] = status[f] /\ deliveries'[f] = deliveries[f]
      /\ \A f \in Event : status'[f] = "acked" <=> status[f] = "acked"
  BY <1>1, <1>2, <1>3 DEF TypeOK
<1>5. LedgerInv'
  BY <1>1, <1>4, KeepsLists DEF LedgerInv, HandedOut
<1>6. Closed' = Closed /\ e \notin Closed /\ Owed' = Owed
  BY <1>1, <1>4 DEF Closed, Owed, Published, Readable
<1>7. Ledger!Try(e)
  BY <1>1, <1>3, <1>6 DEF Ledger!Try
<1> QED
  BY <1>2, <1>5, <1>7 DEF Ledger!Next

LEMMA LedgerPublish ==
    ASSUME SubscriberInv, LedgerInv, NEW e \in Event, NEW m \in Message, Publish(e, m)
    PROVE  LedgerInv' /\ (Ledger!Next \/ UNCHANGED Ledger!vars)
<1> USE DEF SubscriberInv
<1>1. /\ e \notin Published /\ stream' = Append(stream, e)
      /\ message' = [f \in Published \cup {e} |-> IF f = e THEN m ELSE message[f]]
      /\ status' = IF consumer THEN [status EXCEPT ![e] = "pending"] ELSE status
      /\ UNCHANGED <<deliveries, work, records, pushed, listed, missed>>
  BY DEF Publish, history
<1>2. Published' = Published \cup {e}
  <2>1. /\ Len(stream) \in Nat /\ DOMAIN stream = 1..Len(stream)
        /\ DOMAIN stream' = 1..(Len(stream) + 1) /\ stream'[Len(stream) + 1] = e
        /\ \A k \in 1..Len(stream) : stream'[k] = stream[k]
    BY <1>1, AppendProperties DEF TypeOK
  <2> QED
    BY <2>1 DEF Published
<1>3. /\ \A t : Readable(e, t)' <=> m.keys = "tags" /\ m.type = t
      /\ \A f \in Published : /\ message'[f] = message[f]
                              /\ \A t : Readable(f, t)' <=> Readable(f, t)
  BY <1>1 DEF Readable
<1>4. status[e] = "none" /\ \A f \in Event : status'[f] = status[f] \/ status'[f] = "pending"
  BY <1>1 DEF StreamSound, TypeOK
<1>5. \A f \in Event : status'[f] = "acked" <=> status[f] = "acked"
  <2>1. \A f \in Event : f # e => status'[f] = status[f]
    BY <1>1 DEF TypeOK
  <2> QED
    BY <1>4, <2>1
<1>6. ListedSound'
  BY <1>1, <1>2, <1>3 DEF LedgerInv, ListedSound
<1>7. LedgerInv'
  <2>1. ChosenAreListed'
    BY <1>1, <1>5, WorkFacts DEF LedgerInv, ChosenAreListed, NoWork
  <2> QED
    BY <1>1, <1>4, <1>6, <2>1 DEF LedgerInv, HandedOut
<1>8. Closed' = Closed /\ e \notin Closed
  BY <1>4, <1>5 DEF Closed
<1>9. \A p \in Owed : p[1] \in Published
  BY DEF Owed, LedgerInv, ListedSound
<1>10. (Owed \ ({e} \X User)) = Owed /\ (missed \ ({e} \X User)) = missed
  <2>1. \A p \in Owed : p[1] # e
    BY <1>1, <1>9
  <2>2. \A p \in missed : p[1] # e
    BY <1>1 DEF LedgerInv, ListedSound, TypeOK
  <2> QED
    BY <2>1, <2>2
<1>11. CASE m.keys = "tags" /\ m.type = "member_added"
  <2>1. m.user \in User
    BY DEF Message
  <2>2. {f \in Published' : Readable(f, "member_added")'}
          = {f \in Published : Readable(f, "member_added")} \cup {e}
    BY <1>2, <1>3, <1>11
  <2>3. Owed' = Owed \cup {<<e, m.user>>}
    <3> DEFINE added == {f \in Published : Readable(f, "member_added")}
    <3>1. /\ message'[e] = m
          /\ \A f \in added : message'[f] = message[f]
      BY <1>1, <1>3
    <3>2. added' = added \cup {e}
      BY <2>2
    <3> HIDE DEF added
    <3>3. {<<f, message'[f].user>> : f \in added'}
            = {<<f, message[f].user>> : f \in added} \cup {<<e, m.user>>}
      BY <3>1, <3>2
    <3> QED
      BY <1>1, <3>3 DEF Owed, added
  <2>4. Owed' = (Owed \ ({e} \X User)) \cup ({e} \X {m.user})
    BY <1>10, <2>3
  <2>5. Ledger!Owe(e, {m.user})
    BY <1>1, <1>8, <1>10, <2>4 DEF Ledger!Owe
  <2> QED
    BY <1>7, <2>1, <2>5 DEF Ledger!Next
<1>12. CASE ~(m.keys = "tags" /\ m.type = "member_added")
  <2>1. {f \in Published' : Readable(f, "member_added")'}
          = {f \in Published : Readable(f, "member_added")}
    BY <1>2, <1>3, <1>12
  <2>2. Owed' = Owed
    BY <1>1, <1>3, <2>1 DEF Owed
  <2> QED
    BY <1>1, <1>7, <1>8, <2>2 DEF Ledger!vars
<1> QED
  BY <1>11, <1>12

\* A row that is due is one the ledger allows.
LEMMA LedgerRecord ==
    ASSUME SubscriberInv, NEW e \in Published, NEW u \in User, NEW o \in Outcome,
           Record(e, u, o), Due(e, u) = 1,
           status[e] = "acked" \/ <<e, u>> \in Owed,
           UNCHANGED <<stream, message, listed, status, deliveries, pushed>>,
           missed' = missed \/ (/\ o = "lost" /\ <<e, u>> \in listed
                                /\ missed' = missed \cup {<<e, u>>})
    PROVE  Ledger!Next \/ UNCHANGED Ledger!vars
<1>1. e \in Event
  BY StreamFacts DEF SubscriberInv
<1>2. Owed' = Owed /\ Closed' = Closed
  BY DEF Owed, Closed, Published, Readable
<1>3. CASE Applied(o)
  <2>1. records[<<e, u>>] + 1 + Waiting(e) <= deliveries[e]
    BY <1>1 DEF SubscriberInv, RowsPaidFor
  <2>2. records[<<e, u>>] < deliveries[e]
    BY <1>1, <2>1, CountFacts DEF SubscriberInv
  <2>3. Ledger!Save(e, u)
    BY <1>1, <1>2, <1>3, <2>2 DEF Ledger!Save, Record, Applied, Closed
  <2> QED
    BY <1>1, <2>3 DEF Ledger!Next
<1>4. CASE ~Applied(o) /\ missed' = missed
  BY <1>2, <1>4 DEF Record, Ledger!vars
<1>5. CASE ~Applied(o) /\ missed' = missed \cup {<<e, u>>} /\ <<e, u>> \in listed
  <2>1. Ledger!Excuse(e, u)
    BY <1>2, <1>5 DEF Record, Ledger!Excuse, Owed
  <2> QED
    BY <1>1, <2>1 DEF Ledger!Next
<1> QED
  BY <1>3, <1>4, <1>5 DEF Applied

LEMMA LedgerSaveRow ==
    ASSUME SubscriberInv, LedgerInv, NEW o \in Outcome, SaveRow(o)
    PROVE  LedgerInv' /\ (Ledger!Next \/ UNCHANGED Ledger!vars)
<1> DEFINE e == work.event
           u == message[e].user
<1>1. /\ work.pc = "save" /\ e \in Published /\ u \in User /\ Readable(e, "member_added")
      /\ Record(e, u, o)
      /\ UNCHANGED <<stream, message, status, deliveries, pushed, listed, missed>>
  BY DEF SaveRow, SubscriberInv, WorkSound, NoWork, TypeOK, Message, published, jetstream,
         history
<1>2. Due(e, u) = 1
  BY <1>1 DEF Due, NoWork
<1>3. <<e, u>> \in Owed
  BY <1>1 DEF Owed
<1>4. work'.pc # "fanout"
  BY DEF SaveRow, GoTo
<1>5. LedgerInv'
  BY <1>1, <1>4, KeepsLists DEF LedgerInv, HandedOut
<1> HIDE DEF e, u
<1> QED
  BY <1>1, <1>2, <1>3, <1>5, LedgerRecord

LEMMA LedgerMemberSave ==
    ASSUME SubscriberInv, LedgerInv, NEW u \in User, NEW o \in Outcome, MemberSave(u, o)
    PROVE  LedgerInv' /\ (Ledger!Next \/ UNCHANGED Ledger!vars)
<1> DEFINE e == work.event
<1>1. /\ work.pc = "fanout" /\ e \in Published /\ u \in work.saving /\ Record(e, u, o)
      /\ work' = [work EXCEPT !.saving = @ \ {u},
                              !.pushing = IF o = "ok" THEN @ \cup {u} ELSE @]
      /\ missed' = IF o = "lost" /\ <<e, u>> \in listed
                   THEN missed \cup {<<e, u>>} ELSE missed
      /\ UNCHANGED <<stream, message, status, deliveries, pushed, listed>>
  BY DEF MemberSave, SubscriberInv, WorkSound, NoWork, published, jetstream
<1>2. Due(e, u) = 1
  BY <1>1 DEF Due, NoWork
<1>3. status[e] = "acked" \/ <<e, u>> \in Owed
  BY <1>1 DEF Owed, LedgerInv, ChosenAreListed
<1>4. work \in [pc : {"fanout"}, event : Event, todo : SUBSET User,
               saving : SUBSET User, pushing : SUBSET User]
  BY <1>1, WorkFacts DEF SubscriberInv
<1>5. /\ work'.pc = "fanout" /\ work'.event = e
      /\ work'.todo = work.todo /\ work'.saving = work.saving \ {u}
  BY <1>1, <1>4
<1>6. LedgerInv'
  BY <1>1, <1>5, KeepsChosen
<1> HIDE DEF e
<1> QED
  BY <1>1, <1>2, <1>3, <1>6, LedgerRecord

LEMMA LedgerPush ==
    ASSUME SubscriberInv, LedgerInv, NEW o \in Outcome,
           PushUser(o) \/ \E u \in User : MemberPush(u, o)
    PROVE  LedgerInv' /\ (Ledger!Next \/ UNCHANGED Ledger!vars)
<1> DEFINE e == work.event
<1>1. /\ e \in Event
      /\ UNCHANGED <<stream, message, status, deliveries, records, listed, missed>>
  BY StreamFacts DEF PushUser, MemberPush, SubscriberInv, WorkSound, NoWork, published,
                     jetstream, history
<1>2. PICK u \in User : records[<<e, u>>] > 0 /\ Push(e, u, o)
  <2>1. CASE PushUser(o)
    <3>1. work.pc = "push" /\ e \in Published /\ message[e].user \in User
      BY <2>1 DEF PushUser, SubscriberInv, WorkSound, NoWork, TypeOK, Message
    <3>2. records[<<e, message[e].user>>] > 0
      BY <3>1 DEF SubscriberInv, WorkSound
    <3> QED
      BY <2>1, <3>1, <3>2 DEF PushUser
  <2>2. ASSUME NEW u \in User, MemberPush(u, o) PROVE records[<<e, u>>] > 0 /\ Push(e, u, o)
    BY <2>2 DEF MemberPush, SubscriberInv, WorkSound
  <2> QED
    BY <2>1, <2>2
<1>3. Owed' = Owed /\ Closed' = Closed
  BY <1>1 DEF Owed, Closed, Published, Readable
<1>4. Ledger!Next \/ UNCHANGED Ledger!vars
  <2>1. CASE Applied(o)
    <3>1. Ledger!Tell(e, u)
      BY <1>1, <1>2, <1>3, <2>1 DEF Ledger!Tell, Push
    <3> QED
      BY <1>1, <3>1 DEF Ledger!Next
  <2>2. CASE ~Applied(o)
    BY <1>1, <1>2, <1>3, <2>2 DEF Push, Ledger!vars
  <2> QED
    BY <2>1, <2>2
<1>5. CASE PushUser(o)
  <2>1. work'.pc # "fanout"
    BY <1>5 DEF PushUser, GoTo
  <2> QED
    BY <1>1, <1>4, <2>1, KeepsLists DEF LedgerInv, HandedOut
<1>6. ASSUME NEW v \in User, MemberPush(v, o) PROVE LedgerInv'
  <2>1. work.pc = "fanout" /\ work' = [work EXCEPT !.pushing = @ \ {v}]
    BY <1>6 DEF MemberPush
  <2>2. work \in [pc : {"fanout"}, event : Event, todo : SUBSET User,
                 saving : SUBSET User, pushing : SUBSET User]
    BY <2>1, WorkFacts DEF SubscriberInv
  <2>3. /\ work'.pc = "fanout" /\ work'.event = e
        /\ work'.todo = work.todo /\ work'.saving = work.saving
    BY <2>1, <2>2
  <2> QED
    BY <1>1, <2>1, <2>3, KeepsChosen
<1> QED
  BY <1>4, <1>5, <1>6

LEMMA LedgerList ==
    ASSUME SubscriberInv, LedgerInv, NEW o \in Outcome, ListGroupMembers(o)
    PROVE  LedgerInv' /\ (Ledger!Next \/ UNCHANGED Ledger!vars)
<1> DEFINE e == work.event
<1>1. /\ work.pc = "list" /\ e \in Published /\ e \in Event /\ Readable(e, "group_deleted")
      /\ roster \subseteq User
      /\ UNCHANGED <<stream, message, status, deliveries, records, pushed>>
  BY StreamFacts DEF ListGroupMembers, SubscriberInv, WorkSound, NoWork, TypeOK, published,
                     jetstream
<1>2. Published' = Published /\ (\A f, t : Readable(f, t)' = Readable(f, t)) /\ Closed' = Closed
  BY <1>1 DEF Published, Readable, Closed
<1>3. CASE o = "ok" /\ status[e] # "acked"
  <2>1. /\ listed' = (listed \ ({e} \X User)) \cup ({e} \X roster)
        /\ missed' = missed \ ({e} \X User)
        /\ work' = [pc |-> "fanout", event |-> e, todo |-> roster,
                    saving |-> {}, pushing |-> {}]
    BY <1>3 DEF ListGroupMembers, Of
  <2>2. /\ work'.pc = "fanout" /\ work'.event = e
        /\ work'.todo \cup work'.saving = roster
    BY <2>1
  <2>3. LedgerInv'
    <3>1. ListedSound'
      BY <1>1, <1>2, <2>1 DEF LedgerInv, ListedSound
    <3>2. ChosenAreListed'
      BY <2>1, <2>2 DEF ChosenAreListed
    <3> QED
      BY <1>1, <3>1, <3>2 DEF LedgerInv, HandedOut
  <2> DEFINE added == {<<f, message[f].user>> : f \in
                          {g \in Published : Readable(g, "member_added")}}
  <2>4. added' = added
    BY <1>1, <1>2
  <2>5. \A p \in added : p[1] # e
    BY <1>1 DEF Readable
  <2>6. (added \ ({e} \X User)) = added
    BY <2>5
  <2>7. Owed' = (Owed \ ({e} \X User)) \cup ({e} \X roster)
    <3>1. Owed = listed \cup added /\ Owed' = listed' \cup added'
      BY DEF Owed
    <3> HIDE DEF added
    <3> QED
      BY <2>1, <2>4, <2>6, <3>1
  <2>8. Ledger!Owe(e, roster)
    BY <1>1, <1>2, <1>3, <2>1, <2>7 DEF Ledger!Owe, Closed
  <2> QED
    BY <1>1, <2>3, <2>8 DEF Ledger!Next
<1>4. CASE ~(o = "ok" /\ status[e] # "acked")
  <2>1. UNCHANGED <<listed, missed>>
    BY <1>4 DEF ListGroupMembers
  <2>2. UNCHANGED Ledger!vars
    BY <1>1, <1>2, <2>1 DEF Ledger!vars, Owed
  <2>3. work'.pc # "fanout" \/ (work'.event = e /\ status[e] = "acked")
    BY <1>4 DEF ListGroupMembers, GoTo
  <2>4. ListedSound' /\ ChosenAreListed'
    BY <1>1, <1>2, <2>1, <2>3 DEF LedgerInv, ListedSound, ChosenAreListed
  <2> QED
    BY <1>1, <2>2, <2>4 DEF LedgerInv, HandedOut
<1> QED
  BY <1>3, <1>4

LEMMA LedgerAck ==
    ASSUME SubscriberInv, LedgerInv, NEW o \in Outcome, Ack(o)
    PROVE  LedgerInv' /\ (Ledger!Next \/ UNCHANGED Ledger!vars)
<1> DEFINE e == work.event
<1>1. /\ work.pc = "ack" /\ e \in Published /\ e \in Event /\ Done(e) /\ work'.pc # "fanout"
      /\ UNCHANGED <<stream, message, deliveries, records, pushed, listed, missed>>
  BY StreamFacts DEF Ack, SubscriberInv, WorkSound, NoWork, published, history
<1>2. Owed' = Owed
  BY <1>1 DEF Owed, Published, Readable
<1>3. CASE Applied(o) /\ status[e] \in {"inflight", "redeliver"}
  <2>1. status' = [status EXCEPT ![e] = "acked"]
    BY <1>3 DEF Ack
  <2>2. /\ status'[e] = "acked"
        /\ \A f \in Event : f # e => status'[f] = status[f]
    BY <1>1, <2>1 DEF SubscriberInv, TypeOK
  <2>3. LedgerInv'
    BY <1>1, <2>2, KeepsLists DEF LedgerInv, HandedOut
  <2>4. Closed' = Closed \cup {e}
    BY <1>1, <2>2 DEF Closed
  <2>5. deliveries[e] > 0
    BY <1>1, <1>3 DEF LedgerInv, HandedOut
  <2>6. ASSUME NEW u \in User, <<e, u>> \in Owed, <<e, u>> \notin missed
        PROVE  records[<<e, u>>] > 0
    <3>1. CASE <<e, u>> \in listed
      BY <1>1, <2>6, <3>1 DEF Done, LedgerInv, ListedSound
    <3>2. CASE Readable(e, "member_added") /\ u = message[e].user
      BY <1>1, <3>2 DEF Done
    <3> QED
      BY <2>6, <3>1, <3>2 DEF Owed
  <2>7. Ledger!Close(e)
    BY <1>1, <1>2, <2>4, <2>5, <2>6 DEF Ledger!Close
  <2> QED
    BY <1>1, <2>3, <2>7 DEF Ledger!Next
<1>4. CASE ~(Applied(o) /\ status[e] \in {"inflight", "redeliver"})
  <2>1. status' = status
    BY <1>4 DEF Ack
  <2>2. UNCHANGED Ledger!vars
    BY <1>1, <1>2, <2>1 DEF Ledger!vars, Closed
  <2> QED
    BY <1>1, <2>1, <2>2, KeepsLists DEF LedgerInv, HandedOut
<1> QED
  BY <1>3, <1>4

\* A status that changes without an ack, and everything else that is nobody's
\* business in the ledger.
LEMMA LedgerQuiet ==
    ASSUME SubscriberInv, LedgerInv,
           UNCHANGED <<stream, message, deliveries, records, pushed, listed, missed>>,
           \A e \in Event : \/ status'[e] = status[e]
                            \/ /\ status[e] # "acked" /\ status'[e] # "acked"
                               /\ deliveries[e] > 0 \/ status'[e] \notin {"inflight", "redeliver"},
           work' = work \/ work'.pc # "fanout"
    PROVE  LedgerInv' /\ UNCHANGED Ledger!vars
<1>1. Closed' = Closed /\ Owed' = Owed
  BY DEF Closed, Owed, Published, Readable
<1>2. LedgerInv'
  BY KeepsLists DEF LedgerInv, HandedOut
<1> QED
  BY <1>1, <1>2 DEF Ledger!vars

LEMMA LedgerEnvironment ==
    ASSUME SubscriberInv, LedgerInv,
           \/ \E u \in User : JoinOrLeave(u)
           \/ \E e \in Event : AckTimeout(e)
           \/ \E k \in DOMAIN stream : Expire(k)
           \/ \E o \in Outcome : Start(o) \/ Nak(o)
           \/ Begin \/ Realtime \/ Wait \/ Crash \/ Shutdown \/ Exit
           \/ UNCHANGED vars
    PROVE  LedgerInv' /\ UNCHANGED Ledger!vars
<1> USE DEF published, jetstream, history
<1>1. ASSUME NEW e \in Event, status[e] = "inflight",
             status' = [status EXCEPT ![e] = Again(e)],
             UNCHANGED <<stream, message, deliveries, records, pushed, listed, missed>>,
             work' = work \/ work'.pc # "fanout"
      PROVE  LedgerInv' /\ UNCHANGED Ledger!vars
  <2>1. /\ status'[e] \in {"redeliver", "exhausted"}
        /\ \A f \in Event : f # e => status'[f] = status[f]
    BY <1>1 DEF SubscriberInv, TypeOK, Again
  <2>2. deliveries[e] > 0
    BY <1>1 DEF LedgerInv, HandedOut
  <2> QED
    BY <1>1, <2>1, <2>2, LedgerQuiet
<1>2. ASSUME NEW e \in Event, AckTimeout(e)
      PROVE  LedgerInv' /\ UNCHANGED Ledger!vars
  BY <1>1, <1>2 DEF AckTimeout
<1>3. ASSUME NEW o \in Outcome, Nak(o)
      PROVE  LedgerInv' /\ UNCHANGED Ledger!vars
  <2>1. /\ work.event \in Event /\ work'.pc # "fanout"
        /\ UNCHANGED <<stream, message, deliveries, records, pushed, listed, missed>>
    BY <1>3, StreamFacts DEF Nak, SubscriberInv, WorkSound, NoWork
  <2>2. CASE status' = status
    BY <2>1, <2>2, LedgerQuiet
  <2>3. CASE status' # status
    <3>1. status[work.event] = "inflight"
          /\ status' = [status EXCEPT ![work.event] = Again(work.event)]
      BY <1>3, <2>3 DEF Nak
    <3> QED
      BY <1>1, <2>1, <3>1
  <2> QED
    BY <2>2, <2>3
<1>4. ASSUME NEW k \in DOMAIN stream, Expire(k)
      PROVE  LedgerInv' /\ UNCHANGED Ledger!vars
  BY <1>4, LedgerQuiet DEF Expire
<1>5. CASE (\E u \in User : JoinOrLeave(u)) \/ (\E o \in Outcome : Start(o))
  BY <1>5, LedgerQuiet DEF JoinOrLeave, Start
<1>6. CASE Begin
  <2>1. work'.pc # "fanout"
    BY <1>6 DEF Begin, First
  <2> QED
    BY <1>6, <2>1, LedgerQuiet DEF Begin
<1>7. CASE Realtime \/ Wait
  BY <1>7, LedgerQuiet DEF Realtime, Wait, GoTo
<1>8. CASE Crash \/ Shutdown \/ Exit
  BY <1>8, LedgerQuiet DEF Crash, Shutdown, Exit, NoWork
<1>9. CASE UNCHANGED vars
  BY <1>9, LedgerQuiet DEF vars
<1> QED
  BY <1>2, <1>3, <1>4, <1>5, <1>6, <1>7, <1>8, <1>9

LEMMA LedgerSpawn ==
    ASSUME SubscriberInv, LedgerInv, NEW u \in User, Spawn(u)
    PROVE  LedgerInv' /\ UNCHANGED Ledger!vars
<1>1. /\ work.pc = "fanout" /\ u \in work.todo
      /\ work' = [work EXCEPT !.todo = @ \ {u}, !.saving = @ \cup {u}]
      /\ UNCHANGED <<stream, message, status, deliveries, records, pushed, listed, missed>>
  BY DEF Spawn, published, jetstream, history
<1>2. work \in [pc : {"fanout"}, event : Event, todo : SUBSET User,
               saving : SUBSET User, pushing : SUBSET User]
  BY <1>1, WorkFacts DEF SubscriberInv
<1>3. /\ work'.pc = "fanout" /\ work'.event = work.event
      /\ work'.todo = work.todo \ {u} /\ work'.saving = work.saving \cup {u}
  BY <1>1, <1>2
<1>4. LedgerInv'
  BY <1>1, <1>3, KeepsChosen
<1>5. Owed' = Owed /\ Closed' = Closed
  BY <1>1 DEF Owed, Closed, Published, Readable
<1> QED
  BY <1>1, <1>4, <1>5 DEF Ledger!vars

\* Every step is one of the ledger, or changes nothing in it.
LEMMA LedgerStep ==
    ASSUME SubscriberInv, LedgerInv, [Next]_vars
    PROVE  LedgerInv' /\ (Ledger!Next \/ UNCHANGED Ledger!vars)
<1>1. CASE Handler
  BY <1>1, LedgerEnvironment, LedgerSaveRow, LedgerPush, LedgerList, LedgerSpawn, LedgerAck
     DEF Handler, Outcome
<1>2. CASE \E u \in User : Member(u)
  BY <1>2, LedgerMemberSave, LedgerPush DEF Member
<1>3. CASE \E e \in Event, m \in Message : Publish(e, m)
  BY <1>3, LedgerPublish
<1>4. CASE DeliverNew \/ \E e \in Event : Redeliver(e)
  BY <1>4, LedgerHand
<1> QED
  BY <1>1, <1>2, <1>3, <1>4, LedgerEnvironment DEF Next

LEMMA LedgerInit == Init => LedgerInv /\ Ledger!Init
<1> SUFFICES ASSUME Init PROVE LedgerInv /\ Ledger!Init
  OBVIOUS
<1>1. Published = {}
  BY DEF Init, Published
<1>2. Owed = {} /\ Closed = {}
  BY <1>1 DEF Init, Owed, Closed
<1> QED
  BY <1>2 DEF Init, Ledger!Init, LedgerInv, ListedSound, ChosenAreListed, HandedOut, NoWork

LEMMA LedgerInvHolds == Spec => []LedgerInv
<1>1. SubscriberInv /\ LedgerInv /\ [Next]_vars => LedgerInv'
  BY LedgerStep
<1> QED
  BY <1>1, LedgerInit, InvariantHolds, PTL DEF Spec

\* KeepsLedger: redeliveries, crashes, stops, lost acks and failed calls are not
\* seen by those who read notifications but as further tries of a message.
THEOREM ImplementsLedger == Spec => KeepsLedger
<1>1. SubscriberInv /\ LedgerInv /\ [Next]_vars => [Ledger!Next]_(Ledger!vars)
  BY LedgerStep
<1> QED
  BY <1>1, LedgerInit, InvariantHolds, LedgerInvHolds, PTL DEF Spec, KeepsLedger, Ledger!Spec

\* A message delivered once and acked has notified everybody it was for exactly
\* once, those apart whose row could not be saved.
OnceIfDeliveredOnce ==
    \A e \in Event, u \in User :
        e \in Closed /\ deliveries[e] = 1 /\ <<e, u>> \in Owed \ missed => records[<<e, u>>] = 1

\* Duplicates come from redelivery alone, and an ack leaves nobody out.
THEOREM ExactlyOnceAtBest == Spec => []OnceIfDeliveredOnce
<1>1. SubscriberInv /\ LedgerInv => OnceIfDeliveredOnce
  <2> SUFFICES ASSUME SubscriberInv, LedgerInv, NEW e \in Event, NEW u \in User,
                      e \in Closed, deliveries[e] = 1, <<e, u>> \in Owed \ missed
               PROVE  records[<<e, u>>] = 1
    BY DEF OnceIfDeliveredOnce
  <2>1. e \in Published /\ status[e] = "acked"
    BY DEF Closed, SubscriberInv, StreamSound
  <2>2. records[<<e, u>>] > 0
    <3>1. CASE <<e, u>> \in listed
      BY <2>1, <3>1 DEF SubscriberInv, AckedIsDone, LedgerInv, ListedSound
    <3>2. CASE Readable(e, "member_added") /\ u = message[e].user
      BY <2>1, <3>2 DEF SubscriberInv, AckedIsDone
    <3> QED
      BY <3>1, <3>2 DEF Owed
  <2>3. records[<<e, u>>] + Due(e, u) + Waiting(e) <= 1
    BY DEF SubscriberInv, RowsPaidFor
  <2> QED
    BY <2>2, <2>3, CountFacts DEF SubscriberInv
<1> QED
  BY <1>1, InvariantHolds, LedgerInvHolds, PTL

(***************************************************************************)
(* The semaphore of the fan-out.                                           *)
(***************************************************************************)
Busy == work.saving \cup work.pushing
SlotsHeld ==
    work.pc = "fanout" => IsFiniteSet(Busy) /\ Cardinality(Busy) <= FanOut

LEMMA SlotsStep ==
    ASSUME SubscriberInv, SlotsHeld, [Next]_vars
    PROVE  SlotsHeld'
<1>1. CASE work' = work \/ work'.pc # "fanout"
  BY <1>1 DEF SlotsHeld, Busy
<1>2. ASSUME NEW u \in User, Spawn(u) PROVE SlotsHeld'
  <2>1. /\ work.pc = "fanout" /\ Cardinality(Busy) < FanOut
        /\ work' = [work EXCEPT !.todo = @ \ {u}, !.saving = @ \cup {u}]
    BY <1>2 DEF Spawn, Busy
  <2>2. work \in [pc : {"fanout"}, event : Event, todo : SUBSET User,
                 saving : SUBSET User, pushing : SUBSET User]
    BY <2>1, WorkFacts DEF SubscriberInv
  <2>3. Busy' = Busy \cup {u}
    BY <2>1, <2>2 DEF Busy
  <2>4. IsFiniteSet(Busy) /\ Cardinality(Busy) \in Nat
    BY <2>1, FS_CardinalityType DEF SlotsHeld
  <2>5. IsFiniteSet(Busy') /\ Cardinality(Busy') <= Cardinality(Busy) + 1
    <3>1. /\ IsFiniteSet(Busy \cup {u})
          /\ \/ Cardinality(Busy \cup {u}) = Cardinality(Busy)
             \/ Cardinality(Busy \cup {u}) = Cardinality(Busy) + 1
      <4> HIDE DEF Busy
      <4> QED
        BY <2>4, FS_AddElement, Zenon
    <3> QED
      BY <2>3, <2>4, <3>1
  <2> QED
    BY <2>1, <2>4, <2>5, FS_CardinalityType, NotificationSubscriberAssumption DEF SlotsHeld
<1>3. ASSUME NEW u \in User, Member(u) PROVE SlotsHeld'
  <2>1. PICK o \in Outcome : MemberSave(u, o) \/ MemberPush(u, o)
    BY <1>3 DEF Member
  <2>2. work.pc = "fanout"
    BY <2>1 DEF MemberSave, MemberPush
  <2>3. work \in [pc : {"fanout"}, event : Event, todo : SUBSET User,
                 saving : SUBSET User, pushing : SUBSET User]
    BY <2>2, WorkFacts DEF SubscriberInv
  <2>4. Busy' \subseteq Busy
    <3>1. CASE MemberSave(u, o)
      <4>1. /\ u \in work.saving
            /\ work' = [work EXCEPT !.saving = @ \ {u},
                                    !.pushing = IF o = "ok" THEN @ \cup {u} ELSE @]
        BY <3>1 DEF MemberSave
      <4>2. /\ work'.saving = work.saving \ {u}
            /\ work'.pushing \subseteq work.pushing \cup {u}
        BY <2>3, <4>1
      <4> QED
        BY <4>1, <4>2 DEF Busy
    <3>2. CASE MemberPush(u, o)
      <4>1. work' = [work EXCEPT !.pushing = @ \ {u}]
        BY <3>2 DEF MemberPush
      <4>2. work'.saving = work.saving /\ work'.pushing \subseteq work.pushing
        BY <2>3, <4>1
      <4> QED
        BY <4>2 DEF Busy
    <3> QED
      BY <2>1, <3>1, <3>2
  <2>5. IsFiniteSet(Busy) /\ Cardinality(Busy) <= FanOut
    BY <2>2 DEF SlotsHeld
  <2>6. IsFiniteSet(Busy') /\ Cardinality(Busy') <= Cardinality(Busy)
    BY <2>4, <2>5, FS_Subset
  <2> QED
    BY <2>5, <2>6, FS_CardinalityType, NotificationSubscriberAssumption DEF SlotsHeld
<1>4. ASSUME NEW o \in Outcome, ListGroupMembers(o) PROVE SlotsHeld'
  <2>1. work'.pc = "fanout" => Busy' = {}
    BY <1>4 DEF ListGroupMembers, GoTo, Busy
  <2> QED
    BY <2>1, FS_EmptySet, NotificationSubscriberAssumption DEF SlotsHeld
<1>5. CASE Handler
  <2>1. ASSUME NEW o \in Outcome,
               SaveRow(o) \/ PushUser(o) \/ Ack(o) \/ Nak(o) \/ Begin \/ Realtime \/ Wait
        PROVE  work'.pc # "fanout"
    BY <2>1 DEF SaveRow, PushUser, Ack, Nak, Begin, First, Realtime, Wait, GoTo, NoWork
  <2>2. ASSUME NEW o \in Outcome,
               SaveRow(o) \/ PushUser(o) \/ Ack(o) \/ Nak(o) \/ Begin \/ Realtime \/ Wait
        PROVE  SlotsHeld'
    BY <1>1, <2>1, <2>2
  <2>3. "ok" \in Outcome /\ {"ok", "lost"} \subseteq Outcome
    BY DEF Outcome
  <2> QED
    BY ONLY <1>2, <1>4, <1>5, <2>2, <2>3 DEF Handler
<1>6. CASE \/ \E e \in Event, m \in Message : Publish(e, m)
           \/ \E u \in User : JoinOrLeave(u)
           \/ DeliverNew
           \/ \E e \in Event : Redeliver(e) \/ AckTimeout(e)
           \/ \E k \in DOMAIN stream : Expire(k)
           \/ \E o \in Outcome : Start(o)
           \/ Crash \/ Shutdown \/ Exit \/ UNCHANGED vars
  <2>1. work' = work \/ work' = NoWork
    BY <1>6 DEF Publish, JoinOrLeave, DeliverNew, Redeliver, AckTimeout, Expire, Start,
                Crash, Shutdown, Exit, vars
  <2> QED
    BY <1>1, <2>1 DEF NoWork
<1> QED
  BY <1>3, <1>5, <1>6 DEF Next

\* A fan-out, however large the group, has at most FanOut members under way
\* (the channel sem of SendToGroup).
THEOREM FanOutIsBounded == Spec => []SlotsHeld
<1>1. Init => SlotsHeld
  BY DEF Init, SlotsHeld, NoWork
<1>2. SubscriberInv /\ SlotsHeld /\ [Next]_vars => SlotsHeld'
  BY SlotsStep
<1> QED
  BY <1>1, <1>2, InvariantHolds, PTL DEF Spec
=============================================================================
