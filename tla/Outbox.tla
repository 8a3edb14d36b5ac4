------------------------------- MODULE Outbox -------------------------------
(***************************************************************************)
(* The transactional outbox of the org service: InsertOutboxEvent, called  *)
(* inside a transaction, and OutboxWorker, which polls the table every two *)
(* seconds and publishes to NATS JetStream.  Every replica of the service  *)
(* runs a worker, and nothing locks the rows one of them works on.         *)
(***************************************************************************)
EXTENDS Integers, FiniteSets

CONSTANTS
    Event,      \* the rows of the outbox
    Worker,     \* one OutboxWorker per replica
    Limit,      \* rows a poll returns at most: 100
    Poison,     \* rows NATS refuses whenever they are published (too large)
    MaxTime,    \* bound on the clock
    MaxCrashes  \* bound on crashes

ASSUME OutboxAssumption ==
    /\ IsFiniteSet(Event)
    /\ Limit \in Nat \ {0}
    /\ Poison \subseteq Event
    /\ MaxTime \in Nat
    /\ MaxCrashes \in Nat

Outcome == {"ok", "lost", "ambiguous"}
Applied(o) == o # "lost"

VARIABLES
    begun,    \* open transactions with an event: a function to created_at
    created,  \* table outbox: a function from the ids of its rows to created_at
    marked,   \* rows whose published_at is set
    worker,   \* what each worker does next
    sent,     \* how often the stream took an event; 2 is twice or more
    clock,    \* now() of the database
    \* The four below are history.
    failed,   \* rows whose publication or marking failed or was cut short
    late,     \* rows committed when a worker had read past their created_at
    shared,   \* rows a worker read while another one had them
    crashes

vars == <<begun, created, marked, worker, sent, clock, failed, late, shared, crashes>>

Idle == [pc |-> "idle"]

Rows == DOMAIN created
Unpublished == Rows \ marked

\* The row whose mark is due is no longer in todo.
Todo(w) == IF worker[w].pc = "idle" THEN {} ELSE worker[w].todo
Marking(w, e) == worker[w].pc = "mark" /\ worker[w].row = e
Holds(w, e) == e \in Todo(w) \/ Marking(w, e)

TypeOK ==
    /\ DOMAIN begun \subseteq Event
    /\ \A e \in DOMAIN begun : begun[e] \in 0..MaxTime
    /\ Rows \subseteq Event
    /\ \A e \in Rows : created[e] \in 0..MaxTime
    /\ marked \subseteq Rows
    /\ worker \in [Worker -> {Idle} \cup [pc : {"publish"}, todo : (SUBSET Event) \ {{}}]
                                    \cup [pc : {"mark"}, todo : SUBSET Event, row : Event]]
    /\ sent \in [Event -> 0..2]
    /\ clock \in 0..MaxTime
    /\ failed \subseteq Event
    /\ late \subseteq Event
    /\ shared \subseteq Event
    /\ crashes \in 0..MaxCrashes

Init ==
    /\ begun = [e \in {} |-> 0]
    /\ created = [e \in {} |-> 0]
    /\ marked = {}
    /\ worker = [w \in Worker |-> Idle]
    /\ sent = [e \in Event |-> 0]
    /\ clock = 0
    /\ failed = {}
    /\ late = {}
    /\ shared = {}
    /\ crashes = 0

(***************************************************************************)
(* InsertOutboxEvent in a transaction of its caller.  The default now() of *)
(* created_at is the start of the transaction: rows become visible in      *)
(* another order than that of created_at, and may have the same.           *)
(***************************************************************************)
Insert(e) ==
    /\ e \notin DOMAIN begun \cup Rows
    /\ begun' = [f \in DOMAIN begun \cup {e} |-> IF f = e THEN clock ELSE begun[f]]
    /\ UNCHANGED <<created, marked, worker, sent, clock, failed, late, shared, crashes>>

Without(f, x) == [y \in DOMAIN f \ {x} |-> f[y]]

Commit(e) ==
    /\ e \in DOMAIN begun
    /\ begun' = Without(begun, e)
    /\ created' = [f \in Rows \cup {e} |-> IF f = e THEN begun[e] ELSE created[f]]
    /\ late' = IF \E f \in Rows : /\ created[f] > begun[e]
                                  /\ sent[f] > 0 \/ \E w \in Worker : f \in Todo(w)
               THEN late \cup {e} ELSE late
    /\ UNCHANGED <<marked, worker, sent, clock, failed, shared, crashes>>

Rollback(e) ==
    /\ e \in DOMAIN begun
    /\ begun' = Without(begun, e)
    /\ UNCHANGED <<created, marked, worker, sent, clock, failed, late, shared, crashes>>

(***************************************************************************)
(* OutboxWorker.                                                           *)
(***************************************************************************)
Onward(todo) == IF todo = {} THEN Idle ELSE [pc |-> "publish", todo |-> todo]

\* Mutants of the query: no ORDER BY; no test of published_at.
BatchInAnyOrder(b) ==
    /\ b \subseteq Unpublished
    /\ Cardinality(b) <= Limit
    /\ Cardinality(b) = Limit \/ b = Unpublished
BatchOfAll(b) ==
    /\ b \subseteq Rows
    /\ Cardinality(b) <= Limit
    /\ Cardinality(b) = Limit \/ b = Rows
    /\ \A e \in b, f \in Rows \ b : created[e] <= created[f]

\* GetUnpublishedOutboxEvents: WHERE published_at IS NULL ORDER BY created_at
\* LIMIT.  Among rows of the same created_at any may come first.
Batch(b) ==
    /\ b \subseteq Unpublished
    /\ Cardinality(b) <= Limit
    /\ Cardinality(b) = Limit \/ b = Unpublished
    /\ \A e \in b, f \in Unpublished \ b : created[e] <= created[f]

\* A tick of the worker; an error of the query waits for the next one.
Poll(w) ==
    /\ worker[w].pc = "idle"
    /\ \E b \in SUBSET Event : /\ b # {}
                               /\ Batch(b)
                               /\ worker' = [worker EXCEPT ![w] = Onward(b)]
                               /\ shared' = shared \cup
                                     {e \in b : \E v \in Worker : Holds(v, e)}
    /\ UNCHANGED <<begun, created, marked, sent, clock, failed, late, crashes>>

Oldest(w, e) ==
    /\ e \in Todo(w)
    /\ \A f \in Todo(w) : created[e] <= created[f]

\* A mutant: the missing continue after a publication that failed.
PublishRowNoContinue(w, e, o) ==
    /\ worker[w].pc = "publish"
    /\ Oldest(w, e)
    /\ e \in Poison => o = "lost"
    /\ sent' = IF Applied(o) THEN [sent EXCEPT ![e] = IF @ = 0 THEN 1 ELSE 2] ELSE sent
    /\ worker' = [worker EXCEPT ![w] = [pc |-> "mark", todo |-> @.todo \ {e}, row |-> e]]
    /\ failed' = IF o = "ok" THEN failed ELSE failed \cup {e}
    /\ UNCHANGED <<begun, created, marked, clock, late, shared, crashes>>

\* publishRow; an error is logged and the row left for a later poll.
PublishRow(w, e, o) ==
    /\ worker[w].pc = "publish"
    /\ Oldest(w, e)
    /\ e \in Poison => o = "lost"
    /\ sent' = IF Applied(o) THEN [sent EXCEPT ![e] = IF @ = 0 THEN 1 ELSE 2] ELSE sent
    /\ worker' = [worker EXCEPT ![w] =
                     IF o = "ok" THEN [pc |-> "mark", todo |-> @.todo \ {e}, row |-> e]
                                 ELSE Onward(@.todo \ {e})]
    /\ failed' = IF o = "ok" THEN failed ELSE failed \cup {e}
    /\ UNCHANGED <<begun, created, marked, clock, late, shared, crashes>>

\* MarkOutboxEventPublished; an error is logged and the row published again.
MarkPublished(w, o) ==
    /\ worker[w].pc = "mark"
    /\ marked' = IF Applied(o) THEN marked \cup {worker[w].row} ELSE marked
    /\ failed' = IF Applied(o) THEN failed ELSE failed \cup {worker[w].row}
    /\ worker' = [worker EXCEPT ![w] = Onward(@.todo)]
    /\ UNCHANGED <<begun, created, sent, clock, late, shared, crashes>>

(***************************************************************************)
(* The environment.                                                        *)
(***************************************************************************)
Tick ==
    /\ clock < MaxTime
    /\ clock' = clock + 1
    /\ UNCHANGED <<begun, created, marked, worker, sent, failed, late, shared, crashes>>

\* A replica dies and restarts: its batch and a mark still due are lost.
Crash(w) ==
    /\ crashes < MaxCrashes
    /\ crashes' = crashes + 1
    /\ failed' = IF worker[w].pc = "mark" THEN failed \cup {worker[w].row} ELSE failed
    /\ worker' = [worker EXCEPT ![w] = Idle]
    /\ UNCHANGED <<begun, created, marked, sent, clock, late, shared>>

Step(w) ==
    \/ Poll(w)
    \/ \E e \in Event, o \in Outcome : PublishRow(w, e, o)
    \/ \E o \in Outcome : MarkPublished(w, o)

Next ==
    \/ \E e \in Event : Insert(e) \/ Commit(e) \/ Rollback(e)
    \/ \E w \in Worker : Step(w) \/ Crash(w)
    \/ Tick

Spec == Init /\ [][Next]_vars

(***************************************************************************)
(* A worker that runs gets its ticks and its calls return; an outage of the*)
(* stream or the database ends: publishing, or marking, tried for ever is  *)
(* done for some row of some worker.                                       *)
(***************************************************************************)
Fairness ==
    /\ \A w \in Worker : WF_vars(Step(w))
    /\ SF_vars(\E w \in Worker : MarkPublished(w, "ok"))
    /\ SF_vars(\E w \in Worker, e \in Event : PublishRow(w, e, "ok"))

FairSpec == Spec /\ Fairness

(***************************************************************************)
(* Properties.                                                             *)
(***************************************************************************)

\* The stream takes an event twice only if a call on it failed, a crash cut it
\* short, or a replica read the row while another one held it.
SentOnce ==
    \A e \in Event : sent[e] > 1 => e \in failed \cup shared

\* Events reach the stream in the order of created_at, whatever the number of
\* workers, but for those whose publication failed before and those committed
\* after a younger one was read.
InOrder ==
    [][\A f \in Event : sent[f] = 0 /\ sent'[f] > 0 =>
          \A e \in Rows : created[e] < created[f] =>
             sent[e] > 0 \/ e \in failed \/ e \in late]_vars

\* The promise of the outbox: every committed event is published.  It is kept as
\* long as fewer rows than a poll returns are refused for ever: more of them,
\* once they are the oldest, are all that poll ever returns.
Promise == INSTANCE AtLeastOnce WITH
    Deliverable <- Event \ Poison,
    accepted <- Rows,
    delivered <- {e \in Event : sent[e] > 0}

KeepsPromise == Promise!Spec

(***************************************************************************)
(* What the proofs in OutboxProofs carry along: marks are true, a worker   *)
(* holds rows of the table only, marks what the stream took, and has in its*)
(* batch every older row that is not yet published.                        *)
(***************************************************************************)
\* Only what a transaction committed is published, and published_at is set only
\* of what the stream took.
MarkedIsSent ==
    /\ \A e \in Event : sent[e] > 0 => e \in Rows
    /\ \A e \in marked : sent[e] > 0

BatchIsComplete ==
    \A w \in Worker : \A f \in Todo(w), e \in Rows :
        created[e] < created[f] =>
            sent[e] > 0 \/ e \in failed \/ e \in late \/ e \in Todo(w)

WorkersHoldRows ==
    \A w \in Worker :
        /\ Todo(w) \subseteq Rows
        /\ worker[w].pc = "mark" => worker[w].row \in Rows /\ sent[worker[w].row] > 0

\* A row with no failure and no second reader has one holder at most, is not
\* yet published while it waits in a batch, and not yet marked while held; once
\* published it is marked or about to be.
HeldByOne(e) ==
    /\ sent[e] <= 1
    /\ sent[e] = 1 => e \in marked \/ \E w \in Worker : Marking(w, e)
    /\ \A w \in Worker :
          /\ e \in Todo(w) => sent[e] = 0
          /\ Holds(w, e) => e \notin marked
          /\ \A v \in Worker : Holds(w, e) /\ Holds(v, e) => v = w
HoldersSound == \A e \in Event \ (failed \cup shared) : HeldByOne(e)

OutboxInv ==
    /\ TypeOK
    /\ MarkedIsSent
    /\ DOMAIN begun \cap Rows = {}
    /\ WorkersHoldRows
    /\ BatchIsComplete
=============================================================================
