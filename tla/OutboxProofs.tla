---------------------------- MODULE OutboxProofs ----------------------------
(***************************************************************************)
(* Proofs about Outbox for any number of rows and replicas, any batch size *)
(* and any set of rows the stream refuses: OutboxInv is inductive, the     *)
(* stream order is that of created_at, and every step is one of AtLeastOnce*)
(* or leaves it unchanged.                                                 *)
(***************************************************************************)
EXTENDS Outbox, TLAPS

LEMMA TypeInit == Init => OutboxInv
BY OutboxAssumption DEF Init, OutboxInv, TypeOK, MarkedIsSent, WorkersHoldRows,
   BatchIsComplete, Rows, Todo, Idle

\* What Onward makes of a batch is well typed and holds nothing else.
LEMMA OnwardFacts ==
    ASSUME NEW todo \in SUBSET Event
    PROVE  /\ Onward(todo) \in {Idle} \cup [pc : {"publish"}, todo : (SUBSET Event) \ {{}}]
           /\ Onward(todo).pc # "mark"
           /\ (IF Onward(todo).pc = "idle" THEN {} ELSE Onward(todo).todo) = todo
BY DEF Onward, Idle

LEMMA InsertStep ==
    ASSUME OutboxInv, NEW e \in Event, Insert(e)
    PROVE  OutboxInv'
BY DEF OutboxInv, Insert, TypeOK, MarkedIsSent, WorkersHoldRows, BatchIsComplete,
   Rows, Todo

LEMMA RollbackStep ==
    ASSUME OutboxInv, NEW e \in Event, Rollback(e)
    PROVE  OutboxInv'
BY DEF OutboxInv, Rollback, Without, TypeOK, MarkedIsSent, WorkersHoldRows,
   BatchIsComplete, Rows, Todo

LEMMA CommitStep ==
    ASSUME OutboxInv, NEW e \in Event, Commit(e)
    PROVE  OutboxInv'
<1> USE DEF OutboxInv, Commit, Rows, Todo
<1>1. /\ DOMAIN created' = DOMAIN created \cup {e}
      /\ \A f \in DOMAIN created : created'[f] = created[f]
      /\ created'[e] = begun[e]
      /\ e \notin DOMAIN created
  OBVIOUS
<1>2. TypeOK'
  BY <1>1 DEF TypeOK, Without
<1>3. MarkedIsSent'
  BY <1>1 DEF MarkedIsSent, TypeOK
<1>4. DOMAIN begun' \cap Rows' = {}
  BY <1>1 DEF Without
<1>5. WorkersHoldRows'
  BY <1>1 DEF WorkersHoldRows, TypeOK
<1>6. BatchIsComplete'
  <2> SUFFICES ASSUME NEW w \in Worker, NEW f \in Todo(w), NEW d \in Rows',
                      created'[d] < created'[f]
               PROVE  sent[d] > 0 \/ d \in failed \/ d \in late' \/ d \in Todo(w)
    BY DEF BatchIsComplete
  <2>1. f \in Rows /\ created'[f] = created[f]
    BY <1>1 DEF WorkersHoldRows
  <2>2. CASE d = e
    BY <2>1, <2>2, <1>1 DEF TypeOK
  <2>3. CASE d # e
    BY <2>1, <2>3, <1>1 DEF BatchIsComplete
  <2> QED BY <2>2, <2>3
<1> QED BY <1>2, <1>3, <1>4, <1>5, <1>6

LEMMA PollStep ==
    ASSUME OutboxInv, NEW w \in Worker, Poll(w)
    PROVE  OutboxInv'
<1>1. PICK b \in SUBSET Event : /\ b # {}
                               /\ Batch(b)
                               /\ worker' = [worker EXCEPT ![w] = Onward(b)]
  BY DEF Poll
<1>2. b \subseteq Rows
  BY <1>1 DEF Batch, Unpublished
<1>3. Todo(w)' = b /\ worker'[w].pc # "mark"
  BY <1>1, OnwardFacts DEF Todo, OutboxInv, TypeOK
<1>4. \A v \in Worker \ {w} : worker'[v] = worker[v] /\ Todo(v)' = Todo(v)
  BY <1>1 DEF Todo, OutboxInv, TypeOK
<1>5. TypeOK'
  BY <1>1, OnwardFacts DEF Poll, OutboxInv, TypeOK, Rows
<1>6. MarkedIsSent' /\ DOMAIN begun' \cap Rows' = {}
  BY DEF Poll, OutboxInv, MarkedIsSent, Rows
<1>7. WorkersHoldRows'
  BY <1>2, <1>3, <1>4 DEF Poll, OutboxInv, WorkersHoldRows, Rows
<1>8. BatchIsComplete'
  <2> SUFFICES ASSUME NEW v \in Worker, NEW f \in Todo(v)', NEW e \in Rows,
                      created[e] < created[f]
               PROVE  sent[e] > 0 \/ e \in failed \/ e \in late \/ e \in Todo(v)'
    BY DEF BatchIsComplete, Poll, Rows
  <2>1. CASE v = w
    <3>1. f \in b
      BY <2>1, <1>3
    <3>2. CASE e \in marked
      BY <3>2 DEF OutboxInv, MarkedIsSent
    <3>3. CASE e \notin marked
      <4>1. e \in b \/ created[f] <= created[e]
        BY <3>1, <3>3, <1>1 DEF Batch, Unpublished
      <4>2. created[e] \in Int /\ created[f] \in Int
        BY <1>2, <3>1, OutboxAssumption DEF OutboxInv, TypeOK
      <4> QED BY <4>1, <4>2, <2>1, <1>3
    <3> QED BY <3>2, <3>3
  <2>2. CASE v # w
    BY <2>2, <1>4 DEF OutboxInv, BatchIsComplete
  <2> QED BY <2>1, <2>2
<1> QED BY <1>5, <1>6, <1>7, <1>8 DEF OutboxInv

\* What publishRow does to the batch, to the row and to the other workers.
LEMMA PublishFacts ==
    ASSUME OutboxInv, NEW w \in Worker, NEW e \in Event, NEW o \in Outcome,
           PublishRow(w, e, o)
    PROVE  /\ e \in Rows
           /\ Todo(w)' = Todo(w) \ {e}
           /\ \A v \in Worker \ {w} : worker'[v] = worker[v] /\ Todo(v)' = Todo(v)
           /\ sent' \in [Event -> 0..2]
           /\ \A f \in Event : sent[f] > 0 => sent'[f] > 0
           /\ \A f \in Event \ {e} : sent'[f] = sent[f]
           /\ sent'[e] > 0 \/ e \in failed'
           /\ worker'[w].pc = "mark" => worker'[w].row = e /\ sent'[e] > 0
           /\ worker'[w] \in {Idle} \cup [pc : {"publish"}, todo : (SUBSET Event) \ {{}}]
                                    \cup [pc : {"mark"}, todo : SUBSET Event, row : Event]
<1> USE DEF PublishRow, OutboxInv
<1>1. e \in Todo(w) /\ Todo(w) = worker[w].todo /\ e \in Rows /\ Todo(w) \subseteq Event
  BY DEF Oldest, Todo, WorkersHoldRows, TypeOK
<1>2. /\ sent' \in [Event -> 0..2]
      /\ \A f \in Event : sent[f] > 0 => sent'[f] > 0
      /\ \A f \in Event \ {e} : sent'[f] = sent[f]
      /\ Applied(o) => sent'[e] > 0
  BY DEF TypeOK
<1>3. \A v \in Worker \ {w} : worker'[v] = worker[v] /\ Todo(v)' = Todo(v)
  BY DEF Todo, TypeOK
<1>4. CASE o = "ok"
  <2>1. worker'[w] = [pc |-> "mark", todo |-> worker[w].todo \ {e}, row |-> e]
    BY <1>4 DEF TypeOK
  <2>2. Applied(o)
    BY <1>4 DEF Applied
  <2> QED BY <1>1, <1>2, <1>3, <2>1, <2>2 DEF Todo
<1>5. CASE o # "ok"
  <2>1. worker'[w] = Onward(worker[w].todo \ {e})
    BY <1>5 DEF TypeOK
  <2>2. e \in failed'
    BY <1>5
  <2>3. worker[w].todo \ {e} \in SUBSET Event
    BY <1>1
  <2>4. Todo(w)' = Todo(w) \ {e} /\ worker'[w].pc # "mark"
    BY <1>1, <2>1, <2>3, OnwardFacts DEF Todo
  <2>5. worker'[w] \in {Idle} \cup [pc : {"publish"}, todo : (SUBSET Event) \ {{}}]
    BY <2>1, <2>3, OnwardFacts
  <2> QED BY <1>1, <1>2, <1>3, <2>2, <2>4, <2>5
<1> QED BY <1>4, <1>5

LEMMA PublishStep ==
    ASSUME OutboxInv, NEW w \in Worker, NEW e \in Event, NEW o \in Outcome,
           PublishRow(w, e, o)
    PROVE  OutboxInv'
<1>1. /\ created' = created /\ begun' = begun /\ marked' = marked /\ late' = late
      /\ clock' = clock /\ crashes' = crashes /\ shared' = shared
      /\ failed \subseteq failed' /\ failed' \subseteq failed \cup {e}
      /\ worker' \in [Worker -> {worker'[v] : v \in Worker}]
      /\ Rows' = Rows
  BY DEF PublishRow, OutboxInv, TypeOK, Rows
<1>2. TypeOK'
  BY <1>1, PublishFacts DEF OutboxInv, TypeOK, Rows
<1>3. MarkedIsSent' /\ DOMAIN begun' \cap Rows' = {}
  BY <1>1, PublishFacts DEF OutboxInv, MarkedIsSent, TypeOK, Rows
<1>4. WorkersHoldRows'
  BY <1>1, PublishFacts DEF OutboxInv, WorkersHoldRows, TypeOK
<1>5. BatchIsComplete'
  <2> SUFFICES ASSUME NEW v \in Worker, NEW f \in Todo(v)', NEW d \in Rows,
                      created[d] < created[f]
               PROVE  sent'[d] > 0 \/ d \in failed' \/ d \in late \/ d \in Todo(v)'
    BY <1>1 DEF BatchIsComplete
  <2>1. f \in Todo(v)
    BY PublishFacts
  <2>2. sent[d] > 0 \/ d \in failed \/ d \in late \/ d \in Todo(v)
    BY <2>1 DEF OutboxInv, BatchIsComplete
  <2>3. d \in Event
    BY DEF OutboxInv, TypeOK
  <2> QED BY <1>1, <2>2, <2>3, PublishFacts
<1> QED BY <1>2, <1>3, <1>4, <1>5 DEF OutboxInv

LEMMA MarkStep ==
    ASSUME OutboxInv, NEW w \in Worker, NEW o \in Outcome, MarkPublished(w, o)
    PROVE  OutboxInv'
<1> USE DEF MarkPublished, OutboxInv
<1>1. /\ worker[w].todo \in SUBSET Event
      /\ Todo(w) = worker[w].todo
      /\ worker[w].row \in Rows
      /\ sent[worker[w].row] > 0
  BY DEF TypeOK, Todo, WorkersHoldRows
<1>2. worker'[w] = Onward(worker[w].todo)
  BY DEF TypeOK
<1>3. Todo(w)' = Todo(w) /\ worker'[w].pc # "mark"
  BY SMTT(30), <1>1, <1>2, OnwardFacts DEF Todo
<1>4. \A v \in Worker \ {w} : worker'[v] = worker[v] /\ Todo(v)' = Todo(v)
  BY DEF Todo, TypeOK
<1>5. worker'[w] \in {Idle} \cup [pc : {"publish"}, todo : (SUBSET Event) \ {{}}]
  BY <1>1, <1>2, OnwardFacts
<1>6. TypeOK'
  BY <1>1, <1>5 DEF TypeOK, Rows
<1>7. MarkedIsSent' /\ DOMAIN begun' \cap Rows' = {}
  BY <1>1 DEF MarkedIsSent, Rows
<1>8. WorkersHoldRows'
  BY <1>3, <1>4 DEF WorkersHoldRows, Rows
<1>9. BatchIsComplete'
  BY <1>3, <1>4 DEF BatchIsComplete, Rows
<1> QED BY <1>6, <1>7, <1>8, <1>9

LEMMA CrashStep ==
    ASSUME OutboxInv, NEW w \in Worker, Crash(w)
    PROVE  OutboxInv'
<1> USE DEF Crash, OutboxInv
<1>1. Todo(w)' = {} /\ worker'[w] = Idle /\ worker'[w].pc # "mark"
  BY DEF Todo, TypeOK, Idle
<1>2. \A v \in Worker \ {w} : worker'[v] = worker[v] /\ Todo(v)' = Todo(v)
  BY DEF Todo, TypeOK
<1>3. TypeOK'
  BY <1>1, <1>2, OutboxAssumption DEF TypeOK, Rows
<1>4. MarkedIsSent' /\ DOMAIN begun' \cap Rows' = {}
  BY DEF MarkedIsSent, Rows
<1>5. WorkersHoldRows'
  BY <1>1, <1>2 DEF WorkersHoldRows, Rows
<1>6. BatchIsComplete'
  BY <1>1, <1>2 DEF BatchIsComplete, Rows
<1> QED BY <1>3, <1>4, <1>5, <1>6

LEMMA TickStep ==
    ASSUME OutboxInv, Tick
    PROVE  OutboxInv'
BY OutboxAssumption DEF OutboxInv, Tick, TypeOK, MarkedIsSent, WorkersHoldRows,
   BatchIsComplete, Rows, Todo

LEMMA Stutter ==
    ASSUME OutboxInv, UNCHANGED vars
    PROVE  OutboxInv'
BY DEF OutboxInv, vars, TypeOK, MarkedIsSent, WorkersHoldRows, BatchIsComplete,
   Rows, Todo

\* OutboxInv holds in every reachable state.
THEOREM Invariant == Spec => []OutboxInv
<1>1. OutboxInv /\ [Next]_vars => OutboxInv'
  <2> SUFFICES ASSUME OutboxInv, [Next]_vars PROVE OutboxInv'
    OBVIOUS
  <2>1. CASE \E e \in Event : Insert(e) \/ Commit(e) \/ Rollback(e)
    BY <2>1, InsertStep, CommitStep, RollbackStep
  <2>2. CASE \E w \in Worker : Step(w)
    <3>1. PICK w \in Worker : Step(w)
      BY <2>2
    <3>2. CASE Poll(w)
      BY <3>2, PollStep
    <3>3. CASE \E e \in Event, o \in Outcome : PublishRow(w, e, o)
      BY <3>3, PublishStep
    <3>4. CASE \E o \in Outcome : MarkPublished(w, o)
      BY <3>4, MarkStep
    <3> QED BY <3>1, <3>2, <3>3, <3>4 DEF Step
  <2>3. CASE \E w \in Worker : Crash(w)
    BY <2>3, CrashStep
  <2>4. CASE Tick
    BY <2>4, TickStep
  <2>5. CASE UNCHANGED vars
    BY <2>5, Stutter
  <2> QED BY <2>1, <2>2, <2>3, <2>4, <2>5 DEF Next
<1> QED BY <1>1, TypeInit, PTL DEF Spec

\* TypeOK: in particular no worker holds an empty batch.
THEOREM TypeCorrect == Spec => []TypeOK
BY Invariant, PTL DEF OutboxInv

\* MarkedIsSent: published_at is set only of what the stream took, and only
\* committed rows are published.
THEOREM MarksAreTrue == Spec => []MarkedIsSent
BY Invariant, PTL DEF OutboxInv

\* No row is out and none is held in the initial state.
LEMMA HoldersInit == Init => HoldersSound
BY DEF Init, HoldersSound, HeldByOne, Holds, Marking, Todo, Idle

\* Steps that touch no worker, no row that is out and no mark.
LEMMA HoldersQuiet ==
    ASSUME HoldersSound, UNCHANGED <<worker, sent, marked, failed, shared>>
    PROVE  HoldersSound'
BY DEF HoldersSound, HeldByOne, Holds, Marking, Todo

\* A poll takes rows that are not marked; one held already becomes shared.
LEMMA HoldersPoll ==
    ASSUME OutboxInv, HoldersSound, NEW w \in Worker, Poll(w)
    PROVE  HoldersSound'
<1>1. PICK b \in SUBSET Event : /\ b # {}
                               /\ Batch(b)
                               /\ worker' = [worker EXCEPT ![w] = Onward(b)]
                               /\ shared' = shared \cup
                                     {e \in b : \E v \in Worker : Holds(v, e)}
  BY DEF Poll
<1>2. Todo(w)' = b /\ worker'[w].pc # "mark"
  BY <1>1, OnwardFacts DEF Todo, OutboxInv, TypeOK
<1>3. \A v \in Worker \ {w} : worker'[v] = worker[v] /\ Todo(v)' = Todo(v)
  BY <1>1 DEF Todo, OutboxInv, TypeOK
<1>4. /\ sent' = sent /\ marked' = marked /\ failed' = failed /\ worker[w].pc = "idle"
  BY DEF Poll
<1> SUFFICES ASSUME NEW e \in Event \ (failed' \cup shared') PROVE HeldByOne(e)'
  BY DEF HoldersSound
<1>5. HeldByOne(e) /\ sent[e] \in 0..2
  BY <1>1, <1>4 DEF HoldersSound, OutboxInv, TypeOK
<1>6. \A v \in Worker \ {w} : (Holds(v, e)' <=> Holds(v, e)) /\ (Marking(v, e)' <=> Marking(v, e))
  BY <1>3 DEF Holds, Marking
<1>7. ~Marking(w, e) /\ ~Marking(w, e)' /\ (Holds(w, e)' <=> e \in b)
  BY <1>2, <1>4 DEF Holds, Marking
<1>8. CASE e \in b
  <2>1. \A v \in Worker : ~Holds(v, e)
    BY <1>1, <1>8
  <2>2. e \notin marked
    BY <1>1, <1>8 DEF Batch, Unpublished
  <2>3. sent[e] = 0
    BY <2>1, <2>2, <1>5 DEF HeldByOne, Holds
  <2> QED BY <2>1, <2>2, <2>3, <1>4, <1>5, <1>6, <1>7 DEF HeldByOne
<1>9. CASE e \notin b
  BY <1>9, <1>2, <1>3, <1>4, <1>5, <1>6, <1>7 DEF HeldByOne
<1> QED BY <1>8, <1>9

\* publishRow: the row leaves the batch with sent = 0, and is marked next or failed.
LEMMA HoldersPublish ==
    ASSUME OutboxInv, HoldersSound, NEW w \in Worker, NEW d \in Event, NEW o \in Outcome,
           PublishRow(w, d, o)
    PROVE  HoldersSound'
<1>1. /\ marked' = marked /\ shared' = shared /\ failed \subseteq failed'
      /\ d \notin failed' => o = "ok"
      /\ worker[w].pc = "publish" /\ d \in Todo(w)
  BY DEF PublishRow, Oldest
<1>2. /\ Todo(w)' = Todo(w) \ {d}
      /\ \A v \in Worker \ {w} : worker'[v] = worker[v] /\ Todo(v)' = Todo(v)
      /\ \A f \in Event \ {d} : sent'[f] = sent[f]
      /\ worker'[w].pc = "mark" => worker'[w].row = d
  BY PublishFacts
<1> SUFFICES ASSUME NEW e \in Event \ (failed' \cup shared') PROVE HeldByOne(e)'
  BY DEF HoldersSound
<1>3. HeldByOne(e)
  BY <1>1 DEF HoldersSound
<1>4. \A v \in Worker \ {w} : (Holds(v, e)' <=> Holds(v, e)) /\ (Marking(v, e)' <=> Marking(v, e))
  BY <1>2 DEF Holds, Marking
<1>5. CASE e = d
  <2>1. worker'[w] = [pc |-> "mark", todo |-> worker[w].todo \ {d}, row |-> d]
    BY <1>1, <1>5 DEF PublishRow, OutboxInv, TypeOK
  <2>2. Marking(w, e)' /\ e \notin Todo(w)' /\ Holds(w, e)
    BY <1>1, <1>2, <1>5, <2>1 DEF Marking, Holds
  <2>3. sent[e] = 0 /\ sent'[e] = 1
    <3>1. sent[e] = 0
      BY <1>1, <1>3, <1>5 DEF HeldByOne
    <3>2. sent' = [sent EXCEPT ![d] = IF @ = 0 THEN 1 ELSE 2]
      BY <1>1, <1>5 DEF PublishRow, Applied
    <3> QED BY <3>1, <3>2, <1>5 DEF OutboxInv, TypeOK
  <2>4. \A v \in Worker \ {w} : ~Holds(v, e)
    BY <1>3, <2>2 DEF HeldByOne
  <2>5. e \notin marked
    BY <1>3, <2>2 DEF HeldByOne
  <2>6. \A v \in Worker \ {w} : e \notin Todo(v)' /\ ~Holds(v, e)'
    BY <1>4, <2>4 DEF Holds
  <2> QED BY <1>1, <2>2, <2>3, <2>5, <2>6 DEF HeldByOne
<1>6. CASE e # d
  <2>1. sent'[e] = sent[e] /\ (e \in Todo(w)' <=> e \in Todo(w))
    BY <1>2, <1>6
  <2>2. ~Marking(w, e) /\ ~Marking(w, e)' /\ (Holds(w, e)' <=> Holds(w, e))
    BY <1>1, <1>2, <1>6, <2>1 DEF Marking, Holds
  <2> QED BY <1>1, <1>2, <1>3, <1>4, <2>1, <2>2 DEF HeldByOne
<1> QED BY <1>5, <1>6

\* MarkPublished: the row is marked or failed, and w holds it no more.
LEMMA HoldersMark ==
    ASSUME OutboxInv, HoldersSound, NEW w \in Worker, NEW o \in Outcome, MarkPublished(w, o)
    PROVE  HoldersSound'
<1> DEFINE d == worker[w].row
<1>1. /\ sent' = sent /\ shared' = shared /\ failed \subseteq failed'
      /\ d \notin failed' => marked' = marked \cup {d}
      /\ marked \subseteq marked' /\ marked' \subseteq marked \cup {d}
      /\ Marking(w, d)
  BY DEF MarkPublished, Marking
<1>2. worker[w].todo \in SUBSET Event /\ Todo(w) = worker[w].todo
  BY DEF MarkPublished, OutboxInv, TypeOK, Todo, Idle
<1>3. worker'[w] = Onward(worker[w].todo)
  BY DEF MarkPublished, OutboxInv, TypeOK
<1>4. Todo(w)' = Todo(w) /\ worker'[w].pc # "mark"
  BY <1>2, <1>3, OnwardFacts DEF Todo
<1>5. \A v \in Worker \ {w} : worker'[v] = worker[v] /\ Todo(v)' = Todo(v)
  BY DEF MarkPublished, Todo, OutboxInv, TypeOK
<1> SUFFICES ASSUME NEW e \in Event \ (failed' \cup shared') PROVE HeldByOne(e)'
  BY DEF HoldersSound
<1>6. HeldByOne(e)
  BY <1>1 DEF HoldersSound
<1>7. \A v \in Worker \ {w} : (Holds(v, e)' <=> Holds(v, e)) /\ (Marking(v, e)' <=> Marking(v, e))
  BY <1>5 DEF Holds, Marking
<1>8. (Holds(w, e)' <=> e \in Todo(w)) /\ ~Marking(w, e)'
  BY <1>4 DEF Holds, Marking
<1>9. CASE e = d
  <2>1. e \in marked' /\ Holds(w, e) /\ e \notin Todo(w)
    <3>1. Marking(w, e) /\ sent[e] > 0
      BY <1>1, <1>9 DEF Marking, OutboxInv, WorkersHoldRows
    <3> QED BY <3>1, <1>1, <1>6, <1>9 DEF HeldByOne, Holds
  <2>2. \A v \in Worker : ~Holds(v, e)'
    BY <1>6, <1>7, <1>8, <2>1 DEF HeldByOne
  <2>3. \A v \in Worker : e \notin Todo(v)'
    BY <2>2 DEF Holds
  <2> QED BY <1>1, <1>6, <2>1, <2>2, <2>3 DEF HeldByOne
<1>10. CASE e # d
  <2>1. (e \in marked' <=> e \in marked) /\ ~Marking(w, e)
    BY <1>1, <1>10 DEF Marking
  <2>2. Holds(w, e)' <=> Holds(w, e)
    BY <1>8, <2>1 DEF Holds
  <2> QED BY <1>1, <1>4, <1>5, <1>6, <1>7, <1>8, <2>1, <2>2 DEF HeldByOne
<1> QED BY <1>9, <1>10

\* A crash lets go of the batch; a mark that was due makes the row a failed one.
LEMMA HoldersCrash ==
    ASSUME OutboxInv, HoldersSound, NEW w \in Worker, Crash(w)
    PROVE  HoldersSound'
<1>1. /\ sent' = sent /\ shared' = shared /\ marked' = marked /\ failed \subseteq failed'
      /\ \A e \in Event : Marking(w, e) => e \in failed'
  BY DEF Crash, Marking
<1>2. Todo(w)' = {} /\ worker'[w].pc # "mark"
  BY DEF Crash, OutboxInv, TypeOK, Todo, Idle
<1>3. \A v \in Worker \ {w} : worker'[v] = worker[v] /\ Todo(v)' = Todo(v)
  BY DEF Crash, OutboxInv, TypeOK, Todo
<1> SUFFICES ASSUME NEW e \in Event \ (failed' \cup shared') PROVE HeldByOne(e)'
  BY DEF HoldersSound
<1>4. HeldByOne(e) /\ ~Marking(w, e)
  BY <1>1 DEF HoldersSound
<1>5. \A v \in Worker \ {w} : (Holds(v, e)' <=> Holds(v, e)) /\ (Marking(v, e)' <=> Marking(v, e))
  BY <1>3 DEF Holds, Marking
<1>6. ~Holds(w, e)' /\ ~Marking(w, e)'
  BY <1>2 DEF Holds, Marking
<1> QED BY <1>1, <1>2, <1>3, <1>4, <1>5, <1>6 DEF HeldByOne

\* SentOnce: for any number of replicas, the stream takes an event twice only
\* after a failure or when two of them had read the row.
THEOREM DuplicatesExplained == Spec => []SentOnce
<1>1. ASSUME OutboxInv, HoldersSound, [Next]_vars PROVE HoldersSound'
  <2>1. CASE \E w \in Worker : Poll(w)
    BY <1>1, <2>1, HoldersPoll
  <2>2. CASE \E w \in Worker, e \in Event, o \in Outcome : PublishRow(w, e, o)
    BY <1>1, <2>2, HoldersPublish
  <2>3. CASE \E w \in Worker, o \in Outcome : MarkPublished(w, o)
    BY <1>1, <2>3, HoldersMark
  <2>4. CASE \E w \in Worker : Crash(w)
    BY <1>1, <2>4, HoldersCrash
  <2>5. CASE \E e \in Event : Insert(e) \/ Commit(e) \/ Rollback(e)
    BY <1>1, <2>5, HoldersQuiet DEF Insert, Commit, Rollback
  <2>6. CASE Tick \/ UNCHANGED vars
    BY <1>1, <2>6, HoldersQuiet DEF Tick, vars
  <2> QED BY <1>1, <2>1, <2>2, <2>3, <2>4, <2>5, <2>6 DEF Next, Step
<1>2. OutboxInv /\ HoldersSound => SentOnce
  BY DEF SentOnce, HoldersSound, HeldByOne, OutboxInv, TypeOK
<1> QED BY <1>1, <1>2, HoldersInit, Invariant, PTL DEF Spec

\* InOrder: the stream takes events in the order of created_at, but for those
\* that failed or were committed late.
THEOREM StreamInOrder == Spec => InOrder
<1> DEFINE A == \A f \in Event : sent[f] = 0 /\ sent'[f] > 0 =>
                   \A e \in Rows : created[e] < created[f] =>
                      sent[e] > 0 \/ e \in failed \/ e \in late
<1>1. OutboxInv /\ [Next]_vars => [A]_vars
  <2> SUFFICES ASSUME OutboxInv, Next,
                      NEW f \in Event, sent[f] = 0, sent'[f] > 0,
                      NEW e \in Rows, created[e] < created[f]
               PROVE  sent[e] > 0 \/ e \in failed \/ e \in late
    OBVIOUS
  <2>0. sent' # sent
    OBVIOUS
  <2>1. PICK w \in Worker, g \in Event, o \in Outcome : PublishRow(w, g, o)
    BY <2>0 DEF Next, Step, Insert, Commit, Rollback, Poll, MarkPublished, Crash, Tick
  <2>2. g = f
    BY <2>1, PublishFacts DEF OutboxInv, TypeOK
  <2>3. Oldest(w, f)
    BY <2>1, <2>2 DEF PublishRow
  <2>4. e \notin Todo(w)
    <3>1. created[e] \in Int /\ created[f] \in Int
      BY <2>3, OutboxAssumption DEF Oldest, OutboxInv, TypeOK, WorkersHoldRows
    <3> QED BY <3>1, <2>3 DEF Oldest
  <2> QED BY <2>3, <2>4 DEF Oldest, OutboxInv, BatchIsComplete
<1> QED BY <1>1, Invariant, PTL DEF Spec, InOrder

\* Every behaviour is one of AtLeastOnce: what is published was committed, and
\* neither is ever undone.  That it is published in the end is left to TLC.
THEOREM ImplementsSafety == Spec => Promise!SafeSpec
<1>1. Init => Promise!Init
  BY DEF Init, Promise!Init, Rows
<1>2. OutboxInv /\ [Next]_vars => [Promise!Next]_(Promise!vars)
  <2> SUFFICES ASSUME OutboxInv, [Next]_vars
               PROVE  Promise!Next \/ UNCHANGED Promise!vars
    BY DEF Promise!vars
  <2> DEFINE Sent == {e \in Event : sent[e] > 0}
  <2>1. CASE sent' = sent /\ Rows' = Rows
    BY <2>1 DEF Promise!vars
  <2>2. ASSUME NEW e \in Event, Commit(e)
        PROVE  Promise!Accept(e)
    <3>1. Rows' = Rows \cup {e} /\ sent' = sent
      BY <2>2 DEF Commit, Rows
    <3> QED BY <3>1 DEF Promise!Accept
  <2>3. ASSUME NEW w \in Worker, NEW e \in Event, NEW o \in Outcome, PublishRow(w, e, o)
        PROVE  Promise!Deliver(e) \/ UNCHANGED Promise!vars
    <3>1. Rows' = Rows /\ e \in Rows
      BY <2>3, PublishFacts DEF PublishRow, Rows
    <3>2. CASE Sent' = Sent
      BY <3>1, <3>2 DEF Promise!vars
    <3>3. CASE Sent' = Sent \cup {e}
      BY <3>1, <3>3 DEF Promise!Deliver
    <3>4. Sent' = Sent \/ Sent' = Sent \cup {e}
      BY <2>3, PublishFacts
    <3> QED BY <3>2, <3>3, <3>4
  <2>4. \/ sent' = sent /\ Rows' = Rows
        \/ \E e \in Event : Commit(e)
        \/ \E w \in Worker, e \in Event, o \in Outcome : PublishRow(w, e, o)
    BY DEF Next, vars, Step, Insert, Rollback, Poll, MarkPublished, Crash, Tick, Rows
  <2> QED BY <2>1, <2>2, <2>3, <2>4 DEF Promise!Next
<1> QED BY <1>1, <1>2, Invariant, PTL DEF Spec, Promise!SafeSpec
=============================================================================
