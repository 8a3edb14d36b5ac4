---------------------------- MODULE AtLeastOnce ----------------------------
(***************************************************************************)
(* What the transactional outbox promises (schema.sql: "domain events are  *)
(* written here in the same transaction as aggregate persistence; a        *)
(* background worker polls and publishes to NATS"): what a transaction     *)
(* committed is published, nothing else is, and none is forgotten.         *)
(***************************************************************************)
CONSTANTS
    Event,        \* the events
    Deliverable   \* a subset of them: those the stream does not refuse for ever

VARIABLES
    accepted,     \* events handed over so far
    delivered     \* events published so far

vars == <<accepted, delivered>>

Init ==
    /\ accepted = {}
    /\ delivered = {}

Accept(e) ==
    /\ accepted' = accepted \cup {e}
    /\ UNCHANGED delivered

\* Delivering an event again changes nothing here.
Deliver(e) ==
    /\ e \in accepted
    /\ delivered' = delivered \cup {e}
    /\ UNCHANGED accepted

Next == \E e \in Event : Accept(e) \/ Deliver(e)

SafeSpec == Init /\ [][Next]_vars

Spec == SafeSpec /\ \A e \in Deliverable : WF_vars(Deliver(e))
=============================================================================
