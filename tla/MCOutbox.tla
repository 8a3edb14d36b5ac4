------------------------------ MODULE MCOutbox ------------------------------
(* Model-checking instances of Outbox. *)
EXTENDS Outbox, TLC

Interchangeable == Permutations(Event) \cup Permutations(Worker)
=============================================================================
