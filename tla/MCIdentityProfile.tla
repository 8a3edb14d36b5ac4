-------------------------- MODULE MCIdentityProfile --------------------------
(* Model-checking instances of IdentityProfile. *)
EXTENDS IdentityProfile, TLC

Interchangeable == Permutations(Proc) \cup Permutations(Field) \cup Permutations(Value)
=============================================================================
