---------------------------- MODULE MCOrgGroups ----------------------------
(* Model-checking instances of OrgGroups. *)
EXTENDS OrgGroups, TLC

Interchangeable == Permutations(Group) \cup Permutations(User) \cup Permutations(Proc)
=============================================================================
