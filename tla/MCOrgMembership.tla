-------------------------- MODULE MCOrgMembership --------------------------
(* Model-checking instances of OrgMembership. *)
EXTENDS OrgMembership, TLC

Interchangeable == Permutations(Org) \cup Permutations(Slug) \cup Permutations(User)
                   \cup Permutations(Inv) \cup Permutations(Proc)
=============================================================================
