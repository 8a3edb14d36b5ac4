------------------------- MODULE MCIntrospectCache -------------------------
(* Model-checking instances of IntrospectCache. *)
EXTENDS IntrospectCache, TLC

Interchangeable == Permutations(Token) \cup Permutations(Proc)
=============================================================================
