--------------------------- MODULE MCPushDelivery ---------------------------
(* Model-checking instances of PushDelivery. *)
EXTENDS PushDelivery, TLC

Interchangeable == Permutations(User) \cup Permutations(Device)
                   \cup Permutations(Notification)

\* Bound: one of the users states preferences.
OneChooses == \E u \in User : DOMAIN prefs \subseteq {u} \X EventType
=============================================================================
