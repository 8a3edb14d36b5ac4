---------------------- MODULE MCNotificationSubscriber ----------------------
(* Model-checking instances of NotificationSubscriber. *)
EXTENDS NotificationSubscriber, TLC

Interchangeable == Permutations(Event) \cup Permutations(User)
=============================================================================
