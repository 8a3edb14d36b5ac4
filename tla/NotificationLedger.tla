------------------------- MODULE NotificationLedger -------------------------
(***************************************************************************)
(* What the notification service promises of the messages it consumes,     *)
(* whatever it, JetStream and the database go through: a message is tried  *)
(* a limited number of times and never again once it is closed; a user it  *)
(* is owed to gets at most one row per try; push comes after the row; and  *)
(* a message is closed when everybody it is owed to has a row, or is one   *)
(* the attempt has failed for.                                             *)
(***************************************************************************)
EXTENDS Integers

CONSTANTS
    Event,      \* messages
    User,       \* users
    MaxTries    \* how often a message is tried at most

VARIABLES
    tries,      \* of each message
    owed,       \* pairs of a message and a user it is to reach
    excused,    \* those given up
    rows,       \* notifications, for a message and a user
    told,       \* pairs push was called for
    closed      \* messages done with

vars == <<tries, owed, excused, rows, told, closed>>

Init ==
    /\ tries = [e \in Event |-> 0]
    /\ owed = {}
    /\ excused = {}
    /\ rows = [r \in Event \X User |-> 0]
    /\ told = {}
    /\ closed = {}

Try(e) ==
    /\ e \notin closed
    /\ tries[e] < MaxTries
    /\ tries' = [tries EXCEPT ![e] = @ + 1]
    /\ UNCHANGED <<owed, excused, rows, told, closed>>

\* The users a message is for are known, or are looked up again.
Owe(e, users) ==
    /\ e \notin closed
    /\ owed' = (owed \ ({e} \X User)) \cup ({e} \X users)
    /\ excused' = excused \ ({e} \X User)
    /\ UNCHANGED <<tries, rows, told, closed>>

\* A try that is still under way when the message is closed ends as it likes.
Save(e, u) ==
    /\ rows[<<e, u>>] < tries[e]
    /\ e \in closed \/ <<e, u>> \in owed
    /\ rows' = [rows EXCEPT ![<<e, u>>] = @ + 1]
    /\ UNCHANGED <<tries, owed, excused, told, closed>>

Excuse(e, u) ==
    /\ <<e, u>> \in owed
    /\ excused' = excused \cup {<<e, u>>}
    /\ UNCHANGED <<tries, owed, rows, told, closed>>

Tell(e, u) ==
    /\ rows[<<e, u>>] > 0
    /\ told' = told \cup {<<e, u>>}
    /\ UNCHANGED <<tries, owed, excused, rows, closed>>

Close(e) ==
    /\ tries[e] > 0
    /\ \A u \in User : <<e, u>> \in owed \ excused => rows[<<e, u>>] > 0
    /\ closed' = closed \cup {e}
    /\ UNCHANGED <<tries, owed, excused, rows, told>>

Next ==
    \E e \in Event :
        \/ Try(e)
        \/ \E users \in SUBSET User : Owe(e, users)
        \/ \E u \in User : Save(e, u) \/ Excuse(e, u) \/ Tell(e, u)
        \/ Close(e)

Spec == Init /\ [][Next]_vars
=============================================================================
