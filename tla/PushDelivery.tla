---------------------------- MODULE PushDelivery ----------------------------
(***************************************************************************)
(* How tryPush sends: Dispatcher, FCMAdapter and APNsAdapter, and the      *)
(* ServiceAccountTokenSource the FCM adapter takes its bearer tokens from. *)
(*                                                                         *)
(* Every Send of DevicePush to an FCM device becomes three calls: Token,   *)
(* which holds a mutex from its look at the cache to the answer of the     *)
(* token endpoint, that endpoint's own work, and the POST to FCM.  The     *)
(* notifications a fan-out pushes at the same time meet in the mutex.      *)
(*                                                                         *)
(* Time is counted in ticks and passes during calls and while a caller     *)
(* waits for the mutex, not between two calls.                             *)
(***************************************************************************)
EXTENDS DevicePush, Integers, Sequences

CONSTANTS
    Fcm,        \* the push tokens FCM gave; APNs gave the others
    Lifetime,   \* expires_in of the token endpoint's answers
    Lead,       \* tokenRefreshLead: 5 minutes
    Timeout,    \* of the client of the token endpoint: 10 seconds
    MaxTime     \* bound on the clock

ASSUME PushDeliveryAssumption ==
    /\ Fcm \subseteq PushToken
    /\ IsFiniteSet(Notification)
    /\ Lifetime \in Nat /\ Lead \in Nat /\ Timeout \in Nat /\ MaxTime \in Nat

VARIABLES
    clock,      \* time.Now()
    mutex,      \* callers of Token: the first holds the mutex, the others wait for
                \* it; sync.Mutex keeps their order once they wait a millisecond
    cache,      \* cachedToken, NoToken before the first
    call        \* of each notification: the Send to an FCM device under way

source == <<clock, mutex, cache, call>>
deliveryVars == <<vars, source>>

Time == 0..(MaxTime + Lifetime)
NoToken == [expiresAt |-> 0 - 1]
\* A bearer token: when the cache believes that it expires, and when it does.
Bearer == [expiresAt : Time, validUntil : Time]
NoCall == [pc |-> "none"]
Address == Device \X PushToken
FcmCall ==
    {NoCall}
    \cup [pc : {"lock"}, to : Address, since : Time]
    \cup [pc : {"fetch", "granted"}, to : Address, since : Time, start : Time, validUntil : Time]
    \cup [pc : {"post"}, to : Address, bearer : Bearer]

InToken(n) == call[n].pc \in {"lock", "fetch", "granted"}

\* The mutex is held or waited for by who is in Token, once, and who waits has
\* not looked at the cache.
MutexOK ==
    /\ \A i, j \in DOMAIN mutex : mutex[i] = mutex[j] => i = j
    /\ \A n \in Notification : InToken(n) <=> \E i \in DOMAIN mutex : mutex[i] = n
    /\ \A i \in DOMAIN mutex : i > 1 => call[mutex[i]].pc = "lock"

SourceTypeOK ==
    /\ clock \in 0..MaxTime
    /\ mutex \in Seq(Notification)
    /\ cache \in {NoToken} \cup Bearer
    /\ call \in [Notification -> FcmCall]

DeliveryTypeOK == TypeOK /\ SourceTypeOK /\ MutexOK

DeliveryInit ==
    /\ Init
    /\ clock = 0
    /\ mutex = <<>>
    /\ cache = NoToken
    /\ call = [n \in Notification |-> NoCall]

(***************************************************************************)
(* ServiceAccountTokenSource.Token.                                        *)
(***************************************************************************)
Lock(n, x) ==
    /\ push[n].pc = "send" /\ x \in push[n].tokens /\ x[2] \in Fcm
    /\ call[n] = NoCall
    /\ mutex' = Append(mutex, n)
    /\ call' = [call EXCEPT ![n] = [pc |-> "lock", to |-> x, since |-> clock]]
    /\ UNCHANGED <<vars, clock, cache>>

\* A mutant: the lead is forgotten.
FreshTillTheEnd == cache # NoToken /\ cache.expiresAt - clock > 0

Fresh == cache # NoToken /\ cache.expiresAt - clock > Lead

Post(n, bearer) == [pc |-> "post", to |-> call[n].to, bearer |-> bearer]
Fetch(n) == [pc |-> "fetch", to |-> call[n].to, since |-> call[n].since,
             start |-> clock, validUntil |-> 0]

\* A mutant: who had to wait for the mutex does not look at the cache again.
LockedThenFetch(n) ==
    /\ call[n].pc = "lock" /\ Head(mutex) = n
    /\ IF Fresh /\ call[n].since = clock
       THEN /\ call' = [call EXCEPT ![n] = Post(n, cache)]
            /\ mutex' = Tail(mutex)
       ELSE /\ call' = [call EXCEPT ![n] = Fetch(n)]
            /\ UNCHANGED mutex
    /\ UNCHANGED <<vars, clock, cache>>

\* The mutex is taken, the cache looked at; a fresh token is the answer.
Locked(n) ==
    /\ call[n].pc = "lock" /\ Head(mutex) = n
    /\ IF Fresh THEN /\ call' = [call EXCEPT ![n] = Post(n, cache)]
                     /\ mutex' = Tail(mutex)
                ELSE /\ call' = [call EXCEPT ![n] = Fetch(n)]
                     /\ UNCHANGED mutex
    /\ UNCHANGED <<vars, clock, cache>>

\* The token endpoint, at some moment of the request: a token valid from now on.
Grant(n) ==
    /\ call[n].pc = "fetch"
    /\ call' = [call EXCEPT ![n].pc = "granted", ![n].validUntil = clock + Lifetime]
    /\ UNCHANGED <<vars, clock, mutex, cache>>

\* fetchToken counts expires_in from before the request.
Fetched(n) ==
    LET bearer == [expiresAt |-> call[n].start + Lifetime,
                   validUntil |-> call[n].validUntil]
    IN  /\ call[n].pc = "granted"
        /\ cache' = bearer
        /\ call' = [call EXCEPT ![n] = Post(n, bearer)]
        /\ mutex' = Tail(mutex)
        /\ UNCHANGED <<vars, clock>>

\* A mutant: the request is made again until it succeeds.
FetchAgain(n) ==
    /\ call[n].pc \in {"fetch", "granted"}
    /\ call' = [call EXCEPT ![n] = Fetch(n)]
    /\ UNCHANGED <<vars, clock, mutex, cache>>

\* A mutant: an error returns without unlocking.
FetchFailsLocked(n) ==
    /\ call[n].pc \in {"fetch", "granted"}
    /\ Send(n, call[n].to, "lost")
    /\ call' = [call EXCEPT ![n] = NoCall]
    /\ UNCHANGED <<clock, mutex, cache>>

\* An error, or no answer in time: nothing is sent to this device.
FetchFails(n) ==
    /\ call[n].pc \in {"fetch", "granted"}
    /\ Send(n, call[n].to, "lost")
    /\ call' = [call EXCEPT ![n] = NoCall]
    /\ mutex' = Tail(mutex)
    /\ UNCHANGED <<clock, cache>>

(***************************************************************************)
(* The adapters.                                                           *)
(***************************************************************************)
\* A mutant: a POST that got no answer is made again.
PostAgain(n, o) ==
    /\ call[n].pc = "post"
    /\ o = "ok" => clock <= call[n].bearer.validUntil
    /\ sent' = IF o = "ok" THEN sent \cup {<<n, call[n].to[1], call[n].to[2]>>} ELSE sent
    /\ UNCHANGED <<devices, prefs, push, holder, late, source>>

\* The POST to FCM, which refuses an expired bearer.  Delivered with an error
\* is delivered: the error is only logged.
PostToFcm(n, o) ==
    /\ call[n].pc = "post"
    /\ o = "ok" => clock <= call[n].bearer.validUntil
    /\ Send(n, call[n].to, o)
    /\ call' = [call EXCEPT ![n] = NoCall]
    /\ UNCHANGED <<clock, mutex, cache>>

PushToApns(n, x, o) ==
    /\ call[n] = NoCall
    /\ x[2] \notin Fcm
    /\ Send(n, x, o)
    /\ UNCHANGED source

(***************************************************************************)
(* Time, and the end of the process.                                       *)
(***************************************************************************)
InTime(n) ==
    /\ call[n].pc = "lock" => Head(mutex) # n
    /\ call[n].pc \in {"fetch", "granted"} => clock < call[n].start + Timeout

Tick ==
    /\ clock < MaxTime
    /\ \A n \in Notification : InTime(n)
    /\ clock' = clock + 1
    /\ UNCHANGED <<vars, mutex, cache, call>>

Restart ==
    /\ Crash
    /\ cache' = NoToken
    /\ mutex' = <<>>
    /\ call' = [n \in Notification |-> NoCall]
    /\ UNCHANGED clock

Deliver(n) ==
    \/ \E x \in Address : Lock(n, x)
    \/ Locked(n)
    \/ Grant(n)
    \/ Fetched(n)
    \/ FetchFails(n)
    \/ \E o \in Call : PostToFcm(n, o)
    \/ \E x \in Address, o \in Call : PushToApns(n, x, o)

DeliveryNext ==
    \/ (Request \/ TryPush) /\ UNCHANGED source
    \/ \E n \in Notification : Deliver(n)
    \/ Tick
    \/ Restart

DeliverySpec == DeliveryInit /\ [][DeliveryNext]_deliveryVars

(***************************************************************************)
(* Properties.                                                             *)
(***************************************************************************)

\* The adapters do what DevicePush says of Send: each message goes to each
\* device read for it once at most, one after the other, whatever the token
\* source does.
ImplementsDevicePush == Spec

\* A request leaves for FCM with a bearer that is valid for longer than the
\* lead, or that was fetched for it and has lost no more than the duration of
\* the fetch, though the cache's expiry is computed on this side and the
\* callers wait for one another in between.
BearerIsFresh ==
    [][\A n \in Notification : call[n].pc # "post" /\ call'[n].pc = "post" =>
          LET left == call'[n].bearer.validUntil - clock
          IN  left > Lead \/ left >= Lifetime - Timeout]_deliveryVars

\* However many pushes find the cache empty or its token too old at the same
\* time, one of them fetches: a cached token is replaced only when it has no
\* more than the lead left.
FetchedSparingly ==
    [][cache # cache' /\ cache # NoToken =>
          cache' = NoToken \/ cache.expiresAt - clock <= Lead]_deliveryVars

\* Nobody is in Token for longer than the timeouts of all the callers there can
\* be, one after the other: a token endpoint that does not answer delays a
\* fan-out, each member for the timeout, and does not stop it.
WaitsAtMost ==
    \A i \in DOMAIN mutex :
        clock - call[mutex[i]].since <= Timeout * Cardinality(Notification)
=============================================================================
