-------------------------- MODULE IntrospectCache --------------------------
(***************************************************************************)
(* BearerAuth, the middleware in front of every public route of the three  *)
(* services: a bearer token is looked up in a cache of this process, else  *)
(* Hydra is asked and a positive answer is cached for TTL.  Requests with  *)
(* the same token run at the same time, and the lock is held for get and   *)
(* for set, not for the question between them.                             *)
(*                                                                         *)
(* Time passes while Hydra is asked, for Timeout at most: the timeout of   *)
(* the HTTP client covers the exchange up to the end of the body.  The     *)
(* code between two calls takes no time.                                   *)
(***************************************************************************)
EXTENDS Integers

CONSTANTS
    Token,      \* bearer tokens
    Proc,       \* the requests handled at the same time
    TTL,        \* how long an answer is cached: 30s
    Timeout,    \* of the HTTP client that asks Hydra: 5s
    MaxTime     \* bound on the clock

ASSUME IntrospectCacheAssumption ==
    /\ TTL \in Nat
    /\ Timeout \in Nat
    /\ MaxTime \in Nat

Time == 0..(MaxTime + TTL)

\* What Hydra knows of a token.  Revocation and expiry are final.
Unknown == [state |-> "unknown"]
Active  == [state |-> "active"]
Revoked == [state : {"revoked"}, at : 0..MaxTime]

VARIABLES
    clock,      \* time.Now()
    hydra,      \* what Hydra knows of each token
    cache,      \* tokenCache: a function from tokens to expiresAt
    proc        \* what each request does

vars == <<clock, hydra, cache, proc>>

Idle == [pc |-> "idle"]
Request ==
    [pc : {"asking"}, token : Token, since : 0..MaxTime]
    \cup [pc : {"told"}, token : Token, since : 0..MaxTime, active : BOOLEAN]
    \cup [pc : {"served"}, token : Token, at : 0..MaxTime]

TypeOK ==
    /\ clock \in 0..MaxTime
    /\ hydra \in [Token -> {Unknown, Active} \cup Revoked]
    /\ DOMAIN cache \subseteq Token
    /\ \A t \in DOMAIN cache : cache[t] \in Time
    /\ proc \in [Proc -> {Idle} \cup Request]

Init ==
    /\ clock = 0
    /\ hydra = [t \in Token |-> Unknown]
    /\ cache = [t \in {} |-> 0]
    /\ proc = [p \in Proc |-> Idle]

Without(f, x) == [y \in DOMAIN f \ {x} |-> f[y]]

(***************************************************************************)
(* tokenCache.get, under the lock.                                         *)
(***************************************************************************)
\* A mutant: expired entries are deleted but still answer.
CachedAnyAge(t) == t \in DOMAIN cache

Cached(t) == t \in DOMAIN cache /\ clock <= cache[t]

\* A hit serves the request.  A mutant renews the entry, as a sliding expiry does.
HitAndRenew(p, t) ==
    /\ proc[p].pc = "idle"
    /\ Cached(t)
    /\ proc' = [proc EXCEPT ![p] = [pc |-> "served", token |-> t, at |-> clock]]
    /\ cache' = [cache EXCEPT ![t] = clock + TTL]
    /\ UNCHANGED <<clock, hydra>>

Hit(p, t) ==
    /\ proc[p].pc = "idle"
    /\ Cached(t)
    /\ proc' = [proc EXCEPT ![p] = [pc |-> "served", token |-> t, at |-> clock]]
    /\ UNCHANGED <<clock, hydra, cache>>

\* A miss deletes the entry and asks Hydra.  No request is started that could
\* still be waiting at MaxTime: a bound of the instances.
Miss(p, t) ==
    /\ proc[p].pc = "idle"
    /\ ~Cached(t)
    /\ clock + Timeout <= MaxTime
    /\ cache' = Without(cache, t)
    /\ proc' = [proc EXCEPT ![p] = [pc |-> "asking", token |-> t, since |-> clock]]
    /\ UNCHANGED <<clock, hydra>>

(***************************************************************************)
(* introspect.                                                             *)
(***************************************************************************)
\* Hydra looks at the token.  Its answer is on the way.
Introspect(p) ==
    /\ proc[p].pc = "asking"
    /\ proc' = [proc EXCEPT ![p] = [pc |-> "told", token |-> @.token, since |-> @.since,
                                    active |-> hydra[@.token].state = "active"]]
    /\ UNCHANGED <<clock, hydra, cache>>

\* tokenCache.set.
Store(t) ==
    cache' = [u \in DOMAIN cache \cup {t} |-> IF u = t THEN clock + TTL ELSE cache[u]]

\* The answer arrives; an active token is cached and the request served.
Answer(p) ==
    /\ proc[p].pc = "told"
    /\ LET t == proc[p].token
       IN  IF proc[p].active
           THEN /\ Store(t)
                /\ proc' = [proc EXCEPT ![p] = [pc |-> "served", token |-> t, at |-> clock]]
           ELSE /\ proc' = [proc EXCEPT ![p] = Idle]
                /\ UNCHANGED cache
    /\ UNCHANGED <<clock, hydra>>

\* An error of the call, or its timeout: 401.
Fail(p) ==
    /\ proc[p].pc \in {"asking", "told"}
    /\ proc' = [proc EXCEPT ![p] = Idle]
    /\ UNCHANGED <<clock, hydra, cache>>

\* next.ServeHTTP returns.
Finish(p) ==
    /\ proc[p].pc = "served"
    /\ proc' = [proc EXCEPT ![p] = Idle]
    /\ UNCHANGED <<clock, hydra, cache>>

(***************************************************************************)
(* Hydra and the clock, which no call to Hydra lets pass its timeout.      *)
(***************************************************************************)
Issue(t) ==
    /\ hydra[t] = Unknown
    /\ hydra' = [hydra EXCEPT ![t] = Active]
    /\ UNCHANGED <<clock, cache, proc>>

Revoke(t) ==
    /\ hydra[t] = Active
    /\ hydra' = [hydra EXCEPT ![t] = [state |-> "revoked", at |-> clock]]
    /\ UNCHANGED <<clock, cache, proc>>

Asking == {p \in Proc : proc[p].pc \in {"asking", "told"}}

Tick ==
    /\ clock < MaxTime
    /\ \A p \in Asking : clock < proc[p].since + Timeout
    /\ clock' = clock + 1
    /\ UNCHANGED <<hydra, cache, proc>>

Serve(p) == Introspect(p) \/ Answer(p) \/ Fail(p) \/ Finish(p)

Next ==
    \/ \E p \in Proc, t \in Token : Hit(p, t) \/ Miss(p, t)
    \/ \E p \in Proc : Serve(p)
    \/ \E t \in Token : Issue(t) \/ Revoke(t)
    \/ Tick

Spec == Init /\ [][Next]_vars

(***************************************************************************)
(* Properties.                                                             *)
(***************************************************************************)

\* A request is served only with a token Hydra has issued, and one Hydra has
\* revoked is good for TTL + Timeout more at most, although an answer given
\* before the revocation may arrive, and be cached, after another request was
\* refused with the token.
StaleAtMost ==
    \A p \in Proc : proc[p].pc = "served" =>
        LET h == hydra[proc[p].token]
        IN  /\ h # Unknown
            /\ h.state = "revoked" => proc[p].at <= h.at + TTL + Timeout

\* The same of the cache: no entry outlives its token by more than that.
CacheExpires ==
    \A t \in DOMAIN cache :
        /\ hydra[t] # Unknown
        /\ cache[t] <= clock + TTL
        /\ hydra[t].state = "revoked" => cache[t] <= hydra[t].at + TTL + Timeout
=============================================================================
