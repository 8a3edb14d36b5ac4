----------------------- MODULE IntrospectCacheProofs -----------------------
(***************************************************************************)
(* How long the token cache can be stale, for any TTL and Timeout and any  *)
(* number of tokens and requests.  Two facts make the bound inductive: a   *)
(* question has been out for Timeout at most, and a positive answer says   *)
(* the token was good when the question was asked.                         *)
(***************************************************************************)
EXTENDS IntrospectCache, TLAPS

\* A positive answer under way was true when the question was asked, and
\* nothing has a time that has not come yet.
AnswerIsRecent ==
    \A p \in Proc :
        /\ proc[p].pc \in {"asking", "told"} =>
              proc[p].since <= clock /\ clock <= proc[p].since + Timeout
        /\ (proc[p].pc = "told" /\ proc[p].active) =>
              /\ hydra[proc[p].token] # Unknown
              /\ hydra[proc[p].token].state = "revoked" =>
                    proc[p].since <= hydra[proc[p].token].at

ServedInThePast == \A p \in Proc : proc[p].pc = "served" => proc[p].at <= clock

CacheInv == TypeOK /\ AnswerIsRecent /\ ServedInThePast /\ StaleAtMost /\ CacheExpires

\* The initial state has no answers and no entries.
LEMMA InitInv == Init => CacheInv
BY IntrospectCacheAssumption
   DEF Init, CacheInv, TypeOK, AnswerIsRecent, ServedInThePast, StaleAtMost, CacheExpires,
       Idle, Unknown, Active, Revoked, Request, Time

\* A request that is not idle is one of three records.
LEMMA RequestFacts ==
    ASSUME TypeOK, NEW p \in Proc
    PROVE  /\ proc[p] = Idle \/ proc[p] \in Request
           /\ proc[p].pc \in {"idle", "asking", "told", "served"}
           /\ proc[p].pc \in {"asking", "told"} =>
                 proc[p].token \in Token /\ proc[p].since \in 0..MaxTime
           /\ proc[p].pc = "told" => proc[p].active \in BOOLEAN
           /\ proc[p].pc = "served" => proc[p].token \in Token /\ proc[p].at \in 0..MaxTime
BY DEF TypeOK, Idle, Request

\* A token is unknown, active or revoked at some time.
LEMMA TokenFacts ==
    ASSUME TypeOK, NEW t \in Token
    PROVE  /\ hydra[t].state \in {"unknown", "active", "revoked"}
           /\ hydra[t].state = "unknown" <=> hydra[t] = Unknown
           /\ hydra[t].state = "active" <=> hydra[t] = Active
           /\ hydra[t].state = "revoked" => hydra[t].at \in 0..MaxTime
BY DEF TypeOK, Unknown, Active, Revoked

\* A step that changes one request only keeps CacheInv if the new request does.
LEMMA ProcStep ==
    ASSUME CacheInv, NEW p \in Proc, NEW r \in {Idle} \cup Request,
           proc' = [proc EXCEPT ![p] = r], UNCHANGED <<clock, hydra, cache>>,
           r.pc \in {"asking", "told"} => r.since <= clock /\ clock <= r.since + Timeout,
           (r.pc = "told" /\ r.active) =>
              /\ hydra[r.token] # Unknown
              /\ hydra[r.token].state = "revoked" => r.since <= hydra[r.token].at,
           r.pc = "served" =>
              /\ r.at <= clock
              /\ hydra[r.token] # Unknown
              /\ hydra[r.token].state = "revoked" => r.at <= hydra[r.token].at + TTL + Timeout
    PROVE  CacheInv'
<1>1. proc'[p] = r /\ \A q \in Proc \ {p} : proc'[q] = proc[q]
  BY DEF CacheInv, TypeOK
<1>2. TypeOK'
  BY <1>1 DEF CacheInv, TypeOK
<1>3. AnswerIsRecent'
  BY <1>1 DEF CacheInv, AnswerIsRecent
<1>4. ServedInThePast' /\ StaleAtMost'
  BY <1>1 DEF CacheInv, ServedInThePast, StaleAtMost
<1>5. CacheExpires'
  BY DEF CacheInv, CacheExpires
<1> QED BY <1>2, <1>3, <1>4, <1>5 DEF CacheInv

\* A hit serves a token no older than its entry.
LEMMA HitInv ==
    ASSUME CacheInv, NEW p \in Proc, NEW t \in Token, Hit(p, t)
    PROVE  CacheInv'
<1> DEFINE r == [pc |-> "served", token |-> t, at |-> clock]
<1>1. clock \in 0..MaxTime /\ cache[t] \in Time /\ t \in DOMAIN cache /\ clock <= cache[t]
  BY DEF Hit, Cached, CacheInv, TypeOK
<1>2. r \in Request
  BY <1>1 DEF Request
<1>3. /\ hydra[t] # Unknown
      /\ hydra[t].state = "revoked" => clock <= hydra[t].at + TTL + Timeout
  BY <1>1, TokenFacts, IntrospectCacheAssumption DEF CacheInv, CacheExpires, Time
<1>4. /\ proc' = [proc EXCEPT ![p] = r] /\ UNCHANGED <<clock, hydra, cache>>
      /\ r.pc = "served" /\ r.token = t /\ r.at = clock /\ clock <= clock
  BY <1>1 DEF Hit
<1> HIDE DEF r
<1> QED BY <1>2, <1>3, <1>4, ProcStep

\* A miss asks at the present time and forgets at most the entry.
LEMMA MissInv ==
    ASSUME CacheInv, NEW p \in Proc, NEW t \in Token, Miss(p, t)
    PROVE  CacheInv'
<1> DEFINE r == [pc |-> "asking", token |-> t, since |-> clock]
<1>1. clock \in 0..MaxTime /\ Timeout \in Nat
  BY IntrospectCacheAssumption DEF CacheInv, TypeOK
<1>2. /\ proc' = [proc EXCEPT ![p] = r] /\ UNCHANGED <<clock, hydra>>
      /\ r \in Request
  BY <1>1 DEF Miss, Request
<1>3. proc'[p] = r /\ \A q \in Proc \ {p} : proc'[q] = proc[q]
  BY <1>2 DEF CacheInv, TypeOK
<1>4. DOMAIN cache' \subseteq DOMAIN cache /\ \A u \in DOMAIN cache' : cache'[u] = cache[u]
  BY DEF Miss, Without
<1>5. TypeOK'
  BY <1>2, <1>3, <1>4 DEF CacheInv, TypeOK
<1>6. AnswerIsRecent'
  BY <1>1, <1>2, <1>3 DEF CacheInv, AnswerIsRecent
<1>7. ServedInThePast' /\ StaleAtMost'
  BY <1>2, <1>3 DEF CacheInv, ServedInThePast, StaleAtMost
<1>8. CacheExpires'
  BY <1>2, <1>4 DEF CacheInv, CacheExpires
<1> QED BY <1>5, <1>6, <1>7, <1>8 DEF CacheInv

\* Hydra's answer is true at the time it is given, after the question.
LEMMA IntrospectInv ==
    ASSUME CacheInv, NEW p \in Proc, Introspect(p)
    PROVE  CacheInv'
<1> DEFINE t == proc[p].token
           r == [pc |-> "told", token |-> t, since |-> proc[p].since,
                 active |-> hydra[t].state = "active"]
<1>1. /\ proc[p].pc = "asking" /\ proc' = [proc EXCEPT ![p] = r]
      /\ UNCHANGED <<clock, hydra, cache>>
  BY DEF Introspect
<1>2. t \in Token /\ proc[p].since \in 0..MaxTime
  BY <1>1, RequestFacts DEF CacheInv
<1>3. r \in Request
  BY <1>2 DEF Request
<1>4. proc[p].since <= clock /\ clock <= proc[p].since + Timeout
  BY <1>1 DEF CacheInv, AnswerIsRecent
<1>5. r.active => hydra[t] # Unknown /\ hydra[t].state # "revoked"
  BY <1>2, TokenFacts DEF CacheInv
<1> QED BY <1>1, <1>3, <1>4, <1>5, ProcStep

\* A positive answer is cached for TTL from now, Timeout after the question at most.
LEMMA AnswerInv ==
    ASSUME CacheInv, NEW p \in Proc, Answer(p)
    PROVE  CacheInv'
<1> DEFINE t == proc[p].token
           r == [pc |-> "served", token |-> t, at |-> clock]
<1>1. /\ proc[p].pc = "told" /\ t \in Token /\ proc[p].since \in 0..MaxTime
      /\ clock \in 0..MaxTime /\ TTL \in Nat /\ Timeout \in Nat /\ MaxTime \in Nat
  BY RequestFacts, IntrospectCacheAssumption DEF Answer, CacheInv, TypeOK
<1>2. CASE ~proc[p].active
  BY <1>2, ProcStep DEF Answer, Idle
<1>3. CASE proc[p].active
  <2>1. /\ Store(t) /\ proc' = [proc EXCEPT ![p] = r] /\ UNCHANGED <<clock, hydra>>
    BY <1>3 DEF Answer
  <2>2. r \in Request
    BY <1>1 DEF Request
  <2>3. proc'[p] = r /\ \A q \in Proc \ {p} : proc'[q] = proc[q]
    BY <2>1 DEF CacheInv, TypeOK
  <2>4. /\ DOMAIN cache' = DOMAIN cache \cup {t} /\ cache'[t] = clock + TTL
        /\ \A u \in DOMAIN cache \ {t} : cache'[u] = cache[u]
    BY <2>1 DEF Store
  <2>5. /\ hydra[t] # Unknown
        /\ hydra[t].state = "revoked" =>
              hydra[t].at \in 0..MaxTime /\ clock <= hydra[t].at + Timeout
    BY <1>1, <1>3, TokenFacts DEF CacheInv, AnswerIsRecent
  <2>6. TypeOK'
    BY <1>1, <2>1, <2>2, <2>3, <2>4 DEF CacheInv, TypeOK, Time
  <2>7. AnswerIsRecent'
    BY <2>1, <2>3 DEF CacheInv, AnswerIsRecent
  <2>8. ServedInThePast' /\ StaleAtMost'
    BY <1>1, <2>1, <2>3, <2>5 DEF CacheInv, ServedInThePast, StaleAtMost
  <2>9. CacheExpires'
    BY <1>1, <2>1, <2>4, <2>5 DEF CacheInv, CacheExpires
  <2> QED BY <2>6, <2>7, <2>8, <2>9 DEF CacheInv
<1> QED BY <1>1, <1>2, <1>3, RequestFacts DEF CacheInv

\* A request that failed or is done leaves nothing behind.
LEMMA BackToIdle ==
    ASSUME CacheInv, NEW p \in Proc, Fail(p) \/ Finish(p)
    PROVE  CacheInv'
<1>1. proc' = [proc EXCEPT ![p] = Idle] /\ UNCHANGED <<clock, hydra, cache>>
  BY DEF Fail, Finish
<1> QED BY <1>1, ProcStep DEF Idle

\* A token that becomes active had no entries.
LEMMA IssueInv ==
    ASSUME CacheInv, NEW t \in Token, Issue(t)
    PROVE  CacheInv'
<1>1. /\ UNCHANGED <<clock, cache, proc>> /\ hydra[t] = Unknown
      /\ hydra'[t] = Active /\ \A u \in Token \ {t} : hydra'[u] = hydra[u]
      /\ hydra' \in [Token -> {Unknown, Active} \cup Revoked]
  BY DEF Issue, CacheInv, TypeOK
<1>2. TypeOK'
  BY <1>1 DEF CacheInv, TypeOK
<1>3. Active # Unknown /\ Active.state # "revoked"
  BY DEF Active, Unknown
<1>4. AnswerIsRecent'
  BY <1>1, <1>3, RequestFacts DEF CacheInv, AnswerIsRecent
<1>5. ServedInThePast' /\ StaleAtMost'
  BY <1>1, <1>3, RequestFacts DEF CacheInv, ServedInThePast, StaleAtMost
<1>6. CacheExpires'
  BY <1>1, <1>3 DEF CacheInv, CacheExpires, TypeOK
<1> QED BY <1>2, <1>4, <1>5, <1>6 DEF CacheInv

\* All entries and answers of a token are older than its revocation.
LEMMA RevokeInv ==
    ASSUME CacheInv, NEW t \in Token, Revoke(t)
    PROVE  CacheInv'
<1> DEFINE r == [state |-> "revoked", at |-> clock]
<1>1. /\ clock \in 0..MaxTime /\ TTL \in Nat /\ Timeout \in Nat
  BY IntrospectCacheAssumption DEF CacheInv, TypeOK
<1>2. r \in Revoked /\ r # Unknown /\ r.at = clock
  BY <1>1 DEF Revoked, Unknown
<1>3. /\ UNCHANGED <<clock, cache, proc>> /\ hydra[t] = Active
      /\ hydra'[t] = r /\ \A u \in Token \ {t} : hydra'[u] = hydra[u]
      /\ hydra' \in [Token -> {Unknown, Active} \cup Revoked]
  BY <1>2 DEF Revoke, CacheInv, TypeOK
<1>4. TypeOK'
  BY <1>3 DEF CacheInv, TypeOK
<1> HIDE DEF r
<1>5. AnswerIsRecent'
  BY <1>2, <1>3, RequestFacts DEF CacheInv, AnswerIsRecent
<1>6. ServedInThePast'
  BY <1>3 DEF CacheInv, ServedInThePast
<1>7. StaleAtMost'
  BY <1>1, <1>2, <1>3, RequestFacts DEF CacheInv, ServedInThePast, StaleAtMost
<1>8. CacheExpires'
  <2> SUFFICES ASSUME NEW u \in DOMAIN cache
               PROVE  /\ hydra'[u] # Unknown
                      /\ cache[u] <= clock + TTL
                      /\ hydra'[u].state = "revoked" => cache[u] <= hydra'[u].at + TTL + Timeout
    BY <1>3 DEF CacheExpires
  <2>1. u \in Token /\ cache[u] \in Int
    BY IntrospectCacheAssumption DEF CacheInv, TypeOK, Time
  <2> QED BY <2>1, <1>1, <1>2, <1>3 DEF CacheInv, CacheExpires
<1> QED BY <1>4, <1>5, <1>6, <1>7, <1>8 DEF CacheInv

\* Time does not pass a question's timeout.
LEMMA TickInv == CacheInv /\ Tick => CacheInv'
<1> SUFFICES ASSUME CacheInv, Tick PROVE CacheInv'
  OBVIOUS
<1>1. /\ clock \in Nat /\ clock' = clock + 1 /\ clock' \in 0..MaxTime
      /\ TTL \in Nat /\ Timeout \in Nat /\ UNCHANGED <<hydra, cache, proc>>
  BY IntrospectCacheAssumption DEF Tick, CacheInv, TypeOK
<1>2. TypeOK' /\ StaleAtMost'
  BY <1>1 DEF CacheInv, TypeOK, StaleAtMost
<1>3. \A p \in Proc : proc[p].pc \in {"asking", "told"} =>
          /\ proc[p].since \in Int /\ proc[p].since <= clock
          /\ clock < proc[p].since + Timeout
  BY RequestFacts DEF Tick, Asking, CacheInv, AnswerIsRecent
<1>4. AnswerIsRecent'
  BY <1>1, <1>3 DEF CacheInv, AnswerIsRecent
<1>5. ServedInThePast'
  BY <1>1, RequestFacts DEF CacheInv, ServedInThePast
<1>6. CacheExpires'
  BY <1>1, IntrospectCacheAssumption DEF CacheInv, CacheExpires, TypeOK, Time
<1> QED BY <1>2, <1>4, <1>5, <1>6 DEF CacheInv

\* CacheInv is inductive: it holds initially and every step keeps it.
THEOREM Invariant == Spec => []CacheInv
<1>1. ASSUME CacheInv, [Next]_vars PROVE CacheInv'
  <2>1. ASSUME NEW p \in Proc, NEW t \in Token, Hit(p, t) \/ Miss(p, t) PROVE CacheInv'
    BY <1>1, <2>1, HitInv, MissInv
  <2>2. ASSUME NEW p \in Proc, Serve(p) PROVE CacheInv'
    BY <1>1, <2>2, IntrospectInv, AnswerInv, BackToIdle DEF Serve
  <2>3. ASSUME NEW t \in Token, Issue(t) \/ Revoke(t) PROVE CacheInv'
    BY <1>1, <2>3, IssueInv, RevokeInv
  <2>4. CASE Tick
    BY <1>1, <2>4, TickInv
  <2>5. CASE UNCHANGED vars
    BY <1>1, <2>5 DEF vars, CacheInv, TypeOK, AnswerIsRecent, ServedInThePast, StaleAtMost,
                      CacheExpires
  <2> QED BY <1>1, <2>1, <2>2, <2>3, <2>4, <2>5 DEF Next
<1> QED BY <1>1, InitInv, PTL DEF Spec

\* TypeOK of the states BearerAuth reaches.
THEOREM TypeCorrect == Spec => []TypeOK
<1>1. CacheInv => TypeOK
  BY DEF CacheInv
<1> QED BY <1>1, Invariant, PTL

\* BearerAuth serves a revoked token for TTL + Timeout at most, and never one
\* Hydra did not issue.
THEOREM BoundedStaleness == Spec => []StaleAtMost
<1>1. CacheInv => StaleAtMost
  BY DEF CacheInv
<1> QED BY <1>1, Invariant, PTL

\* No entry of tokenCache is used longer than that.
THEOREM EntriesExpire == Spec => []CacheExpires
<1>1. CacheInv => CacheExpires
  BY DEF CacheInv
<1> QED BY <1>1, Invariant, PTL
=============================================================================
