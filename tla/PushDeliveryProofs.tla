------------------------- MODULE PushDeliveryProofs -------------------------
(***************************************************************************)
(* Theorems about pushes.  First DevicePush by itself, for any number of   *)
(* users, devices and notifications: its invariant says that what tryPush  *)
(* holds was true when it was read, and is still true unless the change is *)
(* in late.  Then the token source and the adapters, for any lifetime of   *)
(* the tokens, any lead and any timeout: sending through them is sending   *)
(* as DevicePush has it, so what is proved of DevicePush holds of them, no *)
(* request to FCM leaves with a bearer about to expire, and nobody waits   *)
(* for the mutex longer than one timeout for each caller there can be.     *)
(***************************************************************************)
EXTENDS PushDelivery, FiniteSetTheorems, TLAPS

\* The row of a device is the last registration of it.
RowsAreHolders == \A d \in DOMAIN devices : devices[d].user = holder[d]

\* The devices tryPush is about to send to, and the preferences it has read.
ReadIsRight ==
    \A n \in Notification :
        /\ push[n].pc \in {"devices", "send"} =>
              ~Refused(push[n].user) \/ <<n, "prefs">> \in late
        /\ push[n].pc = "send" => \A x \in push[n].tokens :
              holder[x[1]] = push[n].user \/ <<n, x[1]>> \in late

PushInv == TypeOK /\ RowsAreHolders /\ ReadIsRight

\* Nothing is registered, read or sent at the start.
LEMMA InitInv == Init => PushInv
BY DEF Init, PushInv, TypeOK, RowsAreHolders, ReadIsRight, Push, Waiting, Done

\* The query's answer is the user's choice: enabled means not refused.
LEMMA EnabledMeansNotRefused ==
    ASSUME TypeOK, NEW u \in User, Enabled(u)
    PROVE  ~Refused(u)
BY DEF TypeOK, Enabled, Refused, EventType

\* What tryPush holds for a notification has the fields its pc says.
LEMMA PushFacts ==
    ASSUME TypeOK, NEW n \in Notification
    PROVE  /\ push[n] \in Push
           /\ push[n].pc \in {"waiting", "done", "enabled", "devices", "send"}
           /\ push[n].pc \in {"enabled", "devices", "send"} => push[n].user \in User
           /\ push[n].pc = "send" => push[n].tokens \subseteq Device \X PushToken
BY DEF TypeOK, Push, Waiting, Done

\* A step of tryPush for one notification keeps the invariant if what it holds
\* afterwards is right.
LEMMA PushStep ==
    ASSUME PushInv, NEW n \in Notification, NEW r \in Push,
           push' = [push EXCEPT ![n] = r],
           UNCHANGED <<devices, prefs, holder, late>>,
           sent' \subseteq Notification \X Device \X PushToken,
           r.pc \in {"devices", "send"} => ~Refused(r.user) \/ <<n, "prefs">> \in late,
           r.pc = "send" => \A x \in r.tokens : holder[x[1]] = r.user \/ <<n, x[1]>> \in late
    PROVE  PushInv'
<1>1. TypeOK'
  BY DEF PushInv, TypeOK
<1>2. RowsAreHolders'
  BY DEF PushInv, RowsAreHolders
<1>3. ReadIsRight'
  <2>1. ASSUME NEW m \in Notification
        PROVE  /\ push'[m].pc \in {"devices", "send"} =>
                     (~Refused(push[m].user))' \/ <<m, "prefs">> \in late'
               /\ push'[m].pc = "send" => \A x \in push'[m].tokens :
                     holder'[x[1]] = push'[m].user \/ <<m, x[1]>> \in late'
    <3>1. CASE m = n
      <4>1. push'[m] = r
        BY <3>1 DEF PushInv, TypeOK
      <4>2. QED
        BY <3>1, <4>1 DEF Refused
    <3>2. CASE m # n
      <4>1. push'[m] = push[m]
        BY <3>2 DEF PushInv, TypeOK
      <4>2. QED
        BY <4>1 DEF PushInv, ReadIsRight, Refused
    <3>3. QED
      BY <3>1, <3>2
  <2>2. QED
    BY <2>1 DEF ReadIsRight, Refused
<1>4. QED
  BY <1>1, <1>2, <1>3 DEF PushInv

\* A device changes hands: every notification that has read the devices has a
\* note of it in late.
LEMMA DeviceStep ==
    ASSUME PushInv, NEW d \in Device, NEW h \in User \cup {Nobody},
           holder' = [holder EXCEPT ![d] = h],
           late' = late \cup (ReadDevices \X {d}),
           UNCHANGED <<prefs, push, sent>>,
           DOMAIN devices' \subseteq Device,
           \A e \in DOMAIN devices' : devices'[e] \in DeviceToken,
           \A e \in DOMAIN devices' :
               IF e = d THEN devices'[e].user = h
                        ELSE e \in DOMAIN devices /\ devices'[e] = devices[e]
    PROVE  PushInv'
<1>1. TypeOK'
  BY DEF PushInv, TypeOK, ReadDevices
<1>2. RowsAreHolders'
  BY DEF PushInv, TypeOK, RowsAreHolders
<1>3. ASSUME NEW n \in Notification
      PROVE  /\ push[n].pc \in {"devices", "send"} =>
                   ~Refused(push[n].user) \/ <<n, "prefs">> \in late'
             /\ push[n].pc = "send" => \A x \in push[n].tokens :
                   holder'[x[1]] = push[n].user \/ <<n, x[1]>> \in late'
  <2>1. push[n].pc \in {"devices", "send"} =>
            ~Refused(push[n].user) \/ <<n, "prefs">> \in late'
    BY DEF PushInv, ReadIsRight
  <2>2. ASSUME push[n].pc = "send", NEW x \in push[n].tokens
        PROVE  holder'[x[1]] = push[n].user \/ <<n, x[1]>> \in late'
    <3>1. CASE x[1] = d
      BY <2>2, <3>1 DEF ReadDevices
    <3>2. CASE x[1] # d
      <4>1. x[1] \in Device
        BY <2>2, PushFacts DEF PushInv
      <4>2. holder'[x[1]] = holder[x[1]]
        BY <3>2, <4>1 DEF PushInv, TypeOK
      <4>3. QED
        BY <2>2, <4>2 DEF PushInv, ReadIsRight
    <3>3. QED
      BY <3>1, <3>2
  <2>3. QED
    BY <2>1, <2>2
<1>4. ReadIsRight'
  BY <1>3 DEF ReadIsRight, Refused
<1>5. QED
  BY <1>1, <1>2, <1>4 DEF PushInv

\* A changed preference: every notification that has read it has a note in late.
LEMMA PreferenceStep ==
    ASSUME PushInv, NEW u \in User, NEW type \in EventType, NEW b \in BOOLEAN,
           UpsertPreference(u, type, b)
    PROVE  PushInv'
<1>1. TypeOK'
  BY DEF PushInv, TypeOK, UpsertPreference, ReadPrefs
<1>2. RowsAreHolders'
  BY DEF PushInv, RowsAreHolders, UpsertPreference
<1>3. ASSUME NEW n \in Notification, push[n].pc \in {"devices", "send"}
      PROVE  (~Refused(push[n].user))' \/ <<n, "prefs">> \in late'
  <2>1. CASE push[n].user = u
    BY <1>3, <2>1 DEF UpsertPreference, ReadPrefs
  <2>2. CASE push[n].user # u
    <3>1. (Refused(push[n].user))' <=> Refused(push[n].user)
      BY <2>2 DEF Refused, UpsertPreference
    <3>2. QED
      BY <1>3, <3>1 DEF PushInv, ReadIsRight, UpsertPreference
  <2>3. QED
    BY <2>1, <2>2
<1>4. ASSUME NEW n \in Notification, push[n].pc = "send", NEW x \in push[n].tokens
      PROVE  holder'[x[1]] = push[n].user \/ <<n, x[1]>> \in late'
  BY <1>4 DEF PushInv, ReadIsRight, UpsertPreference
<1>5. ReadIsRight'
  BY <1>3, <1>4 DEF ReadIsRight, UpsertPreference, Refused
<1>6. QED
  BY <1>1, <1>2, <1>5 DEF PushInv

\* The steps of tryPush for one notification.
LEMMA TryPushStep ==
    ASSUME PushInv, NEW n \in Notification,
           \/ \E u \in User : StartPush(n, u)
           \/ \E o \in Call : IsEnabled(n, o) \/ FindTokens(n, o)
           \/ \E x \in Device \X PushToken, o \in Call : Send(n, x, o)
           \/ Finish(n)
    PROVE  PushInv'
<1> USE DEF PushInv
<1>1. Done \in Push /\ Done.pc = "done"
  BY DEF Push, Done
<1>2. ASSUME NEW u \in User, StartPush(n, u) PROVE PushInv'
  <2> DEFINE r == [pc |-> "enabled", user |-> u]
  <2>1. r \in Push /\ r.pc = "enabled"
    BY DEF Push
  <2>2. sent' \subseteq Notification \X Device \X PushToken
    BY <1>2 DEF StartPush, TypeOK
  <2>3. push' = [push EXCEPT ![n] = r] /\ UNCHANGED <<devices, prefs, holder, late>>
    BY <1>2 DEF StartPush
  <2> HIDE DEF r
  <2>4. QED
    BY <2>1, <2>2, <2>3, PushStep
<1>3. ASSUME NEW o \in Call, IsEnabled(n, o) PROVE PushInv'
  <2>1. push[n] \in Push /\ push[n].pc = "enabled" /\ push[n].user \in User
    BY <1>3, PushFacts DEF IsEnabled
  <2> DEFINE u == push[n].user
             s == [pc |-> "devices", user |-> u]
             r == IF o = "ok" /\ Enabled(u) THEN s ELSE Done
  <2>2. [push[n] EXCEPT !.pc = "devices"] = s
    BY <2>1 DEF Push, Waiting, Done
  <2>3. s \in Push /\ s.pc = "devices" /\ s.user = u
    BY <2>1 DEF Push
  <2>4. push' = [push EXCEPT ![n] = r] /\ UNCHANGED <<devices, prefs, sent, holder, late>>
    BY <1>3, <2>2 DEF IsEnabled, TypeOK
  <2>5. r.pc \in {"devices", "send"} => ~Refused(r.user)
    BY <1>1, <2>1, <2>3, EnabledMeansNotRefused
  <2>6. r \in Push /\ r.pc # "send"
    BY <1>1, <2>3
  <2>7. sent' \subseteq Notification \X Device \X PushToken
    BY <2>4 DEF TypeOK
  <2> HIDE DEF r, s
  <2>8. QED
    BY <2>4, <2>5, <2>6, <2>7, PushStep
<1>4. ASSUME NEW o \in Call, FindTokens(n, o) PROVE PushInv'
  <2>1. push[n] \in Push /\ push[n].pc = "devices" /\ push[n].user \in User
    BY <1>4, PushFacts DEF FindTokens
  <2> DEFINE u == push[n].user
             s == [pc |-> "send", user |-> u, tokens |-> TokensOf(u)]
             r == IF o = "ok" THEN s ELSE Done
  <2>2. TokensOf(u) \subseteq Device \X PushToken
    BY DEF TokensOf, TypeOK, DeviceToken
  <2>3. s \in Push /\ s.pc = "send" /\ s.user = u /\ s.tokens = TokensOf(u)
    BY <2>1, <2>2 DEF Push
  <2>4. push' = [push EXCEPT ![n] = r] /\ UNCHANGED <<devices, prefs, sent, holder, late>>
    BY <1>4 DEF FindTokens, TypeOK
  <2>5. \A x \in TokensOf(u) : holder[x[1]] = u
    BY DEF TokensOf, RowsAreHolders
  <2>6. ~Refused(u) \/ <<n, "prefs">> \in late
    BY <2>1 DEF ReadIsRight
  <2>7. sent' \subseteq Notification \X Device \X PushToken
    BY <2>4 DEF TypeOK
  <2>8. /\ r \in Push
        /\ r.pc \in {"devices", "send"} => ~Refused(r.user) \/ <<n, "prefs">> \in late
        /\ r.pc = "send" => \A x \in r.tokens : holder[x[1]] = r.user \/ <<n, x[1]>> \in late
    BY <1>1, <2>3, <2>5, <2>6
  <2> HIDE DEF r, s, u
  <2>9. QED
    BY <2>4, <2>7, <2>8, PushStep
<1>5. ASSUME NEW x \in Device \X PushToken, NEW o \in Call, Send(n, x, o) PROVE PushInv'
  <2>1. /\ push[n] \in Push /\ push[n].pc = "send" /\ push[n].user \in User
        /\ push[n].tokens \subseteq Device \X PushToken
    BY <1>5, PushFacts DEF Send
  <2> DEFINE u == push[n].user
             r == [pc |-> "send", user |-> u, tokens |-> push[n].tokens \ {x}]
  <2>2. [push[n] EXCEPT !.tokens = push[n].tokens \ {x}] = r
    BY <2>1 DEF Push, Waiting, Done
  <2>3. r \in Push /\ r.pc = "send" /\ r.user = u /\ r.tokens = push[n].tokens \ {x}
    BY <2>1 DEF Push
  <2>4. push' = [push EXCEPT ![n] = r] /\ UNCHANGED <<devices, prefs, holder, late>>
    BY <1>5, <2>2 DEF Send, TypeOK
  <2>5. ~Refused(u) \/ <<n, "prefs">> \in late
    BY <2>1 DEF ReadIsRight
  <2>6. \A y \in push[n].tokens : holder[y[1]] = u \/ <<n, y[1]>> \in late
    BY <2>1 DEF ReadIsRight
  <2>7. sent' \subseteq Notification \X Device \X PushToken
    BY <1>5 DEF Send, TypeOK
  <2>8. /\ r.pc \in {"devices", "send"} => ~Refused(r.user) \/ <<n, "prefs">> \in late
        /\ r.pc = "send" => \A y \in r.tokens : holder[y[1]] = r.user \/ <<n, y[1]>> \in late
    BY <2>3, <2>5, <2>6
  <2> HIDE DEF r, u
  <2>9. QED
    BY <2>3, <2>4, <2>7, <2>8, PushStep
<1>6. ASSUME Finish(n) PROVE PushInv'
  <2>1. push' = [push EXCEPT ![n] = Done] /\ UNCHANGED <<devices, prefs, sent, holder, late>>
    BY <1>6 DEF Finish
  <2>2. sent' \subseteq Notification \X Device \X PushToken
    BY <2>1 DEF TypeOK
  <2>3. QED
    BY <1>1, <2>1, <2>2, PushStep
<1>7. QED
  BY <1>2, <1>3, <1>4, <1>5, <1>6

\* Every step keeps the invariant.
LEMMA NextInv == PushInv /\ [Next]_vars => PushInv'
<1> SUFFICES ASSUME PushInv, [Next]_vars PROVE PushInv'
  OBVIOUS
<1>1. ASSUME NEW d \in Device, NEW u \in User, NEW t \in PushToken, RegisterDevice(d, u, t)
      PROVE  PushInv'
  <2>1. [user |-> u, token |-> t] \in DeviceToken
    BY DEF DeviceToken
  <2>2. DOMAIN devices \subseteq Device /\ \A e \in DOMAIN devices : devices[e] \in DeviceToken
    BY DEF PushInv, TypeOK
  <2>3. /\ DOMAIN devices' = DOMAIN devices \cup {d}
        /\ \A e \in DOMAIN devices' :
               devices'[e] = IF e = d THEN [user |-> u, token |-> t] ELSE devices[e]
        /\ holder' = [holder EXCEPT ![d] = u]
        /\ late' = late \cup (ReadDevices \X {d})
        /\ UNCHANGED <<prefs, push, sent>>
    BY <1>1 DEF RegisterDevice
  <2>4. /\ DOMAIN devices' \subseteq Device
        /\ \A e \in DOMAIN devices' : devices'[e] \in DeviceToken
        /\ \A e \in DOMAIN devices' :
               IF e = d THEN devices'[e].user = u
                        ELSE e \in DOMAIN devices /\ devices'[e] = devices[e]
    BY <2>1, <2>2, <2>3
  <2>5. QED
    BY <2>3, <2>4, DeviceStep
<1>2. ASSUME NEW d \in Device, UnregisterDevice(d) PROVE PushInv'
  <2>1. /\ DOMAIN devices' = DOMAIN devices \ {d}
        /\ \A e \in DOMAIN devices' : devices'[e] = devices[e]
        /\ holder' = [holder EXCEPT ![d] = Nobody]
        /\ late' = late \cup (ReadDevices \X {d})
        /\ UNCHANGED <<prefs, push, sent>>
    BY <1>2 DEF UnregisterDevice
  <2>2. /\ DOMAIN devices' \subseteq Device
        /\ \A e \in DOMAIN devices' : devices'[e] \in DeviceToken
        /\ \A e \in DOMAIN devices' :
               IF e = d THEN devices'[e].user = Nobody
                        ELSE e \in DOMAIN devices /\ devices'[e] = devices[e]
    BY <2>1 DEF PushInv, TypeOK
  <2>3. Nobody \in User \cup {Nobody}
    OBVIOUS
  <2>4. QED
    BY <2>1, <2>2, <2>3, DeviceStep
<1>3. ASSUME Crash PROVE PushInv'
  BY <1>3 DEF Crash, PushInv, TypeOK, RowsAreHolders, ReadIsRight, Refused, Push, Waiting, Done
<1>4. CASE UNCHANGED vars
  BY <1>4 DEF vars, PushInv, TypeOK, RowsAreHolders, ReadIsRight, Refused
<1>5. ASSUME Next PROVE PushInv'
  BY <1>1, <1>2, <1>3, <1>5, PreferenceStep, TryPushStep
  DEF Next, Request, TryPush
<1>6. QED
  BY <1>4, <1>5

\* The invariant holds in every reachable state.
THEOREM Invariant == Spec => []PushInv
BY InitInv, NextInv, PTL DEF Spec

\* Every reachable state of the devices and the pushes is well typed.
THEOREM TypeCorrect == Spec => []TypeOK
<1>1. PushInv => TypeOK
  BY DEF PushInv
<1>2. QED
  BY <1>1, Invariant, PTL

\* A step that sends to a device sends one that tryPush holds.
LEMMA OnlySendSends ==
    ASSUME PushInv, [Next]_vars, NEW x \in sent' \ sent
    PROVE  /\ x[1] \in Notification
           /\ push[x[1]].pc = "send"
           /\ \E y \in push[x[1]].tokens : y[1] = x[2]
<1>1. PICK n \in Notification, y \in Device \X PushToken, o \in Call : Send(n, y, o)
  BY DEF Next, Request, TryPush, vars, RegisterDevice, UnregisterDevice,
         UpsertPreference, StartPush, IsEnabled, FindTokens, Finish, Crash
<1>2. x = <<n, y[1], y[2]>> /\ push[n].pc = "send" /\ y \in push[n].tokens
  BY <1>1 DEF Send
<1>3. QED
  BY <1>2

\* A push goes to the device's last registered user, unless the device changed
\* hands while tryPush was at work (DeviceService against tryPush).
THEOREM HolderGetsPush == Spec => PushReachesHolder
<1>1. ASSUME PushInv, [Next]_vars PROVE
          [\A x \in sent' \ sent :
              holder[x[2]] = push[x[1]].user \/ <<x[1], x[2]>> \in late]_vars
  BY <1>1, OnlySendSends DEF PushInv, ReadIsRight
<1>2. QED
  BY <1>1, Invariant, PTL DEF Spec, PushReachesHolder

\* Nobody who refused push gets one, unless the refusal overtook tryPush
\* (GetPreferenceEnabled against tryPush).
THEOREM ChoiceRespected == Spec => PushRespectsChoice
<1>1. ASSUME PushInv, [Next]_vars PROVE
          [\A x \in sent' \ sent :
              ~Refused(push[x[1]].user) \/ <<x[1], "prefs">> \in late]_vars
  BY <1>1, OnlySendSends DEF PushInv, ReadIsRight
<1>2. QED
  BY <1>1, Invariant, PTL DEF Spec, PushRespectsChoice

(***************************************************************************)
(* The token source and the adapters.                                      *)
(***************************************************************************)
\* The cache never believes in a token for longer than it is valid, and who
\* fetches found it empty or too old and has done so for the timeout at most.
CacheIsCautious == cache # NoToken => cache.expiresAt <= cache.validUntil
FetchIsNeeded ==
    \A n \in Notification : call[n].pc \in {"fetch", "granted"} =>
        /\ call[n].start <= clock /\ clock <= call[n].start + Timeout
        /\ cache = NoToken \/ cache.expiresAt - clock <= Lead
        /\ call[n].pc = "granted" => call[n].start + Lifetime <= call[n].validUntil

SourceInv == SourceTypeOK /\ MutexOK /\ CacheIsCautious /\ FetchIsNeeded
DeliveryInv == PushInv /\ SourceInv

LEMMA InitDeliveryInv == DeliveryInit => DeliveryInv
<1> SUFFICES ASSUME DeliveryInit PROVE DeliveryInv
  OBVIOUS
<1> USE DEF DeliveryInit
<1>1. PushInv
  BY InitInv
<1>2. SourceTypeOK
  BY PushDeliveryAssumption DEF SourceTypeOK, FcmCall
<1>3. MutexOK /\ CacheIsCautious /\ FetchIsNeeded
  BY DEF MutexOK, InToken, CacheIsCautious, FetchIsNeeded, NoCall
<1>4. QED
  BY <1>1, <1>2, <1>3 DEF DeliveryInv, SourceInv

(***************************************************************************)
(* Every step is a step of DevicePush, or leaves its state alone.          *)
(***************************************************************************)
LEMMA SendIsNext ==
    ASSUME TypeOK, NEW n \in Notification, NEW x, NEW o \in Call, Send(n, x, o)
    PROVE  Next
<1>1. x \in Device \X PushToken
  BY PushFacts DEF Send
<1>2. QED
  BY <1>1 DEF Next

LEMMA StepMaps == TypeOK /\ [DeliveryNext]_deliveryVars => [Next]_vars
<1> SUFFICES ASSUME TypeOK, [DeliveryNext]_deliveryVars PROVE [Next]_vars
  OBVIOUS
<1>1. ASSUME NEW n \in Notification, Deliver(n) PROVE [Next]_vars
  <2>1. \/ UNCHANGED vars
        \/ \E x, o : o \in Call /\ Send(n, x, o)
    BY <1>1 DEF Deliver, Lock, Locked, Grant, Fetched, FetchFails, PostToFcm, PushToApns, Call
  <2>2. QED
    BY <2>1, SendIsNext
<1>2. CASE Tick
  BY <1>2 DEF Tick
<1>3. CASE Restart
  BY <1>3 DEF Restart, Next
<1>4. CASE Request \/ TryPush
  BY <1>4 DEF Next
<1>5. CASE UNCHANGED deliveryVars
  BY <1>5 DEF deliveryVars
<1>6. QED
  BY <1>1, <1>2, <1>3, <1>4, <1>5 DEF DeliveryNext

(***************************************************************************)
(* The mutex.                                                              *)
(***************************************************************************)
\* What a call under way holds has the fields its pc says.
LEMMA CallFacts ==
    ASSUME SourceTypeOK, NEW n \in Notification
    PROVE  /\ call[n] \in FcmCall
           /\ call[n].pc \in {"none", "lock", "fetch", "granted", "post"}
           /\ call[n].pc = "none" => call[n] = NoCall
           /\ call[n].pc # "none" => call[n].to \in Address
           /\ InToken(n) => call[n].since \in Time
           /\ call[n].pc \in {"fetch", "granted"} =>
                 call[n].start \in Time /\ call[n].validUntil \in Time
           /\ call[n].pc = "post" => call[n].bearer \in Bearer
BY DEF SourceTypeOK, FcmCall, NoCall, InToken

\* Who talks to the token endpoint is the first in the mutex.
LEMMA FetcherHolds ==
    ASSUME SourceTypeOK, MutexOK, NEW n \in Notification,
           InToken(n), call[n].pc = "lock" => Head(mutex) = n
    PROVE  mutex # <<>> /\ Head(mutex) = n /\ mutex[1] = n
<1>1. PICK i \in DOMAIN mutex : mutex[i] = n
  BY DEF MutexOK
<1>2. mutex # <<>> /\ Head(mutex) = mutex[1] /\ DOMAIN mutex = 1..Len(mutex) /\ Len(mutex) \in Nat
  BY <1>1 DEF SourceTypeOK
<1>3. CASE call[n].pc = "lock"
  BY <1>2, <1>3
<1>4. CASE call[n].pc # "lock"
  <2>1. i = 1
    BY <1>1, <1>2, <1>4 DEF MutexOK
  <2>2. QED
    BY <1>1, <1>2, <2>1
<1>5. QED
  BY <1>3, <1>4

\* The holder leaves: the others move up.
LEMMA Unlock ==
    ASSUME SourceTypeOK, MutexOK, NEW n \in Notification, mutex # <<>>, Head(mutex) = n,
           NEW r \in FcmCall, r.pc \notin {"lock", "fetch", "granted"},
           call' = [call EXCEPT ![n] = r], mutex' = Tail(mutex)
    PROVE  mutex' \in Seq(Notification) /\ MutexOK'
<1>1. /\ mutex' \in Seq(Notification)
      /\ DOMAIN mutex = 1..Len(mutex) /\ Len(mutex) \in Nat /\ Len(mutex) > 0
      /\ DOMAIN mutex' = 1..(Len(mutex) - 1)
      /\ \A i \in 1..(Len(mutex) - 1) : mutex'[i] = mutex[i + 1]
      /\ mutex[1] = n
  BY DEF SourceTypeOK
<1>2. \A i, j \in DOMAIN mutex' : mutex'[i] = mutex'[j] => i = j
  <2>1. ASSUME NEW i \in DOMAIN mutex', NEW j \in DOMAIN mutex', mutex'[i] = mutex'[j]
        PROVE  i = j
    <3>1. i + 1 \in DOMAIN mutex /\ j + 1 \in DOMAIN mutex /\ mutex[i + 1] = mutex[j + 1]
      BY <1>1, <2>1
    <3>2. i + 1 = j + 1
      BY <3>1 DEF MutexOK
    <3>3. QED
      BY <1>1, <3>2
  <2>2. QED
    BY <2>1
<1>3. \A i \in DOMAIN mutex' : mutex'[i] # n /\ call[mutex'[i]].pc = "lock"
  <2>1. ASSUME NEW i \in DOMAIN mutex' PROVE mutex'[i] # n /\ call[mutex'[i]].pc = "lock"
    <3>1. i + 1 \in DOMAIN mutex /\ 1 \in DOMAIN mutex /\ i + 1 > 1 /\ mutex'[i] = mutex[i + 1]
      BY <1>1
    <3>2. QED
      BY <1>1, <3>1 DEF MutexOK
  <2>2. QED
    BY <2>1
<1>4. \A m \in Notification : call'[m] = IF m = n THEN r ELSE call[m]
  BY DEF SourceTypeOK
<1>5. \A i \in DOMAIN mutex' : call'[mutex'[i]].pc = "lock"
  <2>1. \A i \in DOMAIN mutex' : mutex'[i] \in Notification
    BY <1>1
  <2>2. QED
    BY <1>3, <1>4, <2>1
<1>6. ASSUME NEW m \in Notification
      PROVE  InToken(m)' <=> \E i \in DOMAIN mutex' : mutex'[i] = m
  <2>1. CASE m = n
    BY <1>3, <1>4, <2>1 DEF InToken
  <2>2. CASE m # n
    <3>1. InToken(m)' <=> InToken(m)
      BY <1>4, <2>2 DEF InToken
    <3>2. ASSUME NEW i \in DOMAIN mutex, mutex[i] = m
          PROVE  \E k \in DOMAIN mutex' : mutex'[k] = m
      <4>1. i # 1
        BY <1>1, <2>2, <3>2
      <4>2. i - 1 \in DOMAIN mutex' /\ mutex'[i - 1] = m
        BY <1>1, <3>2, <4>1
      <4>3. QED
        BY <4>2
    <3>3. ASSUME NEW k \in DOMAIN mutex', mutex'[k] = m
          PROVE  \E i \in DOMAIN mutex : mutex[i] = m
      <4>1. k + 1 \in DOMAIN mutex /\ mutex[k + 1] = m
        BY <1>1, <3>3
      <4>2. QED
        BY <4>1
    <3>4. QED
      BY <3>1, <3>2, <3>3 DEF MutexOK
  <2>3. QED
    BY <2>1, <2>2
<1>7. QED
  BY <1>1, <1>2, <1>5, <1>6 DEF MutexOK

\* The holder stays and goes on.
LEMMA HoldOn ==
    ASSUME SourceTypeOK, MutexOK, NEW n \in Notification, InToken(n), mutex[1] = n,
           mutex # <<>>,
           NEW r \in FcmCall, r.pc \in {"lock", "fetch", "granted"},
           call' = [call EXCEPT ![n] = r], mutex' = mutex
    PROVE  MutexOK'
<1>1. \A m \in Notification : call'[m] = IF m = n THEN r ELSE call[m]
  BY DEF SourceTypeOK
<1>2. 1 \in DOMAIN mutex /\ DOMAIN mutex \subseteq Int /\ \A i \in DOMAIN mutex : mutex[i] \in Notification
  BY DEF SourceTypeOK
<1>3. \A i \in DOMAIN mutex : i > 1 => mutex[i] # n
  BY <1>2 DEF MutexOK
<1>4. QED
  BY <1>1, <1>2, <1>3 DEF MutexOK, InToken

\* One more waits.
LEMMA Join ==
    ASSUME SourceTypeOK, MutexOK, NEW n \in Notification, ~InToken(n),
           NEW r \in FcmCall, r.pc = "lock",
           call' = [call EXCEPT ![n] = r], mutex' = Append(mutex, n)
    PROVE  mutex' \in Seq(Notification) /\ MutexOK'
<1>1. /\ mutex' \in Seq(Notification)
      /\ DOMAIN mutex = 1..Len(mutex) /\ Len(mutex) \in Nat
      /\ DOMAIN mutex' = 1..(Len(mutex) + 1)
      /\ \A i \in 1..Len(mutex) : mutex'[i] = mutex[i] /\ mutex[i] \in Notification
      /\ mutex'[Len(mutex) + 1] = n
  BY DEF SourceTypeOK
<1>2. \A m \in Notification : call'[m] = IF m = n THEN r ELSE call[m]
  BY DEF SourceTypeOK
<1>3. \A i \in DOMAIN mutex : mutex[i] # n
  BY DEF MutexOK
<1>4. \A i, j \in DOMAIN mutex' : mutex'[i] = mutex'[j] => i = j
  BY <1>1, <1>3 DEF MutexOK
<1>5. ASSUME NEW m \in Notification
      PROVE  InToken(m)' <=> \E i \in DOMAIN mutex' : mutex'[i] = m
  <2>1. CASE m = n
    <3>1. InToken(m)' /\ Len(mutex) + 1 \in DOMAIN mutex'
      BY <1>1, <1>2, <2>1 DEF InToken
    <3>2. QED
      BY <1>1, <2>1, <3>1
  <2>2. CASE m # n
    <3>1. InToken(m)' <=> InToken(m)
      BY <1>2, <2>2 DEF InToken
    <3>2. (\E i \in DOMAIN mutex' : mutex'[i] = m) <=> \E i \in DOMAIN mutex : mutex[i] = m
      BY <1>1, <2>2
    <3>3. QED
      BY <3>1, <3>2 DEF MutexOK
  <2>3. QED
    BY <2>1, <2>2
<1>6. \A i \in DOMAIN mutex' : i > 1 => call'[mutex'[i]].pc = "lock"
  BY <1>1, <1>2, <1>3 DEF MutexOK
<1>7. QED
  BY <1>1, <1>4, <1>5, <1>6 DEF MutexOK

(***************************************************************************)
(* Every step keeps the invariant of the token source.                     *)
(***************************************************************************)
LEMMA LockInv ==
    ASSUME SourceInv, NEW n \in Notification, NEW x \in Address, Lock(n, x)
    PROVE  SourceInv'
<1> DEFINE r == [pc |-> "lock", to |-> x, since |-> clock]
<1>1. r \in FcmCall /\ r.pc = "lock" /\ ~InToken(n) /\ clock \in 0..MaxTime
  BY PushDeliveryAssumption DEF SourceInv, SourceTypeOK, FcmCall, Time, InToken, NoCall, Lock
<1>2. /\ call' = [call EXCEPT ![n] = r]
      /\ mutex' = Append(mutex, n)
      /\ UNCHANGED <<clock, cache>>
  BY DEF Lock
<1> HIDE DEF r
<1>3. mutex' \in Seq(Notification) /\ MutexOK'
  BY <1>1, <1>2, Join DEF SourceInv
<1>4. SourceTypeOK'
  BY <1>1, <1>2, <1>3 DEF SourceInv, SourceTypeOK
<1>5. FetchIsNeeded'
  BY <1>1, <1>2 DEF SourceInv, SourceTypeOK, FetchIsNeeded
<1>6. QED
  BY <1>2, <1>3, <1>4, <1>5 DEF SourceInv, CacheIsCautious

\* What a bearer out of the cache or of the answer is.
LEMMA PostIsCall ==
    ASSUME SourceTypeOK, NEW n \in Notification, call[n].pc # "none", NEW b \in Bearer
    PROVE  Post(n, b) \in FcmCall /\ Post(n, b).pc = "post" /\ Post(n, b).bearer = b
<1>1. call[n].to \in Address
  BY CallFacts
<1>2. QED
  BY <1>1 DEF Post, FcmCall

LEMMA LockedInv ==
    ASSUME SourceInv, NEW n \in Notification, Locked(n)
    PROVE  SourceInv'
<1>1. /\ SourceTypeOK /\ MutexOK /\ call[n].pc = "lock" /\ InToken(n)
      /\ mutex # <<>> /\ Head(mutex) = n /\ mutex[1] = n
  BY FetcherHolds DEF Locked, InToken, SourceInv
<1>2. CASE Fresh
  <2>1. cache \in Bearer
    BY <1>1, <1>2 DEF Fresh, SourceTypeOK
  <2>2. call' = [call EXCEPT ![n] = Post(n, cache)] /\ mutex' = Tail(mutex) /\ UNCHANGED <<clock, cache>>
    BY <1>2 DEF Locked
  <2>3. Post(n, cache) \in FcmCall /\ Post(n, cache).pc = "post"
    BY <1>1, <2>1, PostIsCall
  <2>4. mutex' \in Seq(Notification) /\ MutexOK'
    BY <1>1, <2>2, <2>3, Unlock
  <2>5. SourceTypeOK'
    BY <1>1, <2>2, <2>3, <2>4 DEF SourceTypeOK
  <2>6. FetchIsNeeded'
    BY <1>1, <2>2, <2>3 DEF SourceInv, SourceTypeOK, FetchIsNeeded
  <2>7. QED
    BY <2>2, <2>4, <2>5, <2>6 DEF SourceInv, CacheIsCautious
<1>3. CASE ~Fresh
  <2> DEFINE r == Fetch(n)
  <2>1. call' = [call EXCEPT ![n] = r] /\ UNCHANGED <<clock, cache, mutex>>
    BY <1>3 DEF Locked
  <2>2. clock \in Time /\ clock \in Nat /\ call[n].to \in Address /\ call[n].since \in Time /\ 0 \in Time
    BY <1>1, CallFacts, PushDeliveryAssumption DEF SourceTypeOK, Time
  <2>3. r \in FcmCall /\ r.pc = "fetch" /\ r.start = clock
    BY <2>2 DEF Fetch, FcmCall
  <2>4. cache = NoToken \/ cache.expiresAt - clock <= Lead
    <3>1. CASE cache # NoToken
      <4>1. cache.expiresAt \in Int /\ Lead \in Int
        BY <1>1, <3>1, PushDeliveryAssumption DEF SourceTypeOK, Bearer, Time
      <4>2. QED
        BY <1>3, <2>2, <4>1 DEF Fresh
    <3>2. QED
      BY <3>1
  <2> HIDE DEF r
  <2>5. MutexOK'
    BY <1>1, <2>1, <2>3, HoldOn
  <2>6. SourceTypeOK'
    BY <1>1, <2>1, <2>3 DEF SourceTypeOK
  <2>7. \A m \in Notification : call'[m] = IF m = n THEN r ELSE call[m]
    BY <1>1, <2>1 DEF SourceTypeOK
  <2>8. FetchIsNeeded'
    BY <2>1, <2>2, <2>3, <2>4, <2>7, PushDeliveryAssumption DEF SourceInv, FetchIsNeeded
  <2>9. QED
    BY <2>1, <2>5, <2>6, <2>8 DEF SourceInv, CacheIsCautious
<1>4. QED
  BY <1>2, <1>3

LEMMA GrantInv ==
    ASSUME SourceInv, NEW n \in Notification, Grant(n)
    PROVE  SourceInv'
<1>1. /\ SourceTypeOK /\ MutexOK /\ call[n].pc = "fetch" /\ InToken(n)
      /\ mutex # <<>> /\ Head(mutex) = n /\ mutex[1] = n
  BY FetcherHolds DEF Grant, InToken, SourceInv
<1> DEFINE c == call[n]
           r == [c EXCEPT !.pc = "granted", !.validUntil = clock + Lifetime]
<1>2. /\ c \in [pc : {"fetch", "granted"}, to : Address, since : Time, start : Time,
                validUntil : Time]
      /\ c.start \in Time /\ clock \in 0..MaxTime /\ clock + Lifetime \in Time
  BY <1>1, CallFacts, PushDeliveryAssumption DEF SourceTypeOK, FcmCall, NoCall, Time
<1>3. /\ r \in FcmCall /\ r.pc = "granted" /\ r.start = c.start
      /\ r.validUntil = clock + Lifetime
  <2> HIDE DEF c
  <2>1. r \in [pc : {"fetch", "granted"}, to : Address, since : Time, start : Time,
               validUntil : Time]
    BY <1>2
  <2>2. r.pc = "granted" /\ r.start = c.start /\ r.validUntil = clock + Lifetime
    BY <1>2
  <2>3. QED
    BY <2>1, <2>2 DEF FcmCall
<1>4. call' = [call EXCEPT ![n] = r] /\ UNCHANGED <<clock, cache, mutex>>
  BY <1>1 DEF Grant, SourceTypeOK
<1> HIDE DEF r
<1>5. MutexOK'
  BY <1>1, <1>3, <1>4, HoldOn
<1>6. SourceTypeOK'
  BY <1>1, <1>3, <1>4 DEF SourceTypeOK
<1>7. \A m \in Notification : call'[m] = IF m = n THEN r ELSE call[m]
  BY <1>1, <1>4 DEF SourceTypeOK
<1>8. FetchIsNeeded'
  <2>1. /\ call[n].start <= clock /\ clock <= call[n].start + Timeout
        /\ cache = NoToken \/ cache.expiresAt - clock <= Lead
    BY <1>1 DEF SourceInv, FetchIsNeeded
  <2>2. call[n].start + Lifetime <= clock + Lifetime
    BY <1>2, <2>1, PushDeliveryAssumption DEF Time
  <2>3. QED
    BY <1>3, <1>4, <1>7, <2>1, <2>2 DEF SourceInv, FetchIsNeeded
<1>9. QED
  BY <1>4, <1>5, <1>6, <1>8 DEF SourceInv, CacheIsCautious

LEMMA FetchedInv ==
    ASSUME SourceInv, NEW n \in Notification, Fetched(n)
    PROVE  SourceInv'
<1>1. /\ SourceTypeOK /\ MutexOK /\ call[n].pc = "granted" /\ InToken(n)
      /\ mutex # <<>> /\ Head(mutex) = n /\ mutex[1] = n
  BY FetcherHolds DEF Fetched, InToken, SourceInv
<1> DEFINE b == [expiresAt |-> call[n].start + Lifetime, validUntil |-> call[n].validUntil]
<1>2. /\ call[n].start \in Nat /\ call[n].validUntil \in Time
      /\ call[n].start <= clock /\ clock \in 0..MaxTime
      /\ call[n].start + Lifetime <= call[n].validUntil
  BY <1>1, CallFacts DEF SourceTypeOK, SourceInv, FetchIsNeeded, Time
<1>3. b \in Bearer /\ b.expiresAt <= b.validUntil
  BY <1>2, PushDeliveryAssumption DEF Bearer, Time
<1>4. Post(n, b) \in FcmCall /\ Post(n, b).pc = "post"
  BY <1>1, <1>3, PostIsCall
<1>5. /\ call' = [call EXCEPT ![n] = Post(n, b)]
      /\ mutex' = Tail(mutex) /\ cache' = b /\ UNCHANGED clock
  BY DEF Fetched
<1> HIDE DEF b
<1>6. mutex' \in Seq(Notification) /\ MutexOK'
  BY <1>1, <1>4, <1>5, Unlock
<1>7. SourceTypeOK'
  BY <1>1, <1>3, <1>4, <1>5, <1>6 DEF SourceTypeOK
<1>8. \A m \in Notification : call'[m] = IF m = n THEN Post(n, b) ELSE call[m]
  BY <1>1, <1>5 DEF SourceTypeOK
<1>9. \A m \in Notification : call'[m].pc \notin {"fetch", "granted"}
  <2>1. ASSUME NEW m \in Notification, m # n PROVE call[m].pc \notin {"fetch", "granted"}
    BY <1>1, <2>1, FetcherHolds DEF InToken
  <2>2. QED
    BY <1>4, <1>8, <2>1
<1>10. FetchIsNeeded'
  BY <1>9 DEF FetchIsNeeded
<1>11. QED
  BY <1>3, <1>5, <1>6, <1>7, <1>10 DEF SourceInv, CacheIsCautious

LEMMA FetchFailsInv ==
    ASSUME SourceInv, NEW n \in Notification, FetchFails(n)
    PROVE  SourceInv'
<1>1. /\ SourceTypeOK /\ MutexOK /\ InToken(n)
      /\ mutex # <<>> /\ Head(mutex) = n
  BY FetcherHolds DEF FetchFails, InToken, SourceInv
<1>2. NoCall \in FcmCall /\ NoCall.pc = "none"
  BY DEF FcmCall, NoCall
<1>3. /\ call' = [call EXCEPT ![n] = NoCall]
      /\ mutex' = Tail(mutex) /\ UNCHANGED <<clock, cache>>
  BY DEF FetchFails
<1>4. mutex' \in Seq(Notification) /\ MutexOK'
  BY <1>1, <1>2, <1>3, Unlock
<1>5. SourceTypeOK'
  BY <1>1, <1>2, <1>3, <1>4 DEF SourceTypeOK
<1>6. FetchIsNeeded'
  BY <1>1, <1>2, <1>3 DEF SourceInv, SourceTypeOK, FetchIsNeeded
<1>7. QED
  BY <1>3, <1>4, <1>5, <1>6 DEF SourceInv, CacheIsCautious

\* The answer of FCM, outside of the mutex.
LEMMA PostToFcmInv ==
    ASSUME SourceInv, NEW n \in Notification, NEW o \in Call, PostToFcm(n, o)
    PROVE  SourceInv'
<1>1. /\ SourceTypeOK /\ MutexOK /\ ~InToken(n)
  BY DEF PostToFcm, InToken, SourceInv
<1>2. NoCall \in FcmCall /\ NoCall.pc = "none"
  BY DEF FcmCall, NoCall
<1>3. call' = [call EXCEPT ![n] = NoCall] /\ UNCHANGED <<mutex, clock, cache>>
  BY DEF PostToFcm
<1>4. \A m \in Notification : call'[m] = IF m = n THEN NoCall ELSE call[m]
  BY <1>1, <1>3 DEF SourceTypeOK
<1>5. \A i \in DOMAIN mutex : mutex[i] \in Notification /\ mutex[i] # n
  BY <1>1 DEF MutexOK, SourceTypeOK
<1>6. MutexOK'
  BY <1>1, <1>2, <1>3, <1>4, <1>5 DEF MutexOK, InToken
<1>7. SourceTypeOK'
  BY <1>1, <1>2, <1>3 DEF SourceTypeOK
<1>8. FetchIsNeeded'
  BY <1>2, <1>3, <1>4 DEF SourceInv, FetchIsNeeded
<1>9. QED
  BY <1>3, <1>6, <1>7, <1>8 DEF SourceInv, CacheIsCautious

LEMMA TickInv == SourceInv /\ Tick => SourceInv'
<1> SUFFICES ASSUME SourceInv, Tick PROVE SourceInv'
  OBVIOUS
<1>1. /\ clock \in 0..MaxTime /\ clock < MaxTime /\ clock' = clock + 1
      /\ UNCHANGED <<mutex, cache, call>>
  BY DEF SourceInv, SourceTypeOK, Tick
<1>2. SourceTypeOK'
  BY <1>1, PushDeliveryAssumption DEF SourceInv, SourceTypeOK
<1>3. MutexOK' /\ CacheIsCautious'
  BY <1>1 DEF SourceInv, MutexOK, InToken, CacheIsCautious
<1>4. ASSUME NEW n \in Notification, call[n].pc \in {"fetch", "granted"}
      PROVE  /\ call[n].start <= clock' /\ clock' <= call[n].start + Timeout
             /\ cache = NoToken \/ cache.expiresAt - clock' <= Lead
  <2>1. call[n].start \in Nat /\ clock < call[n].start + Timeout /\ call[n].start <= clock
    BY <1>4, CallFacts DEF SourceInv, FetchIsNeeded, Tick, InTime, Time
  <2>2. cache # NoToken => cache.expiresAt \in Nat /\ cache.expiresAt - clock <= Lead
    BY <1>4 DEF SourceInv, FetchIsNeeded, SourceTypeOK, Bearer, Time
  <2>3. QED
    BY <1>1, <2>1, <2>2, PushDeliveryAssumption
<1>5. FetchIsNeeded'
  BY <1>1, <1>4 DEF SourceInv, FetchIsNeeded
<1>6. QED
  BY <1>2, <1>3, <1>5 DEF SourceInv

LEMMA RestartInv == SourceInv /\ Restart => SourceInv'
BY DEF SourceInv, SourceTypeOK, MutexOK, InToken, CacheIsCautious, FetchIsNeeded, Restart,
       FcmCall, NoCall

LEMMA DeliveryNextInv == DeliveryInv /\ [DeliveryNext]_deliveryVars => DeliveryInv'
<1> SUFFICES ASSUME DeliveryInv, [DeliveryNext]_deliveryVars PROVE DeliveryInv'
  OBVIOUS
<1>1. PushInv'
  BY StepMaps, NextInv DEF DeliveryInv, PushInv
<1>2. ASSUME UNCHANGED source PROVE SourceInv'
  BY <1>2 DEF source, DeliveryInv, SourceInv, SourceTypeOK, MutexOK, InToken, CacheIsCautious,
              FetchIsNeeded
<1>3. ASSUME NEW n \in Notification, Deliver(n) PROVE SourceInv'
  BY <1>2, <1>3, LockInv, LockedInv, GrantInv, FetchedInv, FetchFailsInv, PostToFcmInv
  DEF Deliver, PushToApns, DeliveryInv
<1>4. SourceInv'
  BY <1>2, <1>3, TickInv, RestartInv DEF DeliveryNext, DeliveryInv, deliveryVars
<1>5. QED
  BY <1>1, <1>4 DEF DeliveryInv

(***************************************************************************)
(* The theorems.                                                           *)
(***************************************************************************)
LEMMA DeliveryInvariant == DeliverySpec => []DeliveryInv
BY InitDeliveryInv, DeliveryNextInv, PTL DEF DeliverySpec

\* The state of the adapters is well typed, and the mutex is held by one caller
\* of Token, who is the only one at the token endpoint.
THEOREM DeliveryTypeCorrect == DeliverySpec => []DeliveryTypeOK
<1>1. DeliveryInv => DeliveryTypeOK
  BY DEF DeliveryInv, PushInv, SourceInv, DeliveryTypeOK
<1>2. QED
  BY <1>1, DeliveryInvariant, PTL

\* Dispatcher, adapters and token source implement the sending of DevicePush.
THEOREM DeliveryRefines == DeliverySpec => ImplementsDevicePush
<1>1. DeliveryInit => Init
  BY DEF DeliveryInit
<1>2. DeliveryInv /\ [DeliveryNext]_deliveryVars => [Next]_vars
  BY StepMaps DEF DeliveryInv, PushInv
<1>3. QED
  BY <1>1, <1>2, DeliveryInvariant, PTL DEF DeliverySpec, ImplementsDevicePush, Spec

\* A push sent through the adapters reaches the device's last registered user.
THEOREM DeliveryReachesHolder == DeliverySpec => PushReachesHolder
BY DeliveryRefines, HolderGetsPush, PTL DEF ImplementsDevicePush

\* No request leaves for FCM with a bearer about to expire.
THEOREM BearersAreFresh == DeliverySpec => BearerIsFresh
<1>1. ASSUME DeliveryInv, [DeliveryNext]_deliveryVars, NEW n \in Notification,
             call[n].pc # "post", call'[n].pc = "post"
      PROVE  \/ call'[n].bearer.validUntil - clock > Lead
             \/ call'[n].bearer.validUntil - clock >= Lifetime - Timeout
  <2>1. SourceTypeOK /\ MutexOK
    BY <1>1 DEF DeliveryInv, SourceInv
  <2>2. clock \in Nat /\ Lead \in Nat /\ Lifetime \in Nat /\ Timeout \in Nat
    BY <2>1, PushDeliveryAssumption DEF SourceTypeOK
  <2>3. CASE Locked(n) /\ Fresh
    <3>1. cache \in Bearer /\ call'[n] = Post(n, cache)
      BY <2>1, <2>3 DEF Locked, Fresh, SourceTypeOK
    <3>2. /\ cache.expiresAt \in Nat /\ cache.validUntil \in Nat
          /\ cache.expiresAt <= cache.validUntil /\ cache.expiresAt - clock > Lead
      BY <1>1, <2>3, <3>1 DEF Bearer, Time, DeliveryInv, SourceInv, CacheIsCautious, Fresh
    <3>3. QED
      BY <2>2, <3>1, <3>2 DEF Post
  <2>4. CASE Fetched(n)
    <3>1. call'[n].bearer.validUntil = call[n].validUntil /\ call[n].pc = "granted"
      BY <2>1, <2>4 DEF Fetched, Post, SourceTypeOK
    <3>2. /\ call[n].start \in Nat /\ call[n].validUntil \in Nat
          /\ call[n].start + Lifetime <= call[n].validUntil
          /\ clock <= call[n].start + Timeout
      BY <1>1, <2>1, <3>1, CallFacts DEF Time, DeliveryInv, SourceInv, FetchIsNeeded
    <3>3. QED
      BY <2>2, <3>1, <3>2
  <2>5. (Locked(n) /\ Fresh) \/ Fetched(n)
    <3>1. ASSUME NEW m \in Notification, Deliver(m) PROVE (Locked(n) /\ Fresh) \/ Fetched(n)
      <4>1. CASE m # n
        BY <1>1, <2>1, <3>1, <4>1
        DEF Deliver, Lock, Locked, Grant, Fetched, FetchFails, PostToFcm, PushToApns,
            source, SourceTypeOK
      <4>2. CASE m = n
        <5>1. \A r : call' = [call EXCEPT ![n] = r] => r.pc = "post"
          BY <1>1, <2>1 DEF SourceTypeOK
        <5>2. /\ ~FetchFails(n)
              /\ \A x \in Address : ~Lock(n, x)
              /\ \A o \in Call : ~PostToFcm(n, o)
          BY <5>1 DEF Lock, FetchFails, PostToFcm, NoCall
        <5>3. ~Grant(n)
          <6>1. SUFFICES ASSUME Grant(n) PROVE FALSE
            OBVIOUS
          <6> DEFINE c == call[n]
                     r == [c EXCEPT !.pc = "granted", !.validUntil = clock + Lifetime]
          <6>2. c \in [pc : {"fetch", "granted"}, to : Address, since : Time, start : Time,
                       validUntil : Time]
            BY <2>1, <6>1, CallFacts DEF FcmCall, NoCall, Grant
          <6>3. call' = [call EXCEPT ![n] = r]
            BY <2>1, <6>1 DEF Grant, SourceTypeOK
          <6> HIDE DEF c
          <6>4. r.pc = "granted"
            BY <6>2
          <6> HIDE DEF r
          <6>5. QED
            BY <5>1, <6>3, <6>4
        <5>4. \A x \in Address, o \in Call : ~PushToApns(n, x, o)
          BY <1>1 DEF PushToApns, source
        <5>5. Locked(n) => Fresh
          BY <5>1 DEF Locked, Fetch
        <5>6. QED
          BY <3>1, <4>2, <5>2, <5>3, <5>4, <5>5 DEF Deliver
      <4>3. QED
        BY <4>1, <4>2
    <3>2. QED
      BY <1>1, <3>1 DEF DeliveryNext, Tick, Restart, source, deliveryVars, NoCall
  <2>6. QED
    BY <2>3, <2>4, <2>5
<1>2. DeliveryInv /\ [DeliveryNext]_deliveryVars =>
          [\A n \in Notification : call[n].pc # "post" /\ call'[n].pc = "post" =>
              LET left == call'[n].bearer.validUntil - clock
              IN  left > Lead \/ left >= Lifetime - Timeout]_deliveryVars
  BY <1>1
<1>3. QED
  BY <1>2, DeliveryInvariant, PTL DEF DeliverySpec, BearerIsFresh

\* However many callers meet, a cached token is replaced when it is due only.
THEOREM FetchesAreSparing == DeliverySpec => FetchedSparingly
<1>1. ASSUME DeliveryInv, [DeliveryNext]_deliveryVars, cache # cache', cache # NoToken
      PROVE  cache' = NoToken \/ cache.expiresAt - clock <= Lead
  <2>1. ASSUME NEW n \in Notification, Deliver(n) PROVE cache.expiresAt - clock <= Lead
    <3>1. Fetched(n)
      BY <1>1, <2>1 DEF Deliver, Lock, Locked, Grant, FetchFails, PostToFcm, PushToApns, source
    <3>2. QED
      BY <1>1, <3>1 DEF Fetched, DeliveryInv, SourceInv, FetchIsNeeded
  <2>2. QED
    BY <1>1, <2>1 DEF DeliveryNext, Tick, Restart, source, deliveryVars
<1>2. DeliveryInv /\ [DeliveryNext]_deliveryVars =>
          [cache # cache' /\ cache # NoToken =>
              cache' = NoToken \/ cache.expiresAt - clock <= Lead]_deliveryVars
  BY <1>1
<1>3. QED
  BY <1>2, DeliveryInvariant, PTL DEF DeliverySpec, FetchedSparingly

(***************************************************************************)
(* The wait for the mutex.  Whoever is i-th in it has seen the callers who *)
(* were ahead of him come and go; there are one fewer than notifications,  *)
(* each held the mutex for the timeout at most, and so far has the holder. *)
(***************************************************************************)
Held == IF call[mutex[1]].pc = "lock" THEN 0 ELSE clock - call[mutex[1]].start
WaitIsShared ==
    \A i \in DOMAIN mutex :
        clock - call[mutex[i]].since <= Timeout * (Cardinality(Notification) - i) + Held

\* Nobody is in the mutex twice.
LEMMA QueueFits ==
    ASSUME NEW s \in Seq(Notification), \A i, j \in DOMAIN s : s[i] = s[j] => i = j
    PROVE  /\ Cardinality(Notification) \in Nat
           /\ Len(s) <= Cardinality(Notification)
<1>1. IsFiniteSet(Notification)
  BY PushDeliveryAssumption
<1>2. Len(s) \in Nat /\ s \in [1..Len(s) -> Notification] /\ DOMAIN s = 1..Len(s)
  OBVIOUS
<1>3. s \in Injection(1..Len(s), Notification)
  BY <1>2 DEF Injection, IsInjective
<1>4. Cardinality(1..Len(s)) = Len(s)
  BY <1>2, FS_Interval
<1>5. QED
  BY <1>1, <1>3, <1>4, FS_Injection, FS_CardinalityType

\* Who is in the mutex, and the times they came and started.
LEMMA MutexFacts ==
    ASSUME SourceInv, NEW i \in DOMAIN mutex
    PROVE  /\ clock \in Nat /\ Timeout \in Nat /\ i \in Nat /\ i > 0 /\ i <= Len(mutex)
           /\ 1 \in DOMAIN mutex /\ DOMAIN mutex = 1..Len(mutex)
           /\ mutex[i] \in Notification /\ mutex[1] \in Notification
           /\ call[mutex[i]].since \in Nat
           /\ Held \in Nat /\ Held <= Timeout
<1>1. /\ clock \in Nat /\ Timeout \in Nat /\ i \in Nat /\ i > 0 /\ i <= Len(mutex)
      /\ 1 \in DOMAIN mutex /\ DOMAIN mutex = 1..Len(mutex)
      /\ mutex[i] \in Notification /\ mutex[1] \in Notification
  BY PushDeliveryAssumption DEF SourceInv, SourceTypeOK
<1>2. InToken(mutex[i]) /\ InToken(mutex[1])
  BY <1>1 DEF SourceInv, MutexOK
<1>3. call[mutex[i]].since \in Nat
  BY <1>1, <1>2, CallFacts DEF SourceInv, Time
<1>4. Held \in Nat /\ Held <= Timeout
  <2>1. CASE call[mutex[1]].pc = "lock"
    BY <1>1, <2>1 DEF Held
  <2>2. CASE call[mutex[1]].pc \in {"fetch", "granted"}
    <3>1. call[mutex[1]].start \in Nat
      BY <1>1, <2>2, CallFacts DEF SourceInv, Time
    <3>2. call[mutex[1]].start <= clock /\ clock <= call[mutex[1]].start + Timeout
      BY <1>1, <2>2 DEF SourceInv, FetchIsNeeded
    <3>3. QED
      BY <1>1, <2>2, <3>1, <3>2 DEF Held
  <2>3. QED
    BY <1>2, <2>1, <2>2 DEF InToken
<1>5. QED
  BY <1>1, <1>3, <1>4

\* Moving up by one is worth a timeout.
LEMMA OneTimeout ==
    ASSUME NEW t \in Nat, NEW c \in Nat, NEW i \in Nat
    PROVE  /\ t * (c - (i + 1)) \in Int
           /\ t * (c - i) = t * (c - (i + 1)) + t
           /\ i <= c => t * (c - i) >= 0
           /\ i > 0 => t * (c - i) + t <= t * c
<1>1. \A a, b \in Nat : a * b \in Nat
  OBVIOUS
<1>2. t * (c - (i + 1)) \in Int /\ t * (c - i) = t * (c - (i + 1)) + t
  OBVIOUS
<1>3. ASSUME i <= c PROVE t * (c - i) >= 0
  <2>1. c - i \in Nat
    BY <1>3
  <2>2. QED
    BY <1>1, <2>1
<1>4. ASSUME i > 0 PROVE t * (c - i) + t <= t * c
  <2>1. i - 1 \in Nat /\ t * (i - 1) \in Nat
    BY <1>1, <1>4
  <2>2. t * (c - i) + t + t * (i - 1) = t * c
    OBVIOUS
  <2>3. t * (c - i) \in Int /\ t * c \in Int
    OBVIOUS
  <2>4. QED
    BY <2>1, <2>2, <2>3
<1>5. QED
  BY <1>2, <1>3, <1>4

\* One more waits, behind all the others.
LEMMA WaitJoins ==
    ASSUME SourceInv, WaitIsShared, NEW n \in Notification, NEW x \in Address, Lock(n, x)
    PROVE  WaitIsShared'
<1> DEFINE C == Cardinality(Notification)
           L == Len(mutex)
<1>1. /\ mutex \in Seq(Notification) /\ L \in Nat /\ DOMAIN mutex = 1..L
      /\ mutex' \in Seq(Notification) /\ DOMAIN mutex' = 1..(L + 1) /\ Len(mutex') = L + 1
      /\ mutex'[L + 1] = n
      /\ \A i \in 1..L : mutex'[i] = mutex[i]
      /\ clock' = clock /\ clock \in Nat /\ Timeout \in Nat
  BY PushDeliveryAssumption DEF SourceInv, SourceTypeOK, Lock
<1>2. SourceInv'
  BY LockInv
<1>3. C \in Nat /\ L + 1 <= C
  <2>1. \A i, j \in DOMAIN mutex' : mutex'[i] = mutex'[j] => i = j
    BY <1>2 DEF SourceInv, MutexOK
  <2>2. C \in Nat /\ Len(mutex') <= C
    BY <1>1, <2>1, QueueFits
  <2>3. QED
    BY <1>1, <2>2
<1> HIDE DEF L
<1>4. call'[n].pc = "lock" /\ call'[n].since = clock
  BY DEF SourceInv, SourceTypeOK, Lock
<1>5. ASSUME NEW i \in 1..L PROVE call'[mutex'[i]] = call[mutex[i]]
  <2>1. mutex[i] # n /\ mutex[i] \in Notification
    BY <1>1, <1>5 DEF SourceInv, MutexOK, InToken, Lock, NoCall
  <2>2. QED
    BY <1>1, <2>1 DEF SourceInv, SourceTypeOK, Lock
<1>6. Held' \in Nat /\ (L > 0 => Held' = Held)
  <2>1. CASE L = 0
    BY <1>1, <1>4, <2>1 DEF Held
  <2>2. CASE L > 0
    <3>1. 1 \in DOMAIN mutex /\ 1 \in 1..L
      BY <1>1, <2>2
    <3>2. Held \in Nat
      BY <3>1, MutexFacts
    <3>3. Held' = Held
      BY <1>1, <1>5, <3>1 DEF Held
    <3>4. QED
      BY <3>2, <3>3
  <2>3. QED
    BY <1>1, <2>1, <2>2
<1>7. ASSUME NEW i \in 1..L
      PROVE  clock' - call'[mutex'[i]].since <= Timeout * (C - i) + Held'
  BY <1>1, <1>5, <1>6, <1>7 DEF WaitIsShared
<1>8. clock' - call'[n].since <= Timeout * (C - (L + 1)) + Held'
  <2> HIDE DEF C
  <2>1. Timeout * (C - (L + 1)) >= 0 /\ Timeout * (C - (L + 1)) \in Int
    BY <1>1, <1>3, OneTimeout
  <2>2. clock' - call'[n].since = 0
    BY <1>1, <1>4
  <2>3. QED
    BY <1>6, <2>1, <2>2
<1>9. QED
  BY <1>1, <1>7, <1>8 DEF WaitIsShared

\* The holder leaves.
LEMMA WaitPassesOn ==
    ASSUME SourceInv, WaitIsShared, NEW n \in Notification, mutex # <<>>, Head(mutex) = n,
           NEW r, call' = [call EXCEPT ![n] = r], mutex' = Tail(mutex), clock' = clock
    PROVE  WaitIsShared'
<1> DEFINE C == Cardinality(Notification)
<1>1. /\ DOMAIN mutex = 1..Len(mutex) /\ Len(mutex) \in Nat /\ Len(mutex) > 0 /\ mutex[1] = n
      /\ DOMAIN mutex' = 1..(Len(mutex) - 1)
      /\ \A i \in 1..(Len(mutex) - 1) : mutex'[i] = mutex[i + 1]
  BY DEF SourceInv, SourceTypeOK
<1>2. ASSUME NEW i \in DOMAIN mutex'
      PROVE  /\ i + 1 \in DOMAIN mutex /\ i \in Nat /\ mutex'[i] = mutex[i + 1]
             /\ call'[mutex'[i]] = call[mutex[i + 1]]
             /\ call'[mutex'[i]].pc = "lock"
  <2>1. i + 1 \in DOMAIN mutex /\ i \in Nat /\ i + 1 > 1 /\ mutex'[i] = mutex[i + 1] /\ 1 \in DOMAIN mutex
    BY <1>1
  <2>2. mutex[i + 1] # n /\ call[mutex[i + 1]].pc = "lock" /\ mutex[i + 1] \in Notification
    BY <1>1, <2>1 DEF SourceInv, SourceTypeOK, MutexOK
  <2>3. QED
    BY <2>1, <2>2 DEF SourceInv, SourceTypeOK
<1>3. ASSUME NEW i \in DOMAIN mutex'
      PROVE  clock' - call'[mutex'[i]].since <= Timeout * (C - i) + Held'
  <2>1. 1 \in DOMAIN mutex'
    BY <1>1, <1>3
  <2>2. Held' = 0
    BY <1>2, <2>1 DEF Held
  <2>3. /\ clock \in Nat /\ Timeout \in Nat /\ call[mutex[i + 1]].since \in Nat
        /\ Held \in Nat /\ Held <= Timeout
    BY <1>2, MutexFacts
  <2>4. clock - call[mutex[i + 1]].since <= Timeout * (C - (i + 1)) + Held
    BY <1>2 DEF WaitIsShared
  <2>5. C \in Nat
    BY QueueFits DEF SourceInv, SourceTypeOK, MutexOK
  <2> HIDE DEF C
  <2>6. /\ Timeout * (C - (i + 1)) \in Int
        /\ Timeout * (C - i) = Timeout * (C - (i + 1)) + Timeout
    BY <1>2, <2>3, <2>5, OneTimeout
  <2>7. QED
    BY <1>2, <2>2, <2>3, <2>4, <2>6
<1>4. QED
  BY <1>3 DEF WaitIsShared

\* The holder goes on, and what is left to wait does not change.
LEMMA WaitGoesOn ==
    ASSUME SourceInv, WaitIsShared, NEW n \in Notification, mutex # <<>>, mutex[1] = n,
           NEW r, r.since = call[n].since, r.pc \in {"fetch", "granted"},
           r.start = IF call[n].pc = "lock" THEN clock ELSE call[n].start,
           call' = [call EXCEPT ![n] = r], mutex' = mutex, clock' = clock
    PROVE  WaitIsShared'
<1>1. \A m \in Notification : call'[m] = IF m = n THEN r ELSE call[m]
  BY DEF SourceInv, SourceTypeOK
<1>2. \A i \in DOMAIN mutex : mutex[i] \in Notification /\ clock \in Nat
  BY MutexFacts
<1>3. \A i \in DOMAIN mutex : call'[mutex'[i]].since = call[mutex[i]].since
  BY <1>1, <1>2
<1>4. Held' = Held
  BY <1>1 DEF Held, SourceInv, SourceTypeOK
<1>5. QED
  BY <1>3, <1>4 DEF WaitIsShared

LEMMA WaitStep ==
    ASSUME DeliveryInv, WaitIsShared, [DeliveryNext]_deliveryVars PROVE WaitIsShared'
<1> USE DEF DeliveryInv
<1>1. ASSUME UNCHANGED source PROVE WaitIsShared'
  BY <1>1 DEF source, WaitIsShared, Held
<1>2. ASSUME NEW n \in Notification, Deliver(n) PROVE WaitIsShared'
  <2>1. ASSUME NEW x \in Address, Lock(n, x) PROVE WaitIsShared'
    BY <2>1, WaitJoins
  <2>2. CASE Locked(n) /\ Fresh
    <3>1. mutex # <<>>
      BY <2>2, FetcherHolds DEF Locked, InToken, SourceInv
    <3>2. QED
      BY <2>2, <3>1, WaitPassesOn DEF Locked
  <2>3. CASE Locked(n) /\ ~Fresh
    <3>1. mutex # <<>> /\ mutex[1] = n
      BY <2>3, FetcherHolds DEF Locked, InToken, SourceInv
    <3>2. /\ Fetch(n).since = call[n].since /\ Fetch(n).pc = "fetch" /\ Fetch(n).start = clock
      BY DEF Fetch
    <3>3. QED
      BY <2>3, <3>1, <3>2, WaitGoesOn DEF Locked
  <2>4. CASE Grant(n)
    <3> DEFINE c == call[n]
               r == [c EXCEPT !.pc = "granted", !.validUntil = clock + Lifetime]
    <3>1. mutex # <<>> /\ mutex[1] = n
      BY <2>4, FetcherHolds DEF Grant, InToken, SourceInv
    <3>2. c \in [pc : {"fetch", "granted"}, to : Address, since : Time, start : Time,
                 validUntil : Time]
      BY <2>4, CallFacts DEF Grant, SourceInv, FcmCall, NoCall
    <3>3. call' = [call EXCEPT ![n] = r] /\ UNCHANGED <<clock, mutex>> /\ c.pc = "fetch"
      BY <2>4 DEF Grant, SourceInv, SourceTypeOK
    <3>4. r.since = c.since /\ r.pc = "granted" /\ r.start = c.start
      <4> HIDE DEF c
      <4>1. QED
        BY <3>2
    <3> HIDE DEF r
    <3>5. QED
      BY <3>1, <3>3, <3>4, WaitGoesOn
  <2>5. CASE Fetched(n) \/ FetchFails(n)
    <3>1. mutex # <<>> /\ Head(mutex) = n
      BY <2>5, FetcherHolds DEF Fetched, FetchFails, InToken, SourceInv
    <3>2. \E r : call' = [call EXCEPT ![n] = r] /\ mutex' = Tail(mutex) /\ clock' = clock
      BY <2>5 DEF Fetched, FetchFails
    <3>3. QED
      BY <3>1, <3>2, WaitPassesOn
  <2>6. ASSUME NEW o \in Call, PostToFcm(n, o) PROVE WaitIsShared'
    <3>1. /\ call' = [call EXCEPT ![n] = NoCall] /\ UNCHANGED <<mutex, clock>>
          /\ ~InToken(n)
      BY <2>6 DEF PostToFcm, InToken
    <3>2. \A i \in DOMAIN mutex : mutex[i] \in Notification /\ mutex[i] # n /\ 1 \in DOMAIN mutex
      BY <3>1 DEF SourceInv, SourceTypeOK, MutexOK
    <3>3. \A i \in DOMAIN mutex : call'[mutex[i]] = call[mutex[i]]
      BY <3>1, <3>2 DEF SourceInv, SourceTypeOK
    <3>4. QED
      BY <3>1, <3>2, <3>3 DEF WaitIsShared, Held
  <2>7. QED
    BY <1>1, <1>2, <2>1, <2>2, <2>3, <2>4, <2>5, <2>6 DEF Deliver, PushToApns
<1>3. CASE Tick
  <2>1. /\ clock' = clock + 1 /\ UNCHANGED <<mutex, call>>
        /\ \A n \in Notification : InTime(n)
    BY <1>3 DEF Tick
  <2>2. ASSUME NEW i \in DOMAIN mutex
        PROVE  clock' - call[mutex[i]].since <= Timeout * (Cardinality(Notification) - i) + Held'
    <3>1. /\ clock \in Nat /\ Timeout \in Nat /\ i \in Nat
          /\ 1 \in DOMAIN mutex /\ mutex[1] \in Notification /\ mutex[1] = Head(mutex)
          /\ call[mutex[i]].since \in Nat /\ Cardinality(Notification) \in Nat
      BY <2>2, MutexFacts, QueueFits DEF SourceInv, SourceTypeOK, MutexOK
    <3>2. call[mutex[1]].pc # "lock"
      BY <2>1, <3>1 DEF InTime
    <3>3. InToken(mutex[1])
      BY <3>1 DEF SourceInv, MutexOK
    <3>4. call[mutex[1]].start \in Nat
      BY <3>1, <3>2, <3>3, CallFacts DEF InToken, SourceInv, Time
    <3>5. Held \in Nat /\ Held' = Held + 1
      <4>1. Held \in Nat
        BY <2>2, MutexFacts
      <4>2. Held = clock - call[mutex[1]].start
        BY <3>2 DEF Held
      <4>3. Held' = (clock + 1) - call[mutex[1]].start
        BY <2>1, <3>2 DEF Held
      <4>4. QED
        BY <3>1, <3>4, <4>1, <4>2, <4>3
    <3>6. Timeout * (Cardinality(Notification) - i) \in Int
      BY <3>1
    <3>7. clock - call[mutex[i]].since <= Timeout * (Cardinality(Notification) - i) + Held
      BY DEF WaitIsShared
    <3>8. QED
      BY <2>1, <3>1, <3>5, <3>6, <3>7
  <2>3. QED
    BY <2>1, <2>2 DEF WaitIsShared
<1>4. CASE Restart
  BY <1>4 DEF Restart, WaitIsShared
<1>5. QED
  BY <1>1, <1>2, <1>3, <1>4 DEF DeliveryNext, deliveryVars

\* Nobody is in Token for longer than the timeouts of all the callers there can
\* be: a token endpoint that does not answer delays a fan-out and no more.
THEOREM WaitsAreBounded == DeliverySpec => []WaitsAtMost
<1>1. DeliveryInit => WaitIsShared
  BY DEF DeliveryInit, WaitIsShared
<1>2. DeliveryInv /\ WaitIsShared /\ [DeliveryNext]_deliveryVars => WaitIsShared'
  BY WaitStep
<1>3. ASSUME DeliveryInv, WaitIsShared, NEW i \in DOMAIN mutex
      PROVE  clock - call[mutex[i]].since <= Timeout * Cardinality(Notification)
  <2>1. /\ clock \in Nat /\ Timeout \in Nat /\ i \in Nat /\ i > 0
        /\ call[mutex[i]].since \in Nat /\ Held \in Nat /\ Held <= Timeout
        /\ Cardinality(Notification) \in Nat
    BY <1>3, MutexFacts, QueueFits DEF DeliveryInv, SourceInv, SourceTypeOK, MutexOK
  <2>2. clock - call[mutex[i]].since <= Timeout * (Cardinality(Notification) - i) + Held
    BY <1>3 DEF WaitIsShared
  <2>3. /\ Timeout * (Cardinality(Notification) - i) + Timeout <= Timeout * Cardinality(Notification)
        /\ Timeout * (Cardinality(Notification) - i) \in Int
        /\ Timeout * Cardinality(Notification) \in Int
    BY <2>1, OneTimeout
  <2>4. QED
    BY <2>1, <2>2, <2>3
<1>4. DeliveryInv /\ WaitIsShared => WaitsAtMost
  BY <1>3 DEF WaitsAtMost
<1>5. QED
  BY <1>1, <1>2, <1>4, DeliveryInvariant, PTL DEF DeliverySpec
=============================================================================
