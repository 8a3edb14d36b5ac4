------------------------ MODULE IdentityProfileProofs ------------------------
(***************************************************************************)
(* Profiles and their events, for any number of profiles, fields, values   *)
(* and requests.  The invariant rests on three facts: a row never goes, so *)
(* that requests past their look-up work on a row that is there; nothing   *)
(* was asked of a profile without a row; and a profile that is not excused *)
(* has one request at most that makes it, before its event.                *)
(***************************************************************************)
EXTENDS IdentityProfile, TLAPS

Makes(p, k) == proc[p].pc \in {"upsert", "publish"} /\ proc[p].profile = k

RowsStay ==
    /\ \A p \in Proc : proc[p].pc \in {"update", "publish"} => proc[p].profile \in DOMAIN profiles
    /\ \A k \in Profile : created[k] > 0 => k \in DOMAIN profiles
    /\ \A k \in Profile : k \notin DOMAIN profiles => asked[k] = NewUser

OneMaker ==
    \A k \in Profile : <<"twice", k>> \notin excused =>
        /\ \A p, q \in Proc : Makes(p, k) /\ Makes(q, k) => p = q
        /\ \A p \in Proc : Makes(p, k) => created[k] = 0
        /\ created[k] <= 1

ProfileInv == TypeOK /\ RowsStay /\ OneMaker /\ PatchesKept /\ CreatedIsAnnounced

\* There is no row and no request at the start.
LEMMA InitInv == Init => ProfileInv
BY IdentityProfileAssumption
   DEF Init, ProfileInv, TypeOK, RowsStay, OneMaker, Makes, PatchesKept, CreatedIsAnnounced,
       Row, NewUser, NoRequest, At

\* A request has the fields its pc says.
LEMMA RequestFacts ==
    ASSUME TypeOK, NEW p \in Proc
    PROVE  /\ proc[p].pc \in {"idle", "upsert", "publish", "update"}
           /\ proc[p].pc # "idle" => proc[p].profile \in Profile
           /\ proc[p].pc = "update" => proc[p].read \in Row /\ proc[p].patch \in ProfilePatch
           /\ proc[p].pc \in {"upsert", "publish"} =>
                 proc[p] = [pc |-> proc[p].pc, profile |-> proc[p].profile]
BY DEF TypeOK, Request, NoRequest

\* A patch sets some of the fields to values.
LEMMA PatchFacts ==
    ASSUME NEW patch \in ProfilePatch
    PROVE  DOMAIN patch \subseteq Field /\ \A f \in DOMAIN patch : patch[f] \in Value
BY DEF ProfilePatch

\* Write keeps the row and the history in step: what it sets back it notes.
LEMMA WriteKeeps ==
    ASSUME TypeOK, RowsStay, PatchesKept, NEW k \in Profile, NEW read \in Row, NEW patch,
           DOMAIN patch \subseteq Field, \A f \in DOMAIN patch : patch[f] \in Value,
           k \in DOMAIN profiles \/ (read = NewUser /\ DOMAIN patch = {}),
           Write(k, read, patch)
    PROVE  /\ DOMAIN profiles' = DOMAIN profiles \cup {k}
           /\ \A j \in DOMAIN profiles' : profiles'[j] \in Row
           /\ asked' \in [Profile -> Row]
           /\ stale' \subseteq Profile \X Field
           /\ \A j \in Profile : j \notin DOMAIN profiles' => asked'[j] = NewUser
           /\ PatchesKept'
<1> DEFINE now == IF k \in DOMAIN profiles THEN profiles[k] ELSE read
           set == DOMAIN patch
<1>1. /\ profiles' = [j \in DOMAIN profiles \cup {k} |->
                         IF j = k THEN Updated(read, patch) ELSE profiles[j]]
      /\ asked' = [asked EXCEPT ![k] =
                      [f \in Field |-> IF f \in set THEN patch[f] ELSE asked[k][f]]]
      /\ stale' = (stale \ ({k} \X set))
                  \cup {<<k, f>> : f \in {g \in Field \ set : read[g] # now[g]}}
  BY DEF Write
<1>2. Updated(read, patch) = [f \in Field |-> IF f \in set THEN patch[f] ELSE read[f]]
  BY DEF Updated
<1>3. Updated(read, patch) \in Row
  BY <1>2 DEF Row
<1>4. asked[k] \in Row
  BY DEF TypeOK
<1>5. [f \in Field |-> IF f \in set THEN patch[f] ELSE asked[k][f]] \in Row
  BY <1>4 DEF Row
<1>6. /\ DOMAIN profiles' = DOMAIN profiles \cup {k}
      /\ \A j \in DOMAIN profiles' : profiles'[j] \in Row
  BY <1>1, <1>3 DEF TypeOK
<1>7. asked' \in [Profile -> Row]
  BY <1>1, <1>5 DEF TypeOK
<1>8. stale' \subseteq Profile \X Field
  BY <1>1 DEF TypeOK
<1>9. \A j \in Profile : j \notin DOMAIN profiles' => asked'[j] = NewUser
  BY <1>1, <1>6 DEF RowsStay, TypeOK
<1>10. ASSUME NEW j \in DOMAIN profiles', NEW f \in Field, profiles'[j][f] # asked'[j][f]
       PROVE  <<j, f>> \in stale'
  <2>1. CASE j # k
    <3>1. profiles'[j] = profiles[j] /\ asked'[j] = asked[j] /\ j \in DOMAIN profiles
      BY <1>1, <1>6, <2>1 DEF TypeOK
    <3>2. <<j, f>> \in stale
      BY <1>10, <3>1 DEF PatchesKept
    <3>3. QED
      BY <1>1, <2>1, <3>2
  <2>2. CASE j = k /\ f \in set
    BY <1>1, <1>2, <1>10, <2>2 DEF TypeOK
  <2>3. CASE j = k /\ f \notin set
    <3>1. profiles'[j][f] = read[f] /\ asked'[j][f] = asked[k][f]
      BY <1>1, <1>2, <2>3 DEF TypeOK
    <3>2. CASE read[f] # now[f]
      BY <1>1, <2>3, <3>2
    <3>3. CASE read[f] = now[f]
      <4>1. CASE k \in DOMAIN profiles
        <5>1. <<k, f>> \in stale
          BY <1>10, <3>1, <3>3, <4>1 DEF PatchesKept
        <5>2. QED
          BY <1>1, <2>3, <5>1
      <4>2. CASE k \notin DOMAIN profiles
        BY <1>10, <3>1, <4>2 DEF RowsStay, NewUser
      <4>3. QED
        BY <4>1, <4>2
    <3>4. QED
      BY <3>2, <3>3
  <2>4. QED
    BY <2>1, <2>2, <2>3
<1>11. PatchesKept'
  BY <1>10 DEF PatchesKept
<1>12. QED
  BY <1>6, <1>7, <1>8, <1>9, <1>11

\* A request that found no row: no other makes the profile, or it is excused.
LEMMA GetMeStep ==
    ASSUME ProfileInv, NEW p \in Proc, NEW k \in Profile, GetMe(p, k)
    PROVE  ProfileInv'
<1> USE DEF ProfileInv
<1>1. proc' = [proc EXCEPT ![p] = [pc |-> "upsert", profile |-> k]] /\ proc[p].pc = "idle"
  BY DEF GetMe
<1>2. excused \subseteq excused' /\ UNCHANGED <<profiles, created, asked, stale, crashes>>
  BY DEF GetMe
<1>3. \A q \in Proc : proc'[q] = IF q = p THEN [pc |-> "upsert", profile |-> k] ELSE proc[q]
  BY <1>1 DEF TypeOK
<1>4. TypeOK'
  BY <1>1, <1>2 DEF TypeOK, Request, GetMe
<1>5. RowsStay'
  BY <1>2, <1>3 DEF RowsStay
<1>6. OneMaker'
  <2> SUFFICES ASSUME NEW j \in Profile, <<"twice", j>> \notin excused'
               PROVE  /\ \A q, r \in Proc : Makes(q, j)' /\ Makes(r, j)' => q = r
                      /\ \A q \in Proc : Makes(q, j)' => created'[j] = 0
                      /\ created'[j] <= 1
    BY DEF OneMaker
  <2>1. <<"twice", j>> \notin excused
    BY <1>2
  <2>2. CASE j # k
    BY <1>2, <1>3, <2>1, <2>2 DEF OneMaker, Makes
  <2>3. CASE j = k
    <3>1. At("upsert", k) = {}
      BY <2>3 DEF GetMe
    <3>2. \A q \in Proc : ~Makes(q, k)
      BY <3>1 DEF At, Makes, RowsStay, GetMe
    <3>3. created[k] = 0
      BY DEF RowsStay, TypeOK, GetMe
    <3>4. \A q \in Proc : Makes(q, k)' => q = p
      BY <1>3, <3>2 DEF Makes
    <3>5. QED
      BY <1>2, <2>3, <3>3, <3>4
  <2>4. QED
    BY <2>2, <2>3
<1>7. PatchesKept'
  BY <1>2 DEF PatchesKept
<1>8. CreatedIsAnnounced'
  BY <1>1, <1>2, <1>3 DEF CreatedIsAnnounced, At
<1>9. QED
  BY <1>4, <1>5, <1>6, <1>7, <1>8

\* A request that read a row keeps it to itself until it writes.
LEMMA StartUpdateStep ==
    ASSUME ProfileInv, NEW p \in Proc, NEW k \in Profile, NEW patch \in ProfilePatch,
           StartUpdate(p, k, patch)
    PROVE  ProfileInv'
<1> USE DEF ProfileInv
<1> DEFINE request == [pc |-> "update", profile |-> k, read |-> profiles[k], patch |-> patch]
<1>1. /\ proc' = [proc EXCEPT ![p] = request]
      /\ proc[p].pc = "idle"
      /\ k \in DOMAIN profiles
      /\ UNCHANGED <<profiles, created, asked, stale, excused, crashes>>
  BY DEF StartUpdate
<1>2. request \in Request
  BY <1>1 DEF Request, TypeOK
<1>3. request.pc = "update" /\ request.profile = k
  OBVIOUS
<1> HIDE DEF request
<1>4. \A q \in Proc : proc'[q] = IF q = p THEN request ELSE proc[q]
  BY <1>1 DEF TypeOK
<1>5. TypeOK'
  BY <1>1, <1>2 DEF TypeOK
<1>6. RowsStay'
  BY <1>1, <1>3, <1>4 DEF RowsStay
<1>7. OneMaker'
  BY <1>1, <1>3, <1>4 DEF OneMaker, Makes
<1>8. PatchesKept'
  BY <1>1 DEF PatchesKept
<1>9. CreatedIsAnnounced'
  BY <1>1, <1>4 DEF CreatedIsAnnounced, At
<1>10. QED
  BY <1>5, <1>6, <1>7, <1>8, <1>9

\* The profile is written, over a row of another request if there is one now.
LEMMA UpsertStep ==
    ASSUME ProfileInv, NEW p \in Proc, NEW o \in Outcome, Upsert(p, o)
    PROVE  ProfileInv'
<1> USE DEF ProfileInv
<1> DEFINE k == proc[p].profile
           none == [f \in {} |-> Blank]
<1>1. k \in Profile /\ proc[p] = [pc |-> "upsert", profile |-> k]
  BY RequestFacts DEF Upsert
<1>2. UNCHANGED <<created, crashes>> /\ excused \subseteq excused'
      /\ (o = "ambiguous" => <<"silent", k>> \in excused') /\ o \in {"ok", "lost", "ambiguous"}
      /\ excused' \subseteq excused \cup {<<"silent", k>>}
  BY DEF Upsert, Outcome
<1>3. \A q \in Proc \ {p} : proc'[q] = proc[q]
  BY DEF Upsert, TypeOK
<1>4. proc'[p] = IF o = "ok" THEN [pc |-> "publish", profile |-> k] ELSE NoRequest
  BY <1>1 DEF Upsert, TypeOK
<1>5. proc' \in [Proc -> {NoRequest} \cup Request]
  <2>1. proc'[p] \in {NoRequest} \cup Request
    BY <1>1, <1>4 DEF Request
  <2>2. QED
    BY <1>3, <2>1 DEF Upsert, TypeOK
<1>6. NewUser \in Row /\ DOMAIN none = {}
  BY DEF NewUser, Row
<1>7. /\ DOMAIN profiles \subseteq DOMAIN profiles'
      /\ DOMAIN profiles' \subseteq DOMAIN profiles \cup {k}
      /\ (o # "lost" => k \in DOMAIN profiles')
      /\ (o = "lost" => DOMAIN profiles' = DOMAIN profiles)
      /\ \A j \in DOMAIN profiles' : profiles'[j] \in Row
      /\ asked' \in [Profile -> Row]
      /\ stale' \subseteq Profile \X Field
      /\ \A j \in Profile : j \notin DOMAIN profiles' => asked'[j] = NewUser
      /\ PatchesKept'
  <2>1. CASE o = "lost"
    <3>1. UNCHANGED <<profiles, asked, stale>>
      BY <2>1 DEF Upsert, Applied
    <3>2. QED
      BY <2>1, <3>1 DEF TypeOK, RowsStay, PatchesKept
  <2>2. CASE o # "lost"
    <3>1. Write(k, NewUser, none)
      BY <2>2 DEF Upsert, Applied
    <3>2. CASE k \in DOMAIN profiles
      <4> HIDE DEF none, k
      <4>1. QED
        BY <1>1, <1>6, <2>2, <3>1, <3>2, WriteKeeps
    <3>3. CASE k \notin DOMAIN profiles
      <4> HIDE DEF none, k
      <4>1. QED
        BY <1>1, <1>6, <2>2, <3>1, <3>3, WriteKeeps
    <3>4. QED
      BY <3>2, <3>3
  <2>3. QED
    BY <2>1, <2>2
<1> HIDE DEF k, none
<1>8. TypeOK'
  BY <1>1, <1>2, <1>5, <1>7 DEF TypeOK
<1>9. RowsStay'
  BY <1>1, <1>2, <1>3, <1>4, <1>7 DEF RowsStay, NoRequest
<1>10. OneMaker'
  <2>1. \A q \in Proc, j \in Profile : Makes(q, j)' => Makes(q, j)
    BY <1>1, <1>3, <1>4 DEF Makes, NoRequest
  <2>2. \A j \in Profile : <<"twice", j>> \notin excused' => <<"twice", j>> \notin excused
    BY <1>2
  <2> SUFFICES ASSUME NEW j \in Profile, <<"twice", j>> \notin excused'
               PROVE  /\ \A q, r \in Proc : Makes(q, j)' /\ Makes(r, j)' => q = r
                      /\ \A q \in Proc : Makes(q, j)' => created'[j] = 0
                      /\ created'[j] <= 1
    BY DEF OneMaker
  <2>3. QED
    BY <1>2, <2>1, <2>2 DEF OneMaker
<1>11. CreatedIsAnnounced'
  <2>1. \A j \in Profile : created'[j] > 0 => j \in DOMAIN profiles'
    BY <1>2, <1>7 DEF CreatedIsAnnounced
  <2>2. ASSUME NEW j \in DOMAIN profiles'
        PROVE  created'[j] > 0 \/ <<"silent", j>> \in excused' \/ At("publish", j)' # {}
    <3>1. CASE j \in DOMAIN profiles
      <4>1. \A q \in Proc : proc[q].pc = "publish" => q # p
        BY <1>1
      <4>2. \A q \in At("publish", j) : q \in At("publish", j)'
        BY <1>3, <4>1 DEF At
      <4>3. QED
        BY <1>2, <3>1, <4>2 DEF CreatedIsAnnounced
    <3>2. CASE j \notin DOMAIN profiles
      <4>1. j = k /\ o # "lost"
        BY <1>7, <2>2, <3>2
      <4>2. CASE o = "ok"
        <5>1. p \in At("publish", j)'
          BY <1>4, <4>1, <4>2 DEF At
        <5>2. QED
          BY <5>1
      <4>3. QED
        BY <1>2, <4>1, <4>2
    <3>3. QED
      BY <3>1, <3>2
  <2>3. QED
    BY <2>1, <2>2 DEF CreatedIsAnnounced
<1>12. QED
  BY <1>7, <1>8, <1>9, <1>10, <1>11

\* The event is sent or given up: the maker of the profile is done.
LEMMA PublishStep ==
    ASSUME ProfileInv, NEW p \in Proc, NEW o \in Outcome, Publish(p, o)
    PROVE  ProfileInv'
<1> USE DEF ProfileInv
<1> DEFINE k == proc[p].profile
<1>1. k \in Profile /\ proc[p].pc = "publish"
  BY RequestFacts DEF Publish
<1>2. /\ UNCHANGED <<profiles, asked, stale, crashes>>
      /\ created' = IF Applied(o) THEN [created EXCEPT ![k] = IF @ = 0 THEN 1 ELSE 2] ELSE created
      /\ excused' = IF Applied(o) THEN excused ELSE excused \cup {<<"silent", k>>}
      /\ proc' = [proc EXCEPT ![p] = NoRequest]
  BY DEF Publish
<1> HIDE DEF k
<1>3. /\ \A q \in Proc \ {p} : proc'[q] = proc[q]
      /\ proc'[p] = NoRequest
  BY <1>2 DEF TypeOK
<1>4. k \in DOMAIN profiles /\ Makes(p, k)
  BY <1>1 DEF RowsStay, Makes, k
<1>5. TypeOK'
  BY <1>1, <1>2 DEF TypeOK
<1>6. RowsStay'
  BY <1>2, <1>3, <1>4 DEF RowsStay, NoRequest, TypeOK
<1>7. OneMaker'
  <2> SUFFICES ASSUME NEW j \in Profile, <<"twice", j>> \notin excused'
               PROVE  /\ \A q, r \in Proc : Makes(q, j)' /\ Makes(r, j)' => q = r
                      /\ \A q \in Proc : Makes(q, j)' => created'[j] = 0
                      /\ created'[j] <= 1
    BY DEF OneMaker
  <2>1. <<"twice", j>> \notin excused
    BY <1>2
  <2>2. \A q \in Proc : Makes(q, j)' => Makes(q, j) /\ q # p
    BY <1>3 DEF Makes, NoRequest
  <2>3. CASE j # k
    BY <1>2, <2>1, <2>2, <2>3 DEF OneMaker, TypeOK
  <2>4. CASE j = k
    <3>1. created[k] = 0 /\ \A q \in Proc : ~Makes(q, j)'
      BY <1>4, <2>1, <2>2, <2>4 DEF OneMaker
    <3>2. created'[k] <= 1
      BY <1>1, <1>2, <3>1 DEF TypeOK
    <3>3. QED
      BY <2>4, <3>1, <3>2
  <2>5. QED
    BY <2>3, <2>4
<1>8. PatchesKept'
  BY <1>2 DEF PatchesKept
<1>9. CreatedIsAnnounced'
  <2>1. \A j \in Profile : created'[j] > 0 => j \in DOMAIN profiles'
    BY <1>2, <1>4 DEF CreatedIsAnnounced, TypeOK
  <2>2. ASSUME NEW j \in DOMAIN profiles'
        PROVE  created'[j] > 0 \/ <<"silent", j>> \in excused' \/ At("publish", j)' # {}
    <3>1. CASE j = k
      <4>1. Applied(o) => created'[k] > 0
        BY <1>1, <1>2 DEF TypeOK
      <4>2. QED
        BY <1>2, <3>1, <4>1
    <3>2. CASE j # k
      <4>1. \A q \in At("publish", j) : q # p
        BY <3>2 DEF At, k
      <4>2. \A q \in At("publish", j) : q \in At("publish", j)'
        BY <1>3, <4>1 DEF At
      <4>3. created'[j] = created[j] /\ excused \subseteq excused' /\ j \in DOMAIN profiles
        BY <1>2, <3>2 DEF TypeOK
      <4>4. QED
        BY <4>2, <4>3 DEF CreatedIsAnnounced
    <3>3. QED
      BY <3>1, <3>2
  <2>3. QED
    BY <2>1, <2>2 DEF CreatedIsAnnounced
<1>10. QED
  BY <1>5, <1>6, <1>7, <1>8, <1>9

\* A patch is written over the row, which is still there.
LEMMA UpdateStep ==
    ASSUME ProfileInv, NEW p \in Proc, NEW o \in Outcome, Update(p, o)
    PROVE  ProfileInv'
<1> USE DEF ProfileInv
<1> DEFINE k == proc[p].profile
           read == proc[p].read
           patch == proc[p].patch
<1>1. /\ k \in DOMAIN profiles /\ k \in Profile /\ read \in Row
      /\ DOMAIN patch \subseteq Field /\ \A f \in DOMAIN patch : patch[f] \in Value
  BY RequestFacts, PatchFacts DEF Update, RowsStay
<1>2. /\ UNCHANGED <<created, excused, crashes>>
      /\ proc' = [proc EXCEPT ![p] = NoRequest]
      /\ proc[p].pc = "update"
      /\ Applied(o) => Write(k, read, patch)
      /\ ~Applied(o) => UNCHANGED <<profiles, asked, stale>>
  BY DEF Update
<1> HIDE DEF k, read, patch
<1>3. /\ \A q \in Proc \ {p} : proc'[q] = proc[q]
      /\ proc'[p] = NoRequest
  BY <1>2 DEF TypeOK
<1>4. /\ DOMAIN profiles' = DOMAIN profiles
      /\ \A j \in DOMAIN profiles' : profiles'[j] \in Row
      /\ asked' \in [Profile -> Row]
      /\ stale' \subseteq Profile \X Field
      /\ \A j \in Profile : j \notin DOMAIN profiles' => asked'[j] = NewUser
      /\ PatchesKept'
  <2>1. CASE Applied(o)
    BY <1>1, <1>2, <2>1, WriteKeeps
  <2>2. CASE ~Applied(o)
    BY <1>2, <2>2 DEF TypeOK, RowsStay, PatchesKept
  <2>3. QED
    BY <2>1, <2>2
<1>5. TypeOK'
  BY <1>2, <1>4 DEF TypeOK
<1>6. RowsStay'
  BY <1>2, <1>3, <1>4 DEF RowsStay, NoRequest
<1>7. OneMaker'
  <2>1. \A q \in Proc, j \in Profile : Makes(q, j)' => Makes(q, j)
    BY <1>3 DEF Makes, NoRequest
  <2>2. QED
    BY <1>2, <2>1 DEF OneMaker
<1>8. CreatedIsAnnounced'
  <2>1. \A j \in Profile : \A q \in At("publish", j) : q \in At("publish", j)'
    BY <1>2, <1>3 DEF At
  <2>2. DOMAIN profiles \subseteq Profile
    BY DEF TypeOK
  <2>3. QED
    BY <1>2, <1>4, <2>1, <2>2 DEF CreatedIsAnnounced
<1>9. QED
  BY <1>4, <1>5, <1>6, <1>7, <1>8

\* A crash ends all requests; the profiles they had not announced are excused.
LEMMA CrashStep ==
    ASSUME ProfileInv, Crash
    PROVE  ProfileInv'
<1> USE DEF ProfileInv
<1>1. /\ UNCHANGED <<profiles, created, asked, stale>>
      /\ proc' = [p \in Proc |-> NoRequest]
      /\ excused' = excused \cup {<<"silent", k>> : k \in {j \in Profile : At("publish", j) # {}}}
      /\ crashes' = crashes + 1 /\ crashes < MaxCrashes
  BY DEF Crash
<1>2. \A p \in Proc : proc'[p].pc = "idle"
  BY <1>1 DEF NoRequest
<1>3. TypeOK'
  BY <1>1, IdentityProfileAssumption DEF TypeOK
<1>4. RowsStay'
  BY <1>1, <1>2 DEF RowsStay
<1>5. OneMaker'
  <2>1. \A p \in Proc, j \in Profile : ~Makes(p, j)'
    BY <1>2 DEF Makes
  <2>2. \A j \in Profile : <<"twice", j>> \in excused => <<"twice", j>> \in excused'
    BY <1>1
  <2>3. QED
    BY <1>1, <2>1, <2>2 DEF OneMaker
<1>6. PatchesKept'
  BY <1>1 DEF PatchesKept
<1>7. CreatedIsAnnounced'
  BY <1>1 DEF CreatedIsAnnounced, TypeOK
<1>8. QED
  BY <1>3, <1>4, <1>5, <1>6, <1>7

\* Every step keeps the invariant.
LEMMA NextInv == ProfileInv /\ [Next]_vars => ProfileInv'
<1> SUFFICES ASSUME ProfileInv, [Next]_vars PROVE ProfileInv'
  OBVIOUS
<1>1. ASSUME NEW p \in Proc, NEW k \in Profile, GetMe(p, k) PROVE ProfileInv'
  BY <1>1, GetMeStep
<1>2. ASSUME NEW p \in Proc, NEW k \in Profile, NEW patch \in ProfilePatch,
             StartUpdate(p, k, patch)
      PROVE  ProfileInv'
  BY <1>2, StartUpdateStep
<1>3. ASSUME NEW p \in Proc, NEW o \in Outcome, Upsert(p, o) PROVE ProfileInv'
  BY <1>3, UpsertStep
<1>4. ASSUME NEW p \in Proc, NEW o \in Outcome, Publish(p, o) PROVE ProfileInv'
  BY <1>4, PublishStep
<1>5. ASSUME NEW p \in Proc, NEW o \in Outcome, Update(p, o) PROVE ProfileInv'
  BY <1>5, UpdateStep
<1>6. CASE Crash
  BY <1>6, CrashStep
<1>7. CASE UNCHANGED vars
  BY <1>7 DEF vars, ProfileInv, TypeOK, RowsStay, OneMaker, Makes, PatchesKept,
              CreatedIsAnnounced, At
<1>8. QED
  BY <1>1, <1>2, <1>3, <1>4, <1>5, <1>6, <1>7 DEF Next

\* The inductive invariant holds in every run of the identity service.
THEOREM Invariant == Spec => []ProfileInv
BY InitInv, NextInv, PTL DEF Spec

\* Rows, requests and the history have their types in every run.
THEOREM TypeCorrect == Spec => []TypeOK
<1>1. ProfileInv => TypeOK
  BY DEF ProfileInv
<1>2. QED
  BY <1>1, Invariant, PTL

\* UpdateMe and GetMe undo a patch only by a write that is older than it.
THEOREM PatchesAreKept == Spec => []PatchesKept
<1>1. ProfileInv => PatchesKept
  BY DEF ProfileInv
<1>2. QED
  BY <1>1, Invariant, PTL

\* GetMe announces only profiles it wrote, and all but those a failure hit.
THEOREM ProfilesAreAnnounced == Spec => []CreatedIsAnnounced
<1>1. ProfileInv => CreatedIsAnnounced
  BY DEF ProfileInv
<1>2. QED
  BY <1>1, Invariant, PTL

\* Only two GetMe that both found no row announce a profile twice.
THEOREM AnnouncedTwiceOnlyTogether == Spec => []TwiceOnlyTogether
<1>1. ProfileInv => TwiceOnlyTogether
  BY DEF ProfileInv, TypeOK, OneMaker, TwiceOnlyTogether
<1>2. QED
  BY <1>1, Invariant, PTL
=============================================================================
