--------------------------- MODULE IdentityProfile ---------------------------
(***************************************************************************)
(* User profiles of the identity service: UserService.GetMe, which makes a *)
(* profile on the first login, and UpdateMe, which patches it, over the    *)
(* table user_profiles and the event stream.                               *)
(*                                                                         *)
(* Both read the row, decide in memory and write all columns back, so that *)
(* what a request writes is as old as what it read.                        *)
(***************************************************************************)
EXTENDS Naturals

CONSTANTS
    Profile,    \* keys of the table: pairs of a user and an app
    Field,      \* the columns a patch may set
    Value,      \* what clients set them to
    Blank,      \* the empty string of a new profile
    Proc,       \* the requests the service handles at the same time
    MaxCrashes  \* bound on crashes of the process

ASSUME IdentityProfileAssumption ==
    /\ Blank \notin Value
    /\ MaxCrashes \in Nat

Row == [Field -> Value \cup {Blank}]
ProfilePatch == UNION {[fs -> Value] : fs \in SUBSET Field}

\* One call: done and answered, not done, or done and answered by an error.
Outcome == {"ok", "lost", "ambiguous"}
Applied(o) == o # "lost"

NoRequest == [pc |-> "idle"]
Request ==
    [pc : {"upsert", "publish"}, profile : Profile]
    \cup [pc : {"update"}, profile : Profile, read : Row, patch : ProfilePatch]

VARIABLES
    profiles,   \* table user_profiles: a function from the keys of its rows
    created,    \* identity.user.created events published; 2 is twice or more
    proc,       \* what each request does next
    \* The four below are history: no step of the code reads them.
    asked,      \* what the patches written so far asked for, the last one winning
    stale,      \* fields a write set back to the older value its request had read
    excused,    \* profiles two requests made at the same time, and those a
                \* failure or a crash left without an event
    crashes

vars == <<profiles, created, proc, asked, stale, excused, crashes>>

TypeOK ==
    /\ DOMAIN profiles \subseteq Profile
    /\ \A k \in DOMAIN profiles : profiles[k] \in Row
    /\ created \in [Profile -> 0..2]
    /\ proc \in [Proc -> {NoRequest} \cup Request]
    /\ asked \in [Profile -> Row]
    /\ stale \subseteq Profile \X Field
    /\ excused \subseteq {"twice", "silent"} \X Profile
    /\ crashes \in 0..MaxCrashes

NewUser == [f \in Field |-> Blank]

Init ==
    /\ profiles = [k \in {} |-> NewUser]
    /\ created = [k \in Profile |-> 0]
    /\ proc = [p \in Proc |-> NoRequest]
    /\ asked = [k \in Profile |-> NewUser]
    /\ stale = {}
    /\ excused = {}
    /\ crashes = 0

At(pc, k) == {p \in Proc : proc[p].pc = pc /\ proc[p].profile = k}

\* A mutant: the fields the patch leaves out are blanked.
UpdatedFromBlank(read, patch) ==
    [f \in Field |-> IF f \in DOMAIN patch THEN patch[f] ELSE Blank]

\* UpdateProfile: the fields the patch has, and those of the row read.
Updated(read, patch) ==
    [f \in Field |-> IF f \in DOMAIN patch THEN patch[f] ELSE read[f]]

\* The write of a whole row that was computed from the row read.
Write(k, read, patch) ==
    LET now == IF k \in DOMAIN profiles THEN profiles[k] ELSE read
        set == DOMAIN patch
    IN  /\ profiles' = [j \in DOMAIN profiles \cup {k} |->
                           IF j = k THEN Updated(read, patch) ELSE profiles[j]]
        /\ asked' = [asked EXCEPT ![k] =
                        [f \in Field |-> IF f \in set THEN patch[f] ELSE @[f]]]
        /\ stale' = (stale \ ({k} \X set))
                    \cup {<<k, f>> : f \in {g \in Field \ set : read[g] # now[g]}}

(***************************************************************************)
(* GetMe.                                                                  *)
(***************************************************************************)
\* A mutant: any error of FindByID counts as ErrUserNotFound.
GetMeAnyError(p, k) ==
    /\ proc[p].pc = "idle"
    /\ proc' = [proc EXCEPT ![p] = [pc |-> "upsert", profile |-> k]]
    /\ UNCHANGED <<profiles, created, asked, stale, excused, crashes>>

\* FindByID finds no row; with a row, or another error, the request ends.
GetMe(p, k) ==
    /\ proc[p].pc = "idle"
    /\ k \notin DOMAIN profiles
    /\ proc' = [proc EXCEPT ![p] = [pc |-> "upsert", profile |-> k]]
    /\ excused' = IF At("upsert", k) # {} THEN excused \cup {<<"twice", k>>} ELSE excused
    /\ UNCHANGED <<profiles, created, asked, stale, crashes>>

\* A mutant: the error of Upsert is ignored like the publisher's.
UpsertBestEffort(p, o) ==
    /\ proc[p].pc = "upsert"
    /\ IF Applied(o) THEN Write(proc[p].profile, NewUser, [f \in {} |-> Blank])
                     ELSE UNCHANGED <<profiles, asked, stale>>
    /\ proc' = [proc EXCEPT ![p].pc = "publish"]
    /\ UNCHANGED <<created, excused, crashes>>

\* INSERT ... ON CONFLICT DO UPDATE: a row made in the meantime is blanked.
Upsert(p, o) ==
    /\ proc[p].pc = "upsert"
    /\ LET k == proc[p].profile
       IN  /\ IF Applied(o) THEN Write(k, NewUser, [f \in {} |-> Blank])
                            ELSE UNCHANGED <<profiles, asked, stale>>
           /\ excused' = IF o = "ambiguous" THEN excused \cup {<<"silent", k>>} ELSE excused
    /\ proc' = [proc EXCEPT ![p] = IF o = "ok" THEN [@ EXCEPT !.pc = "publish"]
                                               ELSE NoRequest]
    /\ UNCHANGED <<created, crashes>>

\* The last call; its error is ignored.
Publish(p, o) ==
    /\ proc[p].pc = "publish"
    /\ LET k == proc[p].profile
       IN  /\ created' = IF Applied(o) THEN [created EXCEPT ![k] = IF @ = 0 THEN 1 ELSE 2]
                                       ELSE created
           /\ excused' = IF Applied(o) THEN excused ELSE excused \cup {<<"silent", k>>}
    /\ proc' = [proc EXCEPT ![p] = NoRequest]
    /\ UNCHANGED <<profiles, asked, stale, crashes>>

(***************************************************************************)
(* UpdateMe.                                                               *)
(***************************************************************************)
\* FindByID; without a row the request ends.
StartUpdate(p, k, patch) ==
    /\ proc[p].pc = "idle"
    /\ k \in DOMAIN profiles
    /\ proc' = [proc EXCEPT ![p] = [pc |-> "update", profile |-> k,
                                    read |-> profiles[k], patch |-> patch]]
    /\ UNCHANGED <<profiles, created, asked, stale, excused, crashes>>

\* Update: one UPDATE of all columns.
Update(p, o) ==
    /\ proc[p].pc = "update"
    /\ IF Applied(o) THEN Write(proc[p].profile, proc[p].read, proc[p].patch)
                     ELSE UNCHANGED <<profiles, asked, stale>>
    /\ proc' = [proc EXCEPT ![p] = NoRequest]
    /\ UNCHANGED <<created, excused, crashes>>

\* The process dies and restarts.
Crash ==
    /\ crashes < MaxCrashes
    /\ crashes' = crashes + 1
    /\ proc' = [p \in Proc |-> NoRequest]
    /\ excused' = excused \cup {<<"silent", k>> : k \in
                     {j \in Profile : At("publish", j) # {}}}
    /\ UNCHANGED <<profiles, created, asked, stale>>

Next ==
    \/ \E p \in Proc, k \in Profile : GetMe(p, k)
    \/ \E p \in Proc, k \in Profile, patch \in ProfilePatch : StartUpdate(p, k, patch)
    \/ \E p \in Proc, o \in Outcome : Upsert(p, o) \/ Publish(p, o) \/ Update(p, o)
    \/ Crash

Spec == Init /\ [][Next]_vars

(***************************************************************************)
(* Properties.                                                             *)
(***************************************************************************)

\* A profile holds what the last patch of each field asked for, unless a write
\* that had read the row before set it back: an update lost to a concurrent
\* one, or to the profile of a first login made twice.  Nothing else, no crash
\* and no failed call, undoes a patch.
PatchesKept ==
    \A k \in DOMAIN profiles, f \in Field :
        profiles[k][f] # asked[k][f] => <<k, f>> \in stale

\* A profile is announced, by an event that is true, and only a failed call or
\* a crash after the write of GetMe keeps the event from being sent.
CreatedIsAnnounced ==
    /\ \A k \in Profile : created[k] > 0 => k \in DOMAIN profiles
    /\ \A k \in DOMAIN profiles :
          created[k] > 0 \/ <<"silent", k>> \in excused \/ At("publish", k) # {}

\* A profile is announced twice only if two first requests of its user found
\* no row before either had written it: domain/event.go promises the event for
\* "the first time" a profile is persisted, and this is the one exception.
TwiceOnlyTogether == \A k \in Profile : created[k] > 1 => <<"twice", k>> \in excused
=============================================================================
