------------------------ MODULE GroupChannelsProofs ------------------------
(***************************************************************************)
(* Theorems about the realtime channels, for any number of groups, users,  *)
(* channels, requests and crashes.  A behaviour of GroupChannels is one of *)
(* OrgGroups, so that the invariants of the groups hold of it; on top of   *)
(* them, whoever is believed to be a member was one, and every listener is *)
(* entitled to the channel or holds a token for it.                        *)
(***************************************************************************)
EXTENDS GroupChannels, OrgGroupsProofs

(***************************************************************************)
(* The groups do not notice who listens.                                   *)
(***************************************************************************)
LEMMA ChannelStepMaps == [ChannelNext]_allVars => [Next]_vars
BY DEF ChannelNext, OrgStep, CheckSubscription, Subscribe, SubscribeWithToken,
       Unsubscribe, allVars

\* Centrifugo and the proxy change nothing of the org service.
THEOREM ChannelsRefineGroups == ChannelSpec => Spec
<1>1. ChannelInit => Init
  BY DEF ChannelInit
<1> QED
  BY <1>1, ChannelStepMaps, PTL DEF ChannelSpec, Spec

(***************************************************************************)
(* What a step of the org service does to what the channels rely on.       *)
(***************************************************************************)
LEMMA PermanentStays ==
    ASSUME LifecycleInv, [Next]_vars, NEW g, Permanent(g) PROVE Permanent(g)'
<1>1. g \in Group /\ Born(g)
  BY DEF LifecycleInv, TypeOK, IdsSound, Permanent
<1>2. RowKept(g) \/ RowExpires(g)
  BY <1>1, RowStep DEF LifecycleInv
<1> QED
  BY <1>2 DEF Permanent, RowKept, RowExpires

LEMMA TokensStay == [Next]_vars => tokens \subseteq tokens'
<1> SUFFICES ASSUME [Next]_vars PROVE tokens \subseteq tokens'
  OBVIOUS
<1>1. ASSUME NEW p \in Proc, Start(p) PROVE tokens' = tokens
  BY <1>1 DEF Start, StartCreate, StartChange, StartToken
<1>2. ASSUME NEW p \in Proc, Handle(p) PROVE tokens \subseteq tokens'
  BY <1>2 DEF Handle, CreateRow, AddMember, RemoveMember, WriteRelation, DeleteRelation,
              PublishCreated, PublishChange, IssueToken
<1>3. CASE Sweeper
  BY <1>3 DEF Sweeper, SweepList, SweepMembers, SweepRelation, SweepDelete, SweepPublish
<1>4. CASE Tick \/ Crash \/ UNCHANGED vars
  BY <1>4 DEF Tick, Crash, vars
<1> QED
  BY <1>1, <1>2, <1>3, <1>4 DEF Next

LEMMA EntitledStays ==
    ASSUME LifecycleInv, [Next]_vars, joined \subseteq joined',
           NEW u, NEW c, Entitled(u, c)
    PROVE  Entitled(u, c)'
BY PermanentStays DEF Entitled

\* The proxy believes Keto, and Keto has tuples of permanent groups only.
LEMMA AllowedIsEntitled ==
    ASSUME LifecycleInv, BeliefsSound, NEW u, NEW c, Allowed(u, c)
    PROVE  Entitled(u, c)
<1>1. ASSUME c[1] = "group", <<c[2], "member", u>> \in keto PROVE Entitled(u, c)
  <2> DEFINE t == <<c[2], "member", u>>
  <2>1. Permanent(t[1])
    BY <1>1 DEF LifecycleInv, EphemeralHasNoTuples, Permanent
  <2>2. <<t[1], t[3]>> \in joined
    BY <1>1 DEF BeliefsSound
  <2> QED
    BY <1>1, <2>1, <2>2 DEF Entitled
<1> QED
  BY <1>1 DEF Allowed, Entitled

LEMMA BeliefsStep ==
    ASSUME TypeOK, BeliefsSound, [Next]_vars, joined' = joined \cup members'
    PROVE  BeliefsSound'
<1> USE DEF TypeOK, BeliefsSound, Request, NoRequest, tables, events, history
<1>1. ASSUME NEW p \in Proc, NEW g \in Group, NEW r \in Row, "create" \in Ops,
             StartCreate(p, g, r)
      PROVE  BeliefsSound'
  BY <1>1 DEF StartCreate
<1>2. ASSUME NEW p \in Proc, NEW op \in Ops, NEW g \in Group, NEW u \in User,
             StartChange(p, op, g, u)
      PROVE  BeliefsSound'
  BY <1>2 DEF StartChange
<1>3. ASSUME NEW p \in Proc, NEW g \in Group, NEW u \in User, "token" \in Ops,
             StartToken(p, g, u)
      PROVE  BeliefsSound'
  BY <1>3 DEF StartToken
<1>4. ASSUME NEW p \in Proc, NEW o \in Outcome, CreateRow(p, o)
      PROVE  BeliefsSound'
  BY <1>4 DEF CreateRow, Settle, AfterWrite
<1>5. ASSUME NEW p \in Proc, NEW o \in Outcome, AddMember(p, o)
      PROVE  BeliefsSound'
  BY <1>5 DEF AddMember, Settle, AfterWrite, Applied
<1>6. ASSUME NEW p \in Proc, NEW o \in Outcome, RemoveMember(p, o)
      PROVE  BeliefsSound'
  BY <1>6 DEF RemoveMember, Settle, AfterWrite
<1>7. ASSUME NEW p \in Proc, NEW o \in Outcome, WriteRelation(p, o)
      PROVE  BeliefsSound'
  BY <1>7 DEF WriteRelation, BestEffort, TupleOf
<1>8. ASSUME NEW p \in Proc, NEW o \in Outcome, DeleteRelation(p, o)
      PROVE  BeliefsSound'
  BY <1>8 DEF DeleteRelation, BestEffort
<1>9. ASSUME NEW p \in Proc, NEW o \in Outcome, PublishCreated(p, o)
      PROVE  BeliefsSound'
  BY <1>9 DEF PublishCreated, BestEffort
<1>10. ASSUME NEW p \in Proc, NEW o \in Outcome, PublishChange(p, o)
       PROVE  BeliefsSound'
  BY <1>10 DEF PublishChange, BestEffort
<1>11. ASSUME NEW p \in Proc, IssueToken(p)
       PROVE  BeliefsSound'
  BY <1>11 DEF IssueToken
<1>12. CASE Sweeper
  BY <1>12 DEF Sweeper, SweepList, SweepMembers, SweepRelation, SweepDelete, SweepPublish
<1>13. CASE Tick \/ Crash
  BY <1>13 DEF Tick, Crash
<1>14. CASE UNCHANGED vars
  BY <1>14 DEF vars
<1> QED
  BY <1>1, <1>2, <1>3, <1>4, <1>5, <1>6, <1>7, <1>8, <1>9, <1>10, <1>11, <1>12,
     <1>13, <1>14 DEF Next, Start, Handle

(***************************************************************************)
(* The invariant.                                                          *)
(***************************************************************************)
LEMMA InitChannelInv == ChannelInit => ChannelInv
BY DEF ChannelInit, Init, ChannelInv, ChannelTypeOK, BeliefsSound, GrantsSound,
       ListenersSound, NoRequest

LEMMA OrgStepInv ==
    ASSUME LifecycleInv, LifecycleInv', ChannelInv, OrgStep PROVE ChannelInv'
<1> USE DEF ChannelInv, OrgStep, channels
<1>1. joined \subseteq joined' /\ granted' = granted /\ subs' = subs
  OBVIOUS
<1>2. ChannelTypeOK'
  BY <1>1 DEF ChannelTypeOK, LifecycleInv, TypeOK
<1>3. BeliefsSound'
  BY BeliefsStep DEF LifecycleInv
<1>4. GrantsSound'
  BY <1>1, EntitledStays DEF GrantsSound
<1>5. ListenersSound'
  BY <1>1, EntitledStays, TokensStay DEF ListenersSound
<1> QED
  BY <1>2, <1>3, <1>4, <1>5

LEMMA ProxyInv ==
    ASSUME LifecycleInv, ChannelInv, NEW u \in User, NEW c \in Channel,
           NEW o \in {"ok", "lost"}, CheckSubscription(u, c, o)
    PROVE  ChannelInv'
<1> USE DEF ChannelInv, CheckSubscription, vars
<1>1. ASSUME NEW q \in granted' PROVE q \in Channel \X User /\ Entitled(q[2], q[1])
  <2>1. CASE q \in granted
    BY <2>1 DEF ChannelTypeOK, GrantsSound
  <2>2. CASE q = <<c, u>> /\ Allowed(u, c)
    BY <2>2, AllowedIsEntitled
  <2> QED
    BY <1>1, <2>1, <2>2
<1>2. GrantsSound'
  BY <1>1 DEF GrantsSound, Entitled, Permanent
<1>3. ChannelTypeOK'
  BY <1>1 DEF ChannelTypeOK
<1>4. BeliefsSound' /\ ListenersSound'
  BY DEF BeliefsSound, ListenersSound, Entitled, Permanent
<1> QED
  BY <1>2, <1>3, <1>4

LEMMA SubscribeInv ==
    ASSUME ChannelInv, NEW u \in User, NEW c \in Channel, NEW o \in {"ok", "lost"},
           Subscribe(u, c, o)
    PROVE  ChannelInv'
<1> USE DEF ChannelInv, Subscribe, vars
<1> DEFINE s == [channel |-> c, user |-> u, exp |-> NoTime]
<1>1. s \in Subscription
  BY DEF Subscription
<1>2. Entitled(s.user, s.channel)
  BY DEF GrantsSound
<1>3. \A x \in subs' : x \in subs \/ x = s
  OBVIOUS
<1> HIDE DEF s
<1>4. ChannelTypeOK'
  BY <1>1, <1>3 DEF ChannelTypeOK
<1>5. ListenersSound'
  BY <1>2, <1>3 DEF ListenersSound, Entitled, Permanent
<1>6. BeliefsSound' /\ GrantsSound'
  BY DEF BeliefsSound, GrantsSound, Entitled, Permanent
<1> QED
  BY <1>4, <1>5, <1>6

LEMMA SubscribeWithTokenInv ==
    ASSUME TypeOK, ChannelInv, NEW k \in tokens, SubscribeWithToken(k)
    PROVE  ChannelInv'
<1> USE DEF ChannelInv, SubscribeWithToken, vars
<1> DEFINE s == [channel |-> <<"ephemeral-group", k.group>>, user |-> k.user, exp |-> k.exp]
<1>1. k = [group |-> k.group, user |-> k.user, exp |-> k.exp] /\ k.user \in User
        /\ k.exp \in Expiry \cup {NoTime}
  BY DEF TypeOK, Token
<1>2. k.exp # NoTime
  BY <1>1, OrgGroupsAssumption DEF TypeOK, NoTime
<1>3. /\ s \in Subscription
      /\ s.channel[1] = "ephemeral-group"
      /\ s.exp # NoTime
      /\ [group |-> s.channel[2], user |-> s.user, exp |-> s.exp] \in tokens
  BY <1>1, <1>2 DEF Subscription
<1>4. \A x \in subs' : x \in subs \/ x = s
  OBVIOUS
<1> HIDE DEF s
<1>5. ChannelTypeOK'
  BY <1>3, <1>4 DEF ChannelTypeOK
<1>6. ListenersSound'
  BY <1>3, <1>4 DEF ListenersSound, Entitled, Permanent
<1>7. BeliefsSound' /\ GrantsSound'
  BY DEF BeliefsSound, GrantsSound, Entitled, Permanent
<1> QED
  BY <1>5, <1>6, <1>7

LEMMA ChannelNextInv ==
    ASSUME LifecycleInv, LifecycleInv', ChannelInv, [ChannelNext]_allVars
    PROVE  ChannelInv'
<1>1. CASE OrgStep
  BY <1>1, OrgStepInv
<1>2. ASSUME NEW u \in User, NEW c \in Channel, NEW o \in {"ok", "lost"},
             CheckSubscription(u, c, o)
      PROVE  ChannelInv'
  BY <1>2, ProxyInv
<1>3. ASSUME NEW u \in User, NEW c \in Channel, NEW o \in {"ok", "lost"},
             Subscribe(u, c, o)
      PROVE  ChannelInv'
  BY <1>3, SubscribeInv
<1>4. ASSUME NEW k \in tokens, SubscribeWithToken(k) PROVE ChannelInv'
  BY <1>4, SubscribeWithTokenInv DEF LifecycleInv
<1>5. ASSUME NEW s \in subs, Unsubscribe(s) PROVE ChannelInv'
  BY <1>5 DEF Unsubscribe, vars, ChannelInv, ChannelTypeOK, BeliefsSound, GrantsSound,
              ListenersSound, Entitled, Permanent
<1>6. CASE UNCHANGED allVars
  BY <1>6 DEF allVars, vars, ChannelInv, ChannelTypeOK, BeliefsSound, GrantsSound,
              ListenersSound, Entitled, Permanent
<1> QED
  BY <1>1, <1>2, <1>3, <1>4, <1>5, <1>6 DEF ChannelNext

\* Everybody believed to be a member was one, and every listener is entitled to
\* the channel or holds a token for it, whatever fails, crashes or races.
THEOREM ChannelsSound == ChannelSpec => []ChannelInv
<1>1. ChannelSpec => []LifecycleInv
  BY ChannelsRefineGroups, Lifecycle, PTL
<1>2. LifecycleInv /\ LifecycleInv' /\ ChannelInv /\ [ChannelNext]_allVars => ChannelInv'
  BY ChannelNextInv
<1> QED
  BY <1>1, <1>2, InitChannelInv, PTL DEF ChannelSpec

(***************************************************************************)
(* The properties.                                                         *)
(***************************************************************************)
\* Subscriptions name configured channels and members are on record.
THEOREM ChannelTypeCorrect == ChannelSpec => []ChannelTypeOK
<1>1. ChannelInv => ChannelTypeOK
  BY DEF ChannelInv
<1> QED
  BY <1>1, ChannelsSound, PTL

\* Nobody listens to a group who was never its member (checkSubscription and
\* IssueGroupToken), nor to the channel of another user.
THEOREM ListenersWereMembers == ChannelSpec => []OnlyMembersEverListen
<1>1. ChannelInv => OnlyMembersEverListen
  BY DEF ChannelInv, BeliefsSound, ListenersSound, Entitled, OnlyMembersEverListen
<1> QED
  BY <1>1, ChannelsSound, PTL

\* The sweeper deletes no group whose channel somebody listens to with a token
\* that has not expired, nor one somebody listens to without a token.
THEOREM ListenedGroupsExist == ChannelSpec => []ListenersHaveGroup
<1>1. LifecycleInv /\ ChannelInv => ListenersHaveGroup
  <2> SUFFICES ASSUME LifecycleInv, ChannelInv, NEW s \in subs, s.channel[1] # "user",
                      s.channel[2] \notin DOMAIN groups
               PROVE  s.exp # NoTime /\ s.exp < clock
    BY DEF ListenersHaveGroup
  <2>1. ~Entitled(s.user, s.channel)
    BY DEF Entitled, Permanent
  <2> DEFINE k == [group |-> s.channel[2], user |-> s.user, exp |-> s.exp]
  <2>2. s.exp # NoTime /\ k \in tokens
    BY <2>1 DEF ChannelInv, ListenersSound
  <2>3. k.group \notin DOMAIN groups => k.exp < clock
    BY <2>2 DEF LifecycleInv, TokensSound
  <2> QED
    BY <2>2, <2>3
<1>2. ChannelSpec => []LifecycleInv
  BY ChannelsRefineGroups, Lifecycle, PTL
<1> QED
  BY <1>1, <1>2, ChannelsSound, PTL

\* Whom the proxy lets in is a member at that time, unless a failure, a crash or
\* a race left his tuple behind or a request is about to delete it.
THEOREM ProxyLetsInMembers == ChannelSpec => GrantedToMembers
<1> DEFINE Excused(q) ==
      LET t == <<q[1][2], "member", q[2]>>
      IN  <<t[1], t[3]>> \in members \/ t \in drift \/ Pending(t)
<1>1. LifecycleInv /\ MirrorInv /\ [ChannelNext]_allVars =>
        [\A q \in granted' \ granted : q[1][1] = "group" => Excused(q)]_allVars
  <2> SUFFICES ASSUME LifecycleInv, MirrorInv, ChannelNext,
                      NEW q \in granted' \ granted, q[1][1] = "group"
               PROVE  Excused(q)
    BY DEF allVars
  <2>1. PICK u \in User, c \in Channel, o \in {"ok", "lost"} : CheckSubscription(u, c, o)
    BY DEF ChannelNext, OrgStep, channels, Subscribe, SubscribeWithToken, Unsubscribe
  <2>2. q = <<c, u>> /\ <<c[2], "member", u>> \in keto
    BY <2>1 DEF CheckSubscription, Allowed
  <2> DEFINE t == <<c[2], "member", u>>
  <2>3. t \in Tuple /\ t[1] \in DOMAIN groups /\ ~groups[t[1]].ephemeral
    BY <2>2 DEF LifecycleInv, TypeOK, EphemeralHasNoTuples
  <2>4. t \in drift \/ Pending(t) \/ Due(t)
    BY <2>2, <2>3 DEF MirrorInv, KetoMirrorsTables, TupleRight
  <2> QED
    BY <2>2, <2>4 DEF Due
<1>2. ChannelSpec => []LifecycleInv /\ []MirrorInv
  BY ChannelsRefineGroups, Lifecycle, Mirrors, PTL
<1> QED
  BY <1>1, <1>2, PTL DEF ChannelSpec, GrantedToMembers

\* The register of groups is kept whatever Centrifugo and the proxy do: no
\* subscription, refusal or disconnect is a step of it.
THEOREM ChannelsKeepRegister == ChannelSpec => KeepsRegister
BY ChannelsRefineGroups, ImplementsRegister
=============================================================================
