---------------------------- MODULE GroupChannels ----------------------------
(***************************************************************************)
(* Who listens to a group: the realtime channels of Centrifugo on top of   *)
(* OrgGroups.  A client subscribes to group:<id> or user:<id> and          *)
(* Centrifugo asks the org service, which asks Keto; or it subscribes to   *)
(* ephemeral-group:<id> with a token the org service signed, and Centrifugo*)
(* checks the token alone.                                                 *)
(*                                                                         *)
(* Centrifugo is modelled from its configuration and the org service's use *)
(* of it: between the answer of the proxy and the subscription other       *)
(* requests run, nobody ends the subscription of a removed member, and one *)
(* made with a token is dropped some time after the token has expired.     *)
(***************************************************************************)
EXTENDS OrgGroups

CONSTANTS
    Channel,        \* pairs of a namespace and the id of a group or a user
    MaxListeners    \* bound on the subscriptions at any one time

ASSUME GroupChannelsAssumption ==
    /\ Channel \subseteq ({"group", "ephemeral-group"} \X Group) \cup ({"user"} \X User)
    /\ MaxListeners \in Nat

Subscription == [channel : Channel, user : User, exp : Expiry \cup {NoTime}]

VARIABLES
    granted,    \* subscriptions the proxy allowed and Centrifugo has yet to make
    subs,       \* subscriptions of connected clients
    joined      \* history: pairs of a group and a user that was its member

channels == <<granted, subs>>
allVars == <<vars, granted, subs, joined>>

ChannelTypeOK ==
    /\ granted \subseteq Channel \X User
    /\ subs \subseteq Subscription
    /\ joined \subseteq Group \X User
    /\ members \subseteq joined

ChannelInit ==
    /\ Init
    /\ granted = {}
    /\ subs = {}
    /\ joined = {}

(***************************************************************************)
(* The org service: a step of OrgGroups, or an answer to Centrifugo.       *)
(***************************************************************************)
OrgStep ==
    /\ Next
    /\ joined' = joined \cup members'
    /\ UNCHANGED channels

Room == Cardinality(granted) + Cardinality(subs) < MaxListeners

\* A mutant of Allowed: any relation to the group will do.
AllowedAnyRelation(u, c) ==
    \/ c[1] = "group" /\ \E rel \in {"admin", "member"} : <<c[2], rel, u>> \in keto
    \/ c[1] = "user" /\ c[2] = u

\* checkSubscription: a namespace it does not know is denied.
Allowed(u, c) ==
    \/ c[1] = "group" /\ <<c[2], "member", u>> \in keto
    \/ c[1] = "user" /\ c[2] = u

\* A mutant: an error of Keto allows the subscription.
CheckSubscriptionFailOpen(u, c, o) ==
    /\ Room
    /\ granted' = IF o = "ok" => Allowed(u, c) THEN granted \cup {<<c, u>>} ELSE granted
    /\ UNCHANGED <<vars, subs, joined>>

\* The proxy; an error of Keto denies.
CheckSubscription(u, c, o) ==
    /\ Room
    /\ granted' = IF o = "ok" /\ Allowed(u, c) THEN granted \cup {<<c, u>>} ELSE granted
    /\ UNCHANGED <<vars, subs, joined>>

(***************************************************************************)
(* Centrifugo.                                                             *)
(***************************************************************************)
\* The answer arrives in time, or the client is told to try again.
Subscribe(u, c, o) ==
    /\ <<c, u>> \in granted
    /\ granted' = granted \ {<<c, u>>}
    /\ subs' = IF o = "ok" THEN subs \cup {[channel |-> c, user |-> u, exp |-> NoTime]}
                           ELSE subs
    /\ UNCHANGED <<vars, joined>>

\* A mutant: the expiry of the token is not checked.
SubscribeWithAnyToken(k) ==
    /\ Room
    /\ <<"ephemeral-group", k.group>> \in Channel
    /\ subs' = subs \cup {[channel |-> <<"ephemeral-group", k.group>>, user |-> k.user,
                           exp |-> NoTime]}
    /\ UNCHANGED <<vars, granted, joined>>

\* A mutant: token and configuration name different namespaces.
SubscribeToUnknown(k) ==
    /\ Room
    /\ k.exp >= clock
    /\ subs' = subs \cup {[channel |-> <<"ephemeral", k.group>>, user |-> k.user,
                           exp |-> k.exp]}
    /\ UNCHANGED <<vars, granted, joined>>

\* The token names its channel and when it expires.
SubscribeWithToken(k) ==
    /\ Room
    /\ <<"ephemeral-group", k.group>> \in Channel
    /\ k.exp >= clock
    /\ subs' = subs \cup {[channel |-> <<"ephemeral-group", k.group>>, user |-> k.user,
                           exp |-> k.exp]}
    /\ UNCHANGED <<vars, granted, joined>>

\* The client leaves or disconnects, or Centrifugo drops an expired subscription.
Unsubscribe(s) ==
    /\ subs' = subs \ {s}
    /\ UNCHANGED <<vars, granted, joined>>

ChannelNext ==
    \/ OrgStep
    \/ \E u \in User, c \in Channel, o \in {"ok", "lost"} :
          CheckSubscription(u, c, o) \/ Subscribe(u, c, o)
    \/ \E k \in tokens : SubscribeWithToken(k)
    \/ \E s \in subs : Unsubscribe(s)

ChannelSpec == ChannelInit /\ [][ChannelNext]_allVars

(***************************************************************************)
(* Properties.                                                             *)
(***************************************************************************)
\* Nobody listens to a group who was never a member of it, not even its
\* creator, and nobody to the channel of another user: a tuple or a token is
\* there only after the row of group_members was, whatever failed since.
OnlyMembersEverListen ==
    \A s \in subs :
        IF s.channel[1] = "user" THEN s.channel[2] = s.user
                                 ELSE <<s.channel[2], s.user>> \in joined

\* The group of a listener exists until the moment the listener's token has
\* expired: the sweeper closes no channel that is in use.
ListenersHaveGroup ==
    \A s \in subs : s.channel[1] # "user" /\ s.channel[2] \notin DOMAIN groups =>
        s.exp # NoTime /\ s.exp < clock

\* The proxy lets in somebody who is not a member at that time only when the
\* tuple is one a failure, a crash or a race left behind, or a request is about
\* to delete.
GrantedToMembers ==
    [][\A q \in granted' \ granted : q[1][1] = "group" =>
          LET t == <<q[1][2], "member", q[2]>>
          IN  <<t[1], t[3]>> \in members \/ t \in drift \/ Pending(t)]_allVars

(***************************************************************************)
(* The inductive invariant the proofs use.                                 *)
(***************************************************************************)
\* Who is believed to be a member, by the table, Keto, a request on its way to
\* Keto or a token, was one.
BeliefsSound ==
    /\ \A m \in members : m \in joined
    /\ \A t \in keto : t[2] = "member" => <<t[1], t[3]>> \in joined
    /\ \A p \in Proc : proc[p].pc = "keto" /\ proc[p].op = "add" =>
          <<proc[p].group, proc[p].user>> \in joined
    /\ \A k \in tokens : <<k.group, k.user>> \in joined

Permanent(g) == g \in DOMAIN groups /\ ~groups[g].ephemeral

\* What the proxy lets u subscribe to, now or at some time before.
Entitled(u, c) ==
    \/ c[1] = "user" /\ c[2] = u
    \/ c[1] = "group" /\ Permanent(c[2]) /\ <<c[2], u>> \in joined

GrantsSound == \A q \in granted : Entitled(q[2], q[1])

ListenersSound ==
    \A s \in subs :
        \/ Entitled(s.user, s.channel)
        \/ /\ s.channel[1] = "ephemeral-group"
           /\ s.exp # NoTime
           /\ [group |-> s.channel[2], user |-> s.user, exp |-> s.exp] \in tokens

ChannelInv ==
    /\ ChannelTypeOK
    /\ BeliefsSound
    /\ GrantsSound
    /\ ListenersSound
=============================================================================
