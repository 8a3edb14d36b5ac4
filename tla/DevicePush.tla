----------------------------- MODULE DevicePush -----------------------------
(***************************************************************************)
(* Push notifications from their record to the devices: the device tokens  *)
(* of the identity service (DeviceService over the table device_tokens),   *)
(* the preferences of the notification service, and tryPush, which reads   *)
(* both, one call after the other, before it sends.                        *)
(*                                                                         *)
(* One app and one type of event.  A device registers for whoever is logged*)
(* in on it, under its device id; the table keeps one row per device, so   *)
(* that the row, and with it the push token, changes hands.                *)
(***************************************************************************)
EXTENDS FiniteSets

CONSTANTS
    User,           \* users of the app
    Device,         \* device ids
    PushToken,      \* tokens FCM and APNs gave the devices
    Notification,   \* notifications saved and to be pushed
    Nobody          \* no user

ASSUME DevicePushAssumption == Nobody \notin User

DeviceToken == [user : User, token : PushToken]
EventType == {"type", "*"}    \* the type of the event, and the default for all types

VARIABLES
    devices,    \* table device_tokens: a function from the device ids of its rows
    prefs,      \* table notification_preferences, channel push: a function from
                \* pairs of a user and an event type to BOOLEAN
    push,       \* where tryPush is with a notification
    sent,       \* triples of a notification, a device and the token it was sent to
    \* The two below are history: no step of the code reads them.
    holder,     \* of each device: who registered it last, unless unregistered
    late        \* what tryPush has read for a notification and changed since:
                \* pairs of a notification and "prefs" or a device

vars == <<devices, prefs, push, sent, holder, late>>

Waiting == [pc |-> "waiting"]
Done == [pc |-> "done"]
Push ==
    {Waiting, Done}
    \cup [pc : {"enabled", "devices"}, user : User]
    \cup [pc : {"send"}, user : User, tokens : SUBSET (Device \X PushToken)]

TypeOK ==
    /\ DOMAIN devices \subseteq Device
    /\ \A d \in DOMAIN devices : devices[d] \in DeviceToken
    /\ DOMAIN prefs \subseteq User \X EventType
    /\ \A k \in DOMAIN prefs : prefs[k] \in BOOLEAN
    /\ push \in [Notification -> Push]
    /\ sent \subseteq Notification \X Device \X PushToken
    /\ holder \in [Device -> User \cup {Nobody}]
    /\ late \subseteq Notification \X ({"prefs"} \cup Device)

Init ==
    /\ devices = [d \in {} |-> Nobody]
    /\ prefs = [k \in {} |-> FALSE]
    /\ push = [n \in Notification |-> Waiting]
    /\ sent = {}
    /\ holder = [d \in Device |-> Nobody]
    /\ late = {}

\* The notifications that have read the preferences of a user, and the devices.
ReadPrefs(u) == {n \in Notification : push[n].pc \in {"devices", "send"} /\ push[n].user = u}
ReadDevices  == {n \in Notification : push[n].pc = "send"}

(***************************************************************************)
(* DeviceService.                                                          *)
(***************************************************************************)
\* A mutant: ON CONFLICT does not set user_id.
RegisterDeviceKeepsUser(d, u, t) ==
    /\ devices' = [e \in DOMAIN devices \cup {d} |->
                      IF e # d THEN devices[e]
                      ELSE [user |-> IF d \in DOMAIN devices THEN devices[d].user ELSE u,
                            token |-> t]]
    /\ holder' = [holder EXCEPT ![d] = u]
    /\ late' = late \cup (ReadDevices \X {d})
    /\ UNCHANGED <<prefs, push, sent>>

\* INSERT ... ON CONFLICT (app_id, device_id) DO UPDATE.
RegisterDevice(d, u, t) ==
    /\ devices' = [e \in DOMAIN devices \cup {d} |->
                      IF e = d THEN [user |-> u, token |-> t] ELSE devices[e]]
    /\ holder' = [holder EXCEPT ![d] = u]
    /\ late' = late \cup (ReadDevices \X {d})
    /\ UNCHANGED <<prefs, push, sent>>

\* DELETE by app and device, whoever asks.
UnregisterDevice(d) ==
    /\ devices' = [e \in DOMAIN devices \ {d} |-> devices[e]]
    /\ holder' = [holder EXCEPT ![d] = Nobody]
    /\ late' = late \cup (ReadDevices \X {d})
    /\ UNCHANGED <<prefs, push, sent>>

(***************************************************************************)
(* PreferenceService.                                                      *)
(***************************************************************************)
UpsertPreference(u, type, enabled) ==
    /\ prefs' = [k \in DOMAIN prefs \cup {<<u, type>>} |->
                    IF k = <<u, type>> THEN enabled ELSE prefs[k]]
    /\ late' = late \cup (ReadPrefs(u) \X {"prefs"})
    /\ UNCHANGED <<devices, push, sent, holder>>

\* A mutant: the default wins over the exact row.
EnabledByDefaultFirst(u) ==
    IF <<u, "*">> \in DOMAIN prefs THEN prefs[<<u, "*">>]
    ELSE <<u, "type">> \in DOMAIN prefs => prefs[<<u, "type">>]

\* GetPreferenceEnabled: the exact row, else the default for all types, else
\* push is on.
Enabled(u) ==
    IF <<u, "type">> \in DOMAIN prefs THEN prefs[<<u, "type">>]
    ELSE <<u, "*">> \in DOMAIN prefs => prefs[<<u, "*">>]

(***************************************************************************)
(* tryPush.  An error of any call ends it without a word to anybody.       *)
(***************************************************************************)
StartPush(n, u) ==
    /\ push[n] = Waiting
    /\ push' = [push EXCEPT ![n] = [pc |-> "enabled", user |-> u]]
    /\ UNCHANGED <<devices, prefs, sent, holder, late>>

IsEnabled(n, o) ==
    /\ push[n].pc = "enabled"
    /\ push' = [push EXCEPT ![n] = IF o = "ok" /\ Enabled(push[n].user)
                                   THEN [@ EXCEPT !.pc = "devices"] ELSE Done]
    /\ UNCHANGED <<devices, prefs, sent, holder, late>>

TokensOf(u) ==
    {<<d, devices[d].token>> : d \in {e \in DOMAIN devices : devices[e].user = u}}

\* FindTokensByUser, a request to the identity service.
FindTokens(n, o) ==
    /\ push[n].pc = "devices"
    /\ push' = [push EXCEPT ![n] =
                   IF o = "ok"
                   THEN [pc |-> "send", user |-> @.user, tokens |-> TokensOf(@.user)]
                   ELSE Done]
    /\ UNCHANGED <<devices, prefs, sent, holder, late>>

\* The rows come in any order; an error is logged and the next one is tried.
Send(n, x, o) ==
    /\ push[n].pc = "send" /\ x \in push[n].tokens
    /\ sent' = IF o = "ok" THEN sent \cup {<<n, x[1], x[2]>>} ELSE sent
    /\ push' = [push EXCEPT ![n].tokens = @ \ {x}]
    /\ UNCHANGED <<devices, prefs, holder, late>>

Finish(n) ==
    /\ push[n].pc = "send" /\ push[n].tokens = {}
    /\ push' = [push EXCEPT ![n] = Done]
    /\ UNCHANGED <<devices, prefs, sent, holder, late>>

\* The process of the notification service dies: what it was pushing is lost.
Crash ==
    /\ push' = [n \in Notification |-> IF push[n] = Waiting THEN Waiting ELSE Done]
    /\ UNCHANGED <<devices, prefs, sent, holder, late>>

Call == {"ok", "lost"}

\* Requests of clients to the identity and the notification service.
Request ==
    \/ \E d \in Device, u \in User, t \in PushToken : RegisterDevice(d, u, t)
    \/ \E d \in Device : UnregisterDevice(d)
    \/ \E u \in User, type \in EventType, b \in BOOLEAN : UpsertPreference(u, type, b)

\* tryPush but for the sending.
TryPush ==
    \/ \E n \in Notification, u \in User : StartPush(n, u)
    \/ \E n \in Notification, o \in Call : IsEnabled(n, o) \/ FindTokens(n, o)
    \/ \E n \in Notification : Finish(n)

Next ==
    \/ Request
    \/ TryPush
    \/ \E n \in Notification, x \in Device \X PushToken, o \in Call : Send(n, x, o)
    \/ Crash

Spec == Init /\ [][Next]_vars

(***************************************************************************)
(* Properties.                                                             *)
(***************************************************************************)

\* A push goes to a device whose last registration was by the user it is for;
\* a device handed on, or unregistered, gets another user's push only if that
\* happened between FindTokensByUser and the sending.
PushReachesHolder ==
    [][\A x \in sent' \ sent :
          holder[x[2]] = push[x[1]].user \/ <<x[1], x[2]>> \in late]_vars

\* Whoever switched push off, for this type of event or for all of them, gets
\* none, whatever the order of the rows and their updates; the exact row has
\* the last word.  A change that overtakes tryPush is the only excuse.
Refused(u) ==
    \E type \in EventType :
        /\ <<u, type>> \in DOMAIN prefs
        /\ ~prefs[<<u, type>>]
        /\ type = "*" => <<u, "type">> \notin DOMAIN prefs
PushRespectsChoice ==
    [][\A x \in sent' \ sent :
          ~Refused(push[x[1]].user) \/ <<x[1], "prefs">> \in late]_vars
=============================================================================
