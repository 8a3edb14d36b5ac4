------------------------- MODULE OrgMembershipProofs -------------------------
(***************************************************************************)
(* Organizations, their members and invitations, for any number of them and*)
(* of requests.  None of the properties is inductive: a request acts on an *)
(* id or on an invitation read some calls ago.  The invariant says what    *)
(* still holds of it then: a fresh id belongs to one request, which alone  *)
(* writes its row; an invitation keeps its organization, role and expiry,  *)
(* is never opened again, and is in half as soon as two requests hold it.  *)
(***************************************************************************)
EXTENDS OrgMembership, TLAPS

\* An organization being created is this request's alone.
CreatesSound ==
    \A p \in Doing("create") :
        /\ proc[p].org \notin half
        /\ proc[p].pc = "org" => proc[p].org \notin DOMAIN orgs
        /\ proc[p].pc # "org" => /\ proc[p].org \in DOMAIN orgs
                                 /\ orgs[proc[p].org] = proc[p].row
        /\ proc[p].pc # "publish" => <<"org.created", proc[p].org>> \notin published
        /\ \A q \in Doing("create") : proc[q].org = proc[p].org => q = p

\* So is an invitation being written.
InvitesSound ==
    \A p \in Doing("invite") :
        /\ proc[p].pc = "db" => proc[p].inv \notin DOMAIN invitations /\ ~proc[p].row.accepted
        /\ proc[p].pc = "publish" => proc[p].inv \in DOMAIN invitations
        /\ \A q \in Doing("invite") : proc[q].inv = proc[p].inv => q = p

\* What a request read of an invitation still holds, but that it may have been
\* used since; then, or if another request holds it too, it is in half.
AcceptsSound ==
    \A p \in Doing("accept") :
        /\ proc[p].inv \in DOMAIN invitations
        /\ proc[p].row.org = invitations[proc[p].inv].org
        /\ proc[p].row.role = invitations[proc[p].inv].role
        /\ proc[p].now <= invitations[proc[p].inv].expiresAt
        /\ proc[p].pc = "join" /\ uses[proc[p].inv] > 0 => proc[p].inv \in half
        /\ proc[p].pc # "join" => uses[proc[p].inv] > 0
        /\ proc[p].pc = "publish" => invitations[proc[p].inv].accepted
        /\ \A q \in Doing("accept") :
              /\ q # p
              /\ proc[p].pc # "publish" /\ proc[q].pc # "publish"
              /\ proc[q].inv = proc[p].inv
              => proc[p].inv \in half

\* Only what has a row is half done or used.
RowsSound ==
    /\ half \cap Org \subseteq DOMAIN orgs
    /\ \A i \in Inv : uses[i] > 0 => i \in DOMAIN invitations

MembershipInv ==
    /\ TypeOK
    /\ CreatesSound
    /\ InvitesSound
    /\ AcceptsSound
    /\ RowsSound
    /\ MembersAreInvited
    /\ OneUserPerInvitation
    /\ AcceptedIffUsed
    /\ OwnerIsMember
    /\ EventsAreTrue

CreateRequest == [op : {"create"}, pc : {"org", "owner", "publish"}, org : Org, row : OrgRow]
InviteRequest == [op : {"invite"}, pc : {"db", "publish"}, inv : Inv, row : Invitation]
AcceptRequest == [op : {"accept"}, pc : {"join", "mark", "publish"}, inv : Inv,
                  row : Invitation, user : User, now : Time]

\* There are no rows and no requests at the start.
LEMMA InitInv == Init => MembershipInv
BY OrgMembershipAssumption
   DEF Init, MembershipInv, TypeOK, CreatesSound, InvitesSound, AcceptsSound, RowsSound,
       MembersAreInvited, OneUserPerInvitation, AcceptedIffUsed, OwnerIsMember,
       EventsAreTrue, Doing, Busy, NoRequest, Time

\* A request has the fields of its operation, and its pc tells which it is.
LEMMA RequestFacts ==
    ASSUME TypeOK, NEW p \in Proc
    PROVE  /\ proc[p].pc # "idle" <=> p \in Busy
           /\ proc[p].pc = "idle" => proc[p] = NoRequest
           /\ p \in Busy => proc[p] \in CreateRequest \cup InviteRequest \cup AcceptRequest
           /\ p \in Doing("create") => proc[p] \in CreateRequest
           /\ p \in Doing("invite") => proc[p] \in InviteRequest
           /\ p \in Doing("accept") => proc[p] \in AcceptRequest
           /\ proc[p].pc \in {"org", "owner"} => p \in Doing("create")
           /\ proc[p].pc = "db" => p \in Doing("invite")
           /\ proc[p].pc \in {"join", "mark"} => p \in Doing("accept")
BY DEF TypeOK, Request, NoRequest, Busy, Doing, CreateRequest, InviteRequest, AcceptRequest

\* One request at p has ended, or is at another pc with the same fields.
LEMMA ProceedFacts ==
    ASSUME TypeOK, NEW p \in Busy, NEW o \in Outcome, NEW pc,
           pc \in {"owner", "mark", "publish"},
           proc[p] \in CreateRequest => pc \in {"owner", "publish"},
           proc[p] \in InviteRequest => pc = "publish",
           proc[p] \in AcceptRequest => pc \in {"mark", "publish"},
           Proceed(p, o, pc) \/ Finish(p)
    PROVE  /\ proc' \in [Proc -> {NoRequest} \cup Request]
           /\ \A q \in Proc : q # p => proc'[q] = proc[q]
           /\ \A op : Doing(op)' = IF proc'[p] = NoRequest THEN Doing(op) \ {p} ELSE Doing(op)
           /\ Busy' = IF proc'[p] = NoRequest THEN Busy \ {p} ELSE Busy
           /\ \/ proc'[p] = NoRequest /\ (o # "ok" \/ Finish(p))
              \/ proc'[p] = [proc[p] EXCEPT !.pc = pc] /\ o = "ok"
<1>1. p \in Proc /\ proc[p].pc # "idle"
  BY DEF Busy
<1>2. proc[p] \in CreateRequest \cup InviteRequest \cup AcceptRequest
  BY <1>1, RequestFacts
<1> DEFINE r == [proc[p] EXCEPT !.pc = pc]
<1>3. r \in CreateRequest \cup InviteRequest \cup AcceptRequest
  BY <1>2 DEF CreateRequest, InviteRequest, AcceptRequest
<1>4. r.pc = pc /\ r.op = proc[p].op /\ pc # "idle"
  BY <1>2 DEF CreateRequest, InviteRequest, AcceptRequest
<1>5. r \in Request /\ r # NoRequest
  BY <1>3, <1>4 DEF Request, CreateRequest, InviteRequest, AcceptRequest, NoRequest
<1> HIDE DEF r
<1>6. proc' = [proc EXCEPT ![p] = NoRequest] \/ proc' = [proc EXCEPT ![p] = r]
  BY DEF Proceed, Finish, r
<1>7. \/ proc'[p] = NoRequest /\ (o # "ok" \/ Finish(p))
      \/ proc'[p] = r /\ o = "ok"
  BY <1>1 DEF Proceed, Finish, r, TypeOK
<1>8. proc' \in [Proc -> {NoRequest} \cup Request]
  BY <1>5, <1>6 DEF TypeOK
<1>9. \A q \in Proc : q # p => proc'[q] = proc[q]
  BY <1>6 DEF TypeOK
<1>10. Busy' = IF proc'[p] = NoRequest THEN Busy \ {p} ELSE Busy
  BY <1>1, <1>4, <1>7, <1>9 DEF Busy, NoRequest
<1>11. \A op : Doing(op)' = IF proc'[p] = NoRequest THEN Doing(op) \ {p} ELSE Doing(op)
  BY <1>1, <1>4, <1>5, <1>7, <1>9, <1>10 DEF Doing, Busy
<1>12. QED
  BY <1>7, <1>8, <1>9, <1>10, <1>11 DEF r

\* An idle process has taken on a request.
LEMMA StartFacts ==
    ASSUME TypeOK, NEW p \in Proc, proc[p].pc = "idle",
           NEW r \in CreateRequest \cup InviteRequest \cup AcceptRequest,
           proc' = [proc EXCEPT ![p] = r]
    PROVE  /\ proc' \in [Proc -> {NoRequest} \cup Request]
           /\ proc'[p] = r
           /\ \A q \in Proc : q # p => proc'[q] = proc[q]
           /\ Busy' = Busy \cup {p} /\ p \notin Busy
           /\ \A op : Doing(op)' = IF op = r.op THEN Doing(op) \cup {p} ELSE Doing(op)
<1>1. r \in Request /\ r.pc # "idle"
  BY DEF Request, CreateRequest, InviteRequest, AcceptRequest
<1>2. proc' \in [Proc -> {NoRequest} \cup Request]
  BY <1>1 DEF TypeOK
<1>3. proc'[p] = r /\ \A q \in Proc : q # p => proc'[q] = proc[q]
  BY DEF TypeOK
<1>4. Busy' = Busy \cup {p} /\ p \notin Busy
  BY <1>1, <1>3 DEF Busy
<1>5. \A op : Doing(op)' = IF op = r.op THEN Doing(op) \cup {p} ELSE Doing(op)
  BY <1>3, <1>4 DEF Doing, Busy
<1>6. QED
  BY <1>2, <1>3, <1>4, <1>5

\* A fresh organization is nobody's, not half done, and not announced.
LEMMA StartCreateStep ==
    ASSUME MembershipInv, NEW p \in Proc, NEW o \in Org, NEW row \in OrgRow,
           StartCreate(p, o, row)
    PROVE  MembershipInv'
<1> USE DEF MembershipInv
<1> DEFINE r == [op |-> "create", pc |-> "org", org |-> o, row |-> row]
<1>1. /\ proc[p].pc = "idle" /\ NewOrg(o) /\ proc' = [proc EXCEPT ![p] = r]
      /\ UNCHANGED <<orgs, members, invitations, published, clock, uses, left, half, crashes>>
  BY DEF StartCreate, tables
<1>2. r \in CreateRequest /\ r.op = "create" /\ r.org = o /\ r.row = row /\ r.pc = "org"
  BY DEF CreateRequest
<1> HIDE DEF r
<1>3. /\ proc' \in [Proc -> {NoRequest} \cup Request]
      /\ proc'[p] = r
      /\ \A q \in Proc : q # p => proc'[q] = proc[q]
      /\ Busy' = Busy \cup {p} /\ p \notin Busy
      /\ \A op : Doing(op)' = IF op = "create" THEN Doing(op) \cup {p} ELSE Doing(op)
  BY <1>1, <1>2, StartFacts
<1>4. Busy \subseteq Proc /\ \A op : Doing(op) \subseteq Busy
  BY DEF Busy, Doing
<1>5. TypeOK'
  BY <1>1, <1>3 DEF TypeOK
<1>6. CreatesSound'
  <2>1. o \notin half /\ <<"org.created", o>> \notin published
    BY <1>1 DEF NewOrg, RowsSound, EventsAreTrue
  <2>2. \A q \in Doing("create") : proc[q].org # o
    BY <1>1 DEF NewOrg
  <2>3. QED
    BY <1>1, <1>2, <1>3, <1>4, <2>1, <2>2 DEF CreatesSound, NewOrg
<1>7. InvitesSound'
  BY <1>1, <1>3, <1>4 DEF InvitesSound
<1>8. AcceptsSound'
  BY <1>1, <1>3, <1>4 DEF AcceptsSound
<1>9. RowsSound' /\ MembersAreInvited' /\ OneUserPerInvitation' /\ EventsAreTrue'
  BY <1>1 DEF RowsSound, MembersAreInvited, OneUserPerInvitation, EventsAreTrue
<1>10. AcceptedIffUsed'
  BY <1>1, <1>3, <1>4 DEF AcceptedIffUsed
<1>11. OwnerIsMember'
  BY <1>1, <1>3, <1>4 DEF OwnerIsMember
<1>12. QED
  BY <1>5, <1>6, <1>7, <1>8, <1>9, <1>10, <1>11

\* A fresh invitation has no row.
LEMMA StartInviteStep ==
    ASSUME MembershipInv, NEW p \in Proc, NEW i \in Inv, NEW o \in Org, NEW role \in Role,
           StartInvite(p, i, o, role)
    PROVE  MembershipInv'
<1> USE DEF MembershipInv
<1> DEFINE row == [org |-> o, role |-> role, expiresAt |-> clock + TTL, accepted |-> FALSE]
           r == [op |-> "invite", pc |-> "db", inv |-> i, row |-> row]
<1>1. /\ proc[p].pc = "idle" /\ NewInv(i) /\ proc' = [proc EXCEPT ![p] = r]
      /\ UNCHANGED <<orgs, members, invitations, published, clock, uses, left, half, crashes>>
  BY DEF StartInvite, tables
<1>2. clock + TTL \in Time
  BY OrgMembershipAssumption DEF TypeOK, Time
<1>3. row \in Invitation /\ ~row.accepted
  BY <1>2 DEF Invitation
<1> HIDE DEF row
<1>4. r \in InviteRequest /\ r.op = "invite" /\ r.inv = i /\ r.row = row /\ r.pc = "db"
  BY <1>3 DEF InviteRequest
<1> HIDE DEF r
<1>5. /\ proc' \in [Proc -> {NoRequest} \cup Request]
      /\ proc'[p] = r
      /\ \A q \in Proc : q # p => proc'[q] = proc[q]
      /\ Busy' = Busy \cup {p} /\ p \notin Busy
      /\ \A op : Doing(op)' = IF op = "invite" THEN Doing(op) \cup {p} ELSE Doing(op)
  BY <1>1, <1>4, StartFacts
<1>6. Busy \subseteq Proc /\ \A op : Doing(op) \subseteq Busy
  BY DEF Busy, Doing
<1>7. TypeOK'
  BY <1>1, <1>5 DEF TypeOK
<1>8. CreatesSound'
  BY <1>1, <1>5, <1>6 DEF CreatesSound
<1>9. InvitesSound'
  BY <1>1, <1>3, <1>4, <1>5, <1>6 DEF InvitesSound, NewInv
<1>10. AcceptsSound'
  BY <1>1, <1>5, <1>6 DEF AcceptsSound
<1>11. RowsSound' /\ MembersAreInvited' /\ OneUserPerInvitation' /\ EventsAreTrue'
  BY <1>1 DEF RowsSound, MembersAreInvited, OneUserPerInvitation, EventsAreTrue
<1>12. AcceptedIffUsed'
  BY <1>1, <1>5, <1>6 DEF AcceptedIffUsed
<1>13. OwnerIsMember'
  BY <1>1, <1>5, <1>6 DEF OwnerIsMember
<1>14. QED
  BY <1>7, <1>8, <1>9, <1>10, <1>11, <1>12, <1>13

\* A new invitation is open and nobody has used it.
LEMMA InsertInvitationStep ==
    ASSUME MembershipInv, NEW p \in Proc, NEW o \in Outcome, InsertInvitation(p, o)
    PROVE  MembershipInv'
<1> USE DEF MembershipInv
<1> DEFINE r == proc[p]
           i == r.inv
<1>1. r.pc = "db" /\ Proceed(p, o, "publish")
  BY DEF InsertInvitation
<1>2. p \in Doing("invite") /\ p \in Busy /\ r \in InviteRequest
  BY <1>1, RequestFacts DEF Doing
<1>3. /\ proc' \in [Proc -> {NoRequest} \cup Request]
      /\ \A q \in Proc : q # p => proc'[q] = proc[q]
      /\ \A op : Doing(op)' = IF proc'[p] = NoRequest THEN Doing(op) \ {p} ELSE Doing(op)
      /\ Busy' = IF proc'[p] = NoRequest THEN Busy \ {p} ELSE Busy
      /\ \/ proc'[p] = NoRequest
         \/ proc'[p] = [r EXCEPT !.pc = "publish"] /\ o = "ok"
  BY <1>1, <1>2, ProceedFacts DEF InviteRequest, CreateRequest, AcceptRequest
<1>4. /\ i \in Inv /\ r.row \in Invitation /\ i \notin DOMAIN invitations /\ ~r.row.accepted
      /\ uses[i] = 0
  BY <1>1, <1>2 DEF InvitesSound, InviteRequest, RowsSound, TypeOK
<1>5. /\ DOMAIN invitations \subseteq DOMAIN invitations'
      /\ DOMAIN invitations' \subseteq DOMAIN invitations \cup {i}
      /\ \A j \in DOMAIN invitations : invitations'[j] = invitations[j]
      /\ i \in DOMAIN invitations' => invitations'[i] = r.row
      /\ o = "ok" => i \in DOMAIN invitations'
  BY <1>4 DEF InsertInvitation, Insert, Applied
<1>6. UNCHANGED <<orgs, members, published, clock, uses, left, half, crashes>>
  BY DEF InsertInvitation
<1>7. proc'[p] # NoRequest =>
         /\ proc'[p].pc = "publish" /\ proc'[p].inv = i /\ proc'[p].op = "invite"
         /\ proc'[p].row = r.row /\ o = "ok"
  BY <1>2, <1>3 DEF InviteRequest
<1>8. Busy \subseteq Proc /\ (\A op : Doing(op) \subseteq Busy)
      /\ p \notin Doing("create") /\ p \notin Doing("accept")
  BY <1>2 DEF Busy, Doing
<1> HIDE DEF r, i
<1>9. TypeOK'
  BY <1>3, <1>4, <1>5, <1>6 DEF TypeOK
<1>10. CreatesSound'
  BY <1>3, <1>6, <1>8 DEF CreatesSound
<1>11. InvitesSound'
  <2>1. \A q \in Doing("invite") : q # p => proc[q].inv # i
    BY <1>2 DEF InvitesSound, i, r
  <2>2. QED
    BY <1>2, <1>3, <1>4, <1>5, <1>7, <1>8, <2>1 DEF InvitesSound
<1>12. AcceptsSound'
  BY <1>3, <1>5, <1>6, <1>8 DEF AcceptsSound
<1>13. RowsSound' /\ OneUserPerInvitation'
  BY <1>5, <1>6 DEF RowsSound, OneUserPerInvitation
<1>14. MembersAreInvited' /\ EventsAreTrue'
  BY <1>5, <1>6 DEF MembersAreInvited, EventsAreTrue
<1>15. AcceptedIffUsed'
  <2>1. proc[p].pc # "mark"
    BY <1>1 DEF r
  <2>2. QED
    BY <1>3, <1>4, <1>5, <1>6, <1>8, <2>1 DEF AcceptedIffUsed
<1>16. OwnerIsMember'
  BY <1>3, <1>6, <1>8 DEF OwnerIsMember
<1>17. QED
  BY <1>9, <1>10, <1>11, <1>12, <1>13, <1>14, <1>15, <1>16

\* The row is this request's; its owner is still to come, or never will.
LEMMA InsertOrgStep ==
    ASSUME MembershipInv, NEW p \in Proc, NEW o \in Outcome, InsertOrg(p, o)
    PROVE  MembershipInv'
<1> USE DEF MembershipInv
<1> DEFINE r == proc[p]
           g == r.org
<1>1. r.pc = "org" /\ (Proceed(p, o, "owner") \/ Finish(p))
  BY DEF InsertOrg
<1>2. p \in Doing("create") /\ p \in Busy /\ r \in CreateRequest
  BY <1>1, RequestFacts DEF Doing
<1>3. /\ proc' \in [Proc -> {NoRequest} \cup Request]
      /\ \A q \in Proc : q # p => proc'[q] = proc[q]
      /\ \A op : Doing(op)' = IF proc'[p] = NoRequest THEN Doing(op) \ {p} ELSE Doing(op)
      /\ Busy' = IF proc'[p] = NoRequest THEN Busy \ {p} ELSE Busy
      /\ \/ proc'[p] = NoRequest /\ (o # "ok" \/ Finish(p))
         \/ proc'[p] = [r EXCEPT !.pc = "owner"] /\ o = "ok"
  BY <1>1, <1>2, ProceedFacts DEF InviteRequest, CreateRequest, AcceptRequest
<1>4. /\ g \in Org /\ r.row \in OrgRow /\ g \notin DOMAIN orgs /\ g \notin half
      /\ <<"org.created", g>> \notin published
  BY <1>1, <1>2 DEF CreatesSound, CreateRequest
<1>5. proc'[p] # NoRequest =>
         /\ proc'[p].pc = "owner" /\ proc'[p].org = g /\ proc'[p].op = "create"
         /\ proc'[p].row = r.row /\ o = "ok"
  BY <1>2, <1>3 DEF CreateRequest
<1>6. proc'[p] = NoRequest \/ ~Finish(p)
  <2>1. Finish(p) => proc'[p] = NoRequest
    BY DEF Finish, TypeOK
  <2>2. QED
    BY <2>1
<1>7. \/ orgs' = orgs /\ half' = half /\ proc'[p] = NoRequest
      \/ /\ orgs' = Insert(orgs, g, r.row)
         /\ half' = half /\ proc'[p] # NoRequest
      \/ /\ orgs' = Insert(orgs, g, r.row)
         /\ half' = half \cup {g} /\ proc'[p] = NoRequest
  <2>1. Proceed(p, o, "owner") => (proc'[p] # NoRequest <=> o = "ok")
    BY <1>2, <1>3 DEF Proceed, TypeOK, CreateRequest, NoRequest
  <2>2. CASE SlugTaken(proc[p].row.slug)
    BY <1>6, <2>2 DEF InsertOrg
  <2>3. CASE ~SlugTaken(proc[p].row.slug)
    BY <2>1, <2>3 DEF InsertOrg, Applied, Outcome
  <2>4. QED
    BY <2>2, <2>3
<1>8. /\ DOMAIN orgs \subseteq DOMAIN orgs'
      /\ DOMAIN orgs' \subseteq DOMAIN orgs \cup {g}
      /\ \A x \in DOMAIN orgs : orgs'[x] = orgs[x]
      /\ g \in DOMAIN orgs' => orgs'[g] = r.row
      /\ g \in half' => g \in DOMAIN orgs'
      /\ g \in DOMAIN orgs' => g \in half' \/ proc'[p] # NoRequest
      /\ proc'[p] # NoRequest => g \in DOMAIN orgs' /\ g \notin half'
      /\ half \subseteq half' /\ half' \subseteq half \cup {g}
  BY <1>4, <1>7 DEF Insert
<1>9. UNCHANGED <<members, invitations, published, clock, uses, left, crashes>>
  BY DEF InsertOrg
<1>10. Busy \subseteq Proc /\ (\A op : Doing(op) \subseteq Busy)
       /\ p \notin Doing("invite") /\ p \notin Doing("accept")
  BY <1>2 DEF Busy, Doing
<1>11. \A q \in Doing("create") : q # p => proc[q].org # g
  BY <1>2 DEF CreatesSound
<1>12. proc[p].pc = "org"
  BY <1>1
<1> HIDE DEF r, g
<1>13. TypeOK'
  BY <1>3, <1>4, <1>8, <1>9 DEF TypeOK
<1>14. CreatesSound'
  BY <1>2, <1>3, <1>4, <1>5, <1>8, <1>9, <1>10, <1>11 DEF CreatesSound
<1>15. InvitesSound'
  BY <1>3, <1>9, <1>10 DEF InvitesSound
<1>16. AcceptsSound'
  BY <1>3, <1>8, <1>9, <1>10 DEF AcceptsSound
<1>17. RowsSound' /\ OneUserPerInvitation'
  BY <1>8, <1>9 DEF RowsSound, OneUserPerInvitation
<1>18. MembersAreInvited'
  BY <1>8, <1>9 DEF MembersAreInvited
<1>19. EventsAreTrue'
  BY <1>4, <1>8, <1>9 DEF EventsAreTrue
<1>20. AcceptedIffUsed'
  BY <1>3, <1>8, <1>9, <1>10, <1>12 DEF AcceptedIffUsed
<1>21. OwnerIsMember'
  <2>1. \A x \in DOMAIN orgs' : x = g \/ (x \in DOMAIN orgs /\ orgs'[x] = orgs[x])
    BY <1>8
  <2>2. g \in DOMAIN orgs' =>
           \/ g \in half'
           \/ \E q \in Doing("create")' : proc'[q].org = g /\ proc'[q].pc = "owner"
    BY <1>2, <1>3, <1>5, <1>8
  <2>3. \A q \in Doing("create") :
           proc[q].pc = "owner" => q \in Doing("create")' /\ proc'[q] = proc[q]
    BY <1>3, <1>10, <1>12
  <2>4. QED
    BY <1>8, <1>9, <2>1, <2>2, <2>3 DEF OwnerIsMember
<1>22. QED
  BY <1>13, <1>14, <1>15, <1>16, <1>17, <1>18, <1>19, <1>20, <1>21

\* The owner is in, or the organization is half done.
LEMMA AddOwnerStep ==
    ASSUME MembershipInv, NEW p \in Proc, NEW o \in Outcome, AddOwner(p, o)
    PROVE  MembershipInv'
<1> USE DEF MembershipInv
<1> DEFINE r == proc[p]
           g == r.org
           row == [role |-> "owner", joinedAt |-> r.row.createdAt]
<1>1. r.pc = "owner" /\ Proceed(p, o, "publish")
  BY DEF AddOwner
<1>2. p \in Doing("create") /\ p \in Busy /\ r \in CreateRequest
  BY <1>1, RequestFacts DEF Doing
<1>3. /\ proc' \in [Proc -> {NoRequest} \cup Request]
      /\ \A q \in Proc : q # p => proc'[q] = proc[q]
      /\ \A op : Doing(op)' = IF proc'[p] = NoRequest THEN Doing(op) \ {p} ELSE Doing(op)
      /\ Busy' = IF proc'[p] = NoRequest THEN Busy \ {p} ELSE Busy
      /\ \/ proc'[p] = NoRequest
         \/ proc'[p] = [r EXCEPT !.pc = "publish"] /\ o = "ok"
  BY <1>1, <1>2, ProceedFacts DEF InviteRequest, CreateRequest, AcceptRequest
<1>4. /\ g \in Org /\ r.row \in OrgRow /\ g \in DOMAIN orgs /\ orgs[g] = r.row
      /\ g \notin half /\ <<"org.created", g>> \notin published /\ r.row.owner \in User
  BY <1>1, <1>2 DEF CreatesSound, CreateRequest, OrgRow
<1>5. proc'[p] # NoRequest =>
         /\ proc'[p].pc = "publish" /\ proc'[p].org = g /\ proc'[p].op = "create"
         /\ proc'[p].row = r.row /\ o = "ok"
  BY <1>2, <1>3 DEF CreateRequest
<1>6. row \in Membership /\ row.role = "owner"
  BY <1>4 DEF Membership, Role, OrgRow
<1> DEFINE m == <<g, r.row.owner>>
<1>7. m \in Org \X User /\ m[1] = g /\ m[2] = r.row.owner
  BY <1>4
<1>8. \/ /\ members' = Insert(members, m, row)
         /\ half' = half
      \/ /\ members' = members
         /\ half' = half \cup {g} /\ o # "ok"
  BY DEF AddOwner, Applied, Outcome
<1> HIDE DEF m, row
<1>9. /\ DOMAIN members \subseteq DOMAIN members'
      /\ DOMAIN members' \subseteq DOMAIN members \cup {m}
      /\ \A x \in DOMAIN members' : \/ x = m /\ members'[x] = row
                                    \/ x \in DOMAIN members /\ members'[x] = members[x]
      /\ m \in DOMAIN members' \/ g \in half'
      /\ half \subseteq half' /\ half' \subseteq half \cup {g}
      /\ o = "ok" => half' = half
  BY <1>8 DEF Insert
<1>10. UNCHANGED <<orgs, invitations, published, clock, uses, left, crashes>>
  BY DEF AddOwner
<1>11. Busy \subseteq Proc /\ (\A op : Doing(op) \subseteq Busy)
       /\ p \notin Doing("invite") /\ p \notin Doing("accept")
  BY <1>2 DEF Busy, Doing
<1>12. \A q \in Doing("create") : q # p => proc[q].org # g
  BY <1>2 DEF CreatesSound
<1>13. proc[p].pc = "owner"
  BY <1>1
<1> HIDE DEF r, g
<1>14. TypeOK'
  BY <1>3, <1>4, <1>6, <1>7, <1>9, <1>10 DEF TypeOK
<1>15. CreatesSound'
  BY <1>2, <1>3, <1>4, <1>5, <1>9, <1>10, <1>11, <1>12 DEF CreatesSound
<1>16. InvitesSound'
  BY <1>3, <1>10, <1>11 DEF InvitesSound
<1>17. AcceptsSound'
  BY <1>3, <1>9, <1>10, <1>11 DEF AcceptsSound
<1>18. RowsSound' /\ OneUserPerInvitation'
  BY <1>4, <1>9, <1>10 DEF RowsSound, OneUserPerInvitation
<1>19. MembersAreInvited'
  BY <1>4, <1>6, <1>7, <1>9, <1>10 DEF MembersAreInvited
<1>20. EventsAreTrue'
  BY <1>4, <1>9, <1>10 DEF EventsAreTrue
<1>21. AcceptedIffUsed'
  BY <1>3, <1>9, <1>10, <1>11, <1>13 DEF AcceptedIffUsed
<1>22. OwnerIsMember'
  <2>1. \A q \in Doing("create") :
           proc[q].pc = "owner" /\ q # p => q \in Doing("create")' /\ proc'[q] = proc[q]
    BY <1>3, <1>11
  <2>2. ASSUME NEW x \in DOMAIN orgs', x # g
        PROVE  \/ <<x, orgs'[x].owner>> \in DOMAIN members'
               \/ <<x, orgs'[x].owner>> \in left'
               \/ x \in half'
               \/ \E q \in Doing("create")' : proc'[q].org = x /\ proc'[q].pc = "owner"
    <3>1. \A q \in Doing("create") : proc[q].org = x => q # p
      BY <2>2 DEF g, r
    <3>2. QED
      BY <1>9, <1>10, <2>1, <2>2, <3>1 DEF OwnerIsMember
  <2>3. m = <<g, orgs[g].owner>>
    BY <1>4 DEF m
  <2>4. QED
    BY <1>9, <1>10, <2>2, <2>3 DEF OwnerIsMember
<1>23. QED
  BY <1>14, <1>15, <1>16, <1>17, <1>18, <1>19, <1>20, <1>21, <1>22

\* An invitation that was used and is open is in half, or its user is about to
\* mark it, and then there are two requests.
LEMMA FindByTokenStep ==
    ASSUME MembershipInv, NEW p \in Proc, NEW i \in Inv, NEW u \in User,
           FindByToken(p, i, u)
    PROVE  MembershipInv'
<1> USE DEF MembershipInv
<1> DEFINE r == [op |-> "accept", pc |-> "join", inv |-> i, row |-> invitations[i],
                 user |-> u, now |-> clock]
           shared == \E q \in Doing("accept") : proc[q].pc # "publish" /\ proc[q].inv = i
<1>1. /\ proc[p].pc = "idle" /\ i \in DOMAIN invitations /\ ~invitations[i].accepted
      /\ invitations[i].expiresAt >= clock /\ proc' = [proc EXCEPT ![p] = r]
      /\ half' = IF shared THEN half \cup {i} ELSE half
      /\ UNCHANGED <<orgs, members, invitations, published, clock, uses, left, crashes>>
  BY DEF FindByToken, tables
<1>2. invitations[i] \in Invitation /\ clock \in Time
  BY <1>1, OrgMembershipAssumption DEF TypeOK, Time
<1>3. /\ r \in AcceptRequest /\ r.op = "accept" /\ r.inv = i /\ r.pc = "join"
      /\ r.row = invitations[i] /\ r.now = clock /\ r.user = u
  BY <1>2 DEF AcceptRequest
<1> HIDE DEF r
<1>4. /\ proc' \in [Proc -> {NoRequest} \cup Request]
      /\ proc'[p] = r
      /\ \A q \in Proc : q # p => proc'[q] = proc[q]
      /\ Busy' = Busy \cup {p} /\ p \notin Busy
      /\ \A op : Doing(op)' = IF op = "accept" THEN Doing(op) \cup {p} ELSE Doing(op)
  <2>1. proc[p].pc = "idle" /\ proc' = [proc EXCEPT ![p] = r]
    BY <1>1
  <2>2. r \in CreateRequest \cup InviteRequest \cup AcceptRequest /\ r.op = "accept"
    BY <1>3
  <2>3. TypeOK
    OBVIOUS
  <2>4. /\ proc' \in [Proc -> {NoRequest} \cup Request]
        /\ proc'[p] = r
        /\ \A q \in Proc : q # p => proc'[q] = proc[q]
        /\ Busy' = Busy \cup {p} /\ p \notin Busy
        /\ \A op : Doing(op)' = IF op = r.op THEN Doing(op) \cup {p} ELSE Doing(op)
    BY ONLY <2>1, <2>2, <2>3, p \in Proc, StartFacts
  <2>5. QED
    BY <2>2, <2>4
<1>5. Busy \subseteq Proc /\ \A op : Doing(op) \subseteq Busy
  BY DEF Busy, Doing
<1>6. half \subseteq half' /\ half' \subseteq half \cup {i} /\ i \notin Org
  BY <1>1, OrgMembershipAssumption
<1>7. clock <= invitations[i].expiresAt
  BY <1>1, <1>2 DEF Invitation, Time
<1>8. shared => i \in half'
  BY <1>1
<1>9. uses[i] > 0 => i \in half'
  <2>1. ASSUME uses[i] > 0, i \notin half
        PROVE  shared
    <3>1. PICK q \in Busy : proc[q].pc = "mark" /\ proc[q].inv = i
      BY <1>1, <2>1 DEF AcceptedIffUsed
    <3>2. q \in Doing("accept")
      BY <3>1, RequestFacts DEF Busy
    <3>3. QED
      BY <3>1, <3>2
  <2>2. QED
    BY <1>6, <1>8, <2>1
<1>10. \A q \in Doing("accept") : proc[q].pc # "publish" /\ proc[q].inv = i => i \in half'
  BY <1>8
<1> HIDE DEF shared
<1>11. TypeOK'
  BY <1>1, <1>4, <1>6 DEF TypeOK
<1>12. CreatesSound'
  BY <1>1, <1>4, <1>5, <1>6, RequestFacts DEF CreatesSound, CreateRequest, Busy
<1>13. InvitesSound'
  BY <1>1, <1>4, <1>5 DEF InvitesSound
<1>14. AcceptsSound'
  BY <1>1, <1>3, <1>4, <1>5, <1>6, <1>7, <1>9, <1>10 DEF AcceptsSound
<1>15. RowsSound' /\ OneUserPerInvitation'
  BY <1>1, <1>6 DEF RowsSound, OneUserPerInvitation
<1>16. MembersAreInvited' /\ EventsAreTrue'
  BY <1>1, <1>6 DEF MembersAreInvited, EventsAreTrue
<1>17. AcceptedIffUsed'
  BY <1>1, <1>4, <1>5, <1>6 DEF AcceptedIffUsed
<1>18. OwnerIsMember'
  BY <1>1, <1>4, <1>5, <1>6 DEF OwnerIsMember
<1>19. QED
  BY <1>11, <1>12, <1>13, <1>14, <1>15, <1>16, <1>17, <1>18

\* Whoever joins joins with the role of the invitation, in time; if somebody had
\* joined with it before, it is in half.
LEMMA JoinStep ==
    ASSUME MembershipInv, NEW p \in Proc, NEW o \in Outcome, Join(p, o)
    PROVE  MembershipInv'
<1> USE DEF MembershipInv
<1> DEFINE r == proc[p]
           i == r.inv
           row == [role |-> r.row.role, joinedAt |-> r.now]
           m == <<r.row.org, r.user>>
<1>1. r.pc = "join" /\ (Proceed(p, o, "mark") \/ Finish(p))
  BY DEF Join
<1>2. p \in Doing("accept") /\ p \in Busy /\ r \in AcceptRequest
  BY <1>1, RequestFacts DEF Doing
<1>3. /\ proc' \in [Proc -> {NoRequest} \cup Request]
      /\ \A q \in Proc : q # p => proc'[q] = proc[q]
      /\ \A op : Doing(op)' = IF proc'[p] = NoRequest THEN Doing(op) \ {p} ELSE Doing(op)
      /\ Busy' = IF proc'[p] = NoRequest THEN Busy \ {p} ELSE Busy
      /\ \/ proc'[p] = NoRequest /\ (o # "ok" \/ Finish(p))
         \/ proc'[p] = [r EXCEPT !.pc = "mark"] /\ o = "ok"
  BY <1>1, <1>2, ProceedFacts DEF InviteRequest, CreateRequest, AcceptRequest
<1>4. /\ i \in Inv /\ i \notin Org /\ i \in DOMAIN invitations
      /\ invitations[i] \in Invitation
      /\ r.row.org = invitations[i].org /\ r.row.role = invitations[i].role
      /\ r.now <= invitations[i].expiresAt
      /\ r.row \in Invitation /\ r.user \in User /\ r.now \in Time
      /\ uses[i] > 0 => i \in half
  BY <1>1, <1>2, OrgMembershipAssumption DEF AcceptsSound, AcceptRequest, TypeOK
<1>5. /\ row \in Membership /\ row.role = invitations[i].role
      /\ row.joinedAt <= invitations[i].expiresAt
      /\ m \in Org \X User /\ m[1] = invitations[i].org
  BY <1>4 DEF Membership, Invitation
<1>6. proc'[p] # NoRequest =>
         /\ proc'[p].pc = "mark" /\ proc'[p].inv = i /\ proc'[p].op = "accept"
         /\ proc'[p].row = r.row /\ proc'[p].now = r.now /\ o = "ok"
  BY <1>2, <1>3 DEF AcceptRequest
<1>7. proc'[p] = NoRequest \/ ~Finish(p)
  <2>1. Finish(p) => proc'[p] = NoRequest
    BY DEF Finish, TypeOK
  <2>2. QED
    BY <2>1
<1> DEFINE joined == /\ members' = Insert(members, m, row)
                     /\ uses' = [uses EXCEPT ![i] = IF @ = 0 THEN 1 ELSE 2]
<1>8. \/ members' = members /\ uses' = uses /\ half' = half /\ proc'[p] = NoRequest
      \/ joined /\ half' = half /\ proc'[p] # NoRequest
      \/ joined /\ half' = half \cup {i} /\ proc'[p] = NoRequest
  <2>1. Proceed(p, o, "mark") => (proc'[p] # NoRequest <=> o = "ok")
    BY <1>2, <1>3 DEF Proceed, TypeOK, AcceptRequest, NoRequest
  <2>2. CASE m \in DOMAIN members
    BY <1>7, <2>2 DEF Join
  <2>3. CASE m \notin DOMAIN members
    BY <2>1, <2>3 DEF Join, Applied, Outcome
  <2>4. QED
    BY <2>2, <2>3
<1> HIDE DEF m, row
<1>9. /\ DOMAIN members \subseteq DOMAIN members'
      /\ DOMAIN members' \subseteq DOMAIN members \cup {m}
      /\ \A x \in DOMAIN members' : \/ x = m /\ members'[x] = row /\ uses'[i] > 0
                                    \/ x \in DOMAIN members /\ members'[x] = members[x]
      /\ half \subseteq half' /\ half' \subseteq half \cup {i}
  BY <1>4, <1>8 DEF Insert, TypeOK
<1>10. /\ uses' \in [Inv -> 0..2]
       /\ \A j \in Inv : j # i => uses'[j] = uses[j]
       /\ uses[i] > 0 => uses'[i] > 0
       /\ uses'[i] > 1 => i \in half'
       /\ uses'[i] > 0 => uses[i] > 0 \/ i \in half' \/ proc'[p] # NoRequest
       /\ proc'[p] # NoRequest => uses'[i] > 0
  BY <1>4, <1>8 DEF TypeOK, OneUserPerInvitation
<1> HIDE DEF joined
<1>11. UNCHANGED <<orgs, invitations, published, clock, left, crashes>>
  BY DEF Join
<1>12. Busy \subseteq Proc /\ (\A op : Doing(op) \subseteq Busy)
       /\ p \notin Doing("invite") /\ p \notin Doing("create")
  BY <1>2 DEF Busy, Doing
<1>13. \A q \in Doing("accept") : q # p /\ proc[q].pc # "publish" /\ proc[q].inv = i => i \in half
  BY <1>1, <1>2 DEF AcceptsSound
<1>14. proc[p].pc = "join"
  BY <1>1
<1>15. proc[p].inv = i /\ proc[p].row = r.row /\ proc[p].now = r.now
  OBVIOUS
<1> HIDE DEF r, i
<1>16. TypeOK'
  BY <1>3, <1>4, <1>5, <1>9, <1>10, <1>11 DEF TypeOK
<1>17. CreatesSound'
  BY <1>3, <1>4, <1>9, <1>11, <1>12, RequestFacts DEF CreatesSound, CreateRequest, Busy
<1>18. InvitesSound'
  BY <1>3, <1>11, <1>12 DEF InvitesSound
<1>19. AcceptsSound'
  <2> SUFFICES ASSUME NEW q \in Doing("accept")'
               PROVE  /\ proc'[q].inv \in DOMAIN invitations'
                      /\ proc'[q].row.org = invitations'[proc'[q].inv].org
                      /\ proc'[q].row.role = invitations'[proc'[q].inv].role
                      /\ proc'[q].now <= invitations'[proc'[q].inv].expiresAt
                      /\ proc'[q].pc = "join" /\ uses'[proc'[q].inv] > 0 => proc'[q].inv \in half'
                      /\ proc'[q].pc # "join" => uses'[proc'[q].inv] > 0
                      /\ proc'[q].pc = "publish" => invitations'[proc'[q].inv].accepted
                      /\ \A s \in Doing("accept")' :
                            /\ s # q
                            /\ proc'[q].pc # "publish" /\ proc'[s].pc # "publish"
                            /\ proc'[s].inv = proc'[q].inv
                            => proc'[q].inv \in half'
    BY DEF AcceptsSound
  <2>1. q \in Doing("accept") /\ q \in Proc /\ Doing("accept")' \subseteq Doing("accept")
    BY <1>3, <1>12
  <2>2. \A s \in Doing("accept")' : proc'[s].inv = proc[s].inv
                                  /\ (proc'[s].pc # "publish" => proc[s].pc # "publish")
    BY <1>3, <1>6, <1>12, <1>14, <1>15 DEF NoRequest, Busy
  <2>3. CASE q = p
    <3>1. proc'[p] # NoRequest
      BY <1>2, <1>3, <2>3
    <3>2. QED
      BY <1>2, <1>4, <1>6, <1>9, <1>10, <1>11, <1>13, <1>15, <2>1, <2>2, <2>3, <3>1
         DEF AcceptsSound
  <2>4. CASE q # p
    <3>1. proc'[q] = proc[q] /\ proc[q].inv \in Inv
      BY <1>3, <2>1, <2>4, RequestFacts DEF AcceptRequest
    <3>2. proc[q].inv = i /\ proc[q].pc = "join" => i \in half
      BY <1>13, <2>1, <2>4
    <3>3. QED
      BY <1>9, <1>10, <1>11, <2>1, <2>2, <2>4, <3>1, <3>2 DEF AcceptsSound
  <2>5. QED
    BY <2>3, <2>4
<1>20. RowsSound' /\ OneUserPerInvitation'
  BY <1>4, <1>9, <1>10, <1>11 DEF RowsSound, OneUserPerInvitation
<1>21. MembersAreInvited'
  <2> SUFFICES ASSUME NEW x \in DOMAIN members'
               PROVE  \/ /\ x[1] \in DOMAIN orgs'
                         /\ orgs'[x[1]].owner = x[2]
                         /\ members'[x].role = "owner"
                      \/ \E j \in DOMAIN invitations' :
                            /\ uses'[j] > 0
                            /\ invitations'[j].org = x[1]
                            /\ invitations'[j].role = members'[x].role
                            /\ members'[x].joinedAt <= invitations'[j].expiresAt
    BY DEF MembersAreInvited
  <2>1. CASE x = m /\ members'[x] = row /\ uses'[i] > 0
    BY <1>4, <1>5, <1>11, <2>1
  <2>2. CASE x \in DOMAIN members /\ members'[x] = members[x]
    <3>1. \A j \in DOMAIN invitations : uses[j] > 0 => uses'[j] > 0
      BY <1>10 DEF TypeOK
    <3>2. QED
      BY <1>11, <2>2, <3>1 DEF MembersAreInvited
  <2>3. QED
    BY <1>9, <2>1, <2>2
<1>22. EventsAreTrue'
  BY <1>4, <1>9, <1>11 DEF EventsAreTrue
<1>23. AcceptedIffUsed'
  <2>1. \A j \in DOMAIN invitations : j \in Inv
    BY DEF TypeOK
  <2>2. \A q \in Busy : proc[q].pc = "mark" => q \in Busy' /\ proc'[q] = proc[q]
    BY <1>3, <1>12, <1>14
  <2>3. proc'[p] # NoRequest => p \in Busy' /\ proc'[p].pc = "mark" /\ proc'[p].inv = i
    BY <1>2, <1>3, <1>6
  <2>4. QED
    BY <1>9, <1>10, <1>11, <2>1, <2>2, <2>3 DEF AcceptedIffUsed
<1>24. OwnerIsMember'
  BY <1>3, <1>9, <1>11, <1>12 DEF OwnerIsMember
<1>25. QED
  BY <1>16, <1>17, <1>18, <1>19, <1>20, <1>21, <1>22, <1>23, <1>24

\* The invitation is accepted, and was used, or it is in half.
LEMMA MarkAcceptedStep ==
    ASSUME MembershipInv, NEW p \in Proc, NEW o \in Outcome, MarkAccepted(p, o)
    PROVE  MembershipInv'
<1> USE DEF MembershipInv
<1> DEFINE r == proc[p]
           i == r.inv
<1>1. r.pc = "mark" /\ Proceed(p, o, "publish")
  BY DEF MarkAccepted
<1>2. p \in Doing("accept") /\ p \in Busy /\ r \in AcceptRequest
  BY <1>1, RequestFacts DEF Doing
<1>3. /\ proc' \in [Proc -> {NoRequest} \cup Request]
      /\ \A q \in Proc : q # p => proc'[q] = proc[q]
      /\ \A op : Doing(op)' = IF proc'[p] = NoRequest THEN Doing(op) \ {p} ELSE Doing(op)
      /\ Busy' = IF proc'[p] = NoRequest THEN Busy \ {p} ELSE Busy
      /\ \/ proc'[p] = NoRequest
         \/ proc'[p] = [r EXCEPT !.pc = "publish"] /\ o = "ok"
  BY <1>1, <1>2, ProceedFacts DEF InviteRequest, CreateRequest, AcceptRequest
<1>4. /\ i \in Inv /\ i \notin Org /\ i \in DOMAIN invitations /\ uses[i] > 0
      /\ invitations[i] \in Invitation
  BY <1>1, <1>2, OrgMembershipAssumption DEF AcceptsSound, AcceptRequest, TypeOK
<1>5. proc'[p] # NoRequest =>
         /\ proc'[p].pc = "publish" /\ proc'[p].inv = i /\ proc'[p].op = "accept"
         /\ proc'[p].row = r.row /\ proc'[p].now = r.now /\ o = "ok"
  BY <1>2, <1>3 DEF AcceptRequest
<1>6. \/ /\ invitations' = [invitations EXCEPT ![i].accepted = TRUE]
         /\ half' = half
      \/ /\ invitations' = invitations
         /\ half' = half \cup {i} /\ o # "ok"
  BY DEF MarkAccepted, Applied, Outcome
<1>7. /\ DOMAIN invitations' = DOMAIN invitations
      /\ half \subseteq half' /\ half' \subseteq half \cup {i}
      /\ \A j \in DOMAIN invitations : j # i => invitations'[j] = invitations[j]
      /\ invitations'[i] = [invitations[i] EXCEPT !.accepted = TRUE]
         \/ (invitations'[i] = invitations[i] /\ i \in half' /\ o # "ok")
  BY <1>4, <1>6
<1>8. /\ \A j \in DOMAIN invitations :
            /\ invitations'[j] \in Invitation
            /\ invitations'[j].org = invitations[j].org
            /\ invitations'[j].role = invitations[j].role
            /\ invitations'[j].expiresAt = invitations[j].expiresAt
            /\ invitations[j].accepted => invitations'[j].accepted
            /\ invitations'[j].accepted => j = i \/ invitations[j].accepted
      /\ i \in half' \/ invitations'[i].accepted
      /\ o = "ok" => invitations'[i].accepted
  <2>1. \A j \in DOMAIN invitations : invitations[j] \in Invitation
    BY DEF TypeOK
  <2>2. ASSUME NEW j \in DOMAIN invitations, j # i
        PROVE  invitations'[j] = invitations[j]
    BY <1>7, <2>2
  <2>3. \/ invitations'[i] = [invitations[i] EXCEPT !.accepted = TRUE]
        \/ invitations'[i] = invitations[i] /\ i \in half' /\ o # "ok"
    BY <1>7
  <2>4. invitations[i] \in Invitation
    BY <1>4, <2>1
  <2>5. /\ invitations'[i] \in Invitation
        /\ invitations'[i].org = invitations[i].org
        /\ invitations'[i].role = invitations[i].role
        /\ invitations'[i].expiresAt = invitations[i].expiresAt
        /\ invitations[i].accepted => invitations'[i].accepted
        /\ i \in half' \/ invitations'[i].accepted
        /\ o = "ok" => invitations'[i].accepted
    BY <2>3, <2>4 DEF Invitation
  <2>6. QED
    BY <2>1, <2>2, <2>5
<1>9. UNCHANGED <<orgs, members, published, clock, uses, left, crashes>>
  BY DEF MarkAccepted
<1>10. Busy \subseteq Proc /\ (\A op : Doing(op) \subseteq Busy)
       /\ p \notin Doing("invite") /\ p \notin Doing("create")
  BY <1>2 DEF Busy, Doing
<1>11. proc[p].pc = "mark" /\ proc[p].inv = i /\ proc[p].row = r.row /\ proc[p].now = r.now
  BY <1>1
<1> HIDE DEF r, i
<1>12. TypeOK'
  BY <1>3, <1>4, <1>7, <1>8, <1>9 DEF TypeOK
<1>13. CreatesSound'
  BY <1>3, <1>4, <1>7, <1>9, <1>10, RequestFacts DEF CreatesSound, CreateRequest, Busy
<1>14. InvitesSound'
  BY <1>3, <1>7, <1>9, <1>10 DEF InvitesSound
<1>15. AcceptsSound'
  <2> SUFFICES ASSUME NEW q \in Doing("accept")'
               PROVE  /\ proc'[q].inv \in DOMAIN invitations'
                      /\ proc'[q].row.org = invitations'[proc'[q].inv].org
                      /\ proc'[q].row.role = invitations'[proc'[q].inv].role
                      /\ proc'[q].now <= invitations'[proc'[q].inv].expiresAt
                      /\ proc'[q].pc = "join" /\ uses'[proc'[q].inv] > 0 => proc'[q].inv \in half'
                      /\ proc'[q].pc # "join" => uses'[proc'[q].inv] > 0
                      /\ proc'[q].pc = "publish" => invitations'[proc'[q].inv].accepted
                      /\ \A s \in Doing("accept")' :
                            /\ s # q
                            /\ proc'[q].pc # "publish" /\ proc'[s].pc # "publish"
                            /\ proc'[s].inv = proc'[q].inv
                            => proc'[q].inv \in half'
    BY DEF AcceptsSound
  <2>1. q \in Doing("accept") /\ q \in Proc /\ Doing("accept")' \subseteq Doing("accept")
    BY <1>3, <1>10
  <2>2. \A s \in Doing("accept")' : proc'[s].inv = proc[s].inv
                                  /\ (proc'[s].pc # "publish" => proc[s].pc # "publish")
    BY <1>3, <1>5, <1>10, <1>11 DEF NoRequest, Busy
  <2>3. CASE q = p
    <3>1. proc'[p] # NoRequest
      BY <1>2, <1>3, <2>3
    <3>2. QED
      BY <1>2, <1>4, <1>5, <1>7, <1>8, <1>9, <1>11, <2>1, <2>3, <3>1 DEF AcceptsSound
  <2>4. CASE q # p
    <3>1. proc'[q] = proc[q]
      BY <1>3, <2>1, <2>4
    <3>2. QED
      BY <1>7, <1>8, <1>9, <2>1, <2>2, <2>4, <3>1 DEF AcceptsSound
  <2>5. QED
    BY <2>3, <2>4
<1>16. RowsSound' /\ OneUserPerInvitation'
  BY <1>4, <1>7, <1>9 DEF RowsSound, OneUserPerInvitation
<1>17. MembersAreInvited'
  BY <1>7, <1>8, <1>9 DEF MembersAreInvited
<1>18. EventsAreTrue'
  BY <1>4, <1>7, <1>8, <1>9 DEF EventsAreTrue
<1>19. AcceptedIffUsed'
  <2>1. \A q \in Busy : q # p => q \in Busy' /\ proc'[q] = proc[q]
    BY <1>3, <1>10
  <2>2. \A j \in DOMAIN invitations : j # i /\ proc[p].inv = j => FALSE
    BY <1>11
  <2>3. QED
    BY <1>4, <1>7, <1>8, <1>9, <2>1, <2>2 DEF AcceptedIffUsed
<1>20. OwnerIsMember'
  BY <1>3, <1>7, <1>9, <1>10 DEF OwnerIsMember
<1>21. QED
  BY <1>12, <1>13, <1>14, <1>15, <1>16, <1>17, <1>18, <1>19, <1>20

\* What is announced is the request's own organization, invitation or member.
LEMMA PublishStep ==
    ASSUME MembershipInv, NEW p \in Proc, NEW o \in Outcome, Publish(p, o)
    PROVE  MembershipInv'
<1> USE DEF MembershipInv
<1>1. proc[p].pc = "publish" /\ Finish(p) /\ p \in Busy
  BY DEF Publish, Busy
<1>2. published' = published \/ published' = published \cup {EventOf(proc[p])}
  BY DEF Publish
<1>3. UNCHANGED <<orgs, members, invitations, clock, uses, left, half, crashes>>
  BY DEF Publish, tables
<1>4. /\ proc' \in [Proc -> {NoRequest} \cup Request]
      /\ \A q \in Proc : q # p => proc'[q] = proc[q]
      /\ proc'[p] = NoRequest
  BY <1>1 DEF Finish, TypeOK
<1>5. Busy' = Busy \ {p} /\ (\A op : Doing(op)' = Doing(op) \ {p})
  BY <1>4 DEF Busy, Doing, NoRequest
<1>6. Busy \subseteq Proc /\ (\A op : Doing(op) \subseteq Busy)
  BY DEF Busy, Doing
<1>7. /\ published' \subseteq ({"org.created"} \X Org) \cup ({"org.member.invited"} \X Inv)
                              \cup ({"org.member.joined"} \X Org \X User)
      /\ \A g \in Org : <<"org.created", g>> \in published' =>
            \/ <<"org.created", g>> \in published
            \/ g \in DOMAIN orgs \ half /\ p \in Doing("create") /\ proc[p].org = g
      /\ \A i \in Inv : <<"org.member.invited", i>> \in published' =>
            <<"org.member.invited", i>> \in published \/ i \in DOMAIN invitations
      /\ \A g \in Org, u \in User : <<"org.member.joined", g, u>> \in published' =>
            \/ <<"org.member.joined", g, u>> \in published
            \/ \E i \in DOMAIN invitations : invitations[i].org = g /\ invitations[i].accepted
  <2>1. CASE p \in Doing("create")
    <3>1. EventOf(proc[p]) = <<"org.created", proc[p].org>>
      BY <2>1 DEF EventOf, Doing
    <3>2. proc[p].org \in Org /\ proc[p].org \in DOMAIN orgs \ half
      BY <1>1, <2>1, RequestFacts DEF CreatesSound, CreateRequest
    <3>3. QED
      BY <1>2, <2>1, <3>1, <3>2 DEF TypeOK
  <2>2. CASE p \in Doing("invite")
    <3>1. EventOf(proc[p]) = <<"org.member.invited", proc[p].inv>>
      BY <2>2 DEF EventOf, Doing
    <3>2. proc[p].inv \in Inv /\ proc[p].inv \in DOMAIN invitations
      BY <1>1, <2>2, RequestFacts DEF InvitesSound, InviteRequest
    <3>3. QED
      BY <1>2, <3>1, <3>2 DEF TypeOK
  <2>3. CASE p \in Doing("accept")
    <3>1. EventOf(proc[p]) = <<"org.member.joined", proc[p].row.org, proc[p].user>>
      BY <2>3 DEF EventOf, Doing
    <3>2. /\ proc[p].row.org \in Org /\ proc[p].user \in User
          /\ proc[p].inv \in DOMAIN invitations
          /\ invitations[proc[p].inv].org = proc[p].row.org
          /\ invitations[proc[p].inv].accepted
      BY <1>1, <2>3, RequestFacts DEF AcceptsSound, AcceptRequest, Invitation
    <3>3. QED
      BY <1>2, <3>1, <3>2 DEF TypeOK
  <2>4. QED
    BY <1>1, <2>1, <2>2, <2>3, RequestFacts
       DEF Doing, CreateRequest, InviteRequest, AcceptRequest
<1>8. TypeOK'
  BY <1>3, <1>4, <1>7 DEF TypeOK
<1>9. CreatesSound'
  <2>1. ASSUME NEW q \in Doing("create"), q # p
        PROVE  proc[q].org \in Org /\ (p \in Doing("create") => proc[p].org # proc[q].org)
    BY <1>6, <2>1, RequestFacts DEF CreatesSound, CreateRequest, Busy
  <2>2. QED
    BY <1>3, <1>4, <1>5, <1>6, <1>7, <2>1 DEF CreatesSound
<1>10. InvitesSound'
  BY <1>3, <1>4, <1>5, <1>6 DEF InvitesSound
<1>11. AcceptsSound'
  BY <1>3, <1>4, <1>5, <1>6 DEF AcceptsSound
<1>12. RowsSound' /\ MembersAreInvited' /\ OneUserPerInvitation'
  BY <1>3 DEF RowsSound, MembersAreInvited, OneUserPerInvitation
<1>13. AcceptedIffUsed'
  BY <1>1, <1>3, <1>4, <1>5, <1>6 DEF AcceptedIffUsed
<1>14. OwnerIsMember'
  BY <1>1, <1>3, <1>4, <1>5, <1>6 DEF OwnerIsMember
<1>15. EventsAreTrue'
  <2>1. \A m \in Org \X User : m[1] \in Org /\ m[2] \in User
    OBVIOUS
  <2>2. QED
    BY <1>3, <1>7, <2>1 DEF EventsAreTrue
<1>16. QED
  BY <1>8, <1>9, <1>10, <1>11, <1>12, <1>13, <1>14, <1>15

\* Who leaves has left.
LEMMA RemoveMemberStep ==
    ASSUME MembershipInv, NEW o \in Org, NEW u \in User, RemoveMember(o, u)
    PROVE  MembershipInv'
<1> USE DEF MembershipInv
<1>1. UNCHANGED <<orgs, invitations, published, clock, proc, uses, half, crashes>>
  BY DEF RemoveMember
<1>2. Doing("create")' = Doing("create") /\ Busy' = Busy /\ Doing("invite")' = Doing("invite")
      /\ Doing("accept")' = Doing("accept")
  BY <1>1 DEF Doing, Busy
<1>3. /\ DOMAIN members' = DOMAIN members \ {<<o, u>>}
      /\ \A m \in DOMAIN members' : members'[m] = members[m]
      /\ left' = left \cup ({<<o, u>>} \cap DOMAIN members)
  BY DEF RemoveMember
<1>4. TypeOK'
  BY <1>1, <1>3 DEF TypeOK
<1>5. CreatesSound' /\ InvitesSound' /\ AcceptsSound'
  BY <1>1, <1>2 DEF CreatesSound, InvitesSound, AcceptsSound
<1>6. RowsSound' /\ OneUserPerInvitation' /\ EventsAreTrue'
  BY <1>1 DEF RowsSound, OneUserPerInvitation, EventsAreTrue
<1>7. MembersAreInvited'
  BY <1>1, <1>3 DEF MembersAreInvited
<1>8. AcceptedIffUsed'
  BY <1>1, <1>2 DEF AcceptedIffUsed
<1>9. OwnerIsMember'
  BY <1>1, <1>2, <1>3 DEF OwnerIsMember
<1>10. QED
  BY <1>4, <1>5, <1>6, <1>7, <1>8, <1>9

\* No part is about the present time.
LEMMA TickStep ==
    ASSUME MembershipInv, Tick
    PROVE  MembershipInv'
<1> USE DEF MembershipInv
<1>1. /\ clock' = clock + 1 /\ clock < MaxTime
      /\ UNCHANGED <<orgs, members, invitations, published, proc, uses, left, half, crashes>>
  BY DEF Tick, tables
<1>2. TypeOK'
  BY <1>1, OrgMembershipAssumption DEF TypeOK
<1>3. CreatesSound' /\ InvitesSound' /\ AcceptsSound'
  BY <1>1 DEF CreatesSound, InvitesSound, AcceptsSound, Doing, Busy
<1>4. RowsSound' /\ OneUserPerInvitation' /\ EventsAreTrue' /\ MembersAreInvited'
  BY <1>1 DEF RowsSound, OneUserPerInvitation, EventsAreTrue, MembersAreInvited
<1>5. AcceptedIffUsed' /\ OwnerIsMember'
  BY <1>1 DEF AcceptedIffUsed, OwnerIsMember, Doing, Busy
<1>6. QED
  BY <1>2, <1>3, <1>4, <1>5

\* What was between its two writes is in half.
LEMMA CrashStep ==
    ASSUME MembershipInv, Crash
    PROVE  MembershipInv'
<1> USE DEF MembershipInv
<1>1. /\ crashes < MaxCrashes /\ crashes' = crashes + 1
      /\ half' = half \cup UNION {HalfDone(proc[p]) : p \in Busy}
      /\ proc' = [p \in Proc |-> NoRequest]
      /\ UNCHANGED <<orgs, members, invitations, published, clock, uses, left>>
  BY DEF Crash, tables
<1>2. Busy' = {} /\ \A op : Doing(op)' = {}
  BY <1>1 DEF Busy, Doing, NoRequest
<1>3. \A p \in Busy : HalfDone(proc[p]) = IF proc[p].pc = "owner" THEN {proc[p].org}
                                         ELSE IF proc[p].pc = "mark" THEN {proc[p].inv} ELSE {}
  BY DEF HalfDone
<1>4. \A x : x \in half' <=> \/ x \in half
                             \/ \E p \in Busy : proc[p].pc = "owner" /\ x = proc[p].org
                             \/ \E p \in Busy : proc[p].pc = "mark" /\ x = proc[p].inv
  BY <1>1, <1>3
<1>5. \A p \in Busy :
         /\ proc[p].pc = "owner" => p \in Doing("create") /\ proc[p].org \in Org
         /\ proc[p].pc = "mark" => proc[p].inv \in Inv
  BY RequestFacts DEF CreateRequest, AcceptRequest, Busy
<1> HIDE DEF HalfDone
<1>6. half' \subseteq Org \cup Inv
  BY <1>4, <1>5 DEF TypeOK
<1>7. TypeOK'
  BY <1>1, <1>6, OrgMembershipAssumption DEF TypeOK
<1>8. CreatesSound' /\ InvitesSound' /\ AcceptsSound'
  BY <1>2 DEF CreatesSound, InvitesSound, AcceptsSound
<1>9. RowsSound'
  <2>1. \A p \in Doing("create") : proc[p].pc = "owner" => proc[p].org \in DOMAIN orgs
    BY DEF CreatesSound
  <2>2. QED
    BY <1>1, <1>4, <1>5, <2>1, OrgMembershipAssumption DEF RowsSound
<1>10. OneUserPerInvitation' /\ MembersAreInvited'
  BY <1>1, <1>4 DEF OneUserPerInvitation, MembersAreInvited
<1>11. AcceptedIffUsed'
  BY <1>1, <1>4 DEF AcceptedIffUsed
<1>12. OwnerIsMember'
  BY <1>1, <1>4, <1>5 DEF OwnerIsMember, Doing
<1>13. EventsAreTrue'
  <2>1. \A p \in Doing("create") :
           proc[p].pc = "owner" => <<"org.created", proc[p].org>> \notin published
    BY DEF CreatesSound
  <2>2. QED
    BY <1>1, <1>4, <1>5, <2>1, OrgMembershipAssumption DEF EventsAreTrue
<1>14. QED
  BY <1>7, <1>8, <1>9, <1>10, <1>11, <1>12, <1>13

\* Every step preserves the invariant.
LEMMA InvStep == MembershipInv /\ [Next]_vars => MembershipInv'
<1> SUFFICES ASSUME MembershipInv, [Next]_vars
             PROVE  MembershipInv'
  OBVIOUS
<1>1. CASE \E p \in Proc : Start(p)
  <2>1. PICK p \in Proc : Start(p)
    BY <1>1
  <2>2. CASE \E o \in Org, row \in OrgRow : StartCreate(p, o, row)
    BY <2>2, StartCreateStep
  <2>3. CASE \E i \in Inv, o \in Org, r \in Role : StartInvite(p, i, o, r)
    BY <2>3, StartInviteStep
  <2>4. CASE \E i \in Inv, u \in User : FindByToken(p, i, u)
    BY <2>4, FindByTokenStep
  <2>5. QED
    BY <2>1, <2>2, <2>3, <2>4, OrgMembershipAssumption DEF Start
<1>2. CASE \E p \in Proc, o \in Outcome : Call(p, o)
  BY <1>2, InsertOrgStep, AddOwnerStep, InsertInvitationStep, JoinStep, MarkAcceptedStep,
     PublishStep DEF Call
<1>3. CASE \E o \in Org, u \in User : RemoveMember(o, u)
  BY <1>3, RemoveMemberStep
<1>4. CASE Tick \/ Crash
  BY <1>4, TickStep, CrashStep
<1>5. CASE UNCHANGED vars
  <2>1. UNCHANGED <<orgs, members, invitations, published, clock, proc, uses, left, half, crashes>>
    BY <1>5 DEF vars
  <2>2. Busy' = Busy /\ \A op : Doing(op)' = Doing(op)
    BY <2>1 DEF Busy, Doing
  <2>3. TypeOK' /\ CreatesSound' /\ InvitesSound' /\ AcceptsSound' /\ RowsSound'
    BY <2>1, <2>2 DEF MembershipInv, TypeOK, CreatesSound, InvitesSound, AcceptsSound, RowsSound
  <2>4. /\ MembersAreInvited' /\ OneUserPerInvitation' /\ AcceptedIffUsed' /\ OwnerIsMember'
        /\ EventsAreTrue'
    BY <2>1, <2>2 DEF MembershipInv, MembersAreInvited, OneUserPerInvitation, AcceptedIffUsed,
                      OwnerIsMember, EventsAreTrue
  <2>5. QED
    BY <2>3, <2>4 DEF MembershipInv
<1>6. QED
  BY <1>1, <1>2, <1>3, <1>4, <1>5 DEF Next

\* The invariant holds throughout (OrgService, MemberService).
THEOREM InvariantHolds == Spec => []MembershipInv
BY InitInv, InvStep, PTL DEF Spec

\* Every row, request and event is of its kind (the three tables).
THEOREM TypeCorrect == Spec => []TypeOK
BY InvariantHolds, PTL DEF MembershipInv

\* Nobody becomes a member of an organization but its owner and those an
\* invitation let in, in time and with its role (CreateOrg, AcceptInvitation).
THEOREM MembersInvited == Spec => []MembersAreInvited
BY InvariantHolds, PTL DEF MembershipInv

\* A second user gets in with an invitation only after AcceptInvitation was cut
\* short between its writes, or beside another that held the invitation too.
THEOREM InvitationsAreForOne == Spec => []OneUserPerInvitation
BY InvariantHolds, PTL DEF MembershipInv

\* An invitation is accepted exactly when it was used, with the same excuse and
\* but for the moment between the two writes (MarkAccepted).
THEOREM AcceptedIsUsed == Spec => []AcceptedIffUsed
BY InvariantHolds, PTL DEF MembershipInv

\* An organization keeps its owner among its members until the owner leaves,
\* unless creating it failed half way (CreateOrg).
THEOREM OwnersAreMembers == Spec => []OwnerIsMember
BY InvariantHolds, PTL DEF MembershipInv

\* The events of the two services say nothing that is not in the tables
\* (their Publish calls come last).
THEOREM EventsTrue == Spec => []EventsAreTrue
BY InvariantHolds, PTL DEF MembershipInv

(***************************************************************************)
(* The id of an organization is nobody's before the request that makes it  *)
(* has answered: no invitation is to it, and before its owner nobody is in.*)
(***************************************************************************)
FreshIsUnknown ==
    \A p \in Doing("create") :
        /\ \A i \in DOMAIN invitations : invitations[i].org # proc[p].org
        /\ \A q \in Doing("invite") : proc[q].row.org # proc[p].org
        /\ proc[p].pc # "publish" => \A m \in DOMAIN members : m[1] # proc[p].org

\* Nothing about an organization being made changes but by its own request.
LEMMA FreshStays ==
    ASSUME MembershipInv, FreshIsUnknown,
           \A q \in Doing("create")' :
              /\ q \in Doing("create") /\ proc'[q].org = proc[q].org
              /\ proc'[q].pc # "publish" => proc[q].pc # "publish"
              /\ proc'[q].pc # "publish" =>
                    \A m \in DOMAIN members' \ DOMAIN members : m[1] # proc[q].org,
           \A i \in DOMAIN invitations' :
              \/ i \in DOMAIN invitations /\ invitations'[i].org = invitations[i].org
              \/ \E q \in Doing("invite") : invitations'[i].org = proc[q].row.org,
           \A q \in Doing("invite")' :
              q \in Doing("invite") /\ proc'[q].row.org = proc[q].row.org
    PROVE  FreshIsUnknown'
<1> SUFFICES ASSUME NEW q \in Doing("create")'
             PROVE  /\ \A i \in DOMAIN invitations' : invitations'[i].org # proc'[q].org
                    /\ \A s \in Doing("invite")' : proc'[s].row.org # proc'[q].org
                    /\ proc'[q].pc # "publish" =>
                          \A m \in DOMAIN members' : m[1] # proc'[q].org
  BY DEF FreshIsUnknown
<1>1. q \in Doing("create") /\ proc'[q].org = proc[q].org
  OBVIOUS
<1> QED
  BY <1>1 DEF FreshIsUnknown

\* Whoever starts draws a fresh id, or asks for one that was answered.
LEMMA FreshStart ==
    ASSUME MembershipInv, FreshIsUnknown, NEW p \in Proc, Start(p)
    PROVE  FreshIsUnknown'
<1> USE DEF MembershipInv
<1>1. UNCHANGED <<orgs, members, invitations>>
  BY DEF Start, StartCreate, StartInvite, FindByToken, tables
<1>2. Doing("create") \subseteq Proc /\ Doing("invite") \subseteq Proc
  BY DEF Doing, Busy
<1> p \notin Doing("create") /\ p \notin Doing("invite")
  <2>1. proc[p].pc = "idle"
    BY DEF Start, StartCreate, StartInvite, FindByToken
  <2> QED
    BY <2>1 DEF Doing, Busy
<1>3. ASSUME NEW o \in Org, NEW row \in OrgRow, StartCreate(p, o, row)
      PROVE  FreshIsUnknown'
  <2> DEFINE r == [op |-> "create", pc |-> "org", org |-> o, row |-> row]
  <2>1. r \in CreateRequest /\ r.op = "create" /\ r.org = o
    BY DEF CreateRequest
  <2> HIDE DEF r
  <2>2. proc[p].pc = "idle" /\ NewOrg(o) /\ proc' = [proc EXCEPT ![p] = r]
    BY <1>3 DEF StartCreate, r
  <2>3. /\ proc'[p] = r
        /\ \A q \in Proc : q # p => proc'[q] = proc[q]
        /\ Doing("create")' = Doing("create") \cup {p} /\ Doing("invite")' = Doing("invite")
    BY <2>1, <2>2, StartFacts
  <2>4. \A m \in DOMAIN members : m[1] # o
    <3>1. \A i \in DOMAIN invitations : invitations[i].org # o
      BY <2>2 DEF NewOrg
    <3> QED
      BY <2>2, <3>1 DEF NewOrg, MembersAreInvited
  <2> SUFFICES ASSUME NEW q \in Doing("create")'
               PROVE  /\ \A j \in DOMAIN invitations : invitations[j].org # proc'[q].org
                      /\ \A s \in Doing("invite")' : proc'[s].row.org # proc'[q].org
                      /\ proc'[q].pc # "publish" =>
                            \A m \in DOMAIN members : m[1] # proc'[q].org
    BY <1>1 DEF FreshIsUnknown
  <2>5. CASE q = p
    BY <1>2, <2>1, <2>2, <2>3, <2>4, <2>5 DEF NewOrg
  <2>6. CASE q # p
    <3>1. q \in Doing("create") /\ proc'[q] = proc[q]
      BY <1>2, <2>3, <2>6
    <3>2. \A s \in Doing("invite")' : s \in Doing("invite") /\ proc'[s] = proc[s]
      BY <1>2, <2>3
    <3> QED
      BY <3>1, <3>2 DEF FreshIsUnknown
  <2> QED
    BY <2>5, <2>6
<1>4. ASSUME NEW i \in Inv, NEW o \in Org, NEW role \in Role, StartInvite(p, i, o, role)
      PROVE  FreshIsUnknown'
  <2> DEFINE row == [org |-> o, role |-> role, expiresAt |-> clock + TTL, accepted |-> FALSE]
             r == [op |-> "invite", pc |-> "db", inv |-> i, row |-> row]
  <2>1. clock + TTL \in Time
    BY OrgMembershipAssumption DEF TypeOK, Time
  <2>2. row \in Invitation /\ row.org = o
    BY <2>1 DEF Invitation
  <2> HIDE DEF row
  <2>3. r \in InviteRequest /\ r.op = "invite" /\ r.row.org = o
    BY <2>2 DEF InviteRequest
  <2> HIDE DEF r
  <2>4. /\ proc[p].pc = "idle" /\ proc' = [proc EXCEPT ![p] = r]
        /\ \A q \in Doing("create") : proc[q].org # o
    BY <1>4 DEF StartInvite, r, row
  <2>5. /\ proc'[p] = r
        /\ \A q \in Proc : q # p => proc'[q] = proc[q]
        /\ Doing("create")' = Doing("create") /\ Doing("invite")' = Doing("invite") \cup {p}
    <3>1. /\ proc'[p] = r
          /\ \A q \in Proc : q # p => proc'[q] = proc[q]
          /\ \A op : Doing(op)' = IF op = r.op THEN Doing(op) \cup {p} ELSE Doing(op)
      BY <2>3, <2>4, StartFacts, Zenon DEF MembershipInv
    <3> QED
      BY <2>3, <3>1
  <2> SUFFICES ASSUME NEW q \in Doing("create")'
               PROVE  /\ \A j \in DOMAIN invitations : invitations[j].org # proc'[q].org
                      /\ \A s \in Doing("invite")' : proc'[s].row.org # proc'[q].org
                      /\ proc'[q].pc # "publish" =>
                            \A m \in DOMAIN members : m[1] # proc'[q].org
    BY <1>1 DEF FreshIsUnknown
  <2>6. q \in Doing("create") /\ proc'[q] = proc[q]
    BY <1>2, <2>5
  <2>7. \A s \in Doing("invite")' : proc'[s].row.org # proc[q].org
    <3>1. ASSUME NEW s \in Doing("invite")', s # p
          PROVE  s \in Doing("invite") /\ proc'[s] = proc[s]
      BY <1>2, <2>5, <3>1
    <3>2. proc'[p].row.org # proc[q].org
      BY <2>3, <2>4, <2>5, <2>6
    <3> QED
      BY <2>6, <3>1, <3>2 DEF FreshIsUnknown
  <2> QED
    BY <2>6, <2>7 DEF FreshIsUnknown
<1>5. ASSUME NEW i \in Inv, NEW u \in User, FindByToken(p, i, u)
      PROVE  FreshIsUnknown'
  <2> DEFINE r == [op |-> "accept", pc |-> "join", inv |-> i,
                   row |-> invitations[i], user |-> u, now |-> clock]
  <2>1. invitations[i] \in Invitation /\ clock \in Time
    BY <1>5, OrgMembershipAssumption DEF FindByToken, TypeOK, Time
  <2>2. r \in AcceptRequest /\ r.op = "accept"
    BY <2>1 DEF AcceptRequest
  <2> HIDE DEF r
  <2>3. proc[p].pc = "idle" /\ proc' = [proc EXCEPT ![p] = r]
    BY <1>5 DEF FindByToken, r
  <2>4. /\ \A q \in Proc : q # p => proc'[q] = proc[q]
        /\ Doing("create")' = Doing("create") /\ Doing("invite")' = Doing("invite")
    BY <2>2, <2>3, StartFacts
  <2> SUFFICES ASSUME NEW q \in Doing("create")'
               PROVE  /\ \A j \in DOMAIN invitations : invitations[j].org # proc'[q].org
                      /\ \A s \in Doing("invite")' : proc'[s].row.org # proc'[q].org
                      /\ proc'[q].pc # "publish" =>
                            \A m \in DOMAIN members : m[1] # proc'[q].org
    BY <1>1 DEF FreshIsUnknown
  <2>5. q \in Doing("create") /\ proc'[q] = proc[q]
    BY <1>2, <2>4
  <2>6. \A s \in Doing("invite")' : s \in Doing("invite") /\ proc'[s] = proc[s]
    BY <1>2, <2>4
  <2> QED
    BY <2>5, <2>6 DEF FreshIsUnknown
<1> QED
  BY <1>3, <1>4, <1>5, OrgMembershipAssumption DEF Start

\* No call of one request touches the organization another one makes.
LEMMA FreshCall ==
    ASSUME MembershipInv, FreshIsUnknown, NEW p \in Proc, NEW o \in Outcome, Call(p, o)
    PROVE  FreshIsUnknown'
<1> USE DEF MembershipInv
<1>1. /\ p \in Busy
      /\ proc[p] \in CreateRequest \cup InviteRequest \cup AcceptRequest
  <2>1. proc[p].pc # "idle"
    BY DEF Call, InsertOrg, AddOwner, InsertInvitation, Join, MarkAccepted, Publish
  <2> QED
    BY <2>1, RequestFacts
<1>2. PICK pc \in {"owner", "mark", "publish"} :
         /\ proc[p] \in CreateRequest => pc \in {"owner", "publish"}
         /\ proc[p] \in InviteRequest => pc = "publish"
         /\ proc[p] \in AcceptRequest => pc \in {"mark", "publish"}
         /\ proc[p].pc = "owner" => pc = "publish"
         /\ Proceed(p, o, pc) \/ Finish(p)
  BY <1>1 DEF Call, InsertOrg, AddOwner, InsertInvitation, Join, MarkAccepted, Publish,
              CreateRequest, InviteRequest, AcceptRequest
<1>3. /\ \A q \in Proc : q # p => proc'[q] = proc[q]
      /\ \A op : Doing(op)' = IF proc'[p] = NoRequest THEN Doing(op) \ {p} ELSE Doing(op)
      /\ proc'[p] = NoRequest \/ proc'[p] = [proc[p] EXCEPT !.pc = pc]
  BY <1>1, <1>2, ProceedFacts
<1>4. Doing("create") \subseteq Proc /\ Doing("invite") \subseteq Proc
  BY DEF Doing, Busy
<1>5. ASSUME NEW q \in Doing("create")'
      PROVE  /\ q \in Doing("create") /\ proc'[q].org = proc[q].org
             /\ proc'[q].pc # "publish" => proc[q].pc # "publish"
             /\ q # p \/ proc[p].pc # "owner" \/ proc'[q].pc = "publish"
  <2>1. q \in Doing("create")
    BY <1>3
  <2>2. CASE q # p
    BY <1>3, <1>4, <2>1, <2>2
  <2>3. CASE q = p
    <3>1. proc[p] \in CreateRequest
      BY <1>1, <2>1, <2>3, RequestFacts
    <3>2. proc'[p] = [proc[p] EXCEPT !.pc = pc]
      BY <1>3, <2>1, <2>3
    <3>3. proc'[p].org = proc[p].org /\ proc'[p].pc = pc
      BY <3>1, <3>2 DEF CreateRequest
    <3>4. proc[p].pc = "publish" => Finish(p)
      BY <3>1 DEF Call, InsertOrg, AddOwner, InsertInvitation, Join, MarkAccepted, Publish
    <3>5. Finish(p) => proc'[p] = NoRequest
      BY DEF Finish, TypeOK
    <3>6. proc[p].pc # "publish"
      BY <1>3, <2>3, <3>4, <3>5
    <3> QED
      BY <1>2, <2>1, <2>3, <3>3, <3>6
  <2> QED
    BY <2>2, <2>3
<1>6. ASSUME NEW q \in Doing("invite")'
      PROVE  q \in Doing("invite") /\ proc'[q].row.org = proc[q].row.org
  <2>1. q \in Doing("invite")
    BY <1>3
  <2>2. CASE q # p
    BY <1>3, <1>4, <2>1, <2>2
  <2>3. CASE q = p
    <3>1. proc[p] \in InviteRequest
      BY <2>1, <2>3, RequestFacts
    <3>2. proc'[p] = [proc[p] EXCEPT !.pc = pc]
      BY <1>3, <2>1, <2>3
    <3>3. proc'[p].row = proc[p].row
      BY <3>1, <3>2 DEF InviteRequest
    <3> QED
      BY <2>1, <2>3, <3>3
  <2> QED
    BY <2>2, <2>3
<1>7. ASSUME NEW i \in DOMAIN invitations'
      PROVE  \/ i \in DOMAIN invitations /\ invitations'[i].org = invitations[i].org
             \/ \E q \in Doing("invite") : invitations'[i].org = proc[q].row.org
  <2>1. CASE InsertInvitation(p, o)
    <3>1. p \in Doing("invite")
      BY <2>1, RequestFacts DEF InsertInvitation
    <3> QED
      BY <2>1, <3>1 DEF InsertInvitation, Insert
  <2>2. CASE MarkAccepted(p, o)
    <3>1. /\ DOMAIN invitations' = DOMAIN invitations
          /\ \/ invitations' = invitations
             \/ invitations' = [invitations EXCEPT ![proc[p].inv].accepted = TRUE]
      BY <2>2 DEF MarkAccepted
    <3>2. invitations[i] \in Invitation
      BY <3>1 DEF TypeOK
    <3>3. \/ invitations'[i] = invitations[i]
          \/ invitations'[i] = [invitations[i] EXCEPT !.accepted = TRUE]
      BY <3>1
    <3>4. invitations'[i].org = invitations[i].org
      BY <3>2, <3>3 DEF Invitation
    <3> QED
      BY <3>1, <3>4
  <2>3. CASE invitations' = invitations
    BY <2>3
  <2> QED
    BY <2>1, <2>2, <2>3 DEF Call, InsertOrg, AddOwner, Join, Publish, tables
<1>8. ASSUME NEW q \in Doing("create")', proc'[q].pc # "publish",
             NEW m \in DOMAIN members' \ DOMAIN members
      PROVE  m[1] # proc[q].org
  <2>1. CASE AddOwner(p, o)
    <3>1. m[1] = proc[p].org /\ proc[p].pc = "owner" /\ p \in Doing("create")
      BY <2>1, RequestFacts DEF AddOwner, Insert
    <3>2. q # p
      BY <1>5, <1>8, <3>1
    <3> QED
      BY <1>5, <3>1, <3>2 DEF CreatesSound
  <2>2. CASE Join(p, o)
    <3>1. m[1] = proc[p].row.org /\ p \in Doing("accept")
      BY <2>2, RequestFacts DEF Join, Insert
    <3>2. m[1] = invitations[proc[p].inv].org /\ proc[p].inv \in DOMAIN invitations
      BY <3>1 DEF AcceptsSound
    <3> QED
      BY <1>5, <3>2 DEF FreshIsUnknown
  <2>3. CASE members' = members
    BY <1>8, <2>3
  <2> QED
    BY <2>1, <2>2, <2>3 DEF Call, InsertOrg, InsertInvitation, MarkAccepted, Publish, tables
<1> QED
  BY <1>5, <1>6, <1>7, <1>8, FreshStays

LEMMA FreshStep == MembershipInv /\ FreshIsUnknown /\ [Next]_vars => FreshIsUnknown'
<1> SUFFICES ASSUME MembershipInv, FreshIsUnknown, [Next]_vars
             PROVE  FreshIsUnknown'
  OBVIOUS
<1>1. CASE \E o \in Org, u \in User : RemoveMember(o, u)
  <2>1. /\ UNCHANGED <<invitations, proc>>
        /\ DOMAIN members' \subseteq DOMAIN members
    BY <1>1 DEF RemoveMember
  <2>2. Doing("create")' = Doing("create") /\ Doing("invite")' = Doing("invite")
    BY <2>1 DEF Doing, Busy
  <2> QED
    BY <2>1, <2>2 DEF FreshIsUnknown
<1>2. CASE Tick \/ UNCHANGED vars
  BY <1>2 DEF Tick, tables, vars, FreshIsUnknown, Doing, Busy
<1>3. CASE Crash
  <2>1. Doing("create")' = {}
    BY <1>3 DEF Crash, Doing, Busy, NoRequest
  <2> QED
    BY <2>1 DEF FreshIsUnknown
<1> QED
  BY <1>1, <1>2, <1>3, FreshStart, FreshCall DEF Next

\* The primary key of org_members never refuses an owner: CreateOrg adds the
\* first member there is, whatever runs beside it.
THEOREM OwnersComeFirst == Spec => []FreshIsUnknown
<1>1. Init => FreshIsUnknown
  BY DEF Init, FreshIsUnknown, Doing, Busy, NoRequest
<1> QED
  BY <1>1, FreshStep, InvariantHolds, PTL DEF Spec

(***************************************************************************)
(* The service keeps what OrgAdmission promises.  Two facts more are needed*)
(* of a step than the invariant has: whoever a request has let in still is *)
(* a member, or was removed since; and a table is a function, so that a    *)
(* DELETE of no row leaves it as it is.                                    *)
(***************************************************************************)
JoinsSound ==
    \A p \in Doing("accept") :
        /\ proc[p].now <= clock
        /\ proc[p].pc # "join" =>
              <<proc[p].row.org, proc[p].user>> \in DOMAIN members \cup left

MembersAreAFunction == members = [m \in DOMAIN members |-> members[m]]

AdmissionInv == JoinsSound /\ MembersAreAFunction

\* The organizations whose owner is still to come, told by pc alone.
LEMMA UnseatedFacts ==
    ASSUME TypeOK
    PROVE  \A g : g \in Unseated <=> \E q \in Proc : proc[q].pc = "owner" /\ proc[q].org = g
BY DEF Unseated

\* The same after a step.
LEMMA UnseatedFactsNext ==
    ASSUME TypeOK'
    PROVE  \A g : g \in Unseated' <=> \E q \in Proc : proc'[q].pc = "owner" /\ proc'[q].org = g
BY DEF Unseated

\* The seats do not change when a request goes on that has none to give.
LEMMA SeatsStay ==
    ASSUME MembershipInv, TypeOK', NEW p \in Proc,
           \A q \in Proc : q # p => proc'[q] = proc[q],
           proc[p].pc # "owner", proc'[p].pc # "owner"
    PROVE  Unseated' = Unseated
<1>1. ASSUME NEW g
      PROVE  g \in Unseated' <=> g \in Unseated
  <2>1. g \in Unseated <=> \E q \in Proc : proc[q].pc = "owner" /\ proc[q].org = g
    BY UnseatedFacts DEF MembershipInv
  <2>2. g \in Unseated' <=> \E q \in Proc : proc'[q].pc = "owner" /\ proc'[q].org = g
    BY UnseatedFactsNext
  <2> QED
    BY <2>1, <2>2
<1> QED
  BY <1>1

\* Whoever was let in stays a member or has left, and time does not go back.
LEMMA JoinsStay ==
    ASSUME MembershipInv, JoinsSound, TypeOK', clock <= clock',
           DOMAIN members \cup left \subseteq DOMAIN members' \cup left',
           \A q \in Doing("accept")' :
              \/ q \in Doing("accept") /\ proc'[q] = proc[q]
              \/ /\ proc'[q].now <= clock'
                 /\ proc'[q].pc # "join" =>
                       <<proc'[q].row.org, proc'[q].user>> \in DOMAIN members' \cup left'
    PROVE  JoinsSound'
<1> SUFFICES ASSUME NEW q \in Doing("accept")'
             PROVE  /\ proc'[q].now <= clock'
                    /\ proc'[q].pc # "join" =>
                          <<proc'[q].row.org, proc'[q].user>> \in DOMAIN members' \cup left'
  BY DEF JoinsSound
<1>1. CASE q \in Doing("accept") /\ proc'[q] = proc[q]
  <2>1. proc[q].now \in Int
    BY <1>1, RequestFacts, OrgMembershipAssumption
       DEF MembershipInv, AcceptRequest, Time, Doing, Busy
  <2>2. clock \in Int /\ clock' \in Int
    BY OrgMembershipAssumption DEF MembershipInv, TypeOK
  <2> QED
    BY <1>1, <2>1, <2>2 DEF JoinsSound
<1> QED
  BY <1>1

\* A table with one row more is a function if what it is put in is anything.
LEMMA InsertIsAFunction ==
    ASSUME NEW f, NEW k, NEW row
    PROVE  Insert(f, k, row) = [x \in DOMAIN Insert(f, k, row) |-> Insert(f, k, row)[x]]
BY DEF Insert

\* Taking on a request shows nobody anything, but that an invitation is shared.
LEMMA AdmissionStart ==
    ASSUME MembershipInv, MembershipInv', AdmissionInv, NEW p \in Proc, Start(p)
    PROVE  AdmissionInv' /\ (Admission!Next \/ UNCHANGED Admission!vars)
<1>1. PICK r \in CreateRequest \cup InviteRequest \cup AcceptRequest :
         /\ proc[p].pc = "idle"
         /\ proc' = [proc EXCEPT ![p] = r]
         /\ r.pc # "owner"
         /\ r.op = "accept" => r.now = clock /\ r.pc = "join"
  <2>1. CASE \E o \in Org, row \in OrgRow : StartCreate(p, o, row)
    <3>1. PICK o \in Org, row \in OrgRow : StartCreate(p, o, row)
      BY <2>1
    <3> DEFINE r == [op |-> "create", pc |-> "org", org |-> o, row |-> row]
    <3>2. r \in CreateRequest /\ r.pc = "org" /\ r.op = "create"
      BY DEF CreateRequest
    <3> HIDE DEF r
    <3>3. proc[p].pc = "idle" /\ proc' = [proc EXCEPT ![p] = r]
      BY <3>1 DEF StartCreate, r
    <3> QED
      BY <3>2, <3>3
  <2>2. CASE \E i \in Inv, o \in Org, role \in Role : StartInvite(p, i, o, role)
    <3>1. PICK i \in Inv, o \in Org, role \in Role : StartInvite(p, i, o, role)
      BY <2>2
    <3> DEFINE row == [org |-> o, role |-> role, expiresAt |-> clock + TTL,
                       accepted |-> FALSE]
               r == [op |-> "invite", pc |-> "db", inv |-> i, row |-> row]
    <3>2. clock + TTL \in Time
      BY OrgMembershipAssumption DEF MembershipInv, TypeOK, Time
    <3>3. row \in Invitation
      BY <3>2 DEF Invitation
    <3> HIDE DEF row
    <3>4. r \in InviteRequest /\ r.pc = "db" /\ r.op = "invite"
      BY <3>3 DEF InviteRequest
    <3> HIDE DEF r
    <3>5. proc[p].pc = "idle" /\ proc' = [proc EXCEPT ![p] = r]
      BY <3>1 DEF StartInvite, r, row
    <3> QED
      BY <3>4, <3>5
  <2>3. CASE \E i \in Inv, u \in User : FindByToken(p, i, u)
    <3>1. PICK i \in Inv, u \in User : FindByToken(p, i, u)
      BY <2>3
    <3> DEFINE r == [op |-> "accept", pc |-> "join", inv |-> i,
                     row |-> invitations[i], user |-> u, now |-> clock]
    <3>2. invitations[i] \in Invitation /\ clock \in Time
      BY <3>1, OrgMembershipAssumption DEF FindByToken, MembershipInv, TypeOK, Time
    <3>3. r \in AcceptRequest /\ r.pc = "join" /\ r.op = "accept" /\ r.now = clock
      BY <3>2 DEF AcceptRequest
    <3> HIDE DEF r
    <3>4. proc[p].pc = "idle" /\ proc' = [proc EXCEPT ![p] = r]
      BY <3>1 DEF FindByToken, r
    <3> QED
      BY <3>3, <3>4
  <2> QED
    BY <2>1, <2>2, <2>3, OrgMembershipAssumption DEF Start
<1>2. /\ proc'[p] = r
      /\ \A q \in Proc : q # p => proc'[q] = proc[q]
      /\ \A op : Doing(op)' = IF op = r.op THEN Doing(op) \cup {p} ELSE Doing(op)
  BY <1>1, StartFacts DEF MembershipInv
<1>3. /\ UNCHANGED <<orgs, members, invitations, published, clock, uses, left>>
      /\ half \subseteq half'
  BY DEF Start, StartCreate, StartInvite, FindByToken, tables
<1>4. Unseated' = Unseated
  BY <1>1, <1>2, SeatsStay DEF MembershipInv
<1>5. JoinsSound'
  <2>1. Doing("accept") \subseteq Proc /\ p \notin Doing("accept")
    BY <1>1 DEF Doing, Busy
  <2>2. ASSUME NEW q \in Doing("accept")'
        PROVE  \/ q \in Doing("accept") /\ proc'[q] = proc[q]
               \/ proc'[q].now <= clock' /\ proc'[q].pc = "join"
    <3>1. clock \in Int
      BY OrgMembershipAssumption DEF MembershipInv, TypeOK
    <3> QED
      BY <1>1, <1>2, <1>3, <2>1, <3>1
  <2>3. clock <= clock'
    BY <1>3, OrgMembershipAssumption DEF MembershipInv, TypeOK
  <2> QED
    BY <1>3, <2>2, <2>3, JoinsStay DEF AdmissionInv, MembershipInv
<1>6. MembersAreAFunction'
  BY <1>3 DEF AdmissionInv, MembersAreAFunction
<1>7. Admission!Fail
  BY <1>3, <1>4 DEF Admission!Fail, Used
<1> QED
  BY <1>5, <1>6, <1>7 DEF AdmissionInv, Admission!Next

\* An organization is founded when its row is in, if its slug is new.
LEMMA AdmissionInsertOrg ==
    ASSUME MembershipInv, MembershipInv', AdmissionInv, NEW p \in Proc, NEW o \in Outcome,
           InsertOrg(p, o)
    PROVE  AdmissionInv' /\ (Admission!Next \/ UNCHANGED Admission!vars)
<1> DEFINE g == proc[p].org
           row == proc[p].row
<1>1. proc[p].pc = "org" /\ (Proceed(p, o, "owner") \/ Finish(p))
  BY DEF InsertOrg
<1>2. p \in Doing("create") /\ p \in Busy /\ proc[p] \in CreateRequest
  BY <1>1, RequestFacts DEF Doing, MembershipInv
<1>3. /\ \A q \in Proc : q # p => proc'[q] = proc[q]
      /\ \A op : Doing(op)' = IF proc'[p] = NoRequest THEN Doing(op) \ {p} ELSE Doing(op)
      /\ \/ proc'[p] = NoRequest
         \/ proc'[p] = [proc[p] EXCEPT !.pc = "owner"]
  BY <1>1, <1>2, ProceedFacts DEF InviteRequest, CreateRequest, AcceptRequest, MembershipInv
<1>4. g \in Org /\ row \in OrgRow /\ g \notin DOMAIN orgs
  BY <1>1, <1>2 DEF CreatesSound, CreateRequest, MembershipInv
<1>5. UNCHANGED <<members, invitations, published, clock, uses, left>>
  BY DEF InsertOrg
<1>6. half' \cap Inv = half \cap Inv
  <2>1. half' = half \/ half' = half \cup {g}
    BY DEF InsertOrg
  <2> QED
    BY <1>4, <2>1, OrgMembershipAssumption
<1>7. JoinsSound' /\ MembersAreAFunction'
  <2>1. p \notin Doing("accept")
    BY <1>2 DEF Doing
  <2>2. Doing("accept") \subseteq Proc
    BY DEF Doing, Busy
  <2>3. \A q \in Doing("accept")' : q \in Doing("accept") /\ proc'[q] = proc[q]
    BY <1>3, <2>1, <2>2
  <2>4. clock <= clock'
    BY <1>5, OrgMembershipAssumption DEF MembershipInv, TypeOK
  <2> QED
    BY <1>5, <2>3, <2>4, JoinsStay DEF AdmissionInv, MembershipInv, MembersAreAFunction
<1>8. CASE proc'[p] = NoRequest
  <2>1. Unseated' = Unseated
    BY <1>1, <1>3, <1>8, SeatsStay DEF NoRequest, MembershipInv
  <2>2. CASE orgs' = orgs
    BY <1>5, <1>6, <1>7, <2>1, <2>2 DEF Admission!vars, Used, AdmissionInv
  <2>3. CASE orgs' # orgs
    <3>1. ~SlugTaken(row.slug) /\ orgs' = Insert(orgs, g, row)
      BY <2>3 DEF InsertOrg
    <3>2. Admission!Found(g, row)
      BY <1>4, <1>5, <1>6, <2>1, <3>1
         DEF Admission!Found, Admission!With, Insert, SlugTaken, Used
    <3> QED
      BY <1>4, <1>7, <3>2 DEF Admission!Next, AdmissionInv
  <2> QED
    BY <2>2, <2>3
<1>9. CASE proc'[p] # NoRequest
  <2>1. proc'[p].pc = "owner" /\ proc'[p].org = g
    BY <1>2, <1>3, <1>9 DEF CreateRequest
  <2>2. Unseated' = Unseated \cup {g}
    <3>1. ASSUME NEW x
          PROVE  x \in Unseated' <=> x \in Unseated \/ x = g
      <4>1. x \in Unseated <=> \E q \in Proc : proc[q].pc = "owner" /\ proc[q].org = x
        BY UnseatedFacts DEF MembershipInv
      <4>2. x \in Unseated' <=> \E q \in Proc : proc'[q].pc = "owner" /\ proc'[q].org = x
        BY UnseatedFactsNext DEF MembershipInv
      <4> QED
        BY <1>1, <1>3, <2>1, <4>1, <4>2
    <3> QED
      BY <3>1
  <2>3. ~Finish(p)
    BY <1>9 DEF Finish, MembershipInv, TypeOK
  <2>4. o = "ok"
    BY <1>1, <1>9, <2>3 DEF Proceed, MembershipInv, TypeOK
  <2>5. ~SlugTaken(row.slug) /\ orgs' = Insert(orgs, g, row)
    BY <2>3, <2>4 DEF InsertOrg, Applied
  <2>6. Admission!Found(g, row)
    BY <1>4, <1>5, <1>6, <2>2, <2>5
       DEF Admission!Found, Admission!With, Insert, SlugTaken, Used
  <2> QED
    BY <1>4, <1>7, <2>6 DEF Admission!Next, AdmissionInv
<1> QED
  BY <1>8, <1>9

\* The owner takes the seat, or the request ends and nobody ever will.
LEMMA AdmissionAddOwner ==
    ASSUME MembershipInv, MembershipInv', FreshIsUnknown, AdmissionInv,
           NEW p \in Proc, NEW o \in Outcome, AddOwner(p, o)
    PROVE  AdmissionInv' /\ (Admission!Next \/ UNCHANGED Admission!vars)
<1> DEFINE g == proc[p].org
           m == <<g, proc[p].row.owner>>
           row == [role |-> "owner", joinedAt |-> proc[p].row.createdAt]
<1>1. proc[p].pc = "owner" /\ Proceed(p, o, "publish")
  BY DEF AddOwner
<1>2. p \in Doing("create") /\ p \in Busy /\ proc[p] \in CreateRequest
  BY <1>1, RequestFacts DEF Doing, MembershipInv
<1>3. /\ \A q \in Proc : q # p => proc'[q] = proc[q]
      /\ \A op : Doing(op)' = IF proc'[p] = NoRequest THEN Doing(op) \ {p} ELSE Doing(op)
      /\ \/ proc'[p] = NoRequest
         \/ proc'[p] = [proc[p] EXCEPT !.pc = "publish"]
  BY <1>1, <1>2, ProceedFacts DEF InviteRequest, CreateRequest, AcceptRequest, MembershipInv
<1>4. g \in Org /\ g \in DOMAIN orgs /\ orgs[g] = proc[p].row
  BY <1>1, <1>2 DEF CreatesSound, CreateRequest, MembershipInv
<1>5. UNCHANGED <<orgs, invitations, published, clock, uses, left>>
  BY DEF AddOwner
<1>6. half' \cap Inv = half \cap Inv
  <2>1. half' = half \/ half' = half \cup {g}
    BY DEF AddOwner
  <2> QED
    BY <1>4, <2>1, OrgMembershipAssumption
<1>7. members' = members \/ members' = Insert(members, m, row)
  BY DEF AddOwner
<1>8. JoinsSound' /\ MembersAreAFunction'
  <2>1. p \notin Doing("accept")
    BY <1>2 DEF Doing
  <2>2. Doing("accept") \subseteq Proc
    BY DEF Doing, Busy
  <2>3. \A q \in Doing("accept")' : q \in Doing("accept") /\ proc'[q] = proc[q]
    BY <1>3, <2>1, <2>2
  <2>4. clock <= clock'
    BY <1>5, OrgMembershipAssumption DEF MembershipInv, TypeOK
  <2> HIDE DEF m, row
  <2>5. DOMAIN members \subseteq DOMAIN members'
    BY <1>7 DEF Insert
  <2>6. MembersAreAFunction'
    BY <1>7, InsertIsAFunction DEF AdmissionInv, MembersAreAFunction
  <2>7. JoinsSound'
    BY <1>5, <2>3, <2>4, <2>5, JoinsStay DEF AdmissionInv, MembershipInv
  <2> QED
    BY <2>6, <2>7
<1>9. g \in Unseated /\ Unseated' = Unseated \ {g}
  <2>1. ASSUME NEW x
        PROVE  /\ x \in Unseated' <=> x \in Unseated /\ x # g
               /\ x = g => x \in Unseated
    <3>1. x \in Unseated <=> \E q \in Proc : proc[q].pc = "owner" /\ proc[q].org = x
      BY UnseatedFacts DEF MembershipInv
    <3>2. x \in Unseated' <=> \E q \in Proc : proc'[q].pc = "owner" /\ proc'[q].org = x
      BY UnseatedFactsNext DEF MembershipInv
    <3>3. proc'[p].pc # "owner"
      BY <1>2, <1>3 DEF CreateRequest, NoRequest
    <3>4. \A q \in Proc : q # p /\ proc[q].pc = "owner" => proc[q].org # g
      BY <1>2, RequestFacts DEF CreatesSound, MembershipInv
    <3> QED
      BY <1>1, <1>3, <3>1, <3>2, <3>3, <3>4
  <2> QED
    BY <2>1
<1>10. CASE members' = Insert(members, m, row)
  <2>1. \A x \in DOMAIN members : x[1] # g
    BY <1>1, <1>2 DEF FreshIsUnknown
  <2>2. Admission!Seat(g)
    BY <1>4, <1>5, <1>6, <1>9, <1>10, <2>1 DEF Admission!Seat, Admission!With, Insert, Used
  <2> QED
    BY <1>4, <1>8, <2>2 DEF Admission!Next, AdmissionInv
<1>11. CASE members' = members
  <2>1. Admission!Fail
    BY <1>5, <1>6, <1>9, <1>11 DEF Admission!Fail, Used
  <2> QED
    BY <1>8, <2>1 DEF Admission!Next, AdmissionInv
<1> QED
  BY <1>7, <1>10, <1>11

\* An invitation is there as soon as its row is.
LEMMA AdmissionInsertInvitation ==
    ASSUME MembershipInv, MembershipInv', AdmissionInv, NEW p \in Proc, NEW o \in Outcome,
           InsertInvitation(p, o)
    PROVE  AdmissionInv' /\ (Admission!Next \/ UNCHANGED Admission!vars)
<1> DEFINE i == proc[p].inv
           row == proc[p].row
<1>1. proc[p].pc = "db" /\ Proceed(p, o, "publish")
  BY DEF InsertInvitation
<1>2. p \in Doing("invite") /\ p \in Busy /\ proc[p] \in InviteRequest
  BY <1>1, RequestFacts DEF Doing, MembershipInv
<1>3. /\ \A q \in Proc : q # p => proc'[q] = proc[q]
      /\ \A op : Doing(op)' = IF proc'[p] = NoRequest THEN Doing(op) \ {p} ELSE Doing(op)
      /\ \/ proc'[p] = NoRequest
         \/ proc'[p] = [proc[p] EXCEPT !.pc = "publish"]
  BY <1>1, <1>2, ProceedFacts DEF InviteRequest, CreateRequest, AcceptRequest, MembershipInv
<1>4. i \in Inv /\ row \in Invitation /\ i \notin DOMAIN invitations /\ ~row.accepted
  BY <1>1, <1>2 DEF InvitesSound, InviteRequest, MembershipInv
<1>5. UNCHANGED <<orgs, members, published, clock, uses, left, half>>
  BY DEF InsertInvitation
<1>6. invitations' = invitations \/ invitations' = Insert(invitations, i, row)
  BY DEF InsertInvitation
<1>7. JoinsSound' /\ MembersAreAFunction'
  <2>1. p \notin Doing("accept")
    BY <1>2 DEF Doing
  <2>2. Doing("accept") \subseteq Proc
    BY DEF Doing, Busy
  <2>3. \A q \in Doing("accept")' : q \in Doing("accept") /\ proc'[q] = proc[q]
    BY <1>3, <2>1, <2>2
  <2>4. clock <= clock'
    BY <1>5, OrgMembershipAssumption DEF MembershipInv, TypeOK
  <2> QED
    BY <1>5, <2>3, <2>4, JoinsStay DEF AdmissionInv, MembershipInv, MembersAreAFunction
<1>8. Unseated' = Unseated
  <2>1. proc'[p].pc # "owner"
    BY <1>2, <1>3 DEF InviteRequest, NoRequest
  <2> QED
    BY <1>1, <1>3, <2>1, SeatsStay DEF MembershipInv
<1>9. CASE invitations' = Insert(invitations, i, row)
  <2>1. Admission!Invite(i, row)
    BY <1>4, <1>5, <1>8, <1>9 DEF Admission!Invite, Admission!With, Insert, Used
  <2> QED
    BY <1>4, <1>7, <2>1 DEF Admission!Next, AdmissionInv
<1>10. CASE invitations' = invitations
  BY <1>5, <1>7, <1>8, <1>10 DEF Admission!vars, AdmissionInv, Used
<1> QED
  BY <1>6, <1>9, <1>10

\* An invitation lets in, or nothing happened.
LEMMA AdmissionJoin ==
    ASSUME MembershipInv, MembershipInv', AdmissionInv, NEW p \in Proc, NEW o \in Outcome,
           Join(p, o)
    PROVE  AdmissionInv' /\ (Admission!Next \/ UNCHANGED Admission!vars)
<1> DEFINE r == proc[p]
           i == r.inv
           m == <<r.row.org, r.user>>
           row == [role |-> r.row.role, joinedAt |-> r.now]
<1>1. r.pc = "join" /\ (Proceed(p, o, "mark") \/ Finish(p))
  BY DEF Join
<1>2. p \in Doing("accept") /\ p \in Busy /\ r \in AcceptRequest
  BY <1>1, RequestFacts DEF Doing, MembershipInv
<1>3. /\ \A q \in Proc : q # p => proc'[q] = proc[q]
      /\ \A op : Doing(op)' = IF proc'[p] = NoRequest THEN Doing(op) \ {p} ELSE Doing(op)
      /\ \/ proc'[p] = NoRequest /\ (o # "ok" \/ Finish(p))
         \/ proc'[p] = [r EXCEPT !.pc = "mark"] /\ o = "ok"
  BY <1>1, <1>2, ProceedFacts DEF InviteRequest, CreateRequest, AcceptRequest, MembershipInv
<1>4. /\ i \in Inv /\ i \in DOMAIN invitations /\ r.user \in User
      /\ r.row.org = invitations[i].org /\ r.row.role = invitations[i].role
      /\ r.now <= invitations[i].expiresAt
      /\ uses[i] > 0 => i \in half
  BY <1>1, <1>2 DEF AcceptsSound, AcceptRequest, MembershipInv
<1>5. r.now \in 0..clock
  <2>1. r.now \in Nat
    BY <1>2, OrgMembershipAssumption DEF AcceptRequest, Time
  <2>2. r.now <= clock
    BY <1>2 DEF AdmissionInv, JoinsSound
  <2>3. clock \in Nat
    BY OrgMembershipAssumption DEF MembershipInv, TypeOK
  <2> QED
    BY <2>1, <2>2, <2>3
<1>6. UNCHANGED <<orgs, invitations, published, clock, left>>
  BY DEF Join
<1>7. \/ /\ UNCHANGED <<members, uses, half>>
         /\ proc'[p] = NoRequest
      \/ /\ m \notin DOMAIN members
         /\ members' = Insert(members, m, row)
         /\ uses' = [uses EXCEPT ![i] = IF @ = 0 THEN 1 ELSE 2]
         /\ half' = half \/ half' = half \cup {i}
  <2>1. CASE m \in DOMAIN members
    <3>1. UNCHANGED <<members, uses, half>> /\ Finish(p)
      BY <2>1 DEF Join
    <3> QED
      BY <3>1 DEF Finish, MembershipInv, TypeOK
  <2>2. CASE m \notin DOMAIN members /\ o = "lost"
    <3>1. UNCHANGED <<members, uses, half>> /\ Proceed(p, o, "mark")
      BY <2>2 DEF Join, Applied
    <3> QED
      BY <2>2, <3>1 DEF Proceed, MembershipInv, TypeOK
  <2>3. CASE m \notin DOMAIN members /\ o # "lost"
    BY <2>3 DEF Join, Applied
  <2> QED
    BY <2>1, <2>2, <2>3
<1>8. Unseated' = Unseated
  <2>1. proc'[p].pc # "owner"
    BY <1>2, <1>3 DEF AcceptRequest, NoRequest
  <2> QED
    BY <1>1, <1>3, <2>1, SeatsStay DEF MembershipInv
<1>9. DOMAIN members \subseteq DOMAIN members'
  BY <1>7 DEF Insert
<1>10. MembersAreAFunction'
  <2> HIDE DEF m, row
  <2> QED
    BY <1>7, InsertIsAFunction DEF AdmissionInv, MembersAreAFunction
<1>11. JoinsSound'
  <2>1. Doing("accept") \subseteq Proc
    BY DEF Doing, Busy
  <2>2. clock <= clock'
    BY <1>6, OrgMembershipAssumption DEF MembershipInv, TypeOK
  <2>3. ASSUME NEW q \in Doing("accept")'
        PROVE  \/ q \in Doing("accept") /\ proc'[q] = proc[q]
               \/ /\ proc'[q].now <= clock'
                  /\ <<proc'[q].row.org, proc'[q].user>> \in DOMAIN members' \cup left'
    <3>1. CASE q # p
      BY <1>3, <2>1, <3>1
    <3>2. CASE q = p
      <4>1. proc'[p] # NoRequest
        BY <1>2, <1>3, <3>2
      <4>2. proc'[p].now = r.now /\ proc'[p].row = r.row /\ proc'[p].user = r.user
        BY <1>2, <1>3, <4>1 DEF AcceptRequest
      <4>3. m \in DOMAIN members'
        BY <1>7, <4>1 DEF Insert
      <4>4. r.now <= clock'
        BY <1>5, <1>6, OrgMembershipAssumption DEF MembershipInv, TypeOK
      <4> QED
        BY <3>2, <4>2, <4>3, <4>4
    <3> QED
      BY <3>1, <3>2
  <2> QED
    BY <1>6, <1>9, <2>2, <2>3, JoinsStay DEF AdmissionInv, MembershipInv
<1>12. CASE UNCHANGED <<members, uses, half>>
  BY <1>6, <1>8, <1>10, <1>11, <1>12 DEF Admission!vars, AdmissionInv, Used
<1>13. CASE /\ m \notin DOMAIN members
            /\ members' = Insert(members, m, row)
            /\ uses' = [uses EXCEPT ![i] = IF @ = 0 THEN 1 ELSE 2]
            /\ half' = half \/ half' = half \cup {i}
  <2>1. Used' = Used \cup {i}
    <3>1. uses \in [Inv -> 0..2]
      BY DEF MembershipInv, TypeOK
    <3> QED
      BY <1>4, <1>13, <3>1 DEF Used
  <2>2. half' \cap Inv \in {half \cap Inv, (half \cap Inv) \cup {i}}
    BY <1>4, <1>13
  <2>3. i \in Used => i \in half \cap Inv
    BY <1>4 DEF Used
  <2>4. /\ r.now \in 0..clock
        /\ r.now <= invitations[i].expiresAt
        /\ members' = Admission!With(members, <<invitations[i].org, r.user>>,
                                     [role |-> invitations[i].role, joinedAt |-> r.now])
    BY <1>4, <1>5, <1>13 DEF Admission!With, Insert
  <2>5. Admission!Admit(i, r.user)
    <3>1. <<invitations[i].org, r.user>> \notin DOMAIN members
      BY <1>4, <1>13
    <3> HIDE DEF r, i, m, row
    <3> QED
      BY <1>4, <1>6, <1>8, <2>1, <2>2, <2>3, <2>4, <3>1 DEF Admission!Admit
  <2> QED
    BY <1>4, <1>10, <1>11, <2>5 DEF Admission!Next, AdmissionInv
<1> QED
  BY <1>7, <1>12, <1>13

\* The invitation that let in is accepted, or is loose from now on.
LEMMA AdmissionMarkAccepted ==
    ASSUME MembershipInv, MembershipInv', AdmissionInv, NEW p \in Proc, NEW o \in Outcome,
           MarkAccepted(p, o)
    PROVE  AdmissionInv' /\ (Admission!Next \/ UNCHANGED Admission!vars)
<1> DEFINE r == proc[p]
           i == r.inv
<1>1. r.pc = "mark" /\ Proceed(p, o, "publish")
  BY DEF MarkAccepted
<1>2. p \in Doing("accept") /\ p \in Busy /\ r \in AcceptRequest
  BY <1>1, RequestFacts DEF Doing, MembershipInv
<1>3. /\ \A q \in Proc : q # p => proc'[q] = proc[q]
      /\ \A op : Doing(op)' = IF proc'[p] = NoRequest THEN Doing(op) \ {p} ELSE Doing(op)
      /\ \/ proc'[p] = NoRequest
         \/ proc'[p] = [r EXCEPT !.pc = "publish"]
  BY <1>1, <1>2, ProceedFacts DEF InviteRequest, CreateRequest, AcceptRequest, MembershipInv
<1>4. i \in Inv /\ i \in Used
  BY <1>1, <1>2 DEF AcceptsSound, AcceptRequest, MembershipInv, Used
<1>5. UNCHANGED <<orgs, members, published, clock, uses, left>>
  BY DEF MarkAccepted
<1>6. \/ half' = half /\ invitations' = [invitations EXCEPT ![i].accepted = TRUE]
      \/ half \subseteq half' /\ invitations' = invitations
  BY DEF MarkAccepted
<1>7. Unseated' = Unseated
  <2>1. proc'[p].pc # "owner"
    BY <1>2, <1>3 DEF AcceptRequest, NoRequest
  <2> QED
    BY <1>1, <1>3, <2>1, SeatsStay DEF MembershipInv
<1>8. JoinsSound' /\ MembersAreAFunction'
  <2>1. Doing("accept") \subseteq Proc
    BY DEF Doing, Busy
  <2>2. clock <= clock'
    BY <1>5, OrgMembershipAssumption DEF MembershipInv, TypeOK
  <2>3. ASSUME NEW q \in Doing("accept")'
        PROVE  \/ q \in Doing("accept") /\ proc'[q] = proc[q]
               \/ /\ proc'[q].now <= clock'
                  /\ <<proc'[q].row.org, proc'[q].user>> \in DOMAIN members' \cup left'
    <3>1. CASE q # p
      BY <1>3, <2>1, <3>1
    <3>2. CASE q = p
      <4>1. proc'[p] # NoRequest
        BY <1>2, <1>3, <3>2
      <4>2. proc'[p].now = r.now /\ proc'[p].row = r.row /\ proc'[p].user = r.user
        BY <1>2, <1>3, <4>1 DEF AcceptRequest
      <4> QED
        BY <1>1, <1>2, <1>5, <3>2, <4>2 DEF AdmissionInv, JoinsSound
    <3> QED
      BY <3>1, <3>2
  <2>4. MembersAreAFunction'
    BY <1>5 DEF AdmissionInv, MembersAreAFunction
  <2>5. JoinsSound'
    BY <1>5, <2>2, <2>3, JoinsStay DEF AdmissionInv, MembershipInv
  <2> QED
    BY <2>4, <2>5
<1>9. Admission!Accept(i) \/ Admission!Fail
  <2>1. Used' = Used
    BY <1>5 DEF Used
  <2>2. CASE half' = half /\ invitations' = [invitations EXCEPT ![i].accepted = TRUE]
    BY <1>4, <1>5, <1>7, <2>1, <2>2 DEF Admission!Accept
  <2>3. CASE half \subseteq half' /\ invitations' = invitations
    BY <1>5, <1>7, <2>1, <2>3 DEF Admission!Fail
  <2> QED
    BY <1>6, <2>2, <2>3
<1> QED
  BY <1>4, <1>8, <1>9 DEF Admission!Next, AdmissionInv

\* What is announced has happened.
LEMMA AdmissionPublish ==
    ASSUME MembershipInv, MembershipInv', AdmissionInv, NEW p \in Proc, NEW o \in Outcome,
           Publish(p, o)
    PROVE  AdmissionInv' /\ (Admission!Next \/ UNCHANGED Admission!vars)
<1> DEFINE r == proc[p]
<1>1. r.pc = "publish" /\ Finish(p) /\ p \in Busy
  BY DEF Publish, Busy
<1>2. /\ UNCHANGED <<orgs, members, invitations, clock, uses, left, half>>
      /\ published' = published \/ published' = published \cup {EventOf(r)}
  BY DEF Publish, tables
<1>3. proc'[p] = NoRequest /\ \A q \in Proc : q # p => proc'[q] = proc[q]
  BY <1>1 DEF Finish, MembershipInv, TypeOK
<1>4. Unseated' = Unseated
  BY <1>1, <1>3, SeatsStay DEF MembershipInv, NoRequest
<1>5. JoinsSound' /\ MembersAreAFunction'
  <2>1. \A q \in Doing("accept")' : q \in Doing("accept") /\ proc'[q] = proc[q]
    BY <1>3 DEF Doing, Busy, NoRequest
  <2>2. clock <= clock'
    BY <1>2, OrgMembershipAssumption DEF MembershipInv, TypeOK
  <2> QED
    BY <1>2, <2>1, <2>2, JoinsStay DEF AdmissionInv, MembershipInv, MembersAreAFunction
<1>6. Used' = Used
  BY <1>2 DEF Used
<1>7. CASE published' = published
  BY <1>2, <1>4, <1>5, <1>6, <1>7 DEF Admission!vars, AdmissionInv
<1>8. CASE published' = published \cup {EventOf(r)}
  <2>1. Admission!Announce(EventOf(r))
    BY <1>2, <1>4, <1>6, <1>8 DEF Admission!Announce
  <2>2. CASE p \in Doing("create")
    <3>1. /\ r.org \in Org /\ r.org \in DOMAIN orgs /\ r.org \notin half
          /\ \A q \in Doing("create") : proc[q].org = r.org => q = p
      BY <1>1, <2>2, RequestFacts DEF CreatesSound, CreateRequest, MembershipInv
    <3>2. <<r.org, orgs[r.org].owner>> \in DOMAIN members \cup left
      BY <1>1, <3>1 DEF OwnerIsMember, MembershipInv
    <3>3. EventOf(r) = <<"org.created", r.org>>
      BY <2>2 DEF EventOf, Doing
    <3>4. Admission!AnnounceOrg(r.org)
      BY <2>1, <3>1, <3>2, <3>3 DEF Admission!AnnounceOrg
    <3> QED
      BY <1>5, <3>1, <3>4 DEF Admission!Next, AdmissionInv
  <2>3. CASE p \in Doing("invite")
    <3>1. r.inv \in Inv /\ r.inv \in DOMAIN invitations
      BY <1>1, <2>3, RequestFacts DEF InvitesSound, InviteRequest, MembershipInv
    <3>2. EventOf(r) = <<"org.member.invited", r.inv>>
      BY <2>3 DEF EventOf, Doing
    <3>3. Admission!AnnounceInvitation(r.inv)
      BY <2>1, <3>1, <3>2 DEF Admission!AnnounceInvitation
    <3> QED
      BY <1>5, <3>1, <3>3 DEF Admission!Next, AdmissionInv
  <2>4. CASE p \in Doing("accept")
    <3>1. /\ r.inv \in Inv /\ r.inv \in DOMAIN invitations /\ r.user \in User
          /\ r.row.org = invitations[r.inv].org /\ invitations[r.inv].accepted
      BY <1>1, <2>4, RequestFacts DEF AcceptsSound, AcceptRequest, MembershipInv
    <3>2. <<r.row.org, r.user>> \in DOMAIN members \cup left
      BY <1>1, <2>4 DEF AdmissionInv, JoinsSound
    <3>3. EventOf(r) = <<"org.member.joined", r.row.org, r.user>>
      BY <2>4 DEF EventOf, Doing
    <3>4. Admission!AnnounceMember(r.inv, r.user)
      BY <2>1, <3>1, <3>2, <3>3 DEF Admission!AnnounceMember
    <3> QED
      BY <1>5, <3>1, <3>4 DEF Admission!Next, AdmissionInv
  <2> QED
    BY <1>1, <2>2, <2>3, <2>4, RequestFacts
       DEF Doing, CreateRequest, InviteRequest, AcceptRequest, MembershipInv
<1> QED
  BY <1>2, <1>7, <1>8

\* Who is removed has left; a DELETE of nobody is no step.
LEMMA AdmissionRemoveMember ==
    ASSUME MembershipInv, MembershipInv', AdmissionInv, NEW o \in Org, NEW u \in User,
           RemoveMember(o, u)
    PROVE  AdmissionInv' /\ (Admission!Next \/ UNCHANGED Admission!vars)
<1>1. /\ UNCHANGED <<orgs, invitations, published, clock, proc, uses, half>>
      /\ members' = [m \in DOMAIN members \ {<<o, u>>} |-> members[m]]
      /\ left' = left \cup ({<<o, u>>} \cap DOMAIN members)
  BY DEF RemoveMember
<1>2. Unseated' = Unseated /\ Used' = Used /\ Doing("accept")' = Doing("accept")
  BY <1>1 DEF Unseated, Used, Doing, Busy
<1>3. MembersAreAFunction'
  BY <1>1 DEF MembersAreAFunction
<1>4. JoinsSound'
  <2>1. DOMAIN members \cup left \subseteq DOMAIN members' \cup left'
    BY <1>1
  <2>2. clock <= clock'
    BY <1>1, OrgMembershipAssumption DEF MembershipInv, TypeOK
  <2> QED
    BY <1>1, <1>2, <2>1, <2>2, JoinsStay DEF AdmissionInv, MembershipInv
<1>5. CASE <<o, u>> \in DOMAIN members
  <2>1. Admission!Expel(o, u)
    BY <1>1, <1>2, <1>5 DEF Admission!Expel
  <2> QED
    BY <1>3, <1>4, <2>1 DEF Admission!Next, AdmissionInv
<1>6. CASE <<o, u>> \notin DOMAIN members
  <2>1. members' = members /\ left' = left
    BY <1>1, <1>6 DEF AdmissionInv, MembersAreAFunction
  <2> QED
    BY <1>1, <1>2, <1>3, <1>4, <2>1 DEF Admission!vars, AdmissionInv
<1> QED
  BY <1>5, <1>6

\* Time goes on, and a crash cuts every request short.
LEMMA AdmissionEnvironment ==
    ASSUME MembershipInv, MembershipInv', AdmissionInv, Tick \/ Crash
    PROVE  AdmissionInv' /\ (Admission!Next \/ UNCHANGED Admission!vars)
<1>1. CASE Tick
  <2>1. /\ clock' = clock + 1
        /\ UNCHANGED <<orgs, members, invitations, published, proc, uses, left, half>>
    BY <1>1 DEF Tick, tables
  <2>2. Unseated' = Unseated /\ Used' = Used /\ Doing("accept")' = Doing("accept")
    BY <2>1 DEF Unseated, Used, Doing, Busy
  <2>3. MembersAreAFunction'
    BY <2>1 DEF AdmissionInv, MembersAreAFunction
  <2>4. clock <= clock'
    BY <2>1, OrgMembershipAssumption DEF MembershipInv, TypeOK
  <2>5. JoinsSound'
    BY <2>1, <2>2, <2>4, JoinsStay DEF AdmissionInv, MembershipInv
  <2>6. Admission!Tick
    BY <2>1, <2>2 DEF Admission!Tick
  <2> QED
    BY <2>3, <2>5, <2>6 DEF Admission!Next, AdmissionInv
<1>2. CASE Crash
  <2>1. /\ UNCHANGED <<orgs, members, invitations, published, clock, uses, left>>
        /\ half \subseteq half'
        /\ proc' = [q \in Proc |-> NoRequest]
    BY <1>2 DEF Crash, tables
  <2>2. Doing("accept")' = {} /\ Unseated' = {} /\ Used' = Used
    BY <2>1 DEF Unseated, Used, Doing, Busy, NoRequest
  <2>3. MembersAreAFunction'
    BY <2>1 DEF AdmissionInv, MembersAreAFunction
  <2>4. JoinsSound'
    BY <2>2 DEF JoinsSound
  <2>5. Admission!Fail
    BY <2>1, <2>2 DEF Admission!Fail
  <2> QED
    BY <2>3, <2>4, <2>5 DEF Admission!Next, AdmissionInv
<1> QED
  BY <1>1, <1>2

LEMMA AdmissionStep ==
    ASSUME MembershipInv, FreshIsUnknown, AdmissionInv, [Next]_vars
    PROVE  AdmissionInv' /\ (Admission!Next \/ UNCHANGED Admission!vars)
<1>1. MembershipInv'
  BY InvStep
<1>2. CASE \E p \in Proc : Start(p)
  BY <1>1, <1>2, AdmissionStart
<1>3. CASE \E p \in Proc, o \in Outcome : Call(p, o)
  BY <1>1, <1>3, AdmissionInsertOrg, AdmissionAddOwner, AdmissionInsertInvitation,
     AdmissionJoin, AdmissionMarkAccepted, AdmissionPublish DEF Call
<1>4. CASE \E o \in Org, u \in User : RemoveMember(o, u)
  BY <1>1, <1>4, AdmissionRemoveMember
<1>5. CASE Tick \/ Crash
  BY <1>1, <1>5, AdmissionEnvironment
<1>6. CASE UNCHANGED vars
  <2>1. UNCHANGED <<orgs, members, invitations, published, clock, proc, uses, left, half>>
    BY <1>6 DEF vars
  <2>2. AdmissionInv'
    BY <2>1 DEF AdmissionInv, JoinsSound, MembersAreAFunction, Doing, Busy
  <2>3. UNCHANGED Admission!vars
    BY <2>1 DEF Admission!vars, Unseated, Used, Doing, Busy
  <2> QED
    BY <2>2, <2>3
<1> QED
  BY <1>2, <1>3, <1>4, <1>5, <1>6 DEF Next

LEMMA AdmissionInit == Init => AdmissionInv /\ Admission!Init
<1> SUFFICES ASSUME Init PROVE AdmissionInv /\ Admission!Init
  OBVIOUS
<1>1. Busy = {}
  BY DEF Init, Busy, NoRequest
<1>2. Unseated = {} /\ Used = {} /\ JoinsSound
  BY <1>1 DEF Init, Unseated, Used, JoinsSound, Doing, NoRequest
<1> QED
  BY <1>2 DEF Init, Admission!Init, AdmissionInv, MembersAreAFunction

LEMMA AdmissionInvHolds == Spec => []AdmissionInv
<1>1. MembershipInv /\ FreshIsUnknown /\ AdmissionInv /\ [Next]_vars => AdmissionInv'
  BY AdmissionStep
<1> QED
  BY <1>1, AdmissionInit, InvariantHolds, OwnersComeFirst, PTL DEF Spec

\* KeepsAdmission: what CreateOrg and AcceptInvitation write in two steps looks
\* like one, whoever else is served meanwhile; what a failure or a crash between
\* them does is what OrgAdmission says, no more.
THEOREM ImplementsAdmission == Spec => KeepsAdmission
<1>1. /\ MembershipInv /\ FreshIsUnknown /\ AdmissionInv /\ [Next]_vars
      => [Admission!Next]_(Admission!vars)
  BY AdmissionStep
<1> QED
  BY <1>1, AdmissionInit, InvariantHolds, OwnersComeFirst, AdmissionInvHolds, PTL
     DEF Spec, KeepsAdmission, Admission!Spec

(***************************************************************************)
(* What follows from OrgAdmission alone.                                   *)
(***************************************************************************)
\* A row written is never written over: organizations are for good, an
\* invitation only gets accepted, a member keeps role and date until removed.
RowsStand ==
    [][/\ \A o \in DOMAIN orgs : o \in DOMAIN orgs' /\ orgs'[o] = orgs[o]
       /\ \A i \in DOMAIN invitations :
             /\ i \in DOMAIN invitations'
             /\ invitations'[i] \in {invitations[i], [invitations[i] EXCEPT !.accepted = TRUE]}
       /\ \A m \in DOMAIN members :
             IF m \in DOMAIN members' THEN members'[m] = members[m] ELSE m \in left']_vars

\* Nobody is promoted, demoted, invited anew or taken over by an overlapping
\* request: none of the three tables is ever updated but by MarkAccepted.
THEOREM RowsAreFinal == Spec => RowsStand
<1> DEFINE Stands ==
      /\ \A o \in DOMAIN orgs : o \in DOMAIN orgs' /\ orgs'[o] = orgs[o]
      /\ \A i \in DOMAIN invitations :
            /\ i \in DOMAIN invitations'
            /\ invitations'[i] \in {invitations[i], [invitations[i] EXCEPT !.accepted = TRUE]}
      /\ \A m \in DOMAIN members :
            IF m \in DOMAIN members' THEN members'[m] = members[m] ELSE m \in left'
<1>1. ASSUME Admission!Next \/ UNCHANGED Admission!vars PROVE Stands
  <2>1. ASSUME NEW o \in Org, NEW row, Admission!Seat(o) \/ Admission!Found(o, row)
        PROVE  Stands
    BY <2>1 DEF Admission!Seat, Admission!Found, Admission!With
  <2>2. ASSUME NEW i \in Inv, NEW u \in User, Admission!Admit(i, u)
        PROVE  Stands
    BY <2>2 DEF Admission!Admit, Admission!With
  <2>3. ASSUME NEW i \in Inv, NEW row, Admission!Invite(i, row) PROVE Stands
    BY <2>3 DEF Admission!Invite, Admission!With
  <2>4. ASSUME NEW i \in Inv, Admission!Accept(i) PROVE Stands
    BY <2>4 DEF Admission!Accept
  <2>5. ASSUME NEW o \in Org, NEW u \in User, Admission!Expel(o, u) PROVE Stands
    BY <2>5 DEF Admission!Expel
  <2>6. CASE \/ UNCHANGED Admission!vars \/ Admission!Fail \/ Admission!Tick
             \/ \E o \in Org : Admission!AnnounceOrg(o)
             \/ \E i \in Inv : Admission!AnnounceInvitation(i)
             \/ \E i \in Inv, u \in User : Admission!AnnounceMember(i, u)
    <3>1. UNCHANGED <<orgs, members, invitations>>
      BY <2>6 DEF Admission!vars, Admission!Fail, Admission!Tick, Admission!AnnounceOrg,
                  Admission!AnnounceInvitation, Admission!AnnounceMember, Admission!Announce
    <3> QED
      BY <3>1
  <2> HIDE DEF Stands
  <2> QED
    BY <1>1, <2>1, <2>2, <2>3, <2>4, <2>5, <2>6 DEF Admission!Next
<1>2. MembershipInv /\ FreshIsUnknown /\ AdmissionInv /\ [Next]_vars => [Stands]_vars
  BY <1>1, AdmissionStep
<1> QED
  BY <1>2, InvariantHolds, OwnersComeFirst, AdmissionInvHolds, PTL DEF Spec, RowsStand
=============================================================================
