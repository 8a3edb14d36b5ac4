-------------------------- MODULE OrgGroupsProofs --------------------------
(* Theorems about OrgGroups, for every value of its constants. *)
EXTENDS OrgGroups, TLAPS

THEOREM TypeCorrect == Spec => []TypeOK
<1>1. Init => TypeOK
  BY OrgGroupsAssumption DEF Init, TypeOK, NoRequest, NoSweep
<1>2. TypeOK /\ [Next]_vars => TypeOK'
  <2> SUFFICES ASSUME TypeOK, [Next]_vars PROVE TypeOK'
    OBVIOUS
  <2> USE OrgGroupsAssumption DEF TypeOK, Outcome, Tuple, tables, events, history
  <2>1. ASSUME NEW p \in Proc, NEW g \in Group, NEW r \in Row,
               "create" \in Ops, StartCreate(p, g, r)
        PROVE TypeOK'
    BY <2>1 DEF StartCreate, Request, NewGroup, Row
  <2>2. ASSUME NEW p \in Proc, NEW op \in Ops, NEW g \in Group, NEW u \in User,
               StartChange(p, op, g, u)
        PROVE TypeOK'
    BY <2>2 DEF StartChange, Request, NewGroup
  <2>3. ASSUME NEW p \in Proc, NEW g \in Group, NEW u \in User,
               "token" \in Ops, StartToken(p, g, u)
        PROVE TypeOK'
    BY <2>3 DEF StartToken, Request, NewGroup
  <2>4. ASSUME NEW p \in Proc, NEW o \in Outcome, CreateRow(p, o)
        PROVE TypeOK'
    BY <2>4 DEF CreateRow, Settle, AfterWrite, Owes, TupleOf, FeedOf, Request, NoRequest
  <2>5. ASSUME NEW p \in Proc, NEW o \in Outcome, AddMember(p, o)
        PROVE TypeOK'
    BY <2>5 DEF AddMember, Settle, AfterWrite, Owes, TupleOf, FeedOf, Request, NoRequest
  <2>6. ASSUME NEW p \in Proc, NEW o \in Outcome, RemoveMember(p, o)
        PROVE TypeOK'
    BY <2>6 DEF RemoveMember, Settle, AfterWrite, Owes, TupleOf, FeedOf, Request, NoRequest
  <2>7. ASSUME NEW p \in Proc, NEW o \in Outcome, WriteRelation(p, o)
        PROVE TypeOK'
    BY <2>7 DEF WriteRelation, BestEffort, TupleOf, Request, NoRequest
  <2>8. ASSUME NEW p \in Proc, NEW o \in Outcome, DeleteRelation(p, o)
        PROVE TypeOK'
    BY <2>8 DEF DeleteRelation, BestEffort, TupleOf, Request, NoRequest
  <2>9. ASSUME NEW p \in Proc, NEW o \in Outcome, PublishCreated(p, o)
        PROVE TypeOK'
    BY <2>9 DEF PublishCreated, BestEffort, Request, NoRequest
  <2>10. ASSUME NEW p \in Proc, NEW o \in Outcome, PublishChange(p, o)
         PROVE TypeOK'
    BY <2>10 DEF PublishChange, BestEffort, FeedOf, Request, NoRequest
  <2>11. ASSUME NEW p \in Proc, IssueToken(p)
         PROVE TypeOK'
    BY <2>11 DEF IssueToken, Token, Request, NewGroup, Row, NoRequest
  <2>12. CASE SweepList
    BY <2>12 DEF SweepList, Onward, NoSweep, Expired, NewGroup, Row
  <2>13. ASSUME NEW e \in Group \X User, NEW o \in {"ok", "lost"}, SweepMembers(e, o)
         PROVE TypeOK'
    BY <2>13 DEF SweepMembers, NoSweep
  <2>14. ASSUME NEW t \in Tuple, NEW o \in {"ok", "lost"}, SweepRelation(t, o)
         PROVE TypeOK'
    BY <2>14 DEF SweepRelation, NoSweep
  <2>15. ASSUME NEW o \in Outcome, SweepDelete(o)
         PROVE TypeOK'
    BY <2>15 DEF SweepDelete, Onward, NoSweep
  <2>16. ASSUME NEW o \in {"ok", "lost"}, SweepPublish(o)
         PROVE TypeOK'
    BY <2>16 DEF SweepPublish, Onward, NoSweep
  <2>17. CASE Tick
    BY <2>17 DEF Tick
  <2>18. CASE Crash
    BY <2>18 DEF Crash, Owes, TupleOf, FeedOf, Request, NoRequest, NoSweep
  <2>19. CASE UNCHANGED vars
    BY <2>19 DEF vars
  <2> QED
    BY <2>1, <2>2, <2>3, <2>4, <2>5, <2>6, <2>7, <2>8, <2>9, <2>10, <2>11, <2>12,
       <2>13, <2>14, <2>15, <2>16, <2>17, <2>18, <2>19
       DEF Next, Start, Handle, Sweeper
<1> QED
  BY <1>1, <1>2, PTL DEF Spec

(***************************************************************************)
(* What a step can do to a group whose row has been inserted: nothing, or  *)
(* the sweeper deletes the row of an ephemeral group past its expiry.      *)
(***************************************************************************)
RowKept(g) ==
    \/ g \in DOMAIN groups /\ g \in DOMAIN groups' /\ groups'[g] = groups[g]
    \/ g \notin DOMAIN groups /\ g \notin DOMAIN groups'
RowExpires(g) ==
    /\ g \in DOMAIN groups /\ g \notin DOMAIN groups'
    /\ groups[g].ephemeral /\ groups[g].expiresAt < clock

LEMMA BornStays ==
    ASSUME TypeOK, [Next]_vars, NEW h \in Group, Born(h) PROVE Born(h)'
<1> USE DEF TypeOK, Born, Creating, Request, NoRequest, tables, events, history
<1>1. ASSUME NEW p \in Proc, NEW g \in Group, NEW r \in Row, "create" \in Ops,
        StartCreate(p, g, r)
        PROVE Born(h)'
        BY <1>1 DEF StartCreate
<1>2. ASSUME NEW p \in Proc, NEW op \in Ops, NEW g \in Group, NEW u \in User,
        StartChange(p, op, g, u)
        PROVE Born(h)'
        BY <1>2 DEF StartChange
<1>3. ASSUME NEW p \in Proc, NEW g \in Group, NEW u \in User, "token" \in Ops,
        StartToken(p, g, u)
        PROVE Born(h)'
        BY <1>3 DEF StartToken
<1>4. ASSUME NEW p \in Proc, NEW o \in Outcome, CreateRow(p, o)
        PROVE Born(h)'
        BY <1>4 DEF CreateRow, Settle, AfterWrite
<1>5. ASSUME NEW p \in Proc, NEW o \in Outcome, AddMember(p, o)
        PROVE Born(h)'
        BY <1>5 DEF AddMember, Settle, AfterWrite
<1>6. ASSUME NEW p \in Proc, NEW o \in Outcome, RemoveMember(p, o)
        PROVE Born(h)'
        BY <1>6 DEF RemoveMember, Settle, AfterWrite
<1>7. ASSUME NEW p \in Proc, NEW o \in Outcome, WriteRelation(p, o)
        PROVE Born(h)'
        BY <1>7 DEF WriteRelation, BestEffort
<1>8. ASSUME NEW p \in Proc, NEW o \in Outcome, DeleteRelation(p, o)
        PROVE Born(h)'
        BY <1>8 DEF DeleteRelation, BestEffort
<1>9. ASSUME NEW p \in Proc, NEW o \in Outcome, PublishCreated(p, o)
        PROVE Born(h)'
        BY <1>9 DEF PublishCreated, BestEffort
<1>10. ASSUME NEW p \in Proc, NEW o \in Outcome, PublishChange(p, o)
        PROVE Born(h)'
        BY <1>10 DEF PublishChange, BestEffort
<1>11. ASSUME NEW p \in Proc, IssueToken(p)
        PROVE Born(h)'
        BY <1>11 DEF IssueToken
<1>12. CASE SweepList
        BY <1>12 DEF SweepList, Onward
<1>13. ASSUME NEW e \in Group \X User, NEW o \in {"ok", "lost"}, SweepMembers(e, o)
        PROVE Born(h)'
        BY <1>13 DEF SweepMembers
<1>14. ASSUME NEW t \in Tuple, NEW o \in {"ok", "lost"}, SweepRelation(t, o)
        PROVE Born(h)'
        BY <1>14 DEF SweepRelation
<1>15. ASSUME NEW o \in Outcome, SweepDelete(o)
        PROVE Born(h)'
        BY <1>15 DEF SweepDelete, Onward
<1>16. ASSUME NEW o \in {"ok", "lost"}, SweepPublish(o)
        PROVE Born(h)'
        BY <1>16 DEF SweepPublish, Onward
<1>17. CASE Tick
        BY <1>17 DEF Tick
<1>18. CASE Crash
        BY <1>18 DEF Crash
<1>19. CASE UNCHANGED vars
        BY <1>19 DEF vars
<1> QED
    BY <1>1, <1>2, <1>3, <1>4, <1>5, <1>6, <1>7, <1>8, <1>9, <1>10, <1>11,
       <1>12, <1>13, <1>14, <1>15, <1>16, <1>17, <1>18, <1>19
       DEF Next, Start, Handle, Sweeper

LEMMA RowStep ==
    ASSUME TypeOK, SweepSound, RequestsSound, [Next]_vars, NEW h \in Group, Born(h)
    PROVE  (RowKept(h) \/ RowExpires(h)) /\ clock' \in Int /\ clock' >= clock
<1> USE DEF TypeOK, RowKept, RowExpires, tables, events, history
<1>1. ASSUME NEW p \in Proc, NEW g \in Group, NEW r \in Row, "create" \in Ops,
        StartCreate(p, g, r)
        PROVE (RowKept(h) \/ RowExpires(h)) /\ clock' \in Int /\ clock' >= clock
        BY <1>1 DEF StartCreate
<1>2. ASSUME NEW p \in Proc, NEW op \in Ops, NEW g \in Group, NEW u \in User,
        StartChange(p, op, g, u)
        PROVE (RowKept(h) \/ RowExpires(h)) /\ clock' \in Int /\ clock' >= clock
        BY <1>2 DEF StartChange
<1>3. ASSUME NEW p \in Proc, NEW g \in Group, NEW u \in User, "token" \in Ops,
        StartToken(p, g, u)
        PROVE (RowKept(h) \/ RowExpires(h)) /\ clock' \in Int /\ clock' >= clock
        BY <1>3 DEF StartToken
<1>4. ASSUME NEW p \in Proc, NEW o \in Outcome, CreateRow(p, o)
        PROVE (RowKept(h) \/ RowExpires(h)) /\ clock' \in Int /\ clock' >= clock
        BY <1>4 DEF CreateRow, Settle, AfterWrite, Born, Creating
<1>5. ASSUME NEW p \in Proc, NEW o \in Outcome, AddMember(p, o)
        PROVE (RowKept(h) \/ RowExpires(h)) /\ clock' \in Int /\ clock' >= clock
        BY <1>5 DEF AddMember, Settle, AfterWrite
<1>6. ASSUME NEW p \in Proc, NEW o \in Outcome, RemoveMember(p, o)
        PROVE (RowKept(h) \/ RowExpires(h)) /\ clock' \in Int /\ clock' >= clock
        BY <1>6 DEF RemoveMember, Settle, AfterWrite
<1>7. ASSUME NEW p \in Proc, NEW o \in Outcome, WriteRelation(p, o)
        PROVE (RowKept(h) \/ RowExpires(h)) /\ clock' \in Int /\ clock' >= clock
        BY <1>7 DEF WriteRelation, BestEffort
<1>8. ASSUME NEW p \in Proc, NEW o \in Outcome, DeleteRelation(p, o)
        PROVE (RowKept(h) \/ RowExpires(h)) /\ clock' \in Int /\ clock' >= clock
        BY <1>8 DEF DeleteRelation, BestEffort
<1>9. ASSUME NEW p \in Proc, NEW o \in Outcome, PublishCreated(p, o)
        PROVE (RowKept(h) \/ RowExpires(h)) /\ clock' \in Int /\ clock' >= clock
        BY <1>9 DEF PublishCreated, BestEffort
<1>10. ASSUME NEW p \in Proc, NEW o \in Outcome, PublishChange(p, o)
        PROVE (RowKept(h) \/ RowExpires(h)) /\ clock' \in Int /\ clock' >= clock
        BY <1>10 DEF PublishChange, BestEffort
<1>11. ASSUME NEW p \in Proc, IssueToken(p)
        PROVE (RowKept(h) \/ RowExpires(h)) /\ clock' \in Int /\ clock' >= clock
        BY <1>11 DEF IssueToken
<1>12. CASE SweepList
        BY <1>12 DEF SweepList, Onward
<1>13. ASSUME NEW e \in Group \X User, NEW o \in {"ok", "lost"}, SweepMembers(e, o)
        PROVE (RowKept(h) \/ RowExpires(h)) /\ clock' \in Int /\ clock' >= clock
        BY <1>13 DEF SweepMembers
<1>14. ASSUME NEW t \in Tuple, NEW o \in {"ok", "lost"}, SweepRelation(t, o)
        PROVE (RowKept(h) \/ RowExpires(h)) /\ clock' \in Int /\ clock' >= clock
        BY <1>14 DEF SweepRelation
<1>15. ASSUME NEW o \in Outcome, SweepDelete(o)
        PROVE (RowKept(h) \/ RowExpires(h)) /\ clock' \in Int /\ clock' >= clock
        BY <1>15 DEF SweepDelete, Onward, SweepSound, Condemned, NoSweep
<1>16. ASSUME NEW o \in {"ok", "lost"}, SweepPublish(o)
        PROVE (RowKept(h) \/ RowExpires(h)) /\ clock' \in Int /\ clock' >= clock
        BY <1>16 DEF SweepPublish, Onward
<1>17. CASE Tick
        BY <1>17 DEF Tick
<1>18. CASE Crash
        BY <1>18 DEF Crash
<1>19. CASE UNCHANGED vars
        BY <1>19 DEF vars
<1> QED
    BY <1>1, <1>2, <1>3, <1>4, <1>5, <1>6, <1>7, <1>8, <1>9, <1>10, <1>11,
       <1>12, <1>13, <1>14, <1>15, <1>16, <1>17, <1>18, <1>19
       DEF Next, Start, Handle, Sweeper

LEMMA TimeIsInt == Expiry \cup {NoTime} \subseteq Int
<1>1. Expiry \subseteq Int
  BY OrgGroupsAssumption
<1>2. NoTime \in Int
  BY DEF NoTime
<1> QED
  BY <1>1, <1>2

LEMMA SnapshotStays ==
    ASSUME TypeOK, SweepSound, RequestsSound, [Next]_vars,
           NEW h \in Group, NEW r \in NewGroup, Snapshot(h, r)
    PROVE  Snapshot(h, r)'
<1>1. Born(h)'
  BY BornStays DEF Snapshot
<1>2. (RowKept(h) \/ RowExpires(h)) /\ clock' \in Int /\ clock' >= clock
  BY RowStep DEF Snapshot
<1>3. r.expiresAt \in Int /\ clock \in Int
  BY OrgGroupsAssumption, TimeIsInt DEF TypeOK, NewGroup, Row
<1>4. CASE RowKept(h)
  BY <1>1, <1>2, <1>3, <1>4 DEF Snapshot, RowKept
<1>5. CASE RowExpires(h)
  BY <1>1, <1>2, <1>3, <1>5 DEF Snapshot, RowExpires
<1> QED
  BY <1>2, <1>4, <1>5

LEMMA CondemnedStays ==
    ASSUME TypeOK, SweepSound, RequestsSound, [Next]_vars, NEW h \in Group, Condemned(h)
    PROVE  Condemned(h)'
<1>1. Born(h)'
  BY BornStays DEF Condemned
<1>2. (RowKept(h) \/ RowExpires(h)) /\ clock' \in Int /\ clock' >= clock
  BY RowStep DEF Condemned
<1>3. clock \in Int /\ (h \in DOMAIN groups => groups[h].expiresAt \in Int)
  BY OrgGroupsAssumption, TimeIsInt DEF TypeOK, NewGroup, Row
<1>4. CASE RowKept(h)
  BY <1>1, <1>2, <1>3, <1>4 DEF Condemned, RowKept
<1>5. CASE RowExpires(h)
  BY <1>1, <1>2, <1>3, <1>5 DEF Condemned, RowExpires
<1> QED
  BY <1>2, <1>4, <1>5

LEMMA IdsStep ==
    ASSUME LifecycleInv, [Next]_vars PROVE IdsSound'
<1> USE BornStays
    DEF LifecycleInv, TypeOK, IdsSound, Creating, Request, NoRequest, tables, events, history
<1>1. ASSUME NEW p \in Proc, NEW g \in Group, NEW r \in Row, "create" \in Ops,
        StartCreate(p, g, r)
        PROVE IdsSound'
    BY <1>1 DEF StartCreate, Born
<1>2. ASSUME NEW p \in Proc, NEW op \in Ops, NEW g \in Group, NEW u \in User,
        StartChange(p, op, g, u)
        PROVE IdsSound'
    BY <1>2 DEF StartChange
<1>3. ASSUME NEW p \in Proc, NEW g \in Group, NEW u \in User, "token" \in Ops,
        StartToken(p, g, u)
        PROVE IdsSound'
    BY <1>3 DEF StartToken
<1>4. ASSUME NEW p \in Proc, NEW o \in Outcome, CreateRow(p, o)
        PROVE IdsSound'
    BY <1>4 DEF CreateRow, Settle, AfterWrite, Born
<1>5. ASSUME NEW p \in Proc, NEW o \in Outcome, AddMember(p, o)
        PROVE IdsSound'
    BY <1>5 DEF AddMember, Settle, AfterWrite, RequestsSound, Snapshot
<1>6. ASSUME NEW p \in Proc, NEW o \in Outcome, RemoveMember(p, o)
        PROVE IdsSound'
    BY <1>6 DEF RemoveMember, Settle, AfterWrite, RequestsSound, Snapshot
<1>7. ASSUME NEW p \in Proc, NEW o \in Outcome, WriteRelation(p, o)
        PROVE IdsSound'
    BY <1>7 DEF WriteRelation, BestEffort
<1>8. ASSUME NEW p \in Proc, NEW o \in Outcome, DeleteRelation(p, o)
        PROVE IdsSound'
    BY <1>8 DEF DeleteRelation, BestEffort
<1>9. ASSUME NEW p \in Proc, NEW o \in Outcome, PublishCreated(p, o)
        PROVE IdsSound'
    BY <1>9 DEF PublishCreated, BestEffort
<1>10. ASSUME NEW p \in Proc, NEW o \in Outcome, PublishChange(p, o)
        PROVE IdsSound'
    BY <1>10 DEF PublishChange, BestEffort
<1>11. ASSUME NEW p \in Proc, IssueToken(p)
        PROVE IdsSound'
    BY <1>11 DEF IssueToken
<1>12. CASE SweepList
    BY <1>12 DEF SweepList, Onward
<1>13. ASSUME NEW e \in Group \X User, NEW o \in {"ok", "lost"}, SweepMembers(e, o)
        PROVE IdsSound'
    BY <1>13 DEF SweepMembers
<1>14. ASSUME NEW t \in Tuple, NEW o \in {"ok", "lost"}, SweepRelation(t, o)
        PROVE IdsSound'
    BY <1>14 DEF SweepRelation
<1>15. ASSUME NEW o \in Outcome, SweepDelete(o)
        PROVE IdsSound'
    BY <1>15 DEF SweepDelete, Onward
<1>16. ASSUME NEW o \in {"ok", "lost"}, SweepPublish(o)
        PROVE IdsSound'
    BY <1>16 DEF SweepPublish, Onward
<1>17. CASE Tick
    BY <1>17 DEF Tick
<1>18. CASE Crash
    BY <1>18 DEF Crash
<1>19. CASE UNCHANGED vars
    BY <1>19 DEF vars
<1> QED
    BY <1>1, <1>2, <1>3, <1>4, <1>5, <1>6, <1>7, <1>8, <1>9, <1>10, <1>11,
       <1>12, <1>13, <1>14, <1>15, <1>16, <1>17, <1>18, <1>19
       DEF Next, Start, Handle, Sweeper

LEMMA SweepStep ==
    ASSUME LifecycleInv, [Next]_vars PROVE SweepSound'
<1>0. \A h \in Group : Condemned(h) => Condemned(h)'
  BY CondemnedStays DEF LifecycleInv
<1> USE <1>0
    DEF LifecycleInv, TypeOK, SweepSound, Condemned, Born, Creating, tables, events, history
<1>1. ASSUME NEW p \in Proc, NEW g \in Group, NEW r \in Row, "create" \in Ops,
        StartCreate(p, g, r)
        PROVE SweepSound'
    BY <1>1 DEF StartCreate
<1>2. ASSUME NEW p \in Proc, NEW op \in Ops, NEW g \in Group, NEW u \in User,
        StartChange(p, op, g, u)
        PROVE SweepSound'
    BY <1>2 DEF StartChange
<1>3. ASSUME NEW p \in Proc, NEW g \in Group, NEW u \in User, "token" \in Ops,
        StartToken(p, g, u)
        PROVE SweepSound'
    BY <1>3 DEF StartToken
<1>4. ASSUME NEW p \in Proc, NEW o \in Outcome, CreateRow(p, o)
        PROVE SweepSound'
  <2>1. sweep' = sweep
    BY <1>4 DEF CreateRow
  <2>2. sweep.pc = "publish" => sweep.group \notin DOMAIN groups'
    BY <1>4 DEF CreateRow, NoSweep
  <2> QED
    BY <2>1, <2>2
<1>5. ASSUME NEW p \in Proc, NEW o \in Outcome, AddMember(p, o)
        PROVE SweepSound'
    BY <1>5 DEF AddMember, Settle, AfterWrite
<1>6. ASSUME NEW p \in Proc, NEW o \in Outcome, RemoveMember(p, o)
        PROVE SweepSound'
    BY <1>6 DEF RemoveMember, Settle, AfterWrite
<1>7. ASSUME NEW p \in Proc, NEW o \in Outcome, WriteRelation(p, o)
        PROVE SweepSound'
    BY <1>7 DEF WriteRelation, BestEffort
<1>8. ASSUME NEW p \in Proc, NEW o \in Outcome, DeleteRelation(p, o)
        PROVE SweepSound'
    BY <1>8 DEF DeleteRelation, BestEffort
<1>9. ASSUME NEW p \in Proc, NEW o \in Outcome, PublishCreated(p, o)
        PROVE SweepSound'
    BY <1>9 DEF PublishCreated, BestEffort
<1>10. ASSUME NEW p \in Proc, NEW o \in Outcome, PublishChange(p, o)
        PROVE SweepSound'
    BY <1>10 DEF PublishChange, BestEffort
<1>11. ASSUME NEW p \in Proc, IssueToken(p)
        PROVE SweepSound'
    BY <1>11 DEF IssueToken
<1>12. CASE SweepList
    BY <1>12 DEF SweepList, Onward, Expired, Condemned, IdsSound, NoSweep
<1>13. ASSUME NEW e \in Group \X User, NEW o \in {"ok", "lost"}, SweepMembers(e, o)
        PROVE SweepSound'
    BY <1>13 DEF SweepMembers, NoSweep
<1>14. ASSUME NEW t \in Tuple, NEW o \in {"ok", "lost"}, SweepRelation(t, o)
        PROVE SweepSound'
    BY <1>14 DEF SweepRelation
<1>15. ASSUME NEW o \in Outcome, SweepDelete(o)
        PROVE SweepSound'
    BY <1>15 DEF SweepDelete, Onward, NoSweep, Applied
<1>16. ASSUME NEW o \in {"ok", "lost"}, SweepPublish(o)
        PROVE SweepSound'
    BY <1>16 DEF SweepPublish, Onward, NoSweep
<1>17. CASE Tick
    BY <1>17 DEF Tick
<1>18. CASE Crash
    BY <1>18 DEF Crash, NoSweep
<1>19. CASE UNCHANGED vars
    BY <1>19 DEF vars
<1> QED
    BY <1>1, <1>2, <1>3, <1>4, <1>5, <1>6, <1>7, <1>8, <1>9, <1>10, <1>11,
       <1>12, <1>13, <1>14, <1>15, <1>16, <1>17, <1>18, <1>19
       DEF Next, Start, Handle, Sweeper

LEMMA RequestsStep ==
    ASSUME LifecycleInv, TypeOK', [Next]_vars PROVE RequestsSound'
<1>0. \A h \in Group, r \in NewGroup : Snapshot(h, r) => Snapshot(h, r)'
  BY SnapshotStays DEF LifecycleInv
<1> USE <1>0
    DEF LifecycleInv, TypeOK, IdsSound, RequestsSound, Snapshot, Born, Creating,
        Request, NoRequest, tables, events, history
<1>1. ASSUME NEW p \in Proc, NEW g \in Group, NEW r \in Row, "create" \in Ops,
        StartCreate(p, g, r)
        PROVE RequestsSound'
    BY <1>1 DEF StartCreate, NewGroup
<1>2. ASSUME NEW p \in Proc, NEW op \in Ops, NEW g \in Group, NEW u \in User,
        StartChange(p, op, g, u)
        PROVE RequestsSound'
    BY <1>2 DEF StartChange
<1>3. ASSUME NEW p \in Proc, NEW g \in Group, NEW u \in User, "token" \in Ops,
        StartToken(p, g, u)
        PROVE RequestsSound'
    BY <1>3 DEF StartToken
<1>4. ASSUME NEW p \in Proc, NEW o \in Outcome, CreateRow(p, o)
        PROVE RequestsSound'
    BY <1>4 DEF CreateRow, Settle, AfterWrite, Applied
<1>5. ASSUME NEW p \in Proc, NEW o \in Outcome, AddMember(p, o)
        PROVE RequestsSound'
    BY <1>5 DEF AddMember, Settle, AfterWrite
<1>6. ASSUME NEW p \in Proc, NEW o \in Outcome, RemoveMember(p, o)
        PROVE RequestsSound'
    BY <1>6 DEF RemoveMember, Settle, AfterWrite
<1>7. ASSUME NEW p \in Proc, NEW o \in Outcome, WriteRelation(p, o)
        PROVE RequestsSound'
    BY <1>7 DEF WriteRelation, BestEffort
<1>8. ASSUME NEW p \in Proc, NEW o \in Outcome, DeleteRelation(p, o)
        PROVE RequestsSound'
    BY <1>8 DEF DeleteRelation, BestEffort
<1>9. ASSUME NEW p \in Proc, NEW o \in Outcome, PublishCreated(p, o)
        PROVE RequestsSound'
    BY <1>9 DEF PublishCreated, BestEffort
<1>10. ASSUME NEW p \in Proc, NEW o \in Outcome, PublishChange(p, o)
        PROVE RequestsSound'
    BY <1>10 DEF PublishChange, BestEffort
<1>11. ASSUME NEW p \in Proc, IssueToken(p)
        PROVE RequestsSound'
    BY <1>11 DEF IssueToken
<1>12. CASE SweepList
    BY <1>12 DEF SweepList, Onward
<1>13. ASSUME NEW e \in Group \X User, NEW o \in {"ok", "lost"}, SweepMembers(e, o)
        PROVE RequestsSound'
    BY <1>13 DEF SweepMembers
<1>14. ASSUME NEW t \in Tuple, NEW o \in {"ok", "lost"}, SweepRelation(t, o)
        PROVE RequestsSound'
    BY <1>14 DEF SweepRelation
<1>15. ASSUME NEW o \in Outcome, SweepDelete(o)
        PROVE RequestsSound'
  <2>1. proc' = proc
    BY <1>15 DEF SweepDelete
  <2> QED
    BY <2>1
<1>16. ASSUME NEW o \in {"ok", "lost"}, SweepPublish(o)
        PROVE RequestsSound'
    BY <1>16 DEF SweepPublish, Onward
<1>17. CASE Tick
    BY <1>17 DEF Tick
<1>18. CASE Crash
    BY <1>18 DEF Crash
<1>19. CASE UNCHANGED vars
    BY <1>19 DEF vars
<1>20. ASSUME NEW p \in Proc, Start(p) PROVE RequestsSound'
    BY ONLY <1>20, <1>1, <1>2, <1>3 DEF Start
<1>21. ASSUME NEW p \in Proc, Handle(p) PROVE RequestsSound'
    BY ONLY <1>21, <1>4, <1>5, <1>6, <1>7, <1>8, <1>9, <1>10, <1>11 DEF Handle
<1>22. CASE Sweeper
    BY ONLY <1>22, <1>12, <1>13, <1>14, <1>15, <1>16 DEF Sweeper
<1>23. [Next]_vars
    OBVIOUS
<1> QED
    BY ONLY <1>23, <1>17, <1>18, <1>19, <1>20, <1>21, <1>22 DEF Next

LEMMA TokensStep ==
    ASSUME LifecycleInv, [Next]_vars PROVE TokensSound'
<1>0. \A k \in tokens :
         /\ Born(k.group)'
         /\ k.group \in DOMAIN groups' => groups'[k.group].expiresAt = k.exp
         /\ k.group \notin DOMAIN groups' => k.exp < clock'
  <2> SUFFICES ASSUME NEW k \in tokens
               PROVE  /\ Born(k.group)'
                      /\ k.group \in DOMAIN groups' => groups'[k.group].expiresAt = k.exp
                      /\ k.group \notin DOMAIN groups' => k.exp < clock'
    OBVIOUS
  <2>1. k.group \in Group /\ k.exp \in Int /\ clock \in Int
    BY TimeIsInt, OrgGroupsAssumption DEF LifecycleInv, TypeOK, Token
  <2>2. Born(k.group) /\ Born(k.group)'
    BY <2>1, BornStays DEF LifecycleInv, TokensSound
  <2>3. /\ RowKept(k.group) \/ RowExpires(k.group)
        /\ clock' \in Int /\ clock' >= clock
    BY <2>1, <2>2, RowStep DEF LifecycleInv
  <2> QED
    BY <2>1, <2>2, <2>3 DEF LifecycleInv, TokensSound, RowKept, RowExpires
<1> USE <1>0
    DEF LifecycleInv, TypeOK, TokensSound, Born, Creating, tables, events, history
<1>1. ASSUME NEW p \in Proc, NEW g \in Group, NEW r \in Row, "create" \in Ops,
        StartCreate(p, g, r)
        PROVE TokensSound'
    BY <1>1 DEF StartCreate
<1>2. ASSUME NEW p \in Proc, NEW op \in Ops, NEW g \in Group, NEW u \in User,
        StartChange(p, op, g, u)
        PROVE TokensSound'
    BY <1>2 DEF StartChange
<1>3. ASSUME NEW p \in Proc, NEW g \in Group, NEW u \in User, "token" \in Ops,
        StartToken(p, g, u)
        PROVE TokensSound'
    BY <1>3 DEF StartToken
<1>4. ASSUME NEW p \in Proc, NEW o \in Outcome, CreateRow(p, o)
        PROVE TokensSound'
    BY <1>4 DEF CreateRow, Settle, AfterWrite
<1>5. ASSUME NEW p \in Proc, NEW o \in Outcome, AddMember(p, o)
        PROVE TokensSound'
    BY <1>5 DEF AddMember, Settle, AfterWrite
<1>6. ASSUME NEW p \in Proc, NEW o \in Outcome, RemoveMember(p, o)
        PROVE TokensSound'
    BY <1>6 DEF RemoveMember, Settle, AfterWrite
<1>7. ASSUME NEW p \in Proc, NEW o \in Outcome, WriteRelation(p, o)
        PROVE TokensSound'
    BY <1>7 DEF WriteRelation, BestEffort
<1>8. ASSUME NEW p \in Proc, NEW o \in Outcome, DeleteRelation(p, o)
        PROVE TokensSound'
    BY <1>8 DEF DeleteRelation, BestEffort
<1>9. ASSUME NEW p \in Proc, NEW o \in Outcome, PublishCreated(p, o)
        PROVE TokensSound'
    BY <1>9 DEF PublishCreated, BestEffort
<1>10. ASSUME NEW p \in Proc, NEW o \in Outcome, PublishChange(p, o)
        PROVE TokensSound'
    BY <1>10 DEF PublishChange, BestEffort
<1>11. ASSUME NEW p \in Proc, IssueToken(p)
        PROVE TokensSound'
    BY <1>11 DEF IssueToken, RequestsSound, Snapshot, Request, NoRequest
<1>12. CASE SweepList
    BY <1>12 DEF SweepList, Onward
<1>13. ASSUME NEW e \in Group \X User, NEW o \in {"ok", "lost"}, SweepMembers(e, o)
        PROVE TokensSound'
    BY <1>13 DEF SweepMembers
<1>14. ASSUME NEW t \in Tuple, NEW o \in {"ok", "lost"}, SweepRelation(t, o)
        PROVE TokensSound'
    BY <1>14 DEF SweepRelation
<1>15. ASSUME NEW o \in Outcome, SweepDelete(o)
        PROVE TokensSound'
    BY <1>15 DEF SweepDelete, Onward
<1>16. ASSUME NEW o \in {"ok", "lost"}, SweepPublish(o)
        PROVE TokensSound'
    BY <1>16 DEF SweepPublish, Onward
<1>17. CASE Tick
    BY <1>17 DEF Tick
<1>18. CASE Crash
    BY <1>18 DEF Crash
<1>19. CASE UNCHANGED vars
    BY <1>19 DEF vars
<1> QED
    BY <1>1, <1>2, <1>3, <1>4, <1>5, <1>6, <1>7, <1>8, <1>9, <1>10, <1>11,
       <1>12, <1>13, <1>14, <1>15, <1>16, <1>17, <1>18, <1>19
       DEF Next, Start, Handle, Sweeper

LEMMA AnnouncedStep ==
    ASSUME LifecycleInv, [Next]_vars PROVE AnnouncedSound'
<1>0. \A h \in Group : Born(h) => Born(h)' /\ (RowKept(h) \/ RowExpires(h))
  BY BornStays, RowStep DEF LifecycleInv
<1> USE <1>0
    DEF LifecycleInv, TypeOK, AnnouncedSound, Born, Creating, RowKept, RowExpires,
        tables, events, history
<1>1. ASSUME NEW p \in Proc, NEW g \in Group, NEW r \in Row, "create" \in Ops,
        StartCreate(p, g, r)
        PROVE AnnouncedSound'
    BY <1>1 DEF StartCreate
<1>2. ASSUME NEW p \in Proc, NEW op \in Ops, NEW g \in Group, NEW u \in User,
        StartChange(p, op, g, u)
        PROVE AnnouncedSound'
    BY <1>2 DEF StartChange
<1>3. ASSUME NEW p \in Proc, NEW g \in Group, NEW u \in User, "token" \in Ops,
        StartToken(p, g, u)
        PROVE AnnouncedSound'
    BY <1>3 DEF StartToken
<1>4. ASSUME NEW p \in Proc, NEW o \in Outcome, CreateRow(p, o)
        PROVE AnnouncedSound'
    BY <1>4 DEF CreateRow, Settle, AfterWrite
<1>5. ASSUME NEW p \in Proc, NEW o \in Outcome, AddMember(p, o)
        PROVE AnnouncedSound'
    BY <1>5 DEF AddMember, Settle, AfterWrite
<1>6. ASSUME NEW p \in Proc, NEW o \in Outcome, RemoveMember(p, o)
        PROVE AnnouncedSound'
    BY <1>6 DEF RemoveMember, Settle, AfterWrite
<1>7. ASSUME NEW p \in Proc, NEW o \in Outcome, WriteRelation(p, o)
        PROVE AnnouncedSound'
    BY <1>7 DEF WriteRelation, BestEffort
<1>8. ASSUME NEW p \in Proc, NEW o \in Outcome, DeleteRelation(p, o)
        PROVE AnnouncedSound'
    BY <1>8 DEF DeleteRelation, BestEffort
<1>9. ASSUME NEW p \in Proc, NEW o \in Outcome, PublishCreated(p, o)
        PROVE AnnouncedSound'
    BY <1>9 DEF PublishCreated, BestEffort
<1>10. ASSUME NEW p \in Proc, NEW o \in Outcome, PublishChange(p, o)
        PROVE AnnouncedSound'
    BY <1>10 DEF PublishChange, BestEffort
<1>11. ASSUME NEW p \in Proc, IssueToken(p)
        PROVE AnnouncedSound'
    BY <1>11 DEF IssueToken
<1>12. CASE SweepList
    BY <1>12 DEF SweepList, Onward
<1>13. ASSUME NEW e \in Group \X User, NEW o \in {"ok", "lost"}, SweepMembers(e, o)
        PROVE AnnouncedSound'
    BY <1>13 DEF SweepMembers
<1>14. ASSUME NEW t \in Tuple, NEW o \in {"ok", "lost"}, SweepRelation(t, o)
        PROVE AnnouncedSound'
    BY <1>14 DEF SweepRelation
<1>15. ASSUME NEW o \in Outcome, SweepDelete(o)
        PROVE AnnouncedSound'
    BY <1>15 DEF SweepDelete, Onward
<1>16. ASSUME NEW o \in {"ok", "lost"}, SweepPublish(o)
        PROVE AnnouncedSound'
    BY <1>16 DEF SweepPublish, Onward, SweepSound, Condemned, NoSweep
<1>17. CASE Tick
    BY <1>17 DEF Tick
<1>18. CASE Crash
    BY <1>18 DEF Crash
<1>19. CASE UNCHANGED vars
    BY <1>19 DEF vars
<1> QED
    BY <1>1, <1>2, <1>3, <1>4, <1>5, <1>6, <1>7, <1>8, <1>9, <1>10, <1>11,
       <1>12, <1>13, <1>14, <1>15, <1>16, <1>17, <1>18, <1>19
       DEF Next, Start, Handle, Sweeper

LEMMA TuplesStep ==
    ASSUME LifecycleInv, [Next]_vars PROVE EphemeralHasNoTuples'
<1>0. \A h \in Group : Born(h) => RowKept(h) \/ RowExpires(h)
  BY RowStep DEF LifecycleInv
<1> USE <1>0
    DEF LifecycleInv, TypeOK, IdsSound, EphemeralHasNoTuples, RowKept, RowExpires, Tuple,
        tables, events, history
<1>1. ASSUME NEW p \in Proc, NEW g \in Group, NEW r \in Row, "create" \in Ops,
        StartCreate(p, g, r)
        PROVE EphemeralHasNoTuples'
    BY <1>1 DEF StartCreate
<1>2. ASSUME NEW p \in Proc, NEW op \in Ops, NEW g \in Group, NEW u \in User,
        StartChange(p, op, g, u)
        PROVE EphemeralHasNoTuples'
    BY <1>2 DEF StartChange
<1>3. ASSUME NEW p \in Proc, NEW g \in Group, NEW u \in User, "token" \in Ops,
        StartToken(p, g, u)
        PROVE EphemeralHasNoTuples'
    BY <1>3 DEF StartToken
<1>4. ASSUME NEW p \in Proc, NEW o \in Outcome, CreateRow(p, o)
        PROVE EphemeralHasNoTuples'
    BY <1>4 DEF CreateRow, Settle, AfterWrite
<1>5. ASSUME NEW p \in Proc, NEW o \in Outcome, AddMember(p, o)
        PROVE EphemeralHasNoTuples'
    BY <1>5 DEF AddMember, Settle, AfterWrite
<1>6. ASSUME NEW p \in Proc, NEW o \in Outcome, RemoveMember(p, o)
        PROVE EphemeralHasNoTuples'
    BY <1>6 DEF RemoveMember, Settle, AfterWrite
<1>7. ASSUME NEW p \in Proc, NEW o \in Outcome, WriteRelation(p, o)
        PROVE EphemeralHasNoTuples'
    BY <1>7 DEF WriteRelation, BestEffort, RequestsSound, Snapshot, Creating,
       TupleOf, Request, NoRequest
<1>8. ASSUME NEW p \in Proc, NEW o \in Outcome, DeleteRelation(p, o)
        PROVE EphemeralHasNoTuples'
    BY <1>8 DEF DeleteRelation, BestEffort
<1>9. ASSUME NEW p \in Proc, NEW o \in Outcome, PublishCreated(p, o)
        PROVE EphemeralHasNoTuples'
    BY <1>9 DEF PublishCreated, BestEffort
<1>10. ASSUME NEW p \in Proc, NEW o \in Outcome, PublishChange(p, o)
        PROVE EphemeralHasNoTuples'
    BY <1>10 DEF PublishChange, BestEffort
<1>11. ASSUME NEW p \in Proc, IssueToken(p)
        PROVE EphemeralHasNoTuples'
    BY <1>11 DEF IssueToken
<1>12. CASE SweepList
    BY <1>12 DEF SweepList, Onward
<1>13. ASSUME NEW e \in Group \X User, NEW o \in {"ok", "lost"}, SweepMembers(e, o)
        PROVE EphemeralHasNoTuples'
    BY <1>13 DEF SweepMembers
<1>14. ASSUME NEW t \in Tuple, NEW o \in {"ok", "lost"}, SweepRelation(t, o)
        PROVE EphemeralHasNoTuples'
    BY <1>14 DEF SweepRelation
<1>15. ASSUME NEW o \in Outcome, SweepDelete(o)
        PROVE EphemeralHasNoTuples'
    BY <1>15 DEF SweepDelete, Onward
<1>16. ASSUME NEW o \in {"ok", "lost"}, SweepPublish(o)
        PROVE EphemeralHasNoTuples'
    BY <1>16 DEF SweepPublish, Onward
<1>17. CASE Tick
    BY <1>17 DEF Tick
<1>18. CASE Crash
    BY <1>18 DEF Crash
<1>19. CASE UNCHANGED vars
    BY <1>19 DEF vars
<1> QED
    BY <1>1, <1>2, <1>3, <1>4, <1>5, <1>6, <1>7, <1>8, <1>9, <1>10, <1>11,
       <1>12, <1>13, <1>14, <1>15, <1>16, <1>17, <1>18, <1>19
       DEF Next, Start, Handle, Sweeper

(***************************************************************************)
(* The life of groups: requests, sweeper, tokens and tuples.               *)
(***************************************************************************)
THEOREM Lifecycle == Spec => []LifecycleInv
<1>1. Init => LifecycleInv
  <2> SUFFICES ASSUME Init PROVE LifecycleInv
    OBVIOUS
  <2>1. TypeOK
    BY OrgGroupsAssumption DEF Init, TypeOK, NoRequest, NoSweep
  <2> QED
    BY <2>1 DEF Init, LifecycleInv, IdsSound, RequestsSound, SweepSound, TokensSound,
       AnnouncedSound, EphemeralHasNoTuples, Creating, NoRequest, NoSweep
<1>2. LifecycleInv /\ TypeOK' /\ [Next]_vars => LifecycleInv'
  BY IdsStep, RequestsStep, SweepStep, TokensStep, AnnouncedStep, TuplesStep
     DEF LifecycleInv
<1> QED
  BY <1>1, <1>2, TypeCorrect, PTL DEF Spec

\* Ephemeral groups never have Keto tuples, and no tuple outlives its group.
THEOREM NoTuplesForEphemeral == Spec => []EphemeralHasNoTuples
<1>1. LifecycleInv => EphemeralHasNoTuples
  BY DEF LifecycleInv
<1> QED
  BY <1>1, Lifecycle, PTL

\* No subscription token outlives its group.
THEOREM TokensForLiveGroups == Spec => []LiveTokenLiveGroup
<1>1. LifecycleInv => LiveTokenLiveGroup
  BY TimeIsInt, OrgGroupsAssumption
     DEF LifecycleInv, LiveTokenLiveGroup, TokensSound, TypeOK, Token
<1> QED
  BY <1>1, Lifecycle, PTL

\* group.deleted is true when it is published and for ever after.
THEOREM DeletionsAreFinal == Spec => []DeletedMeansGone
<1>1. LifecycleInv => DeletedMeansGone
  BY DEF LifecycleInv, DeletedMeansGone, AnnouncedSound, Born
<1> QED
  BY <1>1, Lifecycle, PTL

\* A row leaves the table only when it is of an ephemeral group past its expiry,
\* and no step changes a row that stays.
OnlyExpiredLeave ==
    [][\A g \in DOMAIN groups :
          \/ g \in DOMAIN groups' /\ groups'[g] = groups[g]
          \/ groups[g].ephemeral /\ groups[g].expiresAt < clock]_vars

\* The sweeper, working from a snapshot, deletes nothing else than ephemeral
\* groups past their expiry.
THEOREM SweeperDeletesExpired == Spec => OnlyExpiredLeave
<1>1. LifecycleInv /\ [Next]_vars =>
        [\A g \in DOMAIN groups :
            \/ g \in DOMAIN groups' /\ groups'[g] = groups[g]
            \/ groups[g].ephemeral /\ groups[g].expiresAt < clock]_vars
  <2> SUFFICES ASSUME LifecycleInv, [Next]_vars, NEW g \in DOMAIN groups
               PROVE  \/ g \in DOMAIN groups' /\ groups'[g] = groups[g]
                      \/ groups[g].ephemeral /\ groups[g].expiresAt < clock
    OBVIOUS
  <2>1. g \in Group /\ Born(g)
    BY DEF LifecycleInv, TypeOK, IdsSound
  <2>2. RowKept(g) \/ RowExpires(g)
    BY <2>1, RowStep DEF LifecycleInv
  <2> QED
    BY <2>2 DEF RowKept, RowExpires
<1> QED
  BY <1>1, Lifecycle, PTL DEF Spec, OnlyExpiredLeave

\* Only RemoveMember takes a row from group_members, not the sweeper that
\* deletes its group: group.deleted finds the members it is fanned out to.
THEOREM RosterStays == Spec => RosterOutlivesGroup
<1>1. [Next]_vars =>
        [\A m \in members \ members' :
            \E p \in Proc : /\ proc[p].pc = "db" /\ proc[p].op = "remove"
                           /\ proc[p].group = m[1] /\ proc[p].user = m[2]]_vars
  <2> SUFFICES ASSUME [Next]_vars, NEW m \in members \ members'
               PROVE  \E p \in Proc : /\ proc[p].pc = "db" /\ proc[p].op = "remove"
                                     /\ proc[p].group = m[1] /\ proc[p].user = m[2]
    OBVIOUS
  <2>1. PICK p \in Proc, o \in Outcome : RemoveMember(p, o)
    <3> USE DEF tables
    <3>1. ~Sweeper /\ ~Tick /\ ~Crash /\ ~UNCHANGED vars
      BY DEF Sweeper, SweepList, SweepMembers, SweepRelation, SweepDelete, SweepPublish,
             Tick, Crash, vars
    <3>2. \A p \in Proc : ~Start(p)
      BY DEF Start, StartCreate, StartChange, StartToken
    <3>3. \A p \in Proc : Handle(p) => \E o \in Outcome : RemoveMember(p, o)
      BY DEF Handle, CreateRow, AddMember, WriteRelation, DeleteRelation, PublishCreated,
             PublishChange, IssueToken
    <3>4. QED
      BY <3>1, <3>2, <3>3 DEF Next
  <2>2. m = <<proc[p].group, proc[p].user>>
    BY <2>1 DEF RemoveMember
  <2> QED
    BY <2>1, <2>2 DEF RemoveMember
<1> QED
  BY <1>1, PTL DEF Spec, RosterOutlivesGroup

(***************************************************************************)
(* The calls of each use case together keep the promises of GroupRegister. *)
(* The one that counts is the SQL statement; the others stutter.           *)
(***************************************************************************)

\* A request that is not creating a group, and is not about to, spends no id.
LEMMA SpentStays ==
    ASSUME TypeOK, taken' = taken, NEW p \in Proc, ~Creating(p),
           NEW r, proc' = [proc EXCEPT ![p] = r], ~(r.pc = "db" /\ r.op = "create")
    PROVE  Spent' = Spent
<1>1. \A q \in Proc : (Creating(q)' <=> Creating(q))
                       /\ (Creating(q) => proc'[q] = proc[q])
  BY DEF Creating, TypeOK
<1>2. \A g \in Group : Born(g)' <=> Born(g)
  BY <1>1 DEF Born
<1> QED
  BY <1>2 DEF Spent

\* The answer to a request that writes is a request for the next call, or none.
LEMMA SettleFacts ==
    ASSUME TypeOK, NEW p \in Proc, NEW o \in Outcome, proc[p].pc = "db", Settle(p, o)
    PROVE  \E r : /\ proc' = [proc EXCEPT ![p] = r]
                  /\ r.pc # "db"
<1>1. proc[p] \in Request
  BY DEF TypeOK, NoRequest
<1>2. AfterWrite(proc[p]).pc # "db" /\ NoRequest.pc # "db"
  BY <1>1 DEF AfterWrite, Request, NoRequest
<1> QED
  BY <1>2 DEF Settle

LEMMA RegisterCreate ==
    ASSUME LifecycleInv, NEW p \in Proc, NEW o \in Outcome, CreateRow(p, o)
    PROVE  Register!Next
<1> DEFINE g == proc[p].group
<1>1. /\ Creating(p) /\ g \in Group /\ proc[p].row \in NewGroup
      /\ g \in taken /\ ~Born(g)
  BY DEF CreateRow, Creating, LifecycleInv, TypeOK, IdsSound, Born, Request, NoRequest
<1>2. PICK r : proc' = [proc EXCEPT ![p] = r] /\ r.pc # "db"
  BY SettleFacts DEF CreateRow, LifecycleInv
<1>3. /\ ~Creating(p)' /\ taken' = taken
      /\ \A q \in Proc \ {p} : proc'[q] = proc[q] /\ (Creating(q)' <=> Creating(q))
  BY <1>2 DEF CreateRow, Creating, LifecycleInv, TypeOK, history
<1>4. \A q \in Proc \ {p} : Creating(q) => proc[q].group # g
  BY <1>1 DEF LifecycleInv, IdsSound
<1>5. \A h \in Group : Born(h)' <=> Born(h) \/ h = g
  BY <1>1, <1>3, <1>4 DEF Born
<1>6. Spent' = Spent \cup {g} /\ g \notin Spent
  BY <1>1, <1>5 DEF Spent
<1>7. UNCHANGED <<members, tokens, announced, clock>>
  BY DEF CreateRow, events
<1>8. CASE Applied(o)
  <2>1. Register!Create(g, proc[p].row)
    BY <1>6, <1>7, <1>8 DEF Register!Create, CreateRow
  <2> QED
    BY <1>1, <2>1 DEF Register!Next
<1>9. CASE ~Applied(o)
  <2>1. Register!Discard({g})
    BY <1>6, <1>7, <1>9 DEF Register!Discard, CreateRow
  <2>2. {g} \in SUBSET Group
    BY <1>1
  <2> QED
    BY <2>1, <2>2 DEF Register!Next
<1> QED
  BY <1>8, <1>9

LEMMA RegisterMembers ==
    ASSUME LifecycleInv, NEW p \in Proc, NEW o \in Outcome,
           AddMember(p, o) \/ RemoveMember(p, o)
    PROVE  Register!Next \/ UNCHANGED Register!vars
<1> DEFINE g == proc[p].group
           u == proc[p].user
<1>1. /\ proc[p].pc = "db" /\ ~Creating(p) /\ g \in Group /\ u \in User
      /\ Snapshot(g, proc[p].row)
  BY DEF AddMember, RemoveMember, Creating, LifecycleInv, TypeOK, RequestsSound, Request,
         NoRequest
<1>2. PICK r : proc' = [proc EXCEPT ![p] = r] /\ r.pc # "db"
  BY <1>1, SettleFacts DEF AddMember, RemoveMember, LifecycleInv
<1>3. taken' = taken
  BY DEF AddMember, RemoveMember, history
<1>4. Spent' = Spent /\ g \in Spent
  BY <1>1, <1>2, <1>3, SpentStays DEF LifecycleInv, Snapshot, Spent
<1>5. UNCHANGED <<groups, tokens, announced, clock>>
  BY DEF AddMember, RemoveMember, events
<1>6. CASE members' = members
  BY <1>4, <1>5, <1>6 DEF Register!vars
<1>7. CASE members' = members \cup {<<g, u>>}
  <2>1. Register!Join(g, u)
    BY <1>4, <1>5, <1>7 DEF Register!Join
  <2> QED
    BY <1>1, <2>1 DEF Register!Next
<1>8. CASE members' = members \ {<<g, u>>}
  <2>1. Register!Leave(g, u)
    BY <1>4, <1>5, <1>8 DEF Register!Leave
  <2> QED
    BY <1>1, <2>1 DEF Register!Next
<1> QED
  BY <1>6, <1>7, <1>8 DEF AddMember, RemoveMember

LEMMA RegisterToken ==
    ASSUME LifecycleInv, NEW p \in Proc, IssueToken(p)
    PROVE  Register!Next \/ UNCHANGED Register!vars
<1> DEFINE k == [group |-> proc[p].group, user |-> proc[p].user,
                 exp |-> proc[p].row.expiresAt]
<1>1. /\ ~Creating(p) /\ proc[p] \in Request
      /\ Snapshot(proc[p].group, proc[p].row)
      /\ proc[p].row.ephemeral
  BY DEF IssueToken, Creating, LifecycleInv, TypeOK, RequestsSound, Request, NoRequest
<1>2. k \in Token
  BY <1>1 DEF Token, Request, NewGroup, Row
<1>3. Spent' = Spent
  BY <1>1, SpentStays DEF IssueToken, LifecycleInv, NoRequest, history
<1>4. UNCHANGED <<groups, members, announced, clock>>
  BY DEF IssueToken, tables, events
<1>5. CASE <<proc[p].group, proc[p].user>> \in members
  <2>1. Register!Sign(k)
    BY <1>1, <1>3, <1>4, <1>5 DEF Register!Sign, IssueToken, Snapshot
  <2> QED
    BY <1>2, <2>1 DEF Register!Next
<1>6. CASE <<proc[p].group, proc[p].user>> \notin members
  BY <1>3, <1>4, <1>6 DEF Register!vars, IssueToken
<1> QED
  BY <1>5, <1>6

LEMMA RegisterEvents ==
    ASSUME LifecycleInv, NEW p \in Proc, NEW o \in Outcome,
           \/ WriteRelation(p, o) \/ DeleteRelation(p, o)
           \/ PublishCreated(p, o) \/ PublishChange(p, o)
    PROVE  Register!Next \/ UNCHANGED Register!vars
<1> DEFINE g == proc[p].group
<1>1. /\ proc[p].pc \in {"keto", "publish"} /\ ~Creating(p) /\ proc[p] \in Request
      /\ Snapshot(g, proc[p].row)
  BY DEF WriteRelation, DeleteRelation, PublishCreated, PublishChange, Creating,
         LifecycleInv, TypeOK, RequestsSound, Request, NoRequest
<1>2. PICK r : proc' = [proc EXCEPT ![p] = r] /\ r.pc # "db"
  BY <1>1 DEF WriteRelation, DeleteRelation, PublishCreated, PublishChange, BestEffort,
         NoRequest, Request
<1>3. taken' = taken
  BY DEF WriteRelation, DeleteRelation, PublishCreated, PublishChange, history
<1>4. Spent' = Spent /\ g \in Spent /\ g \in Group
  BY <1>1, <1>2, <1>3, SpentStays DEF LifecycleInv, Snapshot, Spent, Request
<1>5. UNCHANGED <<groups, members, tokens, clock>>
  BY DEF WriteRelation, DeleteRelation, PublishCreated, PublishChange, tables, events
<1>6. CASE announced' = announced
  BY <1>4, <1>5, <1>6 DEF Register!vars
<1>7. CASE announced' = announced \cup {<<"created", g>>}
  <2>1. Register!Announce("created", g)
    BY <1>4, <1>5, <1>7 DEF Register!Announce
  <2> QED
    BY <1>4, <2>1 DEF Register!Next
<1> QED
  BY <1>6, <1>7 DEF WriteRelation, DeleteRelation, PublishCreated, PublishChange, events

\* The table is a function: to delete a row that is not there changes nothing.
TableIsFunction == groups = [g \in DOMAIN groups |-> groups[g]]

LEMMA TableCorrect == Spec => []TableIsFunction
<1>1. Init => TableIsFunction
  BY DEF Init, TableIsFunction
<1>2. TableIsFunction /\ [Next]_vars => TableIsFunction'
  <2> SUFFICES ASSUME TableIsFunction, [Next]_vars, groups' # groups
               PROVE  TableIsFunction'
    BY DEF TableIsFunction
  <2>1. \A p \in Proc : ~Start(p)
    BY DEF Start, StartCreate, StartChange, StartToken, tables
  <2>2. ASSUME NEW p \in Proc, Handle(p)
        PROVE  \E o \in Outcome : CreateRow(p, o)
    BY <2>2 DEF Handle, AddMember, RemoveMember, WriteRelation, DeleteRelation,
                PublishCreated, PublishChange, IssueToken, tables
  <2>3. ASSUME Sweeper
        PROVE  \E o \in Outcome : SweepDelete(o)
    BY <2>3 DEF Sweeper, SweepList, SweepMembers, SweepRelation, SweepPublish, tables
  <2>4. ~Tick /\ ~Crash /\ ~UNCHANGED vars
    BY DEF Tick, Crash, vars, tables
  <2>5. \/ \E p \in Proc, o \in Outcome : CreateRow(p, o)
        \/ \E o \in Outcome : SweepDelete(o)
    BY <2>1, <2>2, <2>3, <2>4 DEF Next
  <2> QED
    BY <2>5 DEF CreateRow, SweepDelete, TableIsFunction
<1> QED
  BY <1>1, <1>2, PTL DEF Spec

LEMMA RegisterSweep ==
    ASSUME LifecycleInv, TableIsFunction, Sweeper
    PROVE  Register!Next \/ UNCHANGED Register!vars
<1> USE DEF tables, events, history
<1>1. proc' = proc /\ taken' = taken /\ UNCHANGED <<members, tokens, clock>>
  BY DEF Sweeper, SweepList, SweepMembers, SweepRelation, SweepDelete, SweepPublish
<1>2. Spent' = Spent
  BY <1>1 DEF Spent, Born, Creating
<1>3. ASSUME NEW o \in Outcome, SweepDelete(o)
      PROVE  Register!Next \/ UNCHANGED Register!vars
  <2> DEFINE g == sweep.group
  <2>1. Condemned(g) /\ announced' = announced
    BY <1>3 DEF SweepDelete, LifecycleInv, SweepSound
  <2>2. CASE g \in DOMAIN groups /\ Applied(o)
    <3>1. Register!Delete(g)
      BY <1>1, <1>2, <1>3, <2>1, <2>2 DEF Register!Delete, SweepDelete, Condemned
    <3> QED
      BY <2>2, <3>1 DEF Register!Next
  <2>3. CASE ~(g \in DOMAIN groups /\ Applied(o))
    <3>1. groups' = groups
      BY <1>3, <2>3 DEF SweepDelete, TableIsFunction
    <3> QED
      BY <1>1, <1>2, <2>1, <3>1 DEF Register!vars
  <2> QED
    BY <2>2, <2>3
<1>4. ASSUME NEW o \in {"ok", "lost"}, SweepPublish(o)
      PROVE  Register!Next \/ UNCHANGED Register!vars
  <2> DEFINE g == sweep.group
  <2>1. g \in Group /\ Born(g) /\ g \notin DOMAIN groups /\ groups' = groups
    BY <1>4 DEF SweepPublish, LifecycleInv, SweepSound, Condemned, TypeOK, NoSweep
  <2>2. CASE announced' = announced
    BY <1>1, <1>2, <2>1, <2>2 DEF Register!vars
  <2>3. CASE announced' = announced \cup {<<"deleted", g>>}
    <3>1. Register!Announce("deleted", g)
      BY <1>1, <1>2, <2>1, <2>3 DEF Register!Announce, Spent
    <3> QED
      BY <2>1, <3>1 DEF Register!Next
  <2> QED
    BY <1>4, <2>2, <2>3 DEF SweepPublish
<1>5. CASE groups' = groups /\ announced' = announced
  BY <1>1, <1>2, <1>5 DEF Register!vars
<1> QED
  BY <1>3, <1>4, <1>5 DEF Sweeper, SweepList, SweepMembers, SweepRelation

\* KeepsRegister: whatever interleaves, fails or crashes, clients of groups see a
\* register of groups in which each use case is one step or none.
THEOREM ImplementsRegister == Spec => KeepsRegister
<1>1. Init => Register!Init
  BY DEF Init, Register!Init, Spent, Born
<1>2. LifecycleInv /\ TableIsFunction /\ [Next]_vars => [Register!Next]_(Register!vars)
  <2> SUFFICES ASSUME LifecycleInv, TableIsFunction, [Next]_vars
               PROVE  Register!Next \/ UNCHANGED Register!vars
    OBVIOUS
  <2> USE DEF tables, events, history
  <2>1. ASSUME NEW p \in Proc, NEW g \in Group, NEW r \in Row, StartCreate(p, g, r)
        PROVE  UNCHANGED Register!vars
    <3>1. /\ taken' = taken \cup {g} /\ g \notin taken
          /\ Creating(p)' /\ ~Creating(p) /\ proc'[p].group = g
          /\ \A q \in Proc \ {p} : proc'[q] = proc[q]
      BY <2>1 DEF StartCreate, LifecycleInv, TypeOK, Creating
    <3>2. \A h \in Group : Born(h)' <=> Born(h)
      BY <3>1 DEF Born, Creating
    <3> QED
      BY <2>1, <3>2 DEF StartCreate, Spent, Register!vars
  <2>2. ASSUME NEW p \in Proc, NEW op \in Ops, NEW g \in Group, NEW u \in User,
               StartChange(p, op, g, u) \/ StartToken(p, g, u)
        PROVE  UNCHANGED Register!vars
    <3>1. Spent' = Spent
      BY <2>2, SpentStays DEF StartChange, StartToken, LifecycleInv, Creating
    <3> QED
      BY <2>2, <3>1 DEF StartChange, StartToken, Register!vars
  <2>3. ASSUME NEW p \in Proc, Handle(p)
        PROVE  Register!Next \/ UNCHANGED Register!vars
    BY <2>3, RegisterCreate, RegisterMembers, RegisterToken, RegisterEvents DEF Handle
  <2>4. CASE Sweeper
    BY <2>4, RegisterSweep
  <2>5. CASE Tick
    <3>1. Spent' = Spent
      BY <2>5 DEF Tick, Spent, Born, Creating
    <3>2. Register!Tick
      BY <2>5, <3>1 DEF Tick, Register!Tick
    <3> QED
      BY <3>2 DEF Register!Next
  <2>6. CASE Crash
    <3>1. taken' = taken /\ \A p \in Proc : ~Creating(p)'
      BY <2>6 DEF Crash, Creating, NoRequest
    <3>2. Spent \subseteq Spent' /\ Spent' \in SUBSET Group
      BY <3>1 DEF Spent, Born
    <3>3. Register!Discard(Spent')
      BY <2>6, <3>2 DEF Crash, Register!Discard
    <3> QED
      BY <3>2, <3>3 DEF Register!Next
  <2>7. CASE UNCHANGED vars
    BY <2>7 DEF vars, Register!vars, Spent, Born, Creating
  <2>8. ASSUME NEW p \in Proc, Start(p)
        PROVE  UNCHANGED Register!vars
    BY <2>1, <2>2, <2>8 DEF Start
  <2> QED
    BY <2>3, <2>4, <2>5, <2>6, <2>7, <2>8 DEF Next
<1> QED
  BY <1>1, <1>2, Lifecycle, TableCorrect, PTL DEF Spec, KeepsRegister, Register!Spec

(***************************************************************************)
(* Keto and the events against the tables.                                 *)
(***************************************************************************)
LEMMA RacesStep ==
    ASSUME LifecycleInv, RacesInDrift, [Next]_vars PROVE RacesInDrift'
<1> USE DEF LifecycleInv, TypeOK, RacesInDrift, Changing, FeedOf, Request, NoRequest,
        tables, events, history
<1>1. ASSUME NEW p \in Proc, NEW g \in Group, NEW r \in Row, "create" \in Ops,
        StartCreate(p, g, r)
        PROVE RacesInDrift'
    BY <1>1 DEF StartCreate
<1>2. ASSUME NEW p \in Proc, NEW op \in Ops, NEW g \in Group, NEW u \in User,
        StartChange(p, op, g, u)
        PROVE RacesInDrift'
    BY <1>2 DEF StartChange, Overlaps
<1>3. ASSUME NEW p \in Proc, NEW g \in Group, NEW u \in User, "token" \in Ops,
        StartToken(p, g, u)
        PROVE RacesInDrift'
    BY <1>3 DEF StartToken
<1>4. ASSUME NEW p \in Proc, NEW o \in Outcome, CreateRow(p, o)
        PROVE RacesInDrift'
    BY <1>4 DEF CreateRow, Settle, AfterWrite, Overlaps, Owes, TupleOf
<1>5. ASSUME NEW p \in Proc, NEW o \in Outcome, AddMember(p, o)
        PROVE RacesInDrift'
    BY <1>5 DEF AddMember, Settle, AfterWrite, Overlaps, Owes, TupleOf
<1>6. ASSUME NEW p \in Proc, NEW o \in Outcome, RemoveMember(p, o)
        PROVE RacesInDrift'
    BY <1>6 DEF RemoveMember, Settle, AfterWrite, Overlaps, Owes, TupleOf
<1>7. ASSUME NEW p \in Proc, NEW o \in Outcome, WriteRelation(p, o)
        PROVE RacesInDrift'
    BY <1>7 DEF WriteRelation, BestEffort
<1>8. ASSUME NEW p \in Proc, NEW o \in Outcome, DeleteRelation(p, o)
        PROVE RacesInDrift'
    BY <1>8 DEF DeleteRelation, BestEffort
<1>9. ASSUME NEW p \in Proc, NEW o \in Outcome, PublishCreated(p, o)
        PROVE RacesInDrift'
    BY <1>9 DEF PublishCreated, BestEffort
<1>10. ASSUME NEW p \in Proc, NEW o \in Outcome, PublishChange(p, o)
        PROVE RacesInDrift'
    BY <1>10 DEF PublishChange, BestEffort
<1>11. ASSUME NEW p \in Proc, IssueToken(p)
        PROVE RacesInDrift'
    BY <1>11 DEF IssueToken
<1>12. CASE SweepList
    BY <1>12 DEF SweepList, Onward
<1>13. ASSUME NEW e \in Group \X User, NEW o \in {"ok", "lost"}, SweepMembers(e, o)
        PROVE RacesInDrift'
    BY <1>13 DEF SweepMembers
<1>14. ASSUME NEW t \in Tuple, NEW o \in {"ok", "lost"}, SweepRelation(t, o)
        PROVE RacesInDrift'
    BY <1>14 DEF SweepRelation
<1>15. ASSUME NEW o \in Outcome, SweepDelete(o)
        PROVE RacesInDrift'
    BY <1>15 DEF SweepDelete, Onward
<1>16. ASSUME NEW o \in {"ok", "lost"}, SweepPublish(o)
        PROVE RacesInDrift'
    BY <1>16 DEF SweepPublish, Onward
<1>17. CASE Tick
    BY <1>17 DEF Tick
<1>18. CASE Crash
    BY <1>18 DEF Crash
<1>19. CASE UNCHANGED vars
    BY <1>19 DEF vars
<1> HIDE DEF LifecycleInv, TypeOK, RacesInDrift
<1> QED
    BY <1>1, <1>2, <1>3, <1>4, <1>5, <1>6, <1>7, <1>8, <1>9, <1>10, <1>11,
       <1>12, <1>13, <1>14, <1>15, <1>16, <1>17, <1>18, <1>19
       DEF Next, Start, Handle, Sweeper

\* A write to group_members leaves alone what is owed for other members, and
\* keeps in drift what another request under way owes for the same one.
LEMMA SettleKeeps ==
    ASSUME LifecycleInv, RacesInDrift, NEW p \in Proc, NEW o \in Outcome, Settle(p, o),
           proc[p].pc = "db", NEW q \in Proc \ {p}, Changing(q)
    PROVE  /\ proc'[q] = proc[q]
           /\ TupleOf(proc[q]) \in drift => TupleOf(proc[q]) \in drift'
           /\ FeedOf(proc[q]) \in drift => FeedOf(proc[q]) \in drift'
           /\ (Changing(p) /\ proc[q].group = proc[p].group /\ proc[q].user = proc[p].user)
                 => {TupleOf(proc[q]), FeedOf(proc[q])} \subseteq drift'
<1> USE DEF LifecycleInv, TypeOK, Changing, Request, NoRequest
<1>1. proc'[q] = proc[q]
  BY DEF Settle
<1>2. CASE Overlaps(p, proc[p].group, proc[p].user)
  <2>1. drift \subseteq drift'
    BY <1>2 DEF Settle
  <2> QED
    BY <1>1, <2>1 DEF RacesInDrift, TupleOf, FeedOf
<1>3. CASE ~Overlaps(p, proc[p].group, proc[p].user)
  <2>1. proc[q].group # proc[p].group \/ proc[q].user # proc[p].user
    BY <1>3 DEF Overlaps
  <2>2. \A x \in drift : x \in drift' \/ x \in Owes(AfterWrite(proc[p]))
    BY <1>3 DEF Settle
  <2>3. /\ TupleOf(proc[q]) \notin Owes(AfterWrite(proc[p]))
        /\ FeedOf(proc[q]) \notin Owes(AfterWrite(proc[p]))
    BY <2>1 DEF Owes, AfterWrite, TupleOf, FeedOf
  <2> QED
    BY <1>1, <2>1, <2>2, <2>3
<1> QED
  BY <1>2, <1>3

LEMMA DebtsStep ==
    ASSUME LifecycleInv, MirrorInv, [Next]_vars PROVE DebtsSound'
<1> USE DEF LifecycleInv, TypeOK, MirrorInv, RacesInDrift, DebtsSound, WrittenAsAsked,
        Changing, TupleOf, FeedOf, Request, NoRequest, tables, events, history
<1>1. ASSUME NEW p \in Proc, NEW g \in Group, NEW r \in Row, "create" \in Ops,
        StartCreate(p, g, r)
        PROVE DebtsSound'
    BY <1>1 DEF StartCreate
<1>2. ASSUME NEW p \in Proc, NEW op \in Ops, NEW g \in Group, NEW u \in User,
        StartChange(p, op, g, u)
        PROVE DebtsSound'
    BY <1>2 DEF StartChange
<1>3. ASSUME NEW p \in Proc, NEW g \in Group, NEW u \in User, "token" \in Ops,
        StartToken(p, g, u)
        PROVE DebtsSound'
    BY <1>3 DEF StartToken
<1>4. ASSUME NEW p \in Proc, NEW o \in Outcome, CreateRow(p, o)
        PROVE DebtsSound'
    BY <1>4 DEF CreateRow, Settle, AfterWrite, Overlaps, Owes, Applied
<1>5. ASSUME NEW p \in Proc, NEW o \in Outcome, AddMember(p, o)
        PROVE DebtsSound'
  <2> SUFFICES ASSUME NEW q \in Proc, Changing(q)'
               PROVE  /\ proc'[q].pc = "keto" =>
                            TupleOf(proc'[q]) \in drift' \/ WrittenAsAsked(proc[q])'
                      /\ proc'[q].pc \in {"keto", "publish"} =>
                            FeedOf(proc'[q]) \in drift' \/ WrittenAsAsked(proc[q])'
    OBVIOUS
  <2>1. CASE q = p
    BY <1>5, <2>1 DEF AddMember, Settle, AfterWrite, Applied
  <2>2. CASE q # p
    <3>1. Changing(q) /\ Changing(p) /\ Settle(p, o)
      BY <1>5, <2>2 DEF AddMember, Settle
    <3>2. /\ proc'[q] = proc[q]
          /\ TupleOf(proc[q]) \in drift => TupleOf(proc[q]) \in drift'
          /\ FeedOf(proc[q]) \in drift => FeedOf(proc[q]) \in drift'
          /\ (proc[q].group = proc[p].group /\ proc[q].user = proc[p].user)
                => {TupleOf(proc[q]), FeedOf(proc[q])} \subseteq drift'
      BY <1>5, <2>2, <3>1, SettleKeeps DEF AddMember
    <3> QED
      BY <1>5, <2>2, <3>1, <3>2 DEF AddMember
  <2> QED
    BY <2>1, <2>2
<1>6. ASSUME NEW p \in Proc, NEW o \in Outcome, RemoveMember(p, o)
        PROVE DebtsSound'
  <2> SUFFICES ASSUME NEW q \in Proc, Changing(q)'
               PROVE  /\ proc'[q].pc = "keto" =>
                            TupleOf(proc'[q]) \in drift' \/ WrittenAsAsked(proc[q])'
                      /\ proc'[q].pc \in {"keto", "publish"} =>
                            FeedOf(proc'[q]) \in drift' \/ WrittenAsAsked(proc[q])'
    OBVIOUS
  <2>1. CASE q = p
    BY <1>6, <2>1 DEF RemoveMember, Settle, AfterWrite, Applied
  <2>2. CASE q # p
    <3>1. Changing(q) /\ Changing(p) /\ Settle(p, o)
      BY <1>6, <2>2 DEF RemoveMember, Settle
    <3>2. /\ proc'[q] = proc[q]
          /\ TupleOf(proc[q]) \in drift => TupleOf(proc[q]) \in drift'
          /\ FeedOf(proc[q]) \in drift => FeedOf(proc[q]) \in drift'
          /\ (proc[q].group = proc[p].group /\ proc[q].user = proc[p].user)
                => {TupleOf(proc[q]), FeedOf(proc[q])} \subseteq drift'
      BY <1>6, <2>2, <3>1, SettleKeeps DEF RemoveMember
    <3> QED
      BY <1>6, <2>2, <3>1, <3>2 DEF RemoveMember
  <2> QED
    BY <2>1, <2>2
<1>7. ASSUME NEW p \in Proc, NEW o \in Outcome, WriteRelation(p, o)
        PROVE DebtsSound'
    BY <1>7 DEF WriteRelation, BestEffort
<1>8. ASSUME NEW p \in Proc, NEW o \in Outcome, DeleteRelation(p, o)
        PROVE DebtsSound'
    BY <1>8 DEF DeleteRelation, BestEffort
<1>9. ASSUME NEW p \in Proc, NEW o \in Outcome, PublishCreated(p, o)
        PROVE DebtsSound'
    BY <1>9 DEF PublishCreated, BestEffort
<1>10. ASSUME NEW p \in Proc, NEW o \in Outcome, PublishChange(p, o)
        PROVE DebtsSound'
    BY <1>10 DEF PublishChange, BestEffort
<1>11. ASSUME NEW p \in Proc, IssueToken(p)
        PROVE DebtsSound'
    BY <1>11 DEF IssueToken
<1>12. CASE SweepList
    BY <1>12 DEF SweepList, Onward
<1>13. ASSUME NEW e \in Group \X User, NEW o \in {"ok", "lost"}, SweepMembers(e, o)
        PROVE DebtsSound'
    BY <1>13 DEF SweepMembers
<1>14. ASSUME NEW t \in Tuple, NEW o \in {"ok", "lost"}, SweepRelation(t, o)
        PROVE DebtsSound'
    BY <1>14 DEF SweepRelation
<1>15. ASSUME NEW o \in Outcome, SweepDelete(o)
        PROVE DebtsSound'
    BY <1>15 DEF SweepDelete, Onward
<1>16. ASSUME NEW o \in {"ok", "lost"}, SweepPublish(o)
        PROVE DebtsSound'
    BY <1>16 DEF SweepPublish, Onward
<1>17. CASE Tick
    BY <1>17 DEF Tick
<1>18. CASE Crash
    BY <1>18 DEF Crash
<1>19. CASE UNCHANGED vars
    BY <1>19 DEF vars
<1> QED
    BY ZenonT(40), <1>1, <1>2, <1>3, <1>4, <1>5, <1>6, <1>7, <1>8, <1>9, <1>10, <1>11,
       <1>12, <1>13, <1>14, <1>15, <1>16, <1>17, <1>18, <1>19
       DEF Next, Start, Handle, Sweeper

(***************************************************************************)
(* The steps that write what KetoMirrorsTables compares, for a tuple t.    *)
(***************************************************************************)
LEMMA KetoCreateRow ==
    ASSUME LifecycleInv, MirrorInv, NEW p \in Proc, NEW o \in Outcome, CreateRow(p, o),
           NEW t \in Tuple
    PROVE  TupleRight(t)'
<1> DEFINE r == proc[p]
<1>1. /\ r \in Request /\ r.pc = "db" /\ r.op = "create"
      /\ r.group \notin DOMAIN groups /\ r.row.createdBy = r.user
      /\ TupleOf(r) = <<r.group, "admin", r.user>>
  BY DEF CreateRow, LifecycleInv, TypeOK, IdsSound, RequestsSound, Born, Creating,
     NoRequest, Request, TupleOf
<1>2. keto' = keto /\ members' = members /\ Settle(p, o)
  BY DEF CreateRow
<1>3. Owes(AfterWrite(r)) = IF r.row.ephemeral THEN {} ELSE {TupleOf(r)}
  BY <1>1 DEF Owes, AfterWrite, TupleOf, Request
<1>4. \A q \in Proc \ {p} : proc'[q] = proc[q]
  BY <1>2 DEF Settle, LifecycleInv, TypeOK
<1>5. CASE t[1] # r.group
  <2>1. t # TupleOf(r)
    BY <1>1, <1>5
  <2>2. t \in drift => t \in drift'
    BY <1>2, <1>3, <2>1 DEF Settle
  <2>3. Pending(t) => Pending(t)'
    BY <1>1, <1>4 DEF Pending, TupleOf
  <2>4. /\ t[1] \in DOMAIN groups' <=> t[1] \in DOMAIN groups
        /\ t[1] \in DOMAIN groups => groups'[t[1]] = groups[t[1]]
    BY <1>1, <1>5 DEF CreateRow
  <2> QED
    BY <1>2, <2>2, <2>3, <2>4 DEF MirrorInv, KetoMirrorsTables, TupleRight, Due
<1>6. CASE t[1] = r.group
  <2>1. t[1] \in DOMAIN groups' => o # "lost" /\ groups'[t[1]] = r.row
    BY <1>1, <1>6 DEF CreateRow, Applied
  <2>2. CASE t = TupleOf(r)
    <3>1. CASE o = "ok"
      <4>1. proc'[p] = AfterWrite(r)
        BY <1>2, <3>1 DEF Settle, LifecycleInv, TypeOK
      <4>2. r.row.ephemeral \/ Pending(t)'
        BY <4>1, <2>2, <1>1 DEF AfterWrite, Pending, TupleOf, Request
      <4> QED
        BY <4>2, <2>1 DEF TupleRight
    <3>2. CASE o = "ambiguous"
      BY <3>2, <1>2, <1>3, <2>1, <2>2 DEF Settle, TupleRight
    <3> QED
      BY <3>1, <3>2, <2>1 DEF TupleRight, Outcome
  <2>3. CASE t # TupleOf(r)
    <3>1. t \notin keto'
      BY <1>1, <1>2, <1>6 DEF LifecycleInv, EphemeralHasNoTuples
    <3>2. t[2] # "admin" => <<t[1], t[3]>> \notin members'
      BY <1>1, <1>2, <1>6 DEF LifecycleInv, IdsSound, Born, Creating
    <3>3. t[2] = "admin" => t[3] # r.user
      BY <1>1, <1>6, <2>3 DEF Tuple
    <3> QED
      BY <1>1, <2>1, <3>1, <3>2, <3>3 DEF TupleRight, Due
  <2> QED
    BY <2>2, <2>3
<1> QED
  BY <1>5, <1>6

LEMMA KetoChangeMembers ==
    ASSUME LifecycleInv, MirrorInv, NEW p \in Proc, NEW o \in Outcome,
           AddMember(p, o) \/ RemoveMember(p, o), NEW t \in Tuple
    PROVE  TupleRight(t)'
<1> DEFINE r == proc[p]
<1>1. /\ r \in Request /\ r.pc = "db" /\ r.op \in {"add", "remove"}
      /\ TupleOf(r) = <<r.group, "member", r.user>>
      /\ Snapshot(r.group, r.row)
  BY DEF AddMember, RemoveMember, LifecycleInv, TypeOK, RequestsSound, Creating,
     NoRequest, Request, TupleOf
<1>2. keto' = keto /\ groups' = groups /\ Settle(p, o)
  BY DEF AddMember, RemoveMember, tables
<1>3. Owes(AfterWrite(r)) =
        IF r.row.ephemeral THEN {FeedOf(r)} ELSE {TupleOf(r), FeedOf(r)}
  BY <1>1 DEF Owes, AfterWrite, TupleOf, FeedOf, Request
<1>4. \A q \in Proc \ {p} : proc'[q] = proc[q]
  BY <1>2 DEF Settle, LifecycleInv, TypeOK
<1>5. Pending(t) => Pending(t)'
  BY <1>1, <1>4 DEF Pending
<1>6. CASE t # TupleOf(r)
  <2>1. t # FeedOf(r)
    BY DEF Tuple, FeedOf
  <2>2. t \in drift => t \in drift'
    BY <1>2, <1>3, <1>6, <2>1 DEF Settle
  <2>3. Due(t)' <=> Due(t)
    <3>1. t[2] # "admin" => <<t[1], t[3]>> # <<r.group, r.user>>
      BY <1>1, <1>6 DEF Tuple
    <3> QED
      BY <1>2, <3>1 DEF Due, AddMember, RemoveMember
  <2> QED
    BY <1>2, <1>5, <2>2, <2>3 DEF MirrorInv, KetoMirrorsTables, TupleRight
<1>7. CASE t = TupleOf(r)
  <2>1. CASE o = "ok"
    <3>1. proc'[p] = AfterWrite(r)
      BY <1>2, <2>1 DEF Settle, LifecycleInv, TypeOK
    <3>2. r.row.ephemeral \/ Pending(t)'
      BY <3>1, <1>7, <1>1 DEF AfterWrite, Pending, TupleOf, Request
    <3> QED
      BY <3>2, <1>1, <1>2, <1>7 DEF TupleRight, Snapshot
  <2>2. CASE o = "ambiguous"
    <3>1. r.row.ephemeral \/ t \in drift'
      BY <1>2, <1>3, <1>7, <2>2 DEF Settle
    <3> QED
      BY <3>1, <1>1, <1>2, <1>7 DEF TupleRight, Snapshot
  <2>3. CASE o = "lost"
    <3>1. members' = members
      BY <2>3 DEF AddMember, RemoveMember, Applied
    <3>2. drift' = drift
      BY <1>2, <2>3 DEF Settle
    <3> QED
      BY <1>2, <1>5, <3>1, <3>2 DEF MirrorInv, KetoMirrorsTables, TupleRight, Due
  <2> QED
    BY <2>1, <2>2, <2>3 DEF Outcome
<1> QED
  BY <1>6, <1>7

LEMMA KetoCall ==
    ASSUME LifecycleInv, MirrorInv, NEW p \in Proc, NEW o \in Outcome,
           WriteRelation(p, o) \/ DeleteRelation(p, o), NEW t \in Tuple
    PROVE  TupleRight(t)'
<1> DEFINE r == proc[p]
<1>1. /\ r \in Request /\ r.pc = "keto" /\ ~r.row.ephemeral
      /\ r.op = "create" => r.row.createdBy = r.user
      /\ Snapshot(r.group, r.row)
  BY DEF WriteRelation, DeleteRelation, LifecycleInv, TypeOK, RequestsSound, Creating,
     NoRequest, Request
<1>2. groups' = groups /\ members' = members
  BY DEF WriteRelation, DeleteRelation, tables
<1>3. drift' = IF Applied(o) THEN drift ELSE drift \cup {TupleOf(r)}
  BY DEF WriteRelation, DeleteRelation, BestEffort
<1>4. \A q \in Proc \ {p} : proc'[q] = proc[q]
  BY DEF WriteRelation, DeleteRelation, BestEffort, LifecycleInv, TypeOK
<1>5. CASE t # TupleOf(r)
  <2>1. t \in keto' <=> t \in keto
    BY <1>5 DEF WriteRelation, DeleteRelation
  <2>2. Pending(t) => Pending(t)'
    BY <1>4, <1>5 DEF Pending
  <2> QED
    BY <1>2, <1>3, <2>1, <2>2 DEF MirrorInv, KetoMirrorsTables, TupleRight, Due
<1>6. CASE t = TupleOf(r)
  <2>1. CASE t \in drift \/ ~Applied(o)
    BY <1>3, <1>6, <2>1 DEF TupleRight
  <2>2. CASE t \notin drift /\ Applied(o)
    <3>1. t \in keto' <=> r.op \in {"create", "add"}
      BY <1>6, <2>2 DEF WriteRelation, DeleteRelation
    <3>2. t[1] = r.group /\ t[3] = r.user /\ (t[2] = "admin" <=> r.op = "create")
      BY <1>6 DEF TupleOf
    <3>3. t[1] \in DOMAIN groups => groups[t[1]] = r.row
      BY <1>1, <3>2 DEF Snapshot
    <3>4. r.op \in {"add", "remove"} => (<<t[1], t[3]>> \in members <=> r.op = "add")
      BY <1>1, <1>6, <2>2, <3>2 DEF MirrorInv, DebtsSound, WrittenAsAsked, Changing
    <3>5. r.op \in {"create", "add", "remove"}
      BY DEF WriteRelation, DeleteRelation
    <3> QED
      BY <1>1, <1>2, <3>1, <3>2, <3>3, <3>4, <3>5 DEF TupleRight, Due
  <2> QED
    BY <2>1, <2>2
<1> QED
  BY <1>5, <1>6

(***************************************************************************)
(* The same for the events: a write of the tables, for a member h, v.      *)
(***************************************************************************)
LEMMA FeedCreateRow ==
    ASSUME LifecycleInv, MirrorInv, NEW p \in Proc, NEW o \in Outcome, CreateRow(p, o),
           NEW h \in Group, NEW v \in User
    PROVE  FeedRight(h, v)'
<1> DEFINE r == proc[p]
<1>1. r \in Request /\ r.pc = "db" /\ r.op = "create"
  BY DEF CreateRow, LifecycleInv, TypeOK, NoRequest
<1>2. members' = members /\ feed' = feed /\ Settle(p, o)
  BY DEF CreateRow, events
<1>3. <<h, "feed", v>> \notin Owes(AfterWrite(r))
  BY <1>1 DEF Owes, AfterWrite, TupleOf, Request
<1>4. Unannounced(h, v) => Unannounced(h, v)'
  BY <1>1, <1>2 DEF Unannounced, Settle, LifecycleInv, TypeOK
<1> QED
  BY <1>2, <1>3, <1>4 DEF MirrorInv, FeedMirrorsMembers, FeedRight, Settle

LEMMA FeedChangeMembers ==
    ASSUME LifecycleInv, MirrorInv, NEW p \in Proc, NEW o \in Outcome,
           AddMember(p, o) \/ RemoveMember(p, o), NEW h \in Group, NEW v \in User
    PROVE  FeedRight(h, v)'
<1> DEFINE r == proc[p]
<1>1. r \in Request /\ r.pc = "db" /\ r.op \in {"add", "remove"}
  BY DEF AddMember, RemoveMember, LifecycleInv, TypeOK, NoRequest
<1>2. feed' = feed /\ Settle(p, o)
  BY DEF AddMember, RemoveMember, events
<1>3. Owes(AfterWrite(r)) \in {{FeedOf(r)}, {TupleOf(r), FeedOf(r)}}
  BY <1>1 DEF Owes, AfterWrite, TupleOf, FeedOf, Request
<1>4. \A q \in Proc \ {p} : proc'[q] = proc[q]
  BY <1>2 DEF Settle, LifecycleInv, TypeOK
<1>5. Unannounced(h, v) => Unannounced(h, v)'
  BY <1>1, <1>4 DEF Unannounced
<1>6. CASE <<h, v>> # <<r.group, r.user>>
  <2>1. <<h, "feed", v>> \in drift => <<h, "feed", v>> \in drift'
    BY <1>1, <1>2, <1>3, <1>6 DEF Settle, FeedOf, TupleOf
  <2>2. <<h, v>> \in members' <=> <<h, v>> \in members
    BY <1>6 DEF AddMember, RemoveMember
  <2> QED
    BY <1>2, <1>5, <2>1, <2>2 DEF MirrorInv, FeedMirrorsMembers, FeedRight
<1>7. CASE <<h, v>> = <<r.group, r.user>>
  <2>1. CASE o = "ok"
    <3>1. proc'[p] = AfterWrite(r)
      BY <1>2, <2>1 DEF Settle, LifecycleInv, TypeOK
    <3>2. Unannounced(h, v)'
      BY <3>1, <1>7, <1>1 DEF AfterWrite, Unannounced, Request
    <3> QED
      BY <3>2 DEF FeedRight
  <2>2. CASE o = "ambiguous"
    <3>1. <<h, "feed", v>> \in drift'
      BY <1>2, <1>3, <1>7, <2>2 DEF Settle, FeedOf
    <3> QED
      BY <3>1 DEF FeedRight
  <2>3. CASE o = "lost"
    <3>1. members' = members
      BY <2>3 DEF AddMember, RemoveMember, Applied
    <3>2. drift' = drift
      BY <1>2, <2>3 DEF Settle
    <3> QED
      BY <1>2, <1>5, <3>1, <3>2 DEF MirrorInv, FeedMirrorsMembers, FeedRight
  <2> QED
    BY <2>1, <2>2, <2>3 DEF Outcome
<1> QED
  BY <1>6, <1>7

LEMMA KetoStep ==
    ASSUME LifecycleInv, MirrorInv, [Next]_vars, NEW t \in Tuple PROVE TupleRight(t)'
<1>0. \A h \in Group : Born(h) => RowKept(h) \/ RowExpires(h)
  BY RowStep DEF LifecycleInv
<1> USE <1>0
    DEF LifecycleInv, TypeOK, IdsSound, RequestsSound, Snapshot, RowKept, RowExpires,
        MirrorInv, DebtsSound, WrittenAsAsked, KetoMirrorsTables, TupleRight, Pending, Due,
        Changing, TupleOf, FeedOf, Request, NoRequest, Tuple, tables, events, history
<1>1. ASSUME NEW p \in Proc, NEW g \in Group, NEW r \in Row, "create" \in Ops,
        StartCreate(p, g, r)
        PROVE TupleRight(t)'
    BY <1>1 DEF StartCreate
<1>2. ASSUME NEW p \in Proc, NEW op \in Ops, NEW g \in Group, NEW u \in User,
        StartChange(p, op, g, u)
        PROVE TupleRight(t)'
    BY <1>2 DEF StartChange
<1>3. ASSUME NEW p \in Proc, NEW g \in Group, NEW u \in User, "token" \in Ops,
        StartToken(p, g, u)
        PROVE TupleRight(t)'
    BY <1>3 DEF StartToken
<1>4. ASSUME NEW p \in Proc, NEW o \in Outcome, CreateRow(p, o)
        PROVE TupleRight(t)'
    BY <1>4, KetoCreateRow
<1>5. ASSUME NEW p \in Proc, NEW o \in Outcome, AddMember(p, o)
        PROVE TupleRight(t)'
    BY <1>5, KetoChangeMembers
<1>6. ASSUME NEW p \in Proc, NEW o \in Outcome, RemoveMember(p, o)
        PROVE TupleRight(t)'
    BY <1>6, KetoChangeMembers
<1>7. ASSUME NEW p \in Proc, NEW o \in Outcome, WriteRelation(p, o)
        PROVE TupleRight(t)'
    BY <1>7, KetoCall
<1>8. ASSUME NEW p \in Proc, NEW o \in Outcome, DeleteRelation(p, o)
        PROVE TupleRight(t)'
    BY <1>8, KetoCall
<1>9. ASSUME NEW p \in Proc, NEW o \in Outcome, PublishCreated(p, o)
        PROVE TupleRight(t)'
    BY <1>9 DEF PublishCreated, BestEffort
<1>10. ASSUME NEW p \in Proc, NEW o \in Outcome, PublishChange(p, o)
        PROVE TupleRight(t)'
    BY <1>10 DEF PublishChange, BestEffort, Applied
<1>11. ASSUME NEW p \in Proc, IssueToken(p)
        PROVE TupleRight(t)'
    BY <1>11 DEF IssueToken
<1>12. CASE SweepList
    BY <1>12 DEF SweepList, Onward
<1>13. ASSUME NEW e \in Group \X User, NEW o \in {"ok", "lost"}, SweepMembers(e, o)
        PROVE TupleRight(t)'
    BY <1>13 DEF SweepMembers
<1>14. ASSUME NEW x \in Tuple, NEW o \in {"ok", "lost"}, SweepRelation(x, o)
        PROVE TupleRight(t)'
    BY SMTT(30), <1>14 DEF SweepRelation, SweepSound, Condemned, NoSweep
<1>15. ASSUME NEW o \in Outcome, SweepDelete(o)
        PROVE TupleRight(t)'
    BY <1>15 DEF SweepDelete, Onward
<1>16. ASSUME NEW o \in {"ok", "lost"}, SweepPublish(o)
        PROVE TupleRight(t)'
    BY <1>16 DEF SweepPublish, Onward
<1>17. CASE Tick
    BY <1>17 DEF Tick
<1>18. CASE Crash
    BY SMTT(30), <1>18 DEF Crash, Owes
<1>19. CASE UNCHANGED vars
    BY <1>19 DEF vars
<1> HIDE DEF LifecycleInv, TypeOK, MirrorInv, TupleRight
<1> QED
    BY <1>1, <1>2, <1>3, <1>4, <1>5, <1>6, <1>7, <1>8, <1>9, <1>10, <1>11,
       <1>12, <1>13, <1>14, <1>15, <1>16, <1>17, <1>18, <1>19
       DEF Next, Start, Handle, Sweeper

LEMMA FeedStep ==
    ASSUME LifecycleInv, MirrorInv, [Next]_vars, NEW h \in Group, NEW v \in User
    PROVE  FeedRight(h, v)'
<1> USE DEF LifecycleInv, TypeOK, MirrorInv, DebtsSound, WrittenAsAsked, FeedMirrorsMembers,
        FeedRight, Unannounced, Changing, FeedOf, Request, NoRequest, tables, events, history
<1>1. ASSUME NEW p \in Proc, NEW g \in Group, NEW r \in Row, "create" \in Ops,
        StartCreate(p, g, r)
        PROVE FeedRight(h, v)'
    BY <1>1 DEF StartCreate
<1>2. ASSUME NEW p \in Proc, NEW op \in Ops, NEW g \in Group, NEW u \in User,
        StartChange(p, op, g, u)
        PROVE FeedRight(h, v)'
    BY <1>2 DEF StartChange
<1>3. ASSUME NEW p \in Proc, NEW g \in Group, NEW u \in User, "token" \in Ops,
        StartToken(p, g, u)
        PROVE FeedRight(h, v)'
    BY <1>3 DEF StartToken
<1>4. ASSUME NEW p \in Proc, NEW o \in Outcome, CreateRow(p, o)
        PROVE FeedRight(h, v)'
    BY <1>4, FeedCreateRow
<1>5. ASSUME NEW p \in Proc, NEW o \in Outcome, AddMember(p, o)
        PROVE FeedRight(h, v)'
    BY <1>5, FeedChangeMembers
<1>6. ASSUME NEW p \in Proc, NEW o \in Outcome, RemoveMember(p, o)
        PROVE FeedRight(h, v)'
    BY <1>6, FeedChangeMembers
<1>7. ASSUME NEW p \in Proc, NEW o \in Outcome, WriteRelation(p, o)
        PROVE FeedRight(h, v)'
    BY <1>7 DEF WriteRelation, BestEffort, Applied
<1>8. ASSUME NEW p \in Proc, NEW o \in Outcome, DeleteRelation(p, o)
        PROVE FeedRight(h, v)'
    BY <1>8 DEF DeleteRelation, BestEffort, Applied
<1>9. ASSUME NEW p \in Proc, NEW o \in Outcome, PublishCreated(p, o)
        PROVE FeedRight(h, v)'
    BY <1>9 DEF PublishCreated, BestEffort
<1>10. ASSUME NEW p \in Proc, NEW o \in Outcome, PublishChange(p, o)
        PROVE FeedRight(h, v)'
    BY <1>10 DEF PublishChange, BestEffort, Applied
<1>11. ASSUME NEW p \in Proc, IssueToken(p)
        PROVE FeedRight(h, v)'
    BY <1>11 DEF IssueToken
<1>12. CASE SweepList
    BY <1>12 DEF SweepList, Onward
<1>13. ASSUME NEW e \in Group \X User, NEW o \in {"ok", "lost"}, SweepMembers(e, o)
        PROVE FeedRight(h, v)'
    BY <1>13 DEF SweepMembers
<1>14. ASSUME NEW t \in Tuple, NEW o \in {"ok", "lost"}, SweepRelation(t, o)
        PROVE FeedRight(h, v)'
    BY <1>14 DEF SweepRelation, SweepSound, Condemned, NoSweep
<1>15. ASSUME NEW o \in Outcome, SweepDelete(o)
        PROVE FeedRight(h, v)'
    BY <1>15 DEF SweepDelete, Onward
<1>16. ASSUME NEW o \in {"ok", "lost"}, SweepPublish(o)
        PROVE FeedRight(h, v)'
    BY <1>16 DEF SweepPublish, Onward
<1>17. CASE Tick
    BY <1>17 DEF Tick
<1>18. CASE Crash
    BY <1>18 DEF Crash, Owes
<1>19. CASE UNCHANGED vars
    BY <1>19 DEF vars
<1> HIDE DEF LifecycleInv, TypeOK, MirrorInv, FeedMirrorsMembers, FeedRight
<1> QED
    BY <1>1, <1>2, <1>3, <1>4, <1>5, <1>6, <1>7, <1>8, <1>9, <1>10, <1>11,
       <1>12, <1>13, <1>14, <1>15, <1>16, <1>17, <1>18, <1>19
       DEF Next, Start, Handle, Sweeper

(***************************************************************************)
(* Keto and the event stream mirror the tables but for what is in drift.   *)
(***************************************************************************)
THEOREM Mirrors == Spec => []MirrorInv
<1>1. Init => MirrorInv
  BY DEF Init, MirrorInv, RacesInDrift, DebtsSound, KetoMirrorsTables, TupleRight,
     FeedMirrorsMembers, FeedRight, Changing, NoRequest
<1>2. LifecycleInv /\ MirrorInv /\ [Next]_vars => MirrorInv'
  <2> SUFFICES ASSUME LifecycleInv, MirrorInv, [Next]_vars PROVE MirrorInv'
    OBVIOUS
  <2>1. RacesInDrift' /\ DebtsSound'
    BY RacesStep, DebtsStep DEF MirrorInv
  <2>2. \A t \in Tuple : TupleRight(t)'
    BY KetoStep
  <2>3. \A g \in Group, u \in User : FeedRight(g, u)'
    BY FeedStep
  <2> QED
    BY <2>1, <2>2, <2>3 DEF MirrorInv, KetoMirrorsTables, FeedMirrorsMembers
<1> QED
  BY <1>1, <1>2, Lifecycle, PTL DEF Spec

\* Every difference between Keto and the tables comes from a failed call, a
\* crash or overlapping requests.
THEOREM KetoIsMirror == Spec => []KetoMirrorsTables
<1>1. MirrorInv => KetoMirrorsTables
  BY DEF MirrorInv
<1> QED
  BY <1>1, Mirrors, PTL

\* And so does every difference between the events and the tables.
THEOREM FeedIsMirror == Spec => []FeedMirrorsMembers
<1>1. MirrorInv => FeedMirrorsMembers
  BY DEF MirrorInv
<1> QED
  BY <1>1, Mirrors, PTL

(***************************************************************************)
(* What the mirrors say of a whole group at rest.                          *)
(***************************************************************************)
Roster(g) == {u \in User : <<g, u>> \in members}
KetoOf(g) == {t \in keto : t[1] = g}

\* No request is about to call Keto for the group, and none of the tuples of the
\* group has been left behind by a failure, a crash or a race.
Untroubled(g) ==
    /\ \A p \in Proc : proc[p].pc = "keto" => proc[p].group # g
    /\ \A t \in drift : t[1] = g => t[2] = "feed"

\* The tuples a permanent group should have: the admin is its creator alone.
Image(g) ==
    IF g \in DOMAIN groups /\ ~groups[g].ephemeral
    THEN {<<g, "admin", groups[g].createdBy>>} \cup {<<g, "member", u>> : u \in Roster(g)}
    ELSE {}

KetoIsExact == \A g \in Group : Untroubled(g) => KetoOf(g) = Image(g)

\* A group nothing has gone wrong for has in Keto its creator as admin and its
\* members, and no other tuple: whoever Keto lets in is let in by the tables.
THEOREM KetoAtRest == Spec => []KetoIsExact
<1>1. LifecycleInv /\ MirrorInv => KetoIsExact
  <2> SUFFICES ASSUME LifecycleInv, MirrorInv, NEW g \in Group, Untroubled(g)
               PROVE  KetoOf(g) = Image(g)
    BY DEF KetoIsExact
  <2>1. keto \subseteq Tuple
    BY DEF LifecycleInv, TypeOK
  <2>2. g \in DOMAIN groups => groups[g].createdBy \in User
    BY DEF LifecycleInv, TypeOK, NewGroup, Row
  <2>3. CASE g \in DOMAIN groups /\ ~groups[g].ephemeral
    <3>1. ASSUME NEW t \in Tuple, t[1] = g PROVE t \in keto <=> Due(t)
      <4>1. t[2] \in {"admin", "member"}
        BY DEF Tuple
      <4>2. t \notin drift
        BY <3>1, <4>1 DEF Untroubled
      <4>3. ~Pending(t)
        BY <3>1 DEF Pending, TupleOf, Untroubled
      <4> QED
        BY <2>3, <3>1, <4>2, <4>3 DEF MirrorInv, KetoMirrorsTables, TupleRight
    <3>2. ASSUME NEW t \in Tuple, t[1] = g PROVE Due(t) <=> t \in Image(g)
      <4>1. PICK k \in {"admin", "member"}, u \in User : t = <<g, k, u>>
        BY <3>2 DEF Tuple
      <4> QED
        BY <2>2, <2>3, <4>1 DEF Due, Image, Roster
    <3>3. ASSUME NEW t \in Image(g) PROVE t \in Tuple /\ t[1] = g
      <4>1. t = <<g, "admin", groups[g].createdBy>>
            \/ \E u \in User : t = <<g, "member", u>>
        BY <2>3, <3>3 DEF Image, Roster
      <4> QED
        BY <2>2, <2>3, <4>1 DEF Tuple
    <3>4. ASSUME NEW t PROVE t \in KetoOf(g) <=> t \in Image(g)
      BY <2>1, <3>1, <3>2, <3>3 DEF KetoOf
    <3> QED
      BY <3>4
  <2>4. CASE ~(g \in DOMAIN groups /\ ~groups[g].ephemeral)
    BY <2>4 DEF KetoOf, Image, LifecycleInv, EphemeralHasNoTuples
  <2> QED
    BY <2>3, <2>4
<1> QED
  BY <1>1, Lifecycle, Mirrors, PTL

\* The group was and is no more, and no request that found it is still to change
\* its members.
Over(g) ==
    /\ Born(g)
    /\ g \notin DOMAIN groups
    /\ \A p \in Proc : Changing(p) => proc[p].group # g

RosterIsFinal == [][\A g \in Group : Over(g) => Over(g)' /\ Roster(g)' = Roster(g)]_vars

LEMMA OverStep ==
    ASSUME LifecycleInv, [Next]_vars, NEW h \in Group, Over(h)
    PROVE  (\A p \in Proc : Changing(p)' => proc'[p].group # h) /\ Roster(h)' = Roster(h)
<1> DEFINE Kept == (\A p \in Proc : Changing(p)' => proc'[p].group # h)
                   /\ Roster(h)' = Roster(h)
<1>0. proc \in [Proc -> {NoRequest} \cup Request] /\ h \notin DOMAIN groups
      /\ \A p \in Proc : Changing(p) => proc[p].group # h
  BY DEF LifecycleInv, TypeOK, Over
<1> USE <1>0 DEF Changing, Roster, NoRequest, Request, tables, events, history
<1>1. ASSUME NEW p \in Proc, Start(p) PROVE Kept
  BY <1>1 DEF Start, StartCreate, StartChange, StartToken
<1>2. ASSUME NEW p \in Proc, NEW o \in Outcome,
             CreateRow(p, o) \/ AddMember(p, o) \/ RemoveMember(p, o)
      PROVE  Kept
  BY <1>2 DEF CreateRow, AddMember, RemoveMember, Settle, AfterWrite
<1>3. ASSUME NEW p \in Proc, NEW o \in Outcome, WriteRelation(p, o) \/ DeleteRelation(p, o)
      PROVE  Kept
  BY <1>3 DEF WriteRelation, DeleteRelation, BestEffort
<1>4. ASSUME NEW p \in Proc, NEW o \in Outcome, PublishCreated(p, o) \/ PublishChange(p, o)
      PROVE  Kept
  BY <1>4 DEF PublishCreated, PublishChange, BestEffort
<1>5. ASSUME NEW p \in Proc, IssueToken(p) PROVE Kept
  BY <1>5 DEF IssueToken
<1>6. CASE Sweeper
  BY <1>6 DEF Sweeper, SweepList, SweepMembers, SweepRelation, SweepDelete, SweepPublish
<1>7. CASE Tick \/ Crash \/ UNCHANGED vars
  BY <1>7 DEF Tick, Crash, vars
<1>8. ASSUME NEW p \in Proc, Handle(p) PROVE Kept
  BY ONLY <1>8, <1>2, <1>3, <1>4, <1>5 DEF Handle
<1>9. Kept
  BY ONLY [Next]_vars, <1>1, <1>6, <1>7, <1>8 DEF Next
<1> QED
  BY <1>9

\* Once a deleted group's last requests are through, its roster stays as it is for
\* good: whenever group.deleted is handled, the members asked for are the same.
THEOREM RosterFreezes == Spec => RosterIsFinal
<1>1. LifecycleInv /\ [Next]_vars =>
        [\A g \in Group : Over(g) => Over(g)' /\ Roster(g)' = Roster(g)]_vars
  <2> SUFFICES ASSUME LifecycleInv, [Next]_vars, NEW g \in Group, Over(g)
               PROVE  Over(g)' /\ Roster(g)' = Roster(g)
    OBVIOUS
  <2>1. Born(g)' /\ g \notin DOMAIN groups'
    BY BornStays, RowStep DEF LifecycleInv, Over, RowKept, RowExpires
  <2> QED
    BY <2>1, OverStep DEF Over
<1> QED
  BY <1>1, Lifecycle, PTL DEF Spec, RosterIsFinal

=============================================================================
