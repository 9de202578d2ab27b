------------------------- MODULE GroupRecordsProofs -------------------------
(***************************************************************************)
(* Proofs about GroupRecords, for every set of users, conversations and    *)
(* handler calls.                                                          *)
(***************************************************************************)
EXTENDS GroupRecords, FiniteSetTheorems, TLAPS

-----------------------------------------------------------------------------
(***************************************************************************)
(* The record of a conversation is made of finite sets.                    *)
(***************************************************************************)
LEMMA UsersFinite ==
  ASSUME NEW us \in SUBSET User
  PROVE  IsFiniteSet(us) /\ Cardinality(us) \in Nat
BY UserAssumption, FS_Subset, FS_CardinalityType

\* What a departure makes of a record.
LEMMA WithoutRecord ==
  ASSUME NEW r \in GroupRecord, NEW u
  PROVE  /\ Without(r, u) \in GroupRecord
         /\ Without(r, u).members = r.members \ {u}
         /\ Without(r, u).admins = r.admins \ {u}
         /\ Without(r, u).muted = r.muted \ {u}
         /\ Without(r, u).blocked = r.blocked \ {u}
BY DEF GroupRecord, Without

\* A group that is not too small has three members or more.
LEMMA NotTooSmall ==
  ASSUME NEW r \in GroupRecord, ~ TooSmall(r)
  PROVE  Cardinality(r.members) >= 3
<1>1. r.members \in SUBSET User
  BY DEF GroupRecord
<1> QED BY <1>1, UsersFinite DEF TooSmall

\* The bookkeeping of calls keeps calls typed.
LEMMA BeginTyped ==
  ASSUME calls \subseteq Call, NEW h \in Handler, NEW pc \in Pc,
         NEW c \in Conv, NEW u \in User, Begin(h, pc, c, u)
  PROVE  calls' \subseteq Call
BY DEF Begin, Call

\* The same when a call goes on.
LEMMA ContinueTyped ==
  ASSUME calls \subseteq Call, NEW k \in calls, NEW pc \in Pc, Continue(k, pc)
  PROVE  calls' \subseteq Call
BY DEF Continue, Call

\* The same when a call ends.
LEMMA FinishTyped ==
  ASSUME calls \subseteq Call, NEW k \in calls, Finish(k)
  PROVE  calls' \subseteq Call
BY DEF Finish

-----------------------------------------------------------------------------
(***************************************************************************)
(* The records.                                                            *)
(***************************************************************************)
\* The record invariant holds at the start.
LEMMA RecordInit == Init => RecordInv
BY DEF Init, RecordInv, TypeOK, NoUndersizedGroup, IndexMatchesMembership,
       RolesWithinMembers, GroupRecord, NoRecord

\* Steps that leave group.store.ts alone.
LEMMA RecordUnchanged ==
  ASSUME RecordInv, UNCHANGED recordVars, calls' \subseteq Call,
         rows' \subseteq Conv, contested' \subseteq Conv,
         overtaken' \subseteq Conv, forgotten' \subseteq Conv
  PROVE  RecordInv'
BY DEF RecordInv, TypeOK, NoUndersizedGroup, IndexMatchesMembership,
       RolesWithinMembers, recordVars

\* group:create keeps sizes, index and roles.
LEMMA RecordCreate ==
  ASSUME RecordInv, NEW c \in Conv, NEW u \in User,
         NEW invited \in SUBSET User, Create(c, u, invited)
  PROVE  RecordInv'
<1> DEFINE us == {u} \cup invited
           r  == [members |-> us, admins |-> {u}, muted |-> {}, blocked |-> {}]
<1> USE DEF Create, Index
<1>1. r \in GroupRecord
  BY DEF GroupRecord
<1>2. group' = [group EXCEPT ![c] = r]
  OBVIOUS
<1> HIDE DEF r
<1>3. TypeOK'
  BY <1>1, <1>2 DEF RecordInv, TypeOK, ghostVars
<1>4. group'[c] = r /\ \A d \in Conv \ {c} : group'[d] = group[d]
  BY <1>2 DEF RecordInv, TypeOK
<1>5. NoUndersizedGroup'
  BY <1>4, UsersFinite
     DEF r, RecordInv, TypeOK, NoUndersizedGroup, EnoughMembers
<1>6. IndexMatchesMembership'
  BY <1>4 DEF r, RecordInv, TypeOK, IndexMatchesMembership
<1>7. RolesWithinMembers'
  BY <1>4 DEF r, RecordInv, TypeOK, RolesWithinMembers
<1> QED BY <1>3, <1>5, <1>6, <1>7 DEF RecordInv

\* A departure that leaves three members or more keeps them.
LEMMA RecordResume ==
  ASSUME RecordInv, NEW k \in calls, ResumeDeparture(k)
  PROVE  RecordInv'
<1> DEFINE c == k.conv
           r == Without(group[c], k.who)
<1>1. c \in Conv /\ k.who \in User /\ group[c] \in GroupRecord
  BY DEF RecordInv, TypeOK, Call
<1>2. /\ r \in GroupRecord
      /\ r.members = group[c].members \ {k.who}
      /\ r.admins = group[c].admins \ {k.who}
      /\ r.muted = group[c].muted \ {k.who}
      /\ r.blocked = group[c].blocked \ {k.who}
  BY <1>1, WithoutRecord
<1>3. group' = [group EXCEPT ![c] = r] /\ ~ (TooSmall(r) /\ c \in stored)
  BY DEF ResumeDeparture
<1> HIDE DEF r
<1>4. group'[c] = r /\ \A d \in Conv \ {c} : group'[d] = group[d]
  BY <1>1, <1>3 DEF RecordInv, TypeOK
<1>5. TypeOK'
  <2>1. calls' \subseteq Call
    BY FinishTyped DEF ResumeDeparture, RecordInv, TypeOK
  <2>2. group' \in [Conv -> GroupRecord]
    BY <1>1, <1>2, <1>3 DEF RecordInv, TypeOK
  <2> QED BY <2>1, <2>2
          DEF ResumeDeparture, RecordInv, TypeOK, Unindex, ghostVars
<1>6. NoUndersizedGroup'
  BY <1>2, <1>3, <1>4, NotTooSmall
     DEF ResumeDeparture, RecordInv, TypeOK, NoUndersizedGroup
<1>7. IndexMatchesMembership'
  BY <1>1, <1>2, <1>4
     DEF ResumeDeparture, RecordInv, TypeOK, IndexMatchesMembership, Unindex
<1>8. RolesWithinMembers'
  BY <1>1, <1>2, <1>4
     DEF ResumeDeparture, RecordInv, TypeOK, RolesWithinMembers
<1> QED BY <1>5, <1>6, <1>7, <1>8 DEF RecordInv

\* deleteGroup: every user that has c in their index has seen it.
LEMMA RecordDissolve ==
  ASSUME RecordInv, NEW c \in Conv, NEW us,
         group[c].members \subseteq us,
         userGroups' = Unindex(userGroups, us, c),
         stored' = stored \ {c},
         used' = used,
         group' \in [Conv -> GroupRecord],
         \A d \in Conv \ {c} : group'[d] = group[d],
         calls' \subseteq Call, rows' \subseteq Conv,
         contested' \subseteq Conv, overtaken' \subseteq Conv,
         forgotten' \subseteq Conv
  PROVE  RecordInv'
<1>1. \A v \in User : c \notin userGroups'[v]
  BY DEF RecordInv, TypeOK, IndexMatchesMembership, Unindex
<1>2. userGroups' \in [User -> SUBSET stored]
  BY DEF RecordInv, TypeOK, Unindex
<1>3. TypeOK'
  BY <1>1, <1>2 DEF RecordInv, TypeOK
<1>4. \A v \in User : userGroups'[v] = userGroups[v] \ {c}
  BY <1>1 DEF RecordInv, TypeOK, Unindex
<1>5. IndexMatchesMembership'
  BY <1>4 DEF RecordInv, TypeOK, IndexMatchesMembership
<1>6. NoUndersizedGroup' /\ RolesWithinMembers'
  BY DEF RecordInv, TypeOK, NoUndersizedGroup, RolesWithinMembers
<1> QED BY <1>3, <1>5, <1>6 DEF RecordInv

\* A departure that leaves two removes the group with its index entries.
LEMMA RecordResumeAndDissolve ==
  ASSUME RecordInv, NEW k \in calls, ResumeAndDissolve(k)
  PROVE  RecordInv'
<1> DEFINE c == k.conv
           r == Without(group[c], k.who)
<1>1. c \in Conv /\ k.who \in User /\ group[c] \in GroupRecord
  BY DEF RecordInv, TypeOK, Call
<1>2. r \in GroupRecord /\ r.members = group[c].members \ {k.who}
  BY <1>1, WithoutRecord
<1>3. group' = [group EXCEPT ![c] = r]
  BY DEF ResumeAndDissolve
<1>4. group[c].members \subseteq {k.who} \cup SawIt(r)
  BY <1>2 DEF SawIt
<1>5. calls' \subseteq Call
  BY ContinueTyped DEF ResumeAndDissolve, RecordInv, TypeOK, Pc
<1>6. overtaken' \subseteq Conv
  BY <1>1 DEF ResumeAndDissolve, NoteOvertaken, RecordInv, TypeOK
<1>7. /\ userGroups' = Unindex(userGroups, {k.who} \cup SawIt(r), c)
      /\ stored' = stored \ {c}
      /\ UNCHANGED <<used, rows, contested, forgotten>>
  BY DEF ResumeAndDissolve
<1> HIDE DEF r
<1>8. /\ group' \in [Conv -> GroupRecord]
      /\ \A d \in Conv \ {c} : group'[d] = group[d]
  BY <1>1, <1>2, <1>3 DEF RecordInv, TypeOK
<1> HIDE DEF c
<1>9. rows' \subseteq Conv /\ contested' \subseteq Conv /\ forgotten' \subseteq Conv
  BY <1>7 DEF RecordInv, TypeOK
<1> QED BY <1>1, <1>4, <1>5, <1>6, <1>7, <1>8, <1>9, RecordDissolve

\* group:delete removes it likewise.
LEMMA RecordDelete ==
  ASSUME RecordInv, NEW h \in Handler, NEW c \in Conv, NEW a \in User,
         BeginDelete(h, c, a)
  PROVE  RecordInv'
<1>1. group[c].members \subseteq SawIt(group[c])
  BY DEF SawIt
<1>2. calls' \subseteq Call
  BY BeginTyped DEF BeginDelete, RecordInv, TypeOK, Pc
<1>3. overtaken' \subseteq Conv
  BY DEF BeginDelete, NoteOvertaken, RecordInv, TypeOK
<1>4. /\ userGroups' = Unindex(userGroups, SawIt(group[c]), c)
      /\ stored' = stored \ {c}
      /\ UNCHANGED <<used, group, rows, contested, forgotten>>
  BY DEF BeginDelete
<1>5. /\ group' \in [Conv -> GroupRecord]
      /\ rows' \subseteq Conv /\ contested' \subseteq Conv
      /\ forgotten' \subseteq Conv
  BY <1>4 DEF RecordInv, TypeOK
<1> QED BY <1>1, <1>2, <1>3, <1>4, <1>5, RecordDissolve

\* promote, mute-member and block-member give a role to a member.
LEMMA RecordManage ==
  ASSUME RecordInv, NEW c \in Conv, NEW a \in User, NEW t \in User,
         NEW on \in BOOLEAN,
         Promote(c, a, t) \/ Mute(c, a, t, on) \/ Block(c, a, t, on)
  PROVE  RecordInv'
<1> USE DEF Promote, Mute, Block, MayManage
<1>1. group[c] \in GroupRecord /\ c \in stored /\ t \in group[c].members
  BY DEF RecordInv, TypeOK
<1>2. PICK r \in GroupRecord :
        /\ group' = [group EXCEPT ![c] = r]
        /\ r.members = group[c].members
        /\ r.admins \subseteq group[c].admins \cup {t}
        /\ r.muted \subseteq group[c].muted \cup {t}
        /\ r.blocked \subseteq group[c].blocked \cup {t}
  <2>1. CASE Promote(c, a, t)
    <3> DEFINE r == [group[c] EXCEPT !.admins = @ \cup {t}]
    <3>1. group' = [group EXCEPT ![c] = r]
      BY <2>1
    <3>2. /\ r \in GroupRecord
          /\ r.members = group[c].members
          /\ r.admins \subseteq group[c].admins \cup {t}
          /\ r.muted \subseteq group[c].muted \cup {t}
          /\ r.blocked \subseteq group[c].blocked \cup {t}
      BY <1>1 DEF GroupRecord
    <3> HIDE DEF r
    <3> QED BY <3>1, <3>2
  <2>2. CASE Mute(c, a, t, on)
    <3> DEFINE r == [group[c] EXCEPT !.muted = IF on THEN @ \cup {t}
                                                ELSE @ \ {t}]
    <3>1. group' = [group EXCEPT ![c] = r]
      BY <2>2
    <3>2. /\ r \in GroupRecord
          /\ r.members = group[c].members
          /\ r.admins \subseteq group[c].admins \cup {t}
          /\ r.muted \subseteq group[c].muted \cup {t}
          /\ r.blocked \subseteq group[c].blocked \cup {t}
      BY <1>1 DEF GroupRecord
    <3> HIDE DEF r
    <3> QED BY <3>1, <3>2
  <2>3. CASE Block(c, a, t, on)
    <3> DEFINE r == [group[c] EXCEPT !.blocked = IF on THEN @ \cup {t}
                                                  ELSE @ \ {t}]
    <3>1. group' = [group EXCEPT ![c] = r]
      BY <2>3
    <3>2. /\ r \in GroupRecord
          /\ r.members = group[c].members
          /\ r.admins \subseteq group[c].admins \cup {t}
          /\ r.muted \subseteq group[c].muted \cup {t}
          /\ r.blocked \subseteq group[c].blocked \cup {t}
      BY <1>1 DEF GroupRecord
    <3> HIDE DEF r
    <3> QED BY <3>1, <3>2
  <2> QED BY <2>1, <2>2, <2>3
<1>3. group'[c] = r /\ \A d \in Conv \ {c} : group'[d] = group[d]
  BY <1>2 DEF RecordInv, TypeOK
<1>4. UNCHANGED <<used, stored, userGroups, calls, rows, ghostVars>>
  OBVIOUS
<1>5. TypeOK'
  BY <1>2, <1>4 DEF RecordInv, TypeOK, ghostVars
<1>6. NoUndersizedGroup' /\ IndexMatchesMembership'
  BY <1>2, <1>3, <1>4
     DEF RecordInv, TypeOK, NoUndersizedGroup, IndexMatchesMembership
<1>7. RolesWithinMembers'
  BY <1>1, <1>2, <1>3, <1>4 DEF RecordInv, TypeOK, RolesWithinMembers
<1> QED BY <1>5, <1>6, <1>7 DEF RecordInv

\* A restart forgets groups, index and calls together.
LEMMA RecordCrash ==
  ASSUME RecordInv, Crash
  PROVE  RecordInv'
BY DEF Crash, RecordInv, TypeOK, NoUndersizedGroup, IndexMatchesMembership,
       RolesWithinMembers, GroupRecord, NoRecord, Erasing, Call

\* Every step keeps the record invariant.
LEMMA RecordStep ==
  ASSUME RecordInv, [Next]_vars
  PROVE  RecordInv'
<1>1. CASE UNCHANGED vars
  BY <1>1, RecordUnchanged DEF vars, ghostVars, RecordInv, TypeOK
<1>2. CASE Crash
  BY <1>2, RecordCrash
<1>3. ASSUME NEW c \in Conv, NEW u \in User, NEW invited \in SUBSET User,
             Create(c, u, invited)
      PROVE  RecordInv'
  BY <1>3, RecordCreate
<1>4. ASSUME NEW h \in Handler, NEW c \in Conv, NEW u \in User,
             BeginDeparture(h, c, u)
      PROVE  RecordInv'
  <2>1. calls' \subseteq Call
    BY <1>4, BeginTyped DEF BeginDeparture, RecordInv, TypeOK, Pc
  <2> QED BY <1>4, <2>1, RecordUnchanged
          DEF BeginDeparture, RecordInv, TypeOK
<1>5. ASSUME NEW h \in Handler, NEW c \in Conv, NEW u \in User,
             BeginPost(h, c, u)
      PROVE  RecordInv'
  <2>1. calls' \subseteq Call
    BY <1>5, BeginTyped DEF BeginPost, RecordInv, TypeOK, Pc
  <2> QED BY <1>5, <2>1, RecordUnchanged
          DEF BeginPost, RecordInv, TypeOK, ghostVars
<1>6. ASSUME NEW h \in Handler, NEW c \in Conv, NEW u \in User,
             BeginDelete(h, c, u)
      PROVE  RecordInv'
  BY <1>6, RecordDelete
<1>7. ASSUME NEW c \in Conv, NEW u \in User, NEW t \in User,
             NEW on \in BOOLEAN,
             Promote(c, u, t) \/ Mute(c, u, t, on) \/ Block(c, u, t, on)
      PROVE  RecordInv'
  BY <1>7, RecordManage
<1>8. ASSUME NEW k \in calls,
             AnnouncementCommits(k) \/ PostCommits(k) \/ EraseCommits(k)
      PROVE  RecordInv'
  <2>1. k.conv \in Conv
    BY DEF RecordInv, TypeOK, Call
  <2>2. calls' \subseteq Call
    BY <1>8, ContinueTyped
       DEF AnnouncementCommits, PostCommits, EraseCommits, RecordInv, TypeOK,
           Pc
  <2> QED BY <1>8, <2>1, <2>2, RecordUnchanged
          DEF AnnouncementCommits, PostCommits, EraseCommits, RecordInv,
              TypeOK, ghostVars
<1>9. ASSUME NEW k \in calls, FinishErase(k) \/ FinishPost(k)
      PROVE  RecordInv'
  <2>1. k.conv \in Conv
    BY DEF RecordInv, TypeOK, Call
  <2>2. calls' \subseteq Call
    BY <1>9, FinishTyped DEF FinishErase, FinishPost, RecordInv, TypeOK
  <2> QED BY <1>9, <2>1, <2>2, RecordUnchanged
          DEF FinishErase, FinishPost, RecordInv, TypeOK, ghostVars
<1>10. ASSUME NEW k \in calls, ResumeDeparture(k)
       PROVE  RecordInv'
  BY <1>10, RecordResume
<1>11. ASSUME NEW k \in calls, ResumeAndDissolve(k)
       PROVE  RecordInv'
  BY <1>11, RecordResumeAndDissolve
<1>12. CASE Request
  <2>1. TRUE \in BOOLEAN /\ \A t \in Target : t \in User
    BY UserAssumption
  <2> QED BY <1>12, <2>1, <1>3, <1>4, <1>5, <1>6, <1>7
          DEF Request, BeginLeave, BeginKick
<1>13. ASSUME NEW k \in calls, Progress(k)
       PROVE  RecordInv'
  BY <1>13, <1>8, <1>9, <1>10, <1>11 DEF Progress
<1> QED BY <1>1, <1>2, <1>12, <1>13 DEF Next

\* The records in every reachable state, however handlers interleave and
\* whenever the process restarts.
THEOREM RecordsCorrect == Spec => []RecordInv
<1>1. Init => RecordInv
  BY RecordInit
<1>2. RecordInv /\ [Next]_vars => RecordInv'
  BY RecordStep
<1> QED BY <1>1, <1>2, PTL DEF Spec

\* Types; in particular groupsByUser names no group that groupStore lost.
THEOREM TypeCorrect == Spec => []TypeOK
<1>1. RecordInv => TypeOK
  BY DEF RecordInv
<1> QED BY <1>1, RecordsCorrect, PTL

(***************************************************************************)
(* A stored group has three members or more, is in the index of exactly    *)
(* its members, and only members are admins, muted or blocked.             *)
(***************************************************************************)
THEOREM MembershipCorrect ==
  Spec => []/\ NoUndersizedGroup
            /\ IndexMatchesMembership
            /\ RolesWithinMembers
<1>1. RecordInv => /\ NoUndersizedGroup
                   /\ IndexMatchesMembership
                   /\ RolesWithinMembers
  BY DEF RecordInv
<1> QED BY <1>1, RecordsCorrect, PTL

\* leaveGroup takes a member's roles with the membership, and group:promote,
\* group:mute-member and group:block-member give one only to a member.
THEOREM RolesCorrect == Spec => []RolesWithinMembers
<1>1. RecordInv => RolesWithinMembers
  BY DEF RecordInv
<1> QED BY <1>1, RecordsCorrect, PTL

-----------------------------------------------------------------------------
(***************************************************************************)
(* Departures: who stays.                                                  *)
(***************************************************************************)

\* A set of admins that is not empty and not of one element has another.
LEMMA AnotherAdmin ==
  ASSUME NEW as \in SUBSET User, NEW u \in as, Cardinality(as) # 1
  PROVE  as \ {u} # {}
<1>1. IsFiniteSet(as)
  BY UsersFinite
<1>2. as = {u} => Cardinality(as) = 1
  BY FS_Singleton
<1> QED BY <1>2

\* The departure invariant holds at the start.
LEMMA DepartureInit == Init => DepartureInv
BY DEF Init, DepartureInv, SoleDeparture, AdminStays,
       HeadlessOnlyIfContested, DepartingStillMember

\* Steps that begin and resume no departure, and take no role away from the
\* members of a group that stays stored.
LEMMA DepartureFrame ==
  ASSUME DepartureInv,
         stored' \subseteq stored, contested' = contested,
         \A c \in stored' : /\ group'[c].members = group[c].members
                            /\ group[c].admins \subseteq group'[c].admins,
         \A c \in stored' : Departures(c)' \subseteq Departures(c),
         \A k \in calls' : k.conv \in used'
  PROVE  DepartureInv'
<1> USE DEF DepartureInv
<1>1. SoleDeparture'
  BY DEF SoleDeparture
<1>2. AdminStays'
  BY DEF AdminStays
<1>3. HeadlessOnlyIfContested'
  BY DEF HeadlessOnlyIfContested
<1>4. DepartingStillMember'
  <2> SUFFICES ASSUME NEW k \in calls', k.pc \in {"announce", "announced"},
                      k.conv \in stored'
               PROVE  k.who \in group'[k.conv].members \/ k.conv \in contested'
    BY DEF DepartingStillMember
  <2>1. k \in Departures(k.conv)'
    BY DEF Departures, CallsOn
  <2>2. k \in calls /\ k.conv \in stored
    BY <2>1 DEF Departures, CallsOn
  <2> QED BY <2>2 DEF DepartingStillMember
<1> QED BY <1>1, <1>2, <1>3, <1>4

\* A new group has an admin and no departure in progress.
LEMMA DepartureCreate ==
  ASSUME RecordInv, DepartureInv, NEW c \in Conv, NEW u \in User,
         NEW invited \in SUBSET User, Create(c, u, invited)
  PROVE  DepartureInv'
<1> USE DEF Create, DepartureInv
<1>1. /\ group'[c].members = {u} \cup invited
      /\ group'[c].admins = {u}
      /\ \A d \in Conv \ {c} : group'[d] = group[d]
  BY DEF RecordInv, TypeOK
<1>2. Departures(c) = {} /\ c \notin stored
  BY DEF Departures, CallsOn, RecordInv, TypeOK
<1>3. /\ stored' = stored \cup {c}
      /\ contested' = contested /\ calls' = calls /\ stored \subseteq Conv
      /\ \A d : Departures(d)' = Departures(d)
  BY DEF ghostVars, Departures, CallsOn, RecordInv, TypeOK
<1>4. SoleDeparture'
  BY <1>2, <1>3 DEF SoleDeparture
<1>5. AdminStays'
  BY <1>1, <1>2, <1>3 DEF AdminStays
<1>6. HeadlessOnlyIfContested'
  BY <1>1, <1>3 DEF HeadlessOnlyIfContested
<1>7. DepartingStillMember'
  BY <1>1, <1>2, <1>3 DEF DepartingStillMember, Departures, CallsOn
<1> QED BY <1>3, <1>4, <1>5, <1>6, <1>7

\* The guards of leave and kick: the target is a member and, if the group
\* has an admin at all, not its only one.
LEMMA GuardsKeepAdmin ==
  ASSUME RecordInv, NEW c \in Conv, NEW u \in User,
         MayLeave(c, u) \/ \E a \in User : MayKick(c, a, u)
  PROVE  /\ c \in stored /\ u \in group[c].members
         /\ group[c].admins # {} => group[c].admins \ {u} # {}
<1>1. c \in stored /\ u \in group[c].members
  BY DEF MayLeave, MayKick
<1>2. group[c].admins \in SUBSET User /\ group[c].members \in SUBSET User
  BY DEF RecordInv, TypeOK, GroupRecord
<1>3. CASE MayLeave(c, u)
  <2>1. Cardinality(group[c].members) > 1
    BY <1>1, <1>2, UsersFinite DEF RecordInv, NoUndersizedGroup
  <2>2. u \in group[c].admins => Cardinality(group[c].admins) # 1
    BY <1>3, <2>1 DEF MayLeave, IsAdmin
  <2> QED BY <1>1, <1>2, <2>2, AnotherAdmin
<1>4. CASE \E a \in User : MayKick(c, a, u)
  BY <1>1, <1>4 DEF MayKick, IsAdmin
<1> QED BY <1>3, <1>4

\* Accepting a leave or a kick keeps the departure invariant.
LEMMA DepartureBegin ==
  ASSUME RecordInv, DepartureInv, NEW h \in Handler, NEW c \in Conv,
         NEW u \in User,
         c \in stored, u \in group[c].members,
         group[c].admins # {} => group[c].admins \ {u} # {},
         BeginDeparture(h, c, u)
  PROVE  DepartureInv'
<1> DEFINE k == [h |-> h, pc |-> "announce", conv |-> c, who |-> u]
<1> USE DEF DepartureInv
<1>1. calls' = calls \cup {k} /\ k.conv = c /\ k.who = u
  BY DEF BeginDeparture, Begin
<1>2. /\ stored' = stored /\ group' = group /\ used' = used
      /\ contested \subseteq contested'
      /\ Departures(c) # {} => c \in contested'
  BY DEF BeginDeparture, recordVars
<1> HIDE DEF k
<1>3. /\ \A d \in stored' \ {c} : Departures(d)' = Departures(d)
      /\ Departures(c)' \subseteq Departures(c) \cup {k}
  BY <1>1 DEF Departures, CallsOn
<1>4. SoleDeparture'
  BY <1>2, <1>3 DEF SoleDeparture
<1>5. AdminStays'
  BY <1>1, <1>2, <1>3 DEF AdminStays, HeadlessOnlyIfContested
<1>6. HeadlessOnlyIfContested'
  BY <1>2 DEF HeadlessOnlyIfContested
<1>7. DepartingStillMember'
  BY <1>1, <1>2 DEF DepartingStillMember
<1>8. \A j \in calls' : j.conv \in used'
  BY <1>1, <1>2 DEF RecordInv, TypeOK
<1> QED BY <1>4, <1>5, <1>6, <1>7, <1>8

\* So does the effect of the insert of its system message.
LEMMA DepartureAnnounced ==
  ASSUME RecordInv, DepartureInv, NEW k \in calls, AnnouncementCommits(k)
  PROVE  DepartureInv'
<1> DEFINE j == [k EXCEPT !.pc = "announced"]
<1> USE DEF DepartureInv
<1>1. k \in Call /\ k.pc = "announce"
  BY DEF RecordInv, TypeOK, AnnouncementCommits
<1>2. j.conv = k.conv /\ j.who = k.who /\ j.pc = "announced"
  BY <1>1 DEF Call
<1>3. calls' = (calls \ {k}) \cup {j}
  BY DEF AnnouncementCommits, Continue
<1>4. /\ stored' = stored /\ group' = group /\ used' = used
      /\ contested' = contested
  BY DEF AnnouncementCommits, recordVars, ghostVars
<1> HIDE DEF j
<1>5. k \in Departures(k.conv)
  BY <1>1 DEF Departures, CallsOn
<1>6. /\ \A d \in stored' \ {k.conv} : Departures(d)' \subseteq Departures(d)
      /\ Departures(k.conv)' \subseteq (Departures(k.conv) \ {k}) \cup {j}
  BY <1>2, <1>3 DEF Departures, CallsOn
<1>7. SoleDeparture'
  BY <1>4, <1>5, <1>6 DEF SoleDeparture
<1>8. AdminStays'
  BY <1>2, <1>4, <1>5, <1>6 DEF AdminStays
<1>9. HeadlessOnlyIfContested'
  BY <1>4 DEF HeadlessOnlyIfContested
<1>10. DepartingStillMember'
  BY <1>1, <1>2, <1>3, <1>4 DEF DepartingStillMember
<1> QED BY <1>2, <1>3, <1>4, <1>7, <1>8, <1>9, <1>10

\* So does resuming it, by SoleDeparture and AdminStays.
LEMMA DepartureResume ==
  ASSUME RecordInv, DepartureInv, NEW k \in calls, ResumeDeparture(k)
  PROVE  DepartureInv'
<1> DEFINE c == k.conv
<1> USE DEF DepartureInv
<1>1. k \in Departures(c) /\ c \in Conv /\ group[c] \in GroupRecord
  BY DEF ResumeDeparture, Departures, CallsOn, RecordInv, TypeOK, Call
<1>2. /\ group'[c].members = group[c].members \ {k.who}
      /\ group'[c].admins = group[c].admins \ {k.who}
      /\ \A d \in Conv \ {c} : group'[d] = group[d]
  BY <1>1, WithoutRecord DEF ResumeDeparture, RecordInv, TypeOK
<1>3. /\ stored' = stored /\ used' = used /\ contested' = contested
      /\ calls' = calls \ {k} /\ stored \subseteq Conv
  BY DEF ResumeDeparture, Finish, ghostVars, RecordInv, TypeOK
<1> HIDE DEF c
<1>4. \A d : Departures(d)' = Departures(d) \ {k}
  BY <1>3 DEF Departures, CallsOn
<1>5. c \in stored \ contested => Departures(c)' = {}
  BY <1>1, <1>4 DEF SoleDeparture
<1>6. SoleDeparture'
  BY <1>3, <1>4 DEF SoleDeparture
<1>7. AdminStays'
  BY <1>2, <1>3, <1>4, <1>5 DEF AdminStays
<1>8. HeadlessOnlyIfContested'
  <2>1. c \in stored \ contested => group'[c].admins # {}
    BY <1>1, <1>2 DEF AdminStays
  <2> QED BY <1>2, <1>3, <2>1 DEF HeadlessOnlyIfContested
<1>9. DepartingStillMember'
  <2> SUFFICES ASSUME NEW j \in calls', j.pc \in {"announce", "announced"},
                      j.conv \in stored', j.conv \notin contested'
               PROVE  j.who \in group'[j.conv].members
    BY DEF DepartingStillMember
  <2>1. j.conv # c
    BY <1>3, <1>5 DEF Departures, CallsOn
  <2> QED BY <1>2, <1>3, <2>1 DEF DepartingStillMember
<1> QED BY <1>3, <1>6, <1>7, <1>8, <1>9

\* Every step keeps the departure invariant.
LEMMA DepartureStep ==
  ASSUME RecordInv, DepartureInv, [Next]_vars
  PROVE  DepartureInv'
<1> USE DEF DepartureInv
<1> DEFINE Same == /\ stored' \subseteq stored /\ contested' = contested
                   /\ \A c \in stored' :
                        /\ group'[c].members = group[c].members
                        /\ group[c].admins \subseteq group'[c].admins
           Fewer == /\ \A c \in stored' : Departures(c)' \subseteq Departures(c)
                    /\ \A k \in calls' : k.conv \in used'
<1>1. Same /\ Fewer => DepartureInv'
  BY DepartureFrame
<1>2. CASE UNCHANGED vars
  <2>1. Same /\ Fewer
    BY <1>2 DEF vars, recordVars, ghostVars, Departures, CallsOn
  <2> QED BY <2>1, <1>1
<1>3. CASE Crash
  <2>1. Same /\ Fewer
    BY <1>3 DEF Crash, ghostVars
  <2> QED BY <2>1, <1>1
<1>4. ASSUME NEW h \in Handler, NEW c \in Conv, NEW u \in User,
             BeginPost(h, c, u)
      PROVE  DepartureInv'
  <2>1. Same
    BY <1>4 DEF BeginPost, recordVars, ghostVars
  <2>2. c \in used
    BY <1>4 DEF BeginPost, MayPost, RecordInv, TypeOK
  <2>3. Fewer
    BY <1>4, <2>2 DEF BeginPost, Begin, Departures, CallsOn, recordVars
  <2> QED BY <2>1, <2>3, <1>1
<1>5. ASSUME NEW h \in Handler, NEW c \in Conv, NEW u \in User,
             BeginDelete(h, c, u)
      PROVE  DepartureInv'
  <2>1. Same
    BY <1>5 DEF BeginDelete
  <2>2. c \in used
    BY <1>5 DEF BeginDelete, RecordInv, TypeOK
  <2>3. Fewer
    BY <1>5, <2>2 DEF BeginDelete, Begin, Departures, CallsOn
  <2> QED BY <2>1, <2>3, <1>1
<1>6. ASSUME NEW c \in Conv, NEW u \in User, NEW t \in User,
             NEW on \in BOOLEAN,
             Promote(c, u, t) \/ Mute(c, u, t, on) \/ Block(c, u, t, on)
      PROVE  DepartureInv'
  <2>1. Same
    BY <1>6 DEF Promote, Mute, Block, ghostVars, RecordInv, TypeOK, GroupRecord
  <2>2. Fewer
    BY <1>6 DEF Promote, Mute, Block, Departures, CallsOn
  <2> QED BY <2>1, <2>2, <1>1
<1>7. ASSUME NEW k \in calls, PostCommits(k) \/ EraseCommits(k)
      PROVE  DepartureInv'
  <2>1. Same
    BY <1>7 DEF PostCommits, EraseCommits, recordVars, ghostVars
  <2>2. PICK pc \in {"posted", "erased"} :
          calls' = (calls \ {k}) \cup {[k EXCEPT !.pc = pc]}
    BY <1>7 DEF PostCommits, EraseCommits, Continue
  <2>3. [k EXCEPT !.pc = pc].pc = pc /\ [k EXCEPT !.pc = pc].conv = k.conv
    BY DEF RecordInv, TypeOK, Call
  <2>4. used' = used
    BY <1>7 DEF PostCommits, EraseCommits, recordVars
  <2>5. Fewer
    BY <2>2, <2>3, <2>4 DEF Departures, CallsOn
  <2> QED BY <2>1, <2>5, <1>1
<1>8. ASSUME NEW k \in calls, FinishErase(k) \/ FinishPost(k)
      PROVE  DepartureInv'
  <2>1. Same
    BY <1>8 DEF FinishErase, FinishPost, recordVars, ghostVars
  <2>2. Fewer
    BY <1>8 DEF FinishErase, FinishPost, Finish, Departures, CallsOn,
                recordVars
  <2> QED BY <2>1, <2>2, <1>1
<1>9. ASSUME NEW k \in calls, ResumeAndDissolve(k)
      PROVE  DepartureInv'
  <2>1. stored' = stored \ {k.conv} /\ used' = used /\ contested' = contested
    BY <1>9 DEF ResumeAndDissolve
  <2>2. \A c \in stored' : group'[c] = group[c]
    BY <1>9, <2>1 DEF ResumeAndDissolve, RecordInv, TypeOK
  <2>3. [k EXCEPT !.pc = "erase"].pc = "erase"
        /\ [k EXCEPT !.pc = "erase"].conv = k.conv
    BY DEF RecordInv, TypeOK, Call
  <2>4. Fewer
    BY <1>9, <2>1, <2>3 DEF ResumeAndDissolve, Continue, Departures, CallsOn
  <2> QED BY <2>1, <2>2, <2>4, <1>1
<1>10. ASSUME NEW h \in Handler, NEW c \in Conv, NEW u \in User,
              BeginLeave(h, c, u) \/ \E a \in User : BeginKick(h, c, a, u)
       PROVE  DepartureInv'
  BY <1>10, GuardsKeepAdmin, DepartureBegin DEF BeginLeave, BeginKick
<1> HIDE DEF Same, Fewer, DepartureInv
<1>11. CASE Request
  <2>1. TRUE \in BOOLEAN /\ \A t \in Target : t \in User
    BY UserAssumption
  <2> QED BY <1>11, <2>1, <1>4, <1>5, <1>6, <1>10, DepartureCreate
          DEF Request
<1>12. ASSUME NEW k \in calls, Progress(k)
       PROVE  DepartureInv'
  BY <1>12, <1>7, <1>8, <1>9, DepartureAnnounced, DepartureResume DEF Progress
<1> QED BY <1>2, <1>3, <1>11, <1>12 DEF Next

(***************************************************************************)
(* A stored group has an admin, and the target of a leave or kick in       *)
(* progress is still a member, unless two departures from it overlapped.   *)
(***************************************************************************)
THEOREM DeparturesCorrect ==
  Spec => [](HeadlessOnlyIfContested /\ DepartingStillMember)
<1>1. Init => RecordInv /\ DepartureInv
  BY RecordInit, DepartureInit
<1>2. RecordInv /\ DepartureInv /\ [Next]_vars => (RecordInv /\ DepartureInv)'
  BY RecordStep, DepartureStep
<1>3. DepartureInv => HeadlessOnlyIfContested /\ DepartingStillMember
  BY DEF DepartureInv
<1> QED BY <1>1, <1>2, <1>3, PTL DEF Spec

\* group:leave and group:kick look the member up before they await the
\* announcement; it is still one after it, unless another departure came
\* between.
THEOREM DepartingCorrect == Spec => []DepartingStillMember
<1>1. HeadlessOnlyIfContested /\ DepartingStillMember => DepartingStillMember
  OBVIOUS
<1> QED BY <1>1, DeparturesCorrect, PTL

-----------------------------------------------------------------------------
(***************************************************************************)
(* The messages of groups, stored or deleted.                              *)
(***************************************************************************)
\* The erasure invariant holds at the start.
LEMMA EraseInit == Init => EraseInv
BY DEF Init, EraseInv, RowsHaveGroup

\* Every step keeps the erasure invariant.
LEMMA EraseStep ==
  ASSUME RecordInv, DepartureInv, EraseInv, [Next]_vars
  PROVE  EraseInv'
<1> USE DEF EraseInv, RowsHaveGroup, Erasing
<1> DEFINE WithPc(k, pc) == [k EXCEPT !.pc = pc]
<1>1. stored \subseteq used /\ calls \subseteq Call
  BY DEF RecordInv, TypeOK
<1>2. \A k \in calls, pc \in Pc :
        WithPc(k, pc).pc = pc /\ WithPc(k, pc).conv = k.conv
  BY <1>1 DEF Call
<1> HIDE DEF WithPc
<1>3. CASE UNCHANGED vars
  BY <1>3 DEF vars, recordVars, ghostVars
<1>4. CASE Crash
  BY <1>4 DEF Crash, ghostVars
<1>5. ASSUME NEW c \in Conv, NEW u \in User, NEW invited \in SUBSET User,
             Create(c, u, invited)
      PROVE  EraseInv'
  BY <1>5 DEF Create, ghostVars
<1>6. ASSUME NEW h \in Handler, NEW c \in Conv, NEW u \in User,
             NEW pc \in {"announce", "post"},
             c \in stored, Begin(h, pc, c, u),
             UNCHANGED <<recordVars, rows, overtaken, forgotten>>
      PROVE  EraseInv'
  BY <1>6 DEF Begin, recordVars
<1>7. ASSUME NEW h \in Handler, NEW c \in Conv, NEW a \in User,
             BeginDelete(h, c, a)
      PROVE  EraseInv'
  <2> DEFINE new == [h |-> h, pc |-> "erase", conv |-> c, who |-> a]
  <2>1. /\ stored' = stored \ {c} /\ calls' = calls \cup {new}
        /\ overtaken \subseteq overtaken'
        /\ (\E k \in calls : k.conv = c) => c \in overtaken'
        /\ UNCHANGED <<rows, forgotten>>
    BY <1>7 DEF BeginDelete, Begin, NoteOvertaken
  <2>2. new.pc = "erase" /\ new.conv = c
    OBVIOUS
  <2> HIDE DEF new
  <2>3. ASSUME NEW k \in calls', k.pc \notin {"erase", "erased"}
        PROVE  k.conv \in stored' \/ k.conv \in overtaken'
    BY <2>1, <2>2, <2>3
  <2>4. RowsHaveGroup'
    BY <2>1, <2>2
  <2> QED BY <2>3, <2>4
<1>8. ASSUME NEW c \in Conv, NEW u \in User, NEW t \in User,
             NEW on \in BOOLEAN,
             Promote(c, u, t) \/ Mute(c, u, t, on) \/ Block(c, u, t, on)
      PROVE  EraseInv'
  BY <1>8 DEF Promote, Mute, Block, ghostVars
<1>9. ASSUME NEW k \in calls, AnnouncementCommits(k) \/ PostCommits(k)
      PROVE  EraseInv'
  <2>1. PICK pc \in {"announced", "posted"} :
          calls' = (calls \ {k}) \cup {WithPc(k, pc)}
    BY <1>9 DEF AnnouncementCommits, PostCommits, Continue, WithPc
  <2>2. WithPc(k, pc).pc = pc /\ WithPc(k, pc).conv = k.conv
    BY <1>2 DEF Pc
  <2>3. k.conv \in stored \/ k.conv \in overtaken
    BY <1>9 DEF AnnouncementCommits, PostCommits
  <2> QED BY <1>9, <2>1, <2>2, <2>3
          DEF AnnouncementCommits, PostCommits, recordVars, ghostVars
<1>10. ASSUME NEW k \in calls, EraseCommits(k)
       PROVE  EraseInv'
  <2>1. calls' = (calls \ {k}) \cup {WithPc(k, "erased")}
    BY <1>10 DEF EraseCommits, Continue, WithPc
  <2>2. WithPc(k, "erased").pc = "erased" /\ WithPc(k, "erased").conv = k.conv
    BY <1>2 DEF Pc
  <2> QED BY <1>10, <2>1, <2>2 DEF EraseCommits, recordVars, ghostVars
<1>11. ASSUME NEW k \in calls, FinishErase(k) \/ FinishPost(k)
       PROVE  EraseInv'
  BY <1>11 DEF FinishErase, FinishPost, Finish, recordVars, ghostVars
<1>12. ASSUME NEW k \in calls, ResumeDeparture(k)
       PROVE  EraseInv'
  BY <1>12 DEF ResumeDeparture, Finish, ghostVars
<1>13. ASSUME NEW k \in calls, ResumeAndDissolve(k)
       PROVE  EraseInv'
  <2>1. calls' = (calls \ {k}) \cup {WithPc(k, "erase")}
    BY <1>13 DEF ResumeAndDissolve, Continue, WithPc
  <2>2. WithPc(k, "erase").pc = "erase" /\ WithPc(k, "erase").conv = k.conv
    BY <1>2 DEF Pc
  <2> QED BY <1>1, <1>13, <2>1, <2>2 DEF ResumeAndDissolve, NoteOvertaken
<1>14. CASE Request
  <2>1. TRUE \in BOOLEAN /\ \A t \in Target : t \in User
    BY UserAssumption
  <2>2. ASSUME NEW h \in Handler, NEW c \in Conv, NEW u \in User,
               \/ BeginLeave(h, c, u)
               \/ BeginPost(h, c, u)
               \/ \E t \in User : BeginKick(h, c, u, t)
        PROVE  EraseInv'
    <3>1. CASE BeginLeave(h, c, u)
      BY <1>6, <3>1 DEF BeginLeave, MayLeave, BeginDeparture
    <3>2. CASE BeginPost(h, c, u)
      BY <1>6, <3>2 DEF BeginPost, MayPost, ghostVars
    <3>3. ASSUME NEW t \in User, BeginKick(h, c, u, t)
          PROVE  EraseInv'
      BY <1>6, <3>3 DEF BeginKick, MayKick, BeginDeparture
    <3> QED BY <2>2, <3>1, <3>2, <3>3
  <2> HIDE DEF EraseInv
  <2> QED BY <1>14, <2>1, <2>2, <1>5, <1>7, <1>8 DEF Request
<1>15. ASSUME NEW k \in calls, Progress(k)
       PROVE  EraseInv'
  <2> HIDE DEF EraseInv
  <2> QED BY <1>15, <1>9, <1>10, <1>11, <1>12, <1>13 DEF Progress
<1> HIDE DEF EraseInv
<1> QED BY <1>3, <1>4, <1>14, <1>15 DEF Next

(***************************************************************************)
(* The whole invariant, and with it that messages are left without a group *)
(* only by a call in flight when it was deleted, or by a restart.          *)
(***************************************************************************)
THEOREM Invariance == Spec => []IndInv
<1>1. Init => IndInv
  BY RecordInit, DepartureInit, EraseInit DEF IndInv
<1>2. IndInv /\ [Next]_vars => IndInv'
  BY RecordStep, DepartureStep, EraseStep DEF IndInv
<1> QED BY <1>1, <1>2, PTL DEF Spec

\* Rows of no group are left by calls that a deletion overtook and by restarts
\* alone.
THEOREM ErasureCorrect == Spec => []RowsHaveGroup
<1>1. IndInv => RowsHaveGroup
  BY DEF IndInv, EraseInv
<1> QED BY <1>1, Invariance, PTL

-----------------------------------------------------------------------------
(***************************************************************************)
(* The refinement of GroupLifecycle.                                       *)
(***************************************************************************)
\* What the refinement mapping gives for stored and other groups.
LEMMA LiveMembers ==
  ASSUME NEW c \in Conv
  PROVE  liveMembers[c] = IF c \in stored THEN group[c].members ELSE {}
BY DEF liveMembers

\* Three users make a group.
LEMMA ThreeMakeAGroup ==
  ASSUME NEW us \in SUBSET User, Cardinality(us) >= 3
  PROVE  Lifecycle!IsGroup(us)
<1>1. \A vs \in SUBSET User : IsFiniteSet(vs) /\ Cardinality(vs) \in Nat
  BY UsersFinite
<1>2. \A vs \in SUBSET User : Cardinality(vs) > 0 => \E x \in vs : TRUE
  BY <1>1, FS_EmptySet
<1>3. \A vs \in SUBSET User : \A x \in vs :
        Cardinality(vs \ {x}) = Cardinality(vs) - 1
  BY <1>1, FS_RemoveElement
<1>4. PICK x \in us : TRUE
  BY <1>1, <1>2
<1>5. Cardinality(us \ {x}) >= 2
  BY <1>1, <1>3
<1>6. PICK y \in us \ {x} : TRUE
  BY <1>1, <1>2, <1>5
<1>7. Cardinality((us \ {x}) \ {y}) >= 1
  BY <1>1, <1>3, <1>5, <1>6
<1>8. PICK z \in (us \ {x}) \ {y} : TRUE
  BY <1>1, <1>2, <1>7
<1> QED BY <1>4, <1>6, <1>8 DEF Lifecycle!IsGroup

\* Steps that change the members of no stored group.
LEMMA LifecycleStutter ==
  ASSUME used' = used, stored' = stored,
         \A c \in stored : group'[c].members = group[c].members
  PROVE  UNCHANGED <<used, liveMembers>>
BY DEF liveMembers

\* Steps that remove c from the store.
LEMMA LifecycleDissolve ==
  ASSUME NEW c \in Conv, used' = used, stored' = stored \ {c},
         \A d \in Conv \ {c} : group'[d] = group[d]
  PROVE  Lifecycle!Dissolve(c)
<1>1. liveMembers' = [liveMembers EXCEPT ![c] = {}]
  BY DEF liveMembers
<1> QED BY <1>1 DEF Lifecycle!Dissolve

\* group:create founds a group.
LEMMA LifecycleCreate ==
  ASSUME RecordInv, NEW c \in Conv, NEW u \in User,
         NEW invited \in SUBSET User, Create(c, u, invited)
  PROVE  \E us \in SUBSET User : Lifecycle!Found(c, us)
<1> DEFINE us == {u} \cup invited
<1>1. /\ used' = used \cup {c} /\ stored' = stored \cup {c}
      /\ c \notin used /\ Cardinality(us) >= 3 /\ us \in SUBSET User
      /\ group'[c].members = us
      /\ \A d \in Conv \ {c} : group'[d] = group[d]
  BY DEF Create, EnoughMembers, RecordInv, TypeOK
<1> HIDE DEF us
<1>2. liveMembers' = [liveMembers EXCEPT ![c] = us]
  BY <1>1 DEF liveMembers
<1>3. Lifecycle!IsGroup(us)
  BY <1>1, ThreeMakeAGroup
<1>4. Lifecycle!Found(c, us)
  BY <1>1, <1>2, <1>3 DEF Lifecycle!Found
<1> QED BY <1>1, <1>4

\* A departure: of one member, from a group that keeps three or more.
LEMMA LifecycleDepart ==
  ASSUME RecordInv, NEW k \in calls, ResumeDeparture(k)
  PROVE  \/ UNCHANGED <<used, liveMembers>>
         \/ Lifecycle!Depart(k.conv, k.who)
<1> DEFINE c == k.conv
           u == k.who
           r == Without(group[c], u)
<1>1. c \in Conv /\ group[c] \in GroupRecord
  BY DEF RecordInv, TypeOK, Call
<1>2. r \in GroupRecord /\ r.members = group[c].members \ {u}
  BY <1>1, WithoutRecord
<1>3. /\ group' = [group EXCEPT ![c] = r] /\ used' = used /\ stored' = stored
      /\ ~ (TooSmall(r) /\ c \in stored)
  BY DEF ResumeDeparture
<1> HIDE DEF r
<1>4. group'[c] = r /\ \A d \in Conv \ {c} : group'[d] = group[d]
  BY <1>1, <1>3 DEF RecordInv, TypeOK
<1>5. stored \subseteq Conv
  BY DEF RecordInv, TypeOK
<1>9. c \in Conv /\ group[c] \in GroupRecord
  BY <1>1
<1> HIDE DEF c, u
<1>6. CASE c \notin stored
  BY <1>3, <1>4, <1>5, <1>6, LifecycleStutter
<1>7. CASE u \notin group[c].members
  BY <1>2, <1>3, <1>4, <1>5, <1>7, LifecycleStutter
<1>8. CASE c \in stored /\ u \in group[c].members
  <2>1. r.members \in SUBSET User /\ Cardinality(r.members) >= 3
    BY <1>2, <1>3, <1>8, NotTooSmall DEF GroupRecord
  <2>2. liveMembers[c] = group[c].members
    BY <1>8, <1>9, LiveMembers
  <2>3. Lifecycle!IsGroup(liveMembers[c] \ {u})
    BY <1>2, <2>1, <2>2, ThreeMakeAGroup
  <2>4. /\ stored' = stored
        /\ \A d \in Conv : group'[d].members =
             IF d = c THEN group[c].members \ {u} ELSE group[d].members
    BY <1>2, <1>3, <1>4, <1>9
  <2>5. liveMembers' = [liveMembers EXCEPT ![c] = liveMembers[c] \ {u}]
    BY <1>8, <2>2, <2>4 DEF liveMembers
  <2>6. Lifecycle!Depart(c, u)
    BY <1>3, <1>8, <2>2, <2>3, <2>5 DEF Lifecycle!Depart
  <2> QED BY <2>6 DEF c, u
<1> QED BY <1>6, <1>7, <1>8

\* Every step is a step of the abstract life cycle or a stutter.
LEMMA LifecycleStep ==
  ASSUME RecordInv, [Next]_vars
  PROVE  [Lifecycle!Next]_<<used, liveMembers>>
<1> DEFINE Mapped == Lifecycle!Next \/ UNCHANGED <<used, liveMembers>>
<1> SUFFICES Mapped
  OBVIOUS
<1>1. UNCHANGED recordVars => Mapped
  BY LifecycleStutter DEF recordVars
<1>2. ASSUME NEW k \in calls
      PROVE  k.conv \in Conv /\ k.who \in User
  BY DEF RecordInv, TypeOK, Call
<1>3. CASE UNCHANGED vars
  BY <1>1, <1>3 DEF vars
<1>4. CASE Crash
  <2>1. Lifecycle!Wipe
    BY <1>4 DEF Crash, Lifecycle!Wipe, liveMembers
  <2> QED BY <2>1 DEF Lifecycle!Next
<1>5. CASE Request
  <2>1. PICK c \in Conv, u \in User :
          \/ \E invited \in SUBSET User : Create(c, u, invited)
          \/ \E h \in Handler :
               \/ BeginLeave(h, c, u)
               \/ BeginDelete(h, c, u)
               \/ u \in Poster /\ BeginPost(h, c, u)
               \/ \E t \in User : BeginKick(h, c, u, t)
          \/ \E t \in User : Promote(c, u, t)
          \/ \E t \in Target, on \in BOOLEAN : Mute(c, u, t, on) \/ Block(c, u, t, on)
    BY <1>5 DEF Request
  <2>2. ASSUME NEW invited \in SUBSET User, Create(c, u, invited)
        PROVE  Mapped
    BY <2>2, LifecycleCreate DEF Lifecycle!Next
  <2>3. ASSUME NEW h \in Handler, BeginDelete(h, c, u)
        PROVE  Mapped
    <3>1. /\ used' = used /\ stored' = stored \ {c} /\ group' = group
      BY <2>3 DEF BeginDelete
    <3> QED BY <3>1, LifecycleDissolve DEF Lifecycle!Next
  <2>4. ASSUME NEW h \in Handler, NEW t \in User,
               BeginLeave(h, c, u) \/ BeginPost(h, c, u) \/ BeginKick(h, c, u, t)
        PROVE  Mapped
    BY <1>1, <2>4 DEF BeginLeave, BeginKick, BeginDeparture, BeginPost
  <2>5. ASSUME NEW t, NEW on \in BOOLEAN,
               Promote(c, u, t) \/ Mute(c, u, t, on) \/ Block(c, u, t, on)
        PROVE  Mapped
    <3>1. /\ used' = used /\ stored' = stored
          /\ \A d \in stored : group'[d].members = group[d].members
      BY <2>5 DEF Promote, Mute, Block, RecordInv, TypeOK, GroupRecord
    <3> QED BY <3>1, LifecycleStutter
  <2>6. ASSUME NEW h \in Handler,
               \/ BeginLeave(h, c, u) \/ BeginDelete(h, c, u)
               \/ BeginPost(h, c, u)
               \/ \E t \in User : BeginKick(h, c, u, t)
        PROVE  Mapped
    <3>1. \E t \in User : TRUE
      OBVIOUS
    <3> HIDE DEF Mapped
    <3> QED BY <2>3, <2>4, <2>6, <3>1
  <2>7. ASSUME NEW t \in User, Promote(c, u, t)
        PROVE  Mapped
    <3>1. TRUE \in BOOLEAN
      OBVIOUS
    <3> HIDE DEF Mapped
    <3> QED BY <2>5, <2>7, <3>1
  <2> HIDE DEF Mapped
  <2> QED BY <2>1, <2>2, <2>5, <2>6, <2>7
<1>6. ASSUME NEW k \in calls, Progress(k)
      PROVE  Mapped
  <2>1. CASE ResumeDeparture(k)
    BY <1>2, <2>1, LifecycleDepart DEF Lifecycle!Next
  <2>2. CASE ResumeAndDissolve(k)
    <3>1. /\ used' = used /\ stored' = stored \ {k.conv}
          /\ \A d \in Conv \ {k.conv} : group'[d] = group[d]
      BY <2>2 DEF ResumeAndDissolve, RecordInv, TypeOK
    <3> QED BY <1>2, <3>1, LifecycleDissolve DEF Lifecycle!Next
  <2>3. CASE \/ AnnouncementCommits(k) \/ EraseCommits(k) \/ FinishErase(k)
             \/ PostCommits(k) \/ FinishPost(k)
    BY <1>1, <2>3
       DEF AnnouncementCommits, EraseCommits, FinishErase, PostCommits,
           FinishPost
  <2> HIDE DEF Mapped
  <2> QED BY <1>6, <2>1, <2>2, <2>3 DEF Progress
<1> QED BY <1>3, <1>4, <1>5, <1>6 DEF Next

(***************************************************************************)
(* The group operations implement the life cycle of GroupLifecycle: no     *)
(* interleaving of leaves, kicks, deletions and restarts brings back a     *)
(* member or a group, removes two members in a step, or leaves a pair.     *)
(***************************************************************************)
THEOREM ImplementsLifecycle == Spec => LifecycleSpec
<1>1. Init => Lifecycle!Init
  BY DEF Init, Lifecycle!Init, liveMembers
<1>2. RecordInv /\ [Next]_vars => [Lifecycle!Next]_<<used, liveMembers>>
  BY LifecycleStep
<1> QED BY <1>1, <1>2, RecordsCorrect, PTL
        DEF Spec, LifecycleSpec, Lifecycle!Spec

=============================================================================
