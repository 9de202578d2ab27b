---------------------------- MODULE GroupRecords ----------------------------
(***************************************************************************)
(* The group-chat records of the /chat namespace: group.store.ts and the   *)
(* handlers of group.handler.ts, with the group branch of the chat:message *)
(* handler.                                                                *)
(*                                                                         *)
(* The process runs JavaScript on one event loop: a handler runs without   *)
(* interruption up to an await of the database, and any other handler may  *)
(* run before it is resumed.  A handler without such an await is one       *)
(* action; the others are a Begin action, an action for the statement's    *)
(* effect in PostgreSQL and a Resume or Finish action.  Statements go      *)
(* through a connection pool, so they take effect in any order.            *)
(***************************************************************************)
EXTENDS Naturals, FiniteSets

CONSTANTS
  User,      \* user ids (JWT subjects)
  Conv,      \* the conversation ids randomUUID() will return
  Target,    \* the users an admin may name in mute-member and block-member
  Poster,    \* the users who send messages
  Handler    \* places for handler calls awaiting the database: their number
             \* bounds how many are in flight at once

ASSUME UserAssumption ==
  IsFiniteSet(User) /\ Target \subseteq User /\ Poster \subseteq User

VARIABLES
  used,        \* ids already returned by randomUUID()
  stored,      \* keys of groupStore
  group,       \* the GroupRecord objects; calls keep hold of an object that
               \* is no longer a value of groupStore
  userGroups,  \* groupsByUser; an absent key is the empty set
  calls,       \* handler calls awaiting the database
  rows,        \* conversations with at least one row in table messages
  contested,   \* history: conversations on which two departures overlapped
  overtaken,   \* history: conversations whose deletion began while another
               \* call on them was in flight
  forgotten    \* history: conversations whose group, or whose deletion, was lost
               \* in a restart

recordVars == <<used, stored, group, userGroups>>
ghostVars  == <<contested, overtaken, forgotten>>
vars       == <<recordVars, calls, rows, ghostVars>>

GroupRecord ==
  [members : SUBSET User, admins : SUBSET User,
   muted : SUBSET User, blocked : SUBSET User]

NoRecord == [members |-> {}, admins |-> {}, muted |-> {}, blocked |-> {}]

(***************************************************************************)
(* The statement a call awaits, and the same once it has taken effect:     *)
(*   announce / announced   insert of the system message of a departure    *)
(*   erase / erased         deleteMany of the conversation's messages      *)
(*   post / posted          insert of a member's message                   *)
(***************************************************************************)
Pc == {"announce", "announced", "erase", "erased", "post", "posted"}

Call == [h : Handler, pc : Pc, conv : Conv, who : User]

\* Types.  groupsByUser never names a conversation absent from groupStore
\* (the case rejoinUserGroups skips with `if (!group) continue`).
TypeOK ==
  /\ used \subseteq Conv
  /\ stored \subseteq used
  /\ group \in [Conv -> GroupRecord]
  /\ userGroups \in [User -> SUBSET stored]
  /\ calls \subseteq Call
  /\ rows \subseteq Conv
  /\ contested \subseteq Conv
  /\ overtaken \subseteq Conv
  /\ forgotten \subseteq Conv

-----------------------------------------------------------------------------
(***************************************************************************)
(* Variants: each is an operator defined below with a plausible mistake.   *)
(* They are used only to confirm that the properties notice the mistake.   *)
(***************************************************************************)

\* the filter of blockedMembers is forgotten
WithoutKeepsBlocked(r, u) ==
  [r EXCEPT !.members = @ \ {u}, !.admins = @ \ {u}, !.muted = @ \ {u}]

\* the filter of memberIds is forgotten
WithoutOnlyRoles(r, u) ==
  [r EXCEPT !.admins = @ \ {u}, !.muted = @ \ {u}, !.blocked = @ \ {u}]

\* removeUserFromGroup returns early
UnindexNothing(index, us, c) == index

\* off by one: a pair is still a group
TooSmallOffByOne(r) == Cardinality(r.members) < 2

\* deleteGroup tells the admins instead of all the members
SawItAdmins(r) == r.admins \cup r.blocked

\* min_members counts the invited users twice
EnoughMembersOffByOne(us) == Cardinality(us) >= 2

\* the must_transfer_admin guard is dropped
MayLeaveAnyone(c, u) == c \in stored /\ u \in group[c].members

\* the not_member guard is dropped
MayKickAnyone(c, a, t) == c \in stored /\ a \in group[c].admins /\ t # a

\* the not_member guard is dropped
MayPostUnchecked(c, u) == c \in used /\ u \notin group[c].muted

-----------------------------------------------------------------------------
(***************************************************************************)
(* Helpers of group.store.ts and guards of the handlers.                   *)
(***************************************************************************)

\* The four filters a departure applies to the record.
Without(r, u) ==
  [members |-> r.members \ {u}, admins |-> r.admins \ {u},
   muted |-> r.muted \ {u}, blocked |-> r.blocked \ {u}]

\* removeUserFromGroup for every user of us
Unindex(index, us, c) ==
  [u \in User |-> IF u \in us THEN index[u] \ {c} ELSE index[u]]

\* addUserToGroup for every user of us
Index(index, us, c) ==
  [u \in User |-> IF u \in us THEN index[u] \cup {c} ELSE index[u]]

\* the test of autoDeleteIfTooSmall
TooSmall(r) == Cardinality(r.members) < 3

\* the set allWhoSawIt of deleteGroup
SawIt(r) == r.members \cup r.blocked

\* the min_members guard of group:create
EnoughMembers(us) == Cardinality(us) >= 3

IsAdmin(c, u) == u \in group[c].admins

MayLeave(c, u) ==
  /\ c \in stored
  /\ u \in group[c].members
  /\ ~ (IsAdmin(c, u) /\ Cardinality(group[c].admins) = 1
        /\ Cardinality(group[c].members) > 1)

MayKick(c, a, t) ==
  c \in stored /\ IsAdmin(c, a) /\ t # a /\ t \in group[c].members

\* the checks shared by promote, mute-member and block-member
MayManage(c, a, t) ==
  c \in stored /\ IsAdmin(c, a) /\ t \in group[c].members

\* the group branch of chat:message
MayPost(c, u) ==
  c \in stored /\ u \in group[c].members /\ u \notin group[c].muted

-----------------------------------------------------------------------------
(***************************************************************************)
(* Bookkeeping of the calls in flight.                                     *)
(***************************************************************************)
CallsOn(c) == {k \in calls : k.conv = c}

Departures(c) == {k \in CallsOn(c) : k.pc \in {"announce", "announced"}}

Begin(h, pc, c, u) ==
  /\ \A k \in calls : k.h # h
  /\ calls' = calls \cup {[h |-> h, pc |-> pc, conv |-> c, who |-> u]}

Continue(k, pc) == calls' = (calls \ {k}) \cup {[k EXCEPT !.pc = pc]}

Finish(k) == calls' = calls \ {k}

\* deletions of messages that have not taken effect
Erasing == {k \in calls : k.pc = "erase"}

\* Record that other calls on c are in flight when its deletion begins.
NoteOvertaken(c, others) ==
  overtaken' = overtaken \cup
    (IF \E k \in others : k.conv = c THEN {c} ELSE {})

-----------------------------------------------------------------------------
Init ==
  /\ used = {}
  /\ stored = {}
  /\ group = [c \in Conv |-> NoRecord]
  /\ userGroups = [u \in User |-> {}]
  /\ calls = {}
  /\ rows = {}
  /\ contested = {}
  /\ overtaken = {}
  /\ forgotten = {}

\* group:create by u with data.memberIds = invited
Create(c, u, invited) ==
  LET us == {u} \cup invited IN
  /\ c \notin used
  /\ EnoughMembers(us)
  /\ used' = used \cup {c}
  /\ stored' = stored \cup {c}
  /\ group' = [group EXCEPT ![c] = [members |-> us, admins |-> {u},
                                    muted |-> {}, blocked |-> {}]]
  /\ userGroups' = Index(userGroups, us, c)
  /\ UNCHANGED <<calls, rows, ghostVars>>

-----------------------------------------------------------------------------
(***************************************************************************)
(* group:leave and group:kick, up to and after the await of                *)
(* emitGroupSystemMessage.  The record is not looked up again after it.    *)
(***************************************************************************)
BeginDeparture(h, c, u) ==
  /\ Begin(h, "announce", c, u)
  /\ contested' = contested \cup (IF Departures(c) = {} THEN {} ELSE {c})
  /\ UNCHANGED <<recordVars, rows, overtaken, forgotten>>

BeginLeave(h, c, u) == MayLeave(c, u) /\ BeginDeparture(h, c, u)

BeginKick(h, c, a, t) == MayKick(c, a, t) /\ BeginDeparture(h, c, t)

\* the insert of the system message takes effect
AnnouncementCommits(k) ==
  /\ k.pc = "announce"
  /\ Continue(k, "announced")
  /\ rows' = rows \cup {k.conv}
  /\ UNCHANGED <<recordVars, ghostVars>>

\* The system message is broadcast and the target removed; three or more
\* members stay, or the group is no longer stored (deleteGroup then returns
\* at once).
ResumeDeparture(k) ==
  LET r == Without(group[k.conv], k.who) IN
  /\ k.pc = "announced"
  /\ ~ (TooSmall(r) /\ k.conv \in stored)
  /\ group' = [group EXCEPT ![k.conv] = r]
  /\ userGroups' = Unindex(userGroups, {k.who}, k.conv)
  /\ Finish(k)
  /\ UNCHANGED <<used, stored, rows, ghostVars>>

\* The same when too few members stay: autoDeleteIfTooSmall calls deleteGroup.
ResumeAndDissolve(k) ==
  LET r == Without(group[k.conv], k.who) IN
  /\ k.pc = "announced"
  /\ TooSmall(r) /\ k.conv \in stored
  /\ group' = [group EXCEPT ![k.conv] = r]
  /\ userGroups' = Unindex(userGroups, {k.who} \cup SawIt(r), k.conv)
  /\ stored' = stored \ {k.conv}
  /\ Continue(k, "erase")
  /\ NoteOvertaken(k.conv, calls \ {k})
  /\ UNCHANGED <<used, rows, contested, forgotten>>

-----------------------------------------------------------------------------
\* group:delete by admin a, up to the await of deleteMany
BeginDelete(h, c, a) ==
  /\ c \in stored
  /\ IsAdmin(c, a)
  /\ userGroups' = Unindex(userGroups, SawIt(group[c]), c)
  /\ stored' = stored \ {c}
  /\ Begin(h, "erase", c, a)
  /\ NoteOvertaken(c, calls)
  /\ UNCHANGED <<used, group, rows, contested, forgotten>>

\* deleteMany takes effect
EraseCommits(k) ==
  /\ k.pc = "erase"
  /\ Continue(k, "erased")
  /\ rows' = rows \ {k.conv}
  /\ UNCHANGED <<recordVars, ghostVars>>

\* the acknowledgement of the delete, leave or kick
FinishErase(k) ==
  /\ k.pc = "erased"
  /\ Finish(k)
  /\ UNCHANGED <<recordVars, rows, ghostVars>>

-----------------------------------------------------------------------------
(***************************************************************************)
(* group:promote, group:mute-member and group:block-member await nothing.  *)
(***************************************************************************)
Promote(c, a, t) ==
  /\ MayManage(c, a, t)
  /\ group' = [group EXCEPT ![c].admins = @ \cup {t}]
  /\ UNCHANGED <<used, stored, userGroups, calls, rows, ghostVars>>

Mute(c, a, t, on) ==
  /\ MayManage(c, a, t)
  /\ group' = [group EXCEPT ![c].muted = IF on THEN @ \cup {t} ELSE @ \ {t}]
  /\ UNCHANGED <<used, stored, userGroups, calls, rows, ghostVars>>

Block(c, a, t, on) ==
  /\ MayManage(c, a, t)
  /\ group' = [group EXCEPT ![c].blocked = IF on THEN @ \cup {t} ELSE @ \ {t}]
  /\ UNCHANGED <<used, stored, userGroups, calls, rows, ghostVars>>

-----------------------------------------------------------------------------
(***************************************************************************)
(* chat:message in a group.  The membership and mute checks come before    *)
(* the awaits of the reply lookup (a read) and of the insert.              *)
(***************************************************************************)
BeginPost(h, c, u) ==
  /\ MayPost(c, u)
  /\ Begin(h, "post", c, u)
  /\ UNCHANGED <<recordVars, rows, ghostVars>>

PostCommits(k) ==
  /\ k.pc = "post"
  /\ Continue(k, "posted")
  /\ rows' = rows \cup {k.conv}
  /\ UNCHANGED <<recordVars, ghostVars>>

\* variant: no acknowledgement for a sender who was removed meanwhile
FinishPostIfMember(k) ==
  /\ k.pc = "posted"
  /\ k.who \in group[k.conv].members
  /\ Finish(k)
  /\ UNCHANGED <<recordVars, rows, ghostVars>>

FinishPost(k) ==
  /\ k.pc = "posted"
  /\ Finish(k)
  /\ UNCHANGED <<recordVars, rows, ghostVars>>

-----------------------------------------------------------------------------
\* The process dies (a database error in a handler is an unhandled rejection)
\* and is started again: the Maps of group.store.ts are empty, the table is
\* as it was.
Crash ==
  /\ stored' = {}
  /\ group' = [c \in Conv |-> NoRecord]
  /\ userGroups' = [u \in User |-> {}]
  /\ calls' = {}
  /\ forgotten' = forgotten \cup stored \cup {k.conv : k \in Erasing}
  /\ UNCHANGED <<used, rows, contested, overtaken>>

-----------------------------------------------------------------------------
\* an event of a client
Request ==
  \E c \in Conv, u \in User :
    \/ \E invited \in SUBSET User : Create(c, u, invited)
    \/ \E h \in Handler : \/ BeginLeave(h, c, u)
                          \/ BeginDelete(h, c, u)
                          \/ u \in Poster /\ BeginPost(h, c, u)
                          \/ \E t \in User : BeginKick(h, c, u, t)
    \/ \E t \in User : Promote(c, u, t)
    \/ \E t \in Target, on \in BOOLEAN : \/ Mute(c, u, t, on)
                                         \/ Block(c, u, t, on)

\* an answer of the database, or the resumption it causes
Progress(k) ==
  \/ AnnouncementCommits(k)
  \/ ResumeDeparture(k)
  \/ ResumeAndDissolve(k)
  \/ EraseCommits(k)
  \/ FinishErase(k)
  \/ PostCommits(k)
  \/ FinishPost(k)

Next ==
  \/ Request
  \/ \E k \in calls : Progress(k)
  \/ Crash

Spec == Init /\ [][Next]_vars

\* The database answers every statement and the event loop runs every
\* continuation it queues; nothing obliges a client to send an event.
HandlerProgress(h) == \E k \in calls : k.h = h /\ Progress(k)

FairSpec == Spec /\ \A h \in Handler : WF_vars(HandlerProgress(h))

-----------------------------------------------------------------------------
(***************************************************************************)
(* Safety.                                                                 *)
(***************************************************************************)

\* Whatever departures overlap, a stored group has three members or more:
\* autoDeleteIfTooSmall runs in the same step as the removal.
NoUndersizedGroup ==
  \A c \in stored : Cardinality(group[c].members) >= 3

\* groupsByUser and groupStore agree: a user is offered, on connection,
\* exactly the stored groups they are a member of.
IndexMatchesMembership ==
  \A c \in Conv, u \in User :
    c \in userGroups[u] <=> c \in stored /\ u \in group[c].members

\* Nobody outside a group is its admin, muted or blocked: a departure that
\* was overtaken by promotions, mutes or blocks of the target undoes them.
RolesWithinMembers ==
  \A c \in stored :
    group[c].admins \cup group[c].muted \cup group[c].blocked
      \subseteq group[c].members

\* must_transfer_admin and cannot_kick_self keep an admin in every group,
\* unless two departures from it overlapped.
HeadlessOnlyIfContested ==
  \A c \in stored : group[c].admins = {} => c \in contested

\* The target of a departure in progress is a member until it is resumed,
\* unless two departures overlapped.
DepartingStillMember ==
  \A k \in calls :
    k.pc \in {"announce", "announced"} /\ k.conv \in stored
      => k.who \in group[k.conv].members \/ k.conv \in contested

\* A row of table messages belongs to a group that is stored or whose rows
\* are about to be erased.  A row without one is left by a call that was in
\* flight when the deletion began, or by a restart that forgot the group or
\* its deletion: nothing else, and never a deletion that was acknowledged,
\* leaves any.
RowsHaveGroup ==
  \A c \in rows :
    \/ c \in stored \/ \E k \in Erasing : k.conv = c
    \/ c \in overtaken \/ c \in forgotten

\* What the guards of leave and kick are there for; see the run that
\* refutes it.
GroupHasAdmin == \A c \in stored : group[c].admins # {}

-----------------------------------------------------------------------------
(***************************************************************************)
(* What makes these inductive (GroupRecordsProofs).                        *)
(***************************************************************************)
RecordInv ==
  /\ TypeOK
  /\ NoUndersizedGroup
  /\ IndexMatchesMembership
  /\ RolesWithinMembers

\* Without contention there is at most one departure in progress, and it
\* leaves an admin behind.
SoleDeparture ==
  \A c \in stored \ contested : \A j, k \in Departures(c) : j = k

AdminStays ==
  \A c \in stored \ contested : \A k \in Departures(c) :
    group[c].admins \ {k.who} # {}

DepartureInv ==
  /\ \A k \in calls : k.conv \in used
  /\ SoleDeparture
  /\ AdminStays
  /\ HeadlessOnlyIfContested
  /\ DepartingStillMember

\* A call that may insert belongs to a stored group or was overtaken by the
\* deletion.
EraseInv ==
  /\ \A k \in calls :
       k.pc \notin {"erase", "erased"} =>
         k.conv \in stored \/ k.conv \in overtaken
  /\ RowsHaveGroup

IndInv == RecordInv /\ DepartureInv /\ EraseInv

-----------------------------------------------------------------------------
(***************************************************************************)
(* Refinement: the groups as their members see them.                       *)
(***************************************************************************)
liveMembers == [c \in Conv |-> IF c \in stored THEN group[c].members ELSE {}]

Lifecycle == INSTANCE GroupLifecycle WITH live <- liveMembers, founded <- used

\* Membership follows the life cycle of GroupLifecycle.
LifecycleSpec == Lifecycle!Spec

-----------------------------------------------------------------------------
(***************************************************************************)
(* Liveness, under FairSpec.                                               *)
(***************************************************************************)

\* A leave or kick that passed its guards takes effect, whatever overlaps it,
\* and every event that was accepted is acknowledged, or the process dies.
AcceptedCallsComplete ==
  /\ \A c \in Conv, u \in User :
       (\E k \in Departures(c) : k.who = u) ~> (u \notin group[c].members)
  /\ \A h \in Handler :
       (\E k \in calls : k.h = h) ~> (\A k \in calls : k.h # h)

=============================================================================
