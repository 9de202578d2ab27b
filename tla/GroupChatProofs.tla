--------------------------- MODULE GroupChatProofs ---------------------------
(***************************************************************************)
(* Proofs about GroupChat, for any users, groups, calls and connections.   *)
(* What GroupRecordsProofs shows of the records holds of the composition,  *)
(* since each of its steps is a step of GroupRecords or leaves the records *)
(* alone; rooms and views are then related to them.                        *)
(***************************************************************************)
EXTENDS GroupChat, GroupRecordsProofs

\* A connection, a message in flight and a chat:join are no business of the
\* records; every other step is a step of theirs.
LEMMA ChatStepIsRecordStep == [ChatNext]_chatVars => [Next]_vars
<1> SUFFICES ASSUME [ChatNext]_chatVars
             PROVE  [Next]_vars
  OBVIOUS
<1>1. CASE Connection
  BY <1>1 DEF Connection, Connect, Disconnect, ChatJoin, ChatLeave
<1>2. CASE ChatRequest
  <2>1. ASSUME NEW c \in Conv, NEW u \in User,
               \/ \E invited \in SUBSET User : ChatCreate(c, u, invited)
               \/ \E h \in Handler : ChatDelete(h, c, u)
               \/ \E t \in User : ChatPromote(c, u, t)
        PROVE  Next
    BY <2>1 DEF ChatCreate, ChatDelete, ChatPromote, Next, Request
  <2>2. ASSUME NEW c \in Conv, NEW u \in User, NEW t \in Target,
               NEW on \in BOOLEAN,
               ChatMute(c, u, t, on) \/ ChatBlock(c, u, t, on)
        PROVE  Next
    BY <2>2 DEF ChatMute, ChatBlock, Next, Request
  <2> QED
    BY <1>2, <2>1, <2>2 DEF ChatRequest
<1>3. ASSUME NEW k \in calls, ChatDepart(k) \/ ChatDissolve(k)
      PROVE  [Next]_vars
  BY <1>3 DEF ChatDepart, ChatDissolve, Next, Progress
<1>4. CASE Silent
  BY <1>4 DEF Silent, Next, Request, Progress
<1>5. CASE ChatCrash
  BY <1>5 DEF ChatCrash, Next
<1>6. CASE UNCHANGED chatVars
  BY <1>6 DEF chatVars
<1> QED
  BY <1>1, <1>2, <1>3, <1>4, <1>5, <1>6 DEF ChatNext

\* The composition implements GroupRecords: sockets take part in no decision
\* about a group.
THEOREM ImplementsRecords == ChatSpec => Spec
<1>1. ChatInit => Init
  BY DEF ChatInit
<1> QED
  BY <1>1, ChatStepIsRecordStep, PTL DEF ChatSpec, Spec

-----------------------------------------------------------------------------
(***************************************************************************)
(* The inductive invariant.  Conversations share nothing but the list of   *)
(* connected sockets, so it is stated of each.                             *)
(***************************************************************************)

\* The three properties, of one conversation.
Current(c) ==
  c \in stored => \A s \in online :
    Owner[s] \in group[c].members => view[c][s] = group[c]

InRoom(c) ==
  \A s \in online \ touched[c] :
    s \in room[c] <=> /\ c \in stored
                      /\ Owner[s] \in group[c].members \ group[c].blocked

Mine(c) ==
  \A s \in online :
    view[c][s] # NoRecord =>
      \/ c \in stored /\ Owner[s] \in group[c].members
      \/ s \in touched[c]
      \/ c \in overtaken

\* A socket that closed was told nothing: a connection starts from there.
Blank(c) == \A s \in Socket \ online : view[c][s] = NoRecord

SocketTypeOK ==
  /\ online \subseteq Socket
  /\ room \in [Conv -> SUBSET online]
  /\ view \in [Conv -> [Socket -> GroupRecord]]
  /\ touched \in [Conv -> SUBSET online]

ConvOK(c) == Current(c) /\ InRoom(c) /\ Mine(c) /\ Blank(c)

SocketInv == SocketTypeOK /\ \A c \in Conv : ConvOK(c)

LEMMA SocketInit == ChatInit => SocketInv
BY DEF ChatInit, Init, SocketInv, SocketTypeOK, ConvOK, Current, InRoom, Mine,
       Blank, NoRecord, GroupRecord

-----------------------------------------------------------------------------
(***************************************************************************)
(* Connections.                                                            *)
(***************************************************************************)
LEMMA ConnectKeeps ==
  ASSUME IndInv, SocketInv, NEW s \in Socket, Connect(s)
  PROVE  SocketInv'
<1> USE OwnerAssumption
<1> DEFINE u == Owner[s]
<1>1. /\ s \notin online /\ online' = online \cup {s} /\ u \in User
      /\ room' = [c \in Conv |-> IF c \in Rejoined(u) THEN room[c] \cup {s}
                                 ELSE room[c]]
      /\ view' = [c \in Conv |-> IF c \in userGroups[u] /\ c \in stored
                                   THEN [view[c] EXCEPT ![s] = group[c]]
                                   ELSE view[c]]
      /\ UNCHANGED <<stored, group, overtaken, touched>>
  BY DEF Connect, vars, recordVars, ghostVars
<1>2. /\ group \in [Conv -> GroupRecord] /\ SocketTypeOK
      /\ \A c \in Conv : c \in userGroups[u] <=>
           c \in stored /\ u \in group[c].members
  BY <1>1 DEF IndInv, RecordInv, TypeOK, IndexMatchesMembership, SocketInv
<1>3. SocketTypeOK'
  BY <1>1, <1>2 DEF SocketTypeOK
<1>4. ASSUME NEW c \in Conv
      PROVE  ConvOK(c)'
  <2>1. ConvOK(c)
    BY DEF SocketInv
  <2>2. /\ view'[c][s] = IF c \in stored /\ u \in group[c].members
                           THEN group[c] ELSE NoRecord
        /\ \A t \in Socket : t # s => view'[c][t] = view[c][t]
    BY <1>1, <1>2, <2>1 DEF SocketTypeOK, ConvOK, Blank
  <2>3. /\ s \in room'[c] <=> /\ c \in stored
                              /\ u \in group[c].members \ group[c].blocked
        /\ \A t \in Socket : t # s => (t \in room'[c] <=> t \in room[c])
        /\ s \notin touched[c]
    BY <1>1, <1>2 DEF SocketTypeOK, Rejoined
  <2>4. Current(c)'
    BY <1>1, <2>1, <2>2 DEF Current, ConvOK
  <2>5. InRoom(c)'
    BY <1>1, <1>2, <2>1, <2>3 DEF InRoom, ConvOK, SocketTypeOK
  <2>6. Mine(c)'
    BY <1>1, <1>2, <2>1, <2>2 DEF Mine, ConvOK, SocketTypeOK
  <2>7. Blank(c)'
    BY <1>1, <2>1, <2>2 DEF Blank, ConvOK
  <2> QED
    BY <2>4, <2>5, <2>6, <2>7 DEF ConvOK
<1> QED
  BY <1>3, <1>4 DEF SocketInv

LEMMA DisconnectKeeps ==
  ASSUME IndInv, SocketInv, NEW s \in Socket, Disconnect(s)
  PROVE  SocketInv'
<1>1. /\ online' = online \ {s}
      /\ room' = [c \in Conv |-> room[c] \ {s}]
      /\ view' = [c \in Conv |-> [view[c] EXCEPT ![s] = NoRecord]]
      /\ touched' = [c \in Conv |-> touched[c] \ {s}]
      /\ UNCHANGED <<stored, group, overtaken>>
  BY DEF Disconnect, LeaveAll, vars, recordVars, ghostVars
<1>2. SocketTypeOK'
  BY <1>1 DEF SocketInv, SocketTypeOK, GroupRecord, NoRecord
<1>3. ASSUME NEW c \in Conv
      PROVE  ConvOK(c)'
  BY <1>1 DEF SocketInv, SocketTypeOK, ConvOK, Current, InRoom, Mine, Blank
<1> QED
  BY <1>2, <1>3 DEF SocketInv

\* Who moves themselves is no longer spoken for.
LEMMA JoinLeaveKeeps ==
  ASSUME IndInv, SocketInv, NEW s \in Socket, NEW d \in Conv,
         ChatJoin(s, d) \/ ChatLeave(s, d)
  PROVE  SocketInv'
<1>1. /\ s \in online
      /\ room' \in {[room EXCEPT ![d] = @ \cup {s}], [room EXCEPT ![d] = @ \ {s}]}
      /\ touched' = [touched EXCEPT ![d] = @ \cup {s}]
      /\ UNCHANGED <<online, view, stored, group, overtaken>>
  BY DEF ChatJoin, ChatLeave, vars, recordVars, ghostVars
<1>2. SocketTypeOK'
  BY <1>1 DEF SocketInv, SocketTypeOK
<1>3. ASSUME NEW c \in Conv
      PROVE  ConvOK(c)'
  <2>1. /\ touched'[c] \subseteq touched[c] \cup {s}
        /\ touched[c] \subseteq touched'[c]
        /\ \A t \in online \ touched'[c] : t \in room'[c] <=> t \in room[c]
    BY <1>1 DEF SocketInv, SocketTypeOK
  <2> QED
    BY <1>1, <2>1 DEF SocketInv, ConvOK, Current, InRoom, Mine, Blank
<1> QED
  BY <1>2, <1>3 DEF SocketInv

-----------------------------------------------------------------------------
(***************************************************************************)
(* Operations on a group disturb its own conversation only.                *)
(***************************************************************************)

\* The sockets of online are told of, or moved in, conversation d alone.
Only(d) ==
  /\ online' = online
  /\ \A c \in Conv \ {d} :
       /\ c \in stored' <=> c \in stored
       /\ group'[c] = group[c]
       /\ view'[c] = view[c] /\ room'[c] = room[c] /\ touched'[c] = touched[c]
  /\ overtaken \subseteq overtaken'

LEMMA OnlyKeeps ==
  ASSUME SocketInv, NEW d \in Conv, Only(d), SocketTypeOK', ConvOK(d)'
  PROVE  SocketInv'
<1> SUFFICES ASSUME NEW c \in Conv \ {d}
             PROVE  ConvOK(c)'
  BY DEF SocketInv
<1> QED
  BY DEF Only, SocketInv, ConvOK, Current, InRoom, Mine, Blank

\* What Show makes of the views.
LEMMA ShowView ==
  ASSUME SocketTypeOK, NEW c \in Conv, NEW ss, NEW r \in GroupRecord
  PROVE  /\ Show(c, ss, r) \in [Conv -> [Socket -> GroupRecord]]
         /\ \A d \in Conv \ {c} : Show(c, ss, r)[d] = view[d]
         /\ \A s \in Socket : Show(c, ss, r)[c][s] =
              IF s \in ss THEN r ELSE view[c][s]
BY DEF SocketTypeOK, Show

LEMMA HideThenShowView ==
  ASSUME SocketTypeOK, NEW c \in Conv, NEW gone, NEW told, NEW r \in GroupRecord
  PROVE  /\ HideThenShow(c, gone, told, r) \in [Conv -> [Socket -> GroupRecord]]
         /\ \A d \in Conv \ {c} : HideThenShow(c, gone, told, r)[d] = view[d]
         /\ \A s \in Socket : HideThenShow(c, gone, told, r)[c][s] =
              IF s \in told THEN r ELSE IF s \in gone THEN NoRecord
              ELSE view[c][s]
BY DEF SocketTypeOK, HideThenShow, GroupRecord, NoRecord

\* What entering and leaving a room makes of rooms and of who moved
\* themselves.
LEMMA RoomMoves ==
  ASSUME SocketTypeOK, NEW c \in Conv, NEW ss \in SUBSET online,
         UNCHANGED online
  PROVE  /\ JoinRoom(c, ss) =>
              /\ room' \in [Conv -> SUBSET online]
              /\ touched' \in [Conv -> SUBSET online]
              /\ \A d \in Conv \ {c} : room'[d] = room[d] /\ touched'[d] = touched[d]
              /\ room'[c] = room[c] \cup ss /\ touched'[c] = touched[c] \ ss
         /\ LeaveRoom(c, ss) =>
              /\ room' \in [Conv -> SUBSET online]
              /\ touched' \in [Conv -> SUBSET online]
              /\ \A d \in Conv \ {c} : room'[d] = room[d] /\ touched'[d] = touched[d]
              /\ room'[c] = room[c] \ ss /\ touched'[c] = touched[c] \ ss
BY DEF SocketTypeOK, JoinRoom, LeaveRoom

-----------------------------------------------------------------------------
LEMMA CreateKeeps ==
  ASSUME IndInv, IndInv', SocketInv, NEW c \in Conv, NEW u \in User,
         NEW invited \in SUBSET User, ChatCreate(c, u, invited)
  PROVE  SocketInv'
<1> DEFINE us == {u} \cup invited
           ss == SocketsOf(us)
<1>1. /\ group' = [group EXCEPT ![c] = [members |-> us, admins |-> {u},
                                        muted |-> {}, blocked |-> {}]]
      /\ stored' = stored \cup {c} /\ c \notin stored
      /\ JoinRoom(c, ss)
      /\ view' = Show(c, ss, group'[c])
      /\ UNCHANGED <<online, overtaken>>
  BY DEF ChatCreate, Create, IndInv, RecordInv, TypeOK, ghostVars
<1>2. SocketTypeOK /\ ConvOK(c) /\ ss \in SUBSET online
  BY DEF SocketInv, SocketsOf
<1>3. /\ group'[c] \in GroupRecord
      /\ group'[c].members = us /\ group'[c].blocked = {}
      /\ \A d \in Conv \ {c} : group'[d] = group[d]
  BY <1>1 DEF IndInv, RecordInv, TypeOK
<1>4. /\ view' \in [Conv -> [Socket -> GroupRecord]]
      /\ \A d \in Conv \ {c} : view'[d] = view[d]
      /\ \A s \in Socket : view'[c][s] = IF s \in ss THEN group'[c]
                                         ELSE view[c][s]
  <2> DEFINE r == group'[c]
  <2>1. view' = Show(c, ss, r) /\ r \in GroupRecord
    BY <1>1, <1>3
  <2> HIDE DEF r, ss
  <2>2. /\ view' \in [Conv -> [Socket -> GroupRecord]]
        /\ \A d \in Conv \ {c} : view'[d] = view[d]
        /\ \A s \in Socket : view'[c][s] = IF s \in ss THEN r
                                           ELSE view[c][s]
    BY <1>2, <2>1, ShowView
  <2> QED
    BY <2>2 DEF r
<1>5. /\ room' \in [Conv -> SUBSET online]
      /\ touched' \in [Conv -> SUBSET online]
      /\ \A d \in Conv \ {c} : room'[d] = room[d] /\ touched'[d] = touched[d]
      /\ room'[c] = room[c] \cup ss /\ touched'[c] = touched[c] \ ss
  BY <1>1, <1>2, RoomMoves
<1>6. SocketTypeOK'
  BY <1>1, <1>2, <1>4, <1>5 DEF SocketTypeOK
<1>7. Only(c)
  BY <1>1, <1>3, <1>4, <1>5 DEF Only
<1>8. /\ c \in stored'
      /\ \A s \in online : s \in ss <=> Owner[s] \in group'[c].members
  BY <1>1, <1>3 DEF SocketsOf, IndInv, RecordInv, TypeOK
<1>9. Current(c)'
  BY <1>1, <1>2, <1>4, <1>8 DEF SocketTypeOK, Current
<1>10. InRoom(c)'
  <2> SUFFICES ASSUME NEW s \in online, s \notin touched'[c]
               PROVE  s \in room'[c] <=> s \in ss
    BY <1>1, <1>3, <1>8 DEF InRoom
  <2> QED
    BY <1>1, <1>2, <1>5 DEF ConvOK, InRoom
<1>11. Mine(c)'
  <2> SUFFICES ASSUME NEW s \in online, s \notin ss, view[c][s] # NoRecord
               PROVE  s \in touched[c] \/ c \in overtaken
    BY <1>1, <1>2, <1>4, <1>5, <1>8 DEF Mine, SocketTypeOK
  <2> QED
    BY <1>1, <1>2 DEF ConvOK, Mine
<1>12. Blank(c)'
  BY <1>1, <1>2, <1>4 DEF ConvOK, Blank
<1> QED
  BY <1>6, <1>7, <1>9, <1>10, <1>11, <1>12, OnlyKeeps DEF ConvOK

\* A departure, or what is left of one after the group was deleted.
LEMMA DepartKeeps ==
  ASSUME IndInv, IndInv', SocketInv, NEW k \in calls, ChatDepart(k)
  PROVE  SocketInv'
<1> DEFINE c == k.conv
           r == Without(group[c], k.who)
           gone == SocketsOf({k.who})
           told == IF TooSmall(group'[c]) THEN {}
                   ELSE Recipients(group'[c], room[c] \ gone)
<1>1. /\ c \in Conv /\ group \in [Conv -> GroupRecord]
      /\ group[c] \in GroupRecord
  BY DEF IndInv, RecordInv, TypeOK, Call
<1>2. /\ group' = [group EXCEPT ![c] = r]
      /\ ~ (TooSmall(r) /\ c \in stored)
      /\ LeaveRoom(c, gone)
      /\ view' = HideThenShow(c, gone, told, group'[c])
      /\ UNCHANGED <<online, stored, overtaken>>
  BY DEF ChatDepart, ResumeDeparture, ghostVars
<1>3. SocketTypeOK /\ ConvOK(c) /\ gone \in SUBSET online
  BY <1>1 DEF SocketInv, SocketsOf
<1>4. /\ group'[c] = r /\ r \in GroupRecord
      /\ r.members = group[c].members \ {k.who}
      /\ r.blocked = group[c].blocked \ {k.who}
      /\ \A d \in Conv \ {c} : group'[d] = group[d]
  BY <1>1, <1>2, WithoutRecord
<1>5. /\ view' \in [Conv -> [Socket -> GroupRecord]]
      /\ \A d \in Conv \ {c} : view'[d] = view[d]
      /\ \A s \in Socket : view'[c][s] =
           IF s \in told THEN r ELSE IF s \in gone THEN NoRecord
           ELSE view[c][s]
  <2>1. view' = HideThenShow(c, gone, told, r)
    BY <1>2, <1>4
  <2> HIDE DEF c, gone, told, r
  <2> QED
    BY <1>1, <1>3, <1>4, <2>1, HideThenShowView
<1>6. /\ room' \in [Conv -> SUBSET online]
      /\ touched' \in [Conv -> SUBSET online]
      /\ \A d \in Conv \ {c} : room'[d] = room[d] /\ touched'[d] = touched[d]
      /\ room'[c] = room[c] \ gone /\ touched'[c] = touched[c] \ gone
  BY <1>1, <1>2, <1>3, RoomMoves
<1>7. SocketTypeOK'
  BY <1>2, <1>3, <1>5, <1>6 DEF SocketTypeOK
<1>8. Only(c)
  BY <1>2, <1>4, <1>5, <1>6 DEF Only
<1>9. c \in stored \/ c \in overtaken
  <2>1. k.pc \notin {"erase", "erased"}
    BY DEF ChatDepart, ResumeDeparture
  <2> QED
    BY <2>1 DEF IndInv, EraseInv
<1>10. told \subseteq online
  BY <1>1, <1>3 DEF Recipients, SocketsOf, SocketTypeOK
<1>11. Current(c)'
  <2> SUFFICES ASSUME c \in stored, NEW s \in online, Owner[s] \in r.members
               PROVE  view'[c][s] = r
    BY <1>2, <1>4 DEF Current
  <2>1. s \in told
    BY <1>2, <1>4 DEF Recipients, SocketsOf
  <2> QED
    BY <1>3, <1>5, <2>1 DEF SocketTypeOK
<1>12. InRoom(c)'
  BY <1>2, <1>3, <1>4, <1>6 DEF ConvOK, InRoom, SocketsOf
<1>13. Mine(c)'
  <2> SUFFICES ASSUME c \in stored, NEW s \in online, view'[c][s] # NoRecord,
                      s \notin touched'[c], c \notin overtaken
               PROVE  Owner[s] \in r.members
    BY <1>2, <1>4, <1>9 DEF Mine
  <2>1. CASE s \in told
    <3>1. s \in room'[c] \/ Owner[s] \in r.members
      BY <1>2, <1>4, <1>6, <2>1 DEF Recipients, SocketsOf
    <3> QED
      BY <1>2, <1>4, <1>12, <3>1 DEF InRoom
  <2>2. CASE s \notin told
    <3>1. s \notin gone /\ view[c][s] # NoRecord
      BY <1>3, <1>5, <2>2 DEF SocketTypeOK
    <3>2. s \notin touched[c]
      BY <1>6, <3>1
    <3> QED
      BY <1>3, <1>4, <3>1, <3>2 DEF ConvOK, Mine, SocketsOf
  <2> QED
    BY <2>1, <2>2
<1>14. Blank(c)'
  BY <1>2, <1>3, <1>5, <1>10 DEF ConvOK, Blank, SocketsOf
<1> QED
  BY <1>1, <1>7, <1>8, <1>11, <1>12, <1>13, <1>14, OnlyKeeps DEF ConvOK

\* A group's end, by group:delete or by a departure that leaves two: its
\* members, and more, are moved out and told.
LEMMA EndKeeps ==
  ASSUME IndInv, IndInv', SocketInv, NEW c \in Conv, NEW us,
         group[c].members \subseteq us,
         \A d \in Conv \ {c} : group'[d] = group[d],
         stored' = stored \ {c}, overtaken \subseteq overtaken',
         LeaveRoom(c, SocketsOf(us)), view' = Show(c, SocketsOf(us), NoRecord),
         UNCHANGED online
  PROVE  SocketInv'
<1> DEFINE gone == SocketsOf(us)
<1>1. SocketTypeOK /\ ConvOK(c) /\ gone \in SUBSET online
  BY DEF SocketInv, SocketsOf
<1>2. /\ view' \in [Conv -> [Socket -> GroupRecord]]
      /\ \A d \in Conv \ {c} : view'[d] = view[d]
      /\ \A s \in Socket : view'[c][s] = IF s \in gone THEN NoRecord
                                         ELSE view[c][s]
  <2>1. NoRecord \in GroupRecord
    BY DEF NoRecord, GroupRecord
  <2> QED
    BY <1>1, <2>1, ShowView
<1>3. /\ room' \in [Conv -> SUBSET online]
      /\ touched' \in [Conv -> SUBSET online]
      /\ \A d \in Conv \ {c} : room'[d] = room[d] /\ touched'[d] = touched[d]
      /\ room'[c] = room[c] \ gone /\ touched'[c] = touched[c] \ gone
  BY <1>1, RoomMoves
<1>4. SocketTypeOK'
  BY <1>1, <1>2, <1>3 DEF SocketTypeOK
<1>5. Only(c)
  BY <1>2, <1>3 DEF Only
<1>6. c \notin stored' /\ Current(c)'
  BY DEF Current
<1>7. InRoom(c)' /\ Mine(c)'
  <2> SUFFICES ASSUME NEW s \in online, s \notin touched'[c]
               PROVE  /\ s \notin room'[c]
                      /\ view'[c][s] # NoRecord => c \in overtaken
    BY <1>3, <1>6 DEF InRoom, Mine
  <2>1. s \in Socket /\ (s \in gone <=> Owner[s] \in us)
    BY <1>1 DEF SocketTypeOK, SocketsOf
  <2>2. CASE s \in gone
    BY <1>2, <1>3, <2>1, <2>2
  <2>3. CASE s \notin gone
    <3>1. s \notin touched[c] /\ Owner[s] \notin group[c].members
      BY <1>3, <2>1, <2>3
    <3>2. s \notin room[c] /\ (view[c][s] # NoRecord => c \in overtaken)
      BY <1>1, <3>1 DEF ConvOK, InRoom, Mine
    <3> QED
      BY <1>2, <1>3, <2>1, <2>3, <3>2
  <2> QED
    BY <2>2, <2>3
<1>8. Blank(c)'
  BY <1>1, <1>2 DEF ConvOK, Blank
<1> QED
  BY <1>4, <1>5, <1>6, <1>7, <1>8, OnlyKeeps DEF ConvOK

LEMMA DissolveKeeps ==
  ASSUME IndInv, IndInv', SocketInv, NEW k \in calls, ChatDissolve(k)
  PROVE  SocketInv'
<1> DEFINE c == k.conv
           r == Without(group[c], k.who)
           us == {k.who} \cup SawIt(r)
<1>1. /\ c \in Conv /\ group \in [Conv -> GroupRecord]
      /\ group[c] \in GroupRecord
  BY DEF IndInv, RecordInv, TypeOK, Call
<1>2. /\ group' = [group EXCEPT ![c] = r]
      /\ stored' = stored \ {c} /\ overtaken \subseteq overtaken'
      /\ LeaveRoom(c, SocketsOf(us)) /\ view' = Show(c, SocketsOf(us), NoRecord)
      /\ UNCHANGED online
  BY DEF ChatDissolve, ResumeAndDissolve, NoteOvertaken
<1>3. group[c].members \subseteq us
  BY <1>1, WithoutRecord DEF SawIt
<1>4. \A d \in Conv \ {c} : group'[d] = group[d]
  BY <1>1, <1>2
<1> QED
  BY <1>1, <1>2, <1>3, <1>4, EndKeeps

LEMMA DeleteKeeps ==
  ASSUME IndInv, IndInv', SocketInv, NEW h \in Handler, NEW c \in Conv,
         NEW a \in User, ChatDelete(h, c, a)
  PROVE  SocketInv'
<1> DEFINE us == SawIt(group[c])
<1>1. /\ UNCHANGED <<group, online>>
      /\ stored' = stored \ {c} /\ overtaken \subseteq overtaken'
      /\ LeaveRoom(c, SocketsOf(us)) /\ view' = Show(c, SocketsOf(us), NoRecord)
  BY DEF ChatDelete, BeginDelete, NoteOvertaken
<1>2. group[c].members \subseteq us
  BY DEF SawIt
<1> QED
  BY <1>1, <1>2, EndKeeps

\* Admin commands keep the members; each ends with broadcastGroupUpdated.
LEMMA ManageKeeps ==
  ASSUME IndInv, IndInv', SocketInv, NEW c \in Conv, c \in stored,
         group'[c].members = group[c].members,
         \A d \in Conv \ {c} : group'[d] = group[d],
         UNCHANGED <<online, stored, overtaken>>,
         room' \in [Conv -> SUBSET online], touched' \in [Conv -> SUBSET online],
         \A d \in Conv \ {c} : room'[d] = room[d] /\ touched'[d] = touched[d],
         touched[c] \subseteq touched'[c] \cup
                               SocketsOf(group[c].members),
         InRoom(c)',
         view' = Show(c, Recipients(group'[c], room'[c]), group'[c])
  PROVE  SocketInv'
<1> DEFINE ss == Recipients(group'[c], room'[c])
<1>1. SocketTypeOK /\ ConvOK(c) /\ ss \in SUBSET online
  BY DEF SocketInv, SocketsOf, Recipients
<1>2. group'[c] \in GroupRecord
  BY DEF IndInv, RecordInv, TypeOK
<1>3. /\ view' \in [Conv -> [Socket -> GroupRecord]]
      /\ \A d \in Conv \ {c} : view'[d] = view[d]
      /\ \A s \in Socket : view'[c][s] = IF s \in ss THEN group'[c]
                                         ELSE view[c][s]
  BY <1>1, <1>2, ShowView
<1>4. SocketTypeOK'
  BY <1>1, <1>3 DEF SocketTypeOK
<1>5. Only(c)
  BY <1>3 DEF Only
<1>6. Current(c)'
  BY <1>1, <1>3 DEF SocketTypeOK, Current, Recipients, SocketsOf
<1>7. Mine(c)'
  BY <1>1, <1>3 DEF SocketTypeOK, ConvOK, Mine, InRoom, Recipients, SocketsOf
<1>8. Blank(c)'
  BY <1>1, <1>3 DEF ConvOK, Blank
<1> QED
  BY <1>4, <1>5, <1>6, <1>7, <1>8, OnlyKeeps DEF ConvOK

LEMMA PromoteKeeps ==
  ASSUME IndInv, IndInv', SocketInv, NEW c \in Conv, NEW a \in User,
         NEW t \in User, ChatPromote(c, a, t)
  PROVE  SocketInv'
<1>1. /\ c \in stored /\ group' = [group EXCEPT ![c].admins = @ \cup {t}]
      /\ view' = Show(c, Recipients(group'[c], room[c]), group'[c])
      /\ UNCHANGED <<online, stored, overtaken, room, touched>>
  BY DEF ChatPromote, Promote, MayManage, ghostVars
<1>2. group[c] \in GroupRecord /\ group \in [Conv -> GroupRecord]
  BY DEF IndInv, RecordInv, TypeOK
<1>3. /\ group'[c].members = group[c].members
      /\ group'[c].blocked = group[c].blocked
      /\ \A d \in Conv \ {c} : group'[d] = group[d]
  BY <1>1, <1>2 DEF GroupRecord
<1>4. InRoom(c)'
  BY <1>1, <1>3 DEF SocketInv, ConvOK, InRoom
<1>5. SocketTypeOK
  BY DEF SocketInv
<1> QED
  BY <1>1, <1>3, <1>4, <1>5, ManageKeeps DEF SocketTypeOK

LEMMA MuteKeeps ==
  ASSUME IndInv, IndInv', SocketInv, NEW c \in Conv, NEW a \in User,
         NEW t \in User, NEW on \in BOOLEAN, ChatMute(c, a, t, on)
  PROVE  SocketInv'
<1>1. /\ c \in stored
      /\ group' = [group EXCEPT ![c].muted = IF on THEN @ \cup {t} ELSE @ \ {t}]
      /\ view' = Show(c, Recipients(group'[c], room[c]), group'[c])
      /\ UNCHANGED <<online, stored, overtaken, room, touched>>
  BY DEF ChatMute, Mute, MayManage, ghostVars
<1>2. group[c] \in GroupRecord /\ group \in [Conv -> GroupRecord]
  BY DEF IndInv, RecordInv, TypeOK
<1>3. /\ group'[c].members = group[c].members
      /\ group'[c].blocked = group[c].blocked
      /\ \A d \in Conv \ {c} : group'[d] = group[d]
  BY <1>1, <1>2 DEF GroupRecord
<1>4. InRoom(c)'
  BY <1>1, <1>3 DEF SocketInv, ConvOK, InRoom
<1>5. SocketTypeOK
  BY DEF SocketInv
<1> QED
  BY <1>1, <1>3, <1>4, <1>5, ManageKeeps DEF SocketTypeOK

\* Blocking moves the sockets of the target, and speaks for them again.
LEMMA BlockKeeps ==
  ASSUME IndInv, IndInv', SocketInv, NEW c \in Conv, NEW a \in User,
         NEW t \in User, NEW on \in BOOLEAN, ChatBlock(c, a, t, on)
  PROVE  SocketInv'
<1> DEFINE ss == SocketsOf({t})
           exists == t \in group[c].blocked
<1>1. /\ c \in stored /\ t \in group[c].members
      /\ group' = [group EXCEPT ![c].blocked = IF on THEN @ \cup {t} ELSE @ \ {t}]
      /\ \/ on /\ ~exists /\ LeaveRoom(c, ss)
         \/ ~on /\ exists /\ JoinRoom(c, ss)
         \/ on = exists /\ UNCHANGED <<room, touched>>
      /\ view' = Show(c, Recipients(group'[c], room'[c]), group'[c])
      /\ UNCHANGED <<online, stored, overtaken>>
  BY DEF ChatBlock, Block, MayManage, ghostVars
<1>2. group[c] \in GroupRecord /\ group \in [Conv -> GroupRecord]
  BY DEF IndInv, RecordInv, TypeOK
<1>3. /\ group'[c].members = group[c].members
      /\ group'[c].blocked = IF on THEN group[c].blocked \cup {t}
                             ELSE group[c].blocked \ {t}
      /\ \A d \in Conv \ {c} : group'[d] = group[d]
  BY <1>1, <1>2 DEF GroupRecord
<1>4. SocketTypeOK /\ ConvOK(c) /\ ss \in SUBSET online
  BY DEF SocketInv, SocketsOf
<1>5. /\ room' \in [Conv -> SUBSET online]
      /\ touched' \in [Conv -> SUBSET online]
      /\ \A d \in Conv \ {c} : room'[d] = room[d] /\ touched'[d] = touched[d]
      /\ touched[c] \subseteq touched'[c] \cup ss
      /\ InRoom(c)'
  <2>1. CASE on /\ ~exists /\ LeaveRoom(c, ss)
    <3>1. /\ room' \in [Conv -> SUBSET online]
          /\ touched' \in [Conv -> SUBSET online]
          /\ \A d \in Conv \ {c} :
               room'[d] = room[d] /\ touched'[d] = touched[d]
          /\ room'[c] = room[c] \ ss /\ touched'[c] = touched[c] \ ss
      BY <1>1, <1>4, <2>1, RoomMoves
    <3> QED
      BY <1>1, <1>3, <1>4, <2>1, <3>1 DEF ConvOK, InRoom, SocketsOf
  <2>2. CASE ~on /\ exists /\ JoinRoom(c, ss)
    <3>1. /\ room' \in [Conv -> SUBSET online]
          /\ touched' \in [Conv -> SUBSET online]
          /\ \A d \in Conv \ {c} :
               room'[d] = room[d] /\ touched'[d] = touched[d]
          /\ room'[c] = room[c] \cup ss /\ touched'[c] = touched[c] \ ss
      BY <1>1, <1>4, <2>2, RoomMoves
    <3> QED
      BY <1>1, <1>3, <1>4, <2>2, <3>1 DEF ConvOK, InRoom, SocketsOf
  <2>3. CASE on = exists /\ UNCHANGED <<room, touched>>
    <3>1. group'[c].blocked = group[c].blocked
      BY <1>3, <2>3
    <3> QED
      BY <1>1, <1>3, <1>4, <2>3, <3>1 DEF ConvOK, InRoom, SocketTypeOK
  <2> QED
    BY <1>1, <2>1, <2>2, <2>3
<1>6. ss \subseteq SocketsOf(group[c].members)
  BY <1>1 DEF SocketsOf
<1> QED
  BY <1>1, <1>3, <1>5, <1>6, ManageKeeps

\* Steps that change no record and move no socket.
LEMMA SilentKeeps ==
  ASSUME IndInv, SocketInv, Silent \/ UNCHANGED chatVars
  PROVE  SocketInv'
<1>1. UNCHANGED <<stored, group, overtaken, socketVars>>
  BY DEF Silent, BeginLeave, BeginKick, BeginDeparture, BeginPost,
         AnnouncementCommits, EraseCommits, FinishErase, PostCommits,
         FinishPost, recordVars, ghostVars, chatVars, vars
<1> QED
  BY <1>1 DEF socketVars, SocketInv, SocketTypeOK, ConvOK, Current, InRoom,
              Mine, Blank

LEMMA CrashKeeps ==
  ASSUME SocketInv, ChatCrash
  PROVE  SocketInv'
BY DEF ChatCrash, SocketInv, SocketTypeOK, ConvOK, Current, InRoom, Mine, Blank,
       GroupRecord, NoRecord

LEMMA SocketStep ==
  ASSUME IndInv, IndInv', SocketInv, [ChatNext]_chatVars
  PROVE  SocketInv'
<1>1. CASE Connection
  BY <1>1, ConnectKeeps, DisconnectKeeps, JoinLeaveKeeps DEF Connection
<1>2. ASSUME NEW c \in Conv, NEW u \in User,
             \/ \E invited \in SUBSET User : ChatCreate(c, u, invited)
             \/ \E h \in Handler : ChatDelete(h, c, u)
             \/ \E t \in User : ChatPromote(c, u, t)
      PROVE  SocketInv'
  BY <1>2, CreateKeeps, DeleteKeeps, PromoteKeeps
<1>3. ASSUME NEW c \in Conv, NEW u \in User, NEW t \in Target,
             NEW on \in BOOLEAN, ChatMute(c, u, t, on) \/ ChatBlock(c, u, t, on)
      PROVE  SocketInv'
  <2>1. t \in User
    BY UserAssumption
  <2> QED
    BY <1>3, <2>1, MuteKeeps, BlockKeeps
<1>4. ASSUME NEW k \in calls, ChatDepart(k) \/ ChatDissolve(k)
      PROVE  SocketInv'
  BY <1>4, DepartKeeps, DissolveKeeps
<1>5. CASE Silent \/ UNCHANGED chatVars
  BY <1>5, SilentKeeps
<1>6. CASE ChatCrash
  BY <1>6, CrashKeeps
<1> QED
  BY <1>1, <1>2, <1>3, <1>4, <1>5, <1>6 DEF ChatNext, ChatRequest

-----------------------------------------------------------------------------
(***************************************************************************)
(* Theorems.                                                               *)
(***************************************************************************)

\* Records and sockets together.
THEOREM ChatInvariance == ChatSpec => [](IndInv /\ SocketInv)
<1>1. ChatInit => SocketInv
  BY SocketInit
<1>2. IndInv /\ IndInv' /\ SocketInv /\ [ChatNext]_chatVars => SocketInv'
  BY SocketStep
<1>3. Spec => []IndInv
  BY Invariance
<1> QED
  BY <1>1, <1>2, <1>3, ImplementsRecords, PTL DEF ChatSpec

\* Rooms and views are of connected sockets and of records.
THEOREM ChatTypeCorrect == ChatSpec => []ChatTypeOK
<1>1. IndInv /\ SocketInv => ChatTypeOK
  BY DEF IndInv, RecordInv, SocketInv, SocketTypeOK, ChatTypeOK
<1> QED
  BY <1>1, ChatInvariance, PTL

\* Every connected member holds the record as it is, through departures,
\* admin commands and connections in any order.
THEOREM ViewsCorrect == ChatSpec => []MembersSeeCurrentRecord
<1>1. IndInv /\ SocketInv => MembersSeeCurrentRecord
  BY DEF IndInv, RecordInv, TypeOK, SocketInv, ConvOK, Current,
         MembersSeeCurrentRecord
<1> QED
  BY <1>1, ChatInvariance, PTL

\* The rooms that joinGroupRoom, leaveGroupRoom and rejoinUserGroups maintain
\* are those of the members that are not blocked.
THEOREM RoomsCorrect == ChatSpec => []RoomFollowsMembership
<1>1. SocketInv => RoomFollowsMembership
  BY DEF SocketInv, ConvOK, InRoom, RoomFollowsMembership
<1> QED
  BY <1>1, ChatInvariance, PTL

\* A group is left on a screen it should not be on only by the client's own
\* chat:join, or by a call its deletion overtook.
THEOREM NothingLeftShown == ChatSpec => []ShownGroupIsMine
<1>1. SocketInv => ShownGroupIsMine
  BY DEF SocketInv, ConvOK, Mine, ShownGroupIsMine
<1> QED
  BY <1>1, ChatInvariance, PTL

=============================================================================
