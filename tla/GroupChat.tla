----------------------------- MODULE GroupChat -----------------------------
(***************************************************************************)
(* GroupRecords with the sockets of the /chat namespace: the rooms they    *)
(* are in and what the server told them of each group.                     *)
(*                                                                         *)
(* A user may hold more connections than the ones in Socket, so that a     *)
(* request needs no socket of Socket.  A closed connection has left every  *)
(* room, and one that is opened again starts with nothing shown: what a    *)
(* client keeps across connections is its own affair.                      *)
(***************************************************************************)
EXTENDS GroupRecords

CONSTANTS
  Socket,   \* connections observed
  Owner     \* socket.data.user of each

ASSUME OwnerAssumption == Owner \in [Socket -> User]

VARIABLES
  online,   \* connected sockets: activeUserSockets, seen from its values
  room,     \* sockets in room chat:<conversationId>
  view,     \* last record sent in group:created or group:updated to a
            \* socket; NoRecord before, and after group:deleted
  touched   \* history: sockets that last entered or left the room by
            \* chat:join or chat:leave

socketVars == <<online, room, view, touched>>
chatVars   == <<vars, socketVars>>

ChatTypeOK ==
  /\ TypeOK
  /\ online \subseteq Socket
  /\ room \in [Conv -> SUBSET online]
  /\ view \in [Conv -> [Socket -> GroupRecord]]
  /\ touched \in [Conv -> SUBSET online]

-----------------------------------------------------------------------------
(***************************************************************************)
(* Variants (see GroupRecords).                                            *)
(***************************************************************************)

\* the loop over user:<memberId> is dropped: only the room is told
RecipientsRoomOnly(r, inRoom) == inRoom

\* rejoinUserGroups joins the rooms that block-member left
RejoinedAll(u) == userGroups[u]

\* the rooms survive the socket
LeaveAllNothing(s) == room

-----------------------------------------------------------------------------
SocketsOf(us) == {s \in online : Owner[s] \in us}

\* broadcastGroupUpdated: the user rooms of the members and the chat room
Recipients(r, inRoom) == SocketsOf(r.members) \cup inRoom

\* the sockets of ss hold record r of conversation c
Show(c, ss, r) ==
  [view EXCEPT ![c] = [s \in Socket |-> IF s \in ss THEN r ELSE @[s]]]

\* group:deleted goes to gone, then group:updated with r to told
HideThenShow(c, gone, told, r) ==
  [view EXCEPT ![c] = [s \in Socket |-> IF s \in told THEN r
                                        ELSE IF s \in gone THEN NoRecord
                                        ELSE @[s]]]

\* joinGroupRoom and leaveGroupRoom for the sockets ss
JoinRoom(c, ss) ==
  /\ room' = [room EXCEPT ![c] = @ \cup ss]
  /\ touched' = [touched EXCEPT ![c] = @ \ ss]

LeaveRoom(c, ss) ==
  /\ room' = [room EXCEPT ![c] = @ \ ss]
  /\ touched' = [touched EXCEPT ![c] = @ \ ss]

\* the groups whose room rejoinUserGroups enters
Rejoined(u) == {c \in userGroups[u] : u \notin group[c].blocked}

\* socket.io: a socket that closes leaves every room
LeaveAll(s) == [c \in Conv |-> room[c] \ {s}]

-----------------------------------------------------------------------------
ChatInit ==
  /\ Init
  /\ online = {}
  /\ room = [c \in Conv |-> {}]
  /\ view = [c \in Conv |-> [s \in Socket |-> NoRecord]]
  /\ touched = [c \in Conv |-> {}]

\* registerChatHandler up to the flush of direct messages
Connect(s) ==
  LET u == Owner[s] IN
  /\ s \notin online
  /\ online' = online \cup {s}
  /\ room' = [c \in Conv |-> IF c \in Rejoined(u) THEN room[c] \cup {s}
                             ELSE room[c]]
  /\ view' = [c \in Conv |-> IF c \in userGroups[u] /\ c \in stored
                               THEN [view[c] EXCEPT ![s] = group[c]]
                               ELSE view[c]]
  /\ UNCHANGED <<vars, touched>>

Disconnect(s) ==
  /\ s \in online
  /\ online' = online \ {s}
  /\ room' = LeaveAll(s)
  /\ view' = [c \in Conv |-> [view[c] EXCEPT ![s] = NoRecord]]
  /\ touched' = [c \in Conv |-> touched[c] \ {s}]
  /\ UNCHANGED vars

\* chat:join and chat:leave: no check of membership
ChatJoin(s, c) ==
  /\ s \in online /\ c \in used
  /\ room' = [room EXCEPT ![c] = @ \cup {s}]
  /\ touched' = [touched EXCEPT ![c] = @ \cup {s}]
  /\ UNCHANGED <<vars, online, view>>

ChatLeave(s, c) ==
  /\ s \in online /\ c \in used
  /\ room' = [room EXCEPT ![c] = @ \ {s}]
  /\ touched' = [touched EXCEPT ![c] = @ \cup {s}]
  /\ UNCHANGED <<vars, online, view>>

-----------------------------------------------------------------------------
(***************************************************************************)
(* The operations of GroupRecords with their effect on sockets.            *)
(***************************************************************************)
ChatCreate(c, u, invited) ==
  LET ss == SocketsOf({u} \cup invited) IN
  /\ Create(c, u, invited)
  /\ JoinRoom(c, ss)
  /\ view' = Show(c, ss, group'[c])
  /\ UNCHANGED online

ChatDepart(k) ==
  LET c == k.conv
      gone == SocketsOf({k.who})
      told == IF TooSmall(group'[c]) THEN {}
              ELSE Recipients(group'[c], room[c] \ gone)
  IN
  /\ ResumeDeparture(k)
  /\ LeaveRoom(c, gone)
  /\ view' = HideThenShow(c, gone, told, group'[c])
  /\ UNCHANGED online

ChatDissolve(k) ==
  LET gone == SocketsOf({k.who} \cup SawIt(Without(group[k.conv], k.who))) IN
  /\ ResumeAndDissolve(k)
  /\ LeaveRoom(k.conv, gone)
  /\ view' = Show(k.conv, gone, NoRecord)
  /\ UNCHANGED online

ChatDelete(h, c, a) ==
  LET gone == SocketsOf(SawIt(group[c])) IN
  /\ BeginDelete(h, c, a)
  /\ LeaveRoom(c, gone)
  /\ view' = Show(c, gone, NoRecord)
  /\ UNCHANGED online

ChatPromote(c, a, t) ==
  /\ Promote(c, a, t)
  /\ view' = Show(c, Recipients(group'[c], room[c]), group'[c])
  /\ UNCHANGED <<online, room, touched>>

ChatMute(c, a, t, on) ==
  /\ Mute(c, a, t, on)
  /\ view' = Show(c, Recipients(group'[c], room[c]), group'[c])
  /\ UNCHANGED <<online, room, touched>>

\* the room is entered or left only when the flag changes
ChatBlock(c, a, t, on) ==
  LET exists == t \in group[c].blocked IN
  /\ Block(c, a, t, on)
  /\ \/ on /\ ~exists /\ LeaveRoom(c, SocketsOf({t}))
     \/ ~on /\ exists /\ JoinRoom(c, SocketsOf({t}))
     \/ on = exists /\ UNCHANGED <<room, touched>>
  /\ view' = Show(c, Recipients(group'[c], room'[c]), group'[c])
  /\ UNCHANGED online

ChatCrash ==
  /\ Crash
  /\ online' = {}
  /\ room' = [c \in Conv |-> {}]
  /\ view' = [c \in Conv |-> [s \in Socket |-> NoRecord]]
  /\ touched' = [c \in Conv |-> {}]

-----------------------------------------------------------------------------
Connection ==
  \E s \in Socket : \/ Connect(s)
                    \/ Disconnect(s)
                    \/ \E c \in Conv : ChatJoin(s, c) \/ ChatLeave(s, c)

ChatRequest ==
  \E c \in Conv, u \in User :
    \/ \E invited \in SUBSET User : ChatCreate(c, u, invited)
    \/ \E h \in Handler : ChatDelete(h, c, u)
    \/ \E t \in User : ChatPromote(c, u, t)
    \/ \E t \in Target, on \in BOOLEAN : \/ ChatMute(c, u, t, on)
                                         \/ ChatBlock(c, u, t, on)

\* steps that send nothing but messages, acknowledgements and statements
Silent ==
  /\ \/ \E h \in Handler, c \in Conv, u \in User :
          \/ BeginLeave(h, c, u)
          \/ u \in Poster /\ BeginPost(h, c, u)
          \/ \E t \in User : BeginKick(h, c, u, t)
     \/ \E k \in calls : \/ AnnouncementCommits(k)
                         \/ EraseCommits(k)
                         \/ FinishErase(k)
                         \/ PostCommits(k)
                         \/ FinishPost(k)
  /\ UNCHANGED socketVars

ChatNext ==
  \/ Connection
  \/ ChatRequest
  \/ \E k \in calls : ChatDepart(k) \/ ChatDissolve(k)
  \/ Silent
  \/ ChatCrash

ChatSpec == ChatInit /\ [][ChatNext]_chatVars

-----------------------------------------------------------------------------
(***************************************************************************)
(* Safety.                                                                 *)
(***************************************************************************)

\* Every connected member holds the record as it is now, whether it was
\* changed while they were connected or they connected in the middle of a
\* departure.
MembersSeeCurrentRecord ==
  \A c \in stored, s \in online :
    Owner[s] \in group[c].members => view[c][s] = group[c]

\* The chat room is exactly the connected members that are not blocked,
\* save the sockets that moved themselves with chat:join or chat:leave.
RoomFollowsMembership ==
  \A c \in Conv : \A s \in online \ touched[c] :
    s \in room[c] <=> /\ c \in stored
                      /\ Owner[s] \in group[c].members \ group[c].blocked

\* A connection is left with a group it is not in, or that is deleted, only
\* by its own chat:join or if a call was in flight when the group was deleted
\* (the departure then broadcasts group:updated after group:deleted).
ShownGroupIsMine ==
  \A c \in Conv, s \in online :
    view[c][s] # NoRecord =>
      \/ c \in stored /\ Owner[s] \in group[c].members
      \/ s \in touched[c]
      \/ c \in overtaken

=============================================================================
