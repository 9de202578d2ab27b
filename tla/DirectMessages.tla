--------------------------- MODULE DirectMessages ---------------------------
(***************************************************************************)
(* Direct messages of the /chat namespace: the dm: branch of chat:message  *)
(* and chat:unsend, their broadcast to the two user rooms, and the replay  *)
(* of what a user missed while no socket of theirs was connected           *)
(* (user-sockets.store.ts, flushPendingMessages, getDirectMessagesSince).  *)
(*                                                                         *)
(* As in GroupRecords a handler is split where it awaits the database.     *)
(***************************************************************************)
EXTENDS Naturals, FiniteSets

CONSTANTS
  User,      \* user ids
  Socket,    \* connections
  Owner,     \* socket.data.user of each
  Msg,       \* the message ids randomUUID() will return
  MaxTime    \* bound of the clock

ASSUME SocketAssumption == Owner \in [Socket -> User]
ASSUME TimeAssumption == MaxTime \in Nat \ {0}

VARIABLES
  clock,     \* Date.now(), in milliseconds; events may share one
  online,    \* connected sockets: the values of activeUserSockets
  lastSeen,  \* lastSeenStore, with the 0 that getLastSeen gives by default
  msg,       \* sender, recipient and timestamp of each message
  pc,        \* where the chat:message call of each message is
  unsend,    \* where the chat:unsend call of each message is
  rows,      \* messages with a row in table messages
  deleted,   \* rows with deleted = true and content ""
  flush,     \* where the flushPendingMessages call of each socket is
  shown,     \* messages each socket was sent, less those it was told unsent
  got,       \* history: messages each user was ever sent
  exposed,   \* history: messages a disconnection of the recipient overtook
  raced      \* history: messages sent or replayed across their unsending

processVars == <<online, lastSeen, pc, unsend, flush>>
tableVars   == <<rows, deleted>>
clientVars  == <<shown, got>>
ghostVars   == <<exposed, raced>>
vars == <<clock, msg, processVars, tableVars, clientVars, ghostVars>>

Time == 0 .. MaxTime

\* "insert" and "update" await a statement, "inserted" and "updated" await
\* the event loop; "lost" went with the process.
SendPc   == {"none", "insert", "inserted", "sent", "lost"}
UnsendPc == {"none", "update", "updated", "done"}
FlushPc  == {"idle", "query", "reply"}

Header  == [from : User, to : User, at : Time]
Flush   == [pc : FlushPc, since : Time, pending : SUBSET Msg]
NoFlush == [pc |-> "idle", since |-> 0, pending |-> {}]

\* Types; and only the rows of known messages exist, and only rows are
\* soft-deleted.
TypeOK ==
  /\ clock \in Time
  /\ online \subseteq Socket
  /\ lastSeen \in [User -> 0 .. clock]
  /\ msg \in [Msg -> Header]
  /\ pc \in [Msg -> SendPc]
  /\ unsend \in [Msg -> UnsendPc]
  /\ rows \subseteq Msg
  /\ deleted \subseteq rows
  /\ flush \in [Socket -> Flush]
  /\ shown \in [Socket -> SUBSET Msg]
  /\ got \in [User -> SUBSET Msg]
  /\ exposed \subseteq Msg
  /\ raced \subseteq Msg

-----------------------------------------------------------------------------
(***************************************************************************)
(* Variants: operators defined below with a plausible mistake, to confirm  *)
(* that the properties notice it.                                          *)
(***************************************************************************)

\* wasEmpty is computed after the socket is added
WasEmptyAfterAdd(s) == FALSE

\* the soft-deleted rows are replayed too
PendingWithDeleted(u, since) ==
  {m \in rows : msg[m].to = u /\ msg[m].at > since}

\* the addMessage call is not awaited
MayBroadcastUnsaved(m) == pc[m] \in {"insert", "inserted"}

\* lastSeen is taken from a clock that runs ahead
SeenAhead(u) == [lastSeen EXCEPT ![u] = clock + 1]

\* only the first departure is recorded
SeenFirst(u) ==
  IF lastSeen[u] = 0 THEN [lastSeen EXCEPT ![u] = clock] ELSE lastSeen

\* the replay is dropped when the user opened another tab meanwhile
FlushIfSingle(s) == s \in online /\ \A t \in online : Owner[t] = Owner[s] => t = s

-----------------------------------------------------------------------------
SocketsOf(u) == {s \in online : Owner[s] = u}

\* addUserSocket
WasEmpty(s) == SocketsOf(Owner[s]) = {}

\* removeUserSocket, when the last socket of u goes
Seen(u) == [lastSeen EXCEPT ![u] = clock]

\* the condition of getDirectMessagesSince
Pending(u, since) ==
  {m \in rows \ deleted : msg[m].to = u /\ msg[m].at > since}

\* the user rooms of the two participants
Audience(m) == SocketsOf(msg[m].from) \cup SocketsOf(msg[m].to)

MayBroadcast(m) == pc[m] = "inserted"

\* socket.io drops what is emitted to a closed socket
FlushReaches(s) == s \in online

-----------------------------------------------------------------------------
Init ==
  /\ clock = 1
  /\ online = {}
  /\ lastSeen = [u \in User |-> 0]
  /\ msg \in [Msg -> [from : User, to : User, at : {0}]]
  /\ \A m \in Msg : msg[m].from # msg[m].to
  /\ pc = [m \in Msg |-> "none"]
  /\ unsend = [m \in Msg |-> "none"]
  /\ rows = {}
  /\ deleted = {}
  /\ flush = [s \in Socket |-> NoFlush]
  /\ shown = [s \in Socket |-> {}]
  /\ got = [u \in User |-> {}]
  /\ exposed = {}
  /\ raced = {}

Tick ==
  /\ clock < MaxTime
  /\ clock' = clock + 1
  /\ UNCHANGED <<msg, processVars, tableVars, clientVars, ghostVars>>

-----------------------------------------------------------------------------
(***************************************************************************)
(* Connections.                                                            *)
(***************************************************************************)

\* registerChatHandler.  An element of Socket stands for one connection
\* after another: it is not used again before its flush has ended.
Connect(s) ==
  /\ s \notin online
  /\ flush[s].pc = "idle"
  /\ online' = online \cup {s}
  /\ flush' = IF WasEmpty(s)
                THEN [flush EXCEPT ![s].pc = "query",
                                   ![s].since = lastSeen[Owner[s]]]
                ELSE flush
  /\ UNCHANGED <<clock, msg, lastSeen, pc, unsend, tableVars, clientVars,
                 ghostVars>>

\* The messages to u that a disconnection of s may keep from u: all those
\* not yet broadcast if s is the last socket, and what s was waiting for.
Overtaken(s) ==
  {m \in Msg :
     /\ msg[m].to = Owner[s]
     /\ m \notin got[Owner[s]]
     /\ \/ pc[m] \in {"insert", "inserted"} /\ SocketsOf(Owner[s]) = {s}
        \/ pc[m] = "sent" /\ flush[s].pc # "idle"}

Disconnect(s) ==
  /\ s \in online
  /\ online' = online \ {s}
  /\ lastSeen' = IF SocketsOf(Owner[s]) = {s} THEN Seen(Owner[s])
                 ELSE lastSeen
  /\ shown' = [shown EXCEPT ![s] = {}]
  /\ exposed' = exposed \cup Overtaken(s)
  /\ UNCHANGED <<clock, msg, pc, unsend, flush, tableVars, got, raced>>

\* the query of getDirectMessagesSince takes effect
FlushQuery(s) ==
  /\ flush[s].pc = "query"
  /\ flush' = [flush EXCEPT ![s].pc = "reply",
                 ![s].pending = Pending(Owner[s], flush[s].since)]
  /\ UNCHANGED <<clock, msg, online, lastSeen, pc, unsend, tableVars,
                 clientVars, ghostVars>>

FlushEmit(s) ==
  LET sent == IF FlushReaches(s) THEN flush[s].pending ELSE {} IN
  /\ flush[s].pc = "reply"
  /\ flush' = [flush EXCEPT ![s] = NoFlush]
  /\ shown' = [shown EXCEPT ![s] = @ \cup sent]
  /\ got' = [got EXCEPT ![Owner[s]] = @ \cup sent]
  /\ UNCHANGED <<clock, msg, online, lastSeen, pc, unsend, tableVars,
                 ghostVars>>

-----------------------------------------------------------------------------
(***************************************************************************)
(* chat:message.  The timestamp is taken before the insert; a lookup of    *)
(* the quoted message, awaited earlier, changes nothing.                   *)
(***************************************************************************)
BeginSend(m) ==
  /\ pc[m] = "none"
  /\ SocketsOf(msg[m].from) # {}
  /\ msg' = [msg EXCEPT ![m].at = clock]
  /\ pc' = [pc EXCEPT ![m] = "insert"]
  /\ exposed' = exposed \cup
       (IF SocketsOf(msg[m].to) = {} /\ lastSeen[msg[m].to] = clock
          THEN {m} ELSE {})
  /\ UNCHANGED <<clock, online, lastSeen, unsend, flush, tableVars,
                 clientVars, raced>>

SendCommits(m) ==
  /\ pc[m] = "insert"
  /\ pc' = [pc EXCEPT ![m] = "inserted"]
  /\ rows' = rows \cup {m}
  /\ UNCHANGED <<clock, msg, online, lastSeen, unsend, flush, deleted,
                 clientVars, ghostVars>>

\* broadcast to both user rooms, and the acknowledgement
FinishSend(m) ==
  /\ MayBroadcast(m)
  /\ pc' = [pc EXCEPT ![m] = "sent"]
  /\ shown' = [s \in Socket |-> IF s \in Audience(m) THEN shown[s] \cup {m}
                                ELSE shown[s]]
  /\ got' = [u \in User |-> IF \E s \in Audience(m) : Owner[s] = u
                              THEN got[u] \cup {m} ELSE got[u]]
  /\ UNCHANGED <<clock, msg, online, lastSeen, unsend, flush, tableVars,
                 ghostVars>>

-----------------------------------------------------------------------------
(***************************************************************************)
(* chat:unsend by the sender, who knows the id from the broadcast, the     *)
(* acknowledgement or a page of history, that is from a row on.  The       *)
(* lookup of the row before the update finds it: rows of dm: conversations *)
(* are never removed.                                                      *)
(***************************************************************************)
BeginUnsend(m) ==
  /\ m \in rows /\ unsend[m] = "none"
  /\ SocketsOf(msg[m].from) # {}
  /\ unsend' = [unsend EXCEPT ![m] = "update"]
  /\ UNCHANGED <<clock, msg, online, lastSeen, pc, flush, tableVars,
                 clientVars, ghostVars>>

UnsendCommits(m) ==
  /\ unsend[m] = "update"
  /\ unsend' = [unsend EXCEPT ![m] = "updated"]
  /\ deleted' = deleted \cup {m}
  /\ UNCHANGED <<clock, msg, online, lastSeen, pc, flush, rows, clientVars,
                 ghostVars>>

FinishUnsend(m) ==
  /\ unsend[m] = "updated"
  /\ unsend' = [unsend EXCEPT ![m] = "done"]
  /\ shown' = [s \in Socket |-> IF s \in Audience(m) THEN shown[s] \ {m}
                                ELSE shown[s]]
  /\ raced' = raced \cup
       (IF pc[m] # "sent" \/ \E s \in Socket : m \in flush[s].pending
          THEN {m} ELSE {})
  /\ UNCHANGED <<clock, msg, online, lastSeen, pc, flush, tableVars, got,
                 exposed>>

-----------------------------------------------------------------------------
\* The process dies and is started again.  A statement it had sent either
\* took effect before, or never.
Crash ==
  /\ online' = {}
  /\ lastSeen' = [u \in User |-> 0]
  /\ pc' = [m \in Msg |-> IF pc[m] = "inserted" THEN "sent"
                          ELSE IF pc[m] = "insert" THEN "lost" ELSE pc[m]]
  /\ unsend' = [m \in Msg |-> IF unsend[m] \in {"update", "updated"}
                                THEN "none" ELSE unsend[m]]
  /\ flush' = [s \in Socket |-> NoFlush]
  /\ shown' = [s \in Socket |-> {}]
  /\ UNCHANGED <<clock, msg, tableVars, got, ghostVars>>

-----------------------------------------------------------------------------
Next ==
  \/ Tick
  \/ \E s \in Socket : \/ Connect(s)
                       \/ Disconnect(s)
                       \/ FlushQuery(s)
                       \/ FlushEmit(s)
  \/ \E m \in Msg : \/ BeginSend(m)
                    \/ SendCommits(m)
                    \/ FinishSend(m)
                    \/ BeginUnsend(m)
                    \/ UnsendCommits(m)
                    \/ FinishUnsend(m)
  \/ Crash

Spec == Init /\ [][Next]_vars

-----------------------------------------------------------------------------
(***************************************************************************)
(* Safety.                                                                 *)
(***************************************************************************)

\* What a client was ever sent is in the table: a later request for the
\* history returns it, crash or not.
DeliveredIsPersisted == \A u \in User : got[u] \subseteq rows

\* m is still on its way to its recipient: by the replay of the next
\* connection, or by one in progress.
Replayable(m) ==
  LET u == msg[m].to IN
  \/ SocketsOf(u) = {} /\ msg[m].at > lastSeen[u]
  \/ \E s \in SocketsOf(u) :
       \/ flush[s].pc = "query" /\ msg[m].at > flush[s].since
       \/ flush[s].pc = "reply" /\ m \in flush[s].pending

\* An acknowledged message reaches its recipient or will be replayed, unless
\* a disconnection of the recipient overtook it: their last socket closed
\* between its timestamp and its broadcast, or in the same millisecond, or
\* the socket being flushed closed.
NothingMissed ==
  \A m \in Msg :
    pc[m] = "sent" /\ m \notin deleted
      => \/ m \in got[msg[m].to]
         \/ Replayable(m)
         \/ m \in exposed

\* A replay repeats what its user was sent in an earlier connection only
\* if the process has no record of that connection: it was restarted since.
\* Otherwise it repeats at most what arrived while it was under way.
RepeatsOnlyIfForgotten ==
  \A s \in online : \A m \in flush[s].pending \cap got[Owner[s]] :
    flush[s].since = 0 \/ m \in shown[s] \/ m \in raced

\* An unsent message is on no screen, unless it was in flight to one when
\* chat:unsent was broadcast.
UnsentIsHidden ==
  \A m \in Msg, s \in online :
    unsend[m] = "done" /\ m \in shown[s] => m \in raced

=============================================================================
