------------------------ MODULE DirectMessagesProofs ------------------------
(***************************************************************************)
(* Proofs about DirectMessages, for any users, tabs, messages and times.   *)
(***************************************************************************)
EXTENDS DirectMessages, TLAPS

(***************************************************************************)
(* The inductive invariant, in four parts.  Each of the last three rests   *)
(* on the first alone.                                                     *)
(***************************************************************************)

\* Stamps lie between the start and now; what was inserted, sent or found
\* by a query has a row; a flush has found nothing before its query; and a
\* message is shown to its participants only, while they are connected.
Base ==
  /\ TypeOK
  /\ clock >= 1
  /\ \A m \in Msg :
       /\ pc[m] # "none" => msg[m].at >= 1 /\ msg[m].at <= clock
       /\ pc[m] \in {"inserted", "sent"} => m \in rows
       /\ pc[m] = "none" => m \notin rows
       /\ unsend[m] # "none" => m \in rows
       /\ unsend[m] \in {"updated", "done"} => m \in deleted
  /\ \A u \in User : got[u] \subseteq rows
  /\ \A s \in Socket :
       /\ flush[s].pending \subseteq rows
       /\ flush[s].pc # "reply" => flush[s].pending = {}
       /\ \A m \in flush[s].pending : msg[m].to = Owner[s]
       /\ \A m \in shown[s] : Owner[s] \in {msg[m].from, msg[m].to}
       /\ s \notin online => shown[s] = {}

\* A message unsent before its broadcast, or while a replay holds it, was in
\* flight when chat:unsent was broadcast.
Hidden ==
  /\ \A m \in Msg : unsend[m] = "done" =>
       /\ pc[m] # "sent" => m \in raced
       /\ \A s \in Socket : m \in flush[s].pending => m \in raced
  /\ UnsentIsHidden

\* A message in flight to somebody who is away was stamped after they left.
InFlightIsNew ==
  \A m \in Msg \ exposed :
      /\ pc[m] \in {"insert", "inserted"}
      /\ m \notin got[msg[m].to]
      /\ SocketsOf(msg[m].to) = {}
    => msg[m].at > lastSeen[msg[m].to]

Reaching == InFlightIsNew /\ NothingMissed

\* One connection of a user replays at a time.
OneReplays ==
  \A s, t \in online :
    Owner[s] = Owner[t] /\ flush[s].pc # "idle" /\ flush[t].pc # "idle"
      => s = t

\* What somebody who is away was sent was stamped before they left.
SentBeforeLeaving ==
  \A u \in User : \A m \in got[u] :
    msg[m].to = u /\ SocketsOf(u) = {}
      => msg[m].at <= lastSeen[u] \/ lastSeen[u] = 0

\* What a query under way would find although its user was sent it, its own
\* connection shows.
ShownMeanwhile ==
  \A s \in online : \A m \in got[Owner[s]] :
      /\ flush[s].pc = "query" /\ flush[s].since # 0
      /\ msg[m].to = Owner[s] /\ msg[m].at > flush[s].since
    => m \in shown[s] \/ m \in deleted

Repeating ==
  OneReplays /\ SentBeforeLeaving /\ ShownMeanwhile /\ RepeatsOnlyIfForgotten

IInv == Base /\ Hidden /\ Reaching /\ Repeating

LEMMA InitEstablishes == Init => IInv
<1> SUFFICES ASSUME Init PROVE IInv
  OBVIOUS
<1> USE TimeAssumption, SocketAssumption
<1>1. Base
  BY DEF Init, Base, TypeOK, Time, Header, Flush, NoFlush, SendPc, UnsendPc,
         FlushPc
<1>2. Hidden
  BY DEF Init, Hidden, UnsentIsHidden
<1>3. Reaching
  BY DEF Init, Reaching, InFlightIsNew, NothingMissed
<1>4. Repeating
  BY DEF Init, Repeating, OneReplays, SentBeforeLeaving, ShownMeanwhile,
         RepeatsOnlyIfForgotten
<1> QED
  BY <1>1, <1>2, <1>3, <1>4 DEF IInv

-----------------------------------------------------------------------------
(***************************************************************************)
(* What the steps of a replay do to flush.                                 *)
(***************************************************************************)
LEMMA ConnectFlush ==
  ASSUME TypeOK, NEW s \in Socket, Connect(s)
  PROVE  /\ flush' \in [Socket -> Flush]
         /\ \A t \in Socket : t # s => flush'[t] = flush[t]
         /\ flush'[s].pc = IF WasEmpty(s) THEN "query" ELSE "idle"
         /\ WasEmpty(s) => flush'[s].since = lastSeen[Owner[s]]
         /\ flush'[s].pending = flush[s].pending
<1> USE SocketAssumption
<1>1. flush \in [Socket -> Flush] /\ lastSeen[Owner[s]] \in Time
  BY TimeAssumption DEF TypeOK, Time
<1>2. CASE WasEmpty(s)
  <2>1. flush' = [flush EXCEPT ![s].pc = "query",
                               ![s].since = lastSeen[Owner[s]]]
    BY <1>2 DEF Connect
  <2>2. flush' = [flush EXCEPT ![s] =
                    [@ EXCEPT !.pc = "query", !.since = lastSeen[Owner[s]]]]
    BY <1>1, <2>1
  <2>3. flush'[s] = [flush[s] EXCEPT !.pc = "query",
                                     !.since = lastSeen[Owner[s]]]
    BY <1>1, <2>2
  <2>4. flush[s] \in Flush
    BY <1>1
  <2>5. flush'[s] = [pc |-> "query", since |-> lastSeen[Owner[s]],
                     pending |-> flush[s].pending]
    BY <2>3, <2>4 DEF Flush
  <2>6. flush'[s] \in Flush
    BY <1>1, <2>4, <2>5 DEF Flush, FlushPc
  <2> QED
    BY <1>1, <1>2, <2>2, <2>5, <2>6
<1>3. CASE ~ WasEmpty(s)
  BY <1>1, <1>3 DEF Connect
<1> QED
  BY <1>2, <1>3

LEMMA QueryFlush ==
  ASSUME TypeOK, NEW s \in Socket, FlushQuery(s)
  PROVE  /\ flush' \in [Socket -> Flush]
         /\ \A t \in Socket : t # s => flush'[t] = flush[t]
         /\ flush'[s].pc = "reply"
         /\ flush'[s].since = flush[s].since
         /\ flush'[s].pending = Pending(Owner[s], flush[s].since)
<1>1. flush \in [Socket -> Flush]
  BY DEF TypeOK
<1>2. Pending(Owner[s], flush[s].since) \in SUBSET Msg
  BY DEF TypeOK, Pending
<1>3. flush' = [flush EXCEPT ![s].pc = "reply",
                  ![s].pending = Pending(Owner[s], flush[s].since)]
  BY DEF FlushQuery
<1>4. flush' = [flush EXCEPT ![s] =
                  [@ EXCEPT !.pc = "reply",
                            !.pending = Pending(Owner[s], flush[s].since)]]
  BY <1>1, <1>3
<1>5. flush[s] \in Flush
  BY <1>1
<1>6. flush'[s] = [flush[s] EXCEPT !.pc = "reply",
                    !.pending = Pending(Owner[s], flush[s].since)]
  BY <1>1, <1>4
<1>7. flush'[s] = [pc |-> "reply", since |-> flush[s].since,
                   pending |-> Pending(Owner[s], flush[s].since)]
  BY <1>5, <1>6 DEF Flush
<1>8. flush'[s] \in Flush
  BY <1>2, <1>5, <1>7 DEF Flush, FlushPc
<1> QED
  BY <1>1, <1>4, <1>7, <1>8

-----------------------------------------------------------------------------
(***************************************************************************)
(* Types, stamps and rows.                                                 *)
(***************************************************************************)
LEMMA BasePreserved == Base /\ [Next]_vars => Base'
<1> SUFFICES ASSUME Base, [Next]_vars
             PROVE  Base'
  OBVIOUS
<1> USE TimeAssumption, SocketAssumption DEF Base, TypeOK, Time, Header, Flush,
        NoFlush, SendPc, UnsendPc, FlushPc, processVars, tableVars,
        clientVars, ghostVars
<1>1. CASE Tick
  BY <1>1 DEF Tick
<1>2. ASSUME NEW s \in Socket, Connect(s)
      PROVE  Base'
  <2>1. /\ flush' \in [Socket -> Flush]
        /\ \A t \in Socket : t # s => flush'[t] = flush[t]
        /\ flush'[s].pc \in {"idle", "query"}
        /\ flush'[s].pending = flush[s].pending
    BY <1>2, ConnectFlush
  <2>2. UNCHANGED <<clock, msg, lastSeen, pc, unsend, rows, deleted, shown,
                    got, exposed, raced>>
        /\ online' = online \cup {s}
    BY <1>2 DEF Connect
  <2>3. flush[s].pc = "idle"
    BY <1>2 DEF Connect
  <2>4. TypeOK'
    BY <2>1, <2>2
  <2> QED
    BY <2>1, <2>2, <2>3, <2>4
<1>3. ASSUME NEW s \in Socket, Disconnect(s)
      PROVE  Base'
  BY <1>3 DEF Disconnect, Seen, Overtaken
<1>4. ASSUME NEW s \in Socket, FlushQuery(s)
      PROVE  Base'
  <2>1. /\ flush' \in [Socket -> Flush]
        /\ \A t \in Socket : t # s => flush'[t] = flush[t]
        /\ flush'[s].pc = "reply"
        /\ flush'[s].pending = Pending(Owner[s], flush[s].since)
    BY <1>4, QueryFlush
  <2>2. UNCHANGED <<clock, msg, online, lastSeen, pc, unsend, rows, deleted,
                    shown, got, exposed, raced>>
    BY <1>4 DEF FlushQuery
  <2>3. TypeOK'
    BY <2>1, <2>2
  <2>4. /\ flush'[s].pending \subseteq rows
        /\ \A m \in flush'[s].pending : msg[m].to = Owner[s]
    BY <2>1 DEF Pending
  <2> HIDE DEF TypeOK
  <2> QED
    BY <2>1, <2>2, <2>3, <2>4
<1>5. ASSUME NEW s \in Socket, FlushEmit(s)
      PROVE  Base'
  <2> DEFINE sent == IF FlushReaches(s) THEN flush[s].pending ELSE {}
  <2>1. /\ flush' = [flush EXCEPT ![s] = NoFlush]
        /\ shown' = [shown EXCEPT ![s] = @ \cup sent]
        /\ got' = [got EXCEPT ![Owner[s]] = @ \cup sent]
        /\ UNCHANGED <<clock, msg, online, lastSeen, pc, unsend, rows,
                       deleted, exposed, raced>>
    BY <1>5 DEF FlushEmit
  <2>2. /\ sent \subseteq rows
        /\ \A m \in sent : m \in Msg /\ msg[m].to = Owner[s]
    OBVIOUS
  <2> HIDE DEF sent
  <2>3. NoFlush \in Flush
    OBVIOUS
  <2>4. TypeOK'
    BY <2>1, <2>2, <2>3
  <2>5. \A u \in User : got'[u] \subseteq rows
    BY <2>1, <2>2
  <2>6. \A t \in Socket : /\ flush'[t].pending \subseteq flush[t].pending
                          /\ flush'[t].pc # "reply" => flush'[t].pending = {}
    BY <2>1
  <2>7. \A t \in Socket : \A m \in shown'[t] :
          Owner[t] \in {msg[m].from, msg[m].to}
    BY <2>1, <2>2
  <2>8. \A t \in Socket : t \notin online => shown'[t] = {}
    BY <2>1 DEF sent, FlushReaches
  <2> HIDE DEF TypeOK
  <2> QED
    BY <2>1, <2>4, <2>5, <2>6, <2>7, <2>8
<1>6. ASSUME NEW m \in Msg, BeginSend(m)
      PROVE  Base'
  <2>1. /\ msg' = [msg EXCEPT ![m] = [@ EXCEPT !.at = clock]]
        /\ pc' = [pc EXCEPT ![m] = "insert"]
        /\ m \notin rows
        /\ exposed' \in SUBSET Msg
        /\ UNCHANGED <<clock, online, lastSeen, unsend, flush, rows, deleted,
                       shown, got, raced>>
    BY <1>6 DEF BeginSend
  <2>2. /\ msg' \in [Msg -> Header]
        /\ msg'[m].at = clock
        /\ \A n \in Msg : /\ msg'[n].from = msg[n].from
                          /\ msg'[n].to = msg[n].to
                          /\ n # m => msg'[n].at = msg[n].at
    BY <2>1
  <2>3. TypeOK'
    BY <2>1, <2>2
  <2>4. \A n \in Msg :
          /\ pc'[n] # "none" => msg'[n].at >= 1 /\ msg'[n].at <= clock
          /\ pc'[n] \in {"inserted", "sent"} => n \in rows
          /\ pc'[n] = "none" => n \notin rows
    BY <2>1, <2>2
  <2> HIDE DEF TypeOK
  <2> QED
    <3>1. \A t \in Socket : flush[t].pending \subseteq Msg /\ shown[t] \subseteq Msg
      BY DEF TypeOK
    <3> QED
      BY <2>1, <2>2, <2>3, <2>4, <3>1
<1>7. ASSUME NEW m \in Msg, SendCommits(m)
      PROVE  Base'
  BY <1>7 DEF SendCommits
<1>8. ASSUME NEW m \in Msg, FinishSend(m)
      PROVE  Base'
  BY <1>8 DEF FinishSend, MayBroadcast, Audience, SocketsOf
<1>9. ASSUME NEW m \in Msg, BeginUnsend(m)
      PROVE  Base'
  BY <1>9 DEF BeginUnsend
<1>10. ASSUME NEW m \in Msg, UnsendCommits(m)
       PROVE  Base'
  BY <1>10 DEF UnsendCommits
<1>11. ASSUME NEW m \in Msg, FinishUnsend(m)
       PROVE  Base'
  BY <1>11 DEF FinishUnsend
<1>12. CASE Crash
  BY <1>12 DEF Crash
<1>13. CASE UNCHANGED vars
  BY <1>13 DEF vars
<1> QED
  BY <1>1, <1>2, <1>3, <1>4, <1>5, <1>6, <1>7, <1>8, <1>9, <1>10, <1>11,
     <1>12, <1>13 DEF Next

-----------------------------------------------------------------------------
(***************************************************************************)
(* What was unsent stays hidden.                                           *)
(***************************************************************************)
LEMMA HiddenPreserved == Base /\ Hidden /\ [Next]_vars => Hidden'
<1> SUFFICES ASSUME Base, Hidden, [Next]_vars
             PROVE  Hidden'
  OBVIOUS
<1> USE SocketAssumption
    DEF Base, TypeOK, Hidden, UnsentIsHidden, NoFlush, processVars, tableVars,
        clientVars, ghostVars
<1>1. CASE Tick
  BY <1>1 DEF Tick
<1>2. ASSUME NEW s \in Socket, Connect(s)
      PROVE  Hidden'
  <2>1. \A t \in Socket : flush'[t].pending = flush[t].pending
    BY <1>2, ConnectFlush
  <2> QED
    BY <1>2, <2>1 DEF Connect
<1>3. ASSUME NEW s \in Socket, Disconnect(s)
      PROVE  Hidden'
  BY <1>3 DEF Disconnect
<1>4. ASSUME NEW s \in Socket, FlushQuery(s)
      PROVE  Hidden'
  <2>1. /\ \A t \in Socket : t # s => flush'[t] = flush[t]
        /\ flush'[s].pending \subseteq rows \ deleted
    BY <1>4, QueryFlush DEF Pending
  <2> QED
    BY <1>4, <2>1 DEF FlushQuery
<1>5. ASSUME NEW s \in Socket, FlushEmit(s)
      PROVE  Hidden'
  <2> DEFINE sent == IF FlushReaches(s) THEN flush[s].pending ELSE {}
  <2>1. /\ flush' = [flush EXCEPT ![s] = NoFlush]
        /\ shown' = [shown EXCEPT ![s] = @ \cup sent]
        /\ UNCHANGED <<online, pc, unsend, raced>>
    BY <1>5 DEF FlushEmit
  <2>2. \A m \in sent : m \in Msg /\ (unsend[m] = "done" => m \in raced)
    OBVIOUS
  <2> HIDE DEF sent
  <2> QED
    BY <2>1, <2>2
<1>6. ASSUME NEW m \in Msg, BeginSend(m)
      PROVE  Hidden'
  BY <1>6 DEF BeginSend
<1>7. ASSUME NEW m \in Msg, SendCommits(m)
      PROVE  Hidden'
  BY <1>7 DEF SendCommits
<1>8. ASSUME NEW m \in Msg, FinishSend(m)
      PROVE  Hidden'
  BY <1>8 DEF FinishSend, MayBroadcast
<1>9. ASSUME NEW m \in Msg, BeginUnsend(m)
      PROVE  Hidden'
  BY <1>9 DEF BeginUnsend
<1>10. ASSUME NEW m \in Msg, UnsendCommits(m)
       PROVE  Hidden'
  BY <1>10 DEF UnsendCommits
<1>11. ASSUME NEW m \in Msg, FinishUnsend(m)
       PROVE  Hidden'
  BY <1>11 DEF FinishUnsend, Audience, SocketsOf
<1>12. CASE Crash
  BY <1>12 DEF Crash
<1>13. CASE UNCHANGED vars
  BY <1>13 DEF vars
<1> QED
  BY <1>1, <1>2, <1>3, <1>4, <1>5, <1>6, <1>7, <1>8, <1>9, <1>10, <1>11,
     <1>12, <1>13 DEF Next

-----------------------------------------------------------------------------
(***************************************************************************)
(* What was acknowledged reaches its recipient, or will.                   *)
(***************************************************************************)
LEMMA ReachingPreserved == Base /\ Reaching /\ [Next]_vars => Reaching'
<1> SUFFICES ASSUME Base, Reaching, [Next]_vars
             PROVE  Reaching'
  OBVIOUS
<1> USE SocketAssumption, TimeAssumption
    DEF Reaching, InFlightIsNew, NothingMissed, Replayable, SocketsOf, processVars, tableVars,
        clientVars, ghostVars
<1> TypeOK
  BY DEF Base
<1> USE DEF Base, TypeOK, Header, Time
<1>1. CASE Tick
  BY <1>1 DEF Tick
<1>2. ASSUME NEW s \in Socket, Connect(s)
      PROVE  Reaching'
  <2>1. /\ \A t \in Socket : t # s => flush'[t] = flush[t]
        /\ flush'[s].pc = IF WasEmpty(s) THEN "query" ELSE "idle"
        /\ WasEmpty(s) => flush'[s].since = lastSeen[Owner[s]]
    BY <1>2, ConnectFlush
  <2>2. /\ online' = online \cup {s} /\ s \notin online
        /\ UNCHANGED <<msg, lastSeen, pc, deleted, got, exposed>>
    BY <1>2 DEF Connect
  <2>3. InFlightIsNew'
    BY <2>2
  <2>4. NothingMissed'
    <3> SUFFICES ASSUME NEW m \in Msg, Replayable(m)
                 PROVE  Replayable(m)'
      BY <2>2
    <3> DEFINE u == msg[m].to
    <3>1. CASE SocketsOf(u) = {} /\ msg[m].at > lastSeen[u]
      BY <2>1, <2>2, <3>1 DEF WasEmpty
    <3>2. ASSUME NEW t \in SocketsOf(u),
                 \/ flush[t].pc = "query" /\ msg[m].at > flush[t].since
                 \/ flush[t].pc = "reply" /\ m \in flush[t].pending
          PROVE  Replayable(m)'
      BY <2>1, <2>2, <3>2
    <3> QED
      BY <3>1, <3>2
  <2> QED
    BY <2>3, <2>4
<1>3. ASSUME NEW s \in Socket, Disconnect(s)
      PROVE  Reaching'
  <2>1. /\ online' = online \ {s} /\ s \in online
        /\ SocketsOf(Owner[s]) # {s} => lastSeen' = lastSeen
        /\ \A u \in User : u # Owner[s] => lastSeen'[u] = lastSeen[u]
        /\ UNCHANGED <<msg, pc, flush, deleted, got>>
    BY <1>3 DEF Disconnect, Seen
  <2>2. \A m \in Msg :
          msg[m].to = Owner[s] /\ m \notin exposed' /\ m \notin got[Owner[s]]
          => /\ m \notin exposed
             /\ pc[m] \in {"insert", "inserted"} => SocketsOf(Owner[s]) # {s}
             /\ pc[m] = "sent" => flush[s].pc = "idle"
    BY <1>3 DEF Disconnect, Overtaken
  <2>3. exposed \subseteq exposed'
    BY <1>3 DEF Disconnect
  <2>4. InFlightIsNew'
    <3> SUFFICES ASSUME NEW m \in Msg \ exposed',
                        pc[m] \in {"insert", "inserted"},
                        m \notin got[msg[m].to],
                        SocketsOf(msg[m].to)' = {}
                 PROVE  msg[m].at > lastSeen'[msg[m].to]
      BY <2>1
    <3>1. CASE msg[m].to = Owner[s]
      BY <2>1, <2>2, <3>1
    <3>2. CASE msg[m].to # Owner[s]
      <4>1. SocketsOf(msg[m].to) = {}
        BY <2>1, <3>2
      <4> QED
        BY <2>1, <2>3, <3>2, <4>1
    <3> QED
      BY <3>1, <3>2
  <2>5. NothingMissed'
    <3> SUFFICES ASSUME NEW m \in Msg, pc[m] = "sent", m \notin deleted,
                        m \notin got[msg[m].to], m \notin exposed',
                        Replayable(m)
                 PROVE  Replayable(m)'
      BY <2>1, <2>3
    <3> DEFINE u == msg[m].to
    <3>1. CASE SocketsOf(u) = {} /\ msg[m].at > lastSeen[u]
      <4>1. u # Owner[s]
        BY <2>1, <3>1
      <4> QED
        BY <2>1, <3>1, <4>1
    <3>2. ASSUME NEW t \in SocketsOf(u),
                 \/ flush[t].pc = "query" /\ msg[m].at > flush[t].since
                 \/ flush[t].pc = "reply" /\ m \in flush[t].pending
          PROVE  Replayable(m)'
      <4>1. t # s
        BY <2>2, <3>2
      <4> QED
        BY <2>1, <3>2, <4>1
    <3> QED
      BY <3>1, <3>2
  <2> QED
    BY <2>4, <2>5
<1>4. ASSUME NEW s \in Socket, FlushQuery(s)
      PROVE  Reaching'
  <2>1. /\ \A t \in Socket : t # s => flush'[t] = flush[t]
        /\ flush'[s].pc = "reply"
        /\ flush'[s].pending = Pending(Owner[s], flush[s].since)
    BY <1>4, QueryFlush
  <2>2. /\ flush[s].pc = "query"
        /\ UNCHANGED <<online, msg, lastSeen, pc, rows, deleted, got, exposed>>
    BY <1>4 DEF FlushQuery
  <2>3. InFlightIsNew'
    BY <2>2
  <2>4. NothingMissed'
    <3> SUFFICES ASSUME NEW m \in Msg, pc[m] = "sent", m \notin deleted,
                        Replayable(m)
                 PROVE  Replayable(m)'
      BY <2>2
    <3> DEFINE u == msg[m].to
    <3>1. CASE SocketsOf(u) = {} /\ msg[m].at > lastSeen[u]
      BY <2>2, <3>1
    <3>2. ASSUME NEW t \in SocketsOf(u),
                 \/ flush[t].pc = "query" /\ msg[m].at > flush[t].since
                 \/ flush[t].pc = "reply" /\ m \in flush[t].pending
          PROVE  Replayable(m)'
      <4>1. m \in rows /\ t \in Socket
        BY <3>2
      <4>2. CASE t = s
        BY <2>1, <2>2, <3>2, <4>1, <4>2 DEF Pending
      <4>3. CASE t # s
        BY <2>1, <2>2, <3>2, <4>1, <4>3
      <4> QED
        BY <4>2, <4>3
    <3> QED
      BY <3>1, <3>2
  <2> QED
    BY <2>3, <2>4
<1>5. ASSUME NEW s \in Socket, FlushEmit(s)
      PROVE  Reaching'
  <2>1. /\ flush[s].pc = "reply"
        /\ \A t \in Socket : t # s => flush'[t] = flush[t]
        /\ UNCHANGED <<online, msg, lastSeen, pc, deleted, exposed>>
    BY <1>5 DEF FlushEmit
  <2>2. /\ \A u \in User : got[u] \subseteq got'[u]
        /\ s \in online => flush[s].pending \subseteq got'[Owner[s]]
    BY <1>5 DEF FlushEmit, FlushReaches
  <2>3. InFlightIsNew'
    BY <2>1, <2>2
  <2>4. NothingMissed'
    <3> SUFFICES ASSUME NEW m \in Msg, Replayable(m), m \notin got'[msg[m].to]
                 PROVE  Replayable(m)'
      BY <2>1, <2>2
    <3> DEFINE u == msg[m].to
    <3>1. CASE SocketsOf(u) = {} /\ msg[m].at > lastSeen[u]
      BY <2>1, <3>1
    <3>2. ASSUME NEW t \in SocketsOf(u),
                 \/ flush[t].pc = "query" /\ msg[m].at > flush[t].since
                 \/ flush[t].pc = "reply" /\ m \in flush[t].pending
          PROVE  Replayable(m)'
      <4>1. t # s
        BY <2>1, <2>2, <3>2
      <4> QED
        BY <2>1, <3>2, <4>1
    <3> QED
      BY <3>1, <3>2
  <2> QED
    BY <2>3, <2>4
<1>6. ASSUME NEW m \in Msg, BeginSend(m)
      PROVE  Reaching'
  <2>1. /\ pc[m] = "none"
        /\ pc' = [pc EXCEPT ![m] = "insert"]
        /\ exposed \subseteq exposed'
        /\ UNCHANGED <<online, lastSeen, flush, deleted, got>>
    BY <1>6 DEF BeginSend
  <2>2. /\ msg'[m].at = clock /\ msg'[m].to = msg[m].to
        /\ \A n \in Msg : n # m => msg'[n] = msg[n]
    BY <1>6 DEF BeginSend
  <2>3. InFlightIsNew'
    <3>1. m \notin exposed' /\ SocketsOf(msg[m].to) = {}
            => clock > lastSeen[msg[m].to]
      <4>1. /\ lastSeen[msg[m].to] \in Nat /\ clock \in Nat
            /\ lastSeen[msg[m].to] <= clock
        OBVIOUS
      <4> HIDE DEF SocketsOf, Base, TypeOK, Reaching, NothingMissed
      <4>2. SocketsOf(msg[m].to) = {} /\ lastSeen[msg[m].to] = clock
              => m \in exposed'
        BY <1>6 DEF BeginSend
      <4> QED
        BY <4>1, <4>2
    <3> QED
      BY <2>1, <2>2, <3>1
  <2>4. NothingMissed'
    <3> SUFFICES ASSUME NEW n \in Msg, n # m, pc[n] = "sent"
                 PROVE  Replayable(n) => Replayable(n)'
      BY <2>1, <2>2
    <3> QED
      BY <2>1, <2>2
  <2> QED
    BY <2>3, <2>4
<1>7. ASSUME NEW m \in Msg, SendCommits(m)
      PROVE  Reaching'
  BY <1>7 DEF SendCommits
<1>8. ASSUME NEW m \in Msg, FinishSend(m)
      PROVE  Reaching'
  BY <1>8 DEF FinishSend, MayBroadcast, Audience
<1>9. ASSUME NEW m \in Msg, BeginUnsend(m)
      PROVE  Reaching'
  BY <1>9 DEF BeginUnsend
<1>10. ASSUME NEW m \in Msg, UnsendCommits(m)
       PROVE  Reaching'
  BY <1>10 DEF UnsendCommits
<1>11. ASSUME NEW m \in Msg, FinishUnsend(m)
       PROVE  Reaching'
  BY <1>11 DEF FinishUnsend
<1>12. CASE Crash
  BY <1>12 DEF Crash
<1>13. CASE UNCHANGED vars
  BY <1>13 DEF vars
<1> QED
  BY <1>1, <1>2, <1>3, <1>4, <1>5, <1>6, <1>7, <1>8, <1>9, <1>10, <1>11,
     <1>12, <1>13 DEF Next

-----------------------------------------------------------------------------
(***************************************************************************)
(* What a replay repeats.                                                  *)
(***************************************************************************)
LEMMA RepeatingPreserved == Base /\ Repeating /\ [Next]_vars => Repeating'
<1> SUFFICES ASSUME Base, Repeating, [Next]_vars
             PROVE  Repeating'
  OBVIOUS
<1> TypeOK
  BY DEF Base
<1> USE SocketAssumption, TimeAssumption
    DEF Repeating, OneReplays, SentBeforeLeaving, ShownMeanwhile,
        RepeatsOnlyIfForgotten, SocketsOf, processVars, tableVars,
        clientVars, ghostVars, Base, TypeOK, Header, Time
<1>1. CASE Tick
  BY <1>1 DEF Tick
<1>2. ASSUME NEW s \in Socket, Connect(s)
      PROVE  Repeating'
  <2>1. /\ \A t \in Socket : t # s => flush'[t] = flush[t]
        /\ flush'[s].pc = IF WasEmpty(s) THEN "query" ELSE "idle"
        /\ WasEmpty(s) => flush'[s].since = lastSeen[Owner[s]]
        /\ flush'[s].pending = {}
    BY <1>2, ConnectFlush DEF Connect
  <2>2. /\ online' = online \cup {s} /\ s \notin online
        /\ UNCHANGED <<msg, lastSeen, deleted, shown, got, raced>>
    BY <1>2 DEF Connect
  <2>3. OneReplays'
    BY <2>1, <2>2 DEF WasEmpty
  <2>4. SentBeforeLeaving'
    BY <2>2
  <2>5. ShownMeanwhile'
    BY <2>1, <2>2 DEF WasEmpty
  <2>6. RepeatsOnlyIfForgotten'
    BY <2>1, <2>2
  <2> QED
    BY <2>3, <2>4, <2>5, <2>6
<1>3. ASSUME NEW s \in Socket, Disconnect(s)
      PROVE  Repeating'
  <2>1. /\ online' = online \ {s}
        /\ \A t \in Socket : t # s => shown'[t] = shown[t]
        /\ UNCHANGED <<msg, flush, deleted, got, raced>>
    BY <1>3 DEF Disconnect
  <2>2. SentBeforeLeaving'
    <3> SUFFICES ASSUME NEW u \in User, NEW m \in got[u], msg[m].to = u,
                        SocketsOf(u)' = {}
                 PROVE  msg[m].at <= lastSeen'[u] \/ lastSeen'[u] = 0
      BY <2>1
    <3>1. CASE SocketsOf(u) = {s}
      <4>1. lastSeen'[u] = clock
        BY <1>3, <3>1 DEF Disconnect, Seen
      <4>2. m \in Msg /\ msg[m].at <= clock
        OBVIOUS
      <4> QED
        BY <4>1, <4>2
    <3>2. CASE SocketsOf(u) # {s}
      <4>1. SocketsOf(u) = {}
        BY <2>1, <3>2
      <4>2. Owner[s] # u
        BY <1>3, <4>1 DEF Disconnect
      <4>3. lastSeen'[u] = lastSeen[u]
        BY <1>3, <4>2 DEF Disconnect, Seen
      <4> QED
        BY <4>1, <4>3
    <3> QED
      BY <3>1, <3>2
  <2> QED
    BY <2>1, <2>2
<1>4. ASSUME NEW s \in Socket, FlushQuery(s)
      PROVE  Repeating'
  <2>1. /\ \A t \in Socket : t # s => flush'[t] = flush[t]
        /\ flush'[s].pc = "reply" /\ flush'[s].since = flush[s].since
        /\ \A m \in flush'[s].pending :
             /\ m \in Msg /\ m \notin deleted
             /\ msg[m].to = Owner[s] /\ msg[m].at > flush[s].since
    BY <1>4, QueryFlush DEF Pending
  <2>2. /\ flush[s].pc = "query"
        /\ UNCHANGED <<online, msg, lastSeen, deleted, shown, got, raced>>
    BY <1>4 DEF FlushQuery
  <2>3. OneReplays'
    BY <2>1, <2>2
  <2>4. SentBeforeLeaving'
    BY <2>2
  <2>5. ShownMeanwhile'
    BY <2>1, <2>2
  <2>6. RepeatsOnlyIfForgotten'
    BY <2>1, <2>2
  <2> QED
    BY <2>3, <2>4, <2>5, <2>6
<1>5. ASSUME NEW s \in Socket, FlushEmit(s)
      PROVE  Repeating'
  <2>1. /\ flush[s].pc = "reply"
        /\ \A t \in Socket : t # s =>
             flush'[t] = flush[t] /\ shown'[t] = shown[t]
        /\ flush'[s].pc = "idle" /\ flush'[s].pending = {}
        /\ UNCHANGED <<online, msg, lastSeen, deleted, raced>>
    BY <1>5 DEF FlushEmit, NoFlush
  <2>2. \A u \in User : u # Owner[s] \/ s \notin online => got'[u] = got[u]
    BY <1>5 DEF FlushEmit, FlushReaches
  <2>3. \A t \in online : t # s /\ Owner[t] = Owner[s] /\ s \in online
          => flush[t].pc = "idle" /\ flush[t].pending = {}
    BY <2>1
  <2>4. OneReplays'
    <3>1. \A t \in Socket : flush'[t].pc # "idle" => flush[t].pc # "idle"
      BY <2>1
    <3> HIDE DEF Base, TypeOK
    <3> QED
      BY <2>1, <3>1, TypeOK DEF TypeOK
  <2>5. SentBeforeLeaving'
    BY <2>1, <2>2
  <2>6. ShownMeanwhile'
    BY <2>1, <2>2, <2>3
  <2>7. RepeatsOnlyIfForgotten'
    BY <2>1, <2>2, <2>3
  <2> QED
    BY <2>4, <2>5, <2>6, <2>7
<1>6. ASSUME NEW m \in Msg, BeginSend(m)
      PROVE  Repeating'
  <2>1. /\ m \notin rows
        /\ \A n \in Msg : n # m => msg'[n] = msg[n]
        /\ UNCHANGED <<online, lastSeen, flush, deleted, shown, got, raced>>
    BY <1>6 DEF BeginSend
  <2>2. OneReplays'
    BY <2>1
  <2>3. SentBeforeLeaving'
    BY <2>1
  <2>4. ShownMeanwhile'
    <3> SUFFICES ASSUME NEW s \in online, NEW n \in got[Owner[s]],
                        flush[s].pc = "query", flush[s].since # 0,
                        msg'[n].to = Owner[s], msg'[n].at > flush[s].since
                 PROVE  n \in shown[s] \/ n \in deleted
      BY <2>1
    <3>1. n \in Msg /\ n # m
      BY <2>1
    <3> QED
      BY <2>1, <3>1
  <2>5. RepeatsOnlyIfForgotten'
    BY <2>1
  <2> QED
    BY <2>2, <2>3, <2>4, <2>5
<1>7. ASSUME NEW m \in Msg, SendCommits(m)
      PROVE  Repeating'
  BY <1>7 DEF SendCommits
<1>8. ASSUME NEW m \in Msg, FinishSend(m)
      PROVE  Repeating'
  <2>1. UNCHANGED <<online, msg, lastSeen, flush, deleted, raced>>
    BY <1>8 DEF FinishSend
  <2>2. \A s \in Socket : shown[s] \subseteq shown'[s]
    BY <1>8 DEF FinishSend
  <2>3. \A u \in User : \A n \in got'[u] \ got[u] : \E s \in online :
          Owner[s] = u
    BY <1>8 DEF FinishSend, Audience
  <2>4. \A s \in online : \A n \in got'[Owner[s]] \ got[Owner[s]] :
          n \in shown'[s]
    BY <1>8 DEF FinishSend, Audience
  <2> QED
    BY <2>1, <2>2, <2>3, <2>4
<1>9. ASSUME NEW m \in Msg, BeginUnsend(m)
      PROVE  Repeating'
  BY <1>9 DEF BeginUnsend
<1>10. ASSUME NEW m \in Msg, UnsendCommits(m)
       PROVE  Repeating'
  BY <1>10 DEF UnsendCommits
<1>11. ASSUME NEW m \in Msg, FinishUnsend(m)
       PROVE  Repeating'
  <2>1. /\ m \in deleted
        /\ \A s \in Socket : shown[s] \ {m} \subseteq shown'[s]
        /\ raced \subseteq raced'
        /\ (\E s \in Socket : m \in flush[s].pending) => m \in raced'
        /\ UNCHANGED <<online, msg, lastSeen, flush, deleted, got>>
    BY <1>11 DEF FinishUnsend
  <2> QED
    BY <2>1
<1>12. CASE Crash
  BY <1>12 DEF Crash
<1>13. CASE UNCHANGED vars
  BY <1>13 DEF vars
<1> QED
  BY <1>1, <1>2, <1>3, <1>4, <1>5, <1>6, <1>7, <1>8, <1>9, <1>10, <1>11,
     <1>12, <1>13 DEF Next

-----------------------------------------------------------------------------
(***************************************************************************)
(* Theorems.                                                               *)
(***************************************************************************)

\* The four parts hold in every state: user-sockets.store.ts and the replay
\* of flushPendingMessages lose and repeat only what they are said to.
THEOREM ReplayInvariance == Spec => []IInv
<1>1. IInv /\ [Next]_vars => IInv'
  BY BasePreserved, HiddenPreserved, ReachingPreserved, RepeatingPreserved
     DEF IInv
<1> QED
  BY InitEstablishes, <1>1, PTL DEF Spec

\* Types, for any users, connections, messages and times.
THEOREM TypeCorrect == Spec => []TypeOK
<1>1. IInv => TypeOK
  BY DEF IInv, Base
<1> QED
  BY ReplayInvariance, <1>1, PTL

\* What chat:message or a replay sent has a row that a request for the
\* history finds.
THEOREM DeliveredCorrect == Spec => []DeliveredIsPersisted
<1>1. IInv => DeliveredIsPersisted
  BY DEF IInv, Base, DeliveredIsPersisted
<1> QED
  BY ReplayInvariance, <1>1, PTL

\* After chat:unsent a message is on no screen it was not on its way to.
THEOREM UnsentCorrect == Spec => []UnsentIsHidden
<1>1. IInv => UnsentIsHidden
  BY DEF IInv, Hidden
<1> QED
  BY ReplayInvariance, <1>1, PTL

\* An acknowledged message reaches its recipient or will be replayed, unless
\* they left while it was under way.
THEOREM ReplayComplete == Spec => []NothingMissed
<1>1. IInv => NothingMissed
  BY DEF IInv, Reaching
<1> QED
  BY ReplayInvariance, <1>1, PTL

\* A replay repeats earlier connections only after a restart.
THEOREM ReplayRepeats == Spec => []RepeatsOnlyIfForgotten
<1>1. IInv => RepeatsOnlyIfForgotten
  BY DEF IInv, Repeating
<1> QED
  BY ReplayInvariance, <1>1, PTL

=============================================================================
