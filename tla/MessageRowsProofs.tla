-------------------------- MODULE MessageRowsProofs --------------------------
(***************************************************************************)
(* Proofs about MessageRows, for any users, messages, quotes and calls.    *)
(***************************************************************************)
EXTENDS MessageRows, TLAPS

(***************************************************************************)
(* The inductive invariant: what is true of each row, of each call by how  *)
(* far it is, and of the calls to send together.                           *)
(***************************************************************************)

\* A row has content until it is unsent, and none after it, but what an
\* overlapping edit wrote.
RowOK(m) ==
  /\ m \in stamped
  /\ body[m].deleted => (body[m].text = Blank \/ m \in overrun)
  /\ ~ body[m].deleted => body[m].text \in Text

\* An edit that passed its checks before the unsending overruns it.
EditOK(k) ==
  k.op = "edit" =>
    /\ k.arg \in Text
    /\ k.pc = "write" /\ k.m \in rows /\ body[k.m].deleted => k.m \in overrun

\* A message has no row until its insert; what it quotes keeps its row
\* unless the conversation is wiped.
SendOK(k) ==
  k.op = "send" =>
    /\ k.m \in stamped
    /\ k.pc # "emit" => k.m \notin rows
    /\ k.pc = "write" => wiped \/ k.arg \in rows \cup {None}

\* So does what a reaction is to.
ReactOK(k) ==
  k.op = "react" /\ k.pc = "write" => wiped \/ k.m \in rows

CallOK(k) == k \in Call /\ EditOK(k) /\ SendOK(k) /\ ReactOK(k)

\* An id is sent once.
SentOnce ==
  \A j, k \in calls : j.op = "send" /\ k.op = "send" /\ j.m = k.m => j = k

RowInv ==
  /\ stamped \subseteq Msg
  /\ body \in [Msg -> Body]
  /\ \A m \in rows : RowOK(m)
  /\ \A k \in calls : CallOK(k)
  /\ SentOnce
  /\ RejectedOnlyIfWiped

\* what the calls that only move on leave alone
stableVars == <<stamped, rows, body, overrun, wiped, rejected>>

LEMMA InitEstablishes == Init => RowInv
BY DEF Init, RowInv, SentOnce, RejectedOnlyIfWiped, Body, NoBody

-----------------------------------------------------------------------------
(***************************************************************************)
(* Steps that change no row and no deletion mark.                          *)
(***************************************************************************)

\* Calls may be added, or replaced by calls of the same message and kind.
LEMMA MoveOn ==
  ASSUME RowInv, UNCHANGED stableVars,
         \A k \in calls' : CallOK(k),
         \A k \in calls' : k.op = "send" => k \in calls
  PROVE  RowInv'
<1>1. \A m \in rows' : RowOK(m)'
  BY DEF RowInv, RowOK, stableVars
<1>2. \A k \in calls' : CallOK(k)'
  BY DEF CallOK, EditOK, SendOK, ReactOK, stableVars
<1>3. SentOnce'
  BY DEF RowInv, SentOnce
<1> QED
  BY <1>1, <1>2, <1>3 DEF RowInv, RejectedOnlyIfWiped, stableVars

LEMMA BeginPreserves ==
  ASSUME RowInv, UNCHANGED stableVars, NEW h \in Handler, NEW m \in Msg,
         NEW op \in Op \ {"send"}, NEW u \in User,
         NEW arg \in Text \cup Emoji \cup Msg \cup {None},
         op = "edit" => arg \in Text,
         Begin(h, op, "look", m, u, arg)
  PROVE  RowInv'
<1> DEFINE new == [h |-> h, op |-> op, pc |-> "look", m |-> m, by |-> u,
                   arg |-> arg]
<1>1. calls' = calls \cup {new}
  BY DEF Begin
<1>2. CallOK(new)
  BY DEF CallOK, Call, Op, Pc, EditOK, SendOK, ReactOK
<1>3. \A k \in calls : CallOK(k)
  BY DEF RowInv
<1>4. new.op # "send"
  BY DEF Op
<1> QED
  BY <1>1, <1>2, <1>3, <1>4, MoveOn

LEMMA FinishPreserves ==
  ASSUME RowInv, UNCHANGED stableVars, NEW k \in calls, Finish(k)
  PROVE  RowInv'
BY MoveOn DEF Finish, RowInv

\* A call that goes on with a write, or with its broadcast.
LEMMA ContinuePreserves ==
  ASSUME RowInv, UNCHANGED stableVars, NEW k \in calls, k.op # "send",
         NEW pc \in Pc, CallOK([k EXCEPT !.pc = pc]), Continue(k, pc)
  PROVE  RowInv'
<1>1. calls' = (calls \ {k}) \cup {[k EXCEPT !.pc = pc]}
  BY DEF Continue
<1>2. k \in Call
  BY DEF RowInv, CallOK
<1>3. [k EXCEPT !.pc = pc].op # "send"
  BY <1>2 DEF Call
<1> QED
  BY <1>1, <1>3, MoveOn DEF RowInv

LEMMA WriteLooksPreserves ==
  ASSUME RowInv, NEW k \in calls, WriteLooks(k)
  PROVE  RowInv'
<1>1. /\ k \in Call /\ EditOK(k)
      /\ UNCHANGED stableVars
      /\ k.op \in {"edit", "unsend"} /\ k.pc = "look"
  BY DEF WriteLooks, RowInv, CallOK, stableVars, tableVars, ghostVars
<1>2. CASE Continue(k, "emit")
  <2>1. CallOK([k EXCEPT !.pc = "emit"])
    BY <1>1 DEF CallOK, Call, Pc, EditOK, SendOK, ReactOK
  <2> QED
    BY <1>1, <1>2, <2>1, ContinuePreserves DEF Pc
<1>3. CASE Finish(k)
  BY <1>1, <1>3, FinishPreserves
<1>4. CASE /\ Continue(k, "write")
           /\ k.op = "edit" => MayEdit(k.by, k.m)
  <2>1. CallOK([k EXCEPT !.pc = "write"])
    BY <1>1, <1>4 DEF CallOK, Call, Pc, EditOK, SendOK, ReactOK, MayEdit
  <2> QED
    BY <1>1, <1>4, <2>1, ContinuePreserves DEF Pc
<1> QED
  BY <1>1, <1>2, <1>3, <1>4 DEF WriteLooks

LEMMA ReactLooksPreserves ==
  ASSUME RowInv, NEW k \in calls, ReactLooks(k)
  PROVE  RowInv'
<1>1. /\ k \in Call
      /\ UNCHANGED stableVars
      /\ k.op = "react" /\ k.pc = "look"
  BY DEF ReactLooks, RowInv, CallOK, stableVars, tableVars, ghostVars
<1>2. CASE Finish(k)
  BY <1>1, <1>2, FinishPreserves
<1>3. CASE MayReact(k.m) /\ Continue(k, "write")
  <2>1. CallOK([k EXCEPT !.pc = "write"])
    BY <1>1, <1>3 DEF CallOK, Call, Pc, EditOK, SendOK, ReactOK, MayReact
  <2> QED
    BY <1>1, <1>3, <2>1, ContinuePreserves DEF Pc
<1> QED
  BY <1>2, <1>3 DEF ReactLooks

LEMMA ReactCommitsPreserves ==
  ASSUME RowInv, NEW k \in calls, ReactCommits(k)
  PROVE  RowInv'
<1>1. /\ k \in Call /\ k.op = "react"
      /\ UNCHANGED stableVars
      /\ Continue(k, "emit")
  BY DEF ReactCommits, RowInv, CallOK, stableVars
<1>2. CallOK([k EXCEPT !.pc = "emit"])
  BY <1>1 DEF CallOK, Call, Pc, EditOK, SendOK, ReactOK
<1> QED
  BY <1>1, <1>2, ContinuePreserves DEF Pc

-----------------------------------------------------------------------------
(***************************************************************************)
(* chat:message.                                                           *)
(***************************************************************************)
LEMMA BeginSendPreserves ==
  ASSUME RowInv, NEW h \in Handler, NEW m \in Msg, BeginSend(h, m)
  PROVE  RowInv'
<1> DEFINE new == [h |-> h, op |-> "send",
                   pc |-> IF Parent[m] = None THEN "write" ELSE "look",
                   m |-> m, by |-> Sender[m], arg |-> None]
<1>1. /\ m \notin stamped
      /\ stamped' = stamped \cup {m}
      /\ calls' = calls \cup {new}
      /\ UNCHANGED <<rows, body, overrun, wiped, rejected>>
  BY DEF BeginSend, Begin, tableVars, ghostVars
<1>2. m \notin rows
  BY <1>1 DEF RowInv, RowOK
<1>3. CallOK(new)'
  BY <1>1, <1>2, MessageAssumption
     DEF CallOK, Call, Op, Pc, EditOK, SendOK, ReactOK
<1>4. \A k \in calls : CallOK(k)'
  BY <1>1 DEF RowInv, CallOK, EditOK, SendOK, ReactOK
<1>5. \A k \in calls : k.op = "send" => k.m # m
  BY <1>1 DEF RowInv, CallOK, SendOK
<1>6. SentOnce'
  BY <1>1, <1>5 DEF RowInv, SentOnce
<1>7. \A x \in rows' : RowOK(x)'
  BY <1>1 DEF RowInv, RowOK
<1> QED
  BY <1>1, <1>3, <1>4, <1>6, <1>7 DEF RowInv, RejectedOnlyIfWiped

\* A send that goes on stands for the same message.
LEMMA SendMovesOn ==
  ASSUME RowInv, NEW k \in calls, k.op = "send", NEW j,
         j.op = "send", j.m = k.m, calls' = (calls \ {k}) \cup {j}
  PROVE  SentOnce'
BY DEF RowInv, SentOnce

LEMMA SendLooksPreserves ==
  ASSUME RowInv, NEW k \in calls, SendLooks(k)
  PROVE  RowInv'
<1> DEFINE j == [k EXCEPT !.pc = "write", !.arg = Link(k.m)]
<1>1. /\ k \in Call /\ SendOK(k)
      /\ k.op = "send" /\ k.pc = "look"
      /\ calls' = (calls \ {k}) \cup {j}
      /\ UNCHANGED stableVars
  BY DEF SendLooks, RowInv, CallOK, stableVars, tableVars, ghostVars
<1>2. Link(k.m) \in rows \cup {None} /\ Link(k.m) \in Msg \cup {None}
  BY <1>1, MessageAssumption DEF Link, Call
<1>3. j \in Call /\ j.op = "send" /\ j.m = k.m /\ j.pc = "write"
      /\ j.arg = Link(k.m)
  BY <1>1, <1>2 DEF Call, Pc
<1>4. CallOK(j)
  BY <1>1, <1>2, <1>3 DEF CallOK, EditOK, SendOK, ReactOK
<1>5. SentOnce'
  BY <1>1, <1>3, SendMovesOn
<1>6. \A c \in calls' : CallOK(c)'
  BY <1>1, <1>4 DEF RowInv, CallOK, EditOK, SendOK, ReactOK, stableVars
<1>7. \A m \in rows' : RowOK(m)'
  BY <1>1 DEF RowInv, RowOK, stableVars
<1> QED
  BY <1>1, <1>5, <1>6, <1>7 DEF RowInv, RejectedOnlyIfWiped, stableVars

\* The insert adds a row that no other call was waiting to add.
LEMMA SendCommitsPreserves ==
  ASSUME RowInv, NEW k \in calls, SendCommits(k)
  PROVE  RowInv'
<1> DEFINE j == [k EXCEPT !.pc = "emit"]
<1>1. /\ k \in Call /\ SendOK(k)
      /\ k.op = "send" /\ k.pc = "write"
      /\ rows' = rows \cup {k.m}
      /\ body' = [body EXCEPT ![k.m] = [text |-> Draft, deleted |-> FALSE]]
      /\ calls' = (calls \ {k}) \cup {j}
      /\ UNCHANGED <<stamped, overrun, wiped, rejected>>
  BY DEF SendCommits, Continue, RowInv, CallOK, ghostVars
<1>2. k.m \in Msg /\ k.m \in stamped /\ k.m \notin rows
  BY <1>1 DEF SendOK, Call
<1>3. j \in Call /\ j.op = "send" /\ j.m = k.m /\ j.pc = "emit"
  BY <1>1 DEF Call, Pc
<1>4. body' \in [Msg -> Body]
  BY <1>1, MessageAssumption DEF RowInv, Body
<1>5. ~ body'[k.m].deleted /\ body'[k.m].text \in Text
  BY <1>1, <1>2, MessageAssumption DEF RowInv
<1>6. \A m \in rows : body'[m] = body[m]
  BY <1>1, <1>2 DEF RowInv, RowOK
<1>7. \A m \in rows' : RowOK(m)'
  BY <1>1, <1>2, <1>5, <1>6 DEF RowInv, RowOK
<1>8. CallOK(j)'
  BY <1>1, <1>2, <1>3 DEF CallOK, EditOK, SendOK, ReactOK
<1>9. ASSUME NEW c \in calls \ {k}
      PROVE  CallOK(c)'
  <2>1. CallOK(c) /\ (c.op = "send" => c.m # k.m)
    BY <1>1 DEF RowInv, SentOnce
  <2>2. EditOK(c)'
    BY <1>1, <1>5, <1>6, <2>1 DEF CallOK, EditOK
  <2> QED
    BY <1>1, <2>1, <2>2 DEF CallOK, SendOK, ReactOK
<1>10. SentOnce'
  BY <1>1, <1>3, SendMovesOn
<1> QED
  BY <1>1, <1>4, <1>7, <1>8, <1>9, <1>10 DEF RowInv, RejectedOnlyIfWiped

LEMMA FinishSendPreserves ==
  ASSUME RowInv, NEW k \in calls, FinishSend(k)
  PROVE  RowInv'
BY FinishPreserves DEF FinishSend, stableVars, tableVars, ghostVars

-----------------------------------------------------------------------------
(***************************************************************************)
(* chat:edit and chat:unsend, once their checks passed.                    *)
(***************************************************************************)

\* An edit keeps the mark, and overruns the unsending if it is set.
LEMMA EditCommitsPreserves ==
  ASSUME RowInv, NEW k \in calls, EditCommits(k)
  PROVE  RowInv'
<1> DEFINE j == [k EXCEPT !.pc = "emit"]
<1>1. /\ k \in Call /\ EditOK(k)
      /\ k.op = "edit" /\ k.pc = "write"
      /\ body' = IF k.m \in rows
                   THEN [body EXCEPT ![k.m].text = k.arg] ELSE body
      /\ calls' = (calls \ {k}) \cup {j}
      /\ UNCHANGED <<stamped, rows, overrun, wiped, rejected>>
  BY DEF EditCommits, Continue, RowInv, CallOK, Matches, Edited
<1>2. k.m \in Msg /\ k.arg \in Text
  BY <1>1 DEF EditOK, Call
<1>3. body' \in [Msg -> Body]
  BY <1>1, <1>2 DEF RowInv, Body
<1>4. \A m \in Msg : /\ body'[m].deleted = body[m].deleted
                     /\ m # k.m \/ m \notin rows => body'[m] = body[m]
                     /\ m = k.m /\ m \in rows => body'[m].text = k.arg
  BY <1>1, <1>2 DEF RowInv, Body
<1>5. \A m \in rows' : RowOK(m)'
  BY <1>1, <1>2, <1>4 DEF RowInv, RowOK, EditOK
<1>6. j \in Call /\ j.op = "edit" /\ j.arg = k.arg /\ j.pc = "emit"
  BY <1>1 DEF Call, Pc
<1>7. \A c \in calls : CallOK(c)'
  BY <1>1, <1>4 DEF RowInv, CallOK, Call, EditOK, SendOK, ReactOK
<1>8. CallOK(j)'
  BY <1>2, <1>6 DEF CallOK, EditOK, SendOK, ReactOK
<1>9. SentOnce'
  BY <1>1, <1>6 DEF RowInv, SentOnce
<1> QED
  BY <1>1, <1>3, <1>5, <1>7, <1>8, <1>9 DEF RowInv, RejectedOnlyIfWiped

\* An unsending blanks the row and notes the edits that will overrun it.
LEMMA UnsendCommitsPreserves ==
  ASSUME RowInv, NEW k \in calls, UnsendCommits(k)
  PROVE  RowInv'
<1> DEFINE j == [k EXCEPT !.pc = "emit"]
<1>1. /\ k \in Call
      /\ k.op = "unsend" /\ k.pc = "write"
      /\ body' = IF k.m \in rows
                   THEN [body EXCEPT ![k.m] = [text |-> Blank, deleted |-> TRUE]]
                   ELSE body
      /\ overrun' = overrun \cup
           (IF \E c \in calls : c.op = "edit" /\ c.m = k.m /\ c.pc = "write"
              THEN {k.m} ELSE {})
      /\ calls' = (calls \ {k}) \cup {j}
      /\ UNCHANGED <<stamped, rows, wiped, rejected>>
  BY DEF UnsendCommits, Continue, RowInv, CallOK, Matches, Unsent
<1>2. k.m \in Msg
  BY <1>1 DEF Call
<1>3. body' \in [Msg -> Body]
  BY <1>1 DEF RowInv, Body
<1>4. \A m \in Msg : /\ m # k.m => body'[m] = body[m]
                     /\ m = k.m /\ m \in rows =>
                          body'[m].deleted /\ body'[m].text = Blank
                     /\ m \notin rows => body'[m] = body[m]
  BY <1>1, <1>2 DEF RowInv
<1>5. overrun \subseteq overrun'
  BY <1>1
<1>6. \A m \in rows' : RowOK(m)'
  BY <1>1, <1>4, <1>5 DEF RowInv, RowOK
<1>7. j \in Call /\ j.op = "unsend" /\ j.pc = "emit"
  BY <1>1 DEF Call, Pc
<1>8. ASSUME NEW c \in calls
      PROVE  CallOK(c)'
  <2>1. CallOK(c) /\ c.m \in Msg
    BY DEF RowInv, CallOK, Call
  <2>2. EditOK(c)'
    <3>1. CASE c.m = k.m
      BY <1>1, <2>1, <3>1 DEF CallOK, EditOK
    <3>2. CASE c.m # k.m
      BY <1>1, <1>4, <1>5, <2>1, <3>2 DEF CallOK, EditOK
    <3> QED
      BY <3>1, <3>2
  <2> QED
    BY <1>1, <2>1, <2>2 DEF CallOK, SendOK, ReactOK
<1>9. CallOK(j)'
  BY <1>7 DEF CallOK, EditOK, SendOK, ReactOK
<1>10. SentOnce'
  BY <1>1, <1>7 DEF RowInv, SentOnce
<1> QED
  BY <1>1, <1>3, <1>6, <1>8, <1>9, <1>10 DEF RowInv, RejectedOnlyIfWiped

-----------------------------------------------------------------------------
(***************************************************************************)
(* The dissolution of the group, and the end of the process.               *)
(***************************************************************************)
LEMMA WipePreserves ==
  ASSUME RowInv, Wipe
  PROVE  RowInv'
<1>1. /\ wiped' = TRUE /\ rows' = {}
      /\ body' = [m \in Msg |-> NoBody]
      /\ UNCHANGED <<stamped, calls>>
  BY DEF Wipe
<1>2. body' \in [Msg -> Body]
  BY <1>1 DEF Body, NoBody
<1>3. \A k \in calls' : CallOK(k)'
  BY <1>1 DEF RowInv, CallOK, EditOK, SendOK, ReactOK
<1> QED
  BY <1>1, <1>2, <1>3 DEF RowInv, SentOnce, RejectedOnlyIfWiped

LEMMA CrashPreserves ==
  ASSUME RowInv, Crash
  PROVE  RowInv'
BY DEF Crash, Restart, RowInv, RowOK, SentOnce, RejectedOnlyIfWiped, tableVars

\* A foreign key rejects the statement of a send or a reaction only after a
\* dissolution.
LEMMA RejectionPreserves ==
  ASSUME RowInv, NEW k \in calls, SendRejected(k) \/ ReactRejected(k)
  PROVE  RowInv'
<1>1. wiped
  BY DEF SendRejected, ReactRejected, RowInv, CallOK, SendOK, ReactOK
<1>2. /\ calls' = {}
      /\ UNCHANGED <<stamped, rows, body, overrun, wiped>>
  BY DEF SendRejected, ReactRejected, Rejected, Restart, tableVars
<1> QED
  BY <1>1, <1>2 DEF RowInv, RowOK, SentOnce, RejectedOnlyIfWiped

-----------------------------------------------------------------------------
(***************************************************************************)
(* All steps.                                                              *)
(***************************************************************************)

\* the requests of clients, and the steps of a call
Request(h, m) ==
  \/ BeginSend(h, m)
  \/ \E u \in Editor, t \in Text : BeginEdit(h, m, u, t)
  \/ \E u \in Editor : BeginUnsend(h, m, u)
  \/ \E u \in Reactor, e \in Emoji \cup {None} : BeginReact(h, m, u, e)

Progress(k) ==
  \/ SendLooks(k) \/ SendCommits(k) \/ SendRejected(k) \/ FinishSend(k)
  \/ WriteLooks(k) \/ EditCommits(k) \/ UnsendCommits(k) \/ FinishWrite(k)
  \/ ReactLooks(k) \/ ReactCommits(k) \/ ReactRejected(k) \/ FinishReact(k)

PageStep == BeginPage \/ PageRows \/ PageRest \/ FinishPage

LEMMA NextSplits ==
  Next => \/ \E h \in Handler, m \in Msg : Request(h, m)
          \/ \E k \in calls : Progress(k)
          \/ PageStep \/ Wipe \/ Crash
BY DEF Next, Request, Progress, PageStep

LEMMA RequestPreserves ==
  ASSUME RowInv, NEW h \in Handler, NEW m \in Msg, Request(h, m)
  PROVE  RowInv'
<1>1. CASE BeginSend(h, m)
  BY <1>1, BeginSendPreserves
<1>2. ASSUME NEW u \in Editor, NEW t \in Text, BeginEdit(h, m, u, t)
      PROVE  RowInv'
  BY <1>2, BeginPreserves, UserAssumption
     DEF BeginEdit, Op, stableVars, tableVars, ghostVars
<1>3. ASSUME NEW u \in Editor, BeginUnsend(h, m, u)
      PROVE  RowInv'
  BY <1>3, BeginPreserves, UserAssumption
     DEF BeginUnsend, Op, stableVars, tableVars, ghostVars
<1>4. ASSUME NEW u \in Reactor, NEW e \in Emoji \cup {None},
             BeginReact(h, m, u, e)
      PROVE  RowInv'
  BY <1>4, BeginPreserves, UserAssumption
     DEF BeginReact, Op, stableVars, tableVars, ghostVars
<1> QED
  BY <1>1, <1>2, <1>3, <1>4 DEF Request

LEMMA ProgressPreserves ==
  ASSUME RowInv, NEW k \in calls, Progress(k)
  PROVE  RowInv'
<1>1. CASE SendLooks(k) \/ SendCommits(k) \/ FinishSend(k)
  BY <1>1, SendLooksPreserves, SendCommitsPreserves, FinishSendPreserves
<1>2. CASE SendRejected(k) \/ ReactRejected(k)
  BY <1>2, RejectionPreserves
<1>3. CASE WriteLooks(k) \/ EditCommits(k) \/ UnsendCommits(k)
  BY <1>3, WriteLooksPreserves, EditCommitsPreserves, UnsendCommitsPreserves
<1>4. CASE ReactLooks(k) \/ ReactCommits(k)
  BY <1>4, ReactLooksPreserves, ReactCommitsPreserves
<1>5. CASE FinishWrite(k) \/ FinishReact(k)
  BY <1>5, FinishPreserves DEF FinishWrite, FinishReact, stableVars, tableVars
<1> QED
  BY <1>1, <1>2, <1>3, <1>4, <1>5 DEF Progress

LEMMA NextPreserves == RowInv /\ [Next]_vars => RowInv'
<1> SUFFICES ASSUME RowInv, [Next]_vars
             PROVE  RowInv'
  OBVIOUS
<1>1. CASE PageStep \/ UNCHANGED vars
  <2>1. UNCHANGED stableVars /\ UNCHANGED calls
    BY <1>1 DEF PageStep, BeginPage, PageRows, PageRest, FinishPage, vars,
                stableVars, tableVars, ghostVars
  <2> QED
    BY <2>1, MoveOn DEF RowInv
<1> QED
  BY <1>1, NextSplits, RequestPreserves, ProgressPreserves, WipePreserves,
     CrashPreserves

\* The invariant holds for any number of overlapping calls.
THEOREM RowInvariance == Spec => []RowInv
BY InitEstablishes, NextPreserves, PTL DEF Spec

\* Content stays on an unsent message only if an edit of it was past its
\* checks when the deletion took effect (chat:edit, message.handler.ts:79).
THEOREM BlankCorrect == Spec => []DeletedIsBlankUnlessOverrun
<1>1. RowInv => DeletedIsBlankUnlessOverrun
  BY DEF RowInv, RowOK, DeletedIsBlankUnlessOverrun
<1> QED
  BY <1>1, RowInvariance, PTL

\* The foreign keys of replies and reactions reject a statement only after
\* the conversation was dissolved (addMessage, applyReaction).
THEOREM RejectionCorrect == Spec => []RejectedOnlyIfWiped
<1>1. RowInv => RejectedOnlyIfWiped
  BY DEF RowInv
<1> QED
  BY <1>1, RowInvariance, PTL

-----------------------------------------------------------------------------
(***************************************************************************)
(* MessageRows implements MessageLife.                                     *)
(***************************************************************************)

\* The life of a message depends on its row and on whether it is being sent.
LEMMA LifeStutters ==
  ASSUME UNCHANGED <<rows, body, stamped>>,
         \A m \in Msg : Sending(m)' <=> Sending(m)
  PROVE  life' = life
BY DEF life

\* Calls of other kinds come and go without a trace.
LEMMA OthersStutter ==
  ASSUME UNCHANGED <<rows, body, stamped>>,
         \A k \in calls' : k \in calls \/ k.op # "send",
         \A k \in calls : k \in calls' \/ k.op # "send" \/ k.pc = "emit"
  PROVE  life' = life
BY LifeStutters DEF Sending

LEMMA LifeInit == Init => Life!Init
BY DEF Init, Life!Init, life

\* An insert is the only step that makes a new message live.
LEMMA SendLife ==
  ASSUME RowInv, NEW k \in calls, SendCommits(k)
  PROVE  Life!Next
<1>1. /\ k \in Call /\ SendOK(k)
      /\ k.op = "send" /\ k.pc = "write"
      /\ rows' = rows \cup {k.m}
      /\ body' = [body EXCEPT ![k.m] = [text |-> Draft, deleted |-> FALSE]]
      /\ calls' = (calls \ {k}) \cup {[k EXCEPT !.pc = "emit"]}
      /\ UNCHANGED stamped
  BY DEF SendCommits, Continue, RowInv, CallOK
<1>2. k.m \in Msg /\ k.m \notin rows
  BY <1>1 DEF SendOK, Call
<1>3. [k EXCEPT !.pc = "emit"].pc = "emit"
  BY <1>1 DEF Call
<1>4. \A m \in Msg \ {k.m} : Sending(m)' <=> Sending(m)
  BY <1>1, <1>3 DEF Sending, Call
<1>5. life[k.m] = "new"
  BY <1>1, <1>2 DEF life, Sending
<1>6. life' = [life EXCEPT ![k.m] = Draft]
  BY <1>1, <1>2, <1>4 DEF life, RowInv
<1>7. Life!Send(k.m)
  BY <1>5, <1>6 DEF Life!Send
<1> QED
  BY <1>2, <1>7 DEF Life!Next

\* An edit of a live message, or none of a deleted or erased one.
LEMMA EditLife ==
  ASSUME RowInv, NEW k \in calls, EditCommits(k)
  PROVE  Life!Next \/ life' = life
<1>1. /\ k \in Call /\ EditOK(k)
      /\ k.op = "edit" /\ k.pc = "write"
      /\ body' = IF k.m \in rows
                   THEN [body EXCEPT ![k.m].text = k.arg] ELSE body
      /\ calls' = (calls \ {k}) \cup {[k EXCEPT !.pc = "emit"]}
      /\ UNCHANGED <<stamped, rows>>
  BY DEF EditCommits, Continue, RowInv, CallOK, Matches, Edited
<1>2. k.m \in Msg /\ k.arg \in Text
  BY <1>1 DEF EditOK, Call
<1>3. [k EXCEPT !.pc = "emit"].op = "edit"
  BY <1>1 DEF Call
<1>4. \A m \in Msg : Sending(m)' <=> Sending(m)
  BY <1>1, <1>3 DEF Sending
<1>5. CASE k.m \in rows /\ ~ body[k.m].deleted
  <2>1. life[k.m] \in Text
    BY <1>2, <1>5 DEF life, RowInv, RowOK
  <2>2. life' = [life EXCEPT ![k.m] = k.arg]
    BY <1>1, <1>2, <1>4, <1>5 DEF life, RowInv, Body
  <2>3. Life!Edit(k.m)
    BY <1>2, <2>1, <2>2 DEF Life!Edit
  <2> QED
    BY <1>2, <2>3 DEF Life!Next
<1>6. CASE k.m \notin rows \/ body[k.m].deleted
  BY <1>1, <1>2, <1>4, <1>6 DEF life, RowInv, Body
<1> QED
  BY <1>5, <1>6

\* An unsending of a live message, or none of another.
LEMMA UnsendLife ==
  ASSUME RowInv, NEW k \in calls, UnsendCommits(k)
  PROVE  Life!Next \/ life' = life
<1>1. /\ k \in Call
      /\ k.op = "unsend" /\ k.pc = "write"
      /\ body' = IF k.m \in rows
                   THEN [body EXCEPT ![k.m] = [text |-> Blank, deleted |-> TRUE]]
                   ELSE body
      /\ calls' = (calls \ {k}) \cup {[k EXCEPT !.pc = "emit"]}
      /\ UNCHANGED <<stamped, rows>>
  BY DEF UnsendCommits, Continue, RowInv, CallOK, Matches, Unsent
<1>2. k.m \in Msg
  BY <1>1 DEF Call
<1>3. [k EXCEPT !.pc = "emit"].op = "unsend"
  BY <1>1 DEF Call
<1>4. \A m \in Msg : Sending(m)' <=> Sending(m)
  BY <1>1, <1>3 DEF Sending
<1>5. CASE k.m \in rows /\ ~ body[k.m].deleted
  <2>1. life[k.m] \in Text
    BY <1>2, <1>5 DEF life, RowInv, RowOK
  <2>2. life' = [life EXCEPT ![k.m] = "unsent"]
    BY <1>1, <1>2, <1>4, <1>5 DEF life, RowInv
  <2>3. Life!Unsend(k.m)
    BY <2>1, <2>2 DEF Life!Unsend
  <2> QED
    BY <1>2, <2>3 DEF Life!Next
<1>6. CASE k.m \notin rows \/ body[k.m].deleted
  BY <1>1, <1>2, <1>4, <1>6 DEF life, RowInv
<1> QED
  BY <1>5, <1>6

\* A dissolution erases the messages that have rows.
LEMMA WipeLife ==
  ASSUME RowInv, Wipe
  PROVE  Life!Next
<1>1. rows' = {} /\ UNCHANGED <<stamped, calls>>
  BY DEF Wipe
<1>2. \A m \in rows : m \in stamped /\ ~ Sending(m)
  BY DEF RowInv, RowOK, CallOK, SendOK, Sending
<1>3. \A m \in Msg : Sending(m)' <=> Sending(m)
  BY <1>1 DEF Sending
<1>4. life' = [m \in Msg |-> IF m \in rows \cap Msg THEN "erased" ELSE life[m]]
  BY <1>1, <1>2, <1>3 DEF life
<1> QED
  BY <1>4 DEF Life!Next, Life!Erase

\* The end of the process erases the messages it was about to insert.
LEMMA CrashLife ==
  ASSUME RowInv, calls' = {}, UNCHANGED <<rows, body, stamped>>
  PROVE  Life!Next
<1> DEFINE lost == {m \in Msg : Sending(m)}
<1>1. \A m \in Msg : ~ Sending(m)'
  BY DEF Sending
<1>2. \A m \in lost : m \in stamped /\ m \notin rows
  BY DEF RowInv, CallOK, SendOK, Sending
<1>3. life' = [m \in Msg |-> IF m \in lost THEN "erased" ELSE life[m]]
  BY <1>1, <1>2 DEF life
<1> QED
  BY <1>3 DEF Life!Next, Life!Erase

\* A message that is stamped is still new.
LEMMA BeginSendLife ==
  ASSUME RowInv, NEW h \in Handler, NEW m \in Msg, BeginSend(h, m)
  PROVE  life' = life
<1> DEFINE new == [h |-> h, op |-> "send",
                   pc |-> IF Parent[m] = None THEN "write" ELSE "look",
                   m |-> m, by |-> Sender[m], arg |-> None]
<1>1. /\ m \notin stamped /\ m \notin rows
      /\ stamped' = stamped \cup {m}
      /\ calls' = calls \cup {new}
      /\ UNCHANGED <<rows, body>>
  BY DEF BeginSend, Begin, tableVars, RowInv, RowOK
<1>2. Sending(m)'
  <2>1. /\ new \in calls' /\ new.m = m /\ new.op = "send"
        /\ new.pc \in {"look", "write"}
    BY <1>1
  <2> QED
    BY <2>1 DEF Sending
<1>3. \A x \in Msg \ {m} : Sending(x)' <=> Sending(x)
  BY <1>1 DEF Sending
<1> QED
  BY <1>1, <1>2, <1>3 DEF life

LEMMA SendLooksLife ==
  ASSUME RowInv, NEW k \in calls, SendLooks(k)
  PROVE  life' = life
<1> DEFINE j == [k EXCEPT !.pc = "write", !.arg = Link(k.m)]
<1>1. /\ k \in Call /\ k.op = "send" /\ k.pc = "look"
      /\ calls' = (calls \ {k}) \cup {j}
      /\ UNCHANGED <<rows, body, stamped>>
  BY DEF SendLooks, RowInv, CallOK, tableVars
<1>2. j.op = "send" /\ j.m = k.m /\ j.pc = "write"
  BY <1>1 DEF Call
<1>3. \A m \in Msg : Sending(m)' <=> Sending(m)
  BY <1>1, <1>2 DEF Sending
<1> QED
  BY <1>1, <1>3, LifeStutters

\* The other steps of calls.
LEMMA OtherCallsLife ==
  ASSUME RowInv, NEW k \in calls,
         \/ FinishSend(k) \/ WriteLooks(k) \/ FinishWrite(k)
         \/ ReactLooks(k) \/ ReactCommits(k) \/ FinishReact(k)
  PROVE  life' = life
<1>1. k \in Call /\ UNCHANGED <<rows, body, stamped>>
  BY DEF FinishSend, WriteLooks, FinishWrite, ReactLooks, ReactCommits,
         FinishReact, tableVars, RowInv, CallOK
<1>2. CASE Finish(k) /\ (k.op # "send" \/ k.pc = "emit")
  BY <1>1, <1>2, OthersStutter DEF Finish
<1>3. ASSUME NEW pc, Continue(k, pc), k.op # "send"
      PROVE  life' = life
  <2>1. [k EXCEPT !.pc = pc].op # "send"
    BY <1>1, <1>3 DEF Call
  <2> QED
    BY <1>1, <1>3, <2>1, OthersStutter DEF Continue
<1>4. CASE FinishSend(k) \/ FinishWrite(k) \/ FinishReact(k)
  BY <1>2, <1>4 DEF FinishSend, FinishWrite, FinishReact, MayEmit
<1>5. CASE WriteLooks(k)
  <2>1. k.op # "send"
    BY <1>5 DEF WriteLooks
  <2> QED
    BY <1>2, <1>3, <1>5, <2>1 DEF WriteLooks
<1>6. CASE ReactLooks(k) \/ ReactCommits(k)
  <2>1. k.op # "send"
    BY <1>6 DEF ReactLooks, ReactCommits
  <2> QED
    BY <1>2, <1>3, <1>6, <2>1 DEF ReactLooks, ReactCommits
<1> QED
  BY <1>4, <1>5, <1>6

LEMMA LifeStep == RowInv /\ [Next]_vars => [Life!Next]_life
<1> SUFFICES ASSUME RowInv, [Next]_vars
             PROVE  Life!Next \/ life' = life
  OBVIOUS
<1>1. ASSUME NEW h \in Handler, NEW m \in Msg, Request(h, m)
      PROVE  life' = life
  <2>1. CASE BeginSend(h, m)
    BY <2>1, BeginSendLife
  <2>2. ASSUME NEW op \in Op \ {"send"}, NEW u, NEW arg,
               Begin(h, op, "look", m, u, arg),
               UNCHANGED <<rows, body, stamped>>
        PROVE  life' = life
    BY <2>2, OthersStutter DEF Begin
  <2> QED
    BY <1>1, <2>1, <2>2
       DEF Request, BeginEdit, BeginUnsend, BeginReact, tableVars, Op
<1>2. ASSUME NEW k \in calls, Progress(k)
      PROVE  Life!Next \/ life' = life
  <2>1. CASE SendLooks(k) \/ SendCommits(k)
    BY <2>1, SendLooksLife, SendLife
  <2>2. CASE EditCommits(k) \/ UnsendCommits(k)
    BY <2>2, EditLife, UnsendLife
  <2>3. CASE SendRejected(k) \/ ReactRejected(k)
    BY <2>3, CrashLife
       DEF SendRejected, ReactRejected, Rejected, Restart, tableVars
  <2>4. CASE \/ FinishSend(k) \/ WriteLooks(k) \/ FinishWrite(k)
             \/ ReactLooks(k) \/ ReactCommits(k) \/ FinishReact(k)
    BY <2>4, OtherCallsLife
  <2> QED
    BY <1>2, <2>1, <2>2, <2>3, <2>4 DEF Progress
<1>3. CASE PageStep \/ UNCHANGED vars
  BY <1>3, OthersStutter
     DEF PageStep, BeginPage, PageRows, PageRest, FinishPage, vars, tableVars
<1>4. CASE Wipe
  BY <1>4, WipeLife
<1>5. CASE Crash
  BY <1>5, CrashLife DEF Crash, Restart, tableVars
<1> QED
  BY <1>1, <1>2, <1>3, <1>4, <1>5, NextSplits

\* Whatever sends, edits, unsends, dissolutions and restarts overlap, each
\* message is sent once, edited until it is unsent, and stays unsent or
\* erased.
THEOREM ImplementsLife == Spec => LifeSpec
BY LifeInit, LifeStep, RowInvariance, PTL DEF Spec, LifeSpec, Life!Spec

-----------------------------------------------------------------------------
(***************************************************************************)
(* What the client was told, against what is stored.  Of a message or a    *)
(* reaction that is not among the exceptions, either the client was told   *)
(* what is stored, or one broadcast is to come that says it.               *)
(***************************************************************************)

\* Whatever a client, a page or a handler other than chat:message knows of
\* has been inserted, so that a message without a row will not get one.
Inserted(m) == m \in stamped /\ ~ Sending(m)

\* the types that RowInv leaves out
Types ==
  /\ reaction \in Reactions
  /\ page \in Page
  /\ told \in [Msg -> Body]
  /\ toldReact \in Reactions
  /\ crossed \subseteq Msg
  /\ crossedBy \subseteq Msg \X User
  /\ overrun \subseteq Msg
  /\ wiped \in BOOLEAN
  /\ rejected \subseteq Op

Seen ==
  /\ \A m \in known \cup page.ids : Inserted(m)
  /\ \A k \in calls :
       /\ k.op # "send" => Inserted(k.m)
       /\ k.op = "react" => k.by \in User /\ k.arg \in Emoji \cup {None}

\* what messages without a row, or unknown to the client, have
Absent ==
  /\ \A m \in Msg \ rows : body[m] = NoBody /\ reaction[m] = NoReactions[m]
  /\ \A m \in Msg \ known : told[m] = NoBody

TypeInv == Types /\ Seen /\ Absent

\* broadcasts to come about the content of m, and what they say
Emits(m) == {k \in calls : k.m = m /\ k.pc = "emit" /\ k.op # "react"}

Says(k) ==
  IF k.op = "send" THEN [text |-> Draft, deleted |-> FALSE]
  ELSE IF k.op = "edit" THEN [text |-> k.arg, deleted |-> FALSE]
  ELSE [text |-> Blank, deleted |-> TRUE]

\* the page in flight has a version of m
PageHas(m) == page.pc \in {"rest", "reply"} /\ m \in page.ids

ContentOK(m) ==
  m \in rows /\ m \notin crossed \cup overrun =>
    /\ \A j, k \in Emits(m) : j = k
    /\ \A k \in Emits(m) : Says(k) = body[m]
    /\ Emits(m) = {} /\ m \in known => told[m] = body[m]

\* Nobody takes a message for unsent before it is; and a page does not take
\* back that it was, except for a message whose broadcasts it crossed.
DeletedOK(m) ==
  m \in rows =>
    /\ told[m].deleted => body[m].deleted
    /\ \A k \in Emits(m) : k.op = "unsend" => body[m].deleted
    /\ PageHas(m) /\ page.body[m].deleted => body[m].deleted
    /\ PageHas(m) /\ told[m].deleted =>
         page.body[m].deleted \/ m \in crossed \cup overrun

\* The page's version is the stored one, or else the broadcast of the write
\* it misses is to come or has crossed it.
PageOK(m) ==
  /\ m \in rows /\ PageHas(m) /\ m \notin page.old => page.body[m] = body[m]
  /\ m \in page.old =>
       m \in crossed \/ \E k \in Emits(m) : k.op \in {"edit", "unsend"}

ContentInv == \A m \in Msg : ContentOK(m) /\ DeletedOK(m) /\ PageOK(m)

\* The same for the reaction of u to m, about which chat:message says there
\* is none.
Answers(m, u) ==
  {k \in calls : /\ k.m = m /\ k.pc = "emit"
                 /\ k.op = "send" \/ (k.op = "react" /\ k.by = u)}

Reaction(k) == IF k.op = "send" THEN None ELSE k.arg

ReactionOK(m, u) ==
  m \in rows /\ <<m, u>> \notin crossedBy =>
    /\ \A j, k \in Answers(m, u) : j = k
    /\ \A k \in Answers(m, u) : Reaction(k) = reaction[m][u]
    /\ Answers(m, u) = {} /\ m \in known => toldReact[m][u] = reaction[m][u]

PageReactionOK(m, u) ==
  /\ m \in rows /\ page.pc = "reply" /\ m \in page.ids /\ <<m, u>> \notin page.oldBy
       => page.reaction[m][u] = reaction[m][u]
  /\ <<m, u>> \in page.oldBy =>
       <<m, u>> \in crossedBy \/ \E k \in Answers(m, u) : k.op = "react"

ReactionInv ==
  \A m \in Msg, u \in User : ReactionOK(m, u) /\ PageReactionOK(m, u)

-----------------------------------------------------------------------------
(***************************************************************************)
(* Types, and what is inserted.                                            *)
(***************************************************************************)

\* The calls a request or the step of a call leaves.
LEMMA RequestCalls ==
  ASSUME NEW h \in Handler, NEW m \in Msg, Request(h, m), NEW c \in calls'
  PROVE  \/ c \in calls
         \/ c.m = m /\ c.op = "send" /\ m \notin stamped /\ c.pc # "emit"
         \/ /\ c.m = m /\ c.op # "send" /\ c.pc = "look" /\ m \in rows \cup known
            /\ c.op = "react" => c.by \in User /\ c.arg \in Emoji \cup {None}
<1>1. CASE BeginSend(h, m)
  BY <1>1 DEF BeginSend, Begin
<1>2. ASSUME NEW u \in Editor, NEW t \in Text, BeginEdit(h, m, u, t)
      PROVE  \/ c \in calls
             \/ c.m = m /\ c.op = "edit" /\ c.pc = "look" /\ m \in rows \cup known
  BY <1>2 DEF BeginEdit, Begin, Mentionable
<1>3. ASSUME NEW u \in Editor, BeginUnsend(h, m, u)
      PROVE  \/ c \in calls
             \/ c.m = m /\ c.op = "unsend" /\ c.pc = "look" /\ m \in rows \cup known
  BY <1>3 DEF BeginUnsend, Begin, Mentionable
<1>4. ASSUME NEW u \in Reactor, NEW e \in Emoji \cup {None},
             BeginReact(h, m, u, e)
      PROVE  \/ c \in calls
             \/ /\ c.m = m /\ c.op = "react" /\ c.pc = "look" /\ m \in rows \cup known
                /\ c.by \in User /\ c.arg \in Emoji \cup {None}
  BY <1>4, UserAssumption DEF BeginReact, Begin, Mentionable
<1> QED
  BY <1>1, <1>2, <1>3, <1>4 DEF Request

LEMMA ProgressCalls ==
  ASSUME RowInv, NEW k \in calls, Progress(k), NEW c \in calls'
  PROVE  \/ c \in calls
         \/ /\ c.op = k.op /\ c.m = k.m /\ c.by = k.by
            /\ k.op # "send" => c.arg = k.arg
            /\ k.op = "send" /\ c.pc # "emit" => k.pc = "look"
<1>1. k \in Call
  BY DEF RowInv, CallOK
<1>2. ASSUME NEW pc, Continue(k, pc), k.op = "send" => pc = "emit"
      PROVE  c \in calls \/ /\ c.op = k.op /\ c.m = k.m /\ c.by = k.by
                            /\ c.arg = k.arg
                            /\ k.op = "send" => c.pc = "emit"
  <2>1. CASE c = [k EXCEPT !.pc = pc]
    BY <1>1, <1>2, <2>1 DEF Call
  <2> QED
    BY <1>2, <2>1 DEF Continue
<1>3. CASE Finish(k)
  BY <1>3 DEF Finish
<1>4. CASE calls' = {}
  BY <1>4
<1>5. CASE SendLooks(k)
  <2>1. CASE c = [k EXCEPT !.pc = "write", !.arg = Link(k.m)]
    BY <1>1, <1>5, <2>1 DEF Call, SendLooks
  <2> QED
    BY <1>5, <2>1 DEF SendLooks
<1>6. CASE SendRejected(k) \/ ReactRejected(k)
  BY <1>4, <1>6 DEF SendRejected, ReactRejected, Rejected, Restart
<1>7. CASE FinishSend(k) \/ FinishWrite(k) \/ FinishReact(k)
  BY <1>3, <1>7 DEF FinishSend, FinishWrite, FinishReact
<1>8. CASE SendCommits(k)
  BY <1>2, <1>8 DEF SendCommits
<1>9. CASE EditCommits(k) \/ UnsendCommits(k) \/ ReactCommits(k)
  BY <1>2, <1>9 DEF EditCommits, UnsendCommits, ReactCommits
<1>10. CASE WriteLooks(k) \/ ReactLooks(k)
  BY <1>2, <1>3, <1>10 DEF WriteLooks, ReactLooks
<1> QED
  BY <1>5, <1>6, <1>7, <1>8, <1>9, <1>10 DEF Progress

\* The other steps start no call.
LEMMA OtherCalls ==
  ASSUME PageStep \/ Wipe \/ Crash \/ UNCHANGED vars
  PROVE  calls' \subseteq calls /\ UNCHANGED stamped
BY DEF PageStep, BeginPage, PageRows, PageRest, FinishPage, Wipe, Crash,
       Restart, vars

LEMMA StampedGrows ==
  ASSUME [Next]_vars
  PROVE  stamped \subseteq stamped'
<1>1. ASSUME NEW h \in Handler, NEW m \in Msg, Request(h, m)
      PROVE  stamped \subseteq stamped'
  BY <1>1 DEF Request, BeginSend, BeginEdit, BeginUnsend, BeginReact
<1>2. ASSUME NEW k \in calls, Progress(k)
      PROVE  UNCHANGED stamped
  BY <1>2 DEF Progress, SendLooks, SendCommits, SendRejected, FinishSend,
              WriteLooks, EditCommits, UnsendCommits, FinishWrite, ReactLooks,
              ReactCommits, ReactRejected, FinishReact, Rejected
<1> QED
  BY <1>1, <1>2, NextSplits, OtherCalls

\* A message is inserted at most once: its id is never stamped again.
LEMMA InsertedForever ==
  ASSUME RowInv, [Next]_vars, NEW m, Inserted(m)
  PROVE  Inserted(m)'
<1>1. m \in stamped'
  BY StampedGrows DEF Inserted
<1>2. ASSUME NEW c \in calls', c.m = m, c.op = "send", c.pc \in {"look", "write"}
      PROVE  FALSE
  <2>1. c \notin calls
    BY <1>2 DEF Inserted, Sending
  <2>2. ASSUME NEW h \in Handler, NEW x \in Msg, Request(h, x)
        PROVE  FALSE
    BY <1>2, <2>1, <2>2, RequestCalls DEF Inserted
  <2>3. ASSUME NEW k \in calls, Progress(k)
        PROVE  FALSE
    <3>1. k.m = m /\ k.op = "send" /\ k.pc = "look"
      BY <1>2, <2>1, <2>3, ProgressCalls
    <3> QED
      BY <3>1 DEF Inserted, Sending
  <2> QED
    BY <2>1, <2>2, <2>3, NextSplits, OtherCalls
<1> QED
  BY <1>1, <1>2 DEF Inserted, Sending

\* So it is, once it has a row or its insert is broadcast.
LEMMA RowsInserted ==
  ASSUME RowInv, NEW m \in rows
  PROVE  Inserted(m)
BY DEF RowInv, RowOK, CallOK, SendOK, Inserted, Sending

LEMMA SentInserted ==
  ASSUME RowInv, NEW k \in calls, k.op = "send", k.pc = "emit"
  PROVE  Inserted(k.m)
BY DEF RowInv, CallOK, SendOK, SentOnce, Inserted, Sending

\* What the client is sent is in a page, was read for one, or is broadcast by
\* the call that inserted it.
LEMMA SeenGrows ==
  ASSUME Types, [Next]_vars, NEW m \in known' \cup page'.ids
  PROVE  \/ m \in known \cup page.ids \cup rows
         \/ \E k \in calls : k.op = "send" /\ k.pc = "emit" /\ k.m = m
<1>1. ASSUME NEW h \in Handler, NEW x \in Msg, Request(h, x)
      PROVE  UNCHANGED <<known, page>>
  BY <1>1 DEF Request, BeginSend, BeginEdit, BeginUnsend, BeginReact,
              clientVars
<1>2. ASSUME NEW k \in calls, Progress(k)
      PROVE  \/ known' = known /\ page'.ids = page.ids
             \/ known' = {} /\ page'.ids = {}
             \/ known' = known \cup {k.m} /\ k.op = "send" /\ k.pc = "emit"
                /\ page'.ids = page.ids
  <2>1. CASE SendRejected(k) \/ ReactRejected(k)
    BY <2>1 DEF SendRejected, ReactRejected, Rejected, Restart, NoPage
  <2>2. CASE FinishSend(k)
    BY <2>2 DEF FinishSend, MayEmit
  <2>3. CASE EditCommits(k) \/ UnsendCommits(k)
    BY <2>3 DEF EditCommits, UnsendCommits, NoteWrite, clientVars, Types, Page
  <2>4. CASE ReactCommits(k)
    BY <2>4 DEF ReactCommits, NoteReaction, clientVars, Types, Page
  <2>5. CASE \/ SendLooks(k) \/ SendCommits(k) \/ WriteLooks(k)
             \/ FinishWrite(k) \/ ReactLooks(k) \/ FinishReact(k)
    BY <2>5 DEF SendLooks, SendCommits, WriteLooks, FinishWrite, ReactLooks,
                FinishReact, clientVars
  <2> QED
    BY <1>2, <2>1, <2>2, <2>3, <2>4, <2>5 DEF Progress
<1>3. CASE PageStep
  <2>1. page'.ids \subseteq page.ids \cup rows /\ known' \subseteq known \cup page.ids
    <3>1. CASE BeginPage \/ PageRest
      BY <3>1 DEF BeginPage, PageRest, clientVars, Types, Page
    <3>2. CASE PageRows
      BY <3>2 DEF PageRows, clientVars, Types, Page
    <3>3. CASE FinishPage
      BY <3>3 DEF FinishPage, NoPage
    <3> QED
      BY <1>3, <3>1, <3>2, <3>3 DEF PageStep
  <2> QED
    BY <2>1
<1>4. CASE Wipe \/ UNCHANGED vars
  BY <1>4 DEF Wipe, vars, clientVars
<1>5. CASE Crash
  BY <1>5 DEF Crash, Restart, NoPage
<1> QED
  BY <1>1, <1>2, <1>3, <1>4, <1>5, NextSplits

LEMMA SeenStep ==
  ASSUME RowInv, Types, Seen, [Next]_vars
  PROVE  Seen'
<1>1. ASSUME NEW m \in known' \cup page'.ids
      PROVE  Inserted(m)
  BY <1>1, SeenGrows, RowsInserted, SentInserted DEF Seen
<1>2. ASSUME NEW c \in calls'
      PROVE  /\ c.op # "send" => Inserted(c.m)
             /\ c.op = "react" => c.by \in User /\ c.arg \in Emoji \cup {None}
  <2>1. ASSUME NEW h \in Handler, NEW x \in Msg, Request(h, x)
        PROVE  <1>2!2
    BY <2>1, RequestCalls, RowsInserted DEF Seen
  <2>2. ASSUME NEW k \in calls, Progress(k)
        PROVE  <1>2!2
    BY <2>2, ProgressCalls DEF Seen
  <2> QED
    BY <2>1, <2>2, NextSplits, OtherCalls DEF Seen
<1> QED
  BY <1>1, <1>2, InsertedForever DEF Seen

\* The versions of messages and reactions stay what their types say.
LEMMA TypesStep ==
  ASSUME RowInv, TypeInv, [Next]_vars
  PROVE  Types'
<1>1. body \in [Msg -> Body] /\ rows \in SUBSET Msg
  BY DEF RowInv, RowOK
<1>2. NoBody \in Body /\ NoReactions \in Reactions /\ NoPage \in Page
  BY DEF NoBody, Body, NoReactions, Reactions, NoPage, Page
<1>3. Types
  BY DEF TypeInv
<1>4. ASSUME NEW h \in Handler, NEW m \in Msg, Request(h, m)
      PROVE  Types'
  BY <1>3, <1>4 DEF Request, BeginSend, BeginEdit, BeginUnsend, BeginReact,
     clientVars, tableVars, ghostVars, Types
<1>5. ASSUME NEW k \in calls, Progress(k)
      PROVE  Types'
  <2>1. k \in Call /\ k.m \in Msg /\ k.op \in Op /\ EditOK(k)
    BY DEF RowInv, CallOK, Call
  <2>2. k.op = "react" => k.by \in User /\ k.arg \in Emoji \cup {None}
    BY DEF TypeInv, Seen
  <2>3. CASE SendRejected(k) \/ ReactRejected(k)
    BY <1>2, <1>3, <2>1, <2>3
       DEF SendRejected, ReactRejected, Rejected, Restart, tableVars, Types
  <2>4. CASE FinishSend(k)
    <3>1. told' \in [Msg -> Body]
      BY <1>3, <2>1, <2>4, MessageAssumption DEF FinishSend, Types, Body
    <3>2. toldReact' \in Reactions
      BY <1>2, <1>3, <2>1, <2>4 DEF FinishSend, Types, Reactions
    <3> QED
      BY <1>3, <2>4, <3>1, <3>2 DEF FinishSend, Types, tableVars, ghostVars
  <2>5. CASE EditCommits(k) \/ UnsendCommits(k)
    <3>1. page' \in Page
      BY <1>3, <2>1, <2>5
         DEF EditCommits, UnsendCommits, NoteWrite, Types, Page
    <3>2. crossed' \subseteq Msg /\ overrun' \subseteq Msg
      BY <1>3, <2>1, <2>5
         DEF EditCommits, UnsendCommits, NoteWrite, Types
    <3> QED
      BY <1>3, <2>5, <3>1, <3>2
         DEF EditCommits, UnsendCommits, Types, clientVars
  <2>6. CASE ReactCommits(k)
    <3>1. k.op = "react" /\ k.by \in User /\ k.arg \in Emoji \cup {None}
      BY <2>2, <2>6 DEF ReactCommits
    <3>2. reaction' \in Reactions
      BY <1>3, <2>1, <2>6, <3>1 DEF ReactCommits, Types, Reactions
    <3>3. page' \in Page
      BY <1>3, <2>1, <2>6, <3>1 DEF ReactCommits, NoteReaction, Types, Page
    <3>4. crossedBy' \subseteq Msg \X User
      BY <1>3, <2>1, <2>6, <3>1 DEF ReactCommits, NoteReaction, Types
    <3> QED
      BY <1>3, <2>6, <3>2, <3>3, <3>4 DEF ReactCommits, Types, clientVars
  <2>7. CASE FinishWrite(k)
    <3>1. told' \in [Msg -> Body]
      BY <1>3, <2>1, <2>7 DEF FinishWrite, Types, Body, EditOK
    <3>2. crossed' \subseteq Msg
      BY <1>3, <2>1, <2>7 DEF FinishWrite, Types
    <3> QED
      BY <1>3, <2>7, <3>1, <3>2 DEF FinishWrite, Types, tableVars
  <2>8. CASE FinishReact(k)
    <3>1. k.op = "react" /\ k.by \in User /\ k.arg \in Emoji \cup {None}
      BY <2>2, <2>8 DEF FinishReact
    <3>2. toldReact' \in Reactions
      BY <1>3, <2>1, <2>8, <3>1 DEF FinishReact, Types, Reactions
    <3>3. crossedBy' \subseteq Msg \X User
      BY <1>3, <2>1, <2>8, <3>1 DEF FinishReact, Types
    <3> QED
      BY <1>3, <2>8, <3>2, <3>3 DEF FinishReact, Types, tableVars
  <2>9. CASE SendLooks(k) \/ SendCommits(k) \/ WriteLooks(k) \/ ReactLooks(k)
    BY <1>3, <2>9 DEF SendLooks, SendCommits, WriteLooks, ReactLooks,
       clientVars, tableVars, ghostVars, Types
  <2> QED
    BY <1>5, <2>3, <2>4, <2>5, <2>6, <2>7, <2>8, <2>9 DEF Progress
<1>6. CASE PageStep
  <2>1. CASE BeginPage \/ PageRest
    <3>1. page' \in Page
      BY <1>3, <2>1 DEF BeginPage, PageRest, PageReactions, Types, Page
    <3> QED
      BY <1>3, <2>1, <3>1
         DEF BeginPage, PageRest, Types, tableVars, clientVars, ghostVars
  <2>2. CASE PageRows
    <3>1. page' \in Page
      BY <1>1, <1>3, <2>2 DEF PageRows, Types, Page
    <3> QED
      BY <1>3, <2>2, <3>1
         DEF PageRows, Types, tableVars, clientVars, ghostVars
  <2>3. CASE FinishPage
    <3>1. told' \in [Msg -> Body]
      BY <1>3, <2>3 DEF FinishPage, Types, Page
    <3>2. toldReact' \in Reactions
      BY <1>3, <2>3 DEF FinishPage, Types, Page, Reactions
    <3> QED
      BY <1>2, <1>3, <2>3, <3>1, <3>2 DEF FinishPage, Types, tableVars
  <2> QED
    BY <1>6, <2>1, <2>2, <2>3 DEF PageStep
<1>7. CASE Wipe
  BY <1>2, <1>3, <1>7 DEF Wipe, Types, clientVars
<1>8. CASE Crash
  BY <1>2, <1>3, <1>8 DEF Crash, Restart, Types, tableVars
<1>9. CASE UNCHANGED vars
  BY <1>3, <1>9 DEF vars, clientVars, tableVars, ghostVars, Types
<1> QED
  BY <1>4, <1>5, <1>6, <1>7, <1>8, <1>9, NextSplits

\* No statement leaves content or a reaction without a row.
LEMMA AbsentStep ==
  ASSUME RowInv, TypeInv, [Next]_vars
  PROVE  Absent'
<1>1. Absent /\ Types
  BY DEF TypeInv
<1>2. ASSUME NEW h \in Handler, NEW m \in Msg, Request(h, m)
      PROVE  Absent'
  BY <1>1, <1>2 DEF Request, BeginSend, BeginEdit, BeginUnsend, BeginReact,
     clientVars, tableVars, Absent
<1>3. ASSUME NEW k \in calls, Progress(k)
      PROVE  Absent'
  <2>1. k \in Call /\ k.m \in Msg
    BY DEF RowInv, CallOK, Call
  <2>2. CASE SendRejected(k) \/ ReactRejected(k)
    BY <1>1, <2>2
       DEF SendRejected, ReactRejected, Rejected, Restart, tableVars, Absent
  <2>3. CASE SendCommits(k)
    BY <1>1, <2>1, <2>3 DEF SendCommits, Absent, clientVars, RowInv
  <2>4. CASE EditCommits(k) \/ UnsendCommits(k)
    <3>1. \A m \in Msg \ rows : body'[m] = body[m]
      BY <2>1, <2>4 DEF EditCommits, UnsendCommits, Matches, RowInv
    <3> QED
      BY <1>1, <2>4, <3>1 DEF EditCommits, UnsendCommits, Absent, clientVars
  <2>5. CASE ReactCommits(k)
    <3>1. k.m \in rows \/ k.arg = None
      BY <2>5 DEF ReactCommits
    <3>2. reaction' = [reaction EXCEPT ![k.m][k.by] = k.arg]
      BY <2>5 DEF ReactCommits
    <3>3. ASSUME NEW m \in Msg \ rows
          PROVE  reaction'[m] = NoReactions[m]
      <4>1. reaction[m] = [u \in User |-> None]
        BY <1>1 DEF Absent, NoReactions
      <4>2. m # k.m => reaction'[m] = reaction[m]
        BY <1>1, <3>2 DEF Types, Reactions
      <4>3. m = k.m => reaction'[m] = [reaction[m] EXCEPT ![k.by] = None]
        BY <1>1, <3>1, <3>2 DEF Types, Reactions
      <4>4. [[u \in User |-> None] EXCEPT ![k.by] = None] = [u \in User |-> None]
        OBVIOUS
      <4> QED
        BY <4>1, <4>2, <4>3, <4>4 DEF NoReactions
    <3> QED
      BY <1>1, <2>5, <3>3 DEF ReactCommits, Absent, clientVars
  <2>6. CASE FinishSend(k)
    BY <1>1, <2>1, <2>6 DEF FinishSend, Absent, tableVars, Types
  <2>7. CASE FinishWrite(k)
    BY <1>1, <2>1, <2>7 DEF FinishWrite, Absent, tableVars, Types
  <2>8. CASE \/ SendLooks(k) \/ WriteLooks(k) \/ ReactLooks(k) \/ FinishReact(k)
    BY <1>1, <2>8 DEF SendLooks, WriteLooks, ReactLooks, FinishReact,
       clientVars, tableVars, Absent
  <2> QED
    BY <1>3, <2>2, <2>3, <2>4, <2>5, <2>6, <2>7, <2>8 DEF Progress
<1>4. CASE PageStep
  <2>1. CASE FinishPage
    BY <1>1, <2>1 DEF FinishPage, Absent, tableVars, Types
  <2> QED
    BY <1>1, <1>4, <2>1
       DEF PageStep, BeginPage, PageRows, PageRest, clientVars, tableVars, Absent
<1>5. CASE Wipe
  BY <1>1, <1>5 DEF Wipe, clientVars, Absent
<1>6. CASE Crash
  BY <1>1, <1>6 DEF Crash, Restart, tableVars, Absent
<1>7. CASE UNCHANGED vars
  BY <1>1, <1>7 DEF vars, clientVars, tableVars, Absent
<1> QED
  BY <1>2, <1>3, <1>4, <1>5, <1>6, <1>7, NextSplits

LEMMA TypeInvInit == Init => TypeInv
<1> SUFFICES ASSUME Init PROVE TypeInv
  OBVIOUS
<1>1. NoBody \in Body /\ NoReactions \in Reactions /\ NoPage \in Page
  BY DEF NoBody, Body, NoReactions, Reactions, NoPage, Page
<1>2. Types
  BY <1>1 DEF Init, Types
<1>3. Seen
  BY DEF Init, Seen, NoPage
<1>4. Absent
  BY DEF Init, Absent
<1> QED
  BY <1>2, <1>3, <1>4 DEF TypeInv

LEMMA TypeInvStep ==
  ASSUME RowInv, TypeInv, [Next]_vars
  PROVE  TypeInv'
BY SeenStep, TypesStep, AbsentStep DEF TypeInv

THEOREM TypeInvariance == Spec => []TypeInv
BY RowInvariance, TypeInvInit, TypeInvStep, PTL DEF Spec

\* The state has its types; a message without a row has no content, mark or
\* reaction, whatever statements came too late for it (updateMany,
\* deleteMany and the upsert of applyReaction).
THEOREM TypeCorrect == Spec => []TypeOK
<1>1. ASSUME RowInv, TypeInv PROVE TypeOK
  <2>1. rows \subseteq stamped /\ known \subseteq stamped
    BY <1>1 DEF RowInv, RowOK, TypeInv, Seen, Inserted
  <2>2. calls \subseteq Call
    BY <1>1 DEF RowInv, CallOK
  <2> QED
    BY <1>1, <2>1, <2>2 DEF TypeOK, RowInv, TypeInv, Types, Absent
<1> QED
  BY <1>1, RowInvariance, TypeInvariance, PTL

-----------------------------------------------------------------------------
(***************************************************************************)
(* What is said of content.                                                *)
(***************************************************************************)
MessageOK(m) == ContentOK(m) /\ DeletedOK(m) /\ PageOK(m)

\* Steps that do not concern m: its row, what was said of it and what is to
\* be said stay; it may join the exceptions.
LEMMA ContentFrame ==
  ASSUME NEW m, MessageOK(m),
         m \in rows' => m \in rows,
         body'[m] = body[m], told'[m] = told[m],
         m \in known' => m \in known,
         m \in crossed => m \in crossed', m \in overrun => m \in overrun',
         \A k \in Emits(m) : k \in calls',
         \A k \in calls' : k.m = m /\ k.pc = "emit" /\ k.op # "react" =>
                             k \in calls \/ m \notin rows,
         PageHas(m)' => PageHas(m) /\ page'.body[m] = page.body[m],
         m \in page'.old <=> m \in page.old
  PROVE  MessageOK(m)'
<1>1. Emits(m) \subseteq Emits(m)'
  BY DEF Emits
<1>2. m \in rows => Emits(m)' = Emits(m)
  BY <1>1 DEF Emits
<1>3. ContentOK(m)'
  BY <1>2 DEF MessageOK, ContentOK
<1>4. DeletedOK(m)'
  BY <1>2 DEF MessageOK, DeletedOK
<1>5. PageOK(m)'
  BY <1>1 DEF MessageOK, PageOK
<1> QED
  BY <1>3, <1>4, <1>5 DEF MessageOK

\* The same of a step that leaves the table, the client and the page alone.
contentVars == <<rows, body, page, known, told, crossed, overrun>>

LEMMA CallsFrame ==
  ASSUME \A m \in Msg : MessageOK(m), UNCHANGED contentVars,
         \A k \in calls : k.pc = "emit" /\ k.op # "react" => k \in calls',
         \A k \in calls' : k.pc = "emit" /\ k.op # "react" =>
                             k \in calls \/ k.m \notin rows
  PROVE  \A m \in Msg : MessageOK(m)'
<1> SUFFICES ASSUME NEW m \in Msg PROVE MessageOK(m)'
  OBVIOUS
<1>1. MessageOK(m)
  OBVIOUS
<1>2. /\ \A k \in Emits(m) : k \in calls'
      /\ \A k \in calls' : k.m = m /\ k.pc = "emit" /\ k.op # "react" =>
                             k \in calls \/ m \notin rows
  BY DEF Emits
<1>3. /\ PageHas(m)' => PageHas(m) /\ page'.body[m] = page.body[m]
      /\ m \in page'.old <=> m \in page.old
      /\ m \in rows' => m \in rows
      /\ body'[m] = body[m] /\ told'[m] = told[m]
      /\ m \in known' => m \in known
      /\ m \in crossed => m \in crossed'
      /\ m \in overrun => m \in overrun'
  BY DEF contentVars, PageHas
<1> QED
  BY <1>1, <1>2, <1>3, ContentFrame

LEMMA RequestContent ==
  ASSUME \A m \in Msg : MessageOK(m), NEW h \in Handler, NEW x \in Msg,
         Request(h, x)
  PROVE  \A m \in Msg : MessageOK(m)'
<1>1. UNCHANGED contentVars /\ calls \subseteq calls'
  BY DEF Request, BeginSend, BeginEdit, BeginUnsend, BeginReact, Begin,
         contentVars, clientVars, tableVars, ghostVars
<1>2. \A c \in calls' : c.pc = "emit" => c \in calls
  BY RequestCalls
<1> QED
  BY <1>1, <1>2, CallsFrame

\* Lookups, and a reaction that is broadcast.
LEMMA LookContent ==
  ASSUME RowInv, \A m \in Msg : MessageOK(m), NEW k \in calls,
         SendLooks(k) \/ WriteLooks(k) \/ ReactLooks(k) \/ FinishReact(k)
  PROVE  \A m \in Msg : MessageOK(m)'
<1>1. k \in Call
  BY DEF RowInv, CallOK
<1>2. CASE Finish(k) /\ UNCHANGED contentVars /\ (k.pc # "emit" \/ k.op = "react")
  BY <1>2, CallsFrame DEF Finish
<1>3. ASSUME NEW pc, Continue(k, pc), UNCHANGED contentVars, k.pc = "look",
             pc # "emit" \/ k.m \notin rows
      PROVE  \A m \in Msg : MessageOK(m)'
  <2>1. [k EXCEPT !.pc = pc].m = k.m /\ [k EXCEPT !.pc = pc].pc = pc
    BY <1>1 DEF Call
  <2> QED
    BY <1>3, <2>1, CallsFrame DEF Continue
<1>4. CASE SendLooks(k)
  <2>1. /\ calls' = (calls \ {k}) \cup {[k EXCEPT !.pc = "write", !.arg = Link(k.m)]}
        /\ k.pc = "look" /\ UNCHANGED contentVars
    BY <1>4 DEF SendLooks, contentVars, clientVars, tableVars, ghostVars
  <2>2. [k EXCEPT !.pc = "write", !.arg = Link(k.m)].pc = "write"
    BY <1>1 DEF Call
  <2> QED
    BY <2>1, <2>2, CallsFrame
<1>5. CASE WriteLooks(k)
  <2>1. k.pc = "look" /\ UNCHANGED contentVars
    BY <1>5 DEF WriteLooks, contentVars, clientVars, tableVars, ghostVars
  <2> QED
    BY <1>2, <1>3, <1>5, <2>1 DEF WriteLooks
<1>6. CASE ReactLooks(k)
  <2>1. k.pc = "look" /\ UNCHANGED contentVars
    BY <1>6 DEF ReactLooks, contentVars, clientVars, tableVars, ghostVars
  <2> QED
    BY <1>2, <1>3, <1>6, <2>1 DEF ReactLooks
<1>7. CASE FinishReact(k)
  BY <1>2, <1>7 DEF FinishReact, contentVars, tableVars
<1> QED
  BY <1>4, <1>5, <1>6, <1>7

\* A reaction is written: of the page, only oldBy changes.
LEMMA ReactContent ==
  ASSUME RowInv, Types, \A m \in Msg : MessageOK(m), NEW k \in calls,
         ReactCommits(k), NEW m \in Msg
  PROVE  MessageOK(m)'
<1>1. k \in Call /\ k.op = "react" /\ Continue(k, "emit")
  BY DEF RowInv, CallOK, ReactCommits
<1>2. [k EXCEPT !.pc = "emit"].op = "react"
  BY <1>1 DEF Call
<1>3. /\ \A c \in Emits(m) : c \in calls'
      /\ \A c \in calls' : c.m = m /\ c.pc = "emit" /\ c.op # "react" => c \in calls
  BY <1>1, <1>2 DEF Emits, Continue
<1>4. /\ page'.pc = page.pc /\ page'.ids = page.ids /\ page'.body = page.body
      /\ page'.old = page.old
  BY DEF ReactCommits, NoteReaction, Types, Page
<1>5. UNCHANGED <<rows, body, known, told, crossed, overrun>>
  BY DEF ReactCommits, clientVars
<1>6. PageHas(m)' => PageHas(m)
  BY <1>4 DEF PageHas
<1> QED
  BY <1>3, <1>4, <1>5, <1>6, ContentFrame

\* An insert: nobody has spoken of its message before.
LEMMA SendContent ==
  ASSUME RowInv, TypeInv, \A m \in Msg : MessageOK(m), NEW k \in calls,
         SendCommits(k), NEW m \in Msg
  PROVE  MessageOK(m)'
<1> DEFINE j == [k EXCEPT !.pc = "emit"]
<1>1. /\ k \in Call /\ SendOK(k)
      /\ k.op = "send" /\ k.pc = "write"
      /\ rows' = rows \cup {k.m}
      /\ body' = [body EXCEPT ![k.m] = [text |-> Draft, deleted |-> FALSE]]
      /\ calls' = (calls \ {k}) \cup {j}
      /\ UNCHANGED <<page, known, told, crossed, overrun>>
  BY DEF SendCommits, Continue, RowInv, CallOK, clientVars, ghostVars
<1>2. j \in Call /\ j.op = "send" /\ j.m = k.m /\ j.pc = "emit"
  BY <1>1 DEF Call, Pc
<1> HIDE DEF j
<1>3. k.m \in Msg /\ Sending(k.m)
  BY <1>1 DEF Call, Sending
<1>4. CASE m # k.m
  <2>1. /\ \A c \in Emits(m) : c \in calls'
        /\ \A c \in calls' : c.m = m /\ c.pc = "emit" /\ c.op # "react" => c \in calls
    BY <1>1, <1>2, <1>4 DEF Emits
  <2>2. body'[m] = body[m]
    BY <1>1, <1>4 DEF RowInv
  <2>3. PageHas(m)' => PageHas(m)
    BY <1>1 DEF PageHas
  <2> QED
    BY <1>1, <1>4, <2>1, <2>2, <2>3, ContentFrame
<1>5. CASE m = k.m
  <2>1. m \notin known \cup page.ids /\ told[m] = NoBody
    BY <1>3, <1>5 DEF TypeInv, Seen, Absent, Inserted
  <2>2. Emits(m) = {}
    BY <1>1, <1>3, <1>5 DEF Emits, TypeInv, Seen, Inserted, RowInv, SentOnce
  <2>3. Emits(m)' = {j}
    BY <1>1, <1>2, <1>5, <2>2 DEF Emits
  <2>4. body'[m] = [text |-> Draft, deleted |-> FALSE]
    BY <1>1, <1>5 DEF RowInv
  <2>5. ContentOK(m)'
    BY <1>2, <2>3, <2>4 DEF ContentOK, Says
  <2>6. DeletedOK(m)'
    BY <1>1, <1>2, <2>1, <2>3 DEF DeletedOK, PageHas, NoBody
  <2>7. PageOK(m)'
    BY <1>1, <2>1, <2>2 DEF MessageOK, PageOK, PageHas
  <2> QED
    BY <2>5, <2>6, <2>7 DEF MessageOK
<1> QED
  BY <1>4, <1>5

\* The client is told of a message that was sent.
LEMMA SentContent ==
  ASSUME RowInv, Types, \A m \in Msg : MessageOK(m), NEW k \in calls,
         FinishSend(k), NEW m \in Msg
  PROVE  MessageOK(m)'
<1>1. /\ k.op = "send" /\ k.pc = "emit"
      /\ known' = known \cup {k.m}
      /\ told' = [told EXCEPT ![k.m] = Says(k)]
      /\ calls' = calls \ {k}
      /\ UNCHANGED <<rows, body, page, crossed, overrun>>
  BY DEF FinishSend, MayEmit, Finish, Says, tableVars, ghostVars
<1>2. MessageOK(m) /\ PageHas(m)' = PageHas(m)
  BY <1>1 DEF PageHas
<1>3. \A c \in Emits(m)' : c \in Emits(m)
  BY <1>1 DEF Emits
<1>4. \A c \in Emits(m) : c = k \/ c \in Emits(m)'
  BY <1>1 DEF Emits
<1>5. CASE m # k.m
  <2>1. told'[m] = told[m]
    BY <1>1, <1>5 DEF Types
  <2>2. \A c \in Emits(m) : c \in calls'
    BY <1>1, <1>5 DEF Emits
  <2> QED
    BY <1>1, <1>2, <1>5, <2>1, <2>2, ContentFrame
<1>6. CASE m = k.m
  <2>1. told'[m] = Says(k) /\ ~ Says(k).deleted
    BY <1>1, <1>6 DEF Types, Says
  <2>2. k \in Emits(m)
    BY <1>1, <1>6 DEF Emits
  <2>3. ContentOK(m)'
    BY <1>1, <1>2, <1>3, <2>1, <2>2 DEF MessageOK, ContentOK
  <2>4. DeletedOK(m)'
    BY <1>1, <1>2, <1>3, <2>1 DEF MessageOK, DeletedOK
  <2>5. PageOK(m)'
    BY <1>1, <1>2, <1>4 DEF MessageOK, PageOK
  <2> QED
    BY <2>3, <2>4, <2>5 DEF MessageOK
<1> QED
  BY <1>5, <1>6

\* What an edit or an unsending writes, and says afterwards.
LEMMA Written ==
  ASSUME RowInv, NEW k \in calls, EditCommits(k) \/ UnsendCommits(k),
         k.m \in rows
  PROVE  /\ body[k.m].deleted => body'[k.m].deleted
         /\ k.op = "unsend" => body'[k.m].deleted
         /\ k.m \notin overrun' => body'[k.m] = Says([k EXCEPT !.pc = "emit"])
<1>1. k \in Call /\ k.m \in Msg /\ EditOK(k)
  BY DEF RowInv, CallOK, Call
<1>2. body[k.m] \in [text : Text \cup {Blank}, deleted : BOOLEAN]
  BY <1>1 DEF RowInv, Body
<1>3. CASE EditCommits(k)
  <2>1. k.op = "edit" /\ k.pc = "write" /\ overrun' = overrun
    BY <1>3 DEF EditCommits
  <2>2. body' = [body EXCEPT ![k.m] = Edited(body[k.m], k.arg)]
    BY <1>3 DEF EditCommits, Matches
  <2>3. body'[k.m] = [body[k.m] EXCEPT !.text = k.arg]
    BY <1>1, <2>2 DEF RowInv, Edited
  <2>4. k.m \notin overrun' => body[k.m].deleted = FALSE
    BY <1>1, <1>2, <2>1 DEF EditOK
  <2>5. Says([k EXCEPT !.pc = "emit"]) = [text |-> k.arg, deleted |-> FALSE]
    BY <1>1, <2>1 DEF Says, Call
  <2> QED
    BY <1>2, <2>1, <2>3, <2>4, <2>5
<1>4. CASE UnsendCommits(k)
  <2>1. k.op = "unsend"
    BY <1>4 DEF UnsendCommits
  <2>2. body'[k.m] = [text |-> Blank, deleted |-> TRUE]
    BY <1>1, <1>4 DEF UnsendCommits, Matches, Unsent, RowInv
  <2>3. Says([k EXCEPT !.pc = "emit"]) = [text |-> Blank, deleted |-> TRUE]
    BY <1>1, <2>1 DEF Says, Call
  <2> QED
    BY <2>2, <2>3
<1> QED
  BY <1>3, <1>4

\* An edit or an unsending: if other broadcasts about the message are to
\* come, it joins the exceptions.
LEMMA WriteContent ==
  ASSUME RowInv, Types, \A m \in Msg : MessageOK(m), NEW k \in calls,
         EditCommits(k) \/ UnsendCommits(k), NEW m \in Msg
  PROVE  MessageOK(m)'
<1> DEFINE j == [k EXCEPT !.pc = "emit"]
<1>1. /\ k \in Call
      /\ k.op \in {"edit", "unsend"} /\ k.pc = "write"
      /\ calls' = (calls \ {k}) \cup {j}
      /\ crossed' = crossed \cup (IF Writers(k) = {} THEN {} ELSE {k.m})
      /\ page' = IF page.pc \in {"rest", "reply"}
                   THEN [page EXCEPT !.old = @ \cup {k.m}] ELSE page
      /\ overrun \subseteq overrun'
      /\ UNCHANGED <<rows, known, told>>
  BY DEF EditCommits, UnsendCommits, Continue, NoteWrite, RowInv, CallOK,
         clientVars
<1>2. j \in Call /\ j.op = k.op /\ j.m = k.m /\ j.pc = "emit"
  BY <1>1 DEF Call, Pc
<1>3. /\ k.m \in rows =>
           /\ body[k.m].deleted => body'[k.m].deleted
           /\ k.op = "unsend" => body'[k.m].deleted
           /\ k.m \notin overrun' => body'[k.m] = Says(j)
  BY Written
<1>4. m # k.m \/ m \notin rows => body'[m] = body[m]
  BY DEF EditCommits, UnsendCommits, Matches, RowInv
<1>5. MessageOK(m)
  OBVIOUS
<1> HIDE DEF j
<1>6. /\ page'.pc = page.pc /\ page'.ids = page.ids /\ page'.body = page.body
      /\ page'.old = page.old \/ page'.old = page.old \cup {k.m}
      /\ page.pc \in {"rest", "reply"} => k.m \in page'.old
  BY <1>1 DEF Types, Page
<1>7. PageHas(m)' = PageHas(m)
  BY <1>6 DEF PageHas
<1>8. CASE m # k.m
  <2>1. /\ \A c \in Emits(m) : c \in calls'
        /\ \A c \in calls' : c.m = m /\ c.pc = "emit" /\ c.op # "react" => c \in calls
    BY <1>1, <1>2, <1>8 DEF Emits
  <2>2. m \in page'.old <=> m \in page.old
    BY <1>6, <1>8
  <2> QED
    BY <1>1, <1>4, <1>5, <1>6, <1>7, <1>8, <2>1, <2>2, ContentFrame
<1>9. CASE m = k.m
  <2>1. Emits(m)' = Emits(m) \cup {j}
    BY <1>1, <1>2, <1>9 DEF Emits
  <2>2. Writers(k) = Emits(m)
    <3>1. \A c \in calls : c.op \in Op
      BY DEF RowInv, CallOK, Call
    <3> QED
      BY <1>1, <1>9, <3>1 DEF Writers, Emits, Op
  <2>3. m \notin crossed' => Emits(m) = {} /\ m \notin crossed
    BY <1>1, <1>9, <2>2
  <2>4. ContentOK(m)'
    <3>1. m \notin crossed' => Emits(m)' = {j}
      BY <2>1, <2>3
    <3> QED
      BY <1>1, <1>3, <1>9, <3>1 DEF ContentOK
  <2>5. DeletedOK(m)'
    BY <1>1, <1>2, <1>3, <1>5, <1>6, <1>7, <1>9, <2>1 DEF MessageOK, DeletedOK
  <2>6. PageOK(m)'
    BY <1>1, <1>2, <1>6, <1>9, <2>1 DEF PageOK, PageHas
  <2> QED
    BY <2>4, <2>5, <2>6 DEF MessageOK
<1> QED
  BY <1>8, <1>9

\* The client is told of an edit or an unsending; a page with an older
\* version makes the message an exception.
LEMMA WrittenContent ==
  ASSUME RowInv, Types, \A m \in Msg : MessageOK(m), NEW k \in calls,
         FinishWrite(k), NEW m \in Msg
  PROVE  MessageOK(m)'
<1>1. /\ k.op \in {"edit", "unsend"} /\ k.pc = "emit"
      /\ told' = IF k.m \notin known THEN told ELSE [told EXCEPT ![k.m] = Says(k)]
      /\ crossed' = crossed \cup (page.old \cap {k.m})
      /\ calls' = calls \ {k}
      /\ UNCHANGED <<rows, body, page, known, overrun>>
  BY DEF FinishWrite, MayEmit, Finish, Says, tableVars
<1>2. MessageOK(m) /\ PageHas(m)' = PageHas(m)
  BY <1>1 DEF PageHas
<1>3. \A c \in Emits(m)' : c \in Emits(m)
  BY <1>1 DEF Emits
<1>4. CASE m # k.m
  <2>1. told'[m] = told[m]
    BY <1>1, <1>4 DEF Types
  <2>2. \A c \in Emits(m) : c \in calls'
    BY <1>1, <1>4 DEF Emits
  <2> QED
    BY <1>1, <1>2, <1>4, <2>1, <2>2, ContentFrame
<1>5. CASE m = k.m
  <2>1. /\ m \in known => told'[m] = Says(k)
        /\ m \notin known => told'[m] = told[m]
    BY <1>1, <1>5 DEF Types
  <2>2. k \in Emits(m) /\ (Says(k).deleted => k.op = "unsend")
    BY <1>1, <1>5 DEF Emits, Says
  <2>3. ContentOK(m)'
    BY <1>1, <1>2, <1>3, <2>1, <2>2 DEF MessageOK, ContentOK
  <2>4. DeletedOK(m)'
    <3> SUFFICES ASSUME m \in rows
                 PROVE  /\ told'[m].deleted => body[m].deleted
                        /\ PageHas(m) /\ told'[m].deleted =>
                             page.body[m].deleted \/ m \in crossed' \cup overrun
      BY <1>1, <1>2, <1>3 DEF MessageOK, DeletedOK
    <3>1. told'[m].deleted => body[m].deleted
      BY <1>2, <2>1, <2>2 DEF MessageOK, DeletedOK
    <3>2. CASE m \in page.old
      BY <1>1, <1>5, <3>1, <3>2
    <3>3. CASE m \notin page.old
      BY <1>2, <3>1, <3>3 DEF MessageOK, PageOK
    <3> QED
      BY <3>1, <3>2, <3>3
  <2>5. PageOK(m)'
    BY <1>1, <1>2, <1>5 DEF MessageOK, PageOK
  <2> QED
    BY <2>3, <2>4, <2>5 DEF MessageOK
<1> QED
  BY <1>4, <1>5

\* A page takes the versions there are, and brings the client up to date
\* but for messages whose broadcasts are to come.
LEMMA PageContent ==
  ASSUME Types, \A m \in Msg : MessageOK(m), PageStep, NEW m \in Msg
  PROVE  MessageOK(m)'
<1>1. MessageOK(m) /\ Emits(m)' = Emits(m) /\ UNCHANGED <<rows, body, overrun, calls>>
  BY DEF PageStep, BeginPage, PageRows, PageRest, FinishPage, Emits, tableVars,
         ghostVars
<1>2. CASE BeginPage \/ PageRest
  <2>1. UNCHANGED <<known, told, crossed>>
    BY <1>2 DEF BeginPage, PageRest, clientVars, ghostVars
  <2>2. /\ page'.old = page.old
        /\ page'.pc # "rows" => /\ page'.ids = page.ids /\ page'.body = page.body
                                /\ page.pc = "rest"
    BY <1>2 DEF BeginPage, PageRest, Types, Page
  <2>3. PageHas(m)' => PageHas(m) /\ page'.body[m] = page.body[m]
    BY <2>2 DEF PageHas
  <2>4. \A c \in Emits(m) : c \in calls
    BY DEF Emits
  <2> QED
    BY <1>1, <2>1, <2>2, <2>3, <2>4, ContentFrame
<1>3. CASE PageRows
  <2>1. UNCHANGED <<known, told, crossed>>
    BY <1>3 DEF PageRows, clientVars, ghostVars
  <2>2. page'.old = page.old /\ page'.ids = rows /\ page'.body = body
    BY <1>3 DEF PageRows, Types, Page
  <2>3. ContentOK(m)'
    BY <1>1, <2>1 DEF MessageOK, ContentOK
  <2>4. DeletedOK(m)'
    BY <1>1, <2>1, <2>2 DEF MessageOK, DeletedOK
  <2>5. PageOK(m)'
    BY <1>1, <2>1, <2>2 DEF MessageOK, PageOK
  <2> QED
    BY <2>3, <2>4, <2>5 DEF MessageOK
<1>4. CASE FinishPage
  <2>1. /\ page.pc = "reply"
        /\ page' = NoPage
        /\ known' = known \cup page.ids
        /\ told'[m] = IF m \in page.ids THEN page.body[m] ELSE told[m]
        /\ crossed' = crossed \ Settled
    BY <1>4 DEF FinishPage
  <2>2. m \in Settled => m \in page.ids /\ m \notin page.old /\ Emits(m) = {}
    BY DEF Settled, Emits
  <2>3. m \in page.ids => PageHas(m)
    BY <2>1 DEF PageHas
  <2>4. ~ PageHas(m)' /\ page'.old = {}
    BY <2>1 DEF PageHas, NoPage
  <2>5. m \in rows /\ m \in page.ids /\ m \notin page.old => page.body[m] = body[m]
    BY <1>1, <2>3 DEF MessageOK, PageOK
  <2>6. ContentOK(m)'
    <3> SUFFICES ASSUME m \in rows, m \notin crossed' \cup overrun
                 PROVE  /\ \A j, c \in Emits(m) : j = c
                        /\ \A c \in Emits(m) : Says(c) = body[m]
                        /\ Emits(m) = {} /\ m \in known' => told'[m] = body[m]
      BY <1>1 DEF ContentOK
    <3>1. CASE m \in Settled
      BY <2>1, <2>2, <2>5, <3>1
    <3>2. CASE m \notin Settled
      <4>1. m \notin crossed
        BY <2>1, <3>2
      <4>2. m \in page.old => Emits(m) # {}
        BY <1>1, <4>1 DEF MessageOK, PageOK
      <4> QED
        BY <1>1, <2>1, <2>5, <4>1, <4>2 DEF MessageOK, ContentOK
    <3> QED
      BY <3>1, <3>2
  <2>7. DeletedOK(m)'
    BY <1>1, <2>1, <2>3, <2>4 DEF MessageOK, DeletedOK
  <2>8. PageOK(m)'
    BY <2>4 DEF PageOK
  <2> QED
    BY <2>6, <2>7, <2>8 DEF MessageOK
<1> QED
  BY <1>2, <1>3, <1>4 DEF PageStep

LEMMA EndContent ==
  ASSUME \A m \in Msg : MessageOK(m), NEW m \in Msg,
         \/ Wipe
         \/ Restart
  PROVE  MessageOK(m)'
<1>1. CASE Wipe
  <2>1. rows' = {} /\ UNCHANGED <<page, calls, crossed>>
    BY <1>1 DEF Wipe
  <2>2. PageOK(m)'
    BY <2>1 DEF MessageOK, PageOK, Emits
  <2> QED
    BY <2>1, <2>2 DEF MessageOK, ContentOK, DeletedOK
<1>2. CASE Restart
  <2>1. Emits(m)' = {} /\ m \notin known' /\ ~ told'[m].deleted
        /\ page' = NoPage /\ ~ PageHas(m)'
    BY <1>2 DEF Restart, Emits, NoBody, NoPage, PageHas
  <2> QED
    BY <2>1 DEF MessageOK, ContentOK, DeletedOK, PageOK, NoPage
<1> QED
  BY <1>1, <1>2

LEMMA ContentStep ==
  ASSUME RowInv, TypeInv, ContentInv, [Next]_vars
  PROVE  ContentInv'
<1>1. Types /\ \A m \in Msg : MessageOK(m)
  BY DEF TypeInv, ContentInv, MessageOK
<1> SUFFICES \A m \in Msg : MessageOK(m)'
  BY DEF ContentInv, MessageOK
<1>2. ASSUME NEW h \in Handler, NEW x \in Msg, Request(h, x)
      PROVE  \A m \in Msg : MessageOK(m)'
  BY <1>1, <1>2, RequestContent
<1>3. ASSUME NEW k \in calls, Progress(k)
      PROVE  \A m \in Msg : MessageOK(m)'
  <2>1. CASE SendRejected(k) \/ ReactRejected(k)
    BY <1>1, <2>1, EndContent DEF SendRejected, ReactRejected, Rejected
  <2>2. CASE EditCommits(k) \/ UnsendCommits(k)
    BY <1>1, <2>2, WriteContent
  <2>3. CASE SendCommits(k) \/ FinishSend(k)
    BY <1>1, <2>3, SendContent, SentContent
  <2>4. CASE FinishWrite(k) \/ ReactCommits(k)
    BY <1>1, <2>4, WrittenContent, ReactContent
  <2>5. CASE SendLooks(k) \/ WriteLooks(k) \/ ReactLooks(k) \/ FinishReact(k)
    BY <1>1, <2>5, LookContent
  <2> QED
    BY <1>3, <2>1, <2>2, <2>3, <2>4, <2>5 DEF Progress
<1>4. CASE PageStep
  BY <1>1, <1>4, PageContent
<1>5. CASE Wipe \/ Crash
  BY <1>1, <1>5, EndContent DEF Crash
<1>6. CASE UNCHANGED vars
  BY <1>1, <1>6, CallsFrame
     DEF vars, contentVars, tableVars, clientVars, ghostVars
<1> QED
  BY <1>2, <1>3, <1>4, <1>5, <1>6, NextSplits

LEMMA ContentInit == Init => ContentInv
BY DEF Init, ContentInv, ContentOK, DeletedOK, PageOK, PageHas, Emits, NoPage

THEOREM ContentInvariance == Spec => []ContentInv
BY RowInvariance, TypeInvariance, ContentInit, ContentStep, PTL DEF Spec

-----------------------------------------------------------------------------
(***************************************************************************)
(* What a client has is stored, until all is erased.                       *)
(***************************************************************************)
KeptRow(m) == m \in rows \/ wiped

KeptInv ==
  /\ \A m \in known \cup page.ids : KeptRow(m)
  /\ \A k \in calls : k.op = "send" /\ k.pc = "emit" => KeptRow(k.m)

\* Only Wipe takes rows away.
LEMMA RowsKept ==
  ASSUME [Next]_vars
  PROVE  (rows \subseteq rows' \/ wiped') /\ (wiped => wiped')
<1>1. ASSUME NEW h \in Handler, NEW m \in Msg, Request(h, m)
      PROVE  UNCHANGED <<rows, wiped>>
  BY <1>1 DEF Request, BeginSend, BeginEdit, BeginUnsend, BeginReact,
              tableVars, ghostVars
<1>2. ASSUME NEW k \in calls, Progress(k)
      PROVE  rows \subseteq rows' /\ wiped' = wiped
  <2>1. CASE SendRejected(k) \/ ReactRejected(k)
    BY <2>1 DEF SendRejected, ReactRejected, Rejected, tableVars
  <2>2. CASE SendLooks(k) \/ SendCommits(k) \/ FinishSend(k) \/ WriteLooks(k)
    BY <2>2 DEF SendLooks, SendCommits, FinishSend, WriteLooks, tableVars,
                ghostVars
  <2>3. CASE EditCommits(k) \/ UnsendCommits(k) \/ FinishWrite(k)
    BY <2>3 DEF EditCommits, UnsendCommits, FinishWrite, tableVars
  <2>4. CASE ReactLooks(k) \/ ReactCommits(k) \/ FinishReact(k)
    BY <2>4 DEF ReactLooks, ReactCommits, FinishReact, tableVars, ghostVars
  <2> QED
    BY <1>2, <2>1, <2>2, <2>3, <2>4 DEF Progress
<1>3. CASE PageStep
  BY <1>3 DEF PageStep, BeginPage, PageRows, PageRest, FinishPage, tableVars,
              ghostVars
<1>4. CASE Wipe \/ Crash \/ UNCHANGED vars
  BY <1>4 DEF Wipe, Crash, vars, tableVars, ghostVars
<1> QED
  BY <1>1, <1>2, <1>3, <1>4, NextSplits

LEMMA KeptStep ==
  ASSUME RowInv, TypeInv, KeptInv, [Next]_vars
  PROVE  KeptInv'
<1>1. ASSUME NEW m, KeptRow(m) PROVE KeptRow(m)'
  BY <1>1, RowsKept DEF KeptRow
<1>2. ASSUME NEW m \in known' \cup page'.ids
      PROVE  KeptRow(m)
  BY <1>2, SeenGrows DEF KeptInv, KeptRow, TypeInv
<1>3. ASSUME NEW c \in calls', c.op = "send", c.pc = "emit"
      PROVE  KeptRow(c.m)'
  <2>1. CASE c \in calls
    BY <1>1, <1>3, <2>1 DEF KeptInv
  <2>2. ASSUME c \notin calls, NEW k \in calls, Progress(k)
        PROVE  c.m \in rows'
    <3>1. k.op = "send" /\ k.m = c.m
      BY <1>3, <2>2, ProgressCalls
    <3>2. CASE SendCommits(k)
      BY <3>1, <3>2 DEF SendCommits
    <3>3. CASE SendLooks(k)
      <4>1. k \in Call
        BY DEF RowInv, CallOK
      <4>2. c = [k EXCEPT !.pc = "write", !.arg = Link(k.m)]
        BY <2>2, <3>3 DEF SendLooks
      <4> QED
        BY <1>3, <4>1, <4>2 DEF Call
    <3>4. CASE SendRejected(k) \/ FinishSend(k)
      BY <2>2, <3>4 DEF SendRejected, Rejected, Restart, FinishSend, Finish
    <3> QED
      BY <2>2, <3>1, <3>2, <3>3, <3>4
         DEF Progress, WriteLooks, EditCommits, UnsendCommits, FinishWrite,
             ReactLooks, ReactCommits, ReactRejected, FinishReact
  <2>3. ASSUME c \notin calls, NEW h \in Handler, NEW x \in Msg, Request(h, x)
        PROVE  FALSE
    BY <1>3, <2>3, RequestCalls
  <2> QED
    BY <2>1, <2>2, <2>3, NextSplits, OtherCalls DEF KeptRow
<1> QED
  BY <1>1, <1>2, <1>3 DEF KeptInv

\* Between an insert and its broadcast, and ever after, the row is there.
THEOREM KeptInvariance == Spec => []KeptInv
<1>1. Init => KeptInv
  BY DEF Init, KeptInv, NoPage
<1> QED
  BY <1>1, KeptStep, RowInvariance, TypeInvariance, PTL DEF Spec

\* With no handler at work on a message, what a client has of it is what is
\* stored: broadcasts follow the statement they report (chat:edit and
\* chat:unsend await it), and of overlapping ones the message is an exception.
\* A write that finds no row is broadcast after a dissolution only.
THEOREM ToldCorrect == Spec => []ToldIsStored
<1>1. ASSUME RowInv, ContentInv, KeptInv PROVE ToldIsStored
  <2> SUFFICES ASSUME NEW m \in rows \cap known,
                      \A k \in calls : k.m = m => k.op = "react",
                      m \notin crossed \cup overrun
               PROVE  told[m] = body[m]
    BY <1>1 DEF ToldIsStored, KeptInv, KeptRow
  <2>1. m \in Msg /\ Emits(m) = {}
    BY <1>1 DEF RowInv, RowOK, Emits
  <2> QED
    BY <1>1, <2>1 DEF ContentInv, ContentOK
<1> QED
  BY <1>1, RowInvariance, ContentInvariance, KeptInvariance, PTL

\* What the client has of a message changes at a broadcast or a page.
LEMMA ToldChanges ==
  ASSUME RowInv, TypeInv, [Next]_vars, NEW m \in Msg, told'[m] # told[m]
  PROVE  \/ Restart
         \/ FinishPage /\ m \in page.ids
         \/ \E k \in calls : k.m = m /\ FinishSend(k)
         \/ \E k \in calls : k.m = m /\ FinishWrite(k) /\ m \in known
<1>1. told \in [Msg -> Body]
  BY DEF TypeInv, Types
<1>2. ASSUME NEW h \in Handler, NEW x \in Msg, Request(h, x)
      PROVE  FALSE
  BY <1>2 DEF Request, BeginSend, BeginEdit, BeginUnsend, BeginReact, clientVars
<1>3. ASSUME NEW k \in calls, Progress(k)
      PROVE  \/ Restart
             \/ k.m = m /\ FinishSend(k)
             \/ k.m = m /\ FinishWrite(k) /\ m \in known
  <2>1. CASE SendRejected(k) \/ ReactRejected(k)
    BY <2>1 DEF SendRejected, ReactRejected, Rejected
  <2>2. CASE FinishSend(k)
    BY <1>1, <2>2 DEF FinishSend
  <2>3. CASE FinishWrite(k)
    BY <1>1, <2>3 DEF FinishWrite
  <2> QED
    BY <1>3, <2>1, <2>2, <2>3
       DEF Progress, SendLooks, SendCommits, WriteLooks, EditCommits,
           UnsendCommits, ReactLooks, ReactCommits, FinishReact, clientVars
<1>4. CASE PageStep
  BY <1>4 DEF PageStep, BeginPage, PageRows, PageRest, FinishPage, clientVars
<1>5. CASE Wipe \/ Crash \/ UNCHANGED vars
  BY <1>5 DEF Wipe, Crash, vars, clientVars
<1> QED
  BY <1>2, <1>3, <1>4, <1>5, NextSplits

LEMMA StepHides ==
  ASSUME RowInv, TypeInv, ContentInv, [Next]_vars,
         NEW m \in known \cap rows', told[m].deleted
  PROVE  told'[m].deleted \/ m \notin known' \/ m \in crossed' \cup overrun'
<1> SUFFICES ASSUME ~ told'[m].deleted, m \in known', m \notin crossed' \cup overrun'
             PROVE  FALSE
  OBVIOUS
<1>1. m \in Msg
  BY DEF RowInv, TypeInv, Seen, Inserted
<1>2. MessageOK(m)
  BY <1>1 DEF ContentInv, MessageOK
<1>3. \/ FinishPage /\ m \in page.ids
      \/ \E k \in calls : k.m = m /\ FinishSend(k)
      \/ \E k \in calls : k.m = m /\ FinishWrite(k) /\ m \in known
  BY <1>1, ToldChanges DEF Restart
<1>4. UNCHANGED <<rows, overrun>> /\ m \in rows
  BY <1>3 DEF FinishPage, FinishSend, FinishWrite, tableVars, ghostVars
<1>5. body[m].deleted
  BY <1>2, <1>4 DEF MessageOK, DeletedOK
<1>6. ASSUME FinishPage, m \in page.ids
      PROVE  FALSE
  <2>1. PageHas(m) /\ told'[m] = page.body[m] /\ crossed' = crossed \ Settled
    BY <1>1, <1>6 DEF FinishPage, PageHas
  <2>2. m \in crossed
    BY <1>2, <1>4, <2>1 DEF MessageOK, DeletedOK
  <2>3. m \in Settled
    BY <2>1, <2>2
  <2>4. page.body[m] = body[m]
    BY <1>2, <1>4, <2>1, <2>3 DEF MessageOK, PageOK, Settled
  <2> QED
    BY <1>5, <2>1, <2>4
<1>7. ASSUME NEW k \in calls, k.m = m, FinishSend(k) \/ FinishWrite(k)
      PROVE  FALSE
  <2>1. k \in Emits(m)
    BY <1>7 DEF Emits, FinishSend, FinishWrite, MayEmit
  <2>2. crossed \subseteq crossed'
    BY <1>7 DEF FinishSend, FinishWrite, ghostVars
  <2>3. Says(k) = body[m]
    BY <1>2, <1>4, <2>1, <2>2 DEF MessageOK, ContentOK
  <2>4. told'[m] = Says(k)
    BY <1>1, <1>7 DEF FinishSend, FinishWrite, Says, TypeInv, Types
  <2> QED
    BY <1>5, <2>3, <2>4
<1> QED
  BY <1>3, <1>6, <1>7

\* A client that was told that a message is unsent does not get its content
\* back, from whatever broadcast or page of history comes next.
THEOREM HiddenCorrect == Spec => UnsentStaysHidden
<1>1. RowInv /\ TypeInv /\ ContentInv /\ [Next]_vars =>
        [\A m \in known \cap rows' :
           told[m].deleted => \/ told'[m].deleted \/ m \notin known'
                              \/ m \in (crossed' \cup overrun')]_vars
  BY StepHides
<1> QED
  BY <1>1, RowInvariance, TypeInvariance, ContentInvariance, PTL
     DEF Spec, UnsentStaysHidden

-----------------------------------------------------------------------------
(***************************************************************************)
(* What is said of reactions.                                              *)
(***************************************************************************)
AnswerOK(m, u) == ReactionOK(m, u) /\ PageReactionOK(m, u)

\* Steps that do not concern the reaction of u to m.
LEMMA ReactionFrame ==
  ASSUME NEW m, NEW u, AnswerOK(m, u),
         m \in rows' => m \in rows,
         reaction'[m][u] = reaction[m][u],
         m \in known' => m \in known /\ toldReact'[m][u] = toldReact[m][u],
         <<m, u>> \in crossedBy => <<m, u>> \in crossedBy',
         \A k \in Answers(m, u) : k \in calls',
         \A k \in calls' : k.m = m /\ k.pc = "emit" /\ k.op \in {"send", "react"}
                             => k \in calls \/ (k.op = "react" /\ k.by # u),
         page'.pc = "reply" /\ m \in page'.ids /\ m \in rows =>
           /\ page.pc = "reply" /\ m \in page.ids
           /\ page'.reaction[m][u] = page.reaction[m][u],
         <<m, u>> \in page'.oldBy <=> <<m, u>> \in page.oldBy
  PROVE  AnswerOK(m, u)'
<1>1. Answers(m, u)' = Answers(m, u)
  BY DEF Answers
<1>2. ReactionOK(m, u)'
  BY <1>1 DEF AnswerOK, ReactionOK
<1>3. PageReactionOK(m, u)'
  BY <1>1 DEF AnswerOK, PageReactionOK
<1> QED
  BY <1>2, <1>3 DEF AnswerOK

reactionVars == <<rows, reaction, page, known, toldReact, crossedBy>>

\* Steps that move calls that say nothing of reactions.
LEMMA QuietCalls ==
  ASSUME \A m \in Msg, u \in User : AnswerOK(m, u), UNCHANGED reactionVars,
         \A k \in calls : k.pc = "emit" /\ k.op \in {"send", "react"} => k \in calls',
         \A k \in calls' : k.pc = "emit" /\ k.op \in {"send", "react"} => k \in calls
  PROVE  \A m \in Msg, u \in User : AnswerOK(m, u)'
<1> SUFFICES ASSUME NEW m \in Msg, NEW u \in User PROVE AnswerOK(m, u)'
  OBVIOUS
<1>1. \A k \in Answers(m, u) : k \in calls'
  BY DEF Answers
<1>2. UNCHANGED <<rows, reaction, page, known, toldReact, crossedBy>>
  BY DEF reactionVars
<1> QED
  BY <1>1, <1>2, ReactionFrame

LEMMA RequestReaction ==
  ASSUME \A m \in Msg, u \in User : AnswerOK(m, u),
         NEW h \in Handler, NEW x \in Msg, Request(h, x)
  PROVE  \A m \in Msg, u \in User : AnswerOK(m, u)'
<1>1. UNCHANGED reactionVars /\ calls \subseteq calls'
  BY DEF Request, BeginSend, BeginEdit, BeginUnsend, BeginReact, Begin,
         reactionVars, clientVars, tableVars, ghostVars
<1>2. \A c \in calls' : c.pc = "emit" => c \in calls
  BY RequestCalls
<1> QED
  BY <1>1, <1>2, QuietCalls

\* Lookups, and broadcasts about content.
LEMMA LookReaction ==
  ASSUME RowInv, \A m \in Msg, u \in User : AnswerOK(m, u), NEW k \in calls,
         SendLooks(k) \/ WriteLooks(k) \/ ReactLooks(k) \/ FinishWrite(k)
  PROVE  \A m \in Msg, u \in User : AnswerOK(m, u)'
<1>1. k \in Call
  BY DEF RowInv, CallOK
<1>2. CASE /\ Finish(k) /\ UNCHANGED reactionVars
           /\ k.pc # "emit" \/ k.op \notin {"send", "react"}
  BY <1>2, QuietCalls DEF Finish
<1>3. ASSUME NEW pc, Continue(k, pc), UNCHANGED reactionVars, k.pc = "look",
             pc # "emit" \/ k.op \notin {"send", "react"}
      PROVE  \A m \in Msg, u \in User : AnswerOK(m, u)'
  <2>1. [k EXCEPT !.pc = pc].op = k.op /\ [k EXCEPT !.pc = pc].pc = pc
    BY <1>1 DEF Call
  <2> QED
    BY <1>3, <2>1, QuietCalls DEF Continue
<1>4. CASE SendLooks(k)
  <2>1. /\ calls' = (calls \ {k}) \cup {[k EXCEPT !.pc = "write", !.arg = Link(k.m)]}
        /\ k.pc = "look" /\ UNCHANGED reactionVars
    BY <1>4 DEF SendLooks, reactionVars, clientVars, tableVars, ghostVars
  <2>2. [k EXCEPT !.pc = "write", !.arg = Link(k.m)].pc = "write"
    BY <1>1 DEF Call
  <2> QED
    BY <2>1, <2>2, QuietCalls
<1>5. CASE WriteLooks(k)
  <2>1. k.pc = "look" /\ UNCHANGED reactionVars /\ k.op \notin {"send", "react"}
    BY <1>5 DEF WriteLooks, reactionVars, clientVars, tableVars, ghostVars
  <2> QED
    BY <1>2, <1>3, <1>5, <2>1 DEF WriteLooks
<1>6. CASE ReactLooks(k)
  <2>1. k.pc = "look" /\ UNCHANGED reactionVars
    BY <1>6 DEF ReactLooks, reactionVars, clientVars, tableVars, ghostVars
  <2> QED
    BY <1>2, <1>3, <1>6, <2>1 DEF ReactLooks
<1>7. CASE FinishWrite(k)
  BY <1>2, <1>7 DEF FinishWrite, reactionVars, tableVars
<1> QED
  BY <1>4, <1>5, <1>6, <1>7

\* A write of content: of the page, only old changes.
LEMMA WriteReaction ==
  ASSUME RowInv, Types, \A m \in Msg, u \in User : AnswerOK(m, u),
         NEW k \in calls, EditCommits(k) \/ UnsendCommits(k),
         NEW m \in Msg, NEW u \in User
  PROVE  AnswerOK(m, u)'
<1>1. k \in Call /\ k.op \in {"edit", "unsend"} /\ Continue(k, "emit")
  BY DEF RowInv, CallOK, EditCommits, UnsendCommits
<1>2. [k EXCEPT !.pc = "emit"].op = k.op
  BY <1>1 DEF Call
<1>3. /\ \A c \in Answers(m, u) : c \in calls'
      /\ \A c \in calls' : c.m = m /\ c.pc = "emit" /\ c.op \in {"send", "react"}
                             => c \in calls
  BY <1>1, <1>2 DEF Answers, Continue
<1>4. /\ page'.pc = page.pc /\ page'.ids = page.ids
      /\ page'.reaction = page.reaction /\ page'.oldBy = page.oldBy
  BY DEF EditCommits, UnsendCommits, NoteWrite, Types, Page
<1>5. UNCHANGED <<rows, reaction, known, toldReact, crossedBy>>
  BY DEF EditCommits, UnsendCommits, clientVars
<1>6. AnswerOK(m, u)
  OBVIOUS
<1>7. /\ page'.pc = "reply" /\ m \in page'.ids /\ m \in rows =>
           /\ page.pc = "reply" /\ m \in page.ids
           /\ page'.reaction[m][u] = page.reaction[m][u]
      /\ <<m, u>> \in page'.oldBy <=> <<m, u>> \in page.oldBy
  BY <1>4
<1>8. /\ m \in rows' => m \in rows
      /\ reaction'[m][u] = reaction[m][u]
      /\ m \in known' => m \in known /\ toldReact'[m][u] = toldReact[m][u]
      /\ <<m, u>> \in crossedBy => <<m, u>> \in crossedBy'
  BY <1>5
<1> QED
  BY <1>3, <1>6, <1>7, <1>8, ReactionFrame

\* An insert: a message without a row had no reaction.
LEMMA SendReaction ==
  ASSUME RowInv, TypeInv, \A m \in Msg, u \in User : AnswerOK(m, u),
         NEW k \in calls, SendCommits(k), NEW m \in Msg, NEW u \in User
  PROVE  AnswerOK(m, u)'
<1> DEFINE j == [k EXCEPT !.pc = "emit"]
<1>1. /\ k \in Call /\ SendOK(k)
      /\ k.op = "send" /\ k.pc = "write"
      /\ rows' = rows \cup {k.m}
      /\ calls' = (calls \ {k}) \cup {j}
      /\ UNCHANGED <<page, known, reaction, toldReact, crossedBy>>
  BY DEF SendCommits, Continue, RowInv, CallOK, clientVars, ghostVars
<1>2. j \in Call /\ j.op = "send" /\ j.m = k.m /\ j.pc = "emit"
  BY <1>1 DEF Call, Pc
<1> HIDE DEF j
<1>3. k.m \in Msg /\ Sending(k.m) /\ k.m \notin rows
  BY <1>1 DEF Call, Sending, SendOK
<1>4. CASE m # k.m
  <2>1. /\ \A c \in Answers(m, u) : c \in calls'
        /\ \A c \in calls' : c.m = m /\ c.pc = "emit" /\ c.op \in {"send", "react"}
                               => c \in calls
    BY <1>1, <1>2, <1>4 DEF Answers
  <2> QED
    BY <1>1, <1>4, <2>1, ReactionFrame
<1>5. CASE m = k.m
  <2>1. m \notin known \cup page.ids /\ reaction[m] = NoReactions[m]
    BY <1>3, <1>5 DEF TypeInv, Seen, Absent, Inserted
  <2>2. Answers(m, u) = {}
    BY <1>1, <1>3, <1>5 DEF Answers, TypeInv, Seen, Inserted, RowInv, SentOnce
  <2>3. Answers(m, u)' = {j}
    BY <1>1, <1>2, <1>5, <2>2 DEF Answers
  <2>4. reaction'[m][u] = None
    BY <1>1, <2>1 DEF NoReactions
  <2>5. ReactionOK(m, u)'
    BY <1>2, <2>3, <2>4 DEF ReactionOK, Reaction
  <2>6. PageReactionOK(m, u)'
    BY <1>1, <2>1, <2>2 DEF AnswerOK, PageReactionOK
  <2> QED
    BY <2>5, <2>6 DEF AnswerOK
<1> QED
  BY <1>4, <1>5

\* The broadcast of a new message says it has no reactions.
LEMMA SentReaction ==
  ASSUME RowInv, Types, \A m \in Msg, u \in User : AnswerOK(m, u),
         NEW k \in calls, FinishSend(k), NEW m \in Msg, NEW u \in User
  PROVE  AnswerOK(m, u)'
<1>1. /\ k.op = "send" /\ k.pc = "emit"
      /\ known' = known \cup {k.m}
      /\ toldReact' = [toldReact EXCEPT ![k.m] = NoReactions[k.m]]
      /\ calls' = calls \ {k}
      /\ UNCHANGED <<rows, reaction, page, crossedBy>>
  BY DEF FinishSend, MayEmit, Finish, tableVars, ghostVars
<1>2. AnswerOK(m, u)
  OBVIOUS
<1>3. \A c \in Answers(m, u)' : c \in Answers(m, u)
  BY <1>1 DEF Answers
<1>4. CASE m # k.m
  <2>1. toldReact'[m] = toldReact[m]
    BY <1>1, <1>4 DEF Types, Reactions
  <2>2. \A c \in Answers(m, u) : c \in calls'
    BY <1>1, <1>4 DEF Answers
  <2> QED
    BY <1>1, <1>2, <1>4, <2>1, <2>2, ReactionFrame
<1>5. CASE m = k.m
  <2>1. toldReact'[m][u] = None
    BY <1>1, <1>5 DEF Types, Reactions, NoReactions
  <2>2. k \in Answers(m, u) /\ Reaction(k) = None
    BY <1>1, <1>5 DEF Answers, Reaction
  <2>3. ReactionOK(m, u)'
    BY <1>1, <1>2, <1>3, <2>1, <2>2 DEF AnswerOK, ReactionOK
  <2>4. \A c \in Answers(m, u) : c.op = "react" => c \in Answers(m, u)'
    BY <1>1 DEF Answers
  <2>5. PageReactionOK(m, u)'
    BY <1>1, <1>2, <2>4 DEF AnswerOK, PageReactionOK
  <2> QED
    BY <2>3, <2>5 DEF AnswerOK
<1> QED
  BY <1>4, <1>5

\* A reaction is written: with other broadcasts about it to come, it joins
\* the exceptions.
LEMMA ReactReaction ==
  ASSUME RowInv, TypeInv, \A m \in Msg, u \in User : AnswerOK(m, u),
         NEW k \in calls, ReactCommits(k), NEW m \in Msg, NEW u \in User
  PROVE  AnswerOK(m, u)'
<1> DEFINE j == [k EXCEPT !.pc = "emit"]
<1>1. /\ k \in Call /\ k.op = "react" /\ k.pc = "write"
      /\ k.m \in Msg /\ k.by \in User
      /\ reaction' = [reaction EXCEPT ![k.m][k.by] = k.arg]
      /\ calls' = (calls \ {k}) \cup {j}
      /\ crossedBy' = crossedBy \cup
           (IF Reactors(k) = {} THEN {} ELSE {<<k.m, k.by>>})
      /\ page' = IF page.pc = "reply"
                   THEN [page EXCEPT !.oldBy = @ \cup {<<k.m, k.by>>}] ELSE page
      /\ UNCHANGED <<rows, known, toldReact>>
  BY DEF ReactCommits, Continue, NoteReaction, RowInv, CallOK, Call, TypeInv,
         Seen, clientVars
<1>2. j \in Call /\ j.op = "react" /\ j.m = k.m /\ j.by = k.by /\ j.pc = "emit"
      /\ j.arg = k.arg
  BY <1>1 DEF Call, Pc
<1>3. AnswerOK(m, u)
  OBVIOUS
<1> HIDE DEF j
<1>4. /\ page'.pc = page.pc /\ page'.ids = page.ids
      /\ page'.reaction = page.reaction
      /\ page'.oldBy = page.oldBy \/ page'.oldBy = page.oldBy \cup {<<k.m, k.by>>}
      /\ page.pc = "reply" => <<k.m, k.by>> \in page'.oldBy
  BY <1>1 DEF TypeInv, Types, Page
<1>5. CASE m # k.m \/ u # k.by
  <2>1. /\ \A c \in Answers(m, u) : c \in calls'
        /\ \A c \in calls' : c.m = m /\ c.pc = "emit" /\ c.op \in {"send", "react"}
                               => c \in calls \/ (c.op = "react" /\ c.by # u)
    BY <1>1, <1>2, <1>5 DEF Answers
  <2>2. reaction'[m][u] = reaction[m][u]
    BY <1>1, <1>5 DEF TypeInv, Types, Reactions
  <2>3. <<m, u>> # <<k.m, k.by>>
    BY <1>5
  <2>4. /\ <<m, u>> \in page'.oldBy <=> <<m, u>> \in page.oldBy
        /\ <<m, u>> \in crossedBy => <<m, u>> \in crossedBy'
    BY <1>1, <1>4, <2>3
  <2> QED
    BY <1>1, <1>3, <1>4, <2>1, <2>2, <2>4, ReactionFrame
<1>6. CASE m = k.m /\ u = k.by
  <2>1. Answers(m, u)' = Answers(m, u) \cup {j}
    BY <1>1, <1>2, <1>6 DEF Answers
  <2>2. Reactors(k) = Answers(m, u)
    BY <1>1, <1>6 DEF Reactors, Answers
  <2>3. <<m, u>> \notin crossedBy' => Answers(m, u)' = {j}
    BY <1>1, <1>6, <2>1, <2>2
  <2>4. reaction'[m][u] = k.arg
    BY <1>1, <1>6 DEF TypeInv, Types, Reactions
  <2>5. ReactionOK(m, u)'
    BY <1>2, <2>3, <2>4 DEF ReactionOK, Reaction
  <2>6. PageReactionOK(m, u)'
    BY <1>2, <1>4, <1>6, <2>1 DEF PageReactionOK
  <2> QED
    BY <2>5, <2>6 DEF AnswerOK
<1> QED
  BY <1>5, <1>6

\* The client is told of a reaction; a page with an older one makes it an
\* exception.
LEMMA ReactedReaction ==
  ASSUME RowInv, TypeInv, \A m \in Msg, u \in User : AnswerOK(m, u),
         NEW k \in calls, FinishReact(k), NEW m \in Msg, NEW u \in User
  PROVE  AnswerOK(m, u)'
<1>1. /\ k.op = "react" /\ k.pc = "emit" /\ k.m \in Msg /\ k.by \in User
      /\ toldReact' = IF k.m \notin known THEN toldReact
                      ELSE [toldReact EXCEPT ![k.m][k.by] = k.arg]
      /\ crossedBy' = crossedBy \cup (page.oldBy \cap {<<k.m, k.by>>})
      /\ calls' = calls \ {k}
      /\ UNCHANGED <<rows, reaction, page, known>>
  BY DEF FinishReact, MayEmit, Finish, tableVars, RowInv, CallOK, Call,
         TypeInv, Seen
<1>2. AnswerOK(m, u)
  OBVIOUS
<1>3. \A c \in Answers(m, u)' : c \in Answers(m, u)
  BY <1>1 DEF Answers
<1>4. CASE m # k.m \/ u # k.by
  <2>1. toldReact'[m][u] = toldReact[m][u]
    BY <1>1, <1>4 DEF TypeInv, Types, Reactions
  <2>2. \A c \in Answers(m, u) : c \in calls'
    BY <1>1, <1>4 DEF Answers
  <2> QED
    BY <1>1, <1>2, <2>1, <2>2, ReactionFrame
<1>5. CASE m = k.m /\ u = k.by
  <2>1. m \in known => toldReact'[m][u] = k.arg
    BY <1>1, <1>5 DEF TypeInv, Types, Reactions
  <2>2. k \in Answers(m, u) /\ Reaction(k) = k.arg
    BY <1>1, <1>5 DEF Answers, Reaction
  <2>3. ReactionOK(m, u)'
    BY <1>1, <1>2, <1>3, <2>1, <2>2 DEF AnswerOK, ReactionOK
  <2>4. PageReactionOK(m, u)'
    BY <1>1, <1>2, <1>5 DEF AnswerOK, PageReactionOK
  <2> QED
    BY <2>3, <2>4 DEF AnswerOK
<1> QED
  BY <1>4, <1>5

LEMMA PageReaction ==
  ASSUME Types, \A m \in Msg, u \in User : AnswerOK(m, u), PageStep,
         NEW m \in Msg, NEW u \in User
  PROVE  AnswerOK(m, u)'
<1>1. /\ AnswerOK(m, u) /\ Answers(m, u)' = Answers(m, u)
      /\ UNCHANGED <<rows, reaction, crossedBy, calls>>
  BY DEF PageStep, BeginPage, PageRows, PageRest, FinishPage, Answers,
         tableVars, ghostVars
<1>2. CASE BeginPage \/ PageRows
  <2>1. UNCHANGED <<known, toldReact>>
    BY <1>2 DEF BeginPage, PageRows, clientVars
  <2>2. page'.oldBy = page.oldBy /\ (page'.pc = "reply" => rows = {})
    BY <1>2 DEF BeginPage, PageRows, Types, Page
  <2>3. \A c \in Answers(m, u) : c \in calls
    BY DEF Answers
  <2> QED
    BY <1>1, <2>1, <2>2, <2>3, ReactionFrame
<1>3. CASE PageRest
  <2>1. UNCHANGED <<known, toldReact>>
    BY <1>3 DEF PageRest, clientVars
  <2>2. page'.oldBy = page.oldBy /\ page'.reaction = reaction
    BY <1>3 DEF PageRest, PageReactions, Types, Page
  <2>3. ReactionOK(m, u)'
    BY <1>1, <2>1 DEF AnswerOK, ReactionOK
  <2>4. PageReactionOK(m, u)'
    BY <1>1, <2>1, <2>2 DEF AnswerOK, PageReactionOK
  <2> QED
    BY <2>3, <2>4 DEF AnswerOK
<1>4. CASE FinishPage
  <2>1. /\ page.pc = "reply"
        /\ page' = NoPage
        /\ known' = known \cup page.ids
        /\ toldReact'[m][u] = IF m \in page.ids THEN page.reaction[m][u]
                              ELSE toldReact[m][u]
    BY <1>4 DEF FinishPage
  <2>2. page'.pc = "idle" /\ page'.oldBy = {}
    BY <2>1 DEF NoPage
  <2>3. ReactionOK(m, u)'
    <3> SUFFICES ASSUME m \in rows, <<m, u>> \notin crossedBy,
                        Answers(m, u) = {}, m \in known'
                 PROVE  toldReact'[m][u] = reaction[m][u]
      BY <1>1 DEF AnswerOK, ReactionOK
    <3>1. <<m, u>> \notin page.oldBy
      BY <1>1 DEF AnswerOK, PageReactionOK
    <3>2. CASE m \in page.ids
      BY <1>1, <2>1, <3>1, <3>2 DEF AnswerOK, PageReactionOK
    <3>3. CASE m \notin page.ids
      BY <1>1, <2>1, <3>3 DEF AnswerOK, ReactionOK
    <3> QED
      BY <3>2, <3>3
  <2>4. PageReactionOK(m, u)'
    BY <2>2 DEF PageReactionOK
  <2> QED
    BY <2>3, <2>4 DEF AnswerOK
<1> QED
  BY <1>2, <1>3, <1>4 DEF PageStep

LEMMA EndReaction ==
  ASSUME \A m \in Msg, u \in User : AnswerOK(m, u), NEW m \in Msg, NEW u \in User,
         Wipe \/ Restart
  PROVE  AnswerOK(m, u)'
<1>1. CASE Wipe
  <2>1. rows' = {} /\ UNCHANGED <<page, calls, crossedBy>>
    BY <1>1 DEF Wipe
  <2>2. PageReactionOK(m, u)'
    BY <2>1 DEF AnswerOK, PageReactionOK, Answers
  <2> QED
    BY <2>1, <2>2 DEF AnswerOK, ReactionOK
<1>2. CASE Restart
  <2>1. Answers(m, u)' = {} /\ m \notin known' /\ page' = NoPage
    BY <1>2 DEF Restart, Answers
  <2> QED
    BY <2>1 DEF AnswerOK, ReactionOK, PageReactionOK, NoPage
<1> QED
  BY <1>1, <1>2

LEMMA ReactionStep ==
  ASSUME RowInv, TypeInv, ReactionInv, [Next]_vars
  PROVE  ReactionInv'
<1>1. Types /\ \A m \in Msg, u \in User : AnswerOK(m, u)
  BY DEF TypeInv, ReactionInv, AnswerOK
<1> SUFFICES \A m \in Msg, u \in User : AnswerOK(m, u)'
  BY DEF ReactionInv, AnswerOK
<1>2. ASSUME NEW h \in Handler, NEW x \in Msg, Request(h, x)
      PROVE  \A m \in Msg, u \in User : AnswerOK(m, u)'
  BY <1>1, <1>2, RequestReaction
<1>3. ASSUME NEW k \in calls, Progress(k)
      PROVE  \A m \in Msg, u \in User : AnswerOK(m, u)'
  <2>1. CASE SendRejected(k) \/ ReactRejected(k)
    BY <1>1, <2>1, EndReaction DEF SendRejected, ReactRejected, Rejected
  <2>2. CASE EditCommits(k) \/ UnsendCommits(k)
    BY <1>1, <2>2, WriteReaction
  <2>3. CASE SendCommits(k) \/ FinishSend(k)
    BY <1>1, <2>3, SendReaction, SentReaction
  <2>4. CASE FinishReact(k) \/ ReactCommits(k)
    BY <1>1, <2>4, ReactedReaction, ReactReaction
  <2>5. CASE SendLooks(k) \/ WriteLooks(k) \/ ReactLooks(k) \/ FinishWrite(k)
    BY <1>1, <2>5, LookReaction
  <2> QED
    BY <1>3, <2>1, <2>2, <2>3, <2>4, <2>5 DEF Progress
<1>4. CASE PageStep
  BY <1>1, <1>4, PageReaction
<1>5. CASE Wipe \/ Crash
  BY <1>1, <1>5, EndReaction DEF Crash
<1>6. CASE UNCHANGED vars
  BY <1>1, <1>6, QuietCalls
     DEF vars, reactionVars, tableVars, clientVars, ghostVars
<1> QED
  BY <1>2, <1>3, <1>4, <1>5, <1>6, NextSplits

LEMMA ReactionInit == Init => ReactionInv
BY DEF Init, ReactionInv, ReactionOK, PageReactionOK, Answers, NoPage

THEOREM ReactionInvariance == Spec => []ReactionInv
BY RowInvariance, TypeInvariance, ReactionInit, ReactionStep, PTL DEF Spec

\* With no handler at work on a user's reaction, a client that has the
\* message was told it as it is stored (chat:react broadcasts after
\* applyReaction), with the overlapping ones the exception.
THEOREM ToldReactionCorrect == Spec => []ToldReactionIsStored
<1>1. ASSUME RowInv, ReactionInv PROVE ToldReactionIsStored
  <2> SUFFICES ASSUME NEW m \in rows \cap known, NEW u \in User,
                      \A k \in calls : k.m = m =>
                        k.op # "send" /\ ~ (k.op = "react" /\ k.by = u),
                      <<m, u>> \notin crossedBy
               PROVE  toldReact[m][u] = reaction[m][u]
    BY DEF ToldReactionIsStored
  <2>1. m \in Msg /\ Answers(m, u) = {}
    BY <1>1 DEF RowInv, RowOK, Answers
  <2> QED
    BY <1>1, <2>1 DEF ReactionInv, ReactionOK
<1> QED
  BY <1>1, RowInvariance, ReactionInvariance, PTL

=============================================================================
