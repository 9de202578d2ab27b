---------------------------- MODULE MessageRows -----------------------------
(***************************************************************************)
(* The rows of one conversation in the tables messages and                 *)
(* message_reactions, under the handlers chat:message (with the lookup of  *)
(* the quoted message), chat:edit, chat:unsend and chat:react, and the     *)
(* removal of them all when a group is dissolved; and what one client that *)
(* stays in the conversation is told about them, by broadcasts and by      *)
(* pages of chat:history.                                                  *)
(*                                                                         *)
(* A handler is split where it awaits the database: a lookup it decides    *)
(* on, a statement, and the broadcast after it.                            *)
(***************************************************************************)
EXTENDS Naturals, FiniteSets

CONSTANTS
  User,     \* user ids
  Editor,   \* the users who edit and unsend
  Reactor,  \* the users who react
  Msg,      \* the message ids randomUUID() will return
  Sender,   \* senderId of each; not a user for a system message
  Kind,     \* the column type of each: "text", "media" or "system"
  Parent,   \* the id a client quotes in each, or None
  Text,     \* contents that are not empty
  Draft,    \* the content messages are sent with
  Blank,    \* the empty content
  Emoji,    \* the keys of REACTION_KEYS
  None,     \* null
  Handler   \* places for handler calls awaiting the database

ASSUME UserAssumption == Editor \subseteq User /\ Reactor \subseteq User

ASSUME MessageAssumption ==
  /\ Sender \in [Msg -> User \cup {None}]
  /\ Kind \in [Msg -> {"text", "media", "system"}]
  /\ Parent \in [Msg -> Msg \cup {None}]
  /\ Draft \in Text

ASSUME NullAssumption ==
  None \notin User \cup Msg \cup Text \cup Emoji /\ Blank \notin Text

VARIABLES
  stamped,   \* messages whose id was generated
  rows,      \* rows of table messages
  body,      \* their columns content and deleted
  reaction,  \* rows of table message_reactions: an emoji, or None for no row
  calls,     \* handler calls awaiting the database
  page,      \* the chat:history call of the client
  known,     \* messages the client was sent, in a broadcast or a page
  told,      \* the last it was sent of their content and deletion
  toldReact, \* and of the reactions to them
  crossed,   \* history: messages whose writes, or a page with an old version
             \* of them, may have reached the client out of order
  crossedBy, \* history: the same for each user's reaction
  overrun,   \* history: messages unsent while an edit of them was in flight
  wiped,     \* history: the rows were removed with their group
  rejected   \* history: operations whose statement a foreign key rejected

tableVars  == <<rows, body, reaction>>
clientVars == <<known, told, toldReact>>
ghostVars  == <<crossed, crossedBy, overrun, wiped, rejected>>
vars == <<stamped, tableVars, calls, page, clientVars, ghostVars>>

Body == [text : Text \cup {Blank}, deleted : BOOLEAN]
NoBody == [text |-> Blank, deleted |-> FALSE]

Reactions == [Msg -> [User -> Emoji \cup {None}]]
NoReactions == [m \in Msg |-> [u \in User |-> None]]

(***************************************************************************)
(* What a call awaits: "look" the lookup it decides on, "write" its        *)
(* statement, "emit" the event loop.  arg is the new content, the emoji or *)
(* the link to the quoted message.                                         *)
(***************************************************************************)
Op == {"send", "edit", "unsend", "react"}
Pc == {"look", "write", "emit"}

Call == [h : Handler, op : Op, pc : Pc, m : Msg, by : User \cup {None},
         arg : Text \cup Emoji \cup Msg \cup {None}]

\* A page awaits its "rows", then the "rest" (reactions and quoted
\* messages), then the event loop ("reply").  old are the messages, oldBy
\* the reactions, written since they were read.
Page == [pc : {"idle", "rows", "rest", "reply"}, ids : SUBSET Msg,
         body : [Msg -> Body], reaction : Reactions,
         old : SUBSET Msg, oldBy : SUBSET (Msg \X User)]
NoPage == [pc |-> "idle", ids |-> {}, body |-> [m \in Msg |-> NoBody],
           reaction |-> NoReactions, old |-> {}, oldBy |-> {}]

\* Types; and a message without a row has no content, mark or reaction.
TypeOK ==
  /\ stamped \subseteq Msg
  /\ rows \subseteq stamped
  /\ body \in [Msg -> Body]
  /\ reaction \in Reactions
  /\ calls \subseteq Call
  /\ page \in Page
  /\ known \subseteq stamped
  /\ told \in [Msg -> Body]
  /\ toldReact \in Reactions
  /\ crossed \subseteq Msg
  /\ crossedBy \subseteq Msg \X User
  /\ overrun \subseteq Msg
  /\ wiped \in BOOLEAN
  /\ rejected \subseteq Op
  /\ \A m \in Msg \ rows : body[m] = NoBody /\ reaction[m] = NoReactions[m]

-----------------------------------------------------------------------------
(***************************************************************************)
(* Variants: operators defined below with a plausible mistake, to confirm  *)
(* that the properties notice it.                                          *)
(***************************************************************************)

\* updateMany replaced by an upsert
MatchesAnyway(m) == TRUE

\* the deletion is only marked
MarkedOnly(b) == [b EXCEPT !.deleted = TRUE]

\* the update of an edit also clears the mark
EditedAnew(b, t) == [text |-> t, deleted |-> FALSE]

\* the statement is not awaited
MayEmitUnsaved(k) == k.pc \in {"write", "emit"}

\* chat:edit forgets that the message may be deleted
MayEditDeleted(u, m) == Sender[m] = u /\ Kind[m] = "text"

\* the quoted id is stored as the client sent it
LinkUnchecked(m) == Parent[m]

\* pages are built from the rows of messages alone
PageReactionsForgotten == NoReactions

-----------------------------------------------------------------------------
(***************************************************************************)
(* Conditions and values of message.store.ts and of the handlers.          *)
(***************************************************************************)

\* the where clause of updateMany
Matches(m) == m \in rows

\* unsendMessage
Unsent(b) == [text |-> Blank, deleted |-> TRUE]

\* editMessage
Edited(b, t) == [b EXCEPT !.text = t]

MayEdit(u, m) ==
  Sender[m] = u /\ ~ body[m].deleted /\ Kind[m] = "text"

MayUnsend(u, m) == Sender[m] = u

MayReact(m) == m \in rows /\ ~ body[m].deleted /\ Kind[m] # "system"

\* replyToId of addMessage, once the parent was looked up
Link(m) == IF Parent[m] \in rows THEN Parent[m] ELSE None

\* the continuation after an awaited statement
MayEmit(k) == k.pc = "emit"

\* the reactionsByMessage of hydrate
PageReactions == reaction

\* ids a client can send: from a page or a broadcast
Mentionable == rows \cup known

-----------------------------------------------------------------------------
Begin(h, op, pc, m, u, arg) ==
  /\ \A k \in calls : k.h # h
  /\ calls' = calls \cup
       {[h |-> h, op |-> op, pc |-> pc, m |-> m, by |-> u, arg |-> arg]}

Continue(k, pc) == calls' = (calls \ {k}) \cup {[k EXCEPT !.pc = pc]}

Finish(k) == calls' = calls \ {k}

\* Other calls whose broadcast about the content of k.m is to come.
Writers(k) ==
  {j \in calls \ {k} :
     j.m = k.m /\ j.op \in {"send", "edit", "unsend"} /\ j.pc = "emit"}

\* The same for the reaction of k.by to k.m; chat:message carries none.
Reactors(k) ==
  {j \in calls \ {k} :
     /\ j.m = k.m /\ j.pc = "emit"
     /\ (j.op = "send" \/ (j.op = "react" /\ j.by = k.by))}

\* a write of k.m takes effect
NoteWrite(k) ==
  /\ crossed' = crossed \cup (IF Writers(k) = {} THEN {} ELSE {k.m})
  /\ page' = IF page.pc \in {"rest", "reply"}
               THEN [page EXCEPT !.old = @ \cup {k.m}] ELSE page

\* a write of the reaction of k.by to k.m takes effect
NoteReaction(k) ==
  /\ crossedBy' = crossedBy \cup
       (IF Reactors(k) = {} THEN {} ELSE {<<k.m, k.by>>})
  /\ page' = IF page.pc = "reply"
               THEN [page EXCEPT !.oldBy = @ \cup {<<k.m, k.by>>}] ELSE page

-----------------------------------------------------------------------------
Init ==
  /\ stamped = {}
  /\ rows = {}
  /\ body = [m \in Msg |-> NoBody]
  /\ reaction = NoReactions
  /\ calls = {}
  /\ page = NoPage
  /\ known = {}
  /\ told = [m \in Msg |-> NoBody]
  /\ toldReact = NoReactions
  /\ crossed = {}
  /\ crossedBy = {}
  /\ overrun = {}
  /\ wiped = FALSE
  /\ rejected = {}

\* The process ends and is started again; clients reconnect with nothing.
\* A statement it had sent took effect before, or never does.
Restart ==
  /\ calls' = {}
  /\ page' = NoPage
  /\ known' = {}
  /\ told' = [m \in Msg |-> NoBody]
  /\ toldReact' = NoReactions
  /\ crossed' = {}
  /\ crossedBy' = {}

Crash ==
  /\ Restart
  /\ UNCHANGED <<stamped, tableVars, overrun, wiped, rejected>>

\* A foreign key rejects the statement of k: nothing catches the rejection.
Rejected(k) ==
  /\ Restart
  /\ rejected' = rejected \cup {k.op}
  /\ UNCHANGED <<stamped, tableVars, overrun, wiped>>

\* deleteConversationMessages, for a dissolved group: the rows and, by
\* cascade, the reactions to them
Wipe ==
  /\ ~ wiped
  /\ wiped' = TRUE
  /\ rows' = {}
  /\ body' = [m \in Msg |-> NoBody]
  /\ reaction' = NoReactions
  /\ UNCHANGED <<stamped, calls, page, clientVars, crossed, crossedBy,
                 overrun, rejected>>

-----------------------------------------------------------------------------
(***************************************************************************)
(* chat:message, from the lookup of the parent in addMessage on; the       *)
(* lookup of buildReplyContext before it chooses the wording of the quote. *)
(***************************************************************************)
BeginSend(h, m) ==
  /\ m \notin stamped
  /\ ~ wiped
  /\ stamped' = stamped \cup {m}
  /\ Begin(h, "send", IF Parent[m] = None THEN "write" ELSE "look",
           m, Sender[m], None)
  /\ UNCHANGED <<tableVars, page, clientVars, ghostVars>>

SendLooks(k) ==
  /\ k.op = "send" /\ k.pc = "look"
  /\ calls' = (calls \ {k}) \cup
       {[k EXCEPT !.pc = "write", !.arg = Link(k.m)]}
  /\ UNCHANGED <<stamped, tableVars, page, clientVars, ghostVars>>

SendCommits(k) ==
  /\ k.op = "send" /\ k.pc = "write"
  /\ k.arg \in rows \cup {None}
  /\ rows' = rows \cup {k.m}
  /\ body' = [body EXCEPT ![k.m] = [text |-> Draft, deleted |-> FALSE]]
  /\ Continue(k, "emit")
  /\ UNCHANGED <<stamped, reaction, page, clientVars, ghostVars>>

SendRejected(k) ==
  /\ k.op = "send" /\ k.pc = "write"
  /\ k.arg \notin rows \cup {None}
  /\ Rejected(k)

FinishSend(k) ==
  /\ k.op = "send" /\ MayEmit(k)
  /\ known' = known \cup {k.m}
  /\ told' = [told EXCEPT ![k.m] = [text |-> Draft, deleted |-> FALSE]]
  /\ toldReact' = [toldReact EXCEPT ![k.m] = NoReactions[k.m]]
  /\ Finish(k)
  /\ UNCHANGED <<stamped, tableVars, page, ghostVars>>

-----------------------------------------------------------------------------
(***************************************************************************)
(* chat:edit and chat:unsend.  A message without a row is broadcast about  *)
(* without being written.                                                  *)
(***************************************************************************)
BeginEdit(h, m, u, t) ==
  /\ m \in Mentionable
  /\ Begin(h, "edit", "look", m, u, t)
  /\ UNCHANGED <<stamped, tableVars, page, clientVars, ghostVars>>

BeginUnsend(h, m, u) ==
  /\ m \in Mentionable
  /\ Begin(h, "unsend", "look", m, u, None)
  /\ UNCHANGED <<stamped, tableVars, page, clientVars, ghostVars>>

\* findMessage; a refusal is acknowledged and ends the call
WriteLooks(k) ==
  /\ k.op \in {"edit", "unsend"} /\ k.pc = "look"
  /\ IF k.m \notin rows THEN Continue(k, "emit")
     ELSE IF \/ k.op = "edit" /\ MayEdit(k.by, k.m)
             \/ k.op = "unsend" /\ MayUnsend(k.by, k.m)
            THEN Continue(k, "write")
            ELSE Finish(k)
  /\ UNCHANGED <<stamped, tableVars, page, clientVars, ghostVars>>

\* updateMany, which may match no row
EditCommits(k) ==
  /\ k.op = "edit" /\ k.pc = "write"
  /\ body' = IF Matches(k.m)
               THEN [body EXCEPT ![k.m] = Edited(@, k.arg)] ELSE body
  /\ NoteWrite(k)
  /\ Continue(k, "emit")
  /\ UNCHANGED <<stamped, rows, reaction, clientVars, crossedBy, overrun,
                 wiped, rejected>>

UnsendCommits(k) ==
  /\ k.op = "unsend" /\ k.pc = "write"
  /\ body' = IF Matches(k.m)
               THEN [body EXCEPT ![k.m] = Unsent(@)] ELSE body
  /\ NoteWrite(k)
  /\ overrun' = overrun \cup
       (IF \E j \in calls : j.op = "edit" /\ j.m = k.m /\ j.pc = "write"
          THEN {k.m} ELSE {})
  /\ Continue(k, "emit")
  /\ UNCHANGED <<stamped, rows, reaction, clientVars, crossedBy, wiped,
                 rejected>>

\* chat:edited or chat:unsent; about a message it does not know, the client
\* learns nothing
FinishWrite(k) ==
  /\ k.op \in {"edit", "unsend"} /\ MayEmit(k)
  /\ told' = IF k.m \notin known THEN told
             ELSE [told EXCEPT ![k.m] =
                     IF k.op = "edit" THEN [text |-> k.arg, deleted |-> FALSE]
                     ELSE [text |-> Blank, deleted |-> TRUE]]
  /\ crossed' = crossed \cup (page.old \cap {k.m})
  /\ Finish(k)
  /\ UNCHANGED <<stamped, tableVars, page, known, toldReact, crossedBy,
                 overrun, wiped, rejected>>

-----------------------------------------------------------------------------
(***************************************************************************)
(* chat:react.                                                             *)
(***************************************************************************)
BeginReact(h, m, u, e) ==
  /\ m \in Mentionable
  /\ Begin(h, "react", "look", m, u, e)
  /\ UNCHANGED <<stamped, tableVars, page, clientVars, ghostVars>>

ReactLooks(k) ==
  /\ k.op = "react" /\ k.pc = "look"
  /\ IF MayReact(k.m) THEN Continue(k, "write") ELSE Finish(k)
  /\ UNCHANGED <<stamped, tableVars, page, clientVars, ghostVars>>

\* applyReaction: deleteMany, or an upsert that needs the message
ReactCommits(k) ==
  /\ k.op = "react" /\ k.pc = "write"
  /\ k.m \in rows \/ k.arg = None
  /\ reaction' = [reaction EXCEPT ![k.m][k.by] = k.arg]
  /\ NoteReaction(k)
  /\ Continue(k, "emit")
  /\ UNCHANGED <<stamped, rows, body, clientVars, crossed, overrun, wiped,
                 rejected>>

ReactRejected(k) ==
  /\ k.op = "react" /\ k.pc = "write"
  /\ k.m \notin rows /\ k.arg # None
  /\ Rejected(k)

FinishReact(k) ==
  /\ k.op = "react" /\ MayEmit(k)
  /\ toldReact' = IF k.m \notin known THEN toldReact
                  ELSE [toldReact EXCEPT ![k.m][k.by] = k.arg]
  /\ crossedBy' = crossedBy \cup (page.oldBy \cap {<<k.m, k.by>>})
  /\ Finish(k)
  /\ UNCHANGED <<stamped, tableVars, page, known, told, crossed, overrun,
                 wiped, rejected>>

-----------------------------------------------------------------------------
(***************************************************************************)
(* chat:history of a conversation that fits one page: the query for rows,  *)
(* then hydrate's, then the acknowledgement.                               *)
(***************************************************************************)
BeginPage ==
  /\ page.pc = "idle"
  /\ page' = [page EXCEPT !.pc = "rows"]
  /\ UNCHANGED <<stamped, tableVars, calls, clientVars, ghostVars>>

\* hydrate returns at once when there are no rows
PageRows ==
  /\ page.pc = "rows"
  /\ page' = [page EXCEPT !.pc = IF rows = {} THEN "reply" ELSE "rest",
                          !.ids = rows, !.body = body]
  /\ UNCHANGED <<stamped, tableVars, calls, clientVars, ghostVars>>

PageRest ==
  /\ page.pc = "rest"
  /\ page' = [page EXCEPT !.pc = "reply", !.reaction = PageReactions]
  /\ UNCHANGED <<stamped, tableVars, calls, clientVars, ghostVars>>

\* Messages the page brings up to date: no broadcast about them is to come.
Settled ==
  {m \in page.ids \ page.old : \A k \in calls : k.m # m}

FinishPage ==
  /\ page.pc = "reply"
  /\ page' = NoPage
  /\ known' = known \cup page.ids
  /\ told' = [m \in Msg |-> IF m \in page.ids THEN page.body[m] ELSE told[m]]
  /\ toldReact' = [m \in Msg |-> IF m \in page.ids THEN page.reaction[m]
                                 ELSE toldReact[m]]
  /\ crossed' = crossed \ Settled
  /\ UNCHANGED <<stamped, tableVars, calls, crossedBy, overrun, wiped,
                 rejected>>

-----------------------------------------------------------------------------
Next ==
  \/ \E h \in Handler, m \in Msg :
       \/ BeginSend(h, m)
       \/ \E u \in Editor, t \in Text : BeginEdit(h, m, u, t)
       \/ \E u \in Editor : BeginUnsend(h, m, u)
       \/ \E u \in Reactor, e \in Emoji \cup {None} : BeginReact(h, m, u, e)
  \/ \E k \in calls :
       \/ SendLooks(k)
       \/ SendCommits(k)
       \/ SendRejected(k)
       \/ FinishSend(k)
       \/ WriteLooks(k)
       \/ EditCommits(k)
       \/ UnsendCommits(k)
       \/ FinishWrite(k)
       \/ ReactLooks(k)
       \/ ReactCommits(k)
       \/ ReactRejected(k)
       \/ FinishReact(k)
  \/ BeginPage
  \/ PageRows
  \/ PageRest
  \/ FinishPage
  \/ Wipe
  \/ Crash

Spec == Init /\ [][Next]_vars

-----------------------------------------------------------------------------
(***************************************************************************)
(* Safety.                                                                 *)
(***************************************************************************)

\* "Soft-delete: blank content, keep the row" (message.store.ts:212).
DeletedIsBlank == \A m \in rows : body[m].deleted => body[m].text = Blank

\* An unsent message has no content, unless an edit had passed its checks
\* when the deletion took effect.
DeletedIsBlankUnlessOverrun ==
  \A m \in rows : body[m].deleted => (body[m].text = Blank \/ m \in overrun)

\* When no handler is at work on a message, a client that has it was told
\* its stored content last, unless two writes of it overlapped or a page of
\* history with an older version was in flight.  What a client has is stored,
\* or was erased with its group: that a write finds no row, and is broadcast
\* all the same, has no other cause.
ToldIsStored ==
  \A m \in known :
    (\A k \in calls : k.m = m => k.op = "react") =>
      /\ m \in rows \/ wiped
      /\ m \in rows => told[m] = body[m] \/ m \in (crossed \cup overrun)

\* The same of the reaction of a user to a message.
ToldReactionIsStored ==
  \A m \in rows \cap known, u \in User :
    (\A k \in calls : k.m = m => k.op # "send" /\ ~ (k.op = "react" /\ k.by = u))
      => (toldReact[m][u] = reaction[m][u] \/ <<m, u>> \in crossedBy)

\* A client that was told a message is unsent is not given its content again,
\* with the same two exceptions, while its row is kept.
UnsentStaysHidden ==
  [][\A m \in known \cap rows' :
       told[m].deleted => \/ told'[m].deleted \/ m \notin known'
                          \/ m \in (crossed' \cup overrun')]_vars

\* A foreign key ends the process only if a group was dissolved meanwhile.
RejectedOnlyIfWiped == rejected # {} => wiped

-----------------------------------------------------------------------------
(***************************************************************************)
(* Refinement: the rows as life cycles of messages.  An edit that overruns *)
(* the unsending of its message does not bring it back.                    *)
(***************************************************************************)
Sending(m) ==
  \E k \in calls : k.m = m /\ k.op = "send" /\ k.pc \in {"look", "write"}

life ==
  [m \in Msg |->
     IF m \in rows THEN IF body[m].deleted THEN "unsent" ELSE body[m].text
     ELSE IF m \notin stamped \/ Sending(m) THEN "new" ELSE "erased"]

Life == INSTANCE MessageLife

\* Messages follow the life cycle of MessageLife, whatever calls overlap.
LifeSpec == Life!Spec

=============================================================================
