---------------------------- MODULE Notifications ----------------------------
(***************************************************************************)
(* The /notification namespace: the lists of notification.store.ts, newest *)
(* first and cut at MAX_PER_USER, and what the connections of each user    *)
(* were told of theirs.  The functions of the store are async but await    *)
(* nothing, so each handler is one action.                                 *)
(***************************************************************************)
EXTENDS Sessions, Naturals, Sequences, FiniteSets

CONSTANTS
  Bell,       \* connections to /notification observed; a user may have more
  Owner,      \* whose token each is opened with
  MaxPerUser, \* MAX_PER_USER
  MaxMade,    \* bound of the notifications made for each in one process
  None        \* null

ASSUME BellAssumption == Owner \in [Bell -> User]
ASSUME CapAssumption == MaxPerUser \in Nat \ {0} /\ MaxMade \in [User -> Nat]
ASSUME NobodyAssumption == None \notin User

VARIABLES
  firstUser,  \* firstUserId
  inbox,      \* byRecipient; an absent key is the empty list
  open,       \* connected sockets: the rooms user:<id>
  listed,     \* those that asked for the list
  shown,      \* what each of those shows: the list, and what came after it
  made        \* history: how many were made for each user

noteVars == <<firstUser, inbox, open, listed, shown, made>>

\* randomUUID() is the position in the order of creation
Row == [id : Nat, read : BOOLEAN]

Capped(n) == IF n < MaxPerUser THEN n ELSE MaxPerUser

\* Types; lists keep to the cap, and nothing is shown before the list is.
NoteTypeOK ==
  /\ firstUser \in User \cup {None}
  /\ inbox \in [User -> Seq(Row)]
  /\ \A u \in User : Len(inbox[u]) <= MaxPerUser
  /\ open \subseteq Bell
  /\ listed \subseteq open
  /\ shown \in [Bell -> SUBSET Row]
  /\ made \in [User -> Nat]
  /\ \A b \in Bell \ listed : shown[b] = {}

-----------------------------------------------------------------------------
(***************************************************************************)
(* Variants: operators defined below with a plausible mistake, to confirm  *)
(* that the properties notice it.                                          *)
(***************************************************************************)

\* the list is cut before the new row is put in front
CutEarly(row, list) ==
  <<row>> \o SubSeq(list, 1, Capped(Len(list)))

\* the new row is appended and the list cut at the end
CutNewest(row, list) ==
  LET l == Append(list, row) IN
  SubSeq(l, 1, Capped(Len(l)))

\* socket.emit instead of the user's room
ToldReadOnly(b) == {b}

-----------------------------------------------------------------------------
RowsOf(list) == {list[i] : i \in DOMAIN list}

\* unshift and the cut of createNotification
Pushed(row, list) ==
  LET l == <<row>> \o list IN
  SubSeq(l, 1, Capped(Len(l)))

\* listNotifications
Listed(u) == RowsOf(inbox[u])

BellsOf(u) == {b \in open : Owner[b] = u}

\* who is told that a notification was read from b
ToldRead(b) == BellsOf(Owner[b])

MarkAll(rows) == {[x EXCEPT !.read = TRUE] : x \in rows}

Mark(rows, id) == {IF x.id = id THEN [x EXCEPT !.read = TRUE] ELSE x : x \in rows}

\* createNotification for each user of us, and notification:new to their
\* room
Notify(us) ==
  LET New(u) == [id |-> made[u] + 1, read |-> FALSE] IN
  /\ made' = [u \in User |-> IF u \in us THEN made[u] + 1 ELSE made[u]]
  /\ inbox' = [u \in User |-> IF u \in us THEN Pushed(New(u), inbox[u])
                                ELSE inbox[u]]
  /\ shown' = [b \in Bell |-> IF b \in listed /\ Owner[b] \in us
                                THEN shown[b] \cup {New(Owner[b])}
                                ELSE shown[b]]
  /\ UNCHANGED <<firstUser, open, listed>>

-----------------------------------------------------------------------------
NoteInit ==
  /\ firstUser = None
  /\ inbox = [u \in User |-> << >>]
  /\ open = {}
  /\ listed = {}
  /\ shown = [b \in Bell |-> {}]
  /\ made = [u \in User |-> 0]

OpenBell(b) ==
  /\ b \notin open
  /\ open' = open \cup {b}
  /\ firstUser' = IF firstUser = None THEN Owner[b] ELSE firstUser
  /\ UNCHANGED <<inbox, listed, shown, made>>

\* a connection that is opened again starts with nothing shown
CloseBell(b) ==
  /\ b \in open
  /\ open' = open \ {b}
  /\ listed' = listed \ {b}
  /\ shown' = [shown EXCEPT ![b] = {}]
  /\ UNCHANGED <<firstUser, inbox, made>>

\* notification:list
ListBell(b) ==
  /\ b \in open
  /\ shown' = [shown EXCEPT ![b] = Listed(Owner[b])]
  /\ listed' = listed \cup {b}
  /\ UNCHANGED <<firstUser, inbox, open, made>>

\* notification:emit from a to another user; to oneself it is acknowledged,
\* no more
EmitNotification(a, u) == u # a /\ Notify({u})

\* notification:read of one the client was told of: markRead finds it unread
\* in the list, or else nobody is told
Read(b, id) ==
  LET u == Owner[b] IN
  /\ b \in open
  /\ [id |-> id, read |-> FALSE] \in RowsOf(inbox[u])
  /\ inbox' = [inbox EXCEPT ![u] = [i \in DOMAIN @ |->
                 IF @[i].id = id THEN [@[i] EXCEPT !.read = TRUE] ELSE @[i]]]
  /\ shown' = [c \in Bell |-> IF c \in ToldRead(b) THEN Mark(shown[c], id)
                              ELSE shown[c]]
  /\ UNCHANGED <<firstUser, open, listed, made>>

\* notification:read-all
ReadAll(b) ==
  LET u == Owner[b] IN
  /\ b \in open
  /\ inbox' = [inbox EXCEPT ![u] = [i \in DOMAIN @ |->
                                      [@[i] EXCEPT !.read = TRUE]]]
  /\ shown' = [c \in Bell |-> IF c \in ToldRead(b) THEN MarkAll(shown[c])
                              ELSE shown[c]]
  /\ UNCHANGED <<firstUser, open, listed, made>>

\* the process ends and is started again
ForgetNotes ==
  /\ firstUser' = None
  /\ inbox' = [u \in User |-> << >>]
  /\ open' = {}
  /\ listed' = {}
  /\ shown' = [b \in Bell |-> {}]
  /\ made' = [u \in User |-> 0]

BellRequest ==
  \E b \in Bell :
    \/ OpenBell(b)
    \/ CloseBell(b)
    \/ ListBell(b)
    \/ \E x \in shown[b] : Read(b, x.id)
    \/ ReadAll(b)

-----------------------------------------------------------------------------
(***************************************************************************)
(* Safety.                                                                 *)
(***************************************************************************)

\* A list holds the newest of what was made for the user since the process
\* started, newest first; only the cap takes any away.
KeepsNewest ==
  \A u \in User :
    /\ Len(inbox[u]) = Capped(made[u])
    /\ \A i \in DOMAIN inbox[u] : inbox[u][i].id = made[u] - i + 1

\* A client that has the list shows what the server has, read where it is
\* read there, whichever of the user's connections read it; besides, only
\* what the cap took away.  Two connections of a user never disagree about a
\* notification both show, also one that the list has no more.
BellAgrees ==
  /\ \A b \in listed :
       LET u == Owner[b] IN
       {x \in shown[b] : x.id + MaxPerUser > made[u]} = RowsOf(inbox[u])
  /\ \A b, c \in listed : \A x \in shown[b], y \in shown[c] :
       Owner[b] = Owner[c] /\ x.id = y.id => x.read = y.read

=============================================================================
