---------------------------- MODULE HistoryPages ----------------------------
(***************************************************************************)
(* The pages of chat:history (getHistory of message.store.ts) as a client  *)
(* reads them, from the newest message back, while messages are sent.  The *)
(* conversation is not dissolved meanwhile; soft-deleted rows are paged    *)
(* like the others.                                                        *)
(***************************************************************************)
EXTENDS Naturals, FiniteSets, SequencesExt

CONSTANTS
  Id,       \* message ids, numbered in the order of the strings
  Limit,    \* the page size
  MaxTime   \* bound of the clock

ASSUME PageAssumption ==
  Id \subseteq Nat /\ Limit \in Nat \ {0} /\ MaxTime \in Nat \ {0}

VARIABLES
  clock,    \* Date.now(), in milliseconds; events may share one
  at,       \* createdAt of each message, or 0 before it is sent
  rows,     \* messages that were inserted
  pc,       \* the client: "idle", "query" and "reply" of a request, "end"
  cursor,   \* the cursor of the next request; 0 for none
  found,    \* the rows findMany returned, newest first
  shown,    \* the messages the client has, oldest first
  start,    \* history: the rows when the first page was read
  cuts      \* history: the cursors that were used

sendVars == <<clock, at, rows>>
pageVars == <<pc, cursor, found, shown, start, cuts>>
vars == <<sendVars, pageVars>>

\* Types; and requests are for messages with a time.
TypeOK ==
  /\ clock \in 1 .. MaxTime
  /\ at \in [Id -> 0 .. clock]
  /\ rows \subseteq {i \in Id : at[i] > 0}
  /\ pc \in {"idle", "query", "reply", "end"}
  /\ cursor \in 0 .. clock
  /\ found \in Seq(rows)
  /\ shown \in Seq(rows)
  /\ start \subseteq rows
  /\ cuts \subseteq 1 .. clock

-----------------------------------------------------------------------------
(***************************************************************************)
(* Variants: operators defined below with a plausible mistake, to confirm  *)
(* that the properties notice it.                                          *)
(***************************************************************************)

\* createdAt <= cursor
BeforeOrAt == IF cursor = 0 THEN rows ELSE {i \in rows : at[i] <= cursor}

\* the page is not reversed
PageUnreversed ==
  SubSeq(found, 1, IF Len(found) > Limit THEN Limit ELSE Len(found))

\* the cursor is made inclusive by a millisecond
CursorAfter == at[found[Limit]] + 1

\* off by one: the extra row is taken for the last of the page
HasMoreOffByOne == Len(found) > Limit + 1

-----------------------------------------------------------------------------
\* orderBy createdAt, id
Older(i, j) == at[i] < at[j] \/ (at[i] = at[j] /\ i < j)

\* the where clause
Before == IF cursor = 0 THEN rows ELSE {i \in rows : at[i] < cursor}

\* the place of a row among those of S, newest first
Place(S, i) == Cardinality({j \in S : j = i \/ Older(i, j)})

\* take limit + 1, newest first
Newest(S) ==
  LET size == IF Cardinality(S) > Limit THEN Limit + 1 ELSE Cardinality(S)
  IN  [n \in 1 .. size |-> CHOOSE i \in S : Place(S, i) = n]

HasMore == Len(found) > Limit

\* the page, oldest first
Page == Reverse(SubSeq(found, 1, IF HasMore THEN Limit ELSE Len(found)))

\* page[0].createdAt
NextCursor == at[Page[1]]

-----------------------------------------------------------------------------
Init ==
  /\ clock = 1
  /\ at = [i \in Id |-> 0]
  /\ rows = {}
  /\ pc = "idle"
  /\ cursor = 0
  /\ found = <<>>
  /\ shown = <<>>
  /\ start = {}
  /\ cuts = {}

Tick ==
  /\ clock < MaxTime
  /\ clock' = clock + 1
  /\ UNCHANGED <<at, rows, pageVars>>

\* chat:message takes the time, and inserts the row later
Stamp(i) ==
  /\ at[i] = 0
  /\ at' = [at EXCEPT ![i] = clock]
  /\ UNCHANGED <<clock, rows, pageVars>>

Insert(i) ==
  /\ at[i] > 0 /\ i \notin rows
  /\ rows' = rows \cup {i}
  /\ UNCHANGED <<clock, at, pageVars>>

\* Bound: a list without repetitions is never longer.
MaxShown == Cardinality(Id)

Request ==
  /\ pc = "idle" /\ Len(shown) <= MaxShown
  /\ pc' = "query"
  /\ UNCHANGED <<sendVars, cursor, found, shown, start, cuts>>

\* findMany
Query ==
  /\ pc = "query"
  /\ pc' = "reply"
  /\ found' = Newest(Before)
  /\ start' = IF cursor = 0 THEN rows ELSE start
  /\ UNCHANGED <<sendVars, cursor, shown, cuts>>

\* The client puts the page before what it has, and may ask for the next
\* one with the cursor it was given.
Reply ==
  /\ pc = "reply"
  /\ shown' = Page \o shown
  /\ found' = <<>>
  /\ IF HasMore
       THEN /\ pc' = "idle"
            /\ cursor' = NextCursor
            /\ cuts' = cuts \cup {NextCursor}
       ELSE pc' = "end" /\ UNCHANGED <<cursor, cuts>>
  /\ UNCHANGED <<sendVars, start>>

\* the client reloads the conversation
Reload ==
  /\ pc \in {"idle", "end"}
  /\ pc' = "idle"
  /\ cursor' = 0
  /\ shown' = <<>>
  /\ start' = {}
  /\ cuts' = {}
  /\ UNCHANGED <<sendVars, found>>

Next ==
  \/ Tick
  \/ \E i \in Id : Stamp(i) \/ Insert(i)
  \/ Request
  \/ Query
  \/ Reply
  \/ Reload

Spec == Init /\ [][Next]_vars

\* The database answers, and the client scrolls to the top.
FairSpec == Spec /\ WF_vars(Request \/ Query \/ Reply)

-----------------------------------------------------------------------------
\* The client's list is in the order of the conversation, without repetition.
PagesInOrder ==
  \A m, n \in DOMAIN shown : m < n => Older(shown[m], shown[n])

\* A client that has read all pages has every message there was when it
\* began, except those stamped in the millisecond a page was cut at: the
\* next page starts strictly before it, and may skip some of them.
NothingSkipped ==
  pc = "end" => \A i \in start : (i \in Range(shown) \/ at[i] \in cuts)

\* Scrolling back comes to the first message, unless the client reloads.
ScrollEnds == cursor > 0 ~> (pc = "end" \/ cursor = 0)

=============================================================================
