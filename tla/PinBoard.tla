------------------------------ MODULE PinBoard ------------------------------
(***************************************************************************)
(* The pinned messages of one group: pin.store.ts, pin.handler.ts and the  *)
(* replay of pins when a socket joins its room (room.handler.ts).  In a    *)
(* direct conversation broadcasts reach the user rooms instead.  The list  *)
(* is kept in memory beside message rows that change on their own: of a    *)
(* row only its presence and its deletion mark matter here, and how they   *)
(* change is the subject of MessageRows.                                   *)
(***************************************************************************)
EXTENDS Naturals, FiniteSets, SequencesExt

CONSTANTS
  Msg,      \* message ids
  Handler,  \* places for chat:pin calls awaiting the database
  MaxBoard  \* bound of the pins a client holds when it joins

ASSUME BoardAssumption == MaxBoard \in Nat

VARIABLES
  row,      \* the row of each message: "absent", "live" or "unsent"
  wiped,    \* the group was dissolved
  pins,     \* the list in pinnedStore, latest first; none is the empty list
  calls,    \* chat:pin calls awaiting findMessage
  room,     \* the observed socket is in the room chat:<conversation>
  board,    \* the pins this socket was told of
  lapsed,   \* history: its last chat:join found the list empty, and it has
             \* not fetched since
  raced     \* history: messages unsent between the lookup of a call in
            \* flight and its end

vars == <<row, wiped, pins, calls, room, board, lapsed, raced>>

\* whose wording a pin has: the row's or the request's
Wording == {"row", "client"}
Pin == [id : Msg, text : Wording]

\* offered: the request carries content, type and sender as a fallback
Call == [h : Handler, m : Msg, pc : {"look", "pin"}, offered : BOOLEAN,
         text : Wording \cup {"unresolved"}]

\* Types; a message is pinned once, however many calls to pin it overlap; and
\* a call that goes on after the lookup has resolved a wording.
TypeOK ==
  /\ row \in [Msg -> {"absent", "live", "unsent"}]
  /\ wiped \in BOOLEAN
  /\ pins \in Seq(Pin)
  /\ \A i, j \in DOMAIN pins : pins[i].id = pins[j].id => i = j
  /\ calls \subseteq Call
  /\ \A k \in calls : k.pc = "pin" => k.text \in Wording
  /\ room \in BOOLEAN
  /\ board \in Seq(Pin)
  /\ lapsed \in BOOLEAN
  /\ raced \subseteq Msg

-----------------------------------------------------------------------------
(***************************************************************************)
(* Variants: operators defined below with a plausible mistake, to confirm  *)
(* that the properties notice it.                                          *)
(***************************************************************************)

\* an incomplete request is accepted
ResolveAnything(k) == IF row[k.m] = "live" THEN "row"
                      ELSE IF k.offered THEN "client" ELSE "incomplete"

\* the list is not searched again after the await
NeverPinned(m) == FALSE

\* the deletion mark is not read
AnyRow(m) == FALSE

\* the pins are not replayed
ReplayNothing(list) == board

-----------------------------------------------------------------------------
Ids(list) == {list[i].id : i \in DOMAIN list}

\* msg?.deleted in the lookup's answer; system messages are alike
Unpinnable(m) == row[m] = "unsent"

\* the message's own values, else those of the request
Resolve(k) == IF row[k.m] = "live" THEN "row"
              ELSE IF k.offered THEN "client" ELSE "unresolved"

AlreadyPinned(m) == m \in Ids(pins)

\* the filter of chat:unpin: the n-th pin it keeps is the one that n places
\* of kept pins end at.  (SelectSeq has no definition a prover can use.)
Kept(list, m) == {i \in DOMAIN list : list[i].id # m}

Rank(K, i) == Cardinality({j \in K : j <= i})

Without(list, m) ==
  LET K == Kept(list, m) IN
  [n \in 1 .. Cardinality(K) |-> list[CHOOSE i \in K : Rank(K, i) = n]]

\* what a socket that joins holds after the replay
Replay(list) == IF list # <<>> THEN list ELSE board

\* a broadcast reaches the observed socket when it is in the room
Told(list) == board' = IF room THEN list ELSE board

-----------------------------------------------------------------------------
\* Messages the database has, and messages only clients remember.
Init ==
  /\ row \in [Msg -> {"absent", "live"}]
  /\ wiped = FALSE
  /\ pins = <<>>
  /\ calls = {}
  /\ room = FALSE
  /\ board = <<>>
  /\ lapsed = FALSE
  /\ raced = {}

Unsend(m) ==
  /\ row[m] = "live"
  /\ row' = [row EXCEPT ![m] = "unsent"]
  /\ raced' = raced \cup {k.m : k \in {j \in calls : j.m = m /\ j.pc = "pin"}}
  /\ UNCHANGED <<wiped, pins, calls, room, board, lapsed>>

\* the group is dissolved; its pins are left where they are
Wipe ==
  /\ ~ wiped
  /\ wiped' = TRUE
  /\ row' = [m \in Msg |-> "absent"]
  /\ UNCHANGED <<pins, calls, room, board, lapsed, raced>>

Crash ==
  /\ pins' = <<>>
  /\ calls' = {}
  /\ room' = FALSE
  /\ board' = <<>>
  /\ lapsed' = FALSE
  /\ raced' = {}
  /\ UNCHANGED <<row, wiped>>

-----------------------------------------------------------------------------
(***************************************************************************)
(* chat:pin.                                                               *)
(***************************************************************************)
BeginPin(h, m, offered) ==
  /\ \A k \in calls : k.h # h
  /\ calls' = calls \cup {[h |-> h, m |-> m, pc |-> "look",
                           offered |-> offered, text |-> "unresolved"]}
  /\ UNCHANGED <<row, wiped, pins, room, board, lapsed, raced>>

\* the query of findMessage; hydrate's are awaited after it
PinLooks(k) ==
  /\ k.pc = "look"
  /\ calls' = (calls \ {k}) \cup
       (IF Unpinnable(k.m) \/ Resolve(k) = "unresolved" THEN {}
        ELSE {[k EXCEPT !.pc = "pin", !.text = Resolve(k)]})
  /\ UNCHANGED <<row, wiped, pins, room, board, lapsed, raced>>

FinishPin(k) ==
  LET pin == [id |-> k.m, text |-> k.text] IN
  /\ k.pc = "pin"
  /\ calls' = calls \ {k}
  /\ IF AlreadyPinned(k.m) THEN UNCHANGED <<pins, board>>
     ELSE pins' = <<pin>> \o pins /\ Told(<<pin>> \o board)
  /\ raced' = raced \cap {j.m : j \in {i \in calls \ {k} : i.pc = "pin"}}
  /\ UNCHANGED <<row, wiped, room, lapsed>>

\* chat:unpin.  Before the first pin there is no list, and nothing is
\* broadcast; nor has anybody been told of a pin.
Unpin(m) ==
  /\ pins' = Without(pins, m)
  /\ Told(Without(board, m))
  /\ UNCHANGED <<row, wiped, calls, room, lapsed, raced>>

-----------------------------------------------------------------------------
\* chat:pins-fetch
Fetch ==
  /\ board' = pins
  /\ lapsed' = FALSE
  /\ UNCHANGED <<row, wiped, pins, calls, room, raced>>

\* chat:join replays the pins if there are any
Join ==
  /\ Len(board) <= MaxBoard
  /\ room' = TRUE
  /\ board' = Replay(pins)
  /\ lapsed' = (pins = <<>>)
  /\ UNCHANGED <<row, wiped, pins, calls, raced>>

Leave ==
  /\ room' = FALSE
  /\ UNCHANGED <<row, wiped, pins, calls, board, lapsed, raced>>

-----------------------------------------------------------------------------
Next ==
  \/ \E m \in Msg :
       \/ Unsend(m)
       \/ Unpin(m)
       \/ \E h \in Handler, offered \in BOOLEAN : BeginPin(h, m, offered)
  \/ \E k \in calls : PinLooks(k) \/ FinishPin(k)
  \/ Fetch
  \/ Join
  \/ Leave
  \/ Wipe
  \/ Crash

Spec == Init /\ [][Next]_vars

-----------------------------------------------------------------------------
(***************************************************************************)
(* Safety.                                                                 *)
(***************************************************************************)

\* A socket in the room was told of exactly the pins there are, in their
\* order, except that one that joined when there were none may still hold
\* pins from an earlier stay: an empty list is not replayed.
BoardFollowsPins ==
  room => IsPrefix(pins, board) /\ (board = pins \/ lapsed)

\* A message is not pinned after it was unsent, unless it was unsent between
\* the lookup and the pin.
NoLatePin ==
  [][\A m \in Ids(pins') \ Ids(pins) : row[m] # "unsent" \/ m \in raced]_vars

=============================================================================
