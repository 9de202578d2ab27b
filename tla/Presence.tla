------------------------------ MODULE Presence ------------------------------
(***************************************************************************)
(* The /presence namespace: the map onlineUsers, which has one entry per   *)
(* user however many connections they hold, and what each connection was   *)
(* told of it.  No handler awaits anything, so each is one action.         *)
(***************************************************************************)
EXTENDS Sessions

CONSTANTS
  Socket,    \* connections
  Profile,   \* names and avatars
  None       \* no entry, or no connection

ASSUME NoneAssumption == None \notin User \cup Profile

VARIABLES
  session,      \* socket.data.user.id of each connection
  onlineUsers,  \* the map
  roster,       \* whom each connection was told is online
  listed,       \* connections that asked for the list
  lapsed        \* history: users a connection of whom closed since their
                \* last join, while another stayed open

vars == <<session, onlineUsers, roster, listed, lapsed>>

Entry == Profile \cup {None}

Nobody == [u \in User |-> None]

Connected == {s \in Socket : session[s] # None}

SocketsOf(u) == {s \in Connected : session[s] = u}

\* Types; and only a user who is connected can have lapsed.
TypeOK ==
  /\ session \in [Socket -> User \cup {None}]
  /\ onlineUsers \in [User -> Entry]
  /\ roster \in [Socket -> [User -> Entry]]
  /\ listed \subseteq Connected
  /\ lapsed \subseteq {session[s] : s \in Connected}

-----------------------------------------------------------------------------
(***************************************************************************)
(* Variants: operators defined below with a plausible mistake, to confirm  *)
(* that the properties notice it.                                          *)
(***************************************************************************)

\* the other connections are counted before the closing one is gone
WithoutUnlessShared(u) ==
  IF SocketsOf(u) # {} THEN onlineUsers ELSE [onlineUsers EXCEPT ![u] = None]

\* an entry is only made for the first connection
WithFirst(u, p) ==
  IF SocketsOf(u) = {} THEN [onlineUsers EXCEPT ![u] = p] ELSE onlineUsers

\* the map is keyed by the name
WithByName(u, p) ==
  [x \in User \cup {p} |-> IF x = p THEN p ELSE onlineUsers[x]]

\* the others are told that a user left only when their last connection closes
ToldLeftByLast(s) ==
  IF SocketsOf(session[s]) = {s} THEN Connected \ {s} ELSE {}

-----------------------------------------------------------------------------
\* onlineUsers.set and onlineUsers.delete
With(u, p) == [onlineUsers EXCEPT ![u] = p]

Without(u) == [onlineUsers EXCEPT ![u] = None]

\* nsp.emit from the handler of disconnect: the socket has left by then
ToldLeft(s) == Connected \ {s}

\* socket.broadcast.emit
Others(s) == Connected \ {s}

\* the connections of ss are told entry e of u
Tell(ss, u, e) ==
  [s \in Socket |-> IF s \in ss THEN [roster[s] EXCEPT ![u] = e]
                    ELSE roster[s]]

-----------------------------------------------------------------------------
Init ==
  /\ session = [s \in Socket |-> None]
  /\ onlineUsers = Nobody
  /\ roster = [s \in Socket |-> Nobody]
  /\ listed = {}
  /\ lapsed = {}

\* the body of registerPresenceHandler, for user u with the hints p
Join(s, u, p) ==
  /\ onlineUsers' = With(u, p)
  /\ roster' = Tell(Others(s), u, p)
  /\ lapsed' = lapsed \ {u}

\* Somebody with a token of u connects.
Connect(s, u, p) ==
  /\ s \notin Connected
  /\ \E t \in Admitted([sub : {u}, role : Role]) :
       session' = [session EXCEPT ![s] = t.sub]
  /\ Join(s, u, p)
  /\ UNCHANGED listed

\* presence:get-online-users: the acknowledgement replaces the roster
List(s) ==
  /\ s \in Connected
  /\ roster' = [roster EXCEPT ![s] = onlineUsers]
  /\ listed' = listed \cup {s}
  /\ UNCHANGED <<session, onlineUsers, lapsed>>

\* presence:update-profile.  The payload may hold some fields only; p is what
\* they make of the entry.  Without an entry the handler returns.
UpdateProfile(s, p) ==
  LET u == session[s] IN
  /\ s \in Connected
  /\ onlineUsers[u] # None
  /\ onlineUsers' = With(u, p)
  /\ roster' = Tell(Others(s), u, p)
  /\ UNCHANGED <<session, listed, lapsed>>

Disconnect(s) ==
  LET u == session[s] IN
  /\ s \in Connected
  /\ session' = [session EXCEPT ![s] = None]
  /\ onlineUsers' = Without(u)
  /\ roster' = [Tell(ToldLeft(s), u, None) EXCEPT ![s] = Nobody]
  /\ listed' = listed \ {s}
  /\ lapsed' = IF SocketsOf(u) = {s} THEN lapsed \ {u} ELSE lapsed \cup {u}

\* the process ends and is started again
Crash ==
  /\ session' = [s \in Socket |-> None]
  /\ onlineUsers' = Nobody
  /\ roster' = [s \in Socket |-> Nobody]
  /\ listed' = {}
  /\ lapsed' = {}

Next ==
  \/ \E s \in Socket :
       \/ \E u \in User, p \in Profile : Connect(s, u, p)
       \/ List(s)
       \/ \E p \in Profile : UpdateProfile(s, p)
       \/ Disconnect(s)
  \/ Crash

Spec == Init /\ [][Next]_vars

-----------------------------------------------------------------------------
(***************************************************************************)
(* Safety.                                                                 *)
(***************************************************************************)

\* Who is shown online has a connection open; and who has one is shown online,
\* and can change their profile, unless another of their connections closed
\* after the last one they opened.
OnlineIfConnected ==
  \A u \in User :
    /\ onlineUsers[u] # None => SocketsOf(u) # {}
    /\ SocketsOf(u) # {} => onlineUsers[u] # None \/ u \in lapsed

\* Once a client has the list, the events keep its view of the other users
\* equal to the map, through joins and departures of several connections of
\* one user.  (Its own changes of profile are not sent back to it.)
RosterIsCurrent ==
  \A s \in listed : \A u \in User \ {session[s]} : roster[s][u] = onlineUsers[u]

=============================================================================
