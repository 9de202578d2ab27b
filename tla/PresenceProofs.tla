--------------------------- MODULE PresenceProofs ---------------------------
(***************************************************************************)
(* Proofs about Presence, for any users, connections and profiles.         *)
(***************************************************************************)
EXTENDS Presence, TLAPS

\* The three invariants of the module, which together are inductive.
IInv == TypeOK /\ OnlineIfConnected /\ RosterIsCurrent

\* authMiddleware makes up nothing: a connection is opened with a token that
\* whoever opens it holds.
LEMMA AdmittedIsHeld ==
  ASSUME NEW ts \in SUBSET Token
  PROVE  Admitted(ts) \subseteq ts
BY CredentialAssumption DEF Admitted, Chosen

\* A connection speaks for the user whose tokens it was opened with.
LEMMA ConnectSpeaksFor ==
  ASSUME NEW s \in Socket, NEW u \in User, NEW p \in Profile, Connect(s, u, p)
  PROVE  session' = [session EXCEPT ![s] = u]
<1>1. PICK t \in Admitted([sub : {u}, role : Role]) :
        session' = [session EXCEPT ![s] = t.sub]
  BY DEF Connect
<1>2. [sub : {u}, role : Role] \in SUBSET Token
  BY DEF Token
<1>3. t \in [sub : {u}, role : Role]
  BY <1>2, AdmittedIsHeld
<1> QED
  BY <1>1, <1>3

LEMMA InitEstablishes == Init => IInv
BY NoneAssumption
   DEF Init, IInv, TypeOK, OnlineIfConnected, RosterIsCurrent, Connected,
       SocketsOf, Nobody, Entry

\* A new connection makes its user visible to all others at once.
LEMMA ConnectPreserves ==
  ASSUME IInv, NEW s \in Socket, NEW u \in User, NEW p \in Profile,
         Connect(s, u, p)
  PROVE  IInv'
<1> USE NoneAssumption
<1>1. session' = [session EXCEPT ![s] = u]
  BY ConnectSpeaksFor
<1>2. /\ s \notin Connected /\ s \notin listed
      /\ Connected' = Connected \cup {s}
      /\ onlineUsers' = [onlineUsers EXCEPT ![u] = p]
      /\ roster' = [t \in Socket |-> IF t \in Connected \ {s}
                      THEN [roster[t] EXCEPT ![u] = p] ELSE roster[t]]
      /\ lapsed' = lapsed \ {u}
      /\ UNCHANGED listed
  BY <1>1 DEF Connect, Join, With, Tell, Others, Connected, IInv, TypeOK
<1>3. TypeOK'
  BY <1>1, <1>2 DEF IInv, TypeOK, Entry, Connected
<1>4. OnlineIfConnected'
  BY <1>1, <1>2 DEF IInv, TypeOK, OnlineIfConnected, SocketsOf, Connected
<1>5. RosterIsCurrent'
  <2> SUFFICES ASSUME NEW t \in listed, NEW w \in User \ {session[t]}
               PROVE  roster'[t][w] = onlineUsers'[w]
    BY <1>1, <1>2 DEF RosterIsCurrent, IInv, TypeOK, Connected
  <2>1. t \in Connected \ {s} /\ roster[t] \in [User -> Entry]
    BY <1>2 DEF IInv, TypeOK, Connected
  <2>2. roster'[t] = [roster[t] EXCEPT ![u] = p]
    BY <1>2, <2>1 DEF Connected
  <2> QED
    BY <1>2, <2>1, <2>2 DEF IInv, TypeOK, RosterIsCurrent
<1> QED
  BY <1>3, <1>4, <1>5 DEF IInv

LEMMA ListPreserves ==
  ASSUME IInv, NEW s \in Socket, List(s)
  PROVE  IInv'
BY DEF IInv, List, TypeOK, OnlineIfConnected, RosterIsCurrent, Connected,
       SocketsOf, Entry

LEMMA UpdateProfilePreserves ==
  ASSUME IInv, NEW s \in Socket, NEW p \in Profile, UpdateProfile(s, p)
  PROVE  IInv'
<1> USE NoneAssumption
<1> DEFINE u == session[s]
<1>1. /\ s \in Connected /\ u \in User /\ onlineUsers[u] # None
      /\ onlineUsers' = [onlineUsers EXCEPT ![u] = p]
      /\ roster' = [t \in Socket |-> IF t \in Connected \ {s}
                      THEN [roster[t] EXCEPT ![u] = p] ELSE roster[t]]
      /\ UNCHANGED <<session, listed, lapsed>>
      /\ Connected' = Connected
  BY DEF UpdateProfile, With, Tell, Others, Connected, IInv, TypeOK
<1>2. TypeOK'
  BY <1>1 DEF IInv, TypeOK, Entry
<1>3. OnlineIfConnected'
  BY <1>1 DEF IInv, TypeOK, OnlineIfConnected, SocketsOf
<1>4. RosterIsCurrent'
  <2> SUFFICES ASSUME NEW t \in listed, NEW w \in User \ {session[t]}
               PROVE  roster'[t][w] = onlineUsers'[w]
    BY <1>1 DEF RosterIsCurrent
  <2>1. t \in Connected /\ t \in Socket /\ roster[t] \in [User -> Entry]
    BY DEF IInv, TypeOK, Connected
  <2>2. CASE t = s
    BY <1>1, <2>1, <2>2 DEF IInv, TypeOK, RosterIsCurrent
  <2>3. CASE t # s
    <3>1. roster'[t] = [roster[t] EXCEPT ![u] = p]
      BY <1>1, <2>1, <2>3
    <3> QED
      BY <1>1, <2>1, <3>1 DEF IInv, TypeOK, RosterIsCurrent
  <2> QED
    BY <2>2, <2>3
<1> QED
  BY <1>2, <1>3, <1>4 DEF IInv

\* The entry goes with any connection of its user, and everybody is told so,
\* whether or not others of that user stay.
LEMMA DisconnectPreserves ==
  ASSUME IInv, NEW s \in Socket, Disconnect(s)
  PROVE  IInv'
<1> USE NoneAssumption
<1> DEFINE u == session[s]
<1>1. /\ s \in Connected /\ u \in User
      /\ session' = [session EXCEPT ![s] = None]
      /\ onlineUsers' = [onlineUsers EXCEPT ![u] = None]
      /\ roster' = [[t \in Socket |-> IF t \in Connected \ {s}
                       THEN [roster[t] EXCEPT ![u] = None] ELSE roster[t]]
                      EXCEPT ![s] = Nobody]
      /\ listed' = listed \ {s}
      /\ lapsed' = IF SocketsOf(u) = {s} THEN lapsed \ {u} ELSE lapsed \cup {u}
  BY DEF Disconnect, Without, Tell, ToldLeft, Connected, IInv, TypeOK
<1>2. Connected' = Connected \ {s}
  BY <1>1 DEF Connected, IInv, TypeOK
<1>3. \A w \in User : SocketsOf(w)' = SocketsOf(w) \ {s}
  BY <1>1, <1>2 DEF SocketsOf, Connected, IInv, TypeOK
<1>4. TypeOK'
  <2>1. /\ session' \in [Socket -> User \cup {None}]
        /\ onlineUsers' \in [User -> Entry]
        /\ roster' \in [Socket -> [User -> Entry]]
        /\ listed' \subseteq Connected'
    BY <1>1, <1>2 DEF IInv, TypeOK, Entry, Nobody
  <2>2. ASSUME NEW w \in lapsed'
        PROVE  w \in {session'[t] : t \in Connected'}
    <3>1. CASE w = u
      <4>1. PICK t \in SocketsOf(u) : t # s
        BY <1>1, <2>2, <3>1 DEF SocketsOf
      <4> QED
        BY <1>1, <1>2, <3>1, <4>1 DEF SocketsOf, Connected, IInv, TypeOK
    <3>2. CASE w # u
      <4>1. PICK t \in Connected : session[t] = w
        BY <1>1, <2>2, <3>2 DEF IInv, TypeOK
      <4> QED
        BY <1>1, <1>2, <3>2, <4>1 DEF Connected, IInv, TypeOK
    <3> QED
      BY <3>1, <3>2
  <2> QED
    BY <2>1, <2>2 DEF TypeOK
<1>5. OnlineIfConnected'
  <2> SUFFICES ASSUME NEW w \in User
               PROVE  /\ onlineUsers'[w] # None => SocketsOf(w)' # {}
                      /\ SocketsOf(w)' # {} =>
                           onlineUsers'[w] # None \/ w \in lapsed'
    BY DEF OnlineIfConnected
  <2>1. CASE w = u
    BY <1>1, <1>3, <2>1 DEF IInv, TypeOK
  <2>2. CASE w # u
    <3>1. s \notin SocketsOf(w)
      BY <2>2 DEF SocketsOf
    <3> QED
      BY <1>1, <1>3, <2>2, <3>1 DEF IInv, TypeOK, OnlineIfConnected
  <2> QED
    BY <2>1, <2>2
<1>6. RosterIsCurrent'
  <2> SUFFICES ASSUME NEW t \in listed \ {s}, NEW w \in User \ {session[t]}
               PROVE  roster'[t][w] = onlineUsers'[w]
    BY <1>1 DEF RosterIsCurrent, IInv, TypeOK, Connected
  <2>1. t \in Connected \ {s} /\ t \in Socket /\ roster[t] \in [User -> Entry]
    BY DEF IInv, TypeOK, Connected
  <2>2. roster'[t] = [roster[t] EXCEPT ![u] = None]
    BY <1>1, <2>1
  <2> QED
    BY <1>1, <2>1, <2>2 DEF IInv, TypeOK, RosterIsCurrent
<1> QED
  BY <1>4, <1>5, <1>6 DEF IInv

LEMMA CrashPreserves == ASSUME IInv, Crash PROVE IInv'
BY NoneAssumption
   DEF Crash, IInv, TypeOK, OnlineIfConnected, RosterIsCurrent, Connected,
       SocketsOf, Nobody, Entry

LEMMA NextPreserves == IInv /\ [Next]_vars => IInv'
<1> SUFFICES ASSUME IInv, [Next]_vars
             PROVE  IInv'
  OBVIOUS
<1>1. ASSUME NEW s \in Socket, NEW u \in User, NEW p \in Profile,
             Connect(s, u, p)
      PROVE  IInv'
  BY <1>1, ConnectPreserves
<1>2. ASSUME NEW s \in Socket, List(s)
      PROVE  IInv'
  BY <1>2, ListPreserves
<1>3. ASSUME NEW s \in Socket, NEW p \in Profile, UpdateProfile(s, p)
      PROVE  IInv'
  BY <1>3, UpdateProfilePreserves
<1>4. ASSUME NEW s \in Socket, Disconnect(s)
      PROVE  IInv'
  BY <1>4, DisconnectPreserves
<1>5. CASE Crash
  BY <1>5, CrashPreserves
<1>6. CASE UNCHANGED vars
  BY <1>6 DEF vars, IInv, TypeOK, OnlineIfConnected, RosterIsCurrent,
              Connected, SocketsOf
<1> QED
  BY <1>1, <1>2, <1>3, <1>4, <1>5, <1>6 DEF Next

\* In every reachable state the map of presence agrees with the connections.
THEOREM PresenceInvariance == Spec => []IInv
BY InitEstablishes, NextPreserves, PTL DEF Spec

\* Types; in particular only a user who is connected can have lapsed.
THEOREM TypeCorrect == Spec => []TypeOK
<1>1. IInv => TypeOK
  BY DEF IInv
<1> QED
  BY <1>1, PresenceInvariance, PTL

\* Who is shown online is connected, and who is connected is shown online
\* unless another of their connections closed since they last joined
\* (presence.handler.ts, the handler of disconnect).
THEOREM OnlineCorrect == Spec => []OnlineIfConnected
<1>1. IInv => OnlineIfConnected
  BY DEF IInv
<1> QED
  BY <1>1, PresenceInvariance, PTL

\* A client that fetched the list is kept up to date by the events.
THEOREM RosterCorrect == Spec => []RosterIsCurrent
<1>1. IInv => RosterIsCurrent
  BY DEF IInv
<1> QED
  BY <1>1, PresenceInvariance, PTL

=============================================================================
