------------------------------ MODULE Sessions ------------------------------
(***************************************************************************)
(* authMiddleware, which every namespace runs before its connection        *)
(* handler: whom a connection speaks for is decided by the token presented *)
(* in its handshake and is not looked at again while it lasts.             *)
(***************************************************************************)
CONSTANTS
  User,     \* the values of the claim sub
  Absent,   \* no token of that kind is presented
  Bad       \* one that jwt.verify refuses: empty, expired or forged

Role == {"ADMIN", "USER"}

\* the payload of a token that jwt.verify accepts
Token == [sub : User, role : Role]

ASSUME CredentialAssumption == Absent \notin Token /\ Bad \notin Token

-----------------------------------------------------------------------------
\* Variant: the token of the handshake is preferred
AuthFirst(cookie, auth) == IF auth = Absent THEN cookie ELSE auth

\* cookieToken ?? authToken: a cookie that is refused hides a good handshake
Chosen(cookie, auth) == IF cookie = Absent THEN auth ELSE cookie

\* The claims of connections that handshakes with any cookie and any token of
\* ts lead to, whichever of the two is preferred.  A browser may keep a cookie
\* that is no longer good.
Admitted(ts) ==
  {Chosen(cookie, auth) : cookie \in ts \cup {Absent, Bad},
                          auth \in ts \cup {Absent, Bad}} \cap Token

=============================================================================
