------------------------------- MODULE Reports -------------------------------
(***************************************************************************)
(* The /report namespace, which relays reports the back end has stored to  *)
(* the connections of admins, and notifies admins and reporters through    *)
(* the lists of Notifications.                                             *)
(*                                                                         *)
(* Whether a connection is an admin's is what its token said when it was   *)
(* opened; whom a new report notifies is read from the table users.        *)
(* report:emit awaits that query; the other handlers await nothing.        *)
(***************************************************************************)
EXTENDS Notifications

CONSTANTS
  Desk,      \* connections to /report
  Report,    \* ids of reports; each is of a post of its own
  Reporter,  \* who made each
  Staff,     \* the users who are admins at some time
  Noted,     \* the users whom others notify of what they do
  MaxEmits   \* bound of the emissions of a report in one process

ASSUME ReportAssumption ==
  /\ Staff \cup Noted \subseteq User
  /\ Reporter \in [Report -> User]
  /\ MaxEmits \in Nat
  /\ None \notin Token

VARIABLES
  admins,    \* users with role ADMIN in table users
  desk,      \* the token each connection was opened with, or None
  calls,     \* report:emit calls awaiting listAdminIds
  queue,     \* the status of each report that each admin connection was
             \* told last
  purged,    \* posts each connection was told are removed
  outdated,  \* history: connections opened with a token that was older than
             \* the role of its user, or whose user's role changed since
  since,     \* history: the status each approved report was given last, from
             \* its first approval on
  emits,     \* history: how often each report was emitted
  failed,    \* history: how often the query failed for it
  told,      \* history: how often each user was notified of it
  steady     \* history: who was an admin ever since the process started

roleVars  == <<admins, steady>>
deskVars  == <<desk, outdated, queue, purged, since>>
tallyVars == <<emits, failed, told>>
vars      == <<noteVars, roleVars, deskVars, calls, tallyVars>>

Status == {"unknown", "pending", "approved", "rejected"}

Connected == {s \in Desk : desk[s] # None}

Call == [r : Report, n : 1 .. MaxEmits, pc : {"query", "reply"}, to : SUBSET User]

TypeOK ==
  /\ NoteTypeOK
  /\ admins \subseteq Staff
  /\ desk \in [Desk -> Token \cup {None}]
  /\ calls \subseteq Call
  /\ queue \in [Desk -> [Report -> Status]]
  /\ purged \in [Desk -> SUBSET Report]
  /\ emits \in [Report -> 0 .. MaxEmits]
  /\ failed \in [Report -> 0 .. MaxEmits]
  /\ told \in [Report -> [User -> 0 .. MaxEmits]]
  /\ steady \subseteq admins
  /\ outdated \subseteq Connected
  /\ since \in [Report -> Status]

-----------------------------------------------------------------------------
(***************************************************************************)
(* Variants: operators defined below with a plausible mistake, to confirm  *)
(* that the properties notice it.                                          *)
(***************************************************************************)

\* socket.to(ADMINS_ROOM): the admin who acts is not told
ToldButActor(s) == {t \in Connected \ {s} : desk[t].role = "ADMIN"}

\* the role is not looked at
MayResolveAnybody(s) == s \in Connected

\* admins who are connected, instead of those in the table
AdminsConnected == {desk[s].sub : s \in {t \in Connected : desk[t].role = "ADMIN"}}

\* an emission is shown only if the report is not resolved
TellUnresolved(ss, r, st) ==
  [s \in Desk |-> IF s \in ss /\ queue[s][r] # "approved"
                    THEN [queue[s] EXCEPT ![r] = st] ELSE queue[s]]

\* both verdicts remove the post
RemovesAlways(verdict) == TRUE

-----------------------------------------------------------------------------
\* the room of admins, told from s
Room(s) == {t \in Connected : desk[t].role = "ADMIN"}

\* if (!admin) return: the flag is read when the connection is opened
MayResolve(s) == s \in Connected /\ desk[s].role = "ADMIN"

\* listAdminIds
ListAdminIds == admins

\* report:post-removed follows an approval only
Removes(verdict) == verdict = "approved"

\* status st of report r is told to the connections of ss
Tell(ss, r, st) ==
  [s \in Desk |-> IF s \in ss THEN [queue[s] EXCEPT ![r] = st] ELSE queue[s]]

\* What jwt.verify accepts: tokens of any role the user has had are good until
\* they expire.
Issued == {t \in Token : t.role = "ADMIN" => t.sub \in Staff}

\* the role t was issued for is that of its user
Timely(t) == t \in Token /\ (t.role = "ADMIN" <=> t.sub \in admins)

\* r is given status st
Given(r, st) ==
  [since EXCEPT ![r] = IF @ = "unknown" /\ st # "approved" THEN @ ELSE st]

\* Room is left, within MaxMade, for one notification more to u.
MayNotify(u) == made[u] + Cardinality(calls) < MaxMade[u]

-----------------------------------------------------------------------------
Init ==
  /\ NoteInit
  /\ admins \in SUBSET Staff
  /\ desk = [s \in Desk |-> None]
  /\ calls = {}
  /\ queue = [s \in Desk |-> [r \in Report |-> "unknown"]]
  /\ purged = [s \in Desk |-> {}]
  /\ emits = [r \in Report |-> 0]
  /\ failed = [r \in Report |-> 0]
  /\ told = [r \in Report |-> [u \in User |-> 0]]
  /\ steady = admins
  /\ outdated = {}
  /\ since = [r \in Report |-> "unknown"]

\* the back end changes the role of u
ChangeRole(u) ==
  /\ admins' = IF u \in admins THEN admins \ {u} ELSE admins \cup {u}
  /\ steady' = steady \ {u}
  /\ outdated' = outdated \cup {s \in Connected : desk[s].sub = u}
  /\ UNCHANGED <<noteVars, desk, queue, purged, since, calls, tallyVars>>

\* What handshakes lead to, and whether the sign-in they stand for was timely:
\* the cookie is of the last one on that browser, while the token of the page
\* may be older, or of another user.
Handshakes ==
  {[token |-> Chosen(cookie, auth),
    timely |-> IF cookie = Absent THEN Timely(auth) ELSE Timely(cookie)] :
     cookie, auth \in Issued \cup {Absent, Bad}}

OpenDesk(s) ==
  /\ s \notin Connected
  /\ \E x \in Handshakes :
       /\ x.token \in Token
       /\ desk' = [desk EXCEPT ![s] = x.token]
       /\ outdated' = IF x.timely THEN outdated ELSE outdated \cup {s}
  /\ UNCHANGED <<noteVars, roleVars, queue, purged, since, calls, tallyVars>>

CloseDesk(s) ==
  /\ s \in Connected
  /\ desk' = [desk EXCEPT ![s] = None]
  /\ outdated' = outdated \ {s}
  /\ queue' = [queue EXCEPT ![s] = [r \in Report |-> "unknown"]]
  /\ purged' = [purged EXCEPT ![s] = {}]
  /\ UNCHANGED <<noteVars, roleVars, since, calls, tallyVars>>

-----------------------------------------------------------------------------
(***************************************************************************)
(* report:emit, by whoever is connected and as often as they like.  The    *)
(* payload says who the reporter is; it says the same of a report each     *)
(* time.                                                                   *)
(***************************************************************************)
BeginEmit(s, r) ==
  /\ s \in Connected
  /\ emits[r] < MaxEmits /\ \A u \in Staff : MayNotify(u)
  /\ emits' = [emits EXCEPT ![r] = @ + 1]
  /\ queue' = Tell(Room(s), r, "pending")
  /\ since' = Given(r, "pending")
  /\ calls' = calls \cup
       {[r |-> r, n |-> emits[r] + 1, pc |-> "query", to |-> {}]}
  /\ UNCHANGED <<noteVars, roleVars, desk, outdated, purged, failed, told>>

\* the query of listAdminIds takes effect
EmitQuery(k) ==
  /\ k.pc = "query"
  /\ calls' = (calls \ {k}) \cup {[k EXCEPT !.pc = "reply", !.to = ListAdminIds]}
  /\ UNCHANGED <<noteVars, roleVars, deskVars, tallyVars>>

\* it fails, which is logged and acknowledged like a success
EmitQueryFails(k) ==
  /\ k.pc = "query"
  /\ calls' = calls \ {k}
  /\ failed' = [failed EXCEPT ![k.r] = @ + 1]
  /\ UNCHANGED <<noteVars, roleVars, deskVars, emits, told>>

\* notifyUser for each id, and the acknowledgement
FinishEmit(k) ==
  LET us == k.to \ {Reporter[k.r]} IN
  /\ k.pc = "reply"
  /\ calls' = calls \ {k}
  /\ Notify(us)
  /\ told' = [told EXCEPT ![k.r] = [u \in User |-> IF u \in us THEN @[u] + 1
                                                    ELSE @[u]]]
  /\ UNCHANGED <<roleVars, deskVars, emits, failed>>

-----------------------------------------------------------------------------
\* report:approve and report:reject; us is the reporter, if the client names
\* one
Resolve(s, r, verdict, us) ==
  /\ MayResolve(s)
  /\ \A u \in us : MayNotify(u)
  /\ queue' = Tell(Room(s), r, verdict)
  /\ purged' = IF Removes(verdict)
                 THEN [t \in Desk |-> IF t \in Connected THEN purged[t] \cup {r}
                                      ELSE purged[t]]
                 ELSE purged
  /\ Notify(us \ {desk[s].sub})
  /\ since' = Given(r, verdict)
  /\ UNCHANGED <<roleVars, desk, outdated, calls, tallyVars>>

Crash ==
  /\ ForgetNotes
  /\ desk' = [s \in Desk |-> None]
  /\ calls' = {}
  /\ queue' = [s \in Desk |-> [r \in Report |-> "unknown"]]
  /\ purged' = [s \in Desk |-> {}]
  /\ emits' = [r \in Report |-> 0]
  /\ failed' = [r \in Report |-> 0]
  /\ told' = [r \in Report |-> [u \in User |-> 0]]
  /\ steady' = admins
  /\ outdated' = {}
  /\ since' = [r \in Report |-> "unknown"]
  /\ UNCHANGED admins

Bells ==
  /\ \/ BellRequest
     \/ \E a \in User, u \in Noted : MayNotify(u) /\ EmitNotification(a, u)
  /\ UNCHANGED <<roleVars, deskVars, calls, tallyVars>>

Next ==
  \/ Bells
  \/ \E u \in Staff : ChangeRole(u)
  \/ \E s \in Desk :
       \/ OpenDesk(s)
       \/ CloseDesk(s)
       \/ \E r \in Report :
            \/ BeginEmit(s, r)
            \/ \E v \in {"approved", "rejected"},
                  us \in SUBSET {Reporter[r]} : Resolve(s, r, v, us)
  \/ \E k \in calls : EmitQuery(k) \/ EmitQueryFails(k) \/ FinishEmit(k)
  \/ Crash

Spec == Init /\ [][Next]_vars

-----------------------------------------------------------------------------
(***************************************************************************)
(* Safety.                                                                 *)
(***************************************************************************)
InFlight(r) == Cardinality({k \in calls : k.r = r})

\* A report notifies nobody more often than it was emitted, the reporter
\* never, and whoever has been an admin all along as often, but for the
\* emissions whose query failed: connected or not, on however many tabs.
NotifiedOncePerEmission ==
  \A r \in Report, u \in User :
    LET done == emits[r] - InFlight(r) IN
    /\ told[r][u] <= done - failed[r]
    /\ u = Reporter[r] => told[r][u] = 0
    /\ u \in steady \ {Reporter[r]} => told[r][u] = done - failed[r]

\* Who may resolve reports, and is told of them, are the admins there are:
\* a role that was changed makes a difference only on connections opened
\* before, or with a token issued before.  A token of the page that is older
\* does none where the browser sends its cookie.
ResolvedByAdmins ==
  \A s \in Connected \ outdated :
    /\ MayResolve(s) <=> desk[s].sub \in admins
    /\ s \in Room(s) <=> desk[s].sub \in admins

\* Only connections of admins are told of reports, and those that were told
\* of one were told the same status last.  A post is removed from a screen only
\* if its report was approved; it is removed wherever an approval is shown.
\* An admin who has it removed is shown the approval until the report is
\* emitted again or rejected, and then that.
DesksFollowVerdicts ==
  \A s \in Connected, r \in Report :
    /\ queue[s][r] # "unknown" =>
         /\ desk[s].role = "ADMIN"
         /\ \A t \in Connected : queue[t][r] \in {queue[s][r], "unknown"}
    /\ r \in purged[s] => since[r] # "unknown"
    /\ r \in purged[s] /\ desk[s].role = "ADMIN" => queue[s][r] = since[r]
    /\ queue[s][r] = "approved" => r \in purged[s]

=============================================================================
