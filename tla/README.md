# Verification of the social socket server

The server relays chat, presence, notifications, reports and the feed over
Socket.IO. It keeps groups, pins, sockets, presence and notifications in the
memory of one Node process, and messages and reactions in PostgreSQL. There are
no tests in the repository. The TLA+ modules here model its core logic, TLC
checks them on small instances, and TLAPS proves every safety property they check
for every number of users, connections, messages and calls.

## How the code runs, and how that is modelled

JavaScript runs on one event loop. A handler runs without interruption up to an
`await` that really waits, that is one on a Prisma query; then any other handler
may run, and the statement takes effect in the database at some moment before
the handler is resumed. So:

- a handler that awaits no query is **one action** (`Create`, `Promote`,
  `ChatJoin`, `Connect`, ...);
- a handler that awaits one is **three**: up to the await (`Begin...`), the
  statement's effect (`...Commits`), and the continuation (`Resume...`,
  `Finish...`). Calls in flight are the elements of `calls`, or a program
  counter per message;
- an `await` on an async function that queries nothing (createNotification,
  markRead) resumes in a microtask of the same turn, before the next event. Only
  microtasks of the same turn come between, such as other calls that the same answer
  or event resumed; what they emit goes out in the order they were started, so
  such a handler is one step;
- lookups that change nothing are merged with the await that follows them when
  nothing they return is used later. Statements travel through a connection
  pool, so statements of different calls take effect in any order;
- `disconnect` is synchronous in Socket.IO (rooms are left, then the handler is
  run) and emissions to a closed socket are dropped;
- no handler of /chat catches a database error and the process installs no
  handler for unhandled rejections, so such an error ends the process. `Crash`
  may happen in every state: memory is as at start, tables are kept. A statement
  already sent takes effect before the crash or not at all; after it would be the
  same state, because nothing in the new process refers to that conversation
  (a group's id is never reused) or the replay finds the row. In MessageRows this is
  an assumption: the statement is over before a client of the new process reads
  the rows.

## Inventory

| Part (src/src/...) | State | Operations | Hard part |
|---|---|---|---|
| Groups: feature/chat/handlers/group.handler.ts, store/group.store.ts | `groupStore`, `groupsByUser` | create, leave, kick, promote, mute, block, delete, dissolve below three | checks before an await, effects after it, on a record that may be gone |
| Connections and rooms: chat.handler.ts, room.handler.ts, user-sockets.store.ts | `activeUserSockets`, `lastSeenStore`, Socket.IO rooms | connect, rejoin, flush, disconnect, chat:join, chat:leave | several tabs, connecting in the middle of an operation |
| Messages: message.handler.ts, message.store.ts, broadcast.ts | table `messages` | send, edit, unsend, history, offline replay | stamp, insert, broadcast are three moments |
| Reactions: reaction.handler.ts | table `message_reactions` | react, replace, remove | foreign key to a row that may go |
| Pins: pin.handler.ts, pin.store.ts | `pinnedStore` | pin, unpin, fetch, replay | lookup before an in-memory change |
| Replies: reply.ts | none | resolve the quoted message | lookup before an insert |
| Typing, read: typing-read.handler.ts | none | relay | none |
| Presence: feature/presence | `onlineUsers` | join, update, leave, list | tabs of one user share an entry |
| Notifications: feature/notification | `byRecipient`, `firstUserId` | emit, list, read, read-all | cap of fifty, several tabs, lost on restart |
| Reports: feature/admin | room of admins | emit, approve, reject | admins by token and by table; a query that may fail |
| Feed: feature/feed | none | relay | none |
| Auth, set-up: socket/, config/, index.ts | `socket.data.user` | verify a token, wire namespaces | what a token said lasts as long as the connection |
| prisma/schema.prisma, scripts/ | declarations | schema drift check | not part of the running program |

Interaction: every /chat handler of a socket shares the maps of the stores and
the namespace's rooms; group operations persist system messages through the
message store and move sockets found in `activeUserSockets`; connection reads
the group store and the message store; reports create notifications. Clients
see broadcasts to `user:<id>` rooms (one user's tabs) and `chat:<conversation>`
rooms.

What makes each part correct: groups keep three members and an admin and agree
with the index; rooms follow membership; members hold the current record; what
was sent is stored; what was missed is replayed; what was unsent is hidden; a
deleted group's history stays deleted, and no other row is without a group; a deleted message has no content, clients
are told what is stored, pins follow the list, pages of history neither skip nor
repeat; presence agrees with connections; a client's list of notifications agrees
with the server's, whichever tab reads; admins, and
nobody else, resolve reports and see the same status of one, and a post goes from
screens with an approval only.

## Modules

- **GroupLifecycle**: what group operations promise. A group is founded once
  with at least three members, loses one member at a time, and never becomes a
  pair.
- **GroupRecords**: `stored` and `group` are `groupStore` (an object still held
  by a call after its deletion is `group[c]` with `c` not in `stored`),
  `userGroups` is `groupsByUser`, `rows` the conversations with rows in the table.
  A call is a record `[h, pc, conv, who]`; `who` is the target of a departure.
  A leave and a kick differ only in their guards, as in the code.
- **GroupChat** extends it with sockets: `online`, `room`, and `view`, the last
  record sent to each socket. Each action of GroupRecords is conjoined with what
  it does to rooms and views. A connection starts with an empty view: what a
  browser keeps from an earlier one is not the server's.
- **DirectMessages**: one direct message at a time from stamp to broadcast, the
  sockets of both users, `lastSeen`, and the flush of a first connection.
- **MessageRows**: the two tables for one conversation (`rows`, `body`,
  `reaction`) and one client's knowledge of them (`known`, `told`, `toldReact`).
  A call is `[h, op, pc, m, by, arg]`; `look` is the lookup a handler decides on,
  `write` its statement, `emit` what follows. The client stays in the
  conversation (rooms are GroupChat's subject), applies what it is sent in the
  order it is sent, ignores events about messages it does not have, and
  replaces what it has by a page. A page reads rows and reactions in two queries.
- **PinBoard**: `pins` is the list in `pinnedStore` and `board` what one socket
  was told of it. Of rows only presence and the deletion mark matter, so it does
  not extend MessageRows; `Unsend` and `Wipe` are the effects of the statements
  there.
- **HistoryPages**: `getHistory` and a client that scrolls back while messages
  are stamped and, later, inserted.
- **MessageLife**: what the table promises of a message: sent once, edited until
  it is unsent, unsent for good, erased with its conversation for good.
  MessageRows implements it under the mapping `life`: a message is new until its
  row exists, and erased once its row, or the call that would have made it, is
  gone.
- **Sessions**: which of the two tokens of a handshake decides (`Chosen`), and what
  claims a connection of somebody with given tokens can have, whichever decides
  (`Admitted`). The namespaces whose handlers are not asynchronous at connection
  extend it; which token decides matters where roles do, in Reports.
- **Presence**: `onlineUsers` has one entry per user, `session` is
  `socket.data.user` of each connection, `roster` what each was told.
- **Notifications**: `inbox` is `byRecipient`, `open` the rooms `user:<id>`, `shown`
  what each connection shows. A notification is its place in the order of
  creation and its flag.
- **Reports** extends it: `desk` is the token of each connection to /report, which
  decides its room; `admins` the table the server queries. The back end changes
  roles; tokens outlive that. `Handshakes` are the cookies and tokens a browser may
  present together: the cookie is of the last sign-in, the token of the page may be
  older or of another user, so a handshake is timely if what the user last signed
  in with is. Any connection emits any report, as in the code; a payload of a verdict
  names the reporter or nobody (`us`).
- **MC...** instantiate them, and **...Proofs** hold the proofs about the module
  they are named after: **GroupRecordsProofs**, **GroupChatProofs** (which extends
  it), **DirectMessagesProofs**, **MessageRowsProofs**, **PinBoardProofs**,
  **HistoryPagesProofs**, **PresenceProofs** and **ReportsProofs** (which is also
  about Notifications).

Left out as data: names, labels, message contents, avatars, creation times of
groups, and the order of the elements of the member lists (no operation depends
on it).

History variables record why an exception applies, and steer nothing:
`contested` (two departures of a group overlapped), `overtaken` (a call was in
flight when the group's deletion began), `forgotten` (a restart lost the group, or
its deletion), `touched` (the socket moved
itself by chat:join or chat:leave), `exposed` (the recipient's disconnection
overtook a message), `raced` (unsent while in flight to a socket, or while a call
to pin it was past its lookup), `got`, `crossed` and `crossedBy` (a write took
effect while the broadcast of another was to come, or was broadcast before a page
with an older version arrived), `overrun` (unsent while an edit was past its
checks), `wiped`, `rejected`, `lapsed` in PinBoard (the last join found no pins) and in
Presence (a connection of the user closed while another stayed), `start` and
`cuts` (rows at the first page, cursors used), `made`, `emits`, `failed` and `told`
(notifications made; emissions of a report, those whose query failed, and whom
they notified), `steady` (admins ever since the process started), `outdated` (connections
to /report whose token is, or has become, older than the role of its user) and `since`
(what an approved report was given last).

In every module the operators under "Variants" are plausible mistakes that
confirm each property can fail.

## Runs

| Run | Instance | Shows |
|---|---|---|
| records | 5 users, 1 group, 3 calls | the safety properties of GroupRecords, refinement of GroupLifecycle (which has no group under three members) |
| departures_end | 4 users, 1 group, 2 calls, fairness | departures take effect, calls end |
| group_without_admin | 5 users, 1 group, 2 calls | refutes that a stored group has an admin |
| chat_two_tabs | 4 users, 1 group, 2 calls, 2 sockets of one | rooms and views of one user's tabs |
| dm_replay | 2 users, 3 sockets, 1 message, clock to 3 | nothing missed, nothing repeated but after a restart, unsent hidden |
| message_texts | 1 message, 2 users, 3 calls, 2 contents | stored and told contents agree, nothing is shown without its row but after a dissolution, unsent stays hidden, refinement of MessageLife |
| message_quotes | 2 messages, 2 calls, 1 emoji | stored and told reactions agree, foreign keys reject only after a dissolution |
| content_on_deleted | as message_texts, 2 calls | refutes that a deleted row is blank |
| pins | 2 messages, 2 calls | one pin per message, the board follows, no late pin |
| history_pages | 5 messages, pages of 2, clock to 3, fairness | order, nothing skipped but ties at a cut, scrolling ends |
| presence | 2 users, 4 connections, 2 profiles | map, connections and rosters agree |
| alerts | 2 users, 1 report, 2 desks, 2 bells of one admin, 2 emissions, cap 2 | lists and bells agree, admins are notified once, admins alone resolve but for outdated connections, desks agree and removal follows approval |

Why these bounds. Five users are the fewest for which two members can depart and
leave a stored group, which is what the loss of the last admin needs; four are
the fewest from which one departure leaves a group. Three calls let two
departures overlap a deletion or a post. Groups share nothing but the index and
the handlers, so one shows what happens to any. Sockets of different users meet
only through the records, so two tabs of one user are enough for rooms and views. `Target` bounds whom admins
mute and block and `Poster` who sends: one user each, who may also be the admin,
the target of a departure or a bystander; the others are interchangeable.
Direct messages do not interact, so one shows what happens to any; clock values
1 to 3 allow before, same millisecond and after for the three moments
disconnection, stamp and connection. A clock value of 0 is only the default of
`getLastSeen`.

A message's rows depend on no other message but through a quote, so one, or two
when quotes matter, are enough; three calls allow an edit, an unsend and the send
they overlap. `Editor` and `Reactor` bound who edits and reacts; users that are
not the sender are refused alike. `MaxBoard` bounds the pins a client away from
the room holds when it joins again. Five messages in pages of two make three
pages; three clock values put cuts before, within and after ties. `MaxShown` stops a
client whose list repeats messages, which `PagesInOrder` excludes.

Presence entries of different users are independent but for the rosters, so two
users are enough, with up to four connections each. In `alerts` the cap is two
instead of fifty: the list is then full, and cut, by the third notification;
`MaxMade` allows the admin three of them, of which the cap takes one, and the
reporter one. `MaxEmits` lets a client emit a report again before and after a verdict. `Staff`
bounds whose role changes, `Noted` whom other users notify. One report is enough:
reports share nothing but the lists. Two desks are one admin's, or an admin's and
the reporter's, with every pair of cookie and token.

No run disables the deadlock check: a restart, or a reload, is possible in every
state.

Fairness: the database answers each statement and the event loop runs what it
queued (weak fairness on the continuation of each call; for
history_pages also that the client goes on scrolling). It
says nothing of clients, clocks or crashes; a crash ends the calls in flight.

## Findings

1. **A group can lose all its admins** (group.handler.ts:168). `leave` counts
   admins before it awaits the system message and removes the leaver after, so
   two admins who leave at once, or kick each other, are both accepted. The guard
   `must_transfer_admin` exists to prevent this. `HeadlessOnlyIfContested` shows
   that it is the only way.
2. **Content can be left on a deleted message** (message.handler.ts:79). An edit
   checks the mark before it awaits its statement, which does not check it again.

Races the passing properties name as exceptions, which a maintainer should know:
a reply, or a reaction, can end the process, because its parent's row may go with
the group between the lookup and the insert, nothing catches the rejection by
the foreign key, and the lookup is there to avoid it (message.store.ts:170;
`RejectedOnlyIfWiped` shows that it takes a dissolution);
two departures of one user that overlap write two system messages, the second
after the user is gone (`contested`);
messages of a deleted group come back if a send was in flight (`overtaken`); a
departure that resumes after the deletion with three members left re-sends
`group:updated` and the deleted group reappears on clients; a direct message
stamped before the recipient's last disconnection and broadcast after it, or
stamped in the same millisecond, or found by a flush whose socket closes, is
neither delivered nor replayed (`exposed`); a message unsent during a flush stays
on that screen (`raced`); two writes, or two reactions of one user, that overlap
may be broadcast in the other order than stored, and a page may bring back an
older version (`crossed`, `crossedBy`); a socket that rejoins an empty list keeps
the pins it had (`lapsed`); messages that share the millisecond a page is cut at
may be on no page (`cuts`); after a restart a first connection is sent every direct
message its user ever received; who closes one of two tabs is shown offline and
cannot change their profile until they connect again (`lapsed`); a report that is
emitted again after a verdict shows as pending again, and one resolved both ways
stays removed; a failed query of the admins is acknowledged like a success
(`failed`); an expired cookie refuses a connection whose page has a good token; an
admin whose role was taken away resolves reports until the
connection closes, and after it while the old token lasts (`outdated`); messages of groups that a
restart forgot stay in the table (`forgotten`); an edit of a message whose group was
dissolved is broadcast although nothing is stored (`wiped`).

A comment calls notifications DB-backed (notification.handler.ts:11); the store
keeps them in memory and says so (notification.store.ts:18). `KeepsNewest` is
about what was made since the process started.

Not covered by a property: pins of a dissolved group stay in memory and pins of
an unsent message keep its content (the code promises nothing about it); the live copy of a reply
carries the client's wording of a quote whose message is gone, while pages of
history omit it.

## Not modelled

- Typing and read receipts, and the feed: each event is relayed to other sockets in
  the step that receives it. The server keeps nothing, so there is nothing a
  property could relate the event to but the event itself.
- jwt.verify, CORS, the HTTP server, env and the Prisma client: libraries and
  configuration, fixed before the first connection. Of setup.ts the wiring of each
  namespace to its handler is part of the actions that connect and disconnect;
  its log lines are left out.
- schema.prisma, the drift check and the type declarations (dto/, type.ts): build
  inputs. The foreign keys of the schema are in MessageRows.
- The wording of replies' snippets, system messages, notifications and reports.

## Proofs

Each invariant and action property of a passing run, and each refinement, is the
conclusion of a theorem `Spec => [](...)`, `Spec => [][...]_vars` or `Spec =>
AbstractSpec` in the module named after its own with `Proofs`. The constants are
arbitrary but for the named assumptions; a bound such as `MaxTime` may be any
number. Every clause of the inductive invariants was checked by TLC first.

| Module | Theorems | Inductive invariant |
|---|---|---|
| GroupRecordsProofs | types, index, roles, admins, departures, erasure, GroupLifecycle | `IndInv`: `RecordInv`, `DepartureInv`, `EraseInv` |
| GroupChatProofs | GroupRecords, types, views, rooms, nothing left shown | `SocketInv`, given `IndInv` |
| DirectMessagesProofs | types, persisted, nothing missed, repeats, unsent hidden | `IInv`: `Base`, `Hidden`, `Reaching`, `Repeating` |
| MessageRowsProofs | types, blank, rejection, told texts and reactions, unsent stays hidden, MessageLife | `RowInv`; `TypeInv`, `ContentInv`, `KeptInv`, `ReactionInv` |
| PinBoardProofs | types and uniqueness, board, late pins | `PinInv` |
| HistoryPagesProofs | types, order, nothing skipped | `PageInv` |
| PresenceProofs | types, map, rosters | `IInv` |
| ReportsProofs | types, lists, bells, emissions, who resolves, desks | `NotesInv`, `SameMarks`, `DeskInv`, `CountInv` |

GroupRecordsProofs assumes of the constants only that `User` is finite and that
`Target` and `Poster` are subsets of it (`UserAssumption`).

- `RecordInv` (types, size, index, roles) is inductive alone: dissolving removes
  the group from the index of all of `members ∪ blocked ∪ {who}`, which by
  `IndexMatchesMembership` is everybody it is in.
- `DepartureInv` needs two strengthenings. `SoleDeparture`: an uncontested group
  has at most one departure in progress, so resuming it leaves none.
  `AdminStays`: that departure leaves an admin behind; the guards establish it
  (`GuardsKeepAdmin`: a set that is not empty and not a singleton has another
  element; a kicker is an admin other than the target) and nothing but a departure
  takes the role away. Together they give `HeadlessOnlyIfContested` and
  `DepartingStillMember`.
- `EraseInv`: a call that may insert belongs to a stored group or was overtaken
  by its deletion. With it `RowsHaveGroup` is inductive: rows of a group no longer
  stored are about to be erased, or an overtaken call or a restart left them; a
  deletion that was acknowledged is neither about to erase nor forgotten.
- `ImplementsLifecycle` maps a group to its members while it is stored, and to the
  empty set before and after. A departure that finds its target gone, or the
  group deleted, is a stutter; one that would leave two is a dissolution.

GroupChatProofs assumes moreover that sockets have owners (`OwnerAssumption`). Each
step of GroupChat is a step of GroupRecords or leaves the records alone
(`ChatStepIsRecordStep`), so it implements GroupRecords and `IndInv` holds of it. The
three properties of rooms and views are stated of one conversation (`Current`,
`InRoom`, `Mine`), and conversations share only the list of connected sockets, so that
an operation on a group has to be looked at for its own (`Only`). They are inductive
given `IndInv`: a connection is put into the groups the index names, which by
`IndexMatchesMembership` are those it is a member of; a departure that resumes
after the deletion sends the record of a group no longer stored, and is by then
`overtaken` (`EraseInv`). `Blank` says that a socket that closed shows nothing.

DirectMessagesProofs assumes that sockets have owners and that the clock has a
bound (`SocketAssumption`, `TimeAssumption`); the bound may be any. The invariant
has four parts, and each of the last three is preserved given the first.

- `Base`: what was inserted, sent or found by a query has a row and a stamp
  between the start and now. `DeliveredIsPersisted` is a part of it.
- `Hidden`: a message whose unsending is over is `raced` if it is still to be
  broadcast or a replay holds it. It makes `UnsentIsHidden` inductive.
- `Reaching`: `InFlightIsNew`, a message on its way to somebody who is away was
  stamped after they left, is what the broadcast to nobody needs for
  `NothingMissed`; after a crash it is `lastSeen` 0, before every stamp.
- `Repeating`: one connection of a user replays at a time (`OneReplays`); what a
  user who is away was sent is not after `lastSeen` (`SentBeforeLeaving`), so a
  query under way finds only what its own connection was shown since
  (`ShownMeanwhile`). Hence `RepeatsOnlyIfForgotten`.

MessageRowsProofs assumes of the constants `UserAssumption` (who edits and reacts
are users) and `MessageAssumption` (each message has a sender, a kind and what it
quotes). `RowInv` says of each row that it has content until it is
unsent and none after but for an overrun (`RowOK`), and of each call how far it
relies on the rows (`EditOK`: past its checks, a row deleted since is overrun;
`SendOK`, `ReactOK`: what is quoted or reacted to has its row unless the
conversation was wiped), and that an id is sent by one call (`SentOnce`).
`ImplementsLife` follows: only the insert makes a message live, and of an id once;
writes to a row that is deleted or gone are stutters of the life; a dissolution
and a restart erase what had, or would have had, a row.

The four invariants of what clients are told rest on it.

- `TypeInv`: what a client, a page or a handler other than chat:message knows of has
  been inserted (`Seen`), and an insert is sent once, so a row that is gone does
  not come back under the same id.
- `ContentInv`: of a message that is not among the exceptions at most one
  broadcast is to come, and it says what is stored; when none is to come the client
  has what is stored (`ContentOK`). A page's version is the stored one, or the
  broadcast of the write it misses is to come or has crossed it (`PageOK`). Nobody
  takes a message for unsent before it is, and a page does not take that back
  (`DeletedOK`). `UnsentStaysHidden` follows.
- `KeptInv`: a message that was inserted keeps its row, before its broadcast and
  after, until the conversation is wiped. `ToldIsStored` follows from it and
  `ContentInv`.
- `ReactionInv` is the same for the reaction of each user to each message; it
  needs no part of `ContentInv`, because chat:message says that there are none.

PinBoardProofs assumes that the bound of the board is a number (`BoardAssumption`).
`Without` is written by ranks: the n-th element it keeps is the one with n kept
positions up to it. The lemmas on ranks (each rank up to their number is met by one
position, since an injection between finite sets of one size is onto) then give
what a filter of a list does: it keeps the order, that no message is there twice, and
prefixes (`WithoutPrefix`), which `BoardFollowsPins` needs because it is a prefix and
not an equality. That no message is pinned twice is part of `TypeOK`, and inductive
because the step that adds to the list looks at it. `LooksHold`, a call past its lookup found a message that is
not unsent or has been `raced` since, gives `NoLatePin`.

HistoryPagesProofs assumes `PageAssumption` (ids are numbers, a page holds at least
one message, the clock reaches 1); there may be infinitely many ids, and that the
table is finite is part of the invariant. `Newest` is written by places in the
order of the table, and the lemmas on places are those on ranks. The cursor parts
what the client shows from what a page is taken from (`Parted`), which with
`FoundInOrder` makes `PagesInOrder` inductive. `Covered` says where the messages of
the first page's moment are: those from the cursor on are shown or share the
millisecond of a cut; while a query is answered, those before it are found or
older than a full page. When no more is to come that is `NothingSkipped`.

PresenceProofs assumes that the values for nobody and for no or a bad token are
none of the others (`NoneAssumption`, `CredentialAssumption`). The three
invariants of the module are inductive together: a connection speaks for the user
whose token it was opened with (`ConnectSpeaksFor`), and each broadcast makes the
same change to the rosters as its handler made to the map.

ReportsProofs assumes that bells have owners (`BellAssumption`), that the cap and the
bounds are numbers and the cap is not 0 (`CapAssumption`, `ReportAssumption`) and that
the values for no and a bad token are none of the others (`CredentialAssumption`). The
invariant has four parts; the first two rest on `CountInv` and on each other.

- `NotesInv`: lists and bells. Steps reach the lists in four ways only (`NotesStep`;
  that an emission notifies users, and nobody else, is from `CountInv`);
  `PushedList` says what the insertion and the cut make of one. A bell is compared
  with the list without the rows the cap has dropped since (`ShowsList`).
- `SameMarks`: the connections of a user show the dropped rows with the same marks as
  well. A new notification is none that is shown (`ShownIsMade`), and a list that is
  asked for holds none of the dropped (`ListedOnce`), so that marks alone change it,
  and those reach all.
- `DeskInv`: a connection that is not outdated has the token of its user's role
  (`TimelyDesks`), because a change of role outdates the user's connections and a
  cookie hides the token of the page; one that is not connected was told nothing
  (`Fresh`). With that `ResolvedByAdmins` and `DesksFollowVerdicts` are inductive.
- `CountInv`: the emissions in flight are finitely many and different (`CallsOK`), and
  one whose query was answered holds every user who was an admin all along. So
  `NotifiedOncePerEmission`, which counts the emissions of a report still in flight,
  survives each step: one more when it begins, one less when it ends or fails.

Only model-checked: `AcceptedCallsComplete` and `ScrollEnds`. They are liveness under
fairness, which needs ENABLED, and the prover does not cover that. The two runs
that refute a property have nothing to prove.

## Plan

Every safety property has its theorem. What is left is to keep it so: a new operation
is a new case of its module's step lemmas, and a new exception (a history variable)
enters the clause that names it.
