# XinChat: a TLA+ verification project

XinChat is a messaging system: one API server in Go (`services/api`, over
PostgreSQL and optionally Redis), a web client (`apps/web`), a mobile client
(`apps/mobile`), a desktop shell (`apps/desktop`) and an administration site
(`apps/admin`). This directory holds TLA+ modules that follow its code
statement by statement, the TLC configurations that check them, and proofs
checked by TLAPS.

Three facts about the code shape every module:

- **A handler is a sequence of SQL statements that commit one by one.** There is
  no transaction around a handler. A value it has read (a status, a role, a
  count) may be stale when the next statement uses it. The guards that are safe
  are the ones in the `WHERE` clause of the statement that writes.
- **A handler runs under the context of its HTTP request.** If the client goes
  away, the remaining statements and whatever they guard do not happen. If the
  server stops, everything in memory is lost: ring timers, sockets, the set of
  revoked sessions.
- **Clients are driven by two channels that are not ordered with each other**:
  the answers to their REST requests and the events on their WebSocket.

## 1. Inventory

Each part lists the state it keeps, its operations, how it interacts, what is
hard about it and what makes it correct. The status of each is in section 3.

### Calls (`call_handlers.go`, `group_call_handlers.go`)
- *State*: `call_sessions` (status, initiator, answering device),
  `call_participants` (one row per user: ringing, invited, joined, left,
  declined, kicked), the one chat message that records the outcome, and one
  `time.AfterFunc` per call.
- *Operations*: start, answer, decline, hang up, invite, kick, and the ring
  timeout after 30 s.
- *Interacts*: publishes `call.ring`, `call.answered`, `call.ended`,
  `participant.*` through the hub; hands out LiveKit tokens.
- *Hard*: two devices answer; an answer races the timeout, the hang-up or a
  second start; a request is cut off between its UPDATE and the one that
  depends on it; the timer dies with the process.
- *Correct*: one device wins a direct call; a missed or declined call was
  answered by nobody; what is announced agrees with the row; one open call per
  conversation; ringing ends.

### Hub and presence (`internal/ws/hub.go`, `ws_calls_handlers.go`, `async_jobs.go`)
- *State*: the set of connected clients under one RWMutex, one buffered channel
  per connection, `users.status`, and a bounded pool of presence jobs.
- *Operations*: register, unregister, publish to users, sessions or everyone,
  kick sessions, the read and write pumps, presence jobs.
- *Hard*: a send on a closed channel panics; a kick sends after it released the
  lock; a slow reader fills its buffer; counting the connections of a user is a
  step of its own; presence jobs are not ordered.
- *Correct*: publishing never panics; a kicked connection ends; presence
  agrees with the connections.

### Sessions (`auth_handlers.go`, `session_revoke.go`, `session_revoke_redis.go`, `admin_session_handlers.go`)
- *State*: the table `sessions` (refresh token hash, device type, `revoked_at`),
  `users.banned`, an in-memory set of revoked sessions per process and its copy
  in Redis, open sockets.
- *Operations*: login, refresh (rotation), logout, revoke, ban, password reset,
  the WebSocket handshake, kicks across processes.
- *Hard*: two logins of one device type; a refresh token used twice at once; a
  login under way while the account is banned; a handshake that was accepted
  before and registers after a revocation; a restart without Redis.
- *Correct*: one session per device type; a refresh token is redeemed once; an
  acknowledged sign-out is honoured at once, everywhere and for good, as far as
  Redis, which is best effort, carries it.

### Messages (`message_handlers.go`, `status_edit_handlers.go`)
- *State*: `messages` (body, `edited_at`, `recalled_at`, unique `client_msg_id`).
- *Operations*: send (idempotent by `client_msg_id`), edit, recall, list.
- *Hard*: write and publish are two steps, so the events of two requests may be
  published in the other order, or not at all when the request is cut off between
  them; answers overtake events.
- *Correct*: together with the web client's merge rules, everybody whom the events
  reach ends with the messages that are not recalled, with their stored text.

### Friends and direct conversations (`friend_handlers.go`, `conversation_prefs_handlers.go`)
- *State*: `friendships`, directed rows that are looked up in both directions
  and turned around by UPDATE; direct conversations and their member rows.
- *Operations*: request, accept, reject, block (by user or by row), unblock,
  open and delete the conversation.
- *Hard*: crossing requests; find-then-insert of the conversation; a block that
  turns the peer's row around; deletion removes the row by which the
  conversation is found.
- *Correct*: answered once; friends have one conversation; a block stands until
  its author lifts it.

### Groups (`message_handlers.go`)
- *State*: `conversation_members` (role, `history_visible_from`), `conversations`.
- *Operations*: create, join, approve, add, remove, leave, appoint and demote
  administrators, dissolve; also muting, settings, clear-history.
- *Hard*: capacity is counted in one statement and used in another; roles are
  read before they are needed; notices are published after the change.
- *Correct*: the owner stays; a member keeps the history they see; the limit
  holds; administrators do not remove administrators; lists agree with rows.

### Other parts of the server
| part | state and operations | hard | what makes it correct |
|---|---|---|---|
| Read state and preferences | read watermark, receipts, mute, favourite, mark-unread, clear | watermark moves only forward, two devices read at once | unread counts agree with watermark and messages |
| Pins, reactions | pin set, the one pin of older clients, reaction rows | two representations of the pin; toggle and count | both representations agree |
| MFA | secret, pending secret, recovery codes | set-up twice at once, a recovery code used twice | a code works once |
| Login guard, rate limits | in-memory counters per window | boundary of the window, eviction | the limit is kept |
| Cluster fan-out | Redis publish and subscribe of events and kicks | lossy, reconnecting | an event published while subscribed is delivered |
| Push | devices and tokens, calls to the vendors | token expiry | a revoked device gets nothing |
| Media, whiteboard | blobs and references | last reference | a blob in use is kept |
| Administration | CRUD behind permissions, ban and reset | see Sessions | see Sessions |
| Retention | one DELETE on a timer | what refers to deleted rows | no dangling pin |
| Start-up, migrations | sequential | crash midway | each migration is one transaction |

### Clients
- **Web chat client** (`useChat.ts`): the list of conversations, the list of
  messages, merge of events, answers and loads, typing, presence, unread
  counters. Hard: a load that read the state before an event and arrives after it.
- **Sending** (`useChat.ts`, mobile `ChatContext.tsx`): the entries of messages that
  are being sent, their uploads and POSTs, cancel and retry. Hard: the answer, the
  echo on the WebSocket, a cancel and a reload of the history in any order.
  Correct: a cancelled upload is not sent; an entry says what became of its
  message; a stored message is shown.
- **Calls** (`useCall.ts` on the web and on mobile): the call on the screen, the one
  that rings, requests under way, attempts to connect, the media room. Hard: every
  `await` lets an event or a button in; an attempt that is overtaken owns a room;
  requests fail and answers are lost. Correct: a live microphone belongs to the call
  on the screen; no call is left without asking the server to end it.
- **Client sessions** (`api.ts` of web and mobile, `AuthContext.tsx`,
  `apps/desktop/src/main`): the token of the page, its copy in the vault of the
  desktop shell or the SecureStore of the phone, one refresh per process. Hard:
  refresh tokens work once, and the server takes a second use for a theft; tabs,
  page and main process do not share the refresh; copies travel by scripts and
  messages. Correct: the newest token is kept; the network signs nobody out; a
  sign-out lasts.
- **Desktop shell**: besides that, windows, tray, updates.
- **Administration site, shared packages, scripts, load generator**: no
  concurrent state of their own.

The hazards, each at its line and with the properties that cover it, are listed
in `PROJECT.json` under `hazards`; those that the code does not exclude, or that no
module covers yet, say so.

## 2. Plan

In order of importance; each line is a set of modules.

1. **CallLifecycle, CallSession** - the API's promise about one call and the
   handlers that implement it. *Done, proved.*
2. **WSHub** - the connections of one process. *Done, safety proved.*
3. **Sessions** - sign-in and sign-out across processes. *Done, proved.*
4. **MessageSync** - messages from the row to the screen. *Done, proved.*
5. **Friends** - friendship and the direct conversation. *Done, proved.*
6. **Membership, Groups** - the promise about membership and the handlers that
   implement it, with the list of conversations. *Done, proved.*
7. **CallClient** - the call hook of the web and of the mobile client, with the
   server of CallSession as its environment. *Done, proved.*
8. **Outbox** - a message that is being sent, on the web and on the phone. *Done,
   proved.*
9. **ClientAuth** - the tokens of a device, with the server of Sessions as its
   environment. *Done, proved.*
10. **ReadState** - watermark, receipts, mark-unread and clear-history with the
    unread counter of the client.
11. **Pins** - the two representations of a pin, recall and retention; reactions.
12. **LoginGuard, MFA** - small modules with numeric edges.
13. **ClusterFanout** - the lossy fan-out of `cluster_redis.go` composed with
    WSHub, and the reconnect of the chat client composed with MessageSync; then
    the mobile client's merge rules against MessageSync.

Theorems planned: for each new module its type invariant and the safety invariants its
run checks, as for those above; then the mobile client's merge rules as a second
implementation of the promise of MessageSync.

## 3. What is modelled

Common conventions. A request is a *worker* `w` with a program counter `pc[w]`
(`step[w]` in MessageSync); `"idle"` means that it has none. One action is one
statement that reads or writes shared state, with the checks and publishes that
follow it up to the next statement. Locals of the handler are variables indexed
by worker. Some properties hold only while the server handles one request at a
time: modules that need it record in a history variable that two requests have
been under way together (`overlapped`), that a list was asked for (`loaded`), that
a conversation was deleted (`deleted`), that an event did not reach a client
(`astray`, `missed`), that a mark, a request or an answer was lost (`lost`) or that a
notice and a list crossed (`misled`), and the property says "unless". One run then checks
what always holds and what holds without overlap in the same state space. Only
Sessions has a constant `Serial` for this, since the product of two processes and
overlapping requests of every kind is too large. What no handler of the module changes (names, tokens, the kind of a
conversation) is part of the step it guards. Payloads are model values.

### CallSession (implements CallLifecycle)
One conversation, `IsGroup` or direct. `status`, `host`, `answerer`, `part` and
`note` are the rows; `timer[c]` is the goroutine of the `AfterFunc`, with its
UPDATE and its announcement as two steps; `announced`, `rung` and `granted` are
what the server has told clients. `Arrival` is one of six requests, with what
it loads first; `Serve` is the next statement. `Disconnect` cancels the context
of a request: its next statement fails and the handler returns or, where the
code ignores the error, goes on. `Restart` loses requests and timers, not rows.
Left out: push notifications, the content of the LiveKit token, typing frames.

### WSHub
One process. `conn[c]` is the goroutine of `handleWS` and `readPump`, `pump[c]`
the one of `writePump`, `queue[c]` and `shut[c]` the channel, `readers` the
holders of the read lock. A worker publishes (under the lock, dropping when the
buffer is full) or kicks (collects under the lock, sends after). A presence job
waits for a slot and writes `users.status`. Each connection is opened once,
which is how the code makes them. Left out: client frames other than close,
metrics, ping timing (a broken socket is `Disconnect` at any time).

### Sessions
One user's sessions on any number of processes. `mem[p]` is `revokedSessionIDs`,
`redis` its copy, `bus` the kicks between processes, `ws` the sockets.
`acked` records the sessions whose end a client was told of and by which process.
`heirs[s]` are the sessions issued for the refresh token of `s`. Redis is best effort,
as in the code, and `Faults` says which of its operations may fail: a mark that is
not stored (`Mark` draws which of them are, `lost` records the others), a read that is
answered by an error, which counts as no mark (`Accepts`, `LetsIn`), and a kick that
does not reach a process (`Kick` draws which it reaches, `missed` records the others).
Left out: expiry of tokens and of the marks (the marks' 24 h exceed the life of an
access token), registration, captcha, MFA, other users.

### MessageSync
One conversation and its clients. `row` is the table, `ws[c]` the events on
their way in the order of publication, `replies` the answers on their way in any
order (or lost), `loads` the lists. `view[c][m]` is what `useChat.ts` shows:
nothing, a pending or failed entry, a notice, or a text. The handlers of events
and answers are the merge rules of that file. `Dm` selects what a list says of a
recalled message. `Publish` reaches any subset of the clients: none when the request
was cut off and finds no members, some when a socket is down, a queue is full or
another process is not told. `astray` records who was not told of which message, and a
recall that was announced though its UPDATE failed.

### Friends
Two users, rows `Ids`, conversations `Convs`. `status`, `from` and `member` are
the tables; `answers` records what clients were told, and `blockers` who was last
told that they block, until they lift it. In accept
the SELECT and the checks on it are one step with no write before the UPDATE,
whose WHERE repeats them. Assumed: contexts are not cancelled.

### Groups (implements Membership)
One group, `role` and `since` (which value of `history_visible_from`) per user;
`inbox`, `listed` and `loads` are the WebSocket, the list of conversations and
its reloads in the clients that are followed. A client loads its list when it is told
of an admission (`HearAdded`) and at any other time (`Load`: the page opens, a message
of a conversation that is not listed arrives, a friend accepts ...); a load may fail, and
answers arrive in any order.
A new group is listed by nobody until they load: handleCreateGroup tells nobody. A
notice may miss a client. `misled` records the clients that missed a notice or a list, or
heard a notice before a list that was read earlier and says otherwise.
`dissolve` deletes the rows after
it has read whom to tell. `forget` is the DELETE of handleDeleteConversation,
which anybody but the owner may send and which ignores how many rows it hit.
Left out: muting, settings, clear-history (they change neither rows nor lists), and
the client's own step after its leave or delete was answered, which takes the group
from its list as the notice does (`useChat.ts:1901`). Assumed: the members told of a
change are read and told in one step; contexts are not cancelled.

Membership is the life cycle by itself: ask, be admitted once, appointed,
depart, and the owner stays until the group is dissolved.

### CallClient
One window, `app` = web or mobile. `active` and `incoming` are the React state of the
same names, `ops` the functions that wait for an answer (start, answer, hang up,
tell), `at`, `target` and `room` the activations of `connectLiveKit`, `roomRef`,
`current` (`connectGenRef`) and `ending` the refs. An action is the code between
two awaits; the web and the mobile function of one name are two actions, since
their guards differ. `srv[c]` is the call on the server as far as this user can tell, with
what CallSession allows (`Serve`, `Peers`, `EndBy`, `DeclineBy` are mapped to its handlers).
A hang-up may fail on its way, which the client does not look at (`Unheard`), and the
server may act on a start or an answer and its reply be lost (`Refuse`); `lost` records
the calls concerned. `trouble` says that the media of the call shown `"failed"` or were
lost, or that its room was `"taken"` by a kick from another call or by the failure of an
older attempt. `Drop` loses the events on their way.
Left out: devices, screen sharing, statistics, the ring tone, the participants'
list, and the pop-out window, which nothing in the application opens.

### Outbox (web and mobile)
A send `e` has a kind (text, file, voice, an image that is already on the server), a
program counter `at[e]`, an entry `shown[e]` and a request `post[e]`; `cancelled` and
`aborted` are the ref and the controllers. A retry is a new send, since the code
gives it a new `client_msg_id`. `stored`, `echo`, `load` are the server and what is
on its way; a lost echo is `Miss`, a lost answer `Lose`. The functions are defined as
the steps they consist of (`webSendMediaMessage` ...), so each is mapped to its lines.
Left out: progress, previews, mentions and replies, the text of errors.

### ClientAuth (two tabs, the desktop shell, or the phone)
Tokens are numbers in the order of issue; the server (external; Sessions has its
statements) knows the good one. `flight[f]` is one POST to refresh, `promise[t]` the
`refreshPromise` of a process, `page` the token that `api.ts` would use, `saved` the
vault or the SecureStore, `writes` the SecureStore writes under way, `toMain` and
`toPage` the messages and injected scripts of the shell. A reload leaves requests
behind (`"gone"`): the server may still serve them; the main process hears of the page
that has loaded behind what the old one sent (`"loaded"`). The server refuses a token that
is not good (`Reuse`), and may answer 401 or 403 to one that is, when its database fails or
the user is banned (`TurnAway`); a proxy may answer in its place before or after it has
rotated the token (`Blip`). `causes` is a history of the named events after which the
newest token may be lost; the properties say "unless".
Assumed: the user asked to be remembered. Left out: the injection for a window that
starts hidden and the one on dom-ready (the same script again), access tokens (they
expire at any time), the user's other devices, whose sessions a token used twice ends too
(`auth_handlers.go:659`), and other users of the machine.

### Not modelled
Listed under `components` with the reason. In short: the parts of the plan from
10 on; media, push and LiveKit, which are I/O to other services; CRUD behind a
permission check; start-up and migrations, which are sequential. Screens, which
make up most of the lines of the clients, render what the hooks above hold.

## 4. Runs

All runs are exhaustive. Every run sets `CHECK_DEADLOCK FALSE`: a system in which
all ids of calls, sessions, connections or messages are used up and nobody asks
for anything more is at rest, not stuck. Whether something remains undone in such
a state is what the properties with "once everything has arrived" and the
liveness properties say. Symmetry is used for safety only. Type invariants are
proved (section 5).

### Runs that pass
| run | instance | shows |
|---|---|---|
| calls_dm | 1 direct call, 2 users with 2 devices, 3 requests at a time, cut-offs | whoever wins the race between answer, decline, hang-up and timeout, row, tokens and announcements agree (`UnansweredOutcome`, `SingleAnswer`, `AnnouncedEndIsTrue`) |
| calls_group | 1 group call, 3 users, all requests, 2 at a time | the same with late joiners, invitations and removals (`ImplementsLifecycle`); what a request has read still supports its next step (`RequestsAgree`) |
| calls_live | 2 direct calls, 1 request at a time, cut-offs, 1 restart, fair | a redial replaces what is open (`OneOpenCall`); no call rings for ever while the process lives (`RingEnds`) |
| hub | 2 users, 2 connections, 1 worker, 1 presence slot, buffer of 1, fair | publishing never panics; a kicked session with one connection is closed and both goroutines end |
| sessions_one_at_a_time | 3 sessions, 2 device types, 2 processes, Redis, kicks that may be lost, `Serial` | one session per type, one use of a refresh token, a banned user is out; a session that was signed out has a socket only where its kick was lost |
| sessions_cluster | 2 sessions, 2 processes, Redis whose writes and reads may fail, cut-offs, 1 restart, overlapping | an acknowledged sign-out holds on every process that can read Redis if its mark was stored, and on the process that acknowledged it until a restart |
| sync | a group, 2 clients, 2 messages, 2 texts, 2 requests at a time, 2 edits, recalls or lists, up to 2 missed announcements | once everything has arrived every member shows, of the messages whose events reached it, exactly those that live (`EventsSuffice`), readers with their stored text (`ReadersAgree`), and none of them is offered for a retry if it was stored (`FailedIsRepaired`) |
| friends | 2 users, one open, one approving, 2 requests at a time, deletions and blocks | answered once, friends have a conversation; without overlap one row, one conversation, and the block stands |
| groups | 3 users, capacity 2, 2 overlapping requests, the client of one user, notices that are slow or missed and two loads at any time, which may fail | owner, history and the life cycle of Membership; without overlap the limit holds, who has become a member finds the group, who has left does not list it, unless the client missed something or a list crossed the notice |
| call_client | 1 direct and 1 group call, 2 attempts to connect, 1 event on its way, 2 requests at a time, hang-ups and answers that are lost, web or mobile | a live microphone belongs to the call on the screen (`MediaHasCall`), on the web a call shown as active has media or is getting it (`ActiveHasMedia`), and no call is left open with nobody telling the server unless something about it was lost (`LeftIsTold`) |
| outbox | 2 sends of any kind, 2 loads of the history, web or mobile | a cancelled upload is not sent (`CancelledIsGone`); once everything has arrived, entries are true (`SettledTruth`) and stored messages are shown (`StoredIsShown`) |
| client_auth | 3 tokens, 2 refreshes, 2 restarts or reloads, 2 messages or scripts under way; a browser with 2 tabs, the shell, or the phone | the device keeps the newest token unless a named race happened (`InStep`), only those end a live session (`ReuseHasCause`), the network signs no browser out (`KeepsThroughBlip`), a sign-out lasts (`SignedOutStaysOut`) |

### What the code does not guarantee
These behaviours of the models were found with TLC while the properties were being
stated, and followed to the lines named here. Each is the reason for a condition
of a property.

- *Calls.* After a restart nothing re-arms the ring timer (`call_handlers.go:275`), so
  `RingEnds` is about the process that armed it. A start announces as replaced every
  call it saw ringing, also one answered meanwhile (`:185`); a late decline
  announces the end of a group call (`:594`) or a direct one (`:625`) that has become
  active: only `missed` and a hang-up's `ended` are in `AnnouncedEndIsTrue`. Start answers "a call is already in
  progress" from a SELECT (`:144`) and inserts later: in a group an answer in between
  leaves two active calls (hence one request at a time in the run of `OneOpenCall`; the
  theorem needs only that starts are apart from each other and from that answer). A decline
  overwrites `kicked` (`:567`). An invitation that names a removed member is refused after
  some invitees were recorded, who are never rung (`group_call_handlers.go:64`).
- *Hub.* When two connections share a session, a kick that panics on a channel
  closed meanwhile leaves the later victims connected (`hub.go:226`):
  `KickedAreClosed` and `KickedLeave` are about sessions with one connection. The
  presence job of an old disconnect may run after the reconnect and mark the user
  offline (`ws_calls_handlers.go:96`), and two connections that register before
  either counts are both the second (`:55`), so presence has no property.
- *Sessions.* Two overlapping logins of one device type both stay
  (`auth_handlers.go:200`); a login that checked the account before a ban inserts its
  session after it (`:185`); a handshake accepted before a revocation registers
  its socket after the kick (`ws_calls_handlers.go:35`); without Redis a restart
  forgets the revoked sessions (`session_revoke.go:16`). Hence `Serial` in one run
  and Redis in the other. And Redis is best effort: the error of the write of a mark is
  ignored (`session_revoke_redis.go:32`), a read that fails lets the session in (`:42`),
  and the kick is published in a goroutine that logs its error, to the processes that are
  subscribed at that moment (`cluster_redis.go:54`). So after an acknowledged sign-out the
  access token may still be good on another process, or everywhere after a restart, and
  a socket may stay open on another process. `AcknowledgedStaysOut` therefore speaks of
  marks that were stored and processes that can read Redis, and, whatever Redis does, of
  the process that acknowledged until a restart; `RevokedHasNoSocket` excepts the
  processes a kick has not reached.
- *Messages.* A list read before a recall brings the message back when it arrives
  (`useChat.ts:307`), hence `~loaded`; in a direct conversation the late answer to
  the POST overwrites the recall notice (`useChat.ts:1177`), hence a group. Two
  edits may be published in the other order, hence `~overlapped` in `ReadersAgree`.
  When the request's context ends after the INSERT, or after the UPDATE of an edit
  (`status_edit_handlers.go:141`), the members are not found and what was stored is not
  published (`message_handlers.go:1439`): only a reload shows it, and the author, who has
  lost the answer with the connection, is offered a stored message for another attempt.
  Events in a gap of the WebSocket are not asked for (`useChat.ts:989`), and a recall whose
  UPDATE failed is announced (`message_handlers.go:1530`). Hence `astray` in the three
  properties of MessageSync: they are about the clients that the events of a message have
  reached. Marking a conversation unread moves the watermark back without a condition,
  over a read in between (`conversation_prefs_handlers.go:70`).
- *Friends.* Two requests that both find no conversation create one each
  (`friend_handlers.go:264`); opening again after a deletion creates a second one
  (`conversation_prefs_handlers.go:126`), of which one at most is shared; crossing
  requests leave a row in each direction (`friend_handlers.go:512`); a second
  block takes over the first, and its unblock lifts both (`:574`).
  With a row in each direction, left by crossing requests, the UPDATE of a block by
  row violates the unique constraint; the error is ignored and the block that did
  not happen is answered 200 (`:590`): `BlockStands` is about requests that do not overlap.
- *Groups.* Admissions that overlap exceed the limit (`message_handlers.go:884`); an
  administrator removes another who was appointed meanwhile (`:447`); the notice of
  a removal arrives after that of a new admission (`:465`). Who is added at the creation
  of a group is not told (`:275`), and a notice that falls into a gap of the WebSocket is
  not repeated. The client loads its list in many places (`useChat.ts:376`, `:474`, `:753`,
  `:774`, `:840`, `:1106`, `:1826`) and shows whichever answer comes last (`:280`): one that was
  read before an admission and arrives after the list the notice asked for takes the
  group away again, one read before a removal brings it back, and a load that fails
  changes nothing (`:293`). These are the clients that `misled` excepts from
  `MemberIsListed` and `LeaverIsUnlisted`.
- *Sign-in limits.* The guard is asked before the password is checked and told
  afterwards: parallel attempts pass before any is counted (`rate_limit.go:117`).
- *Call clients.* On the web nothing is asked after the wait for the microphone
  (`useCall.ts:573`): a hang-up or the end of the call meanwhile leaves a live room
  without a call (`overtaken` in `MediaHasCall`); on mobile two attempts that release
  at the same moment leave one room without an owner. After the answer to start or
  answer the call is shown whatever has happened to it (`:1034`). A `call.answered` that
  overtakes the answer to the caller's own POST is dropped, and the caller of a direct
  call does not join. The mobile client lets go of its room at the end of any call
  (mobile `useCall.ts:666`) and does not hang up its earlier call when it answers another,
  hence "web" in `ActiveHasMedia` and `LeftIsTold`. The answer to start can replace a
  call that became active meanwhile (`displaced`). On the web a removal by the host of
  one call releases the room of another (`:927`), and so does the failure of an older
  attempt (`:813`): the call stays on the screen without media (`trouble` is `"taken"`).
  A hang-up that fails is swallowed (`:403`, mobile `:312`), and when the answer to start or
  answer is lost (`:1022`, `:1086`) the client shows nothing while the call is open on the
  server: both leave a call that nobody ends (`lost`). The decline of a direct call that has
  been answered meanwhile announces an end although the call goes on, and takes the
  call from the screen (`call_handlers.go:625`, also in `lost`).
- *Sending.* A retry has a new `client_msg_id`, so a message whose answer and echo were
  lost is stored twice. An image already on the server is looked for by its
  `client_msg_id` when its POST fails: an entry that the echo has settled is marked as
  failed (`useChat.ts:1309`, mobile `ChatContext.tsx:1393`); and the retry of one on the web
  sends its caption as text (`:1713`). A cancel while the POST is in flight does not stop
  the message, and a reload of the history drops entries that are being sent until
  their answer or echo comes.
- *Client sessions.* Two tabs share the storage and not the refresh (`api.ts:149`): when
  both refresh, the second use of the token revokes every session of the user. The
  same follows from an answer that is lost or replaced by an error of a proxy after the
  server has rotated, a phone that stops between rotation and the write
  (mobile `api.ts:77`), a vault whose older token is written over a newer one
  (`sessionPersistence.js:96`) and a page that opens before the bootstrap script. A
  refresh, a snapshot or a restore that is under way at a sign-out brings tokens back
  (`api.ts:173`). The mobile client drops the session when an api() call waits for a refresh
  that the network lost (mobile `api.ts:218`), on every answer but a success (`:164`), and when
  `/v1/me` fails at the start (`AuthContext.tsx:98`); the main process of the shell clears
  the vault on every answer but a success. The web client drops it on 401 and 403
  only, but the service answers these also when its own database fails
  (`auth_handlers.go:653`, `:667`), with the token still good (cause "turned away"):
  `KeepsThroughBlip` is about the pages of the web and of the shell, and about the
  network and proxies, not about the service.

### Bounds, and why they are enough
- *Workers* (1 to 3): the handlers are short and the conflicts are between pairs of
  statements, so two requests meet them; the third worker of calls_dm adds a request
  that acts on what two others left behind. With the timer, calls_dm has four
  processes about one call. One worker is used where the question is about
  requests that do not overlap: calls_live, and the hub, whose publisher competes with the goroutines of the connections and with presence.
- *Calls, SIDs, Ids, Convs, Msgs*: two where a second one is the question (a redial, a
  second row or message), one call where requests race about it. A request that
  would need another id does not arrive; in Friends the insertion of a conversation
  waits when all three `Convs` are taken, more than the two any property compares.
- *MaxRestarts* (1; 2 in ClientAuth, since a page that is opened and quit needs two to
  find what the first left behind), *MaxAsks* (2 edits, recalls or lists), *MaxAstray* (2 pairs
  of a client and a message it is not told of: one message nobody hears of, or each
  client missing another one), *MaxInbox* (1 event on its way to one client), *MaxLoads* (2 in
  Groups, so that the older of two answers can arrive last): a request whose notice would
  exceed the inbox waits. With one notice on its way, it is the time that passes before it
  arrives, and the loads beside it, that make the cases of `MemberIsListed`.
- *MaxAttempts* (2) of CallClient: an attempt and the one that overtakes it. Its
  *MaxRequests* (2): one that waits and one that is made meanwhile. *MaxSends* (2)
  and *MaxLoads* (2) of Outbox: a send and its retry, a list from before and one from
  after. *MaxTokens* (3), *MaxFlights* (2) of ClientAuth: the token in use, its
  successor and the one of a new sign-in; two presentations of one token. *MaxQueue* (2) of
  ClientAuth bounds the messages and scripts under way when the page or the shell starts
  another one: whatever the page does happens also with one in transit, so that a
  restore that asks for the vault behind the clear of a sign-out, a second store
  behind the first, and a snapshot that crosses either are among the states; what is
  in transit may start more. The proofs are for any number.
- *Buffer* (1) and one presence *Slot*: both limits are reached.
- *Capacity*: 2 of 3 users, so that the group fills up, refuses, and empties again.
- *Requests*, *Ops* restrict the kinds that arrive to those the question of the run is
  about: no decline in calls_live, where it would only end a ringing call earlier;
  all six kinds in calls_group; every kind in friends; in groups every kind from the user
  who is expected to ask (and the refused attempt of the owner to forget the group); in
  Sessions the two runs cover all kinds between them.

### Fairness
CallSession: `WF(Serve(w))` - a goroutine that has a statement to run runs it, and the
database answers or fails - and `WF(RingTimer(c))` - an armed `AfterFunc` fires. No
client is obliged to send anything, and nothing is assumed of restarts. WSHub:
strong fairness for `Handler(c)`, since it waits for the write lock and Go's RWMutex
holds new readers back while a writer waits; weak fairness for the end of a pump,
the delayed close of a victim, a worker and a presence job. The preference for
waiting writers is not modelled, so with two publishers the read lock may be held by
one or the other for ever; with one it is free between two publishes, which is what
strong fairness needs. The other modules have no liveness property: their "once
everything has arrived" properties are invariants of quiet states.

## 5. Proofs

`*Proofs.tla`; every leaf is checked by `tlapm`. The theorems hold for all values of the
constants under the one named assumption of each module (types of the constants,
`None` not being a user, a call or an id, in a direct conversation no third user, in Friends
two users, in Groups finitely many, in ClientAuth at least one token and one place in a
queue, in MessageSync no text that is also a mark such as "recalled"). MessageProofs
extends two modules, so the names that both would have differ (`OutboxSpec`, `Spec`).

| module | theorems | argument |
|---|---|---|
| CallSessionProofs | `TypeCorrect`, `ReadsStayUsable` (RequestsAgree), `UnansweredHolds`, `SingleAnswerHolds`, `AnnouncedEndHolds`, `OneOpenCallHolds`, `LifecycleImplemented` | `IInv` = types, ids reserved by one request each, `Sound(c)` about every row, and `Agrees(w)`: for each program counter, what the request has read and may still rely on. UnansweredOutcome is not inductive alone: a request between the UPDATE that wins and the answer that hands out the token must be known to have won. Rows only move `Forward`, from which the `Agrees` of the other requests survive a step, and from which every step is a step of CallLifecycle or a stutter. `OneOpenCallHolds` assumes `StartsApart` (no start overlaps another or the UPDATE of an answer, which is what goes wrong); then what a start has replaced, scanned and cleared is still so at its INSERT (`Replaces`). |
| WSHubProofs | `TypeCorrect`, `PublishersAreSafe`, `KicksAreKept` | `LockedTargets`: a channel is closed only after its connection has left the hub, and who holds the read lock sends only to connections in it, because leaving needs the write lock. `KicksAreKept` assumes that every session has one connection (`OneEach`): then a kick has one victim, and a channel it finds closed (`ClosedFirst`) is that of a connection that is leaving by itself. |
| SessionsProofs | `TypeCorrect`, `MarkedFirst`, `SignOutHolds`; `OnePerType`, `RefreshedOnce`, `NoSocketStays`, `BanEndsAll` | What a request is about to acknowledge is marked before it replies, in the memory of its process always, and in Redis unless it is recorded as `lost`; marks in Redis are never removed, those in memory only by a restart. Redis may fail at will in both. The last four assume `Calm`: requests that neither overlap nor are cut off, and no restart, with or without Redis. Their invariant says, for each program counter, what the one request under way has still to do: which sessions of the type are live (`Pairs`), which token may be redeemed (`Once`), whose sockets remain (`Cut`: on another process, where the kick is on its way or was missed), which sessions of a banned user (`Out`). |
| FriendsProofs | `TypeCorrect`, `AnsweredOnceHolds`, `FriendsHaveDMHolds`; `OneRowHolds`, `OneSharedHolds`, `OneChatHolds`, `BlockStandsHolds` | A request can be answered only while its row is pending, and it is pending again only as a new request; accepted friends have a conversation or a request on its way to open it (until somebody deletes one). The last four are about requests that do not overlap: `Orderly` says that one is at work at most, that there is one row and one shared conversation at most, that the row is the blocked one of the last user told, and for each program counter that what was read is still so (`Knows`). |
| GroupsProofs | `TypeCorrect`, `OwnerStaysHolds`, `HistoryKeptHolds`, `MembershipImplemented`; `WithinCapacityHolds`, `MemberIsListedHolds`, `LeaverIsUnlistedHolds` | Every change of a row carries its own WHERE, so it is a step of Membership whatever was read before; `SparesOwner` adds that a request about to delete a row by id is not about the owner. Without overlap the count a request took is still right (`Orderly`). For the list of a client, `Coming(u)` is what it is going to hear, what is on its way and what a request has still to tell; `Story(u)`, of a client that is not `misled`, says that the last of it agrees with the row, and that once all is heard a member is listed or has a list on its way, and no list without it is, and that one who has left is not listed, and no list with it is on its way. `misled` is set by the very steps that would break it: a notice or a load that does not reach the client, and a notice that crosses a list. |
| MessageProofs (Outbox) | `OutboxType`, `CancelWins`, `EntriesAreTrue`, `StoredMessagesShow` | `Posts(e)`: a POST is sent only by a send that nobody cancelled before, and what is stored or echoed was posted; `Shows(e)`: what an entry says in terms of what is still under way. A step touches one entry, except the list that replaces all of them: `Lists` says that a list holds only what is stored. |
| MessageProofs (MessageSync) | `SyncType`, `EventsSufficeHolds`, `ReadersAgreeHolds`, `FailedIsRepairedHolds` | The invariants say what is still on its way, to the clients that are not `astray` for the message. `Repaired`: an entry without the server's id whose message is stored will get its `message.new`, from the queue or from the request that announces it. Without a list: nobody knows a message before it is announced, and that event is the first about it (`Order`), so whoever does not show a message has it coming (`Arrives`), and in a group a recall follows every event or entry that shows the message (`Leaves`). Without overlap the last event about a message has the stored text (`Agrees`). |
| ClientAuthProofs | `TypeCorrect`, `NetworkKeepsSession`, `SignOutLasts`, `InStepHolds`, `ReuseHolds` | `Answers`: an answer that carries no token and was not a refusal leaves the page alone. `Silence`: after a sign-out that met nothing under way every copy of the token is gone or about to be. For the vault that is `Emptied`: in the queue of messages there is a clear that only stores precede and after which nothing has a token. `MainFirst` keeps the requests of the main process apart from those of the page. The last two need to know where every copy of the good token is as long as none of `causes` has happened (`Sole`): a request that is not over is the one its process waits for (`Owned`), one at most bears the good token (`OneBearer`), the page has it or its successor is on the way (`PageFollows`), and the vault will settle to what the page has and gives away no other token until then (`Settles`; `ReadAgain` for a page that has loaded and will be read once the main process hears of it). |
| CallClientProofs | `TypeCorrect`, `NoSilentLeave` (LeftIsTold), `MicrophoneHasCall` (MediaHasCall), `NoSilentCall` (ActiveHasMedia) | `Spoken`: for a call that this user is in and that is not on the screen, a request is under way that tells the server or brings the call to the screen; a request that failed or waits its turn does not count. Both are about the calls that are not `lost`. `Heard`: an event that takes such a call from the screen comes after the call was over. For the media, `WebRooms` says whom every room belongs to and which attempt will still enter one; `MobileRooms` says it of attempts by their number. |

Every safety property that a run checks is proved. Model-checked only: liveness (WF and
SF are beyond the prover), that is `RingEnds` of CallSession and `KickedLeave` of WSHub.

Three proofs did not go through at first for a reason in the model. A list read before
an admission that arrives last takes the group away again, wherever its load came from:
`MemberIsListed` excepts the clients that heard a notice in between (`misled`), and its run
has two loads. A page of the shell that is closed with an empty vault and opened again is
read when it has loaded, and a phone that stops while it saves an answer loses that request
too: ClientAuth has both now, and its run two restarts.

## 6. Reading and running

    tlc -config CallDM.cfg MCCallSession.tla
    tlapm CallSessionProofs.tla

`MC*.tla` define the values of constants that a `.cfg` cannot write. `PROJECT.json` maps
every definition to the lines it models, names for every property a change of
the code that breaks it (`mutants`), and lists the hazards.
