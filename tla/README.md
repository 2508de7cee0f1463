# Lethe-Chat in TLA+

A verification development kept beside the Lethe-Chat repository: TLA+ modules
translated from its TypeScript, TLC configurations that check them on small
instances, and proofs of what matters most for instances of every size.

Lethe-Chat is an end-to-end encrypted chat whose accounts expire. A Node/Express
backend keeps everything in Redis (accounts, sessions, friends, requests and an
"inbox" list of undelivered messages per user) and relays messages over
Socket.IO; a React client keeps keys and history in the browser.

## 1. The system and its hazards

Paths are relative to `src/`; `backend` stands for `src/backend/src`, and
`frontend` for `src/frontend-test/src`.

| Component | Code | State | Operations | What must hold |
|---|---|---|---|---|
| Message delivery | `backend/services/messages.service.ts`, `backend/sockets/handlers/message.handler.ts` | the handler's progress, the offers under way | `message:send`: offer to the room, wait 5 s, otherwise push to the inbox | an acknowledged message is not lost; nothing takes both paths; a failed one is not stored; every send ends |
| Inbox drain | `backend/sockets/handlers/inbox.handler.ts` | Redis list `inbox:<name>` | `inbox:ready`: LRANGE, emitWithAck, DEL | a drain deletes only what it delivered; order is kept; every drain ends |
| Accounts | `backend/services/user.service.ts`, `ttl.service.ts`, `controllers/users.controller.ts` | hash `user:<name>` and its TTL | signup, deletion, expiry | one owner per name; every account has a TTL; nothing outlives it |
| Sessions | `backend/services/auth.service.ts`, `session.service.ts`, `controllers/login.controller.ts`, `session.ts` | `user:<name>:sessions`, `sess:<id>` | login with eviction, logout | one device at a time; an evicted session stays evicted |
| Expiry listener | `backend/sockets/expiry-listener.ts` | none | disconnects the room of an expired name | sockets do not outlive the account |
| Handshake, rooms | `backend/sockets/index.ts`, `rooms.ts` | the sockets of a room | join, disconnect | a socket in the room belongs to the live session |
| Public keys | `backend/services/keys.service.ts` | `publicKey`, `publicKeyHistory` of `user:<name>` | register, replace, get | history is bounded (`MAX_KEY_HISTORY` = 5), a conflicting key is refused |
| Friends | `backend/services/request.service.ts`, `friends.service.ts` | the sets `:requests` and `:friends` | request, accept, decline | friendship is symmetric; sets live as long as the account and no longer; one answer per request |
| Chat client: conversation | `frontend/hooks/useChat.ts` | messages, keys, dedupe window, retry budget | send, take, decrypt, drain, retry | nothing is shown twice or vanishes; what is sent is marked as it should be; a failed drain is run again |
| Chat client: friends | `frontend/hooks/useChat.ts`, `components/chat/Sidebar.tsx` | friend lists, last operation | load, request, accept, decline, events | the lists agree with the server's; an error reverts the operation it is about |
| Client authentication | `frontend/hooks/useAuth.tsx`, `lib/socket.ts` | status, user, socket object, name in localStorage | probe, login, sign-out | packets stay with their user; the name is the session's; the probe ends |
| Message store | `frontend/lib/messageStore.ts` | history in localStorage | load, save | history survives a visit until its TTL |
| Cryptography, UI, HTTP plumbing | `frontend/lib/crypto.ts`, `frontend/components`, `backend/app.ts`, `backend/config` | none | | |

How they interact. The client talks HTTP for accounts and Socket.IO for the
rest. All backend handlers share one process and **one Redis client**, which
executes commands and answers them in the order they were issued. A message
path meets the account only through its TTL and the room; a login meets the
sockets by disconnecting the room; an expiry meets them through Redis keyspace
events, which are lost while the process is down.

What is hard. Every `await` is a point where another handler may run; there are
no locks and few transactions. The sockets can be half open, acknowledgements
may be late, a crash may fall between any two commands, and keys of one account
have separate TTLs. `PROJECT.json` lists each hazard at its line, with the
properties aimed at it.

## 2. Modules

| Module | What it is |
|---|---|
| `Delivery` | message delivery and the inbox drain for one recipient |
| `Mailbox` | what the message path promises, without sockets, handlers or timers; `Delivery` implements it |
| `Queue_proofs` | what appending to, and taking the head of, the queue of replies does to its members and their order |
| `Delivery_proofs` | the invariants of `Delivery`, and that it implements `Mailbox`, proved for every value of its constants |
| `Accounts` | the life of one username: account, sessions, sockets |
| `Accounts_proofs` | its invariants, proved for any number of requests, identifiers, ticks and crashes |
| `Succession` | `Delivery` composed with the accounts that own a name one after another |
| `Succession_proofs` | its invariants, proved for any number of messages, sockets, drains, owners and ticks |
| `Friends` | friend requests and friends of several usernames, with the life of their accounts |
| `Friends_proofs` | its invariants, proved for any number of names, handlers, operations, ticks and crashes |
| `FriendsClient` | the friend lists of one page against the server's |
| `FriendsClient_proofs` | its invariants, proved for any number of peers, operations and lost connections |
| `PageSession` | who the tabs of one browser believe their user is |
| `PageSession_proofs` | its invariants, proved for any number of tabs and users |
| `ChatPage` | one conversation in one tab: keys, drains, retries, sends, store |
| `ChatPage_proofs` | its invariants, proved for any number of messages, visits, retries and lost connections |
| `MCDelivery`, `MCAccounts`, `MCSuccession`, `MCFriends`, `MCFriendsClient`, `MCPageSession`, `MCChatPage` | their instances for TLC |

Definitions named `X_Something`, just before the definition `X`, are *mutants*:
what `X` would be with a plausible bug. No specification uses them. They are
kept because each property of a passing run comes with one that breaks it under
the same configuration (see `PROJECT.json`), which shows that the property and
the bounds have a bite.

### The common shape

An action is what a handler runs from one `await` to the next. Because one
client sends all commands, in order, a command takes effect in the action that
issues it, and the variable `replies` is the queue of handlers waiting for an
answer: only the handler at its head can go on. This is what makes some
properties true that would be false with a connection per request
(`InboxInSendOrder`, `EvictionIsFinal`), and it is why other interleavings,
which no queue prevents, still occur: between two commands of one handler,
commands of any other handler may be executed.

### Delivery

| Variable | In the code |
|---|---|
| `account` | whether `TTL user:<name>` is positive |
| `conn` | what the server believes of a socket: in the room or not. A half-open socket is `"up"` and never answers |
| `listening` | whether the page behind a socket has `useChat`'s listeners attached |
| `pc` | the step of `sendMessage` for each message |
| `flight` | the packet of a message to each socket, and its answer |
| `first` | `result[0]`, the first answer of the room |
| `replies` | handlers waiting for Redis |
| `inbox` | the list `inbox:<name>` |
| `drain` | runs of `handleInbox`: step, socket, packet, batch read |
| `received`, `overtaken` | histories used only by properties |

`SendToRoom`, `SendToEmptyRoom`, `AckArrives`, `AckTimeout`, `Push` and
`AckSender` are the segments of `sendMessage` and `sendMsgToInbox`;
`StartDrain`, `EmitBatch`, `DrainAckArrives`, `DrainTimeout` and `DrainReturns`
those of `handleInbox`; `Connect`, `Disconnect`, `Mount`, `Unmount`,
`TakeMessage` and `TakeBatch` what a recipient's page and network may do;
`AccountEnds`, `InboxExpires` and `Crash` the environment.

Details that matter: `emitWithAck` to an empty room resolves at once with an
empty array; to a room it resolves with the last answer, and only the first is
looked at; a page may answer after the timeout, so a message reported as failed
may have been taken; `DEL` removes the key, not the batch. `received` records
what pages answered `"ok"` to.

### Accounts

| Variable | In the code |
|---|---|
| `user` | the hash `user:<name>`: its TTL (Redis' -2 and -1 included), whether it has `password` and `publicKey` |
| `sessions` | the set `user:<name>:sessions` and its TTL |
| `sess` | the TTL of each `sess:<id>` |
| `fresh` | identifiers not generated yet |
| `req` | each request: its kind, step, session, and the answers it holds |
| `replies` | requests waiting for Redis |
| `sockets` | handshakes whose socket is in the room |
| `expired` | a keyspace event under way |
| `evicted`, `early`, `claimed`, `unset`, `disturbed` | histories used only by properties |

Six kinds of request are step machines: `signup`, `login`, `logout`, `delete`,
`register` (a public key, on an open socket) and `handshake`. bcrypt
(`"hashing"`, `"comparing"`) and the socket server's `nextTick` (`"joining"`)
resume out of Redis' order. At the end of a response express-session writes a
session that was given its `userId` and *touches* one that already had it, which
does nothing when the record is gone (`Saved`). Redis' treatment of TTLs is in
`AddSession`, `RemoveSession`, `SetUserTtl` and `Created`: writing creates a key
without TTL and keeps an existing one, removing the last member deletes the key.

`disturbed` is the worst that has happened of what sequential reasoning
excludes: a deletion, a crash within a request or an expiry, requests that
overlap. `OneDevice`, `Tracked`,
`OneMember`, `OneSocketDevice` and `SignupUnique` name exactly which of them they do not
survive; each exception was added because TLC showed a run that needs it.
`UserTtlAccounted` needs no such premise. Nor does `EvictionIsFinal`, but for the
sessions in `early`, which are in the set two commands before their record: those
of a sign-up (`SADD`, then `EXPIRE`, then the record), and of a login that finds
the set to exist and then, at `SPOP`, gone, and so puts its own identifier there
first (`auth.service.ts:39-47`). Another login can pop and evict such a session
before its record is written, and the record then comes back. For a login that
takes three requests at once; the proof showed it, and TLC confirmed it on an
instance larger than the run's.

### Mailbox

Six variables: whether the account lives (`alive`), what each sender has been
told (`told`), what pages have taken (`taken`), what is kept (`stored`), whether
a hand-over is going on (`open`), and what was stored during one (`late`). Its
actions are what an observer may see: a message begins, is taken, stored,
succeeds, fails; the mailbox is emptied, but only of what was taken or came
late; the account ends; the process dies and leaves senders without an answer.
The refinement mapping (`Box` in `Delivery`) reads them off: `told` from the
handler's step, `stored` from the Redis list, `open` from the drains that have
read it, `late` from the history `overtaken`.

### Succession

`Succession` instantiates `Delivery` and takes its actions as they are; what
`Delivery` calls `account` is here whether the TTL of `user:<name>` is positive.
It adds the owners of the name, numbered in order (`owner`), the TTL of the hash
and of each owner's session record (`user`, `session`), the set that a deletion
reads (`member`), one account request at a time (`request`, sign-up or deletion,
in the same queue of replies), whose session opened a socket (`of`), whom a
message is for (`mail`), the TTL its handler has read (`held`) and the one it
gave the inbox (`keep`). The histories `stranded` and `lingering` name the
messages and the owners that the code leaves behind: each of the ways into them
was needed, since without it TLC shows a run that violates the property. A push
with a TTL that is not the account's any more gives it to the whole list
(`EXPIRE`), so it strands what others had pushed too (`Push`). Logins,
and requests that overlap, are left to `Accounts`; the account is as old as its
TTL says when the model begins.

### Friends

| Variable | In the code |
|---|---|
| `user` | the TTL of `user:<name>` |
| `requests`, `friends` | the sets `user:<name>:requests` and `:friends`, each with its own TTL |
| `op` | a handler: its kind, the command it waits for, its names and the answers it holds |
| `replies` | handlers waiting for Redis |
| `ended`, `loose`, `asked`, `made`, `told`, `raced` | histories used only by properties |

`RequestStarts` to `RequestTold`, `AnswerStarts` to `AcceptTold` and
`DeclineRemoves` to `DeclineTold` are the segments of `sendRequest`,
`acceptRequest` and `rejectRequest`; `DeleteStarts` to `DeleteEnds` those of
`redisDeleteUser` from the `DEL` of the hash on; `SignupStarts` to `SignupEnds`
those of a sign-up that concern the hash. `Adding` is `SADD` with `EXPIRE` in one
`MULTI`: a TTL of -1 or -2 deletes the set. `loose` marks the accounts for which
time passed between a `TTL` and its use, or whose deletion a crash cut short:
`NothingOutlives` holds for all others, although no lock protects them, because
one client carries all commands and a deletion removes the hash first.

### FriendsClient

The page's lists (`view`), the ref that lags behind them (`ref`), the last
operation (`lastOp`), the two answers of the load (`fetch`), the packets in each
direction, and the server's sets for one user. The handlers of the server are
atomic here. Accounts of the others end and are taken again (`PeerLeaves`,
`PeerSignsUp`), which takes the requests to them away and which no event tells the
page; the user's own account outlives the page. `Load` merges into `friendsRef.current`, which `SyncRef`, an effect,
brings up to date later; `HandleFriendError` compares the error's wording with
the last operation. `mishap` records for each peer what has gone wrong;
each property names the mishaps it does not survive, and each of these was added
because TLC showed a run that needs it.

### PageSession

`cookie` is the user of the session that the browser's cookie names, `stored` the
name in localStorage; `tab` has for each tab the state of `AuthProvider`, its
socket (`link`, and `as`, the user it was let in as), the packets that wait in
the socket's buffer, and an HTTP request under way. `Connected`, `Refuse` and
`HandleConnectError` are the handshake; `LoginServed` and `LoginDone` the two
halves of a login, on the server and in the page; likewise for signing out. The
answer of a login that the server has served may be lost (`LoginFailed`): the form
is back, and the page knows neither the name nor the cookie; `LogoutDone` takes a
logout that failed for a success. `Evict` is a login elsewhere, a deletion or the expiry.

### ChatPage

The server is reduced to what one page can tell: the inbox, the runs of
`handleInbox` that wait (`drain`), the key registered. The page has its key pair,
the peer's key, what waits for it (`fetching`), what has got it and waits for the
callback of its promise (`ready`), the dedupe map (`seen`), the retry (`failures`,
`timer`), copies of each message in the conversation (`shown`) and in localStorage
(`stored`), and the state of each sent message in both (`out`, `storedOut`).

A message goes through four steps, and the page may be closed between any two.
`HandleMessageIncoming` or `HandleInboxIncoming` acknowledges it and asks for the
key; `HandleKeyResponse` moves it to `ready`, where it is at once if the key is
cached; `UseKey`, the callback, decrypts and shows it; `SaveMessages`, the effect
after the next render, stores it. A save that fails, which `saveMessages` ignores,
is a `SaveMessages` that is not taken: nothing makes it happen. Callbacks of
promises run before the browser takes up a timer, a click or an effect (`Idle`);
handlers of packets, of which one transport message may carry several, may come
before them. `Mount` starts from what is stored. `Effects = 2` is React's
StrictMode, in which the effects of a mount run twice: the only way in which the
page has two drains at once. `Close` is a reload, a closed tab or a sign-out. A
packet emitted without a connection waits in the socket's buffer (`Emit`), which
the retry's `disconnect` does not empty.

## 3. Runs

| Run | Instance | What it shows |
|---|---|---|
| `Delivery_safety` | 2 messages, 2 sockets, 2 drains, answers `"ok"`, 1 crash | with two devices, drains that overlap and a crash, an acknowledged message is lost only to a drain it overtakes; no message takes both paths; the inbox keeps the order; failed messages are not stored |
| `Delivery_liveness` | 2 messages, 1 socket, 1 drain, answers `"ok"` or `"error"`, 1 crash, fairness | every send and every drain ends, whatever the recipient does; every step is one `Mailbox` allows |
| `Delivery_AckedNeverLost` | as the first, no crash | *finding* |
| `Delivery_TimeoutFallsBackToQueue` | as the first, no crash | *finding* |
| `Succession_safety` | 1 message, 2 sockets, 1 drain, answers `"ok"`, 2 account requests, TTLs up to 2, 1 tick | a message is taken by its owner, or by another for a named reason; the inbox goes with its account; an accepted message reaches its owner |
| `Accounts_safety` | 4 requests of any kind, 2 at a time, 3 identifiers, TTL of 1 tick, 1 crash | the account and session properties, under overlap, expiry and a crash |
| `Accounts_UserHasTtl` | requests one at a time | *finding* |
| `Friends_safety` | 2 names, 5 operations, 2 at a time, TTLs up to 2, 1 tick, 1 crash | friendship is mutual; sets live as long as their account; what can leave one behind; one answer per request |
| `FriendsClient_safety` | 2 peers in any state, 2 clicks, 2 moves of the peers (ends of accounts and sign-ups are moves), 1 lost connection | which mishaps leave the lists wrong, and that nothing else does |
| `PageSession_all` | 2 tabs, 2 users, see `PageSession_all.cfg`, fairness | packets, names and sessions of users who take turns, with logins whose answer is lost; the probe ends |
| `ChatPage_safety` | 2 incoming messages and 1 outgoing, at most 2 in all, effects run twice, 2 visits, 1 lost connection, 1 retry | messages, acknowledged, decrypted and saved in separate steps, are shown once, and vanish only for a named cause; what is sent is marked as it should be |
| `ChatPage_FailedDrainIsRetried` | 1 message, effects run once, 3 retries, fairness | *finding* |

The bounds. For delivery two messages are the fewest that can be reordered, two
drains the fewest that can overlap, two sockets the fewest for which the first
answer is not the last; the races found need one message and one or two drains,
so the instance is larger than what they take. For accounts every race found
needs two requests at a time; four in a row are signup, login and two more,
which reach a session evicted, a name expired and taken again, and every
step of every kind. A TTL of one tick makes the expiry fall at every point of a
request. Identifiers and requests are symmetric, and so are sockets and drains.
For successive owners one message is enough to go astray; two sockets let an old
and a new owner's page answer the same message, two account requests are a
deletion and a sign-up, or two sign-ups, and one tick ends an account, lets a
session outlive it, or falls between a TTL and its use.
For friends the races need two handlers and one tick: sign-up, deletion and the
three operations in five reach a name that ends and is taken again with a request
or a friendship made before. The lists of a page start in any state in which the
server's sets can be, which stands for the history; two clicks and two moves are
the fewest with which an error meets another operation's `lastOp`. Two tabs and
two users are the fewest that can be mixed up; one packet in a send buffer is
enough to be sent in the wrong session, so a buffer holds one. In a conversation
two messages make a batch that is partly known, two drains at once need
`Effects = 2`, and two visits let a page meet what an earlier one left.
`MaxSent` caps the messages of both sides together.
No run checks deadlock: every message, connection and request is used once,
and the system may come to rest when all are.

Fairness (`FairSpec`). `Delivery`: Redis answers (`RedisReply`), and a timer that
is set fires (`AckTimeout`, `DrainTimeout`), as the code sets one on every
`emitWithAck`. `PageSession`: a handshake is answered and its callback runs
(socket.io retries by itself, `socket.ts:26`). `ChatPage`: packets of a live
connection arrive, timers fire and the socket connects. Nothing is assumed of
users, and of the network only what a liveness property is about: `Delivery`
assumes nothing of it. A Redis command that fails, or a Redis that is down, is
not modelled, except where a page sees the error (`GetKey`).

### Findings

1. **A drain deletes messages it has not delivered** (`inbox.handler.ts:26`).
   `DEL` removes the whole key after the batch is acknowledged: a message whose
   handler found the room empty but is pushed after the drain's `LRANGE` is
   gone, although its sender got an ack. `AckedIsKept` says, and section 4
   proves, that this is the only way an acknowledged message is lost.
2. **A timeout does not fall back to the inbox** (`messages.service.ts:45`).
   Comments in `useChat.ts:386-387` and `metrics.ts:19` say it does.
3. **Registering a key can make a name permanent** (`keys.service.ts:32`).
   `HSET` on an account that has just expired creates `user:<name>` without
   password and TTL: nobody can sign up with or log in to the name again.
   `UserTtlAccounted` says that only this and a crash within a signup do so.
4. **A failed drain is not retried** (`useChat.ts:547`). The page reconnects as
   `useChat.ts:54-60` says, but `inbox:ready` is emitted once per mount and the
   backend drains on nothing else: the retry achieves nothing, its budget is
   hardly ever used up, and the messages wait for the next visit.

Comments that no finding is about, but that the code does not bear out:
`useChat.ts:591-594` (the backend has a handler for `friend:decline`),
`useChat.ts:630-633` (the backend does call the acknowledgement of
`message:send`), `useChat.ts:31-36` (a message whose send failed is not removed:
the backend never acknowledges with `"error"`), `auth.service.ts:39` (a
login empties the sessions set and recreates it without a TTL; it outlives the
account, and the next owner adds a second member: `OneMember` names when),
`auth.service.ts:42-46` (a login whose `SPOP` found the set gone takes the branch
for a second login on the same device, and can be evicted before its record is
written: the exception of `EvictionIsFinal`),
`README.md:48-50` (a session's record gets a full TTL at the end of each request
that carries it, the user only at sign-up, so a session outlives its account and
is let into the room of the name: `LeaversGetNothing`), and `request.service.ts:42` (a
tick between `TTL` and `EXPIRE` makes the requests set outlive the user:
`NothingOutlives`).

What the properties of the client name as exceptions are also weaknesses of the
code, each shown by a run of TLC: a friend added by an event while the lists load
can be overwritten (`useChat.ts:223`); an accept that the server refuses is never
reverted (`:486`); a reconnection loads nothing (`:546`); a page that the server
has disconnected does not notice (`useAuth.tsx:75`); a refused page's buffer can
be sent for the next user (`useAuth.tsx:66`); a message may be acknowledged and
then not be decrypted (`useChat.ts:388`), or be lost with a page that is closed
before it is decrypted and saved (`:168-170`), or with a save that fails and says
nothing (`messageStore.ts:65`); a failed lookup of a peer's key takes away the
user's own (`:509`); a login that the server served and whose answer is lost
leaves the session to a page that does not know of it, under the name that another
tab has stored (`useAuth.tsx:87`); and a request stays pending for ever when the
peer's account ends (`user.service.ts:40`).

A property with such an exception delimits the hazard rather than catching it: it
says that nothing *else* goes wrong, and would not fail if the excepted case got
worse. That is so for what is named `stranded` and `lingering` in `Succession`;
`disturbed`, `early` and the permanent names of `Accounts`; `loose` and `raced` in
`Friends`; the mishaps of `FriendsClient`; the confusions of `PageSession` and the
pages that it calls dismissed; `revisited` and the causes of `ChatPage`.

## 4. Proofs

For any number of messages, sockets, drains and crashes, `Delivery_proofs`
proves, whatever recipients answer:

- `TypeCorrect`: `Spec => []TypeOK`.
- `AckedIsKeptCorrect`: `Spec => []AckedIsKept`.
- `FailedIsNotQueuedCorrect`: `Spec => []FailedIsNotQueued`.

and, for recipients that answer `"ok"`:

- `DirectXorQueuedCorrect`: `Spec => []DirectXorQueued`.
- `InboxInSendOrderCorrect`: `Spec => []InboxInSendOrder`.

`AckedIsKept` is not inductive: that an acknowledgement accounts for a message
depends on what the handlers in progress carry. `KeepInv` strengthens it with
five facts:

- `OkMeansTaken`: an offer answered `"ok"`, and a first answer `"ok"`, mean that
  the page took the message;
- `OkMeansBatchTaken`: so does a batch answered `"ok"`, for every message in it;
- `DrainsCover`: while a drain is between `LRANGE` and its end, whatever is in
  the inbox is in its batch or has overtaken it -- this is what `DEL` relies on;
- `PushedIsKept`: a message whose handler has pushed it and waits for `EXEC` is
  taken, stored, or overtaken;
- `StoredIsAccepted`: only messages whose handler has pushed them are stored.

`KeepInvariant` proves that it holds initially and that every action keeps it;
the proof has a step per action and, under it, a step per conjunct the action
can disturb. Each conjunct was checked by TLC before it was proved.

`DirectXorQueued` needs `PathInv`: no answer has been `"error"`, and neither a
handler that has not started nor one that goes by way of the inbox has made an
offer (so no late answer can belong to a stored message). `InboxInSendOrder`
needs `OrderInv`: handlers start in the order of their messages; those that wait
for the TTL do so in that order, each with a place in the queue of replies; and
what is stored comes before all that wait. The first of them in the queue can
then be appended to the inbox without breaking its order. The restriction to
`"ok"` is needed: after an `"error"` a handler asks for the TTL when its answer
arrives, not when it starts.

`Delivery_proofs` also proves, whatever recipients answer, the refinement:

- `ImplementsMailboxCorrect`: `Spec => ImplementsMailbox`.

Initial states map to initial states (`MailInit`), and each step to a step of
`Mailbox` or to none (`MailNext`, with a lemma for each group of actions). Three
invariants carry it: the types; `KeepInv`, from which a first answer `"ok"` means
taken (`Succeed`), a pushed message is stored once (`Store`), a failed one is not
(`Fail`), and a drain's `DEL` removes only what was taken or came late (`Empty`);
and `BegunInv`, that what is offered or read has been sent, without which a page
might take a message nobody has begun (`Take`).

The assumptions are those of `Delivery`: `MsgCount` and `MaxCrashes` are
naturals, answers are `"ok"` or `"error"`, and no drain is also a message (both
wait in one queue).

`Friends_proofs` proves every invariant of `Friends_safety`, for any number of
names, handlers, operations, ticks and crashes:

- `TypeCorrect`, and `SymmetricCorrect`, `KeptWhileAliveCorrect`,
  `OneAnswerCorrect`, `NothingOutlivesCorrect`: `Spec => []P` for `Symmetric`,
  `KeptWhileAlive`, `OneAnswer` and `NothingOutlives`.

All use `QueueInv` (the queue of replies holds the handlers under way, each once)
and `Apart`, which says once for all steps what one handler leaves to the others:
they stay where they are, and it stands behind them if it goes on.
`KeptWhileAlive` becomes inductive with the TTLs (`KeptInv`): those of the sets, and those
that handlers have read, are not shorter than that of an account that has not
ended, because such an account only gets older (`Older`). `Symmetric` needs
`MadeInv` on top: `made`, which is only ever extended on both sides at once,
contains whatever a set of friends holds. `OneAnswer` needs `AnswerInv`: where no
two handlers met on a request, what one has removed stays removed until it has
told. `NothingOutlives` turns on the queue. `OutliveInv` says of each account for
which no time passed between a `TTL` and its use that a set, or a TTL that a
handler holds, is no longer than the account -- or else a deletion will look at
that set after the handler's command, because it stands behind it in `replies`
(`FirstBehind`, `SecondBehind`).

`PageSession_proofs`, for any number of tabs and users:

- `TypeCorrect`, `OffMeansDismissedCorrect`, `NameMatchesSessionCorrect` and
  `PacketsKeepTheirSenderCorrect`: `Spec => []P` for `TypeOK`,
  `OffMeansDismissed`, `NameMatchesSession` and `PacketsKeepTheirSender`.

`NameMatchesSession` needs to know what holds between the two halves of a login,
when the cookie names the new user and localStorage does not (`LoginInv`: without
overlap there is one such login, and a session that is not its user's has
ended; a login whose answer is lost is not there, since a session it may have left
is excepted until the next login is served). `PacketsKeepTheirSender` needs, of each page, how its user, socket and
buffer go together (`PagesInv`), and of the browser that, as long as nothing has
been mixed up, there is a single user whom cookie, storage, pages, sockets and
buffers know (`PacketInv`); a login by somebody else keeps this only where no page
shows anybody, and by `PagesInv` nobody is left in its storage, socket or buffer.

`Succession_proofs` proves every invariant of `Succession_safety`, for any number
of messages, sockets, drains, owners and ticks:

- `TypeCorrect`, `LeaversGetNothingCorrect`, `InboxGoesWithAccountCorrect` and
  `AckedReachesOwnerCorrect`, whatever pages answer;
- `HeirsGetNothingCorrect`, for pages that do not answer `"error"`.

`OwnerInv` gives the first: the room holds sockets of the account that has the
name, until its expiry is noticed, and the lingering ones (`RoomInv`); so what is
offered, read by a drain or taken is not for a later account, lingering sockets
apart (`OfferInv`, `BatchInv`, `TakenInv`). `InboxInv` says that what nobody has
stranded expires with the account. What a handler pushes is bounded by `PushInv`:
the account is no older than the TTL the handler holds, and if the name has
been given away since, the sign-up stands behind the push in the queue and gives the
account its TTL later. `HeirInv` adds for whom messages in the inbox and in
batches are. It needs pages that do not answer `"error"`: after an error a
handler asks for the TTL when its answer arrives, which may be that of the next
account. `AckedReachesOwner` has the shape of `AckedIsKept`, with owners:
`AnswerInv` (an answer `"ok"` means taken), `CoverInv` (a drain that may delete
the inbox has read it), `KeepInv` (the inbox outlives the account whose messages
are in it) and `KeptInv`.

The proof of `InboxGoesWithAccount` corrected the model: a push with a TTL that
is not the account's any more prolongs the whole list, not just its own message.
One message, as in the run, cannot show it; TLC does with two.

`Accounts_proofs` proves every invariant of `Accounts_safety`, for any number of
requests, identifiers, ticks and crashes, and however many requests are served
at a time:

- `TypeCorrect`, `UserTtlAccountedCorrect` and `EvictionIsFinalCorrect`,
  however requests overlap;
- `SignupUniqueCorrect`, `OneDeviceCorrect`, `TrackedCorrect`,
  `OneMemberCorrect` and `OneSocketDeviceCorrect`, whose properties name the
  disturbances they do not survive.

`EvictionIsFinal` is about a record that has yet to be written. `FinalInv` says
where its identifier can be: in the set only once the `SADD` that precedes the
response has been sent, so that a login that pops it stands behind that
response in `replies`, and deletes the record after it is written. This needs
`OwnInv` (no other sign-up or login has the identifier) and `FreshInv`. It fails
for the sessions in `early`, which is how that exception was found: stated
without it, the property holds on the run's instance and is false with three
requests at once.

The others start from `Alone`: while nothing overlaps, at most one request that changes
sessions is under way. `QuietInv` then follows this request step by step
(`SignupStage`, `LoginStage`, `LogoutStage`, `DeleteStage`): which sessions are
alive, in the set or in the request's hand after `SPOP`, `SREM` or `SMEMBERS`.
`RoomInv` says that the sockets in the room are of sessions in that same hand.
`SignupUnique` needs `ClaimInv`: a name that has been claimed exists until it is
deleted or expires.

`FriendsClient_proofs`, for any number of peers, clicks, moves of the peers and
lost connections:

- `TypeCorrect`, `ShownFriendsAreRealCorrect`, `FriendsAreShownCorrect`,
  `PendingIsHonestCorrect` and `RequestsAreShownCorrect`: `Spec => []P` for
  `TypeOK`, `ShownFriendsAreReal`, `FriendsAreShown`, `PendingIsHonest` and
  `RequestsAreShown`.

The lists are compared with the server's through what is under way, so lemmas
say first what each way of sending (`Emits`, `Notifies`), of taking (`Takes`,
`HearsOne`) and of losing packets leaves under way in each direction. What
`ShownFriendsAreReal` says of the page's list has to hold of the other places
where a friend may wait as well: of the list in `ref` and of the answer that a
load holds (`RealInv`), and an acceptance under way must be of a friend
(`AcceptedInv`). The converse, `FriendsAreShown`, turns on which of the two
answers of a load are there (`LoadInv`): a friend is shown, or its notice, its
answer or its load is due (`ShownInv`). `PendingInv` follows a pending mark from
the click to the answer: the request is held by the server, or under way and the
last operation, so that the wording of an error can only be about it, or its
answer is under way, or a mishap is recorded, the end of the peer's account
among them. `KnownInv` does for requests what `ShownInv` does for friends.

`ChatPage_proofs`, for any number of messages either way, visits, retries and lost
connections, with effects that run once or twice:

- `TypeCorrect`, `SendsAreHonestCorrect`, `NothingVanishesCorrect` and
  `ShownOnceCorrect`: `Spec => []P` for `TypeOK`, `SendsAreHonest`,
  `NothingVanishes` and `ShownOnce`.

The model filters a batch by what has been seen, which a recursive definition or
`SelectSeq` would put out of the provers' reach; `Filter` picks the k-th place instead, and `Filters` proves, by counting
places, that it keeps exactly what it should, as often as it was there. The
lemmas `Origins` and `DataOrigins` then say once for all steps where a packet, a
batch, the inbox and the state of a message can come from, and the invariants
are proved from those. `PlaceInv` says what an ended connection and a closed page
leave behind, and, of the store, that it holds what the conversation does or less. `SendsAreHonest` needs it and that an acknowledgement under way is
true (`SendInv`). `StageInv` follows a drain: until its request is served there
is nothing of it under way, and afterwards the batch is what the drain waits for,
so that the acknowledgement which empties the inbox is about what the page has
received. With this, `HaveInv` says that the page has (shows, waits for the key or the callback to decrypt, or has
given up for a named cause) whatever it acknowledges or will skip as a
duplicate, and `NothingVanishes` follows. `ShownOnce` needs `OnceInv`: a
message takes one way to the page, by an offer or by the inbox, never both; an
offered one has not come before it is there; and one that is stored and has come
is remembered in `seen`, until its page closes.

The assumptions. Of `Delivery`, and so of `Succession` (`DeliveryAssumption`):
`MsgCount` and `MaxCrashes` are naturals, answers are `"ok"` or `"error"`, and
messages, drains and account requests can be told apart (all wait in one queue).
Elsewhere: a TTL is a positive number, the bounds are naturals (no theorem
depends on their values), and model values that stand for "nobody" or "none" are
not users or identifiers (`UsersAssumption`, `SidsAssumption`). Of `ChatPage`: effects
run once or twice, and what the peer and the user write can be told apart
(`ChatAssumption`).

Only model-checked: liveness (`SendSettles`, `DrainSettles`, `ProbeEnds`; out of the
prover's reach, and so is `ENABLED`), and that the findings of section 3 are
reachable. Every other property of a passing run is a theorem.

## 5. Not modelled, and plan

Left out for good: the cryptographic calls (they have no state; `ChatPage` models
when a message can be decrypted), rendering, emojis and which conversation is
open, rate limits, metrics and health (they change no state of the system),
failures of single Redis commands, malformed inbox entries (only `sendMsgToInbox`
writes the list, always `JSON.stringify`), key rotation and the key history
(`registerKey` is only called without `replace`, and nothing reads the history),
two tabs that share one message store, a store that cannot be read when a page
mounts, and, in `FriendsClient`, the end of the user's own account while the page
is open (`PageSession` and `Succession` have it).

Left to do: `Succession` with logins, whose eviction also empties the room, and
with the sessions set as `Accounts` has it.
