------------------------------ MODULE ChatPage ------------------------------
(***************************************************************************)
(* The conversation of one user with one peer, as the user's browser keeps *)
(* it (useChat.ts, messageStore.ts, Composer.tsx): what arrives has to be  *)
(* decrypted with the peer's public key, shown once and stored; what is    *)
(* sent is shown before the server has it.  One tab; module Delivery has   *)
(* the server's handlers step by step, here each is one step or two.       *)
(*                                                                         *)
(* The page acknowledges what arrives at once, decrypts it when a promise  *)
(* is resolved, and stores it in an effect that follows the next render:   *)
(* these are steps of their own, between which the page can be closed.     *)
(*                                                                         *)
(* A packet the page emits while its socket is not connected waits in the  *)
(* socket's buffer; what is under way when a connection ends is lost.      *)
(* React runs the effects of a mount once, or twice in development.        *)
(***************************************************************************)
EXTENDS Naturals, Sequences, FiniteSets, Functions

CONSTANTS
  Msgs,        \* the messages of the peer
  Sends,       \* the messages the user writes
  Effects,     \* how often React runs the effects of a mount: 1, or 2
  MaxRetries,  \* MAX_INBOX_DRAIN_RETRIES
  MaxSent,     \* how many messages are sent, either way
  MaxVisits,   \* how often the page is opened
  MaxDrops     \* how often the network drops the connection

ASSUME ChatAssumption ==
  /\ Msgs \cap Sends = {}
  /\ Effects \in 1..2
  /\ {MaxRetries, MaxSent, MaxVisits, MaxDrops} \subseteq Nat

VARIABLES
  fate,        \* fate[m]: what the peer knows of m
  inbox,       \* the Redis list inbox:<user>
  drain,       \* drain[e]: the batch a run of handleInbox waits for, or <<>>
  serverKey,   \* publicKey of user:<user>: "none", "mine" or "other"
  link,        \* the page's socket: "connecting" or "up"
  toServer,    \* packets of the page: under way, or in the socket's buffer
  toPage,      \* packets of the server under way
  page,        \* "away" (not open, or not in the chat yet) or "chat" (mounted)
  keypair,     \* keyPairRef holds a key pair
  cached,      \* publicKeysCacheRef holds the peer's key
  fetching,    \* what waits for the peer's key, in the order it asked for it
  ready,       \* what has got the key, and waits for its promise's callback
  seen,        \* recentIncomingRef
  failures,    \* inboxDrainFailures
  timer,       \* retryTimer is set
  shown,       \* shown[m]: copies of m in the conversation
  out,         \* out[s]: what the conversation says of s; "absent": nothing
  stored,      \* stored[m]: copies of m in localStorage, short of their TTL
  storedOut,   \* storedOut[s]: what localStorage says of s
  visits, drops,  \* bounds
  accepted,    \* history: the s the server has acknowledged
  refused,     \* history: the s it has reported an error for
  doubt,       \* history: the s whose connection ended before their answer
  cause,       \* cause[m]: history: how m can be lost
  revisited,   \* history: messages still in the inbox when their page closed
  redrain      \* history: a failed drain waits to be run again

serverVars == <<fate, inbox, drain, serverKey>>
linkVars == <<link, toServer, toPage>>
keyVars == <<keypair, cached, fetching, ready>>
retryVars == <<failures, timer>>
boundVars == <<visits, drops>>
sendVars == <<out, accepted, refused, doubt>>
vars == <<serverVars, linkVars, page, keyVars, seen, retryVars, shown, sendVars,
          stored, storedOut, boundVars, cause, revisited, redrain>>

-----------------------------------------------------------------------------
\* "failed": the peer was told of an error; "kept": of success.
Fates == {"unsent", "pushing", "offered", "kept", "failed"}

\* "closed": the page was before it had the key; "unsaved": it was with the message
\* in the conversation and not in the store.
Causes == {"none", "undecryptable", "slow", "closed", "unsaved", "expired", "overtaken"}

Packet(kind) == [kind |-> kind]
About(kind, x) == [kind |-> kind, of |-> x]
Batch(e, ms) == [kind |-> "inbox", of |-> e, msgs |-> ms]

ToServer == {Packet(k) : k \in {"register", "get"}}
              \cup {About(k, e) : k \in {"ready", "tookBatch"}, e \in 1..Effects}
              \cup {About("took", m) : m \in Msgs}
              \cup {About("send", s) : s \in Sends}

ToPage == {Packet(k) : k \in {"key", "null", "keyError", "drainError"}}
            \cup {About("message", m) : m \in Msgs}
            \cup {About(k, s) : k \in {"ack", "messageError"}, s \in Sends}

Batches == [kind : {"inbox"}, of : 1..Effects, msgs : Seq(Msgs)]

TypeOK ==
  /\ fate \in [Msgs -> Fates]
  /\ inbox \in Seq(Msgs)
  /\ drain \in [1..Effects -> Seq(Msgs)]
  /\ serverKey \in {"none", "mine", "other"}
  /\ link \in {"connecting", "up"}
  /\ toServer \in Seq(ToServer)
  /\ toPage \in Seq(ToPage \cup Batches)
  /\ page \in {"away", "chat"}
  /\ keypair \in BOOLEAN /\ cached \in BOOLEAN
  /\ fetching \in Seq(Msgs \cup Sends) /\ ready \in Seq(Msgs \cup Sends)
  /\ seen \subseteq Msgs
  /\ failures \in 0..MaxRetries /\ timer \in BOOLEAN
  /\ shown \in [Msgs -> Nat] /\ stored \in [Msgs -> Nat]
  /\ out \in [Sends -> {"unwritten", "fetching", "shown", "acked", "absent"}]
  /\ storedOut \in [Sends -> {"absent", "shown", "acked"}]
  /\ visits \in 0..MaxVisits /\ drops \in 0..MaxDrops
  /\ accepted \cup refused \cup doubt \subseteq Sends
  /\ cause \in [Msgs -> Causes]
  /\ revisited \subseteq Msgs
  /\ redrain \in BOOLEAN

\* Nothing is stored yet; the account may have registered a key before, from
\* this browser or from another.
Init ==
  /\ fate = [m \in Msgs |-> "unsent"]
  /\ inbox = <<>>
  /\ drain = [e \in 1..Effects |-> <<>>]
  /\ serverKey \in {"none", "mine", "other"}
  /\ link = "connecting"
  /\ toServer = <<>> /\ toPage = <<>>
  /\ page = "away"
  /\ keypair = FALSE /\ cached = FALSE
  /\ fetching = <<>> /\ ready = <<>>
  /\ seen = {}
  /\ failures = 0 /\ timer = FALSE
  /\ shown = [m \in Msgs |-> 0] /\ stored = shown
  /\ out = [s \in Sends |-> "unwritten"]
  /\ storedOut = [s \in Sends |-> "absent"]
  /\ visits = 0 /\ drops = 0
  /\ accepted = {} /\ refused = {} /\ doubt = {}
  /\ cause = [m \in Msgs |-> "none"]
  /\ revisited = {}
  /\ redrain = FALSE

Blame(ms, why) ==
  cause' = [m \in Msgs |-> IF m \in ms /\ cause[m] = "none" THEN why ELSE cause[m]]

SentSoFar == Cardinality({m \in Msgs : fate[m] # "unsent"})
               + Cardinality({s \in Sends : out[s] # "unwritten"})

-----------------------------------------------------------------------------
(* The socket.                                                              *)

\* Mutant of Emit: socket.volatile.emit, which does not buffer.
Emit_Volatile(packets) ==
  toServer' = IF link = "up" THEN toServer \o packets ELSE toServer

Emit(packets) == toServer' = toServer \o packets

\* The handshake succeeds; the buffer is sent.
Connected ==
  /\ link = "connecting"
  /\ link' = "up"
  /\ UNCHANGED <<serverVars, toServer, toPage, page, keyVars, seen, retryVars, shown,
                 sendVars, boundVars, cause, stored, storedOut, revisited, redrain>>

\* The connection ends: what was under way is gone, the runs of handleInbox that
\* wait for this socket wait in vain, and tell nobody.
Cut ==
  /\ link' = "connecting"
  /\ toServer' = IF link = "up" THEN <<>> ELSE toServer
  /\ toPage' = <<>>
  /\ drain' = [e \in 1..Effects |-> <<>>]
  /\ doubt' = IF link = "up" THEN doubt \cup {s \in Sends : out[s] = "shown"} ELSE doubt

Drop ==
  /\ link = "up"
  /\ drops < MaxDrops
  /\ drops' = drops + 1
  /\ Cut
  /\ UNCHANGED <<fate, inbox, serverKey, page, keyVars, seen, retryVars, shown, out,
                 accepted, refused, visits, cause, stored, storedOut, revisited,
                 redrain>>

-----------------------------------------------------------------------------
(* The server.                                                              *)

\* sendMessage reaches the user's socket, or finds the room empty and pushes.
\* The peer has encrypted for the registered key, so there is one.
Offer(m) ==
  /\ fate[m] = "unsent"
  /\ SentSoFar < MaxSent
  /\ serverKey # "none"
  /\ \/ /\ link = "up"
        /\ fate' = [fate EXCEPT ![m] = "offered"]
        /\ toPage' = Append(toPage, About("message", m))
     \/ /\ link # "up"
        /\ fate' = [fate EXCEPT ![m] = "pushing"]
        /\ UNCHANGED toPage
  /\ UNCHANGED <<inbox, drain, serverKey, link, toServer, page, keyVars, seen,
                 retryVars, shown, sendVars, boundVars, cause, stored, storedOut,
                 revisited, redrain>>

Push(m) ==
  /\ fate[m] = "pushing"
  /\ fate' = [fate EXCEPT ![m] = "kept"]
  /\ inbox' = Append(inbox, m)
  /\ UNCHANGED <<drain, serverKey, linkVars, page, keyVars, seen, retryVars, shown,
                 sendVars, boundVars, cause, stored, storedOut, revisited, redrain>>

OfferTimeout(m) ==
  /\ fate[m] = "offered"
  /\ fate' = [fate EXCEPT ![m] = "failed"]
  /\ UNCHANGED <<inbox, drain, serverKey, linkVars, page, keyVars, seen, retryVars,
                 shown, sendVars, boundVars, cause, stored, storedOut, revisited,
                 redrain>>

\* The next packet of the page reaches the server.
Arrives(p) ==
  /\ link = "up"
  /\ toServer # <<>>
  /\ p = Head(toServer)
  /\ toServer' = Tail(toServer)

\* "public-key:register": the first key stays, another one is a conflict.
RegisterKey ==
  /\ Arrives(Packet("register"))
  /\ \/ /\ serverKey = "other"
        /\ toPage' = Append(toPage, Packet("keyError"))
        /\ UNCHANGED serverKey
     \/ /\ serverKey # "other"
        /\ serverKey' = "mine"
        /\ UNCHANGED toPage
  /\ UNCHANGED <<fate, inbox, drain, link, page, keyVars, seen, retryVars, shown,
                 sendVars, boundVars, cause, stored, storedOut, revisited, redrain>>

\* "public-key:get": the peer's key, or null, or Redis fails.
GetKey ==
  /\ Arrives(Packet("get"))
  /\ \E reply \in {"key", "null", "keyError"} : toPage' = Append(toPage, Packet(reply))
  /\ UNCHANGED <<serverVars, link, page, keyVars, seen, retryVars, shown, sendVars,
                 boundVars, cause, stored, storedOut, revisited, redrain>>

\* "inbox:ready": handleInbox reads the list and emits it.
InboxReady(e) ==
  /\ Arrives(About("ready", e))
  /\ drain' = [drain EXCEPT ![e] = inbox]
  /\ toPage' = IF inbox = <<>> THEN toPage ELSE Append(toPage, Batch(e, inbox))
  /\ redrain' = FALSE
  /\ UNCHANGED <<fate, inbox, serverKey, link, page, keyVars, seen, retryVars, shown,
                 sendVars, boundVars, cause, stored, storedOut, revisited>>

\* The acknowledgement of the batch deletes the list, unless it comes too late.
BatchTaken(e) ==
  /\ Arrives(About("tookBatch", e))
  /\ \/ /\ drain[e] = <<>>
        /\ UNCHANGED <<inbox, drain, cause>>
     \/ /\ drain[e] # <<>>
        /\ Blame(Range(inbox) \ Range(drain[e]), "overtaken")
        /\ inbox' = <<>>
        /\ drain' = [drain EXCEPT ![e] = <<>>]
  /\ UNCHANGED <<fate, serverKey, link, toPage, page, keyVars, seen, retryVars,
                 shown, sendVars, boundVars, stored, storedOut, revisited, redrain>>

\* InboxDrainError: "Failed to drain inbox."
DrainTimeout(e) ==
  /\ drain[e] # <<>>
  /\ drain' = [drain EXCEPT ![e] = <<>>]
  /\ toPage' = Append(toPage, Packet("drainError"))
  /\ UNCHANGED <<fate, inbox, serverKey, link, toServer, page, keyVars, seen,
                 retryVars, shown, sendVars, boundVars, cause, stored, storedOut,
                 revisited, redrain>>

\* The acknowledgement of a message, unless it comes too late.
MessageTaken(m) ==
  /\ Arrives(About("took", m))
  /\ fate' = [fate EXCEPT ![m] = IF @ = "offered" THEN "kept" ELSE @]
  /\ UNCHANGED <<inbox, drain, serverKey, link, toPage, page, keyVars, seen,
                 retryVars, shown, sendVars, boundVars, cause, stored, storedOut,
                 revisited, redrain>>

\* "message:send" is acknowledged, or fails: then it is not.
MessageSent(s) ==
  /\ Arrives(About("send", s))
  /\ \/ /\ accepted' = accepted \cup {s}
        /\ toPage' = Append(toPage, About("ack", s))
        /\ UNCHANGED refused
     \/ /\ refused' = refused \cup {s}
        /\ toPage' = Append(toPage, About("messageError", s))
        /\ UNCHANGED accepted
  /\ UNCHANGED <<serverVars, link, page, keyVars, seen, retryVars, shown, out, doubt,
                 boundVars, cause, stored, storedOut, revisited, redrain>>

-----------------------------------------------------------------------------
(* The page.                                                                *)

\* Callbacks of promises run before the browser takes up a timer, an effect or what
\* the user does; the handlers of packets that came together run before them.
Idle == ready = <<>>

\* Mutant of LoadStoredMessages: a store from before the visit is not read.
LoadStoredMessages_Empty(old) == [m \in Msgs |-> 0]

\* loadStoredMessages drops what is older than the TTL, now and at every later load.
LoadStoredMessages(old) == [m \in Msgs |-> IF m \in old THEN 0 ELSE stored[m]]

\* What the effects of a mount emit, each time they run.
MountEffect(e) == <<Packet("register"), About("ready", e)>>

\* ChatView mounts: the key pair of localStorage, or a new one, is registered,
\* the listeners are attached and "inbox:ready" is emitted.
Mount ==
  /\ page = "away"
  /\ visits < MaxVisits
  /\ visits' = visits + 1
  /\ page' = "chat"
  /\ \E old \in SUBSET ({m \in Msgs : stored[m] > 0}
                          \cup {s \in Sends : storedOut[s] # "absent"}) :
       /\ shown' = LoadStoredMessages(old) /\ stored' = shown'
       /\ out' = [s \in Sends |-> IF s \in old THEN "absent" ELSE out[s]]
       /\ storedOut' = [s \in Sends |-> IF s \in old THEN "absent" ELSE storedOut[s]]
       /\ Blame(old, "expired")
  /\ keypair' = TRUE
  /\ Emit(IF Effects = 1 THEN MountEffect(1) ELSE MountEffect(1) \o MountEffect(2))
  /\ UNCHANGED <<serverVars, link, toPage, cached, fetching, ready, seen, retryVars,
                 accepted, refused, doubt, drops, revisited, redrain>>

\* The tab is closed or loaded again, or the user signs out: the page, its socket
\* and what they held are gone.  What is left is the store.
Close ==
  /\ page = "chat"
  /\ page' = "away"
  /\ link' = "connecting"
  /\ toServer' = <<>> /\ toPage' = <<>>
  /\ drain' = [e \in 1..Effects |-> <<>>]
  /\ keypair' = FALSE /\ cached' = FALSE
  /\ fetching' = <<>> /\ ready' = <<>>
  /\ seen' = {}
  /\ failures' = 0 /\ timer' = FALSE
  /\ shown' = stored
  /\ out' = [s \in Sends |-> IF out[s] = "unwritten" THEN out[s] ELSE storedOut[s]]
  /\ doubt' = doubt \cup {s \in Sends : "shown" \in {out[s], storedOut[s]}}
  /\ cause' = [m \in Msgs |->
       CASE cause[m] # "none" -> cause[m]
         [] m \in Range(fetching) \cup Range(ready) -> "closed"
         [] shown[m] > 0 /\ stored[m] = 0 -> "unsaved"
         [] OTHER -> "none"]
  /\ revisited' = revisited \cup Range(inbox)
  /\ redrain' = FALSE
  /\ UNCHANGED <<fate, inbox, serverKey, accepted, refused, stored, storedOut, boundVars>>

\* The effect that follows a change of the conversation: saveMessages.  When the
\* storage is full or not available, it does nothing.
SaveMessages ==
  /\ page = "chat"
  /\ Idle
  /\ stored' = shown
  /\ storedOut' = [s \in Sends |->
       IF out[s] \in {"shown", "acked"} THEN out[s] ELSE "absent"]
  /\ <<stored', storedOut'>> # <<stored, storedOut>>
  /\ UNCHANGED <<serverVars, linkVars, page, keyVars, seen, retryVars, shown, sendVars,
                 boundVars, cause, revisited, redrain>>

\* The next packet of the server reaches the page.
Heard(p) ==
  /\ link = "up"
  /\ toPage # <<>>
  /\ p = Head(toPage)
  /\ toPage' = Tail(toPage)

\* A socket whose page is not in the chat yet has no listeners.
Unheard ==
  /\ page = "away"
  /\ toPage # <<>>
  /\ Heard(Head(toPage))
  /\ UNCHANGED <<serverVars, link, toServer, page, keyVars, seen, retryVars, shown,
                 sendVars, boundVars, cause, stored, storedOut, revisited, redrain>>

\* What seq has of S, in its order: the k-th of the places where it has any.
Filter(seq, S) ==
  LET at == {i \in DOMAIN seq : seq[i] \in S}
      Place(k) == CHOOSE i \in at : Cardinality({j \in at : j <= i}) = k
  IN  [k \in 1..Cardinality(at) |-> seq[Place(k)]]

\* The peer has encrypted with the key the account has registered.
Decryptable == keypair /\ serverKey # "other"

Decrypt(m) ==
  \/ /\ Decryptable
     /\ shown' = [shown EXCEPT ![m] = @ + 1]
     /\ UNCHANGED cause
  \/ /\ ~Decryptable
     /\ Blame({m}, "undecryptable")
     /\ UNCHANGED shown

\* decryptIncomingMessage for each of ms, which asks for the key, if need be, and
\* goes on when the promise of it is resolved; then the acknowledgement.
Receive(ms, ack) ==
  /\ \/ /\ cached
        /\ ready' = ready \o ms
        /\ Emit(<<ack>>)
        /\ UNCHANGED fetching
     \/ /\ ~cached
        /\ fetching' = fetching \o ms
        /\ Emit([i \in DOMAIN ms |-> Packet("get")] \o <<ack>>)
        /\ UNCHANGED ready
  /\ UNCHANGED <<keypair, cached, shown, cause>>

HandleMessageIncoming(m) ==
  /\ page = "chat"
  /\ Heard(About("message", m))
  /\ Receive(<<m>>, About("took", m))
  /\ UNCHANGED <<serverVars, link, page, seen, retryVars, sendVars,
                 boundVars, stored, storedOut, revisited, redrain>>

\* Mutant of IsDuplicateIncoming: messages without the keys the map has.
IsDuplicateIncoming_Never(m) == FALSE

\* A batch comes twice only within moments: the window of 30 s is not modelled.
IsDuplicateIncoming(m) == m \in seen

HandleInboxIncoming(e) ==
  /\ page = "chat"
  /\ \E p \in Range(toPage) :
       /\ p.kind = "inbox" /\ p.of = e
       /\ Heard(p)
       /\ Receive(Filter(p.msgs, {m \in Msgs : ~IsDuplicateIncoming(m)}),
                  About("tookBatch", e))
       /\ seen' = seen \cup Range(p.msgs)
  /\ UNCHANGED <<serverVars, link, page, retryVars, sendVars,
                 boundVars, stored, storedOut, revisited, redrain>>

\* sendEncrypted: s is shown and emitted, or fails without a key pair.
SendEncrypted(s) ==
  \/ keypair /\ out' = [out EXCEPT ![s] = "shown"] /\ Emit(<<About("send", s)>>)
  \/ ~keypair /\ out' = [out EXCEPT ![s] = "absent"] /\ UNCHANGED toServer

\* "public-key:response" settles all the promises that wait for it.
HandleKeyResponse ==
  /\ page = "chat"
  /\ \/ /\ Heard(Packet("key"))
        /\ cached' = (cached \/ fetching # <<>>)
        /\ ready' = ready \o fetching
        /\ UNCHANGED <<out, cause>>
     \/ /\ Heard(Packet("null"))
        /\ out' = [s \in Sends |-> IF s \in Range(fetching) THEN "absent" ELSE out[s]]
        /\ Blame(Range(fetching) \cap Msgs, "undecryptable")
        /\ UNCHANGED <<cached, ready>>
  /\ fetching' = <<>>
  /\ UNCHANGED <<serverVars, link, toServer, page, keypair, seen, retryVars, shown,
                 accepted, refused, doubt, boundVars, stored, storedOut, revisited,
                 redrain>>

\* The callback of the first promise that is resolved.
UseKey ==
  /\ ready # <<>>
  /\ ready' = Tail(ready)
  /\ \/ /\ Head(ready) \in Msgs
        /\ Decrypt(Head(ready))
        /\ UNCHANGED <<toServer, out>>
     \/ /\ Head(ready) \in Sends
        /\ SendEncrypted(Head(ready))
        /\ UNCHANGED <<shown, cause>>
  /\ UNCHANGED <<serverVars, link, toPage, page, keypair, cached, fetching, seen,
                 retryVars, accepted, refused, doubt, boundVars, stored, storedOut,
                 revisited, redrain>>

\* The oldest request for the key has waited for five seconds.
KeyTimeout ==
  /\ Idle
  /\ fetching # <<>>
  /\ fetching' = Tail(fetching)
  /\ out' = [s \in Sends |-> IF s = Head(fetching) THEN "absent" ELSE out[s]]
  /\ Blame({Head(fetching)}, "slow")
  /\ UNCHANGED <<serverVars, linkVars, page, keypair, cached, ready, seen, retryVars,
                 shown, accepted, refused, doubt, boundVars, stored, storedOut,
                 revisited, redrain>>

\* handlePublicKeyError, whichever request failed.
HandlePublicKeyError ==
  /\ page = "chat"
  /\ Heard(Packet("keyError"))
  /\ keypair' = FALSE
  /\ UNCHANGED <<serverVars, link, toServer, page, cached, fetching, ready, seen, retryVars,
                 shown, sendVars, boundVars, cause, stored, storedOut, revisited,
                 redrain>>

\* The Composer hands over a message once, and forgets its text.
Composed(s) == page = "chat" /\ out[s] = "unwritten"

Send(s) ==
  /\ Idle
  /\ Composed(s)
  /\ SentSoFar < MaxSent
  /\ \/ /\ ~keypair
        /\ out' = [out EXCEPT ![s] = "absent"]
        /\ UNCHANGED <<toServer, fetching, ready>>
     \/ /\ keypair /\ cached
        /\ out' = [out EXCEPT ![s] = "fetching"]
        /\ ready' = Append(ready, s)
        /\ UNCHANGED <<toServer, fetching>>
     \/ /\ keypair /\ ~cached
        /\ out' = [out EXCEPT ![s] = "fetching"]
        /\ fetching' = Append(fetching, s)
        /\ Emit(<<Packet("get")>>)
        /\ UNCHANGED ready
  /\ UNCHANGED <<serverVars, link, toPage, page, keypair, cached, seen, retryVars,
                 shown, accepted, refused, doubt, boundVars, cause, stored,
                 storedOut, revisited, redrain>>

\* Mutant of HandleAck: an error of the server counts as an acknowledgement.
HandleAck_Any(s) ==
  /\ page = "chat"
  /\ Heard(About("ack", s)) \/ Heard(About("messageError", s))
  /\ out' = [out EXCEPT ![s] = "acked"]
  /\ UNCHANGED <<serverVars, link, toServer, page, keyVars, seen, retryVars, shown,
                 accepted, refused, doubt, boundVars, cause, stored, storedOut,
                 revisited, redrain>>

HandleAck(s) ==
  /\ page = "chat"
  /\ Heard(About("ack", s))
  /\ out' = [out EXCEPT ![s] = "acked"]
  /\ UNCHANGED <<serverVars, link, toServer, page, keyVars, seen, retryVars, shown,
                 accepted, refused, doubt, boundVars, cause, stored, storedOut,
                 revisited, redrain>>

\* handleMessageError shows an error, and the message with it.
HandleMessageError(s) ==
  /\ page = "chat"
  /\ Heard(About("messageError", s))
  /\ UNCHANGED <<serverVars, link, toServer, page, keyVars, seen, retryVars, shown,
                 sendVars, boundVars, cause, stored, storedOut, revisited, redrain>>

\* Mutant of HandleServerError: the budget is never used up.
HandleServerError_NoBudget ==
  /\ page = "chat"
  /\ Heard(Packet("drainError"))
  /\ failures' = failures + 1
  /\ timer' = TRUE
  /\ redrain' = TRUE
  /\ UNCHANGED <<serverVars, link, toServer, page, keyVars, seen, shown, sendVars,
                 boundVars, cause, stored, storedOut, revisited>>

\* handleServerError: the retry is due in 800 ms, if the budget allows; failures
\* long ago do not count.
HandleServerError ==
  /\ page = "chat"
  /\ Heard(Packet("drainError"))
  /\ \E before \in {0, failures} :
       \/ /\ before < MaxRetries
          /\ failures' = before + 1
          /\ timer' = TRUE
          /\ redrain' = TRUE
       \/ /\ before >= MaxRetries
          /\ UNCHANGED <<failures, timer, redrain>>
  /\ UNCHANGED <<serverVars, link, toServer, page, keyVars, seen, shown, sendVars,
                 boundVars, cause, stored, storedOut, revisited>>

\* The retry: disconnect and connect.
Retry ==
  /\ Idle
  /\ timer
  /\ timer' = FALSE
  /\ Cut
  /\ UNCHANGED <<fate, inbox, serverKey, page, keyVars, seen, failures, shown, out,
                 accepted, refused, boundVars, cause, stored, storedOut, revisited,
                 redrain>>

-----------------------------------------------------------------------------
ServerStep ==
  \/ RegisterKey
  \/ GetKey
  \/ \E e \in 1..Effects : InboxReady(e) \/ BatchTaken(e) \/ DrainTimeout(e)
  \/ \E m \in Msgs : MessageTaken(m) \/ Push(m) \/ OfferTimeout(m)
  \/ \E s \in Sends : MessageSent(s)

PageStep ==
  \/ Unheard
  \/ \E m \in Msgs : HandleMessageIncoming(m)
  \/ \E e \in 1..Effects : HandleInboxIncoming(e)
  \/ HandleKeyResponse
  \/ UseKey
  \/ KeyTimeout
  \/ HandlePublicKeyError
  \/ \E s \in Sends : HandleAck(s) \/ HandleMessageError(s)
  \/ HandleServerError
  \/ Retry

EnvironmentStep ==
  \/ Mount
  \/ Close
  \/ SaveMessages
  \/ Drop
  \/ \E m \in Msgs : Offer(m)
  \/ \E s \in Sends : Send(s)

Next == Connected \/ ServerStep \/ PageStep \/ EnvironmentStep

Spec == Init /\ [][Next]_vars

\* Packets arrive, timers fire, and the socket connects: the user and the peer do
\* as they please.
Fairness == WF_vars(Connected) /\ WF_vars(ServerStep) /\ WF_vars(PageStep)

FairSpec == Spec /\ Fairness

-----------------------------------------------------------------------------
(* What the conversation promises.                                          *)

\* No message is shown twice, whatever is delivered again or out of turn (StrictMode
\* drains the inbox twice at once, useChat.ts:394-409), unless its page was closed
\* with the message still in the inbox: the memory of what was seen ends with it.
ShownOnce == \A m \in Msgs : shown[m] > 1 => m \in revisited

\* A message whose sender was told of its success is in the inbox, waits for its
\* key or the callback that has it, or is in the conversation; otherwise the page,
\* which acknowledges before it decrypts and stores (useChat.ts:388, 439), could not
\* decrypt it, did not get the key in time, was closed before it had used the key
\* ("closed") or before the conversation was stored, if the store took it at all
\* ("unsaved", useChat.ts:168-170, messageStore.ts:55-68), the TTL of the store has
\* passed, or the message was pushed while a drain was going on.
NothingVanishes ==
  \A m \in Msgs :
    fate[m] = "kept" => \/ m \in Range(inbox) \cup Range(fetching) \cup Range(ready)
                        \/ shown[m] > 0
                        \/ cause[m] # "none"

\* What the conversation says of a message the user has sent is right: it is marked
\* as acknowledged only if the server has accepted it, and one without the mark is
\* under way, has failed with an error, or its connection ended (useChat.ts:634-671).
SendsAreHonest ==
  \A s \in Sends :
    /\ out[s] = "acked" => s \in accepted
    /\ out[s] = "shown" => \/ About("send", s) \in Range(toServer)
                           \/ About("ack", s) \in Range(toPage)
                           \/ s \in refused \cup doubt

\* useChat.ts:57-58, of a drain that has failed: "so we reconnect to trigger a fresh
\* drain".
FailedDrainIsRetried == redrain ~> ~redrain
=============================================================================
