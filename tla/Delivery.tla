------------------------------ MODULE Delivery ------------------------------
(***************************************************************************)
(* The message path of the backend, for ONE recipient account: the         *)
(* "message:send" handler (message.handler.ts, messages.service.ts), which *)
(* offers a message to every socket in the recipient's room, waits for     *)
(* their acknowledgements, and otherwise pushes it on the Redis list       *)
(* inbox:<name>; and the "inbox:ready" handler (inbox.handler.ts), which   *)
(* hands the whole list to one socket and deletes it once that socket      *)
(* acknowledges.                                                           *)
(*                                                                         *)
(* The Node process is single threaded: an action is the code a handler    *)
(* runs from one await to the next.  All handlers share one Redis client,  *)
(* which executes commands, and resolves their promises, in the order they *)
(* were issued: a command takes effect in the action that issues it, and   *)
(* `replies' is the queue of handlers waiting for an answer.               *)
(*                                                                         *)
(* Messages are numbered in the order their handlers start; what they      *)
(* contain is irrelevant here.  A connection, and one run of the inbox     *)
(* handler, is used once: a reconnect is another member of Conns.          *)
(***************************************************************************)
EXTENDS Naturals, Sequences, Functions

CONSTANTS
  MsgCount,     \* how many messages are sent to the recipient
  Conns,        \* the sockets the recipient ever opens, each used once
  Drains,       \* the "inbox:ready" events the recipient ever emits
  AckStatuses,  \* the `status' values recipients answer with
  MaxCrashes    \* how often the backend process may die and restart

ASSUME MsgCountAssumption == MsgCount \in Nat
ASSUME AckStatusAssumption == AckStatuses \subseteq {"ok", "error"}
ASSUME MaxCrashesAssumption == MaxCrashes \in Nat

Msgs == 1..MsgCount

\* Both kinds of handler wait in the same queue, and are told apart there.
ASSUME HandlersAssumption == Msgs \cap Drains = {}

VARIABLES
  account,    \* "live" while user:<name> exists with a positive TTL, else "gone"
  conn,       \* conn[c]: "new", "up" (in the recipient's room) or "down"
  listening,  \* listening[c]: the page's useChat listeners are attached to c
  pc,         \* pc[m]: where the handler of message m is
  flight,     \* flight[m][c]: the offer of m to c, and c's answer
  first,      \* first[m]: result[0]?.status, the first answer that arrived
  replies,    \* handlers waiting for Redis, in the order of their commands
  inbox,      \* the Redis list inbox:<name>
  drain,      \* drain[d]: one run of handleInbox
  crashes,    \* how often the process has died
  received,   \* history: messages the recipient's page has taken
  overtaken   \* history: messages pushed between a drain's LRANGE and its end

vars == <<account, conn, listening, pc, flight, first, replies, inbox, drain,
          crashes, received, overtaken>>

clientVars == <<conn, listening>>
historyVars == <<received, overtaken>>

-----------------------------------------------------------------------------
(* Handler of a message: "waiting" for acknowledgements, "ttl" and "push"   *)
(* for Redis; then acknowledged to its sender, or ended by an error         *)
(* ("refused": the recipient does not exist, "timedout"), or "lost" with    *)
(* the process.                                                             *)
Settled == {"acked", "refused", "timedout", "lost"}
InProgress == {"waiting", "ttl", "push"}

(* Run of handleInbox: "requested" (event under way), "range" and "del"     *)
(* (waiting for Redis), "waiting" (for the acknowledgement); then "done",   *)
(* "failed" (InboxDrainError) or "lost" with the process.                   *)
DrainStates == {"idle", "requested", "range", "waiting", "del",
                "done", "failed", "lost"}

\* A packet the server emits, and the acknowledgement it asks for.
PacketStates == {"none", "sent", "answered", "ok", "error"}

\* One run: the socket it serves, the packet with the batch it has read.
DrainRun == [pc : DrainStates, conn : Conns \cup {"none"},
             packet : PacketStates, batch : Seq(Msgs)]

NoDrain == [pc |-> "idle", conn |-> "none", packet |-> "none", batch |-> <<>>]

\* The sockets that io.to(userRoom(to)) reaches.
Room == {c \in Conns : conn[c] = "up"}

\* Drains that have read the inbox and may still delete it.
ActiveDrains == {d \in Drains : drain[d].pc \in {"range", "waiting"}}

TypeOK ==
  /\ account \in {"live", "gone"}
  /\ conn \in [Conns -> {"new", "up", "down"}]
  /\ listening \in [Conns -> BOOLEAN]
  /\ pc \in [Msgs -> {"unsent"} \cup InProgress \cup Settled]
  /\ flight \in [Msgs -> [Conns -> PacketStates]]
  /\ first \in [Msgs -> {"none", "ok", "error"}]
  /\ replies \in Seq(Msgs \cup Drains)
  /\ inbox \in Seq(Msgs)
  /\ drain \in [Drains -> DrainRun]
  /\ crashes \in 0..MaxCrashes
  /\ received \subseteq Msgs
  /\ overtaken \subseteq Msgs

Init ==
  /\ account = "live"
  /\ conn = [c \in Conns |-> "new"]
  /\ listening = [c \in Conns |-> FALSE]
  /\ pc = [m \in Msgs |-> "unsent"]
  /\ flight = [m \in Msgs |-> [c \in Conns |-> "none"]]
  /\ first = [m \in Msgs |-> "none"]
  /\ replies = <<>>
  /\ inbox = <<>>
  /\ drain = [d \in Drains |-> NoDrain]
  /\ crashes = 0
  /\ received = {}
  /\ overtaken = {}

-----------------------------------------------------------------------------
(* The recipient's side.                                                    *)

\* The handshake succeeds and the socket joins the room.  A page that is still
\* open reconnects by itself with its listeners attached; a fresh page has none.
Connect(c, attached) ==
  /\ conn[c] = "new"
  /\ conn' = [conn EXCEPT ![c] = "up"]
  /\ listening' = [listening EXCEPT ![c] = attached]
  /\ UNCHANGED <<account, pc, flight, first, replies, inbox, drain, crashes,
                 historyVars>>

\* The transport closes.  Packets under way in either direction are lost.
Disconnect(c) ==
  /\ conn[c] = "up"
  /\ conn' = [conn EXCEPT ![c] = "down"]
  /\ UNCHANGED <<account, listening, pc, flight, first, replies, inbox, drain,
                 crashes, historyVars>>

\* useChat's effect attaches the listeners and emits "inbox:ready", once.
Mount(c, d) ==
  /\ conn[c] = "up"
  /\ ~listening[c]
  /\ drain[d].pc = "idle"
  /\ listening' = [listening EXCEPT ![c] = TRUE]
  /\ drain' = [drain EXCEPT ![d].pc = "requested", ![d].conn = c]
  /\ UNCHANGED <<account, conn, pc, flight, first, replies, inbox, crashes,
                 historyVars>>

\* The effect's cleanup detaches the listeners; the socket stays connected.
Unmount(c) ==
  /\ conn[c] = "up"
  /\ listening[c]
  /\ listening' = [listening EXCEPT ![c] = FALSE]
  /\ UNCHANGED <<account, conn, pc, flight, first, replies, inbox, drain,
                 crashes, historyVars>>

\* handleMessageIncoming: the page takes m and answers at once (a page that
\* answers "error" has not taken it).  Nothing cancels an offer whose handler
\* has timed out.
TakeMessage(m, c, status) ==
  /\ conn[c] = "up"
  /\ listening[c]
  /\ flight[m][c] = "sent"
  /\ flight' = [flight EXCEPT ![m][c] = status]
  /\ received' = IF status = "ok" THEN received \cup {m} ELSE received
  /\ UNCHANGED <<account, clientVars, pc, first, replies, inbox, drain, crashes,
                 overtaken>>

\* handleInboxIncoming: the page takes the batch and answers.
TakeBatch(d, status) ==
  /\ drain[d].packet = "sent"
  /\ drain[d].conn \in Room
  /\ listening[drain[d].conn]
  /\ drain' = [drain EXCEPT ![d].packet = status]
  /\ received' = IF status = "ok" THEN received \cup Range(drain[d].batch)
                 ELSE received
  /\ UNCHANGED <<account, clientVars, pc, flight, first, replies, inbox, crashes,
                 overtaken>>

-----------------------------------------------------------------------------
(* sendMessage and sendMsgToInbox.                                          *)

\* redisClient.ttl(user:<to>): the handler goes on to push only if the account
\* exists with a TTL, and throws UserDoesNotExistError otherwise.
AskTtl(m) ==
  \/ /\ account = "live"
     /\ pc' = [pc EXCEPT ![m] = "ttl"]
     /\ replies' = Append(replies, m)
  \/ /\ account # "live"
     /\ pc' = [pc EXCEPT ![m] = "refused"]
     /\ UNCHANGED replies

\* The handler starts, in the order of the numbers.
Starts(m) ==
  /\ pc[m] = "unsent"
  /\ \A k \in Msgs : k < m => pc[k] # "unsent"

\* emitWithAck to a room with members: one packet for each.
SendToRoom(m) ==
  /\ Starts(m)
  /\ Room # {}
  /\ pc' = [pc EXCEPT ![m] = "waiting"]
  /\ flight' = [flight EXCEPT
                  ![m] = [c \in Conns |-> IF c \in Room THEN "sent" ELSE "none"]]
  /\ UNCHANGED <<account, clientVars, first, replies, inbox, drain, crashes,
                 historyVars>>

\* emitWithAck to an empty room resolves at once to the empty array.
SendToEmptyRoom(m) ==
  /\ Starts(m)
  /\ Room = {}
  /\ AskTtl(m)
  /\ UNCHANGED <<account, clientVars, flight, first, inbox, drain, crashes,
                 historyVars>>

\* The offers of m that have not been answered, c's aside.
Outstanding(m, c) ==
  {k \in Conns \ {c} : flight[m][k] \notin {"none", "answered"}}

\* An answer reaches the server.  The promise resolves with the last one; what
\* counts is result[0], the first.
AckArrives(m, c) ==
  /\ pc[m] = "waiting"
  /\ conn[c] = "up"
  /\ flight[m][c] \in AckStatuses
  /\ flight' = [flight EXCEPT ![m][c] = "answered"]
  /\ LET status == IF first[m] = "none" THEN flight[m][c] ELSE first[m]
     IN  /\ first' = [first EXCEPT ![m] = status]
         /\ \/ /\ Outstanding(m, c) # {}
               /\ UNCHANGED <<pc, replies>>
            \/ /\ Outstanding(m, c) = {}
               /\ status = "ok"
               /\ pc' = [pc EXCEPT ![m] = "acked"]
               /\ UNCHANGED replies
            \/ /\ Outstanding(m, c) = {}
               /\ status # "ok"
               /\ AskTtl(m)
  /\ UNCHANGED <<account, clientVars, inbox, drain, crashes, historyVars>>

\* Mutants of AckTimeout: the handler ends in the state its metric's label
\* names; falls back to the inbox; stores the message and still reports an
\* error; sets no timer unless a socket is left to wait for.
AckTimeout_Label(m) ==
  /\ pc[m] = "waiting"
  /\ pc' = [pc EXCEPT ![m] = "queued"]
  /\ UNCHANGED <<account, clientVars, flight, first, replies, inbox, drain,
                 crashes, historyVars>>

AckTimeout_Queues(m) ==
  /\ pc[m] = "waiting"
  /\ AskTtl(m)
  /\ UNCHANGED <<account, clientVars, flight, first, inbox, drain, crashes,
                 historyVars>>

AckTimeout_Stores(m) ==
  /\ pc[m] = "waiting"
  /\ pc' = [pc EXCEPT ![m] = "timedout"]
  /\ inbox' = Append(inbox, m)
  /\ UNCHANGED <<account, clientVars, flight, first, replies, drain, crashes,
                 historyVars>>

AckTimeout_NoTimer(m) ==
  /\ pc[m] = "waiting"
  /\ Room # {}
  /\ pc' = [pc EXCEPT ![m] = "timedout"]
  /\ UNCHANGED <<account, clientVars, flight, first, replies, inbox, drain,
                 crashes, historyVars>>

\* Not every member of the room answered within ACK_TIMEOUT_MILLISECONDS: the
\* error is rethrown, socketAsyncHandler reports it, nothing is stored.
AckTimeout(m) ==
  /\ pc[m] = "waiting"
  /\ pc' = [pc EXCEPT ![m] = "timedout"]
  /\ UNCHANGED <<account, clientVars, flight, first, replies, inbox, drain,
                 crashes, historyVars>>

\* Mutant of Push: LPUSH.
Push_Left(m) ==
  /\ replies # <<>>
  /\ Head(replies) = m
  /\ pc[m] = "ttl"
  /\ pc' = [pc EXCEPT ![m] = "push"]
  /\ inbox' = <<m>> \o inbox
  /\ replies' = Append(Tail(replies), m)
  /\ overtaken' = IF ActiveDrains # {} THEN overtaken \cup {m} ELSE overtaken
  /\ UNCHANGED <<account, clientVars, flight, first, drain, crashes, received>>

\* The TTL is known: MULTI, RPUSH, EXPIRE, EXEC.
Push(m) ==
  /\ replies # <<>>
  /\ Head(replies) = m
  /\ pc[m] = "ttl"
  /\ pc' = [pc EXCEPT ![m] = "push"]
  /\ inbox' = Append(inbox, m)
  /\ replies' = Append(Tail(replies), m)
  /\ overtaken' = IF ActiveDrains # {} THEN overtaken \cup {m} ELSE overtaken
  /\ UNCHANGED <<account, clientVars, flight, first, drain, crashes, received>>

\* EXEC is answered: sendMessage returns and the sender gets its ack.
AckSender(m) ==
  /\ replies # <<>>
  /\ Head(replies) = m
  /\ pc[m] = "push"
  /\ pc' = [pc EXCEPT ![m] = "acked"]
  /\ replies' = Tail(replies)
  /\ UNCHANGED <<account, clientVars, flight, first, inbox, drain, crashes,
                 historyVars>>

-----------------------------------------------------------------------------
(* handleInbox.                                                             *)

\* Mutant of StartDrain: the list is read and deleted in one MULTI.
StartDrain_Deletes(d) ==
  /\ drain[d].pc = "requested"
  /\ drain[d].conn \in Room
  /\ drain' = [drain EXCEPT ![d].pc = "range", ![d].batch = inbox]
  /\ replies' = Append(replies, d)
  /\ inbox' = <<>>
  /\ UNCHANGED <<account, clientVars, pc, flight, first, crashes, historyVars>>

\* "inbox:ready" arrives: LRANGE 0 -1.
StartDrain(d) ==
  /\ drain[d].pc = "requested"
  /\ drain[d].conn \in Room
  /\ drain' = [drain EXCEPT ![d].pc = "range", ![d].batch = inbox]
  /\ replies' = Append(replies, d)
  /\ UNCHANGED <<account, clientVars, pc, flight, first, inbox, crashes,
                 historyVars>>

\* LRANGE is answered: an empty inbox ends the handler, otherwise the whole
\* list goes out as one "inbox:incoming".
EmitBatch(d) ==
  /\ replies # <<>>
  /\ Head(replies) = d
  /\ drain[d].pc = "range"
  /\ replies' = Tail(replies)
  /\ \/ /\ drain[d].batch = <<>>
        /\ drain' = [drain EXCEPT ![d].pc = "done"]
     \/ /\ drain[d].batch # <<>>
        /\ drain' = [drain EXCEPT ![d].pc = "waiting", ![d].packet = "sent"]
  /\ UNCHANGED <<account, clientVars, pc, flight, first, inbox, crashes,
                 historyVars>>

\* Mutant of DrainAckArrives: any acknowledgement deletes the key.
DrainAckArrives_AnyStatus(d) ==
  /\ drain[d].pc = "waiting"
  /\ drain[d].packet \in AckStatuses
  /\ drain[d].conn \in Room
  /\ drain' = [drain EXCEPT ![d].pc = "del", ![d].packet = "answered"]
  /\ inbox' = <<>>
  /\ replies' = Append(replies, d)
  /\ UNCHANGED <<account, clientVars, pc, flight, first, crashes, historyVars>>

\* The acknowledgement arrives: "ok" deletes the key, whatever it holds by now;
\* any other status leaves it and ends the handler.
DrainAckArrives(d) ==
  /\ drain[d].pc = "waiting"
  /\ drain[d].packet \in AckStatuses
  /\ drain[d].conn \in Room
  /\ \/ /\ drain[d].packet = "ok"
        /\ drain' = [drain EXCEPT ![d].pc = "del", ![d].packet = "answered"]
        /\ inbox' = <<>>
        /\ replies' = Append(replies, d)
     \/ /\ drain[d].packet # "ok"
        /\ drain' = [drain EXCEPT ![d].pc = "done", ![d].packet = "answered"]
        /\ UNCHANGED <<inbox, replies>>
  /\ UNCHANGED <<account, clientVars, pc, flight, first, crashes, historyVars>>

\* Mutant of DrainTimeout: no timer unless the socket is still there.
DrainTimeout_NoTimer(d) ==
  /\ drain[d].pc = "waiting"
  /\ drain[d].conn \in Room
  /\ drain' = [drain EXCEPT ![d].pc = "failed"]
  /\ UNCHANGED <<account, clientVars, pc, flight, first, replies, inbox, crashes,
                 historyVars>>

\* No answer in time: InboxDrainError; the key is left as it is.
DrainTimeout(d) ==
  /\ drain[d].pc = "waiting"
  /\ drain' = [drain EXCEPT ![d].pc = "failed"]
  /\ UNCHANGED <<account, clientVars, pc, flight, first, replies, inbox, crashes,
                 historyVars>>

\* DEL is answered: the handler returns.
DrainReturns(d) ==
  /\ replies # <<>>
  /\ Head(replies) = d
  /\ drain[d].pc = "del"
  /\ drain' = [drain EXCEPT ![d].pc = "done"]
  /\ replies' = Tail(replies)
  /\ UNCHANGED <<account, clientVars, pc, flight, first, inbox, crashes,
                 historyVars>>

-----------------------------------------------------------------------------
(* The environment.                                                         *)

\* user:<name> reaches its TTL, or its owner deletes the account.
AccountEnds ==
  /\ account = "live"
  /\ account' = "gone"
  /\ UNCHANGED <<clientVars, pc, flight, first, replies, inbox, drain, crashes,
                 historyVars>>

\* inbox:<name> reaches the TTL its last push copied from the account's (which
\* is never extended), so not before the account itself is gone.
InboxExpires ==
  /\ account = "gone"
  /\ inbox # <<>>
  /\ inbox' = <<>>
  /\ UNCHANGED <<account, clientVars, pc, flight, first, replies, drain, crashes,
                 historyVars>>

\* The process dies: its sockets close, its handlers vanish, Redis stays.
Crash ==
  /\ crashes < MaxCrashes
  /\ crashes' = crashes + 1
  /\ conn' = [c \in Conns |-> IF conn[c] = "up" THEN "down" ELSE conn[c]]
  /\ pc' = [m \in Msgs |-> IF pc[m] \in InProgress THEN "lost" ELSE pc[m]]
  /\ drain' = [d \in Drains |->
                 IF drain[d].pc \in {"requested", "range", "waiting", "del"}
                 THEN [drain[d] EXCEPT !.pc = "lost"] ELSE drain[d]]
  /\ replies' = <<>>
  /\ UNCHANGED <<account, listening, flight, first, inbox, historyVars>>

-----------------------------------------------------------------------------
ClientStep ==
  \/ \E c \in Conns : \/ \E attached \in BOOLEAN : Connect(c, attached)
                      \/ Disconnect(c)
                      \/ \E d \in Drains : Mount(c, d)
                      \/ Unmount(c)
                      \/ \E m \in Msgs, s \in AckStatuses : TakeMessage(m, c, s)
  \/ \E d \in Drains, s \in AckStatuses : TakeBatch(d, s)

SendStep ==
  \E m \in Msgs : \/ SendToRoom(m)
                  \/ SendToEmptyRoom(m)
                  \/ \E c \in Conns : AckArrives(m, c)
                  \/ AckTimeout(m)
                  \/ Push(m)
                  \/ AckSender(m)

DrainStep ==
  \E d \in Drains : \/ StartDrain(d)
                    \/ EmitBatch(d)
                    \/ DrainAckArrives(d)
                    \/ DrainTimeout(d)
                    \/ DrainReturns(d)

EnvironmentStep == AccountEnds \/ InboxExpires \/ Crash

Next == ClientStep \/ SendStep \/ DrainStep \/ EnvironmentStep

Spec == Init /\ [][Next]_vars

\* Redis answers every command, and a timer that is set fires: nothing is
\* assumed of the recipient or the network.
RedisReply ==
  \/ \E m \in Msgs : Push(m) \/ AckSender(m)
  \/ \E d \in Drains : EmitBatch(d) \/ DrainReturns(d)

Fairness ==
  /\ WF_vars(RedisReply)
  /\ \A m \in Msgs : WF_vars(AckTimeout(m))
  /\ \A d \in Drains : WF_vars(DrainTimeout(d))

FairSpec == Spec /\ Fairness

-----------------------------------------------------------------------------
(* What the message path promises.                                          *)

\* A message whose sender got its ack while the recipient's account lives has
\* been taken by the recipient's page, or is in the inbox, or was pushed while
\* a drain stood between its LRANGE and its end: no other interleaving of
\* handlers, disconnection, timeout or crash loses an acknowledged message
\* (messages.service.ts:23-67 against inbox.handler.ts:7-32).
AckedIsKept ==
  account = "live" =>
    \A m \in Msgs : pc[m] = "acked" =>
                      m \in received \cup Range(inbox) \cup overtaken

\* The same without the exception: what README.md:57-60 says of messages that
\* fall back to the inbox.
AckedNeverLost ==
  account = "live" =>
    \A m \in Msgs : pc[m] = "acked" => m \in received \cup Range(inbox)

\* A message that was offered to a socket is never also queued, so the page
\* cannot be given it twice, once by each path (useChat.ts dedupes only what
\* comes out of the inbox).  Holds for recipients that answer "ok", as
\* useChat.ts:388 and 439 do.
DirectXorQueued ==
  \A m \in Range(inbox) : \A c \in Conns : flight[m][c] = "none"

\* The inbox holds each message once, in the order the messages were sent: TTL
\* lookups and pushes of concurrent handlers cannot overtake one another.
\* Again for recipients that answer "ok".
InboxInSendOrder ==
  \A i, j \in DOMAIN inbox : i < j => inbox[i] < inbox[j]

\* What the sender was told is an error stays an error: the message is not
\* queued, so a sender that sends it again does not queue it twice
\* (messages.service.ts:45-47, 59-61).
FailedIsNotQueued ==
  \A m \in Msgs : pc[m] \in {"refused", "timedout"} => m \notin Range(inbox)

\* useChat.ts:386-387 and metrics.ts:19: a message whose acknowledgement times
\* out is treated as sent to an offline recipient and queued for later.
TimeoutFallsBackToQueue ==
  account = "live" =>
    \A m \in Msgs : pc[m] = "timedout" => m \in received \cup Range(inbox)

\* Every handler that starts ends: the sender is answered, whatever the
\* recipient's sockets do.
SendSettles ==
  \A m \in Msgs : pc[m] \in InProgress ~> pc[m] \in Settled

\* Every drain that has read the inbox ends.
DrainSettles ==
  \A d \in Drains : drain[d].pc \in {"range", "waiting", "del"}
                      ~> drain[d].pc \in {"done", "failed", "lost"}

-----------------------------------------------------------------------------
(* Delivery implements Mailbox.                                             *)

\* What the sender of a message has been told when its handler is at step.
Told(step) ==
  CASE step = "unsent" -> "nothing"
    [] step \in InProgress -> "busy"
    [] step = "acked" -> "ok"
    [] step \in {"refused", "timedout"} -> "error"
    [] step = "lost" -> "lost"

Box == INSTANCE Mailbox WITH
         Messages <- Msgs,
         alive <- account = "live",
         told <- [m \in Msgs |-> Told(pc[m])],
         taken <- received,
         stored <- Range(inbox),
         open <- ActiveDrains # {},
         late <- overtaken

\* Seen from outside, the handlers, their timers and the Redis list are a mailbox:
\* the code never stores what it reports as failed, never reports as stored what
\* is not, and removes only what was taken, or overtook the drain
\* (messages.service.ts:23-67, inbox.handler.ts:7-32).
ImplementsMailbox == Box!Spec
=============================================================================
