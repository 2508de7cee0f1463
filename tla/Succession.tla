----------------------------- MODULE Succession -----------------------------
(***************************************************************************)
(* Delivery composed with the accounts that own the recipient's name one   *)
(* after another.  An account ends when its TTL runs out or when it is     *)
(* deleted; then anybody may sign up with the name.  What the code keeps   *)
(* under the name elsewhere -- the inbox with a TTL of its own, the room,  *)
(* session records that every request prolongs -- meets the next owner.    *)
(*                                                                         *)
(* The message path is module Delivery's, action by action.  Accounts are  *)
(* reduced to what it can notice: each has the one session that its        *)
(* sign-up made (for logins, and for requests that overlap, see module     *)
(* Accounts), and sign-up and deletion are the commands on the keys below, *)
(* in the queue of replies of the one Redis client.  The process does not  *)
(* die here: a crash empties the room and loses what is under way, so it   *)
(* leaves nothing to an heir that it does not leave in Delivery.           *)
(***************************************************************************)
EXTENDS Integers, Sequences, Functions

CONSTANTS
  MsgCount, Conns, Drains, AckStatuses,  \* as in Delivery
  Account,      \* the handler of the account request under way
  MaxRequests,  \* how many account requests are made
  Ttl,          \* USER_TTL_SECONDS, in ticks
  MaxTicks      \* how many ticks pass

ASSUME TtlAssumption == Ttl \in Nat \ {0}
ASSUME BoundsAssumption == MaxRequests \in Nat /\ MaxTicks \in Nat

\* What Delivery assumes, and that the handlers in the queue can be told apart.
ASSUME DeliveryAssumption ==
  /\ MsgCount \in Nat
  /\ AckStatuses \subseteq {"ok", "error"}
  /\ (1..MsgCount) \cap Drains = {}
  /\ Account \notin (1..MsgCount) \cup Drains

VARIABLES
  conn, listening, pc, flight, first, replies, inbox, drain, crashes,
  received, overtaken,   \* as in Delivery
  user,       \* the TTL of user:<name>
  owner,      \* the number of the account that has, or had last, the name
  member,     \* whose session is in user:<name>:sessions, 0 for nobody's
  session,    \* session[o]: the TTL of the session record of account o, or 0
  request,    \* the account request under way
  requested,  \* bound on account requests
  expired,    \* the "expired" event of user:<name> is under way
  ticks,      \* bound on time
  of,         \* of[c]: whose session opened socket c, 0 for nobody's yet
  mail,       \* mail[m]: the account that message m is for, 0 before it is sent
  held,       \* held[m]: the TTL that the handler of m has read
  keep,       \* the TTL of the inbox
  taken,      \* history: <<m, o>> when a page of account o has taken message m
  stranded,   \* history: messages that the code leaves behind for an heir
  lingering   \* history: accounts whose sockets the code leaves in the room

deliveryVars == <<conn, listening, pc, flight, first, replies, inbox, drain,
                  crashes, received, overtaken>>
accountVars == <<user, owner, member, session, request, requested, expired, ticks>>
mailVars == <<of, mail, held, keep>>
historyVars == <<taken, stranded, lingering>>
vars == <<deliveryVars, accountVars, mailVars, historyVars>>

Gone == -2    \* Redis TTL of a key that does not exist
NoTtl == -1   \* and of one that never expires

\* sendMsgToInbox refuses a name whose TTL is not positive.
D == INSTANCE Delivery WITH
       account <- IF user > 0 THEN "live" ELSE "gone", MaxCrashes <- 0

Owners == 1..(1 + MaxRequests)
NoRequest == [pc |-> "idle", by |-> 0, found |-> FALSE, listed |-> 0]

TypeOK ==
  /\ user \in {Gone, NoTtl} \cup 1..Ttl
  /\ owner \in Owners
  /\ member \in {0, owner}
  /\ session \in [Owners -> 0..Ttl]
  /\ request.pc \in {"idle", "exists", "hset", "sadd", "expire",
                     "smembers", "delsess", "delset", "deluser"}
  /\ of \in [Conns -> {0} \cup Owners]
  /\ mail \in [D!Msgs -> {0} \cup Owners]
  /\ held \in [D!Msgs -> {Gone} \cup 1..Ttl]
  /\ keep \in {Gone} \cup 1..Ttl
  /\ inbox = <<>> <=> keep = Gone

\* Account 1 has been there for a while, and used its session since.
Init ==
  /\ user \in 1..Ttl
  /\ D!Init
  /\ owner = 1
  /\ member = 1
  /\ session = [o \in Owners |-> IF o = 1 THEN Ttl ELSE 0]
  /\ request = NoRequest
  /\ requested = 0
  /\ expired = FALSE
  /\ ticks = 0
  /\ of = [c \in Conns |-> 0]
  /\ mail = [m \in D!Msgs |-> 0]
  /\ held = [m \in D!Msgs |-> Gone]
  /\ keep = Gone
  /\ taken = {}
  /\ stranded = {}
  /\ lingering = {}

-----------------------------------------------------------------------------
(* The pages.                                                               *)

\* A handshake asks for a session record and for nothing else: the record may
\* have outlived its account, and the name may have another owner by now.
Connect(c, attached, o) ==
  /\ session[o] > 0
  /\ UNCHANGED <<accountVars, mail, held, keep, taken, stranded>>
  /\ D!Connect(c, attached)
  /\ of' = [of EXCEPT ![c] = o]
  /\ lingering' = IF o = owner /\ user # Gone THEN lingering
                  ELSE lingering \cup {o}

Page(c) ==
  /\ UNCHANGED <<accountVars, mailVars, historyVars>>
  /\ \/ D!Disconnect(c)
     \/ D!Unmount(c)
     \/ \E d \in Drains : D!Mount(c, d)

TakeMessage(m, c, status) ==
  /\ UNCHANGED <<accountVars, mailVars, stranded, lingering>>
  /\ D!TakeMessage(m, c, status)
  /\ taken' = IF status = "ok" THEN taken \cup {<<m, of[c]>>} ELSE taken

TakeBatch(d, status) ==
  /\ UNCHANGED <<accountVars, mailVars, stranded, lingering>>
  /\ D!TakeBatch(d, status)
  /\ taken' = IF status = "ok"
              THEN taken \cup (Range(drain[d].batch) \X {of[drain[d].conn]})
              ELSE taken

-----------------------------------------------------------------------------
(* The message path: what Delivery does, and the TTLs it reads and sets.    *)

\* The TTL of user:<name> is read when the handler of m turns to the inbox.
Reads(m) == held' = [held EXCEPT ![m] = IF pc'[m] = "ttl" THEN user ELSE @]

Send(m) ==
  /\ UNCHANGED <<accountVars, of, keep, historyVars>>
  /\ D!SendToRoom(m) \/ D!SendToEmptyRoom(m)
  /\ mail' = [mail EXCEPT ![m] = owner]
  /\ Reads(m)

Acknowledged(m, c) ==
  /\ UNCHANGED <<accountVars, of, mail, keep, historyVars>>
  /\ D!AckArrives(m, c)
  /\ Reads(m)

\* Mutant of Push: RPUSH without EXPIRE, which keeps the TTL of a list that
\* exists and gives none to a new one (here: the longest).
Push_NoExpire(m) ==
  /\ UNCHANGED <<accountVars, of, mail, taken, lingering>>
  /\ D!Push(m)
  /\ keep' = IF inbox = <<>> THEN Ttl ELSE keep
  /\ held' = [held EXCEPT ![m] = Gone]
  /\ stranded' = IF held[m] = user THEN stranded ELSE stranded \cup Range(inbox')

\* RPUSH and EXPIRE, with the TTL that was read: if it is not the account's any
\* more, the whole inbox outlives the account.
Push(m) ==
  /\ UNCHANGED <<accountVars, of, mail, taken, lingering>>
  /\ D!Push(m)
  /\ keep' = held[m]
  /\ held' = [held EXCEPT ![m] = Gone]
  /\ stranded' = IF held[m] = user THEN stranded ELSE stranded \cup Range(inbox')

HandlerEnds(m) ==
  /\ UNCHANGED <<accountVars, mailVars, historyVars>>
  /\ D!AckTimeout(m) \/ D!AckSender(m)

Drain(d) ==
  /\ UNCHANGED <<accountVars, of, mail, held, historyVars>>
  /\ \/ D!StartDrain(d)
     \/ D!EmitBatch(d)
     \/ D!DrainAckArrives(d)
     \/ D!DrainTimeout(d)
     \/ D!DrainReturns(d)
  /\ keep' = IF inbox' = <<>> THEN Gone ELSE keep

-----------------------------------------------------------------------------
(* Account requests, one at a time.  Of the message path they touch only    *)
(* the queue of replies.                                                    *)

Aside == UNCHANGED <<conn, listening, pc, flight, first, inbox, drain, crashes,
                     received, overtaken, mailVars, taken, ticks, expired>>

Start(record) ==
  /\ request = NoRequest
  /\ requested < MaxRequests
  /\ requested' = requested + 1
  /\ request' = record
  /\ replies' = Append(replies, Account)
  /\ Aside

Resumes(step) ==
  /\ replies # <<>>
  /\ Head(replies) = Account
  /\ request.pc = step
  /\ UNCHANGED requested
  /\ Aside

Then(step) ==
  /\ request' = [request EXCEPT !.pc = step]
  /\ replies' = Append(Tail(replies), Account)

End ==
  /\ request' = NoRequest
  /\ replies' = Tail(replies)

\* POST /api/users: EXISTS.
SignupStarts ==
  /\ Start([NoRequest EXCEPT !.pc = "exists", !.found = user # Gone])
  /\ UNCHANGED <<user, owner, member, session, stranded, lingering>>

\* UserAlreadyExistsError, or HSET: the name has a new owner.  If the event of
\* its expiry has not arrived yet, the sockets of the old one are still there.
SignupExists ==
  /\ Resumes("exists")
  /\ \/ /\ request.found
        /\ End
        /\ UNCHANGED <<user, owner, lingering>>
     \/ /\ ~request.found
        /\ user' = NoTtl
        /\ owner' = owner + 1
        /\ lingering' = IF expired THEN lingering \cup {of[c] : c \in D!Room}
                        ELSE lingering
        /\ Then("hset")
  /\ UNCHANGED <<member, session, stranded>>

\* SADD of the new session.
SignupStored ==
  /\ Resumes("hset")
  /\ member' = owner
  /\ Then("sadd")
  /\ UNCHANGED <<user, owner, session, stranded, lingering>>

SignupSetsTtl ==
  /\ Resumes("sadd")
  /\ user' = Ttl
  /\ Then("expire")
  /\ UNCHANGED <<owner, member, session, stranded, lingering>>

\* 201: express-session writes the record.
SignupResponds ==
  /\ Resumes("expire")
  /\ session' = [session EXCEPT ![owner] = Ttl]
  /\ End
  /\ UNCHANGED <<user, owner, member, stranded, lingering>>

\* DELETE /api/users with a session of any account of the name: SMEMBERS.
DeleteStarts(o) ==
  /\ session[o] > 0
  /\ Start([NoRequest EXCEPT !.pc = "smembers", !.by = o, !.listed = member])
  /\ UNCHANGED <<user, owner, member, session, stranded, lingering>>

\* DEL of no record is an error, which ends the request; its session is touched.
DeleteRecords ==
  /\ Resumes("smembers")
  /\ \/ /\ request.listed = 0
        /\ session' = [session EXCEPT ![request.by] = IF @ > 0 THEN Ttl ELSE 0]
        /\ End
     \/ /\ request.listed # 0
        /\ session' = [session EXCEPT ![request.listed] = 0]
        /\ Then("delsess")
  /\ UNCHANGED <<user, owner, member, stranded, lingering>>

DeleteSet ==
  /\ Resumes("delsess")
  /\ member' = 0
  /\ Then("delset")
  /\ UNCHANGED <<user, owner, session, stranded, lingering>>

\* DEL of the hash: neither the inbox nor the sockets in the room go with it.
DeleteUser ==
  /\ Resumes("delset")
  /\ user' = Gone
  /\ stranded' = stranded \cup Range(inbox)
  /\ lingering' = lingering \cup {of[c] : c \in D!Room}
  /\ Then("deluser")
  /\ UNCHANGED <<owner, member, session>>

\* session.destroy, and 204.
DeleteResponds ==
  /\ Resumes("deluser")
  /\ session' = [session EXCEPT ![request.by] = 0]
  /\ End
  /\ UNCHANGED <<user, owner, member, stranded, lingering>>

\* Any other request of a page ends with a touch of its session.
Touch(o) ==
  /\ session[o] \in 1..(Ttl - 1)
  /\ session' = [session EXCEPT ![o] = Ttl]
  /\ UNCHANGED <<deliveryVars, user, owner, member, request, requested, expired,
                 ticks, mailVars, historyVars>>

-----------------------------------------------------------------------------
(* Time and expiry.                                                         *)

\* Mutant of Aged: a key whose time is up stays.
Aged_Stays(ttl) == IF ttl > 0 THEN ttl - 1 ELSE ttl

Aged(ttl) == IF ttl > 1 THEN ttl - 1 ELSE IF ttl = 1 THEN Gone ELSE ttl

\* The sessions set has the TTL of the hash, and goes with it.
Tick ==
  /\ ticks < MaxTicks
  /\ ticks' = ticks + 1
  /\ user' = Aged(user)
  /\ expired' = (expired \/ user = 1)
  /\ member' = IF user = 1 THEN 0 ELSE member
  /\ session' = [o \in Owners |-> IF session[o] > 0 THEN session[o] - 1 ELSE 0]
  /\ keep' = Aged(keep)
  /\ inbox' = IF keep = 1 THEN <<>> ELSE inbox
  /\ UNCHANGED <<conn, listening, pc, flight, first, replies, drain, crashes,
                 received, overtaken, owner, request, requested, of, mail, held,
                 historyVars>>

\* Mutant of ExpiryEvent: the room is not emptied.
ExpiryEvent_Ignored ==
  /\ expired
  /\ expired' = FALSE
  /\ UNCHANGED <<deliveryVars, user, owner, member, session, request, requested,
                 ticks, mailVars, historyVars>>

\* listenForUserExpiry: whoever is in the room by now is disconnected.
ExpiryEvent ==
  /\ expired
  /\ expired' = FALSE
  /\ conn' = [c \in Conns |-> IF conn[c] = "up" THEN "down" ELSE conn[c]]
  /\ UNCHANGED <<listening, pc, flight, first, replies, inbox, drain, crashes,
                 received, overtaken, user, owner, member, session, request,
                 requested, ticks, mailVars, historyVars>>

-----------------------------------------------------------------------------
PageStep ==
  \/ \E c \in Conns :
       \/ \E attached \in BOOLEAN, o \in Owners : Connect(c, attached, o)
       \/ Page(c)
       \/ \E m \in D!Msgs, s \in AckStatuses : TakeMessage(m, c, s)
  \/ \E d \in Drains, s \in AckStatuses : TakeBatch(d, s)

MessageStep ==
  \/ \E m \in D!Msgs : \/ Send(m)
                       \/ \E c \in Conns : Acknowledged(m, c)
                       \/ Push(m)
                       \/ HandlerEnds(m)
  \/ \E d \in Drains : Drain(d)

AccountStep ==
  \/ SignupStarts \/ SignupExists \/ SignupStored \/ SignupSetsTtl
  \/ SignupResponds
  \/ \E o \in Owners : DeleteStarts(o) \/ Touch(o)
  \/ DeleteRecords \/ DeleteSet \/ DeleteUser \/ DeleteResponds

Next == PageStep \/ MessageStep \/ AccountStep \/ Tick \/ ExpiryEvent

Spec == Init /\ [][Next]_vars

-----------------------------------------------------------------------------
(* What becomes of messages when a name changes hands.                      *)

\* No message for an account is taken by a page of a later one, but those which
\* were in the inbox when the account was deleted, or when a message, this one or
\* another, was pushed with a TTL that was not the account's any more
\* (messages.service.ts:58, user.service.ts:27-48).
HeirsGetNothing ==
  \A t \in taken : t[2] > mail[t[1]] => t[1] \in stranded

\* No message for an account is taken by a page of an earlier one, unless that
\* one was connected while its account was deleted, or while the name changed
\* hands before the event of the expiry arrived, or connected with a session
\* that had outlived its account (user.service.ts:35, expiry-listener.ts:17,
\* sockets/index.ts:105-120).
LeaversGetNothing ==
  \A t \in taken : t[2] < mail[t[1]] => t[2] \in lingering

\* The inbox goes when the account does, with the same exception as above:
\* "everything tied to them (sessions, friend requests, queued messages)
\* expire" (README.md:34).
InboxGoesWithAccount ==
  user = Gone => Range(inbox) \subseteq stranded

\* A message that its sender knows accepted, for an account that still lives,
\* is in the inbox, was overtaken by a drain (see AckedIsKept), or was taken by
\* that account's page or by one that should not have been in the room.
AckedReachesOwner ==
  \A m \in D!Msgs :
    pc[m] = "acked" /\ mail[m] = owner /\ user > 0 =>
      \/ m \in Range(inbox) \cup overtaken
      \/ \E o \in {owner} \cup lingering : <<m, o>> \in taken
=============================================================================
