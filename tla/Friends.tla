------------------------------ MODULE Friends ------------------------------
(***************************************************************************)
(* Friend requests and friends (request.service.ts), with the two          *)
(* operations that begin and end an account, for a few names.              *)
(*                                                                         *)
(* Redis keeps user:<n>, the set requests:<n> of the names that asked n,   *)
(* and the set friends:<n>, each with a TTL of its own that is copied from *)
(* the account's.  A handler is a step machine whose steps are the code    *)
(* between two awaits.  As in modules Delivery and Accounts one Redis      *)
(* client serves them all: a command takes effect in the action that       *)
(* issues it, and `replies' holds the handlers waiting for an answer, in   *)
(* the order of their commands.                                            *)
(*                                                                         *)
(* Sockets outlive accounts for a while (a deletion leaves them in the     *)
(* room), so any name may send friend events at any time.                  *)
(***************************************************************************)
EXTENDS Integers, Sequences

CONSTANTS
  Names,      \* the usernames
  Slots,      \* the handlers that can be under way at a time
  Ttl,        \* USER_TTL_SECONDS, in ticks
  MaxOps,     \* how many handlers are started
  MaxTicks,   \* how many ticks pass
  MaxCrashes  \* how often the backend process may die and restart

ASSUME TtlAssumption == Ttl \in Nat \ {0}
ASSUME BoundsAssumption ==
  MaxOps \in Nat /\ MaxTicks \in Nat /\ MaxCrashes \in Nat

VARIABLES
  user,      \* user[n]: the TTL of user:<n>
  requests,  \* requests[n]: the set requests:<n>, with its TTL
  friends,   \* friends[n]: the set friends:<n>, with its TTL
  op,        \* op[s]: the handler in slot s, with what it has read
  replies,   \* handlers waiting for Redis, in the order of their commands
  started,   \* bound on handlers
  ticks,     \* bound on time
  crashes,   \* bound on crashes
  ended,     \* history: names that have been without an account
  loose,     \* history: names whose sets may outlive the account, see Tick
  asked,     \* history: what requests[n] would hold if nothing expired
  made,      \* history: what friends[n] would hold if nothing expired
  told,      \* history: answers told to the sender of the current request
  raced      \* history: requests that two handlers worked on at a time

redisVars == <<user, requests, friends>>
boundVars == <<started, ticks, crashes>>
historyVars == <<ended, loose, asked, made, told, raced>>
vars == <<user, requests, friends, op, replies, started, ticks, crashes, ended,
          loose, asked, made, told, raced>>

-----------------------------------------------------------------------------
Gone == -2    \* Redis TTL of a key that does not exist
NoTtl == -1   \* and of one that never expires
TtlValues == {Gone, NoTtl} \cup 1..Ttl

\* A set that Redis does not have.
NoSet == [ttl |-> Gone, of |-> {}]

\* SADD and EXPIRE in one MULTI: EXPIRE with a TTL that is not positive, which
\* is what TTL answers for a key without one, deletes the set.
Adding(set, n, ttl) ==
  IF ttl > 0 THEN [ttl |-> ttl, of |-> set.of \cup {n}] ELSE NoSet

\* SREM: the set goes with its last member.
Removing(set, n) ==
  IF set.of \subseteq {n} THEN NoSet ELSE [set EXCEPT !.of = @ \ {n}]

Kinds == {"request", "accept", "decline", "delete", "signup"}

\* A handler waits for the answer to the command it is named after here.
Waits == {"ttl", "exec", "ismember", "ttlme", "ttlpeer", "srem", "deluser",
          "existsreq", "delreq", "existsfr", "delfr", "exists", "hset", "sadd",
          "expire"}

\* me: whose socket or session it is.  peer: the name in its payload.  found:
\* the answer to SISMEMBER or EXISTS.  mine, theirs: TTLs it has read.
Handler == [kind : Kinds, pc : Waits, me : Names, peer : Names, found : BOOLEAN,
            mine : TtlValues, theirs : TtlValues]
Idle == [pc |-> "idle"]

Active == {s \in Slots : op[s] # Idle}

TypeOK ==
  /\ user \in [Names -> TtlValues]
  /\ requests \in [Names -> [ttl : TtlValues, of : SUBSET Names]]
  /\ friends \in [Names -> [ttl : TtlValues, of : SUBSET Names]]
  /\ op \in [Slots -> Handler \cup {Idle}]
  /\ replies \in Seq(Slots)
  /\ started \in 0..MaxOps
  /\ ticks \in 0..MaxTicks
  /\ crashes \in 0..MaxCrashes
  /\ ended \subseteq Names
  /\ loose \subseteq Names
  /\ asked \in [Names -> SUBSET Names]
  /\ made \in [Names -> SUBSET Names]
  /\ told \subseteq Names \X Names \X {"accepted", "rejected"}
  /\ raced \subseteq Names \X Names

\* Accounts were made at different times; some names are not taken.
Init ==
  /\ user \in [Names -> {Gone} \cup 1..Ttl]
  /\ requests = [n \in Names |-> NoSet]
  /\ friends = [n \in Names |-> NoSet]
  /\ op = [s \in Slots |-> Idle]
  /\ replies = <<>>
  /\ started = 0
  /\ ticks = 0
  /\ crashes = 0
  /\ ended = {n \in Names : user[n] = Gone}
  /\ loose = {}
  /\ asked = [n \in Names |-> {}]
  /\ made = [n \in Names |-> {}]
  /\ told = {}
  /\ raced = {}

-----------------------------------------------------------------------------
(* Control: a handler starts with its first command, goes on when the reply *)
(* to its last one is the next to arrive, and ends.                         *)

\* The request <<sender, receiver>> a handler works on.
Subject(h) == IF h.kind = "request" THEN <<h.me, h.peer>> ELSE <<h.peer, h.me>>
OnRequests(h) == h.kind \in {"request", "accept", "decline"}

Start(s, h) ==
  /\ op[s] = Idle
  /\ started < MaxOps
  /\ started' = started + 1
  /\ op' = [op EXCEPT ![s] = h]
  /\ replies' = Append(replies, s)
  /\ raced' = IF OnRequests(h) /\ \E t \in Active : /\ OnRequests(op[t])
                                                   /\ Subject(op[t]) = Subject(h)
              THEN raced \cup {Subject(h)} ELSE raced
  /\ UNCHANGED <<requests, friends, ticks, crashes, loose, told>>

Resumes(s, kind, pc) ==
  /\ replies # <<>>
  /\ Head(replies) = s
  /\ op[s].kind = kind
  /\ op[s].pc = pc
  /\ UNCHANGED <<boundVars, raced>>

Then(s, h) ==
  /\ op' = [op EXCEPT ![s] = h]
  /\ replies' = Append(Tail(replies), s)

End(s) ==
  /\ op' = [op EXCEPT ![s] = Idle]
  /\ replies' = Tail(replies)

New(kind, pc, me, peer) ==
  [kind |-> kind, pc |-> pc, me |-> me, peer |-> peer, found |-> FALSE,
   mine |-> Gone, theirs |-> Gone]

-----------------------------------------------------------------------------
(* "friend:request": TTL of the receiver, then MULTI SADD EXPIRE, then tell *)
(* the receiver.  A request to oneself ends before its first command.       *)

RequestStarts(s, me, peer) ==
  /\ me # peer
  /\ Start(s, [New("request", "ttl", me, peer) EXCEPT !.theirs = user[peer]])
  /\ UNCHANGED <<user, ended, asked, made>>

\* UserDoesNotExistError or InvariantError, reported as "friend:error".
RequestRefused(s) ==
  /\ Resumes(s, "request", "ttl")
  /\ op[s].theirs \in {Gone, NoTtl}
  /\ End(s)
  /\ UNCHANGED <<redisVars, ended, loose, asked, made, told>>

RequestStored(s) ==
  /\ Resumes(s, "request", "ttl")
  /\ op[s].theirs \notin {Gone, NoTtl}
  /\ LET me == op[s].me
         peer == op[s].peer
     IN  /\ requests' = [requests EXCEPT ![peer] = Adding(@, me, op[s].theirs)]
         /\ asked' = [asked EXCEPT ![peer] = @ \cup {me}]
         /\ told' = told \ {<<me, peer, "accepted">>, <<me, peer, "rejected">>}
  /\ Then(s, [op[s] EXCEPT !.pc = "exec", !.theirs = Gone])
  /\ UNCHANGED <<user, friends, ended, loose, made>>

RequestTold(s) ==
  /\ Resumes(s, "request", "exec")
  /\ End(s)
  /\ UNCHANGED <<redisVars, ended, loose, asked, made, told>>

-----------------------------------------------------------------------------
(* "friend:accept" and "friend:decline" begin with SISMEMBER.  An answer to *)
(* oneself, which the code does not exclude, finds nothing and is left out: *)
(* no request to oneself is ever stored.                                    *)

AnswerStarts(s, kind, me, peer) ==
  /\ kind \in {"accept", "decline"}
  /\ me # peer
  /\ Start(s, [New(kind, "ismember", me, peer) EXCEPT
                 !.found = peer \in requests[me].of])
  /\ UNCHANGED <<user, ended, asked, made>>

\* RequestNotFoundError.
AnswerRefused(s) ==
  /\ \E kind \in {"accept", "decline"} : Resumes(s, kind, "ismember")
  /\ ~op[s].found
  /\ End(s)
  /\ UNCHANGED <<redisVars, ended, loose, asked, made, told>>

AcceptAsksMyTtl(s) ==
  /\ Resumes(s, "accept", "ismember")
  /\ op[s].found
  /\ Then(s, [op[s] EXCEPT !.pc = "ttlme", !.mine = user[op[s].me]])
  /\ UNCHANGED <<redisVars, ended, loose, asked, made, told>>

AcceptAsksTheirTtl(s) ==
  /\ Resumes(s, "accept", "ttlme")
  /\ Then(s, [op[s] EXCEPT !.pc = "ttlpeer", !.theirs = user[op[s].peer]])
  /\ UNCHANGED <<redisVars, ended, loose, asked, made, told>>

\* Mutants of Befriended: only the accepter's set is written; the two TTLs are
\* exchanged; the second EXPIRE is forgotten.
Befriended_OneSided(me, peer, mine, theirs) ==
  [friends EXCEPT ![me] = Adding(@, peer, mine)]

Befriended_Exchanged(me, peer, mine, theirs) ==
  [friends EXCEPT ![me] = Adding(@, peer, theirs), ![peer] = Adding(@, me, mine)]

Befriended_Permanent(me, peer, mine, theirs) ==
  [friends EXCEPT ![me] = Adding(@, peer, mine),
                  ![peer] = [ttl |-> IF @.of = {} THEN NoTtl ELSE @.ttl,
                             of |-> @.of \cup {me}]]

\* What the sets become when me accepts peer, with the TTLs each is given.
Befriended(me, peer, mine, theirs) ==
  [friends EXCEPT ![me] = Adding(@, peer, mine), ![peer] = Adding(@, me, theirs)]

\* MULTI SREM SADD SADD EXPIRE EXPIRE, with whatever TTLs were read.
AcceptCommits(s) ==
  /\ Resumes(s, "accept", "ttlpeer")
  /\ LET me == op[s].me
         peer == op[s].peer
     IN  /\ requests' = [requests EXCEPT ![me] = Removing(@, peer)]
         /\ friends' = Befriended(me, peer, op[s].mine, op[s].theirs)
         /\ asked' = [asked EXCEPT ![me] = @ \ {peer}]
         /\ made' = [made EXCEPT ![me] = @ \cup {peer}, ![peer] = @ \cup {me}]
  /\ Then(s, [op[s] EXCEPT !.pc = "exec", !.mine = Gone, !.theirs = Gone])
  /\ UNCHANGED <<user, ended, loose, told>>

AcceptTold(s) ==
  /\ Resumes(s, "accept", "exec")
  /\ told' = told \cup {<<op[s].peer, op[s].me, "accepted">>}
  /\ End(s)
  /\ UNCHANGED <<redisVars, ended, loose, asked, made>>

\* Mutant of DeclineRemoves: the answer to SISMEMBER is not looked at.
DeclineRemoves_Unchecked(s) ==
  /\ Resumes(s, "decline", "ismember")
  /\ requests' = [requests EXCEPT ![op[s].me] = Removing(@, op[s].peer)]
  /\ asked' = [asked EXCEPT ![op[s].me] = @ \ {op[s].peer}]
  /\ Then(s, [op[s] EXCEPT !.pc = "srem"])
  /\ UNCHANGED <<user, friends, ended, loose, made, told>>

DeclineRemoves(s) ==
  /\ Resumes(s, "decline", "ismember")
  /\ op[s].found
  /\ requests' = [requests EXCEPT ![op[s].me] = Removing(@, op[s].peer)]
  /\ asked' = [asked EXCEPT ![op[s].me] = @ \ {op[s].peer}]
  /\ Then(s, [op[s] EXCEPT !.pc = "srem"])
  /\ UNCHANGED <<user, friends, ended, loose, made, told>>

DeclineTold(s) ==
  /\ Resumes(s, "decline", "srem")
  /\ told' = told \cup {<<op[s].peer, op[s].me, "rejected">>}
  /\ End(s)
  /\ UNCHANGED <<redisVars, ended, loose, asked, made>>

-----------------------------------------------------------------------------
(* redisDeleteUser, from the DEL of the hash on (what comes before concerns *)
(* sessions only, see module Accounts): EXISTS and DEL for both sets.  The  *)
(* sets of others go on naming the account.                                 *)

DeleteStarts(s, me) ==
  /\ Start(s, New("delete", "deluser", me, me))
  /\ user' = [user EXCEPT ![me] = Gone]
  /\ ended' = ended \cup {me}
  /\ UNCHANGED <<asked, made>>

DeleteAsksRequests(s) ==
  /\ Resumes(s, "delete", "deluser")
  /\ Then(s, [op[s] EXCEPT !.pc = "existsreq",
                           !.found = requests[op[s].me].of # {}])
  /\ UNCHANGED <<redisVars, ended, loose, asked, made, told>>

DeleteRequests(s) ==
  /\ Resumes(s, "delete", "existsreq")
  /\ op[s].found
  /\ requests' = [requests EXCEPT ![op[s].me] = NoSet]
  /\ asked' = [asked EXCEPT ![op[s].me] = {}]
  /\ Then(s, [op[s] EXCEPT !.pc = "delreq"])
  /\ UNCHANGED <<user, friends, ended, loose, made, told>>

DeleteAsksFriends(s) ==
  /\ \/ Resumes(s, "delete", "delreq")
     \/ Resumes(s, "delete", "existsreq") /\ ~op[s].found
  /\ Then(s, [op[s] EXCEPT !.pc = "existsfr", !.found = friends[op[s].me].of # {}])
  /\ UNCHANGED <<redisVars, ended, loose, asked, made, told>>

DeleteFriends(s) ==
  /\ Resumes(s, "delete", "existsfr")
  /\ op[s].found
  /\ friends' = [friends EXCEPT ![op[s].me] = NoSet]
  /\ made' = [made EXCEPT ![op[s].me] = {}]
  /\ Then(s, [op[s] EXCEPT !.pc = "delfr"])
  /\ UNCHANGED <<user, requests, ended, loose, asked, told>>

DeleteEnds(s) ==
  /\ \/ Resumes(s, "delete", "delfr")
     \/ Resumes(s, "delete", "existsfr") /\ ~op[s].found
  /\ End(s)
  /\ UNCHANGED <<redisVars, ended, loose, asked, made, told>>

-----------------------------------------------------------------------------
(* POST /api/users after the hash: EXISTS, HSET, SADD, EXPIRE.              *)

SignupStarts(s, me) ==
  /\ Start(s, [New("signup", "exists", me, me) EXCEPT !.found = user[me] # Gone])
  /\ UNCHANGED <<user, ended, asked, made>>

\* UserAlreadyExistsError, or HSET: user:<me> exists, without a TTL as yet.
SignupExists(s) ==
  /\ Resumes(s, "signup", "exists")
  /\ \/ /\ op[s].found
        /\ End(s)
        /\ UNCHANGED user
     \/ /\ ~op[s].found
        /\ user' = [user EXCEPT ![op[s].me] = IF @ = Gone THEN NoTtl ELSE @]
        /\ Then(s, [op[s] EXCEPT !.pc = "hset"])
  /\ UNCHANGED <<requests, friends, ended, loose, asked, made, told>>

\* SADD of the session; its answer lets EXPIRE go.
SignupSession(s) ==
  /\ Resumes(s, "signup", "hset")
  /\ Then(s, [op[s] EXCEPT !.pc = "sadd"])
  /\ UNCHANGED <<redisVars, ended, loose, asked, made, told>>

\* Mutant of SignupSetsTtl: PEXPIRE's unit.
SignupSetsTtl_Milliseconds(s) ==
  /\ Resumes(s, "signup", "sadd")
  /\ user' = [user EXCEPT ![op[s].me] = IF @ = Gone THEN Gone ELSE 1000 * Ttl]
  /\ Then(s, [op[s] EXCEPT !.pc = "expire"])
  /\ UNCHANGED <<requests, friends, ended, loose, asked, made, told>>

SignupSetsTtl(s) ==
  /\ Resumes(s, "signup", "sadd")
  /\ user' = [user EXCEPT ![op[s].me] = IF @ = Gone THEN Gone ELSE Ttl]
  /\ Then(s, [op[s] EXCEPT !.pc = "expire"])
  /\ UNCHANGED <<requests, friends, ended, loose, asked, made, told>>

SignupEnds(s) ==
  /\ Resumes(s, "signup", "expire")
  /\ End(s)
  /\ UNCHANGED <<redisVars, ended, loose, asked, made, told>>

-----------------------------------------------------------------------------
(* The environment.                                                         *)

\* A second less: the key goes when none is left.
Aged(ttl) == IF ttl = NoTtl THEN NoTtl ELSE IF ttl > 1 THEN ttl - 1 ELSE Gone
AgedSet(set) == IF Aged(set.ttl) = Gone THEN NoSet
                ELSE [set EXCEPT !.ttl = Aged(@)]

\* The names whose TTL a handler has read and not yet used, and those whose
\* deletion is under way.
ReadTtls ==
  {op[s].peer : s \in {t \in Active : op[t].pc \in {"ttl", "ttlpeer"}}} \cup
  {op[s].me : s \in {t \in Active : op[t].pc \in {"ttlme", "ttlpeer"}}}
Deleting == {op[s].me : s \in {t \in Active : op[t].kind = "delete"}}

\* Time passes.  A TTL that a handler holds is longer than the account's now.
Tick ==
  /\ ticks < MaxTicks
  /\ ticks' = ticks + 1
  /\ user' = [n \in Names |-> Aged(user[n])]
  /\ requests' = [n \in Names |-> AgedSet(requests[n])]
  /\ friends' = [n \in Names |-> AgedSet(friends[n])]
  /\ ended' = ended \cup {n \in Names : user'[n] = Gone}
  /\ loose' = loose \cup ReadTtls
  /\ UNCHANGED <<op, replies, started, crashes, asked, made, told, raced>>

\* The process dies with its handlers; a deletion may be left half done.
Crash ==
  /\ crashes < MaxCrashes
  /\ crashes' = crashes + 1
  /\ op' = [s \in Slots |-> Idle]
  /\ replies' = <<>>
  /\ loose' = loose \cup Deleting
  /\ UNCHANGED <<redisVars, started, ticks, ended, asked, made, told, raced>>

-----------------------------------------------------------------------------
RequestStep(s) ==
  \/ \E me, peer \in Names : RequestStarts(s, me, peer)
  \/ RequestRefused(s)
  \/ RequestStored(s)
  \/ RequestTold(s)

AnswerStep(s) ==
  \/ \E kind \in Kinds, me, peer \in Names : AnswerStarts(s, kind, me, peer)
  \/ AnswerRefused(s)
  \/ AcceptAsksMyTtl(s)
  \/ AcceptAsksTheirTtl(s)
  \/ AcceptCommits(s)
  \/ AcceptTold(s)
  \/ DeclineRemoves(s)
  \/ DeclineTold(s)

AccountStep(s) ==
  \/ \E me \in Names : DeleteStarts(s, me) \/ SignupStarts(s, me)
  \/ DeleteAsksRequests(s)
  \/ DeleteRequests(s)
  \/ DeleteAsksFriends(s)
  \/ DeleteFriends(s)
  \/ DeleteEnds(s)
  \/ SignupExists(s)
  \/ SignupSession(s)
  \/ SignupSetsTtl(s)
  \/ SignupEnds(s)

Next ==
  \/ \E s \in Slots : RequestStep(s) \/ AnswerStep(s) \/ AccountStep(s)
  \/ Tick
  \/ Crash

Spec == Init /\ [][Next]_vars

-----------------------------------------------------------------------------
(* What the friend operations promise.                                      *)

\* Friendship is mutual as long as neither account has ended, although the two
\* sets have TTLs of their own, copied from what another command read earlier
\* (request.service.ts:61-72).
Symmetric ==
  \A a, b \in Names \ ended : a \in friends[b].of => b \in friends[a].of

\* No request and no friend of a name is left when its account has ended and no
\* deletion of it is under way, "makes sure the requests set never outlives
\* user" (request.service.ts:42): a handler that read the account's TTL before
\* it was deleted writes before the deletion looks at the sets, because one
\* client carries all commands.  Except if time passed between the TTL and the
\* write, or a crash cut a deletion short.
NothingOutlives ==
  \A n \in Names :
    user[n] = Gone /\ n \notin Deleting \cup loose =>
      requests[n] = NoSet /\ friends[n] = NoSet

\* Nothing goes before the account does, unless somebody removes it: every TTL
\* that a set is given is at least the account's, whichever handlers overlap.
KeptWhileAlive ==
  \A n \in Names \ ended :
    asked[n] \subseteq requests[n].of /\ made[n] \subseteq friends[n].of

\* The sender of a request is told that it was accepted or that it was declined;
\* of both only if two handlers worked on the request at a time, each of which
\* found it pending (request.service.ts:53-59, 81-90).
OneAnswer ==
  \A a, b \in Names :
    {<<a, b, "accepted">>, <<a, b, "rejected">>} \subseteq told => <<a, b>> \in raced
=============================================================================
