------------------------------ MODULE Accounts ------------------------------
(***************************************************************************)
(* The life of ONE username: signing up, logging in, logging out, deleting *)
(* the account, registering a public key, opening a socket, and expiring.  *)
(*                                                                         *)
(* The state is what the backend keeps in Redis for the name -- the hash   *)
(* user:<name>, the set user:<name>:sessions and the express-session       *)
(* records sess:<id> -- with their TTLs, and the sockets in the room.      *)
(* Every request is a step machine whose steps are the code between two    *)
(* awaits.  As in module Delivery, all handlers share one Redis client:    *)
(* a command takes effect in the action that issues it and `replies' holds *)
(* the requests waiting for an answer, in the order of their commands.     *)
(* Only bcrypt and the socket server's nextTick resume a handler out of    *)
(* that order.                                                             *)
(***************************************************************************)
EXTENDS Integers, Sequences, FiniteSets

CONSTANTS
  Reqs,           \* the requests ever made, each used once
  Sids,           \* the session identifiers ever generated
  Ttl,            \* USER_TTL_SECONDS, in ticks
  MaxTicks,       \* how many ticks pass
  MaxConcurrent,  \* how many requests the backend serves at a time
  MaxCrashes      \* how often the backend process may die and restart

ASSUME TtlAssumption == Ttl \in Nat \ {0}
ASSUME BoundsAssumption ==
  MaxTicks \in Nat /\ MaxConcurrent \in Nat /\ MaxCrashes \in Nat
ASSUME SidsAssumption == "none" \notin Sids

VARIABLES
  user,      \* the hash user:<name>: its TTL, and which fields it has
  sessions,  \* the set user:<name>:sessions: its TTL and members
  sess,      \* sess[s]: the TTL of the record sess:<s>, 0 when there is none
  fresh,     \* identifiers not generated yet
  req,       \* req[r]: a request
  replies,   \* requests waiting for Redis, in the order of their commands
  sockets,   \* handshakes whose socket is in the room
  expired,   \* the "expired" event of user:<name> is under way
  ticks,     \* bound on time
  crashes,   \* bound on crashes
  evicted,   \* history: sessions that another login has deleted
  early,     \* history: sessions in the set two commands before their record
  claimed,   \* history: signups answered 201 since the name was last free
  unset,     \* history: why user:<name> may have no TTL
  disturbed  \* history: the worst that sequential reasoning has to exclude

redisVars == <<user, sessions, sess>>
boundVars == <<ticks, crashes>>
historyVars == <<evicted, early, claimed, unset, disturbed>>
vars == <<user, sessions, sess, fresh, req, replies, sockets, expired, ticks,
          crashes, evicted, early, claimed, unset, disturbed>>

-----------------------------------------------------------------------------
Gone == -2    \* Redis TTL of a key that does not exist
NoTtl == -1   \* and of one that never expires
TtlValues == {Gone, NoTtl} \cup 1..Ttl

NoUser == [ttl |-> Gone, password |-> FALSE, key |-> FALSE]
NoSessions == [ttl |-> Gone, ids |-> {}]

Kinds == {"signup", "login", "logout", "delete", "register", "handshake"}

(* Where a request is: "idle", waiting for Redis (named for the command),   *)
(* waiting for bcrypt ("hashing", "comparing") or for the socket server's   *)
(* nextTick ("joining"), or "over": answered, failed or lost with the       *)
(* process.  What a request that is over has read is forgotten.             *)
Waiting == {"load", "exists", "hset", "sadd", "expire", "hget", "spop", "readd",
            "evict", "srem", "smembers", "delset", "delsess", "deluser",
            "hgethistory"}
Elsewhere == {"hashing", "comparing", "joining"}
(* What can disturb a promise, the least first: a deletion; a request cut   *)
(* off by a crash, or the expiry of the account; requests that overlap.     *)
Undisturbed == 0
Deletion == 1
Interruption == 2
Overlap == 3

Disturbs(level) == IF disturbed < level THEN level ELSE disturbed

Idle == [kind |-> "none", pc |-> "idle", sid |-> "none", loaded |-> FALSE,
         found |-> FALSE, ids |-> {}]

Active == {r \in Reqs : req[r].pc \in Waiting \cup Elsewhere}

TypeOK ==
  /\ user \in [ttl : TtlValues, password : BOOLEAN, key : BOOLEAN]
  /\ user.ttl = Gone => user = NoUser
  /\ sessions \in [ttl : TtlValues, ids : SUBSET Sids]
  /\ sessions.ttl = Gone <=> sessions.ids = {}
  /\ sess \in [Sids -> 0..Ttl]
  /\ fresh \subseteq Sids
  /\ req \in [Reqs -> [kind : Kinds \cup {"none"},
                       pc : {"idle", "over"} \cup Waiting \cup Elsewhere,
                       sid : Sids \cup {"none"}, loaded : BOOLEAN,
                       found : BOOLEAN, ids : SUBSET Sids]]
  /\ replies \in Seq(Reqs)
  /\ sockets \subseteq Reqs
  /\ expired \in BOOLEAN
  /\ ticks \in 0..MaxTicks
  /\ crashes \in 0..MaxCrashes
  /\ evicted \subseteq Sids
  /\ early \subseteq Sids
  /\ claimed \subseteq Reqs
  /\ unset \subseteq {"crash", "key"}
  /\ disturbed \in Undisturbed..Overlap

Init ==
  /\ user = NoUser
  /\ sessions = NoSessions
  /\ sess = [s \in Sids |-> 0]
  /\ fresh = Sids
  /\ req = [r \in Reqs |-> Idle]
  /\ replies = <<>>
  /\ sockets = {}
  /\ expired = FALSE
  /\ ticks = 0
  /\ crashes = 0
  /\ evicted = {}
  /\ early = {}
  /\ claimed = {}
  /\ unset = {}
  /\ disturbed = Undisturbed

-----------------------------------------------------------------------------
(* Redis.  Writing a member or a field creates a key without a TTL and      *)
(* keeps the TTL of one that exists; removing the last member deletes it.   *)

AddSession(s) == [ttl |-> IF sessions.ids = {} THEN NoTtl ELSE sessions.ttl,
                  ids |-> sessions.ids \cup {s}]

RemoveSession(s) == IF sessions.ids \subseteq {s} THEN NoSessions
                    ELSE [sessions EXCEPT !.ids = @ \ {s}]

SetUserTtl(t) == IF user.ttl = Gone THEN Gone ELSE t
Created == IF user.ttl = Gone THEN NoTtl ELSE user.ttl

(* Control.  A command r issues takes its place behind those under way.     *)
Resumes(r, kind, pc) ==
  /\ replies # <<>>
  /\ Head(replies) = r
  /\ req[r].kind = kind
  /\ req[r].pc = pc

Then(r, record) ==
  /\ req' = [req EXCEPT ![r] = record]
  /\ replies' = Append(Tail(replies), r)

ThenElsewhere(r, pc) ==
  /\ req' = [req EXCEPT ![r].pc = pc]
  /\ replies' = Tail(replies)

Ended(r) == [Idle EXCEPT !.kind = req[r].kind, !.pc = "over", !.sid = req[r].sid]

End(r) ==
  /\ req' = [req EXCEPT ![r] = Ended(r)]
  /\ replies' = Tail(replies)

BackWith(r, record) ==
  /\ req' = [req EXCEPT ![r] = record]
  /\ replies' = Append(replies, r)

At(r, pc) == [req[r] EXCEPT !.pc = pc]

\* express-session at the end of a response (resave and saveUninitialized are
\* off): a session that was given its userId is written with a full TTL; one
\* that already had it is touched, which is EXPIRE and finds the record or not.
Touched(s) == [sess EXCEPT ![s] = IF @ > 0 THEN Ttl ELSE 0]

\* Mutant of Saved: resave is on.
Saved_Resave(r) == [sess EXCEPT ![req[r].sid] = Ttl]

Saved(r) == IF req[r].loaded THEN Touched(req[r].sid)
            ELSE [sess EXCEPT ![req[r].sid] = Ttl]

\* r, whose session has no record yet, adds it to the set, and has another
\* command to send before its response writes the record.
Early(r) == IF req[r].loaded THEN early ELSE early \cup {req[r].sid}

Respond(r) ==
  /\ End(r)
  /\ sess' = Saved(r)

Fail(r) ==
  /\ End(r)
  /\ sess' = IF req[r].loaded THEN Touched(req[r].sid) ELSE sess

Unauthenticated(r) == End(r) /\ UNCHANGED sess

-----------------------------------------------------------------------------
(* A request arrives.  The session middleware reads sess:<id>; without a    *)
(* record a login or signup gets a fresh identifier.                        *)

\* Requests overlap, other than those that change no session.
Overlaps(kind) ==
  \E r \in Active : ~({kind, req[r].kind} \subseteq {"register", "handshake"})

StartRequest(r, kind, s) ==
  /\ req[r] = Idle
  /\ Cardinality(Active) < MaxConcurrent
  /\ kind \in Kinds \ {"register"}
  /\ \/ s \notin fresh /\ sess[s] > 0
     \/ s \notin fresh /\ sess[s] = 0 /\ kind \notin {"signup", "login"}
     \/ s \in fresh /\ kind \in {"signup", "login"}
  /\ disturbed' = IF Overlaps(kind) THEN Overlap ELSE disturbed
  /\ fresh' = fresh \ {s}
  /\ BackWith(r, [Idle EXCEPT !.kind = kind, !.pc = "load", !.sid = s,
                              !.loaded = sess[s] > 0])
  /\ UNCHANGED <<redisVars, sockets, expired, boundVars, evicted, early, claimed,
                 unset>>

\* "public-key:register" on an open socket: HGET publicKey.
StartRegister(r, c) ==
  /\ req[r] = Idle
  /\ Cardinality(Active) < MaxConcurrent
  /\ c \in sockets
  /\ BackWith(r, [Idle EXCEPT !.kind = "register", !.pc = "hget",
                              !.found = user.key])
  /\ disturbed' = IF Overlaps("register") THEN Overlap ELSE disturbed
  /\ UNCHANGED <<redisVars, fresh, sockets, expired, boundVars, evicted, early,
                 claimed, unset>>

-----------------------------------------------------------------------------
(* POST /api/users: hash, EXISTS, HSET, SADD, MULTI EXPIRE EXPIRE.          *)

SignupLoads(r) ==
  /\ Resumes(r, "signup", "load")
  /\ ThenElsewhere(r, "hashing")
  /\ UNCHANGED <<redisVars, fresh, sockets, expired, boundVars, historyVars>>

SignupHashes(r) ==
  /\ req[r].kind = "signup"
  /\ req[r].pc = "hashing"
  /\ BackWith(r, [req[r] EXCEPT !.pc = "exists", !.found = user.ttl # Gone])
  /\ UNCHANGED <<redisVars, fresh, sockets, expired, boundVars, historyVars>>

\* Mutant of SignupExists: the answer to EXISTS is not looked at.
SignupExists_Ignored(r) ==
  /\ Resumes(r, "signup", "exists")
  /\ user' = [user EXCEPT !.ttl = Created, !.password = TRUE]
  /\ Then(r, At(r, "hset"))
  /\ UNCHANGED <<sessions, sess, fresh, sockets, expired, boundVars, historyVars>>

SignupExists(r) ==
  /\ Resumes(r, "signup", "exists")
  /\ \/ /\ req[r].found                           \* UserAlreadyExistsError
        /\ Fail(r)
        /\ UNCHANGED user
     \/ /\ ~req[r].found
        /\ user' = [user EXCEPT !.ttl = Created, !.password = TRUE]
        /\ Then(r, At(r, "hset"))
        /\ UNCHANGED sess
  /\ UNCHANGED <<sessions, fresh, sockets, expired, boundVars, historyVars>>

SignupStored(r) ==
  /\ Resumes(r, "signup", "hset")
  /\ sessions' = AddSession(req[r].sid)
  /\ early' = Early(r)
  /\ Then(r, At(r, "sadd"))
  /\ UNCHANGED <<user, sess, fresh, sockets, expired, boundVars, evicted, claimed,
                 unset, disturbed>>

\* Mutants of SignupSetsTtl: EXPIRE is given milliseconds; only the sessions set
\* is given a TTL.
SignupSetsTtl_Milliseconds(r) ==
  /\ Resumes(r, "signup", "sadd")
  /\ user' = [user EXCEPT !.ttl = SetUserTtl(1000 * Ttl)]
  /\ sessions' = IF sessions.ids = {} THEN sessions ELSE [sessions EXCEPT !.ttl = Ttl]
  /\ unset' = {}
  /\ Then(r, At(r, "expire"))
  /\ UNCHANGED <<sess, fresh, sockets, expired, boundVars, evicted, early, claimed,
                 disturbed>>

SignupSetsTtl_NotUser(r) ==
  /\ Resumes(r, "signup", "sadd")
  /\ sessions' = IF sessions.ids = {} THEN sessions ELSE [sessions EXCEPT !.ttl = Ttl]
  /\ unset' = {}
  /\ Then(r, At(r, "expire"))
  /\ UNCHANGED <<user, sess, fresh, sockets, expired, boundVars, evicted, early,
                 claimed, disturbed>>

SignupSetsTtl(r) ==
  /\ Resumes(r, "signup", "sadd")
  /\ user' = [user EXCEPT !.ttl = SetUserTtl(Ttl)]
  /\ sessions' = IF sessions.ids = {} THEN sessions ELSE [sessions EXCEPT !.ttl = Ttl]
  /\ unset' = {}
  /\ Then(r, At(r, "expire"))
  /\ UNCHANGED <<sess, fresh, sockets, expired, boundVars, evicted, early, claimed,
                 disturbed>>

SignupResponds(r) ==
  /\ Resumes(r, "signup", "expire")
  /\ Respond(r)
  /\ claimed' = IF user.ttl = Gone THEN claimed ELSE claimed \cup {r}
  /\ UNCHANGED <<user, sessions, fresh, sockets, expired, boundVars, evicted, early,
                 unset, disturbed>>

-----------------------------------------------------------------------------
(* POST /api/auth/login: authenticate, clearOldConnections, createSession.  *)

LoginLoads(r) ==
  /\ Resumes(r, "login", "load")
  /\ Then(r, [req[r] EXCEPT !.pc = "hget", !.found = user.password])
  /\ UNCHANGED <<redisVars, fresh, sockets, expired, boundVars, historyVars>>

LoginReadsPassword(r) ==
  /\ Resumes(r, "login", "hget")
  /\ \/ ~req[r].found /\ Fail(r)                  \* AuthError
     \/ req[r].found /\ ThenElsewhere(r, "comparing") /\ UNCHANGED sess
  /\ UNCHANGED <<user, sessions, fresh, sockets, expired, boundVars, historyVars>>

\* bcrypt.compare succeeds (a wrong password ends like a missing user).
LoginCompares(r) ==
  /\ req[r].kind = "login"
  /\ req[r].pc = "comparing"
  /\ BackWith(r, [req[r] EXCEPT !.pc = "exists", !.found = sessions.ids # {}])
  /\ UNCHANGED <<redisVars, fresh, sockets, expired, boundVars, historyVars>>

\* Mutant of CreateSession: the identifier is not added to the set.
CreateSession_NoMember(r) ==
  /\ UNCHANGED sessions
  /\ Then(r, At(r, "sadd"))

\* createSession: SADD.
CreateSession(r) ==
  /\ sessions' = AddSession(req[r].sid)
  /\ Then(r, At(r, "sadd"))

\* Mutant of LoginExists: SRANDMEMBER, which leaves the member where it is.
LoginExists_Peeks(r) ==
  /\ Resumes(r, "login", "exists")
  /\ \/ ~req[r].found /\ CreateSession(r)
     \/ /\ req[r].found
        /\ UNCHANGED sessions
        /\ \/ sessions.ids = {} /\ Then(r, [At(r, "spop") EXCEPT !.ids = {}])
           \/ \E s \in sessions.ids : Then(r, [At(r, "spop") EXCEPT !.ids = {s}])
  /\ UNCHANGED <<user, sess, fresh, sockets, expired, boundVars, historyVars>>

\* The set did not exist: nothing to clear.  Otherwise SPOP one member (the
\* set may be gone by now: null).
LoginExists(r) ==
  /\ Resumes(r, "login", "exists")
  /\ \/ ~req[r].found /\ CreateSession(r)
     \/ /\ req[r].found
        /\ \/ /\ sessions.ids = {}
              /\ Then(r, [At(r, "spop") EXCEPT !.ids = {}])
              /\ UNCHANGED sessions
           \/ \E s \in sessions.ids :
                /\ Then(r, [At(r, "spop") EXCEPT !.ids = {s}])
                /\ sessions' = RemoveSession(s)
  /\ UNCHANGED <<user, sess, fresh, sockets, expired, boundVars, historyVars>>

\* Mutant of LoginPopped: the old session's record is left alone.
LoginPopped_KeepsRecord(r) ==
  /\ Resumes(r, "login", "spop")
  /\ \/ /\ req[r].ids \subseteq {req[r].sid}
        /\ sessions' = AddSession(req[r].sid)
        /\ early' = Early(r)
        /\ Then(r, At(r, "readd"))
     \/ /\ ~(req[r].ids \subseteq {req[r].sid})
        /\ Then(r, At(r, "evict"))
        /\ UNCHANGED <<sessions, early>>
  /\ UNCHANGED <<user, sess, fresh, sockets, expired, boundVars, evicted, claimed,
                 unset, disturbed>>

\* No session, or this one: put it back.  Another one: DEL its record.
LoginPopped(r) ==
  /\ Resumes(r, "login", "spop")
  /\ \/ /\ req[r].ids \subseteq {req[r].sid}
        /\ sessions' = AddSession(req[r].sid)
        /\ early' = Early(r)
        /\ Then(r, At(r, "readd"))
        /\ UNCHANGED <<sess, evicted>>
     \/ /\ ~(req[r].ids \subseteq {req[r].sid})
        /\ sess' = [s \in Sids |-> IF s \in req[r].ids THEN 0 ELSE sess[s]]
        /\ evicted' = evicted \cup req[r].ids
        /\ Then(r, At(r, "evict"))
        /\ UNCHANGED <<sessions, early>>
  /\ UNCHANGED <<user, fresh, sockets, expired, boundVars, claimed, unset, disturbed>>

LoginReadded(r) ==
  /\ Resumes(r, "login", "readd")
  /\ CreateSession(r)
  /\ UNCHANGED <<user, sess, fresh, sockets, expired, boundVars, historyVars>>

\* Mutant of LoginEvicted: the old device's sockets stay.
LoginEvicted_KeepsSockets(r) ==
  /\ Resumes(r, "login", "evict")
  /\ CreateSession(r)
  /\ UNCHANGED <<user, sess, fresh, sockets, expired, boundVars, historyVars>>

\* fetchSockets and disconnect(true) for every socket in the room.
LoginEvicted(r) ==
  /\ Resumes(r, "login", "evict")
  /\ sockets' = {}
  /\ CreateSession(r)
  /\ UNCHANGED <<user, sess, fresh, expired, boundVars, historyVars>>

LoginResponds(r) ==
  /\ Resumes(r, "login", "sadd")
  /\ Respond(r)
  /\ UNCHANGED <<user, sessions, fresh, sockets, expired, boundVars, historyVars>>

-----------------------------------------------------------------------------
(* POST /api/auth/logout: SREM, SMEMBERS, DEL of an empty set, DEL of the    *)
(* record, disconnection of the room; then session.destroy deletes the      *)
(* record again.                                                            *)

LogoutLoads(r) ==
  /\ Resumes(r, "logout", "load")
  /\ \/ /\ ~req[r].loaded                         \* 401
        /\ Unauthenticated(r)
        /\ UNCHANGED sessions
     \/ /\ req[r].loaded
        /\ sessions' = RemoveSession(req[r].sid)
        /\ Then(r, At(r, "srem"))
        /\ UNCHANGED sess
  /\ UNCHANGED <<user, fresh, sockets, expired, boundVars, historyVars>>

LogoutRemoved(r) ==
  /\ Resumes(r, "logout", "srem")
  /\ Then(r, [At(r, "smembers") EXCEPT !.ids = sessions.ids])
  /\ UNCHANGED <<redisVars, fresh, sockets, expired, boundVars, historyVars>>

LogoutCounts(r) ==
  /\ Resumes(r, "logout", "smembers")
  /\ \/ /\ req[r].ids = {}
        /\ sessions' = NoSessions
        /\ Then(r, At(r, "delset"))
        /\ UNCHANGED sess
     \/ /\ req[r].ids # {}
        /\ sess' = [sess EXCEPT ![req[r].sid] = 0]
        /\ Then(r, At(r, "delsess"))
        /\ UNCHANGED sessions
  /\ UNCHANGED <<user, fresh, sockets, expired, boundVars, historyVars>>

LogoutCleared(r) ==
  /\ Resumes(r, "logout", "delset")
  /\ sess' = [sess EXCEPT ![req[r].sid] = 0]
  /\ Then(r, At(r, "delsess"))
  /\ UNCHANGED <<user, sessions, fresh, sockets, expired, boundVars, historyVars>>

LogoutResponds(r) ==
  /\ Resumes(r, "logout", "delsess")
  /\ sockets' = {}
  /\ sess' = [sess EXCEPT ![req[r].sid] = 0]
  /\ End(r)
  /\ UNCHANGED <<user, sessions, fresh, expired, boundVars, historyVars>>

-----------------------------------------------------------------------------
(* DELETE /api/users: redisDeleteUser, then session.destroy.  The friends   *)
(* and requests sets it also deletes belong to module Friends.              *)

DeleteLoads(r) ==
  /\ Resumes(r, "delete", "load")
  /\ \/ ~req[r].loaded /\ Unauthenticated(r)      \* requireAuth: 401
     \/ /\ req[r].loaded
        /\ Then(r, [At(r, "smembers") EXCEPT !.ids = sessions.ids])
        /\ UNCHANGED sess
  /\ UNCHANGED <<user, sessions, fresh, sockets, expired, boundVars, historyVars>>

\* DEL of the listed records; DEL without a key is an error, and nothing else
\* is deleted.
DeleteLists(r) ==
  /\ Resumes(r, "delete", "smembers")
  /\ \/ req[r].ids = {} /\ Fail(r)
     \/ /\ req[r].ids # {}
        /\ sess' = [s \in Sids |-> IF s \in req[r].ids THEN 0 ELSE sess[s]]
        /\ Then(r, At(r, "delsess"))
  /\ UNCHANGED <<user, sessions, fresh, sockets, expired, boundVars, historyVars>>

DeleteRecords(r) ==
  /\ Resumes(r, "delete", "delsess")
  /\ sessions' = NoSessions
  /\ Then(r, At(r, "delset"))
  /\ UNCHANGED <<user, sess, fresh, sockets, expired, boundVars, historyVars>>

DeleteSet(r) ==
  /\ Resumes(r, "delete", "delset")
  /\ user' = NoUser
  /\ claimed' = {}
  /\ unset' = {}
  /\ disturbed' = Disturbs(Deletion)
  /\ Then(r, At(r, "deluser"))
  /\ UNCHANGED <<sessions, sess, fresh, sockets, expired, boundVars, evicted, early>>

DeleteResponds(r) ==
  /\ Resumes(r, "delete", "deluser")
  /\ sess' = [sess EXCEPT ![req[r].sid] = 0]
  /\ End(r)
  /\ UNCHANGED <<user, sessions, fresh, sockets, expired, boundVars, historyVars>>

-----------------------------------------------------------------------------
(* registerKey without replacement.                                         *)

\* HSET of user:<name>: the key with its history, or the history alone.
WriteKeyField(key) ==
  /\ user' = [user EXCEPT !.ttl = Created, !.key = @ \/ key]
  /\ unset' = IF user.ttl = Gone THEN unset \cup {"key"} ELSE unset

\* No key yet: HSET.  The same key: nothing.  Another key: HGET the history.
RegisterReads(r) ==
  /\ Resumes(r, "register", "hget")
  /\ \/ ~req[r].found /\ WriteKeyField(TRUE) /\ Then(r, At(r, "hset"))
     \/ req[r].found /\ End(r) /\ UNCHANGED <<user, unset>>
     \/ req[r].found /\ Then(r, At(r, "hgethistory")) /\ UNCHANGED <<user, unset>>
  /\ UNCHANGED <<sessions, sess, fresh, sockets, expired, boundVars, evicted, early,
                 claimed, disturbed>>

\* The current key is added to the history, and the new one refused.
RegisterConflicts(r) ==
  /\ Resumes(r, "register", "hgethistory")
  /\ WriteKeyField(FALSE)
  /\ Then(r, At(r, "hset"))
  /\ UNCHANGED <<sessions, sess, fresh, sockets, expired, boundVars, evicted, early,
                 claimed, disturbed>>

RegisterReturns(r) ==
  /\ Resumes(r, "register", "hset")
  /\ End(r)
  /\ UNCHANGED <<redisVars, fresh, sockets, expired, boundVars, historyVars>>

-----------------------------------------------------------------------------
(* The Socket.IO handshake.                                                 *)

\* The session is known; the connection event follows on the next tick.
HandshakeLoads(r) ==
  /\ Resumes(r, "handshake", "load")
  /\ \/ req[r].loaded /\ ThenElsewhere(r, "joining")
     \/ ~req[r].loaded /\ End(r)
  /\ UNCHANGED <<redisVars, fresh, sockets, expired, boundVars, historyVars>>

HandshakeJoins(r) ==
  /\ req[r].pc = "joining"
  /\ req' = [req EXCEPT ![r] = Ended(r)]
  /\ sockets' = sockets \cup {r}
  /\ UNCHANGED <<redisVars, fresh, replies, expired, boundVars, historyVars>>

SocketCloses(r) ==
  /\ r \in sockets
  /\ sockets' = sockets \ {r}
  /\ UNCHANGED <<redisVars, fresh, req, replies, expired, boundVars, historyVars>>

-----------------------------------------------------------------------------
(* Time, expiry and crashes.                                                *)

Tick ==
  /\ ticks < MaxTicks
  /\ ticks' = ticks + 1
  /\ user' = IF user.ttl = 1 THEN NoUser
             ELSE [user EXCEPT !.ttl = IF @ > 0 THEN @ - 1 ELSE @]
  /\ expired' = (expired \/ user.ttl = 1)
  /\ claimed' = IF user.ttl = 1 THEN {} ELSE claimed
  /\ disturbed' = IF user.ttl = 1 THEN Disturbs(Interruption) ELSE disturbed
  /\ sessions' = IF sessions.ttl = 1 THEN NoSessions
                 ELSE [sessions EXCEPT !.ttl = IF @ > 0 THEN @ - 1 ELSE @]
  /\ sess' = [s \in Sids |-> IF sess[s] > 0 THEN sess[s] - 1 ELSE 0]
  /\ UNCHANGED <<fresh, req, replies, sockets, crashes, evicted, early, unset>>

\* listenForUserExpiry: the room is disconnected.  Only "expired" events are
\* subscribed to: DEL of the key raises none.
ExpiryEvent ==
  /\ expired
  /\ expired' = FALSE
  /\ sockets' = {}
  /\ UNCHANGED <<redisVars, fresh, req, replies, boundVars, historyVars>>

\* The process dies: requests and sockets vanish, events are missed.
Crash ==
  /\ crashes < MaxCrashes
  /\ crashes' = crashes + 1
  /\ req' = [r \in Reqs |-> IF r \in Active THEN Ended(r) ELSE req[r]]
  /\ unset' = IF \E r \in Active : req[r].kind = "signup" /\ req[r].pc \in {"hset", "sadd"}
              THEN unset \cup {"crash"} ELSE unset
  /\ disturbed' = IF Active # {} THEN Disturbs(Interruption) ELSE disturbed
  /\ replies' = <<>>
  /\ sockets' = {}
  /\ expired' = FALSE
  /\ UNCHANGED <<redisVars, fresh, ticks, evicted, early, claimed>>

-----------------------------------------------------------------------------
SignupStep(r) ==
  \/ SignupLoads(r) \/ SignupHashes(r) \/ SignupExists(r) \/ SignupStored(r)
  \/ SignupSetsTtl(r) \/ SignupResponds(r)

LoginStep(r) ==
  \/ LoginLoads(r) \/ LoginReadsPassword(r) \/ LoginCompares(r) \/ LoginExists(r)
  \/ LoginPopped(r) \/ LoginReadded(r) \/ LoginEvicted(r) \/ LoginResponds(r)

LogoutStep(r) ==
  \/ LogoutLoads(r) \/ LogoutRemoved(r) \/ LogoutCounts(r) \/ LogoutCleared(r)
  \/ LogoutResponds(r)

DeleteStep(r) ==
  \/ DeleteLoads(r) \/ DeleteLists(r) \/ DeleteRecords(r) \/ DeleteSet(r)
  \/ DeleteResponds(r)

RegisterStep(r) == RegisterReads(r) \/ RegisterConflicts(r) \/ RegisterReturns(r)

HandshakeStep(r) == HandshakeLoads(r) \/ HandshakeJoins(r)

Serve(r) == \/ SignupStep(r) \/ LoginStep(r) \/ LogoutStep(r) \/ DeleteStep(r)
            \/ RegisterStep(r) \/ HandshakeStep(r)

Arrive(r) == \/ \E k \in Kinds, s \in Sids : StartRequest(r, k, s)
             \/ \E c \in sockets : StartRegister(r, c)

Next ==
  \/ \E r \in Reqs : Arrive(r) \/ Serve(r) \/ SocketCloses(r)
  \/ Tick \/ ExpiryEvent \/ Crash

Spec == Init /\ [][Next]_vars

-----------------------------------------------------------------------------
(* What the account code promises.  Most of it is promised only to requests  *)
(* that do not overlap, and `disturbed' says what else each promise needs.   *)

\* The identifiers with a session record.
Live == {s \in Sids : sess[s] > 0}

\* One device at a time: a login discards the session of the old device, so no
\* two sessions of a name are alive, unless requests overlapped, a crash
\* stopped one half-way, or the account expired (auth.service.ts:23-54).
OneDevice ==
  disturbed <= Deletion => Cardinality(Live) <= 1

\* Every session that is alive is in the sessions set, where the next login
\* and the deletion of the account look for it; in particular nothing is
\* alive once a deletion is over (user.service.ts:27-48).
Tracked ==
  disturbed <= Deletion /\ Active = {} => Live \subseteq sessions.ids

\* The sessions set has one member, as the login that pops only one relies on
\* ("the set always has only 1 member", auth.service.ts:39): not if requests
\* overlapped, or a crash or the expiry of the account cut in, after which the
\* set, to which a login has given no TTL, meets the next owner of the name.
OneMember ==
  disturbed <= Deletion => Cardinality(sessions.ids) <= 1

\* All sockets in the room belong to one session, as sendMessage assumes
\* (messages.service.ts:43).  An account deletion breaks this too: it leaves
\* the sockets in the room, for the next owner of the name to meet.
OneSocketDevice ==
  disturbed = Undisturbed => Cardinality({req[r].sid : r \in sockets}) <= 1

\* However requests overlap, crash or outlive the account: the session that
\* another login has evicted never comes back.  (The order in which Redis answers
\* ensures it: the record is written before the member that leads to it can be
\* popped.)  The exceptions are sessions that are in the set one command earlier
\* than that: those of a sign-up, which still has the TTL to set, and of a login
\* whose SPOP found the set gone, and which puts its own identifier in place of
\* the old one before it adds it (auth.service.ts:39-47).
EvictionIsFinal ==
  \A s \in evicted \ early : sess[s] = 0

SigningUp == \E r \in Active : req[r].kind = "signup" /\ req[r].pc \in {"hset", "sadd"}

\* user:<name> is without a TTL only within a signup, after a signup that a
\* crash cut off between HSET and EXPIRE, or after a key was registered on a
\* user that no longer existed: no other interleaving makes a name permanent.
UserTtlAccounted ==
  user.ttl = NoTtl => SigningUp \/ unset # {}

\* request.service.ts:31-36: outside a signup, a user that exists has a TTL.
UserHasTtl ==
  user.ttl = NoTtl => SigningUp

\* Two signups are told 201 for the same name only if they overlapped.
SignupUnique ==
  disturbed < Overlap => Cardinality(claimed) <= 1
=============================================================================
