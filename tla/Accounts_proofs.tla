--------------------------- MODULE Accounts_proofs ---------------------------
(***************************************************************************)
(* Theorems about Accounts, for every number of requests, sessions, ticks   *)
(* and crashes, and however many requests the backend serves at a time.     *)
(***************************************************************************)
EXTENDS Accounts, Queue_proofs, FiniteSetTheorems

-----------------------------------------------------------------------------
(* What the operators of Redis return, and what the operators of control do  *)
(* to the records and the queue.  The theorems are proved from these facts.  *)

Request == [kind : Kinds \cup {"none"},
            pc : {"idle", "over"} \cup Waiting \cup Elsewhere,
            sid : Sids \cup {"none"}, loaded : BOOLEAN,
            found : BOOLEAN, ids : SUBSET Sids]

\* The queue holds the requests that wait for Redis, each once.
QueueInv ==
  /\ Distinct(replies)
  /\ \A r \in Reqs : r \in Range(replies) <=> req[r].pc \in Waiting

\* TTLs are integers.
LEMMA Numbers ==
  /\ Ttl \in Nat \ {0}
  /\ TtlValues \subseteq Int
  /\ {Gone, NoTtl, Ttl} \subseteq TtlValues
  /\ Gone # NoTtl /\ Gone # Ttl /\ NoTtl # Ttl
  /\ \A t \in TtlValues : t > 0 <=> t \notin {Gone, NoTtl}
BY TtlAssumption DEF TtlValues, Gone, NoTtl

\* Adding and removing a member, and giving the set a TTL.
LEMMA SetOfSessions ==
  ASSUME TypeOK, NEW s \in Sids
  PROVE  /\ AddSession(s) \in [ttl : TtlValues, ids : SUBSET Sids]
         /\ AddSession(s).ids = sessions.ids \cup {s}
         /\ AddSession(s).ttl = IF sessions.ids = {} THEN NoTtl ELSE sessions.ttl
         /\ AddSession(s).ttl # Gone
         /\ RemoveSession(s) \in [ttl : TtlValues, ids : SUBSET Sids]
         /\ RemoveSession(s).ids = sessions.ids \ {s}
         /\ RemoveSession(s).ttl = IF sessions.ids \subseteq {s} THEN Gone
                                   ELSE sessions.ttl
<1>1. /\ sessions \in [ttl : TtlValues, ids : SUBSET Sids]
      /\ sessions.ttl = Gone <=> sessions.ids = {}
  BY DEF TypeOK
<1>2. /\ AddSession(s) \in [ttl : TtlValues, ids : SUBSET Sids]
      /\ AddSession(s).ids = sessions.ids \cup {s}
      /\ AddSession(s).ttl = IF sessions.ids = {} THEN NoTtl ELSE sessions.ttl
      /\ AddSession(s).ttl # Gone
  BY <1>1, Numbers DEF AddSession
<1>3. CASE sessions.ids \subseteq {s}
  BY <1>1, <1>2, <1>3, Numbers DEF RemoveSession, NoSessions
<1>4. CASE ~(sessions.ids \subseteq {s})
  BY <1>1, <1>2, <1>4 DEF RemoveSession
<1>5. QED BY <1>3, <1>4

\* r goes on at step p, having found f and been given the identifiers l.
Goes(r, p, f, l) ==
  /\ req' \in [Reqs -> Request]
  /\ \A k \in Reqs \ {r} : req'[k] = req[k]
  /\ req'[r].pc = p
  /\ req'[r].found = f
  /\ req'[r].ids = l
  /\ req'[r].kind = req[r].kind
  /\ req'[r].sid = req[r].sid
  /\ req'[r].loaded = req[r].loaded

\* r begins.
Begins(r, kind, p, s, loaded, found) ==
  /\ req' \in [Reqs -> Request]
  /\ \A k \in Reqs \ {r} : req'[k] = req[k]
  /\ req'[r].kind = kind
  /\ req'[r].pc = p
  /\ req'[r].sid = s
  /\ req'[r].loaded = loaded
  /\ req'[r].found = found
  /\ req'[r].ids = {}

\* r is over.
Ends(r) ==
  /\ req' \in [Reqs -> Request]
  /\ \A k \in Reqs \ {r} : req'[k] = req[k]
  /\ req'[r].pc = "over"
  /\ req'[r].kind = req[r].kind
  /\ req'[r].sid = req[r].sid
  /\ req'[r].loaded = FALSE
  /\ req'[r].found = FALSE
  /\ req'[r].ids = {}

\* What r's new place in the queue leaves of the order of the others.
QueueStep(r) ==
  /\ replies' \in Seq(Reqs)
  /\ Distinct(replies')
  /\ Range(replies') \ {r} = Range(replies) \ {r}
  /\ r \in Range(replies') <=> req'[r].pc \in Waiting
  /\ \A s, t : Before(s, t, replies) /\ s # r => t = r \/ Before(s, t, replies')
  /\ r \in Range(replies') => \A s \in Range(replies) \ {r} : Before(s, r, replies')

\* Records with other fields.
LEMMA Records ==
  ASSUME NEW rec \in Request, NEW p \in {"idle", "over"} \cup Waiting \cup Elsewhere
  PROVE  /\ [rec EXCEPT !.pc = p] \in Request
         /\ \A f \in BOOLEAN : [rec EXCEPT !.pc = p, !.found = f] \in Request
         /\ \A l \in SUBSET Sids : [[rec EXCEPT !.pc = p] EXCEPT !.ids = l] \in Request
         /\ Idle \in Request
BY DEF Request, Idle

\* One request's record is replaced.
LEMMA Put ==
  ASSUME TypeOK, NEW r \in Reqs, NEW new \in Request, req' = [req EXCEPT ![r] = new]
  PROVE  /\ req' \in [Reqs -> Request]
         /\ \A k \in Reqs \ {r} : req'[k] = req[k]
         /\ req'[r] = new
         /\ req[r] \in Request
<1>1. req \in [Reqs -> Request]
  BY DEF TypeOK, Request
<1>2. QED BY <1>1

\* The request whose reply arrives sends its next command.
LEMMA Rejoins ==
  ASSUME TypeOK, QueueInv, NEW r \in Reqs, replies # <<>>, Head(replies) = r,
         NEW new \in Request, new.pc \in Waiting, Then(r, new)
  PROVE  req'[r] = new /\ QueueStep(r)
<1>1. replies \in Seq(Reqs) /\ Distinct(replies)
  BY DEF TypeOK, QueueInv
<1>2. replies' = Append(Tail(replies), Head(replies)) /\ req'[r] = new
  BY Put DEF Then
<1>3. r \in Range(replies)
  BY <1>1, LeaveQueue
<1>4. QED BY <1>1, <1>2, <1>3, RejoinQueue DEF QueueStep

\* It does not, and leaves the queue.
LEMMA Leaves ==
  ASSUME TypeOK, QueueInv, NEW r \in Reqs, replies # <<>>, Head(replies) = r,
         replies' = Tail(replies), req'[r].pc \notin Waiting
  PROVE  QueueStep(r)
<1>1. replies \in Seq(Reqs) /\ Distinct(replies)
  BY DEF TypeOK, QueueInv
<1>2. QED BY <1>1, LeaveQueue DEF QueueStep

\* A request that was not waiting sends a command.
LEMMA Joins ==
  ASSUME TypeOK, QueueInv, NEW r \in Reqs, req[r].pc \notin Waiting,
         NEW new \in Request, new.pc \in Waiting, BackWith(r, new)
  PROVE  req'[r] = new /\ QueueStep(r)
<1>1. replies \in Seq(Reqs) /\ Distinct(replies) /\ r \notin Range(replies)
  BY DEF TypeOK, QueueInv
<1>2. replies' = Append(replies, r) /\ req'[r] = new
  BY Put DEF BackWith
<1>3. QED BY <1>1, <1>2, JoinQueue DEF QueueStep

\* The ways of going on, of a request whose reply arrives.
LEMMA Resumed ==
  ASSUME TypeOK, QueueInv, NEW r \in Reqs, replies # <<>>, Head(replies) = r
  PROVE  /\ \A p \in Waiting : Then(r, At(r, p)) =>
              Goes(r, p, req[r].found, req[r].ids) /\ QueueStep(r)
         /\ \A p \in Waiting, l \in SUBSET Sids :
              Then(r, [At(r, p) EXCEPT !.ids = l]) =>
                Goes(r, p, req[r].found, l) /\ QueueStep(r)
         /\ \A p \in Waiting, f \in BOOLEAN :
              Then(r, [req[r] EXCEPT !.pc = p, !.found = f]) =>
                Goes(r, p, f, req[r].ids) /\ QueueStep(r)
         /\ \A p \in Elsewhere : ThenElsewhere(r, p) =>
              Goes(r, p, req[r].found, req[r].ids) /\ QueueStep(r)
         /\ End(r) => Ends(r) /\ QueueStep(r)
<1> USE DEF At
<1>0. req[r] \in Request
  BY DEF TypeOK, Request
<1>1. ASSUME NEW p \in Waiting, Then(r, At(r, p))
      PROVE  Goes(r, p, req[r].found, req[r].ids) /\ QueueStep(r)
  <2> DEFINE new == [req[r] EXCEPT !.pc = p]
  <2>1. new \in Request
    BY <1>0, Records
  <2>2. /\ new.pc = p /\ new.kind = req[r].kind /\ new.sid = req[r].sid
        /\ new.loaded = req[r].loaded /\ new.found = req[r].found /\ new.ids = req[r].ids
    BY <1>0 DEF Request
  <2> HIDE DEF new
  <2>3. Then(r, new)
    BY <1>1 DEF new
  <2>4. QED BY <2>1, <2>2, <2>3, Put, Rejoins DEF Goes, Then
<1>2. ASSUME NEW p \in Waiting, NEW l \in SUBSET Sids, Then(r, [At(r, p) EXCEPT !.ids = l])
      PROVE  Goes(r, p, req[r].found, l) /\ QueueStep(r)
  <2> DEFINE new == [[req[r] EXCEPT !.pc = p] EXCEPT !.ids = l]
  <2>1. new \in Request
    BY <1>0, Records
  <2>2. /\ new.pc = p /\ new.kind = req[r].kind /\ new.sid = req[r].sid
        /\ new.loaded = req[r].loaded /\ new.found = req[r].found /\ new.ids = l
    BY <1>0 DEF Request
  <2> HIDE DEF new
  <2>3. Then(r, new)
    BY <1>2 DEF new
  <2>4. QED BY <2>1, <2>2, <2>3, Put, Rejoins DEF Goes, Then
<1>3. ASSUME NEW p \in Waiting, NEW f \in BOOLEAN,
             Then(r, [req[r] EXCEPT !.pc = p, !.found = f])
      PROVE  Goes(r, p, f, req[r].ids) /\ QueueStep(r)
  <2> DEFINE new == [req[r] EXCEPT !.pc = p, !.found = f]
  <2>1. new \in Request
    BY <1>0, Records
  <2>2. /\ new.pc = p /\ new.kind = req[r].kind /\ new.sid = req[r].sid
        /\ new.loaded = req[r].loaded /\ new.found = f /\ new.ids = req[r].ids
    BY <1>0 DEF Request
  <2> HIDE DEF new
  <2>3. Then(r, new)
    BY <1>3 DEF new
  <2>4. QED BY <2>1, <2>2, <2>3, Put, Rejoins DEF Goes, Then
<1>4. ASSUME NEW p \in Elsewhere, ThenElsewhere(r, p)
      PROVE  Goes(r, p, req[r].found, req[r].ids) /\ QueueStep(r)
  <2> DEFINE new == [req[r] EXCEPT !.pc = p]
  <2>1. new \in Request
    BY <1>0, Records
  <2>2. /\ new.pc = p /\ new.kind = req[r].kind /\ new.sid = req[r].sid
        /\ new.loaded = req[r].loaded /\ new.found = req[r].found /\ new.ids = req[r].ids
        /\ p \notin Waiting
    BY <1>0 DEF Request, Waiting, Elsewhere
  <2>3. req' = [req EXCEPT ![r] = new] /\ replies' = Tail(replies)
    BY <1>4 DEF ThenElsewhere
  <2> HIDE DEF new
  <2>4. Goes(r, p, req[r].found, req[r].ids)
    BY <2>1, <2>2, <2>3, Put DEF Goes
  <2>5. QED BY <2>2, <2>3, <2>4, Leaves DEF Goes
<1>5. ASSUME End(r) PROVE Ends(r) /\ QueueStep(r)
  <2> DEFINE new == Ended(r)
  <2>1. /\ new \in Request /\ new.pc = "over" /\ new.kind = req[r].kind
        /\ new.sid = req[r].sid /\ new.loaded = FALSE /\ new.found = FALSE
        /\ new.ids = {}
    BY <1>0 DEF Ended, Idle, Request
  <2>2. req' = [req EXCEPT ![r] = new] /\ replies' = Tail(replies)
    BY <1>5 DEF End
  <2> HIDE DEF new
  <2>3. Ends(r)
    BY <2>1, <2>2, Put DEF Ends
  <2>4. "over" \notin Waiting
    BY DEF Waiting
  <2>5. QED BY <2>2, <2>3, <2>4, Leaves DEF Ends
<1>6. QED BY <1>1, <1>2, <1>3, <1>4, <1>5

\* And of one that Redis does not answer: it arrives, or bcrypt or nextTick
\* resumes it.
LEMMA Continued ==
  ASSUME TypeOK, QueueInv, NEW r \in Reqs, req[r].pc \notin Waiting
  PROVE  /\ \A p \in Waiting, f \in BOOLEAN :
              BackWith(r, [req[r] EXCEPT !.pc = p, !.found = f]) =>
                Goes(r, p, f, req[r].ids) /\ QueueStep(r)
         /\ \A k \in Kinds, s \in Sids, l \in BOOLEAN :
              BackWith(r, [Idle EXCEPT !.kind = k, !.pc = "load", !.sid = s,
                                       !.loaded = l]) =>
                Begins(r, k, "load", s, l, FALSE) /\ QueueStep(r)
         /\ \A f \in BOOLEAN :
              BackWith(r, [Idle EXCEPT !.kind = "register", !.pc = "hget",
                                       !.found = f]) =>
                Begins(r, "register", "hget", "none", FALSE, f) /\ QueueStep(r)
         /\ req' = [req EXCEPT ![r] = Ended(r)] /\ replies' = replies =>
              Ends(r) /\ QueueStep(r)
<1>0. req[r] \in Request
  BY DEF TypeOK, Request
<1>1. ASSUME NEW p \in Waiting, NEW f \in BOOLEAN,
             BackWith(r, [req[r] EXCEPT !.pc = p, !.found = f])
      PROVE  Goes(r, p, f, req[r].ids) /\ QueueStep(r)
  <2> DEFINE new == [req[r] EXCEPT !.pc = p, !.found = f]
  <2>1. new \in Request
    BY <1>0, Records
  <2>2. /\ new.pc = p /\ new.kind = req[r].kind /\ new.sid = req[r].sid
        /\ new.loaded = req[r].loaded /\ new.found = f /\ new.ids = req[r].ids
    BY <1>0 DEF Request
  <2> HIDE DEF new
  <2>3. BackWith(r, new)
    BY <1>1 DEF new
  <2>4. QED BY <2>1, <2>2, <2>3, Put, Joins DEF Goes, BackWith
<1>2. ASSUME NEW k \in Kinds, NEW s \in Sids, NEW l \in BOOLEAN,
             BackWith(r, [Idle EXCEPT !.kind = k, !.pc = "load", !.sid = s,
                                      !.loaded = l])
      PROVE  Begins(r, k, "load", s, l, FALSE) /\ QueueStep(r)
  <2> DEFINE new == [Idle EXCEPT !.kind = k, !.pc = "load", !.sid = s, !.loaded = l]
  <2>1. /\ new \in Request /\ new.pc = "load" /\ new.kind = k /\ new.sid = s
        /\ new.loaded = l /\ new.found = FALSE /\ new.ids = {}
        /\ "load" \in Waiting
    BY DEF Idle, Request, Waiting
  <2> HIDE DEF new
  <2>2. BackWith(r, new)
    BY <1>2 DEF new
  <2>3. QED BY <2>1, <2>2, Put, Joins DEF Begins, BackWith
<1>3. ASSUME NEW f \in BOOLEAN,
             BackWith(r, [Idle EXCEPT !.kind = "register", !.pc = "hget",
                                      !.found = f])
      PROVE  Begins(r, "register", "hget", "none", FALSE, f) /\ QueueStep(r)
  <2> DEFINE new == [Idle EXCEPT !.kind = "register", !.pc = "hget", !.found = f]
  <2>1. /\ new \in Request /\ new.pc = "hget" /\ new.kind = "register"
        /\ new.sid = "none" /\ new.loaded = FALSE /\ new.found = f /\ new.ids = {}
        /\ "hget" \in Waiting
    BY DEF Idle, Request, Waiting, Kinds
  <2> HIDE DEF new
  <2>2. BackWith(r, new)
    BY <1>3 DEF new
  <2>3. QED BY <2>1, <2>2, Put, Joins DEF Begins, BackWith
<1>4. ASSUME req' = [req EXCEPT ![r] = Ended(r)], replies' = replies
      PROVE  Ends(r) /\ QueueStep(r)
  <2> DEFINE new == Ended(r)
  <2>1. /\ new \in Request /\ new.pc = "over" /\ new.kind = req[r].kind
        /\ new.sid = req[r].sid /\ new.loaded = FALSE /\ new.found = FALSE
        /\ new.ids = {}
    BY <1>0 DEF Ended, Idle, Request
  <2>2. req' = [req EXCEPT ![r] = new]
    BY <1>4
  <2> HIDE DEF new
  <2>3. Ends(r)
    BY <2>1, <2>2, Put DEF Ends
  <2>4. "over" \notin Waiting
    BY DEF Waiting
  <2>5. replies \in Seq(Reqs) /\ Distinct(replies) /\ r \notin Range(replies)
    BY DEF TypeOK, QueueInv
  <2>6. QED BY <1>4, <2>3, <2>4, <2>5 DEF Ends, QueueStep
<1>5. QED BY <1>1, <1>2, <1>3, <1>4

\* The steps of a sign-up: where it is, and how it goes on.
LEMMA SignupMoves ==
  ASSUME TypeOK, QueueInv, NEW r \in Reqs
  PROVE  /\ SignupLoads(r) => /\ req[r].kind = "signup" /\ req[r].pc = "load"
                              /\ QueueStep(r)
                              /\ Goes(r, "hashing", req[r].found, req[r].ids)
         /\ SignupHashes(r) => /\ req[r].kind = "signup" /\ req[r].pc = "hashing"
                               /\ QueueStep(r)
                               /\ Goes(r, "exists", (user.ttl # Gone), req[r].ids)
         /\ SignupExists(r) => /\ req[r].kind = "signup" /\ req[r].pc = "exists"
                               /\ QueueStep(r)
                               /\ \/ req[r].found /\ Ends(r)
                                  \/ /\ ~req[r].found
                                     /\ Goes(r, "hset", req[r].found, req[r].ids)
         /\ SignupStored(r) => /\ req[r].kind = "signup" /\ req[r].pc = "hset"
                               /\ QueueStep(r)
                               /\ Goes(r, "sadd", req[r].found, req[r].ids)
         /\ SignupSetsTtl(r) => /\ req[r].kind = "signup" /\ req[r].pc = "sadd"
                                /\ QueueStep(r)
                                /\ Goes(r, "expire", req[r].found, req[r].ids)
         /\ SignupResponds(r) => /\ req[r].kind = "signup" /\ req[r].pc = "expire"
                                 /\ QueueStep(r)
                                 /\ Ends(r)
<1>1. ASSUME SignupLoads(r)
      PROVE  /\ req[r].kind = "signup" /\ req[r].pc = "load"
             /\ QueueStep(r)
             /\ Goes(r, "hashing", req[r].found, req[r].ids)
  <2>1. replies # <<>> /\ Head(replies) = r
    BY <1>1 DEF SignupLoads, Resumes
  <2>2. QED BY <1>1, <2>1, Resumed DEF SignupLoads, Resumes, Waiting, Elsewhere
<1>2. ASSUME SignupHashes(r)
      PROVE  /\ req[r].kind = "signup" /\ req[r].pc = "hashing"
             /\ QueueStep(r)
             /\ Goes(r, "exists", (user.ttl # Gone), req[r].ids)
  <2>1. req[r].pc \notin Waiting
    BY <1>2 DEF SignupHashes, Waiting
  <2>2. QED BY <1>2, <2>1, Continued DEF SignupHashes, Waiting
<1>3. ASSUME SignupExists(r)
      PROVE  /\ req[r].kind = "signup" /\ req[r].pc = "exists"
             /\ QueueStep(r)
             /\ \/ req[r].found /\ Ends(r)
                \/ ~req[r].found /\ Goes(r, "hset", req[r].found, req[r].ids)
  <2>1. replies # <<>> /\ Head(replies) = r
    BY <1>3 DEF SignupExists, Resumes
  <2>2. QED BY <1>3, <2>1, Resumed DEF SignupExists, Resumes, Fail, Waiting, Elsewhere
<1>4. ASSUME SignupStored(r)
      PROVE  /\ req[r].kind = "signup" /\ req[r].pc = "hset"
             /\ QueueStep(r)
             /\ Goes(r, "sadd", req[r].found, req[r].ids)
  <2>1. replies # <<>> /\ Head(replies) = r
    BY <1>4 DEF SignupStored, Resumes
  <2>2. QED BY <1>4, <2>1, Resumed DEF SignupStored, Resumes, Waiting, Elsewhere
<1>5. ASSUME SignupSetsTtl(r)
      PROVE  /\ req[r].kind = "signup" /\ req[r].pc = "sadd"
             /\ QueueStep(r)
             /\ Goes(r, "expire", req[r].found, req[r].ids)
  <2>1. replies # <<>> /\ Head(replies) = r
    BY <1>5 DEF SignupSetsTtl, Resumes
  <2>2. QED BY <1>5, <2>1, Resumed DEF SignupSetsTtl, Resumes, Waiting, Elsewhere
<1>6. ASSUME SignupResponds(r)
      PROVE  /\ req[r].kind = "signup" /\ req[r].pc = "expire"
             /\ QueueStep(r)
             /\ Ends(r)
  <2>1. replies # <<>> /\ Head(replies) = r
    BY <1>6 DEF SignupResponds, Resumes
  <2>2. QED BY <1>6, <2>1, Resumed DEF SignupResponds, Resumes, Respond, Waiting, Elsewhere
<1>7. QED BY <1>1, <1>2, <1>3, <1>4, <1>5, <1>6

\* The steps of a login: where it is, and how it goes on.
LEMMA LoginMoves ==
  ASSUME TypeOK, QueueInv, NEW r \in Reqs
  PROVE  /\ LoginLoads(r) => /\ req[r].kind = "login" /\ req[r].pc = "load"
                             /\ QueueStep(r)
                             /\ Goes(r, "hget", user.password, req[r].ids)
         /\ LoginReadsPassword(r) => /\ req[r].kind = "login" /\ req[r].pc = "hget"
                                     /\ QueueStep(r)
                                     /\ \/ ~req[r].found /\ Ends(r)
                                        \/ /\ req[r].found
                                           /\ Goes(r, "comparing", req[r].found, req[r].ids)
         /\ LoginCompares(r) => /\ req[r].kind = "login" /\ req[r].pc = "comparing"
                                /\ QueueStep(r)
                                /\ Goes(r, "exists", (sessions.ids # {}), req[r].ids)
         /\ LoginExists(r) => /\ req[r].kind = "login" /\ req[r].pc = "exists"
                              /\ QueueStep(r)
                              /\ \/ /\ ~req[r].found
                                    /\ Goes(r, "sadd", req[r].found, req[r].ids)
                                 \/ /\ req[r].found
                                    /\ sessions.ids = {}
                                    /\ Goes(r, "spop", req[r].found, {})
                                 \/ /\ req[r].found
                                    /\ \E s \in sessions.ids : Goes(r, "spop", req[r].found, {s}) /\ sessions' = RemoveSession(s)
         /\ LoginPopped(r) => /\ req[r].kind = "login" /\ req[r].pc = "spop"
                              /\ QueueStep(r)
                              /\ \/ /\ req[r].ids \subseteq {req[r].sid}
                                    /\ Goes(r, "readd", req[r].found, req[r].ids)
                                 \/ /\ ~(req[r].ids \subseteq {req[r].sid})
                                    /\ Goes(r, "evict", req[r].found, req[r].ids)
         /\ LoginReadded(r) => /\ req[r].kind = "login" /\ req[r].pc = "readd"
                               /\ QueueStep(r)
                               /\ Goes(r, "sadd", req[r].found, req[r].ids)
         /\ LoginEvicted(r) => /\ req[r].kind = "login" /\ req[r].pc = "evict"
                               /\ QueueStep(r)
                               /\ Goes(r, "sadd", req[r].found, req[r].ids)
         /\ LoginResponds(r) => /\ req[r].kind = "login" /\ req[r].pc = "sadd"
                                /\ QueueStep(r)
                                /\ Ends(r)
<1>1. ASSUME LoginLoads(r)
      PROVE  /\ req[r].kind = "login" /\ req[r].pc = "load"
             /\ QueueStep(r)
             /\ Goes(r, "hget", user.password, req[r].ids)
  <2>1. replies # <<>> /\ Head(replies) = r
    BY <1>1 DEF LoginLoads, Resumes
  <2>2. QED BY <1>1, <2>1, Resumed DEF TypeOK, LoginLoads, Resumes, Waiting, Elsewhere
<1>2. ASSUME LoginReadsPassword(r)
      PROVE  /\ req[r].kind = "login" /\ req[r].pc = "hget"
             /\ QueueStep(r)
             /\ \/ ~req[r].found /\ Ends(r)
                \/ req[r].found /\ Goes(r, "comparing", req[r].found, req[r].ids)
  <2>1. replies # <<>> /\ Head(replies) = r
    BY <1>2 DEF LoginReadsPassword, Resumes
  <2>2. QED BY <1>2, <2>1, Resumed DEF LoginReadsPassword, Resumes, Fail, Waiting, Elsewhere
<1>3. ASSUME LoginCompares(r)
      PROVE  /\ req[r].kind = "login" /\ req[r].pc = "comparing"
             /\ QueueStep(r)
             /\ Goes(r, "exists", (sessions.ids # {}), req[r].ids)
  <2>1. req[r].pc \notin Waiting
    BY <1>3 DEF LoginCompares, Waiting
  <2>2. QED BY <1>3, <2>1, Continued DEF LoginCompares, Waiting
<1>4. ASSUME LoginExists(r)
      PROVE  /\ req[r].kind = "login" /\ req[r].pc = "exists"
             /\ QueueStep(r)
             /\ \/ ~req[r].found /\ Goes(r, "sadd", req[r].found, req[r].ids)
                \/ req[r].found /\ sessions.ids = {} /\ Goes(r, "spop", req[r].found, {})
                \/ req[r].found /\ \E s \in sessions.ids : Goes(r, "spop", req[r].found, {s}) /\ sessions' = RemoveSession(s)
  <2>1. replies # <<>> /\ Head(replies) = r
    BY <1>4 DEF LoginExists, Resumes
  <2>2. {} \in SUBSET Sids /\ \A s \in sessions.ids : {s} \in SUBSET Sids
    BY DEF TypeOK
  <2>3. QED BY <1>4, <2>1, <2>2, Resumed DEF LoginExists, Resumes, CreateSession, Waiting
<1>5. ASSUME LoginPopped(r)
      PROVE  /\ req[r].kind = "login" /\ req[r].pc = "spop"
             /\ QueueStep(r)
             /\ \/ req[r].ids \subseteq {req[r].sid} /\ Goes(r, "readd", req[r].found, req[r].ids)
                \/ ~(req[r].ids \subseteq {req[r].sid}) /\ Goes(r, "evict", req[r].found, req[r].ids)
  <2>1. replies # <<>> /\ Head(replies) = r
    BY <1>5 DEF LoginPopped, Resumes
  <2>2. QED BY <1>5, <2>1, Resumed DEF LoginPopped, Resumes, Waiting, Elsewhere
<1>6. ASSUME LoginReadded(r)
      PROVE  /\ req[r].kind = "login" /\ req[r].pc = "readd"
             /\ QueueStep(r)
             /\ Goes(r, "sadd", req[r].found, req[r].ids)
  <2>1. replies # <<>> /\ Head(replies) = r
    BY <1>6 DEF LoginReadded, Resumes
  <2>2. QED BY <1>6, <2>1, Resumed DEF LoginReadded, Resumes, CreateSession, Waiting, Elsewhere
<1>7. ASSUME LoginEvicted(r)
      PROVE  /\ req[r].kind = "login" /\ req[r].pc = "evict"
             /\ QueueStep(r)
             /\ Goes(r, "sadd", req[r].found, req[r].ids)
  <2>1. replies # <<>> /\ Head(replies) = r
    BY <1>7 DEF LoginEvicted, Resumes
  <2>2. QED BY <1>7, <2>1, Resumed DEF LoginEvicted, Resumes, CreateSession, Waiting, Elsewhere
<1>8. ASSUME LoginResponds(r)
      PROVE  /\ req[r].kind = "login" /\ req[r].pc = "sadd"
             /\ QueueStep(r)
             /\ Ends(r)
  <2>1. replies # <<>> /\ Head(replies) = r
    BY <1>8 DEF LoginResponds, Resumes
  <2>2. QED BY <1>8, <2>1, Resumed DEF LoginResponds, Resumes, Respond, Waiting, Elsewhere
<1>9. QED BY <1>1, <1>2, <1>3, <1>4, <1>5, <1>6, <1>7, <1>8

\* The steps of a logout: where it is, and how it goes on.
LEMMA LogoutMoves ==
  ASSUME TypeOK, QueueInv, NEW r \in Reqs
  PROVE  /\ LogoutLoads(r) => /\ req[r].kind = "logout" /\ req[r].pc = "load"
                              /\ QueueStep(r)
                              /\ \/ ~req[r].loaded /\ Ends(r)
                                 \/ /\ req[r].loaded
                                    /\ Goes(r, "srem", req[r].found, req[r].ids)
         /\ LogoutRemoved(r) => /\ req[r].kind = "logout" /\ req[r].pc = "srem"
                                /\ QueueStep(r)
                                /\ Goes(r, "smembers", req[r].found, sessions.ids)
         /\ LogoutCounts(r) => /\ req[r].kind = "logout" /\ req[r].pc = "smembers"
                               /\ QueueStep(r)
                               /\ \/ /\ req[r].ids = {}
                                     /\ Goes(r, "delset", req[r].found, req[r].ids)
                                  \/ /\ req[r].ids # {}
                                     /\ Goes(r, "delsess", req[r].found, req[r].ids)
         /\ LogoutCleared(r) => /\ req[r].kind = "logout" /\ req[r].pc = "delset"
                                /\ QueueStep(r)
                                /\ Goes(r, "delsess", req[r].found, req[r].ids)
         /\ LogoutResponds(r) => /\ req[r].kind = "logout" /\ req[r].pc = "delsess"
                                 /\ QueueStep(r)
                                 /\ Ends(r)
<1>1. ASSUME LogoutLoads(r)
      PROVE  /\ req[r].kind = "logout" /\ req[r].pc = "load"
             /\ QueueStep(r)
             /\ \/ ~req[r].loaded /\ Ends(r)
                \/ req[r].loaded /\ Goes(r, "srem", req[r].found, req[r].ids)
  <2>1. replies # <<>> /\ Head(replies) = r
    BY <1>1 DEF LogoutLoads, Resumes
  <2>2. QED BY <1>1, <2>1, Resumed DEF LogoutLoads, Resumes, Unauthenticated, Waiting, Elsewhere
<1>2. ASSUME LogoutRemoved(r)
      PROVE  /\ req[r].kind = "logout" /\ req[r].pc = "srem"
             /\ QueueStep(r)
             /\ Goes(r, "smembers", req[r].found, sessions.ids)
  <2>1. replies # <<>> /\ Head(replies) = r
    BY <1>2 DEF LogoutRemoved, Resumes
  <2>2. QED BY <1>2, <2>1, Resumed DEF TypeOK, LogoutRemoved, Resumes, Waiting, Elsewhere
<1>3. ASSUME LogoutCounts(r)
      PROVE  /\ req[r].kind = "logout" /\ req[r].pc = "smembers"
             /\ QueueStep(r)
             /\ \/ req[r].ids = {} /\ Goes(r, "delset", req[r].found, req[r].ids)
                \/ req[r].ids # {} /\ Goes(r, "delsess", req[r].found, req[r].ids)
  <2>1. replies # <<>> /\ Head(replies) = r
    BY <1>3 DEF LogoutCounts, Resumes
  <2>2. QED BY <1>3, <2>1, Resumed DEF LogoutCounts, Resumes, Waiting, Elsewhere
<1>4. ASSUME LogoutCleared(r)
      PROVE  /\ req[r].kind = "logout" /\ req[r].pc = "delset"
             /\ QueueStep(r)
             /\ Goes(r, "delsess", req[r].found, req[r].ids)
  <2>1. replies # <<>> /\ Head(replies) = r
    BY <1>4 DEF LogoutCleared, Resumes
  <2>2. QED BY <1>4, <2>1, Resumed DEF LogoutCleared, Resumes, Waiting, Elsewhere
<1>5. ASSUME LogoutResponds(r)
      PROVE  /\ req[r].kind = "logout" /\ req[r].pc = "delsess"
             /\ QueueStep(r)
             /\ Ends(r)
  <2>1. replies # <<>> /\ Head(replies) = r
    BY <1>5 DEF LogoutResponds, Resumes
  <2>2. QED BY <1>5, <2>1, Resumed DEF LogoutResponds, Resumes, Waiting, Elsewhere
<1>6. QED BY <1>1, <1>2, <1>3, <1>4, <1>5

\* The steps of a deletion: where it is, and how it goes on.
LEMMA DeleteMoves ==
  ASSUME TypeOK, QueueInv, NEW r \in Reqs
  PROVE  /\ DeleteLoads(r) => /\ req[r].kind = "delete" /\ req[r].pc = "load"
                              /\ QueueStep(r)
                              /\ \/ ~req[r].loaded /\ Ends(r)
                                 \/ /\ req[r].loaded
                                    /\ Goes(r, "smembers", req[r].found, sessions.ids)
         /\ DeleteLists(r) => /\ req[r].kind = "delete" /\ req[r].pc = "smembers"
                              /\ QueueStep(r)
                              /\ \/ req[r].ids = {} /\ Ends(r)
                                 \/ /\ req[r].ids # {}
                                    /\ Goes(r, "delsess", req[r].found, req[r].ids)
         /\ DeleteRecords(r) => /\ req[r].kind = "delete" /\ req[r].pc = "delsess"
                                /\ QueueStep(r)
                                /\ Goes(r, "delset", req[r].found, req[r].ids)
         /\ DeleteSet(r) => /\ req[r].kind = "delete" /\ req[r].pc = "delset"
                            /\ QueueStep(r)
                            /\ Goes(r, "deluser", req[r].found, req[r].ids)
         /\ DeleteResponds(r) => /\ req[r].kind = "delete" /\ req[r].pc = "deluser"
                                 /\ QueueStep(r)
                                 /\ Ends(r)
<1>1. ASSUME DeleteLoads(r)
      PROVE  /\ req[r].kind = "delete" /\ req[r].pc = "load"
             /\ QueueStep(r)
             /\ \/ ~req[r].loaded /\ Ends(r)
                \/ req[r].loaded /\ Goes(r, "smembers", req[r].found, sessions.ids)
  <2>1. replies # <<>> /\ Head(replies) = r
    BY <1>1 DEF DeleteLoads, Resumes
  <2>2. QED BY <1>1, <2>1, Resumed DEF TypeOK, DeleteLoads, Resumes, Unauthenticated, Waiting, Elsewhere
<1>2. ASSUME DeleteLists(r)
      PROVE  /\ req[r].kind = "delete" /\ req[r].pc = "smembers"
             /\ QueueStep(r)
             /\ \/ req[r].ids = {} /\ Ends(r)
                \/ req[r].ids # {} /\ Goes(r, "delsess", req[r].found, req[r].ids)
  <2>1. replies # <<>> /\ Head(replies) = r
    BY <1>2 DEF DeleteLists, Resumes
  <2>2. QED BY <1>2, <2>1, Resumed DEF DeleteLists, Resumes, Fail, Waiting, Elsewhere
<1>3. ASSUME DeleteRecords(r)
      PROVE  /\ req[r].kind = "delete" /\ req[r].pc = "delsess"
             /\ QueueStep(r)
             /\ Goes(r, "delset", req[r].found, req[r].ids)
  <2>1. replies # <<>> /\ Head(replies) = r
    BY <1>3 DEF DeleteRecords, Resumes
  <2>2. QED BY <1>3, <2>1, Resumed DEF DeleteRecords, Resumes, Waiting, Elsewhere
<1>4. ASSUME DeleteSet(r)
      PROVE  /\ req[r].kind = "delete" /\ req[r].pc = "delset"
             /\ QueueStep(r)
             /\ Goes(r, "deluser", req[r].found, req[r].ids)
  <2>1. replies # <<>> /\ Head(replies) = r
    BY <1>4 DEF DeleteSet, Resumes
  <2>2. QED BY <1>4, <2>1, Resumed DEF DeleteSet, Resumes, Waiting, Elsewhere
<1>5. ASSUME DeleteResponds(r)
      PROVE  /\ req[r].kind = "delete" /\ req[r].pc = "deluser"
             /\ QueueStep(r)
             /\ Ends(r)
  <2>1. replies # <<>> /\ Head(replies) = r
    BY <1>5 DEF DeleteResponds, Resumes
  <2>2. QED BY <1>5, <2>1, Resumed DEF DeleteResponds, Resumes, Waiting, Elsewhere
<1>6. QED BY <1>1, <1>2, <1>3, <1>4, <1>5

\* The steps of a registration: where it is, and how it goes on.
LEMMA RegisterMoves ==
  ASSUME TypeOK, QueueInv, NEW r \in Reqs
  PROVE  /\ RegisterReads(r) => /\ req[r].kind = "register" /\ req[r].pc = "hget"
                                /\ QueueStep(r)
                                /\ \/ /\ ~req[r].found
                                      /\ Goes(r, "hset", req[r].found, req[r].ids)
                                   \/ req[r].found /\ Ends(r)
                                   \/ /\ req[r].found
                                      /\ Goes(r, "hgethistory", req[r].found, req[r].ids)
         /\ RegisterConflicts(r) => /\ req[r].kind = "register" /\ req[r].pc = "hgethistory"
                                    /\ QueueStep(r)
                                    /\ Goes(r, "hset", req[r].found, req[r].ids)
         /\ RegisterReturns(r) => /\ req[r].kind = "register" /\ req[r].pc = "hset"
                                  /\ QueueStep(r)
                                  /\ Ends(r)
<1>1. ASSUME RegisterReads(r)
      PROVE  /\ req[r].kind = "register" /\ req[r].pc = "hget"
             /\ QueueStep(r)
             /\ \/ ~req[r].found /\ Goes(r, "hset", req[r].found, req[r].ids)
                \/ req[r].found /\ Ends(r)
                \/ req[r].found /\ Goes(r, "hgethistory", req[r].found, req[r].ids)
  <2>1. replies # <<>> /\ Head(replies) = r
    BY <1>1 DEF RegisterReads, Resumes
  <2>2. QED BY <1>1, <2>1, Resumed DEF RegisterReads, Resumes, Waiting, Elsewhere
<1>2. ASSUME RegisterConflicts(r)
      PROVE  /\ req[r].kind = "register" /\ req[r].pc = "hgethistory"
             /\ QueueStep(r)
             /\ Goes(r, "hset", req[r].found, req[r].ids)
  <2>1. replies # <<>> /\ Head(replies) = r
    BY <1>2 DEF RegisterConflicts, Resumes
  <2>2. QED BY <1>2, <2>1, Resumed DEF RegisterConflicts, Resumes, Waiting, Elsewhere
<1>3. ASSUME RegisterReturns(r)
      PROVE  /\ req[r].kind = "register" /\ req[r].pc = "hset"
             /\ QueueStep(r)
             /\ Ends(r)
  <2>1. replies # <<>> /\ Head(replies) = r
    BY <1>3 DEF RegisterReturns, Resumes
  <2>2. QED BY <1>3, <2>1, Resumed DEF RegisterReturns, Resumes, Waiting, Elsewhere
<1>4. QED BY <1>1, <1>2, <1>3

\* The steps of a handshake: where it is, and how it goes on.
LEMMA HandshakeMoves ==
  ASSUME TypeOK, QueueInv, NEW r \in Reqs
  PROVE  /\ HandshakeLoads(r) => /\ req[r].kind = "handshake" /\ req[r].pc = "load"
                                 /\ QueueStep(r)
                                 /\ \/ /\ req[r].loaded
                                       /\ Goes(r, "joining", req[r].found, req[r].ids)
                                    \/ ~req[r].loaded /\ Ends(r)
         /\ HandshakeJoins(r) => /\ req[r].pc = "joining"
                                 /\ QueueStep(r)
                                 /\ Ends(r)
<1>1. ASSUME HandshakeLoads(r)
      PROVE  /\ req[r].kind = "handshake" /\ req[r].pc = "load"
             /\ QueueStep(r)
             /\ \/ req[r].loaded /\ Goes(r, "joining", req[r].found, req[r].ids)
                \/ ~req[r].loaded /\ Ends(r)
  <2>1. replies # <<>> /\ Head(replies) = r
    BY <1>1 DEF HandshakeLoads, Resumes
  <2>2. QED BY <1>1, <2>1, Resumed DEF HandshakeLoads, Resumes, Waiting, Elsewhere
<1>2. ASSUME HandshakeJoins(r)
      PROVE  /\ req[r].pc = "joining"
             /\ QueueStep(r)
             /\ Ends(r)
  <2>1. req[r].pc \notin Waiting
    BY <1>2 DEF HandshakeJoins, Waiting
  <2>2. QED BY <1>2, <2>1, Continued DEF HandshakeJoins
<1>3. QED BY <1>1, <1>2

\* A request arrives.
LEMMA ArriveMoves ==
  ASSUME TypeOK, QueueInv, NEW r \in Reqs
  PROVE  /\ \A k \in Kinds, s \in Sids : StartRequest(r, k, s) =>
              /\ req[r] = Idle
              /\ QueueStep(r)
              /\ Begins(r, k, "load", s, sess[s] > 0, FALSE)
         /\ \A c \in sockets : StartRegister(r, c) =>
              /\ req[r] = Idle
              /\ QueueStep(r)
              /\ Begins(r, "register", "hget", "none", FALSE, user.key)
<1>1. Idle.pc \notin Waiting
  BY DEF Idle, Waiting
<1>2. ASSUME NEW k \in Kinds, NEW s \in Sids, StartRequest(r, k, s)
      PROVE  /\ req[r] = Idle
             /\ QueueStep(r)
             /\ Begins(r, k, "load", s, sess[s] > 0, FALSE)
  <2> DEFINE loaded == sess[s] > 0
  <2>1. loaded \in BOOLEAN
    OBVIOUS
  <2>2. /\ req[r] = Idle
        /\ BackWith(r, [Idle EXCEPT !.kind = k, !.pc = "load", !.sid = s,
                                    !.loaded = loaded])
    BY <1>2 DEF StartRequest
  <2> HIDE DEF loaded
  <2>3. QueueStep(r) /\ Begins(r, k, "load", s, loaded, FALSE)
    BY <1>1, <2>1, <2>2, Continued
  <2>4. QED BY <2>2, <2>3 DEF loaded
<1>3. ASSUME NEW c \in sockets, StartRegister(r, c)
      PROVE  /\ req[r] = Idle
             /\ QueueStep(r)
             /\ Begins(r, "register", "hget", "none", FALSE, user.key)
  <2>1. user.key \in BOOLEAN
    BY DEF TypeOK
  <2>2. QED BY <1>1, <1>3, <2>1, Continued DEF StartRegister
<1>4. QED BY <1>2, <1>3

\* The process dies.
LEMMA CrashMoves ==
  ASSUME TypeOK, Crash
  PROVE  /\ req' \in [Reqs -> Request]
         /\ \A r \in Reqs \ Active : req'[r] = req[r]
         /\ \A r \in Active : /\ req'[r].pc = "over"
                              /\ req'[r].kind = req[r].kind
                              /\ req'[r].sid = req[r].sid
                              /\ req'[r].loaded = FALSE
                              /\ req'[r].found = FALSE
                              /\ req'[r].ids = {}
         /\ Active' = {}
<1>1. req \in [Reqs -> Request]
  BY DEF TypeOK, Request
<1>2. req' = [r \in Reqs |-> IF r \in Active THEN Ended(r) ELSE req[r]]
  BY DEF Crash
<1>3. ASSUME NEW r \in Reqs
      PROVE  /\ Ended(r) \in Request /\ Ended(r).pc = "over"
             /\ Ended(r).kind = req[r].kind /\ Ended(r).sid = req[r].sid
             /\ Ended(r).loaded = FALSE /\ Ended(r).found = FALSE /\ Ended(r).ids = {}
  BY <1>1 DEF Ended, Idle, Request
<1>4. Active \subseteq Reqs
  BY DEF Active
<1>5. /\ req' \in [Reqs -> Request]
      /\ \A r \in Reqs \ Active : req'[r] = req[r]
      /\ \A r \in Active : req'[r] = Ended(r)
  BY <1>1, <1>2, <1>3, <1>4
<1>6. Active' = {}
  <2>1. \A r \in Reqs : req'[r].pc \notin Waiting \cup Elsewhere
    <3> SUFFICES ASSUME NEW r \in Reqs PROVE req'[r].pc \notin Waiting \cup Elsewhere
      OBVIOUS
    <3>1. CASE r \in Active
      BY <1>3, <1>5, <3>1 DEF Waiting, Elsewhere
    <3>2. CASE r \notin Active
      BY <1>5, <3>2 DEF Active
    <3>3. QED BY <3>1, <3>2
  <2>2. QED BY <2>1 DEF Active
<1>7. QED BY <1>3, <1>4, <1>5, <1>6

\* A step is an arrival, a step of a request, or one of the environment.
LEMMA Steps ==
  ASSUME [Next]_vars
  PROVE  \/ \E r \in Reqs, k \in Kinds, s \in Sids : StartRequest(r, k, s)
         \/ \E r \in Reqs, c \in sockets : StartRegister(r, c)
         \/ \E r \in Reqs : Serve(r)
         \/ \E r \in Reqs : SocketCloses(r)
         \/ Tick \/ ExpiryEvent \/ Crash
         \/ UNCHANGED vars
BY DEF Next, Arrive

\* A step of a request is a step of its kind.
LEMMA ServeMoves ==
  ASSUME TypeOK, QueueInv, NEW r \in Reqs, Serve(r)
  PROVE  /\ QueueStep(r)
         /\ req' \in [Reqs -> Request]
         /\ \A k \in Reqs \ {r} : req'[k] = req[k]
         /\ r \in Active
         /\ req'[r].pc # "idle"
         /\ req'[r].kind = req[r].kind
         /\ req'[r].sid = req[r].sid
         /\ req'[r].pc # "over" => req'[r].loaded = req[r].loaded
         /\ req'[r].pc = "over" <=> Ends(r)
         /\ UNCHANGED <<fresh, expired, ticks, crashes>>
<1> DEFINE Goal == /\ QueueStep(r)
                   /\ req' \in [Reqs -> Request]
                   /\ \A k \in Reqs \ {r} : req'[k] = req[k]
                   /\ req[r].pc \in Waiting \cup Elsewhere
                   /\ req'[r].pc # "idle"
                   /\ req'[r].kind = req[r].kind
                   /\ req'[r].sid = req[r].sid
                   /\ req'[r].pc # "over" => req'[r].loaded = req[r].loaded
                   /\ req'[r].pc = "over" <=> Ends(r)
           Frame == UNCHANGED <<fresh, expired, ticks, crashes>>
<1>1. CASE SignupStep(r)
  <2>1. Goal
    BY <1>1, SignupMoves DEF SignupStep, Goes, Ends, Waiting, Elsewhere
  <2>2. Frame
    BY <1>1 DEF SignupStep, SignupLoads, SignupHashes, SignupExists, SignupStored,
                SignupSetsTtl, SignupResponds, boundVars
  <2>3. QED BY <2>1, <2>2 DEF Active
<1>2. CASE LoginStep(r)
  <2>1. Goal
    BY <1>2, LoginMoves DEF LoginStep, Goes, Ends, Waiting, Elsewhere
  <2>2. Frame
    BY <1>2 DEF LoginStep, LoginLoads, LoginReadsPassword, LoginCompares, LoginExists,
                LoginPopped, LoginReadded, LoginEvicted, LoginResponds, boundVars
  <2>3. QED BY <2>1, <2>2 DEF Active
<1>3. CASE LogoutStep(r)
  <2>1. Goal
    BY <1>3, LogoutMoves DEF LogoutStep, Goes, Ends, Waiting, Elsewhere
  <2>2. Frame
    BY <1>3 DEF LogoutStep, LogoutLoads, LogoutRemoved, LogoutCounts, LogoutCleared,
                LogoutResponds, boundVars
  <2>3. QED BY <2>1, <2>2 DEF Active
<1>4. CASE DeleteStep(r)
  <2>1. Goal
    BY <1>4, DeleteMoves DEF DeleteStep, Goes, Ends, Waiting, Elsewhere
  <2>2. Frame
    BY <1>4 DEF DeleteStep, DeleteLoads, DeleteLists, DeleteRecords, DeleteSet,
                DeleteResponds, boundVars
  <2>3. QED BY <2>1, <2>2 DEF Active
<1>5. CASE RegisterStep(r)
  <2>1. Goal
    BY <1>5, RegisterMoves DEF RegisterStep, Goes, Ends, Waiting, Elsewhere
  <2>2. Frame
    BY <1>5 DEF RegisterStep, RegisterReads, RegisterConflicts, RegisterReturns, boundVars
  <2>3. QED BY <2>1, <2>2 DEF Active
<1>6. CASE HandshakeStep(r)
  <2>1. Goal
    BY <1>6, HandshakeMoves DEF HandshakeStep, Goes, Ends, Waiting, Elsewhere
  <2>2. Frame
    BY <1>6 DEF HandshakeStep, HandshakeLoads, HandshakeJoins, boundVars
  <2>3. QED BY <2>1, <2>2 DEF Active
<1>7. QED BY <1>1, <1>2, <1>3, <1>4, <1>5, <1>6 DEF Serve

-----------------------------------------------------------------------------
\* The queue is kept by every step.
LEMMA InitQueue == Init => QueueInv
BY EmptyQueue DEF Init, QueueInv, Idle, Waiting

LEMMA NextQueue == TypeOK /\ QueueInv /\ [Next]_vars => QueueInv'
<1> SUFFICES ASSUME TypeOK, QueueInv, [Next]_vars PROVE QueueInv'
  OBVIOUS
<1>1. ASSUME NEW r \in Reqs, QueueStep(r), \A k \in Reqs \ {r} : req'[k] = req[k]
      PROVE  QueueInv'
  <2>1. ASSUME NEW k \in Reqs PROVE k \in Range(replies') <=> req'[k].pc \in Waiting
    <3>1. CASE k = r
      BY <1>1, <3>1 DEF QueueStep
    <3>2. CASE k # r
      BY <1>1, <3>2 DEF QueueStep, QueueInv
    <3>3. QED BY <3>1, <3>2
  <2>2. QED BY <1>1, <2>1 DEF QueueStep, QueueInv
<1>2. CASE \E r \in Reqs, k \in Kinds, s \in Sids : StartRequest(r, k, s)
  BY <1>1, <1>2, ArriveMoves DEF Begins
<1>3. CASE \E r \in Reqs, c \in sockets : StartRegister(r, c)
  BY <1>1, <1>3, ArriveMoves DEF Begins
<1>4. CASE \E r \in Reqs : Serve(r)
  BY <1>1, <1>4, ServeMoves
<1>5. CASE Crash
  <2>1. \A r \in Reqs : req'[r].pc \notin Waiting
    BY <1>5, CrashMoves DEF Active
  <2>2. replies' = <<>>
    BY <1>5 DEF Crash
  <2>3. QED BY <2>1, <2>2, EmptyQueue DEF QueueInv
<1>6. CASE UNCHANGED <<req, replies>>
  BY <1>6 DEF QueueInv
<1>7. QED
  BY <1>2, <1>3, <1>4, <1>5, <1>6, Steps DEF SocketCloses, Tick, ExpiryEvent, vars

-----------------------------------------------------------------------------
(* Type correctness.                                                         *)

\* The types of everything but the requests and the queue.
RedisTyped ==
  /\ user \in [ttl : TtlValues, password : BOOLEAN, key : BOOLEAN]
  /\ user.ttl = Gone => user = NoUser
  /\ sessions \in [ttl : TtlValues, ids : SUBSET Sids]
  /\ sessions.ttl = Gone <=> sessions.ids = {}
  /\ sess \in [Sids -> 0..Ttl]

HistoryTyped ==
  /\ fresh \subseteq Sids
  /\ sockets \subseteq Reqs
  /\ expired \in BOOLEAN
  /\ ticks \in 0..MaxTicks
  /\ crashes \in 0..MaxCrashes
  /\ evicted \subseteq Sids
  /\ early \subseteq Sids
  /\ claimed \subseteq Reqs
  /\ unset \subseteq {"crash", "key"}
  /\ disturbed \in Undisturbed..Overlap

LEMMA TypeParts ==
  TypeOK <=> /\ RedisTyped
             /\ HistoryTyped
             /\ req \in [Reqs -> Request]
             /\ replies \in Seq(Reqs)
BY DEF TypeOK, RedisTyped, HistoryTyped, Request

\* Writing fields of user:<name>, and its TTL.
LEMMA UserFields ==
  ASSUME RedisTyped
  PROVE  /\ Created \in TtlValues /\ Created # Gone
         /\ user.ttl # Gone => Created = user.ttl
         /\ user.ttl = Gone => Created = NoTtl
         /\ \A t \in TtlValues : [user EXCEPT !.ttl = t]
                                   \in [ttl : TtlValues, password : BOOLEAN, key : BOOLEAN]
         /\ \A t \in TtlValues : [user EXCEPT !.ttl = t, !.password = TRUE]
                                   \in [ttl : TtlValues, password : BOOLEAN, key : BOOLEAN]
         /\ \A t \in TtlValues, k \in BOOLEAN :
              [user EXCEPT !.ttl = t, !.key = k] \in [ttl : TtlValues, password : BOOLEAN, key : BOOLEAN]
         /\ [user EXCEPT !.ttl = Gone] = user \/ user.ttl # Gone
         /\ NoUser \in [ttl : TtlValues, password : BOOLEAN, key : BOOLEAN]
         /\ NoUser.ttl = Gone
BY Numbers DEF RedisTyped, Created, NoUser

\* Writing and deleting session records.
LEMMA SessRecords ==
  ASSUME RedisTyped, NEW s \in Sids
  PROVE  /\ Touched(s) \in [Sids -> 0..Ttl]
         /\ [sess EXCEPT ![s] = Ttl] \in [Sids -> 0..Ttl]
         /\ [sess EXCEPT ![s] = 0] \in [Sids -> 0..Ttl]
         /\ \A S : [t \in Sids |-> IF t \in S THEN 0 ELSE sess[t]] \in [Sids -> 0..Ttl]
BY Numbers DEF RedisTyped, Touched

\* Every request but a registration has an identifier; a handshake that joins
\* has a session.
RequestInv ==
  \A r \in Reqs :
    /\ req[r].pc = "idle" => req[r] = Idle
    /\ req[r].kind = "none" <=> req[r].pc = "idle"
    /\ req[r].kind \notin {"none", "register"} => req[r].sid \in Sids
    /\ req[r].kind = "register" => req[r].sid = "none" /\ ~req[r].loaded
    /\ req[r].pc = "joining" => req[r].kind = "handshake" /\ req[r].loaded

LEMMA InitRequest == Init => RequestInv
BY DEF Init, RequestInv, Idle

LEMMA NextRequest ==
  TypeOK /\ QueueInv /\ RequestInv /\ [Next]_vars => RequestInv'
<1> DEFINE Ok(q) == /\ q.pc = "idle" => q = Idle
                    /\ q.kind = "none" <=> q.pc = "idle"
                    /\ q.kind \notin {"none", "register"} => q.sid \in Sids
                    /\ q.kind = "register" => q.sid = "none" /\ ~q.loaded
                    /\ q.pc = "joining" => q.kind = "handshake" /\ q.loaded
<1> SUFFICES ASSUME TypeOK, QueueInv, RequestInv, [Next]_vars PROVE RequestInv'
  OBVIOUS
<1>0. \A r \in Reqs : Ok(req[r])
  BY DEF RequestInv
<1>1. ASSUME NEW r \in Reqs, Ok(req'[r]), \A k \in Reqs \ {r} : req'[k] = req[k]
      PROVE  RequestInv'
  <2>1. \A k \in Reqs : Ok(req'[k])
    BY <1>0, <1>1
  <2>2. QED BY <2>1 DEF RequestInv
<1>2. ASSUME NEW r \in Reqs, NEW k \in Kinds, NEW s \in Sids, StartRequest(r, k, s)
      PROVE  RequestInv'
  <2>1. Begins(r, k, "load", s, sess[s] > 0, FALSE) /\ k # "none" /\ k # "register"
    BY <1>2, ArriveMoves DEF StartRequest, Kinds
  <2>2. Ok(req'[r])
    BY <2>1 DEF Begins
  <2>3. QED BY <1>1, <2>1, <2>2 DEF Begins
<1>3. ASSUME NEW r \in Reqs, NEW c \in sockets, StartRegister(r, c)
      PROVE  RequestInv'
  <2>1. Begins(r, "register", "hget", "none", FALSE, user.key)
    BY <1>3, ArriveMoves
  <2>2. Ok(req'[r])
    BY <2>1 DEF Begins
  <2>3. QED BY <1>1, <2>1, <2>2 DEF Begins
<1>4. ASSUME NEW r \in Reqs, Serve(r) PROVE RequestInv'
  <2>1. /\ \A k \in Reqs \ {r} : req'[k] = req[k]
        /\ req[r].pc # "idle" /\ req'[r].pc # "idle"
        /\ req'[r].kind = req[r].kind
        /\ req'[r].sid = req[r].sid
        /\ req'[r].pc # "over" => req'[r].loaded = req[r].loaded
        /\ req'[r].pc = "over" <=> Ends(r)
    BY <1>4, ServeMoves DEF Active, Waiting, Elsewhere
  <2>2. req'[r].pc = "joining" => req[r].kind = "handshake" /\ req[r].loaded
    <3>1. CASE SignupStep(r)
      BY <3>1, SignupMoves DEF SignupStep, Goes, Ends
    <3>2. CASE LoginStep(r)
      BY <3>2, LoginMoves DEF LoginStep, Goes, Ends
    <3>3. CASE LogoutStep(r)
      BY <3>3, LogoutMoves DEF LogoutStep, Goes, Ends
    <3>4. CASE DeleteStep(r)
      BY <3>4, DeleteMoves DEF DeleteStep, Goes, Ends
    <3>5. CASE RegisterStep(r)
      BY <3>5, RegisterMoves DEF RegisterStep, Goes, Ends
    <3>6. CASE HandshakeStep(r)
      BY <3>6, HandshakeMoves DEF HandshakeStep, Goes, Ends
    <3>7. QED BY <1>4, <3>1, <3>2, <3>3, <3>4, <3>5, <3>6 DEF Serve
  <2>3. Ok(req'[r])
    <3>1. req'[r].kind = "register" => req'[r].sid = "none" /\ ~req'[r].loaded
      BY <1>0, <2>1 DEF Ends
    <3>2. QED BY <1>0, <2>1, <2>2, <3>1
  <2>4. QED BY <1>1, <2>1, <2>3
<1>5. ASSUME Crash PROVE RequestInv'
  <2>1. \A r \in Reqs : Ok(req'[r])
    <3> SUFFICES ASSUME NEW r \in Reqs PROVE Ok(req'[r])
      OBVIOUS
    <3>1. CASE r \in Active
      <4>1. req[r].pc # "idle"
        BY <3>1 DEF Active, Waiting, Elsewhere
      <4>2. QED BY <1>0, <1>5, <3>1, <4>1, CrashMoves
    <3>2. CASE r \notin Active
      BY <1>0, <1>5, <3>2, CrashMoves
    <3>3. QED BY <3>1, <3>2
  <2>2. QED BY <2>1 DEF RequestInv
<1>6. CASE UNCHANGED req
  BY <1>6 DEF RequestInv
<1>7. QED
  BY <1>2, <1>3, <1>4, <1>5, <1>6, Steps DEF SocketCloses, Tick, ExpiryEvent, vars

\* The steps of requests keep the types of Redis.
LEMMA ServeRedis ==
  ASSUME TypeOK, QueueInv, RequestInv, NEW r \in Reqs, Serve(r)
  PROVE  RedisTyped'
<1>0. /\ RedisTyped
      /\ req[r].kind # "register" => req[r].sid \in Sids
      /\ UNCHANGED <<user, sessions, sess>> => RedisTyped'
  <2>1. req[r].kind # "none"
    BY ServeMoves DEF RequestInv, Active, Waiting, Elsewhere
  <2>2. QED BY <2>1, TypeParts DEF RequestInv, RedisTyped
<1> DEFINE UserOk == /\ user' \in [ttl : TtlValues, password : BOOLEAN, key : BOOLEAN]
                     /\ user'.ttl = Gone => user' = NoUser
           SetOk == /\ sessions' \in [ttl : TtlValues, ids : SUBSET Sids]
                    /\ sessions'.ttl = Gone <=> sessions'.ids = {}
           SessOk == sess' \in [Sids -> 0..Ttl]
<1>1. /\ UNCHANGED user => UserOk
      /\ UNCHANGED sessions => SetOk
      /\ UNCHANGED sess => SessOk
  BY <1>0 DEF RedisTyped
<1>2. UserOk /\ SetOk /\ SessOk => RedisTyped'
  BY DEF RedisTyped
<1>3. /\ user' = [user EXCEPT !.ttl = Created, !.password = TRUE] => UserOk
      /\ \A k \in BOOLEAN : user' = [user EXCEPT !.ttl = Created, !.key = k] => UserOk
      /\ user' = [user EXCEPT !.ttl = SetUserTtl(Ttl)] => UserOk
      /\ user' = NoUser => UserOk
  <2>1. \A t \in TtlValues \ {Gone} : [user EXCEPT !.ttl = t, !.password = TRUE].ttl # Gone
    BY <1>0 DEF RedisTyped
  <2>2. \A t \in TtlValues \ {Gone}, k \in BOOLEAN :
          [user EXCEPT !.ttl = t, !.key = k].ttl # Gone
    BY <1>0 DEF RedisTyped
  <2>3. user' = [user EXCEPT !.ttl = SetUserTtl(Ttl)] => UserOk
    <3>1. CASE user.ttl = Gone
      BY <1>0, <3>1, UserFields DEF SetUserTtl, RedisTyped
    <3>2. CASE user.ttl # Gone
      <4>1. [user EXCEPT !.ttl = Ttl].ttl = Ttl
        BY <1>0 DEF RedisTyped
      <4>2. QED BY <1>0, <3>2, <4>1, UserFields, Numbers DEF SetUserTtl
    <3>3. QED BY <3>1, <3>2
  <2>4. QED BY <1>0, <2>1, <2>2, <2>3, UserFields
<1>4. /\ req[r].sid \in Sids /\ sessions' = AddSession(req[r].sid) => SetOk
      /\ \A s \in Sids : sessions' = RemoveSession(s) => SetOk
      /\ sessions' = NoSessions => SetOk
      /\ sessions' = [sessions EXCEPT !.ttl = Ttl] /\ sessions.ids # {} => SetOk
  <2>1. req[r].sid \in Sids /\ sessions' = AddSession(req[r].sid) => SetOk
    BY <1>0, SetOfSessions DEF RedisTyped
  <2>2. ASSUME NEW s \in Sids, sessions' = RemoveSession(s) PROVE SetOk
    BY <1>0, <2>2, SetOfSessions DEF RedisTyped
  <2>3. sessions' = NoSessions => SetOk
    BY Numbers DEF NoSessions
  <2>4. sessions' = [sessions EXCEPT !.ttl = Ttl] /\ sessions.ids # {} => SetOk
    BY <1>0, Numbers DEF RedisTyped
  <2>5. QED BY <2>1, <2>2, <2>3, <2>4
<1>5. req[r].sid \in Sids =>
      /\ sess' = Touched(req[r].sid) => SessOk
      /\ sess' = [sess EXCEPT ![req[r].sid] = Ttl] => SessOk
      /\ sess' = [sess EXCEPT ![req[r].sid] = 0] => SessOk
      /\ sess' = [s \in Sids |-> IF s \in req[r].ids THEN 0 ELSE sess[s]] => SessOk
  BY <1>0, SessRecords
<1> HIDE DEF UserOk, SetOk, SessOk
<1>6. CASE SignupStep(r)
  <2>1. req[r].sid \in Sids
    BY <1>0, <1>6, SignupMoves DEF SignupStep
  <2>2. UserOk
    BY <1>1, <1>3, <1>6 DEF SignupStep, SignupLoads, SignupHashes, SignupExists,
       SignupStored, SignupSetsTtl, SignupResponds, redisVars
  <2>3. SetOk
    BY <1>1, <1>4, <1>6, <2>1 DEF SignupStep, SignupLoads, SignupHashes, SignupExists,
       SignupStored, SignupSetsTtl, SignupResponds, redisVars
  <2>4. SessOk
    BY <1>1, <1>5, <1>6, <2>1 DEF SignupStep, SignupLoads, SignupHashes, SignupExists,
       SignupStored, SignupSetsTtl, SignupResponds, redisVars, Respond, Fail, Saved
  <2>5. QED BY <1>2, <2>2, <2>3, <2>4
<1>7. CASE LoginStep(r)
  <2>1. req[r].sid \in Sids
    BY <1>0, <1>7, LoginMoves DEF LoginStep
  <2>2. UserOk
    BY <1>1, <1>7 DEF LoginStep, LoginLoads, LoginReadsPassword, LoginCompares,
       LoginExists, LoginPopped, LoginReadded, LoginEvicted, LoginResponds, redisVars
  <2>3. SetOk
    <3>1. sessions.ids \subseteq Sids
      BY <1>0 DEF RedisTyped
    <3>2. QED
      BY <1>1, <1>4, <1>7, <2>1, <3>1 DEF LoginStep, LoginLoads, LoginReadsPassword,
         LoginCompares, LoginExists, LoginPopped, LoginReadded, LoginEvicted,
         LoginResponds, redisVars, CreateSession
  <2>4. SessOk
    BY <1>1, <1>5, <1>7, <2>1 DEF LoginStep, LoginLoads, LoginReadsPassword,
       LoginCompares, LoginExists, LoginPopped, LoginReadded, LoginEvicted,
       LoginResponds, redisVars, Respond, Fail, Saved
  <2>5. QED BY <1>2, <2>2, <2>3, <2>4
<1>8. CASE LogoutStep(r)
  <2>1. req[r].sid \in Sids
    BY <1>0, <1>8, LogoutMoves DEF LogoutStep
  <2>2. UserOk
    BY <1>1, <1>8 DEF LogoutStep, LogoutLoads, LogoutRemoved, LogoutCounts,
       LogoutCleared, LogoutResponds, redisVars
  <2>3. SetOk
    BY <1>1, <1>4, <1>8, <2>1 DEF LogoutStep, LogoutLoads, LogoutRemoved, LogoutCounts,
       LogoutCleared, LogoutResponds, redisVars
  <2>4. SessOk
    BY <1>1, <1>5, <1>8, <2>1 DEF LogoutStep, LogoutLoads, LogoutRemoved, LogoutCounts,
       LogoutCleared, LogoutResponds, redisVars, Unauthenticated
  <2>5. QED BY <1>2, <2>2, <2>3, <2>4
<1>9. CASE DeleteStep(r)
  <2>1. req[r].sid \in Sids
    BY <1>0, <1>9, DeleteMoves DEF DeleteStep
  <2>2. UserOk
    BY <1>1, <1>3, <1>9 DEF DeleteStep, DeleteLoads, DeleteLists, DeleteRecords,
       DeleteSet, DeleteResponds, redisVars
  <2>3. SetOk
    BY <1>1, <1>4, <1>9 DEF DeleteStep, DeleteLoads, DeleteLists, DeleteRecords,
       DeleteSet, DeleteResponds, redisVars
  <2>4. SessOk
    BY <1>1, <1>5, <1>9, <2>1 DEF DeleteStep, DeleteLoads, DeleteLists, DeleteRecords,
       DeleteSet, DeleteResponds, redisVars, Unauthenticated, Fail
  <2>5. QED BY <1>2, <2>2, <2>3, <2>4
<1>10. CASE RegisterStep(r)
  <2>1. \/ \E key \in BOOLEAN : WriteKeyField(key)
        \/ UNCHANGED user
    BY <1>10 DEF RegisterStep, RegisterReads, RegisterConflicts, RegisterReturns,
       redisVars
  <2>2. UserOk
    <3>1. ASSUME NEW key \in BOOLEAN, WriteKeyField(key)
          PROVE  \E k \in BOOLEAN : user' = [user EXCEPT !.ttl = Created, !.key = k]
      <4>1. /\ user' = [user EXCEPT !.ttl = Created, !.key = user.key \/ key]
            /\ (user.key \/ key) \in BOOLEAN
        BY <1>0, <3>1 DEF WriteKeyField, RedisTyped
      <4>2. QED BY <4>1
    <3>2. QED BY <1>1, <1>3, <2>1, <3>1
  <2>3. UNCHANGED <<sessions, sess>>
    BY <1>10 DEF RegisterStep, RegisterReads, RegisterConflicts, RegisterReturns,
       redisVars, WriteKeyField
  <2>4. SetOk /\ SessOk
    BY <1>1, <2>3
  <2>5. QED BY <1>2, <2>2, <2>4
<1>11. CASE HandshakeStep(r)
  BY <1>0, <1>11 DEF HandshakeStep, HandshakeLoads, HandshakeJoins, redisVars
<1>12. QED BY <1>6, <1>7, <1>8, <1>9, <1>10, <1>11 DEF Serve

\* And those of the history.
LEMMA ServeHistory ==
  ASSUME TypeOK, QueueInv, RequestInv, NEW r \in Reqs, Serve(r)
  PROVE  HistoryTyped'
<1>0. HistoryTyped /\ req[r] \in Request
  BY TypeParts
<1>1. /\ fresh' \subseteq Sids /\ expired' \in BOOLEAN /\ ticks' \in 0..MaxTicks
      /\ crashes' \in 0..MaxCrashes
  BY <1>0, ServeMoves DEF HistoryTyped
<1> DEFINE Rest == /\ sockets' \subseteq Reqs
                   /\ evicted' \subseteq Sids
                   /\ early' \subseteq Sids
                   /\ claimed' \subseteq Reqs
                   /\ unset' \subseteq {"crash", "key"}
                   /\ disturbed' \in Undisturbed..Overlap
<1>2. CASE SignupStep(r)
  <2>1. req[r].sid \in Sids
    BY <1>2, SignupMoves DEF SignupStep, RequestInv
  <2>2. Rest
    BY <1>0, <1>2, <2>1 DEF HistoryTyped, SignupStep, SignupLoads, SignupHashes,
       SignupExists, SignupStored, SignupSetsTtl, SignupResponds, historyVars, Early
  <2>3. QED BY <1>1, <2>2 DEF HistoryTyped
<1>3. CASE LoginStep(r)
  <2>1. req[r].sid \in Sids /\ req[r].ids \subseteq Sids
    BY <1>0, <1>3, LoginMoves DEF LoginStep, RequestInv, Request
  <2>2. Rest
    BY <1>0, <1>3, <2>1 DEF HistoryTyped, LoginStep, LoginLoads, LoginReadsPassword,
       LoginCompares, LoginExists, LoginPopped, LoginReadded, LoginEvicted,
       LoginResponds, historyVars, Early
  <2>3. QED BY <1>1, <2>2 DEF HistoryTyped
<1>4. CASE LogoutStep(r)
  <2>1. Rest
    BY <1>0, <1>4 DEF HistoryTyped, LogoutStep, LogoutLoads, LogoutRemoved,
       LogoutCounts, LogoutCleared, LogoutResponds, historyVars
  <2>2. QED BY <1>1, <2>1 DEF HistoryTyped
<1>5. CASE DeleteStep(r)
  <2>1. Rest
    BY <1>0, <1>5 DEF HistoryTyped, DeleteStep, DeleteLoads, DeleteLists, DeleteRecords,
       DeleteSet, DeleteResponds, historyVars, Disturbs, Undisturbed, Deletion, Overlap
  <2>2. QED BY <1>1, <2>1 DEF HistoryTyped
<1>6. CASE RegisterStep(r)
  <2>1. Rest
    BY <1>0, <1>6 DEF HistoryTyped, RegisterStep, RegisterReads, RegisterConflicts,
       RegisterReturns, historyVars, WriteKeyField
  <2>2. QED BY <1>1, <2>1 DEF HistoryTyped
<1>7. CASE HandshakeStep(r)
  <2>1. Rest
    BY <1>0, <1>7 DEF HistoryTyped, HandshakeStep, HandshakeLoads, HandshakeJoins,
       historyVars
  <2>2. QED BY <1>1, <2>1 DEF HistoryTyped
<1>8. QED BY <1>2, <1>3, <1>4, <1>5, <1>6, <1>7 DEF Serve

\* Time keeps the types of Redis, and lowers every TTL but those that are unset.
LEMMA TickRedis ==
  ASSUME TypeOK, Tick
  PROVE  /\ RedisTyped'
         /\ user.ttl \in {Gone, NoTtl} => user' = user
         /\ user.ttl = 1 => user' = NoUser
         /\ user.ttl \notin {Gone, NoTtl, 1} =>
              /\ user'.ttl = user.ttl - 1
              /\ user'.password = user.password /\ user'.key = user.key
         /\ sessions.ttl = 1 => sessions' = NoSessions
         /\ sessions.ttl # 1 => sessions'.ids = sessions.ids
         /\ sessions.ttl \in {Gone, NoTtl} => sessions'.ttl = sessions.ttl
         /\ sessions.ttl \notin {Gone, NoTtl, 1} => sessions'.ttl = sessions.ttl - 1
         /\ \A s \in Sids : sess'[s] = IF sess[s] > 0 THEN sess[s] - 1 ELSE 0
<1>0. RedisTyped
  BY TypeParts
<1>1. \A t \in TtlValues :
        /\ t \in {Gone, NoTtl} <=> ~(t > 0)
        /\ t > 0 /\ t # 1 => t - 1 \in TtlValues \ {Gone, NoTtl}
  BY TtlAssumption DEF TtlValues, Gone, NoTtl
<1>2. /\ user' \in [ttl : TtlValues, password : BOOLEAN, key : BOOLEAN]
      /\ user'.ttl = Gone => user' = NoUser
      /\ user.ttl \in {Gone, NoTtl} => user' = user
      /\ user.ttl = 1 => user' = NoUser
      /\ user.ttl \notin {Gone, NoTtl, 1} =>
           /\ user'.ttl = user.ttl - 1
           /\ user'.password = user.password /\ user'.key = user.key
  <2>1. user \in [ttl : TtlValues, password : BOOLEAN, key : BOOLEAN]
    BY <1>0 DEF RedisTyped
  <2>2. CASE user.ttl = 1
    <3>1. user' = NoUser
      BY <2>2 DEF Tick
    <3>2. user.ttl \notin {Gone, NoTtl}
      BY <2>2 DEF Gone, NoTtl
    <3>3. QED BY <1>0, <2>2, <3>1, <3>2, UserFields
  <2>3. CASE user.ttl # 1 /\ user.ttl > 0
    <3>1. user' = [user EXCEPT !.ttl = user.ttl - 1]
      BY <2>3 DEF Tick
    <3>2. user.ttl - 1 \in TtlValues \ {Gone, NoTtl} /\ user.ttl \notin {Gone, NoTtl}
      BY <1>1, <2>1, <2>3
    <3>3. QED BY <2>1, <2>3, <3>1, <3>2
  <2>4. CASE user.ttl # 1 /\ ~(user.ttl > 0)
    <3>1. user' = user
      BY <2>1, <2>4 DEF Tick
    <3>2. user.ttl \in {Gone, NoTtl}
      BY <1>1, <2>1, <2>4
    <3>3. QED BY <1>0, <2>4, <3>1, <3>2 DEF RedisTyped
  <2>5. QED BY <2>2, <2>3, <2>4
<1>3. /\ sessions' \in [ttl : TtlValues, ids : SUBSET Sids]
      /\ sessions'.ttl = Gone <=> sessions'.ids = {}
      /\ sessions.ttl = 1 => sessions' = NoSessions
      /\ sessions.ttl # 1 => sessions'.ids = sessions.ids
      /\ sessions.ttl \in {Gone, NoTtl} => sessions'.ttl = sessions.ttl
      /\ sessions.ttl \notin {Gone, NoTtl, 1} => sessions'.ttl = sessions.ttl - 1
  <2>1. /\ sessions \in [ttl : TtlValues, ids : SUBSET Sids]
        /\ sessions.ttl = Gone <=> sessions.ids = {}
    BY <1>0 DEF RedisTyped
  <2>2. CASE sessions.ttl = 1
    <3>1. sessions' = NoSessions
      BY <2>2 DEF Tick
    <3>2. sessions.ttl \notin {Gone, NoTtl}
      BY <2>2 DEF Gone, NoTtl
    <3>3. QED BY <2>2, <3>1, <3>2, Numbers DEF NoSessions
  <2>3. CASE sessions.ttl # 1 /\ sessions.ttl > 0
    <3>1. sessions' = [sessions EXCEPT !.ttl = sessions.ttl - 1]
      BY <2>3 DEF Tick
    <3>2. /\ sessions.ttl - 1 \in TtlValues \ {Gone, NoTtl}
          /\ sessions.ttl \notin {Gone, NoTtl}
      BY <1>1, <2>1, <2>3
    <3>3. QED BY <2>1, <2>3, <3>1, <3>2
  <2>4. CASE sessions.ttl # 1 /\ ~(sessions.ttl > 0)
    <3>1. sessions' = sessions
      BY <2>1, <2>4 DEF Tick
    <3>2. sessions.ttl \in {Gone, NoTtl}
      BY <1>1, <2>1, <2>4
    <3>3. QED BY <2>1, <2>4, <3>1, <3>2
  <2>5. QED BY <2>2, <2>3, <2>4
<1>4. /\ sess' \in [Sids -> 0..Ttl]
      /\ \A s \in Sids : sess'[s] = IF sess[s] > 0 THEN sess[s] - 1 ELSE 0
  <2>1. sess' = [s \in Sids |-> IF sess[s] > 0 THEN sess[s] - 1 ELSE 0]
    BY DEF Tick
  <2>2. \A s \in Sids : (IF sess[s] > 0 THEN sess[s] - 1 ELSE 0) \in 0..Ttl
    BY <1>0, TtlAssumption DEF RedisTyped
  <2>3. QED BY <2>1, <2>2
<1>5. QED BY <1>2, <1>3, <1>4 DEF RedisTyped

\* The initial state has the types.
LEMMA InitTypes == Init => TypeOK
<1> SUFFICES ASSUME Init PROVE TypeOK
  OBVIOUS
<1>1. RedisTyped
  BY Numbers DEF Init, RedisTyped, NoUser, NoSessions
<1>2. HistoryTyped
  <2>1. /\ ticks \in 0..MaxTicks /\ crashes \in 0..MaxCrashes
        /\ disturbed \in Undisturbed..Overlap
    BY BoundsAssumption DEF Init, Undisturbed, Overlap
  <2>2. QED BY <2>1 DEF Init, HistoryTyped
<1>3. req \in [Reqs -> Request]
  BY DEF Init, Idle, Request
<1>4. replies \in Seq(Reqs)
  BY EmptySeq DEF Init
<1>5. QED BY <1>1, <1>2, <1>3, <1>4, TypeParts

\* And every step keeps them.
LEMMA NextTypes ==
  TypeOK /\ QueueInv /\ RequestInv /\ [Next]_vars => TypeOK'
<1> SUFFICES ASSUME TypeOK, QueueInv, RequestInv, [Next]_vars PROVE TypeOK'
  OBVIOUS
<1>0. /\ RedisTyped /\ HistoryTyped /\ req \in [Reqs -> Request] /\ replies \in Seq(Reqs)
      /\ TypeOK' <=> /\ RedisTyped'
                     /\ HistoryTyped'
                     /\ req' \in [Reqs -> Request]
                     /\ replies' \in Seq(Reqs)
  BY TypeParts DEF TypeOK, RedisTyped, HistoryTyped, Request
<1>1. UNCHANGED redisVars => RedisTyped'
  BY <1>0 DEF redisVars, RedisTyped
<1>2. ASSUME NEW r \in Reqs, NEW k \in Kinds, NEW s \in Sids, StartRequest(r, k, s)
      PROVE  TypeOK'
  <2>1. HistoryTyped'
    BY <1>0, <1>2 DEF StartRequest, HistoryTyped, boundVars, Undisturbed, Overlap
  <2>2. QED
    BY <1>0, <1>1, <1>2, <2>1, ArriveMoves DEF StartRequest, QueueStep, Begins
<1>3. ASSUME NEW r \in Reqs, NEW c \in sockets, StartRegister(r, c) PROVE TypeOK'
  <2>1. HistoryTyped'
    BY <1>0, <1>3 DEF StartRegister, HistoryTyped, boundVars, Undisturbed, Overlap
  <2>2. QED
    BY <1>0, <1>1, <1>3, <2>1, ArriveMoves DEF StartRegister, QueueStep, Begins
<1>4. ASSUME NEW r \in Reqs, Serve(r) PROVE TypeOK'
  BY <1>0, <1>4, ServeRedis, ServeHistory, ServeMoves DEF QueueStep
<1>5. ASSUME NEW r \in Reqs, SocketCloses(r) PROVE TypeOK'
  <2>1. HistoryTyped'
    BY <1>0, <1>5 DEF SocketCloses, HistoryTyped, boundVars, historyVars
  <2>2. QED BY <1>0, <1>1, <1>5, <2>1 DEF SocketCloses
<1>6. CASE Tick
  <2>1. HistoryTyped'
    <3>1. ticks' \in 0..MaxTicks
      BY <1>0, <1>6, BoundsAssumption DEF Tick, HistoryTyped
    <3>2. expired' \in BOOLEAN
      BY <1>6 DEF Tick
    <3>3. disturbed' \in Undisturbed..Overlap /\ claimed' \subseteq Reqs
      BY <1>0, <1>6 DEF Tick, HistoryTyped, Disturbs, Undisturbed, Interruption, Overlap
    <3>4. QED BY <1>0, <1>6, <3>1, <3>2, <3>3 DEF Tick, HistoryTyped
  <2>2. QED BY <1>0, <1>6, <2>1, TickRedis DEF Tick
<1>7. CASE ExpiryEvent
  <2>1. HistoryTyped'
    BY <1>0, <1>7 DEF ExpiryEvent, HistoryTyped, boundVars, historyVars
  <2>2. QED BY <1>0, <1>1, <1>7, <2>1 DEF ExpiryEvent
<1>8. CASE Crash
  <2>1. HistoryTyped'
    <3>1. crashes' \in 0..MaxCrashes
      BY <1>0, <1>8, BoundsAssumption DEF Crash, HistoryTyped
    <3>2. disturbed' \in Undisturbed..Overlap
      BY <1>0, <1>8 DEF Crash, HistoryTyped, Disturbs, Undisturbed, Interruption, Overlap
    <3>3. unset' \subseteq {"crash", "key"}
      BY <1>0, <1>8 DEF Crash, HistoryTyped
    <3>4. QED BY <1>0, <1>8, <3>1, <3>2, <3>3 DEF Crash, HistoryTyped
  <2>2. replies' \in Seq(Reqs)
    BY <1>8, EmptySeq DEF Crash
  <2>3. QED BY <1>0, <1>1, <1>8, <2>1, <2>2, CrashMoves DEF Crash
<1>9. CASE UNCHANGED vars
  BY <1>0, <1>9 DEF vars, RedisTyped, HistoryTyped
<1>10. QED BY <1>2, <1>3, <1>4, <1>5, <1>6, <1>7, <1>8, <1>9, Steps

\* The types, the queue and the requests.
Typed == TypeOK /\ QueueInv /\ RequestInv

LEMMA TypedInv == Spec => []Typed
<1>1. Init => Typed
  BY InitTypes, InitQueue, InitRequest DEF Typed
<1>2. Typed /\ [Next]_vars => Typed'
  BY NextTypes, NextQueue, NextRequest DEF Typed
<1>3. QED BY <1>1, <1>2, PTL DEF Spec

\* TypeOK: what Redis, the backend's requests and its sockets can hold.
THEOREM TypeCorrect == Spec => []TypeOK
<1>1. Typed => TypeOK
  BY DEF Typed
<1>2. QED BY <1>1, TypedInv, PTL

-----------------------------------------------------------------------------
(* The TTL of user:<name>.                                                   *)

SignsUp(q) == q.kind = "signup" /\ q.pc \in {"hset", "sadd"}

LEMMA SigningUpRequests == SigningUp <=> \E r \in Reqs : SignsUp(req[r])
BY DEF SigningUp, SignsUp, Active, Waiting

\* What a step of a request does to the TTL.
LEMMA ServeTtl ==
  ASSUME Typed, NEW r \in Reqs, Serve(r)
  PROVE  \/ user'.ttl # NoTtl
         \/ unset' # {}
         \/ SignsUp(req'[r])
         \/ user'.ttl = user.ttl /\ unset' = unset /\ ~SignsUp(req[r])
<1> DEFINE Goal == \/ user'.ttl # NoTtl
                   \/ unset' # {}
                   \/ SignsUp(req'[r])
                   \/ user'.ttl = user.ttl /\ unset' = unset /\ ~SignsUp(req[r])
<1>0. TypeOK /\ QueueInv /\ user \in [ttl : TtlValues, password : BOOLEAN, key : BOOLEAN]
  BY DEF Typed, TypeOK
<1>1. CASE SignupStep(r)
  <2>1. CASE SignupLoads(r) \/ SignupHashes(r) \/ SignupResponds(r)
    BY <1>0, <2>1, SignupMoves DEF SignsUp, SignupLoads, SignupHashes, SignupResponds,
       redisVars, historyVars
  <2>2. CASE SignupExists(r)
    <3>1. CASE req[r].found
      BY <1>0, <2>2, <3>1, SignupMoves DEF SignsUp, SignupExists, historyVars
    <3>2. CASE ~req[r].found
      BY <1>0, <2>2, <3>2, SignupMoves DEF SignsUp, Goes
    <3>3. QED BY <3>1, <3>2
  <2>3. CASE SignupStored(r)
    BY <1>0, <2>3, SignupMoves DEF SignsUp, Goes
  <2>4. CASE SignupSetsTtl(r)
    BY <1>0, <2>4, Numbers DEF SignupSetsTtl, SetUserTtl
  <2>5. QED BY <1>1, <2>1, <2>2, <2>3, <2>4 DEF SignupStep
<1>2. CASE LoginStep(r)
  BY <1>0, <1>2, LoginMoves DEF SignsUp, LoginStep, LoginLoads, LoginReadsPassword,
     LoginCompares, LoginExists, LoginPopped, LoginReadded, LoginEvicted, LoginResponds,
     redisVars, historyVars
<1>3. CASE LogoutStep(r)
  BY <1>0, <1>3, LogoutMoves DEF SignsUp, LogoutStep, LogoutLoads, LogoutRemoved,
     LogoutCounts, LogoutCleared, LogoutResponds, redisVars, historyVars
<1>4. CASE DeleteStep(r)
  <2>1. NoUser.ttl # NoTtl
    BY DEF NoUser, Gone, NoTtl
  <2>2. QED
    BY <1>0, <1>4, <2>1, DeleteMoves DEF SignsUp, DeleteStep, DeleteLoads, DeleteLists,
       DeleteRecords, DeleteSet, DeleteResponds, redisVars, historyVars
<1>5. CASE RegisterStep(r)
  <2>1. req[r].kind = "register"
    BY <1>0, <1>5, RegisterMoves DEF RegisterStep
  <2>2. CASE \E key \in BOOLEAN : WriteKeyField(key)
    <3>1. CASE user.ttl = Gone
      BY <2>2, <3>1 DEF WriteKeyField
    <3>2. CASE user.ttl # Gone
      BY <1>0, <2>1, <2>2, <3>2 DEF WriteKeyField, Created, SignsUp
    <3>3. QED BY <3>1, <3>2
  <2>3. CASE UNCHANGED <<user, unset>>
    BY <2>1, <2>3 DEF SignsUp
  <2>4. QED
    BY <1>5, <2>2, <2>3 DEF RegisterStep, RegisterReads, RegisterConflicts,
       RegisterReturns, redisVars, historyVars
<1>6. CASE HandshakeStep(r)
  <2>1. req[r].kind = "handshake"
    BY <1>6, HandshakeMoves DEF HandshakeStep, HandshakeJoins, Typed, RequestInv
  <2>2. QED
    BY <1>6, <2>1 DEF SignsUp, HandshakeStep, HandshakeLoads, HandshakeJoins,
       redisVars, historyVars
<1>7. QED BY <1>1, <1>2, <1>3, <1>4, <1>5, <1>6 DEF Serve

\* UserTtlAccounted: a name is without a TTL only within a sign-up, after one that
\* a crash cut off, or after a key was registered on a user that was gone.
THEOREM UserTtlAccountedCorrect == Spec => []UserTtlAccounted
<1>1. Init => UserTtlAccounted
  BY DEF Init, NoUser, UserTtlAccounted, Gone, NoTtl
<1>2. Typed /\ UserTtlAccounted /\ [Next]_vars => UserTtlAccounted'
  <2> SUFFICES ASSUME Typed, UserTtlAccounted, [Next]_vars, user'.ttl = NoTtl,
                      unset' = {}
               PROVE  \E r \in Reqs : SignsUp(req'[r])
    <3>1. SigningUp' <=> \E r \in Reqs : SignsUp(req'[r])
      BY DEF SigningUp, SignsUp, Active, Waiting
    <3>2. QED BY <3>1 DEF UserTtlAccounted
  <2>0. /\ TypeOK /\ QueueInv
        /\ user.ttl = NoTtl /\ unset = {} => \E r \in Reqs : SignsUp(req[r])
    BY SigningUpRequests DEF Typed, UserTtlAccounted
  <2>1. ASSUME NEW r \in Reqs, \A k \in Reqs \ {r} : req'[k] = req[k],
               ~SignsUp(req[r]), user' = user, unset' = unset
        PROVE  \E k \in Reqs : SignsUp(req'[k])
    BY <2>0, <2>1
  <2>2. ASSUME NEW r \in Reqs, NEW k \in Kinds, NEW s \in Sids, StartRequest(r, k, s)
        PROVE  \E n \in Reqs : SignsUp(req'[n])
    <3>1. ~SignsUp(req[r]) /\ \A n \in Reqs \ {r} : req'[n] = req[n]
      <4>1. req[r] = Idle /\ Begins(r, k, "load", s, sess[s] > 0, FALSE)
        BY <2>0, <2>2, ArriveMoves
      <4>2. QED BY <4>1 DEF Begins, SignsUp, Idle
    <3>2. user' = user /\ unset' = unset
      BY <2>2 DEF StartRequest, redisVars
    <3>3. QED BY <2>1, <3>1, <3>2
  <2>3. ASSUME NEW r \in Reqs, NEW c \in sockets, StartRegister(r, c)
        PROVE  \E n \in Reqs : SignsUp(req'[n])
    <3>1. ~SignsUp(req[r]) /\ \A n \in Reqs \ {r} : req'[n] = req[n]
      <4>1. req[r] = Idle /\ Begins(r, "register", "hget", "none", FALSE, user.key)
        BY <2>0, <2>3, ArriveMoves
      <4>2. QED BY <4>1 DEF Begins, SignsUp, Idle
    <3>2. user' = user /\ unset' = unset
      BY <2>3 DEF StartRegister, redisVars
    <3>3. QED BY <2>1, <3>1, <3>2
  <2>4. ASSUME NEW r \in Reqs, Serve(r) PROVE \E k \in Reqs : SignsUp(req'[k])
    <3>1. \A k \in Reqs \ {r} : req'[k] = req[k]
      BY <2>0, <2>4, ServeMoves
    <3>2. QED BY <2>0, <2>4, <3>1, ServeTtl
  <2>5. CASE Tick
    <3>1. user.ttl = NoTtl
      <4>1. user.ttl \in TtlValues /\ NoUser.ttl # NoTtl
        BY <2>0 DEF TypeOK, NoUser, Gone, NoTtl
      <4>2. CASE user.ttl \notin {Gone, NoTtl, 1}
        BY <2>0, <2>5, <4>1, <4>2, TickRedis, Numbers DEF NoTtl
      <4>3. QED BY <2>0, <2>5, <4>1, <4>2, TickRedis
    <3>2. QED BY <2>0, <2>5, <3>1 DEF Tick
  <2>6. CASE Crash
    BY <2>0, <2>6 DEF Crash, SignsUp, Active, Waiting, redisVars
  <2>7. CASE UNCHANGED <<user, req, unset>>
    BY <2>0, <2>7
  <2>8. QED
    BY <2>2, <2>3, <2>4, <2>5, <2>6, <2>7, Steps
       DEF SocketCloses, ExpiryEvent, vars, redisVars, historyVars
<1>3. QED BY <1>1, <1>2, TypedInv, PTL DEF Spec

-----------------------------------------------------------------------------
(* Identifiers: who writes a session's record, and who deletes it.           *)

\* What a step of a request does to identifiers: it adds its own to the set
\* only for a login or a sign-up, and no record appears but that of one which
\* had none and responds.
LEMMA ServeSids ==
  ASSUME Typed, NEW r \in Reqs, Serve(r)
  PROVE  /\ req'[r].ids \subseteq req[r].ids \cup sessions.ids
         /\ sessions'.ids \subseteq sessions.ids \cup {req[r].sid}
         /\ ~(sessions'.ids \subseteq sessions.ids) =>
              /\ req[r].kind \in {"signup", "login"}
              /\ \/ req[r].loaded
                 \/ req[r].sid \in early'
                 \/ req[r].kind = "login" /\ req'[r].pc = "sadd"
         /\ early \subseteq early' /\ evicted \subseteq evicted'
         /\ evicted' # evicted =>
              /\ req[r].kind = "login" /\ req[r].pc = "spop"
              /\ replies # <<>> /\ Head(replies) = r
              /\ evicted' = evicted \cup req[r].ids
              /\ \A s \in req[r].ids : sess'[s] = 0
         /\ \A s \in Sids : sess[s] = 0 /\ sess'[s] # 0 =>
              /\ s = req[r].sid
              /\ ~req[r].loaded
              /\ req[r].kind \in {"signup", "login"}
              /\ req'[r].pc = "over"
              /\ evicted' = evicted
         /\ req'[r].kind = "login" /\ req'[r].pc = "spop" => req'[r].ids \subseteq sessions.ids
         /\ req[r].kind = "login" /\ req[r].pc = "sadd" => req'[r].pc = "over"
<1> DEFINE Seen == req'[r].ids \subseteq req[r].ids \cup sessions.ids
           Members == /\ sessions'.ids \subseteq sessions.ids \cup {req[r].sid}
                      /\ ~(sessions'.ids \subseteq sessions.ids) =>
                           /\ req[r].kind \in {"signup", "login"}
                           /\ \/ req[r].loaded
                              \/ req[r].sid \in early'
                              \/ req[r].kind = "login" /\ req'[r].pc = "sadd"
           Evicts == /\ early \subseteq early' /\ evicted \subseteq evicted'
                     /\ evicted' # evicted =>
                          /\ req[r].kind = "login" /\ req[r].pc = "spop"
                          /\ replies # <<>> /\ Head(replies) = r
                          /\ evicted' = evicted \cup req[r].ids
                          /\ \A s \in req[r].ids : sess'[s] = 0
           Writes == \A s \in Sids : sess[s] = 0 /\ sess'[s] # 0 =>
                       /\ s = req[r].sid
                       /\ ~req[r].loaded
                       /\ req[r].kind \in {"signup", "login"}
                       /\ req'[r].pc = "over"
                       /\ evicted' = evicted
           Pops == /\ req'[r].kind = "login" /\ req'[r].pc = "spop" =>
                        req'[r].ids \subseteq sessions.ids
                   /\ req[r].kind = "login" /\ req[r].pc = "sadd" => req'[r].pc = "over"
<1>0. /\ TypeOK /\ QueueInv /\ RequestInv /\ req[r] \in Request
      /\ req[r].ids \subseteq Sids /\ sessions.ids \subseteq Sids
      /\ sess \in [Sids -> 0..Ttl]
      /\ sessions \in [ttl : TtlValues, ids : SUBSET Sids]
  BY DEF Typed, TypeOK, Request
<1>1. /\ \A s \in Sids : AddSession(s).ids = sessions.ids \cup {s}
      /\ \A s \in Sids : RemoveSession(s).ids = sessions.ids \ {s}
      /\ NoSessions.ids = {}
      /\ \A s \in Sids, t \in Sids : Touched(s)[t] # 0 => sess[t] # 0
      /\ \A s \in Sids, t \in Sids : [sess EXCEPT ![s] = 0][t] # 0 => sess[t] # 0
      /\ \A s \in Sids, t \in Sids : [sess EXCEPT ![s] = Ttl][t] # 0 => sess[t] # 0 \/ t = s
  BY <1>0, SetOfSessions DEF NoSessions, Touched
<1>2. UNCHANGED sess => Writes
  OBVIOUS
<1>3. CASE SignupStep(r)
  <2>1. req[r].kind = "signup" /\ req[r].sid \in Sids
    BY <1>0, <1>3, SignupMoves DEF SignupStep, RequestInv
  <2>2. Seen /\ Pops
    BY <1>0, <1>3, <2>1, SignupMoves, ServeMoves DEF SignupStep, Goes, Ends
  <2>3. Members
    <3>1. CASE SignupStored(r)
      BY <1>1, <2>1, <3>1 DEF SignupStored, Early
    <3>2. CASE UNCHANGED sessions
      BY <3>2
    <3>3. CASE SignupSetsTtl(r)
      BY <1>0, <3>3 DEF SignupSetsTtl
    <3>4. QED
      BY <1>3, <3>1, <3>2, <3>3 DEF SignupStep, SignupLoads, SignupHashes, SignupExists,
         SignupResponds, redisVars
  <2>4. Evicts
    BY <1>3 DEF SignupStep, SignupLoads, SignupHashes, SignupExists, SignupStored,
       SignupSetsTtl, SignupResponds, historyVars, Early
  <2>5. Writes
    <3>1. CASE SignupExists(r)
      BY <1>0, <1>1, <2>1, <3>1 DEF SignupExists, Fail
    <3>2. CASE SignupResponds(r)
      <4>1. req'[r].pc = "over"
        BY <1>0, <3>2, SignupMoves DEF Ends
      <4>2. QED BY <1>1, <2>1, <3>2, <4>1 DEF SignupResponds, Respond, Saved
    <3>3. CASE UNCHANGED sess
      BY <3>3
    <3>4. QED
      BY <1>3, <3>1, <3>2, <3>3 DEF SignupStep, SignupLoads, SignupHashes, SignupStored,
         SignupSetsTtl, redisVars
  <2>6. QED BY <2>2, <2>3, <2>4, <2>5
<1>4. CASE LoginStep(r)
  <2>1. req[r].kind = "login" /\ req[r].sid \in Sids /\ req'[r].kind = "login"
    BY <1>0, <1>4, LoginMoves, ServeMoves DEF LoginStep, RequestInv
  <2>2. Seen /\ Pops
    <3>1. CASE LoginExists(r)
      BY <1>0, <3>1, LoginMoves DEF Goes
    <3>2. CASE LoginLoads(r) \/ LoginReadsPassword(r) \/ LoginCompares(r)
      BY <1>0, <3>2, LoginMoves DEF Goes, Ends
    <3>3. CASE LoginPopped(r) \/ LoginReadded(r) \/ LoginEvicted(r) \/ LoginResponds(r)
      BY <1>0, <3>3, LoginMoves DEF Goes, Ends
    <3>4. QED BY <1>4, <3>1, <3>2, <3>3 DEF LoginStep
  <2>3. Members
    <3>1. CASE LoginPopped(r)
      BY <1>1, <2>1, <3>1 DEF LoginPopped, Early
    <3>2. ASSUME CreateSession(r), req'[r].pc = "sadd" PROVE Members
      BY <1>1, <2>1, <3>2 DEF CreateSession
    <3>3. CASE LoginReadded(r) \/ LoginEvicted(r)
      BY <1>0, <3>2, <3>3, LoginMoves DEF LoginReadded, LoginEvicted, Goes
    <3>4. CASE LoginExists(r)
      <4>1. CASE req[r].found
        <5>1. \A s \in sessions.ids : RemoveSession(s).ids \subseteq sessions.ids
          BY <1>0, <1>1
        <5>2. sessions' = sessions \/ \E s \in sessions.ids : sessions' = RemoveSession(s)
          BY <3>4, <4>1 DEF LoginExists
        <5>3. QED BY <5>1, <5>2
      <4>2. CASE ~req[r].found
        <5>1. req'[r].pc = "sadd" /\ CreateSession(r)
          BY <1>0, <3>4, <4>2, LoginMoves DEF Goes, LoginExists
        <5>2. QED BY <3>2, <5>1
      <4>3. QED BY <4>1, <4>2
    <3>5. CASE UNCHANGED sessions
      BY <3>5
    <3>6. QED
      BY <1>4, <3>1, <3>3, <3>4, <3>5 DEF LoginStep, LoginLoads, LoginReadsPassword,
         LoginCompares, LoginResponds, redisVars
  <2>4. Evicts
    <3>1. CASE LoginPopped(r)
      BY <1>0, <3>1 DEF LoginPopped, Resumes, Early
    <3>2. CASE UNCHANGED <<evicted, early>>
      BY <3>2
    <3>3. QED
      BY <1>4, <3>1, <3>2 DEF LoginStep, LoginLoads, LoginReadsPassword, LoginCompares,
         LoginExists, LoginReadded, LoginEvicted, LoginResponds, historyVars
  <2>5. Writes
    <3>1. CASE LoginReadsPassword(r)
      BY <1>0, <1>1, <2>1, <3>1 DEF LoginReadsPassword, Fail
    <3>2. CASE LoginPopped(r)
      BY <1>0, <3>2 DEF LoginPopped
    <3>3. CASE LoginResponds(r)
      <4>1. req'[r].pc = "over"
        BY <1>0, <3>3, LoginMoves DEF Ends
      <4>2. QED BY <1>1, <2>1, <3>3, <4>1 DEF LoginResponds, Respond, Saved, historyVars
    <3>4. CASE UNCHANGED sess
      BY <3>4
    <3>5. QED
      BY <1>4, <3>1, <3>2, <3>3, <3>4 DEF LoginStep, LoginLoads, LoginCompares,
         LoginExists, LoginReadded, LoginEvicted, redisVars
  <2>6. QED BY <2>2, <2>3, <2>4, <2>5
<1>5. CASE LogoutStep(r)
  <2>1. req[r].kind = "logout" /\ req'[r].kind = "logout" /\ req[r].sid \in Sids
    BY <1>0, <1>5, LogoutMoves, ServeMoves DEF LogoutStep, RequestInv
  <2>2. Seen /\ Pops
    BY <1>0, <1>5, <2>1, LogoutMoves DEF LogoutStep, Goes, Ends
  <2>3. Members
    BY <1>1, <1>5, <2>1 DEF LogoutStep, LogoutLoads, LogoutRemoved, LogoutCounts,
       LogoutCleared, LogoutResponds, redisVars
  <2>4. Evicts
    BY <1>5 DEF LogoutStep, LogoutLoads, LogoutRemoved, LogoutCounts,
       LogoutCleared, LogoutResponds, historyVars
  <2>5. Writes
    <3>1. UNCHANGED sess \/ sess' = [sess EXCEPT ![req[r].sid] = 0]
      BY <1>5 DEF LogoutStep, LogoutLoads, LogoutRemoved, LogoutCounts,
         LogoutCleared, LogoutResponds, redisVars, Unauthenticated
    <3>2. \A s \in Sids : sess'[s] # 0 => sess[s] # 0
      BY <1>0, <2>1, <3>1
    <3>3. QED BY <3>2
  <2>6. QED BY <2>2, <2>3, <2>4, <2>5
<1>6. CASE DeleteStep(r)
  <2>1. req[r].kind = "delete" /\ req'[r].kind = "delete" /\ req[r].sid \in Sids
    BY <1>0, <1>6, DeleteMoves, ServeMoves DEF DeleteStep, RequestInv
  <2>2. Seen /\ Pops
    BY <1>0, <1>6, <2>1, DeleteMoves DEF DeleteStep, Goes, Ends
  <2>3. Members
    BY <1>1, <1>6, <2>1 DEF DeleteStep, DeleteLoads, DeleteLists, DeleteRecords,
       DeleteSet, DeleteResponds, redisVars
  <2>4. Evicts
    BY <1>6 DEF DeleteStep, DeleteLoads, DeleteLists, DeleteRecords,
       DeleteSet, DeleteResponds, historyVars
  <2>5. Writes
    BY <1>0, <1>1, <1>6, <2>1 DEF DeleteStep, DeleteLoads, DeleteLists, DeleteRecords,
       DeleteSet, DeleteResponds, redisVars, Unauthenticated, Fail
  <2>6. QED BY <2>2, <2>3, <2>4, <2>5
<1>7. CASE RegisterStep(r)
  <2>1. req[r].kind = "register" /\ req'[r].kind = "register"
    BY <1>0, <1>7, RegisterMoves, ServeMoves DEF RegisterStep
  <2>2. Seen /\ Pops
    BY <1>0, <1>7, <2>1, RegisterMoves DEF RegisterStep, Goes, Ends
  <2>3. Members /\ Evicts /\ Writes
    BY <1>7 DEF RegisterStep, RegisterReads, RegisterConflicts, RegisterReturns,
       redisVars, historyVars
  <2>4. QED BY <2>2, <2>3
<1>8. CASE HandshakeStep(r)
  <2>1. req[r].kind = "handshake" /\ req'[r].kind = "handshake"
    BY <1>0, <1>8, HandshakeMoves, ServeMoves DEF HandshakeStep, HandshakeJoins, RequestInv
  <2>2. Seen /\ Pops
    BY <1>0, <1>8, <2>1, HandshakeMoves DEF HandshakeStep, Goes, Ends
  <2>3. Members /\ Evicts /\ Writes
    BY <1>8 DEF HandshakeStep, HandshakeLoads, HandshakeJoins, redisVars, historyVars
  <2>4. QED BY <2>2, <2>3
<1>9. QED BY <1>3, <1>4, <1>5, <1>6, <1>7, <1>8 DEF Serve

\* An identifier that has not been generated is nowhere.
FreshInv ==
  \A s \in fresh :
    /\ sess[s] = 0
    /\ s \notin sessions.ids
    /\ s \notin evicted
    /\ \A r \in Reqs : req[r].sid # s /\ s \notin req[r].ids

\* A login or sign-up that came without a session has an identifier of its own.
Writes(r) ==
  /\ req[r].pc \in Waiting \cup Elsewhere
  /\ req[r].kind \in {"signup", "login"}
  /\ ~req[r].loaded

OwnInv ==
  \A r \in Reqs : Writes(r) =>
    /\ sess[req[r].sid] = 0
    /\ \A k \in Reqs \ {r} : req[k].sid = req[r].sid => req[k].kind \notin {"signup", "login"}

\* An identifier whose record is to be written gets into the set by the SADD
\* before the response: a login that pops it does so behind that command.
Written(r) == req[r].kind = "login" /\ req[r].pc = "sadd"

FinalInv ==
  \A r \in Reqs : Writes(r) /\ req[r].sid \notin early =>
    /\ req[r].sid \in sessions.ids => Written(r)
    /\ req[r].sid \notin evicted
    /\ \A n \in Reqs : req[n].kind = "login" /\ req[n].pc = "spop"
                       /\ req[r].sid \in req[n].ids =>
         Written(r) /\ Before(r, n, replies)

SidInv == FreshInv /\ OwnInv /\ FinalInv

\* Requests that go on writing.
LEMMA ServeWrites ==
  ASSUME Typed, NEW r \in Reqs, Serve(r)
  PROVE  /\ \A k \in Reqs : Writes(k)' => Writes(k)
         /\ \A k \in Reqs : req'[k].sid = req[k].sid /\ req'[k].kind = req[k].kind
<1>1. /\ \A k \in Reqs \ {r} : req'[k] = req[k]
      /\ req[r].pc \in Waiting \cup Elsewhere
      /\ req'[r].kind = req[r].kind
      /\ req'[r].sid = req[r].sid
      /\ req'[r].pc # "over" => req'[r].loaded = req[r].loaded
  BY ServeMoves DEF Typed, Active
<1>2. \A k \in Reqs : Writes(k)' => Writes(k)
  <2> SUFFICES ASSUME NEW k \in Reqs, Writes(k)' PROVE Writes(k)
    OBVIOUS
  <2>1. CASE k = r
    BY <1>1, <2>1 DEF Writes, Waiting, Elsewhere
  <2>2. CASE k # r
    BY <1>1, <2>2 DEF Writes
  <2>3. QED BY <2>1, <2>2
<1>3. QED BY <1>1, <1>2

LEMMA InitSids == Init => SidInv
<1> SUFFICES ASSUME Init PROVE SidInv
  OBVIOUS
<1>1. FreshInv
  BY SidsAssumption DEF Init, FreshInv, Idle, NoSessions
<1>2. \A r \in Reqs : ~Writes(r)
  BY DEF Init, Writes, Idle, Waiting, Elsewhere
<1>3. QED BY <1>1, <1>2 DEF SidInv, OwnInv, FinalInv

LEMMA ServeKeepsSids ==
  ASSUME Typed, SidInv, NEW r \in Reqs, Serve(r)
  PROVE  SidInv'
<1>0. /\ TypeOK /\ QueueInv /\ FreshInv /\ OwnInv /\ FinalInv
      /\ \A k \in Reqs : req[k].pc \in Waiting \cup Elsewhere
                         /\ req[k].kind \in {"signup", "login"} => req[k].sid \in Sids
  BY DEF Typed, SidInv, RequestInv
<1>1. /\ QueueStep(r)
      /\ \A k \in Reqs \ {r} : req'[k] = req[k]
      /\ UNCHANGED fresh
  BY ServeMoves DEF Typed
<1>2. /\ \A k \in Reqs : Writes(k)' => Writes(k)
      /\ \A k \in Reqs : req'[k].sid = req[k].sid /\ req'[k].kind = req[k].kind
  BY ServeWrites
<1>3. FreshInv'
  <2> SUFFICES ASSUME NEW s \in fresh
               PROVE  /\ sess'[s] = 0
                      /\ s \notin sessions'.ids
                      /\ s \notin evicted'
                      /\ \A k \in Reqs : req'[k].sid # s /\ s \notin req'[k].ids
    BY <1>1 DEF FreshInv
  <2>1. /\ s \in Sids
        /\ sess[s] = 0
        /\ s \notin sessions.ids
        /\ s \notin evicted
        /\ \A k \in Reqs : req[k].sid # s /\ s \notin req[k].ids
    BY <1>0 DEF FreshInv, TypeOK
  <2>2. sess'[s] = 0 /\ s \notin sessions'.ids /\ s \notin evicted'
    BY <2>1, ServeSids
  <2>3. s \notin req'[r].ids
    BY <2>1, ServeSids
  <2>4. QED BY <1>1, <1>2, <2>1, <2>2, <2>3
<1>4. OwnInv'
  <2> SUFFICES ASSUME NEW k \in Reqs, Writes(k)'
               PROVE  /\ sess'[req[k].sid] = 0
                      /\ \A n \in Reqs \ {k} : req'[n].sid = req[k].sid =>
                           req'[n].kind \notin {"signup", "login"}
    BY <1>2 DEF OwnInv
  <2>1. /\ sess[req[k].sid] = 0 /\ req[k].sid \in Sids
        /\ req[k].kind \in {"signup", "login"}
        /\ \A n \in Reqs \ {k} : req[n].sid = req[k].sid =>
             req[n].kind \notin {"signup", "login"}
    BY <1>0, <1>2 DEF OwnInv, Writes
  <2>2. sess'[req[k].sid] = 0
    <3>1. SUFFICES ASSUME sess'[req[k].sid] # 0 PROVE FALSE
      OBVIOUS
    <3>2. /\ req[r].sid = req[k].sid /\ req[r].kind \in {"signup", "login"}
          /\ req'[r].pc = "over"
      BY <2>1, <3>1, ServeSids
    <3>3. k # r
      BY <3>2 DEF Writes, Waiting, Elsewhere
    <3>4. QED BY <2>1, <3>2, <3>3
  <2>3. QED BY <1>2, <2>1, <2>2
<1>5. FinalInv'
  <2> SUFFICES ASSUME NEW k \in Reqs, Writes(k)', req[k].sid \notin early'
               PROVE  /\ req[k].sid \in sessions'.ids => Written(k)'
                      /\ req[k].sid \notin evicted'
                      /\ \A n \in Reqs : req'[n].kind = "login" /\ req'[n].pc = "spop"
                                         /\ req[k].sid \in req'[n].ids =>
                           Written(k)' /\ Before(k, n, replies')
    BY <1>2 DEF FinalInv
  <2> DEFINE s == req[k].sid
  <2>1. /\ Writes(k) /\ s \notin early
        /\ s \in sessions.ids => Written(k)
        /\ s \notin evicted
        /\ \A n \in Reqs : req[n].kind = "login" /\ req[n].pc = "spop"
                           /\ s \in req[n].ids =>
             Written(k) /\ Before(k, n, replies)
        /\ \A n \in Reqs \ {k} : req[n].sid = s => req[n].kind \notin {"signup", "login"}
    BY <1>0, <1>2, ServeSids DEF FinalInv, OwnInv
  <2>2. Written(k) => k # r /\ Written(k)' /\ k \in Range(replies)
    <3> SUFFICES ASSUME Written(k)
                 PROVE  k # r /\ Written(k)' /\ k \in Range(replies)
      OBVIOUS
    <3>1. k # r
      BY ServeSids DEF Written, Writes, Waiting, Elsewhere
    <3>2. "sadd" \in Waiting
      BY DEF Waiting
    <3>3. QED BY <1>0, <1>1, <3>1, <3>2 DEF Written, QueueInv
  <2>3. s \in sessions'.ids => Written(k)'
    <3> SUFFICES ASSUME s \in sessions'.ids PROVE Written(k)'
      OBVIOUS
    <3>1. CASE s \in sessions.ids
      BY <2>1, <2>2, <3>1
    <3>2. CASE s \notin sessions.ids
      <4>1. /\ s = req[r].sid /\ req[r].kind \in {"signup", "login"}
            /\ \/ req[r].loaded
               \/ req[r].sid \in early'
               \/ req[r].kind = "login" /\ req'[r].pc = "sadd"
        BY <3>2, ServeSids
      <4>2. k = r
        BY <2>1, <4>1
      <4>3. ~req[r].loaded
        BY <2>1, <4>2 DEF Writes
      <4>4. QED BY <1>2, <4>1, <4>2, <4>3 DEF Written
    <3>3. QED BY <3>1, <3>2
  <2>4. s \notin evicted'
    <3>1. SUFFICES ASSUME s \in evicted' PROVE FALSE
      OBVIOUS
    <3>2. /\ req[r].kind = "login" /\ req[r].pc = "spop" /\ s \in req[r].ids
          /\ replies # <<>> /\ Head(replies) = r
      BY <2>1, <3>1, ServeSids
    <3>3. Before(k, r, replies)
      BY <2>1, <3>2
    <3>4. QED BY <1>0, <3>2, <3>3, LeaveQueue DEF TypeOK, QueueInv
  <2>5. ASSUME NEW n \in Reqs, req'[n].kind = "login", req'[n].pc = "spop",
               s \in req'[n].ids
        PROVE  Written(k)' /\ Before(k, n, replies')
    <3>1. CASE n = r
      <4>1. s \in sessions.ids
        BY <2>5, <3>1, ServeSids
      <4>2. k # r /\ Written(k)' /\ k \in Range(replies)
        BY <2>1, <2>2, <4>1
      <4>3. r \in Range(replies')
        <5>1. req'[r].pc \in Waiting
          BY <2>5, <3>1 DEF Waiting
        <5>2. QED BY <1>1, <5>1 DEF QueueStep
      <4>4. QED BY <1>1, <3>1, <4>2, <4>3 DEF QueueStep
    <3>2. CASE n # r
      <4>1. Written(k) /\ Before(k, n, replies)
        BY <1>1, <2>1, <2>5, <3>2
      <4>2. QED BY <1>1, <2>2, <3>2, <4>1 DEF QueueStep
    <3>3. QED BY <3>1, <3>2
  <2>6. QED BY <2>3, <2>4, <2>5
<1>6. QED BY <1>3, <1>4, <1>5 DEF SidInv

\* A request arrives.
LEMMA ArriveKeepsSids ==
  ASSUME Typed, SidInv, NEW r \in Reqs, NEW kind \in Kinds, NEW s \in Sids \cup {"none"},
         NEW p \in Waiting, NEW loaded, NEW found, req[r] = Idle,
         Begins(r, kind, p, s, loaded, found), QueueStep(r),
         kind \in {"signup", "login"} =>
           /\ s \in Sids
           /\ s \notin fresh => loaded /\ sess[s] # 0,
         p # "spop", fresh' = fresh \ {s},
         UNCHANGED <<sess, sessions, evicted, early>>
  PROVE  SidInv'
<1>0. TypeOK /\ QueueInv /\ FreshInv /\ OwnInv /\ FinalInv
  BY DEF Typed, SidInv
<1>1. /\ \A k \in Reqs \ {r} : req'[k] = req[k] /\ Writes(k)' = Writes(k)
      /\ req'[r].sid = s /\ req'[r].kind = kind /\ req'[r].ids = {}
      /\ req'[r].pc = p /\ req'[r].loaded = loaded
  BY DEF Begins, Writes
<1>2. FreshInv'
  BY <1>0, <1>1 DEF FreshInv
<1>3. OwnInv'
  <2> SUFFICES ASSUME NEW k \in Reqs, Writes(k)'
               PROVE  /\ sess[req'[k].sid] = 0
                      /\ \A n \in Reqs \ {k} : req'[n].sid = req'[k].sid =>
                           req'[n].kind \notin {"signup", "login"}
    BY DEF OwnInv
  <2>1. CASE k = r
    <3>1. s \in fresh /\ kind \in {"signup", "login"}
      BY <1>1, <2>1 DEF Writes
    <3>2. QED BY <1>0, <1>1, <2>1, <3>1 DEF FreshInv
  <2>2. CASE k # r
    <3>1. /\ sess[req[k].sid] = 0 /\ req[k].sid \notin fresh
          /\ \A n \in Reqs \ {k} : req[n].sid = req[k].sid =>
               req[n].kind \notin {"signup", "login"}
      BY <1>0, <1>1, <2>2 DEF OwnInv, FreshInv
    <3>2. s = req[k].sid => kind \notin {"signup", "login"}
      BY <3>1
    <3>3. QED BY <1>1, <2>2, <3>1, <3>2
  <2>3. QED BY <2>1, <2>2
<1>4. FinalInv'
  <2> SUFFICES ASSUME NEW k \in Reqs, Writes(k)', req'[k].sid \notin early
               PROVE  /\ req'[k].sid \in sessions.ids => Written(k)'
                      /\ req'[k].sid \notin evicted
                      /\ \A n \in Reqs : req'[n].kind = "login" /\ req'[n].pc = "spop"
                                         /\ req'[k].sid \in req'[n].ids =>
                           Written(k)' /\ Before(k, n, replies')
    BY DEF FinalInv
  <2>1. CASE k = r
    <3>1. s \in fresh
      BY <1>1, <2>1 DEF Writes
    <3>2. QED BY <1>0, <1>1, <2>1, <3>1 DEF FreshInv
  <2>2. CASE k # r
    <3>1. /\ req[k].sid \in sessions.ids => Written(k)
          /\ req[k].sid \notin evicted
          /\ \A n \in Reqs : req[n].kind = "login" /\ req[n].pc = "spop"
                             /\ req[k].sid \in req[n].ids =>
               Written(k) /\ Before(k, n, replies)
      BY <1>0, <1>1, <2>2 DEF FinalInv
    <3>2. Written(k)' = Written(k) /\ req'[k].sid = req[k].sid
      BY <1>1, <2>2 DEF Written
    <3>3. QED BY <1>1, <2>2, <3>1, <3>2 DEF QueueStep
  <2>3. QED BY <2>1, <2>2
<1>5. QED BY <1>2, <1>3, <1>4 DEF SidInv

\* Every step keeps the identifiers in order.
LEMMA NextSids == Typed /\ SidInv /\ [Next]_vars => SidInv'
<1> SUFFICES ASSUME Typed, SidInv, [Next]_vars PROVE SidInv'
  OBVIOUS
<1>0. TypeOK /\ QueueInv /\ FreshInv /\ OwnInv /\ FinalInv
  BY DEF Typed, SidInv
<1>1. ASSUME NEW r \in Reqs, NEW k \in Kinds, NEW s \in Sids, StartRequest(r, k, s)
      PROVE  SidInv'
  <2>1. /\ req[r] = Idle /\ QueueStep(r)
        /\ Begins(r, k, "load", s, sess[s] > 0, FALSE)
    BY <1>0, <1>1, ArriveMoves
  <2>2. k \in {"signup", "login"} => (s \notin fresh => sess[s] > 0 /\ sess[s] # 0)
    BY <1>1 DEF StartRequest
  <2>3. fresh' = fresh \ {s} /\ UNCHANGED <<sess, sessions, evicted, early>>
    BY <1>1 DEF StartRequest, redisVars
  <2>4. "load" \in Waiting /\ "load" # "spop"
    BY DEF Waiting
  <2>5. QED BY <2>1, <2>2, <2>3, <2>4, ArriveKeepsSids
<1>2. ASSUME NEW r \in Reqs, NEW c \in sockets, StartRegister(r, c) PROVE SidInv'
  <2>1. /\ req[r] = Idle /\ QueueStep(r)
        /\ Begins(r, "register", "hget", "none", FALSE, user.key)
    BY <1>0, <1>2, ArriveMoves
  <2>2. fresh' = fresh \ {"none"} /\ UNCHANGED <<sess, sessions, evicted, early>>
    BY <1>0, <1>2, SidsAssumption DEF StartRegister, redisVars, TypeOK
  <2>3. "hget" \in Waiting /\ "hget" # "spop" /\ "register" \in Kinds
        /\ "register" \notin {"signup", "login"}
    BY DEF Waiting, Kinds
  <2>4. QED BY <2>1, <2>2, <2>3, ArriveKeepsSids
<1>3. ASSUME NEW r \in Reqs, Serve(r) PROVE SidInv'
  BY <1>3, ServeKeepsSids
<1>4. CASE Tick
  <2>1. /\ UNCHANGED <<fresh, req, replies, evicted, early>>
        /\ \A s \in Sids : sess[s] = 0 => sess'[s] = 0
        /\ sessions'.ids \subseteq sessions.ids
    BY <1>0, <1>4, TickRedis DEF Tick, NoSessions
  <2>2. FreshInv'
    BY <1>0, <2>1 DEF FreshInv, TypeOK
  <2>3. \A r \in Reqs : Writes(r)' = Writes(r) /\ Written(r)' = Written(r)
    BY <2>1 DEF Writes, Written
  <2>4. OwnInv'
    BY <1>0, <2>1, <2>3 DEF OwnInv, Writes, Typed, RequestInv, Waiting, Elsewhere
  <2>5. FinalInv'
    BY <1>0, <2>1, <2>3 DEF FinalInv
  <2>6. QED BY <2>2, <2>4, <2>5 DEF SidInv
<1>5. CASE Crash
  <2>1. /\ UNCHANGED <<fresh, sess, sessions, evicted>>
        /\ \A r \in Reqs : req'[r].sid = req[r].sid /\ req'[r].ids \subseteq req[r].ids
    BY <1>0, <1>5, CrashMoves DEF Crash, redisVars
  <2>2. FreshInv'
    BY <1>0, <2>1 DEF FreshInv
  <2>3. \A r \in Reqs : ~Writes(r)'
    BY <1>0, <1>5, CrashMoves DEF Writes, Active
  <2>4. QED BY <2>2, <2>3 DEF SidInv, OwnInv, FinalInv
<1>6. CASE UNCHANGED <<fresh, sess, sessions, evicted, early, req, replies>>
  BY <1>0, <1>6 DEF SidInv, FreshInv, OwnInv, FinalInv, Writes, Written
<1>7. QED
  BY <1>1, <1>2, <1>3, <1>4, <1>5, <1>6, Steps
     DEF SocketCloses, ExpiryEvent, vars, redisVars, historyVars

\* EvictionIsFinal: the session that another login has evicted never comes back,
\* unless it was in the set two commands before its record.
THEOREM EvictionIsFinalCorrect == Spec => []EvictionIsFinal
<1>1. Init => EvictionIsFinal
  BY DEF Init, EvictionIsFinal
<1>2. Typed /\ SidInv /\ EvictionIsFinal /\ [Next]_vars => EvictionIsFinal'
  <2> SUFFICES ASSUME Typed, SidInv, EvictionIsFinal, [Next]_vars,
                      NEW s \in evicted', s \notin early'
               PROVE  sess'[s] = 0
    BY DEF EvictionIsFinal
  <2>1. TypeOK /\ evicted \subseteq Sids
    BY DEF Typed, TypeOK
  <2>2. ASSUME NEW r \in Reqs, Serve(r) PROVE sess'[s] = 0
    <3>1. s \notin early
      BY <2>2, ServeSids
    <3>2. CASE s \in evicted
      <4>1. SUFFICES ASSUME sess'[s] # 0 PROVE FALSE
        OBVIOUS
      <4>2. sess[s] = 0
        BY <3>1, <3>2 DEF EvictionIsFinal
      <4>3. s = req[r].sid /\ ~req[r].loaded /\ req[r].kind \in {"signup", "login"}
        BY <2>1, <2>2, <3>2, <4>1, <4>2, ServeSids
      <4>4. Writes(r)
        BY <2>2, <4>3, ServeMoves DEF Writes, Typed, Active
      <4>5. QED BY <3>1, <3>2, <4>3, <4>4 DEF SidInv, FinalInv
    <3>3. CASE s \notin evicted
      BY <2>2, <3>3, ServeSids
    <3>4. QED BY <3>2, <3>3
  <2>3. CASE Tick
    BY <2>1, <2>3, TickRedis DEF Tick, EvictionIsFinal
  <2>4. CASE UNCHANGED <<sess, evicted, early>>
    BY <2>4 DEF EvictionIsFinal
  <2>5. QED
    BY <2>2, <2>3, <2>4, Steps DEF StartRequest, StartRegister, SocketCloses,
       ExpiryEvent, Crash, vars, redisVars, historyVars
<1>3. Typed /\ SidInv /\ [Next]_vars => SidInv'
  BY NextSids
<1>4. QED BY <1>1, <1>2, <1>3, InitSids, TypedInv, PTL DEF Spec

-----------------------------------------------------------------------------
(* Requests that do not overlap.  Those that change no session may.          *)

Light == {"register", "handshake"}

Alone ==
  disturbed < Overlap =>
    \A r, k \in Active : r # k => {req[r].kind, req[k].kind} \subseteq Light

AtMostOne(S) == \A x, y \in S : x = y

LEMMA AtMostOneCardinality ==
  ASSUME NEW S, AtMostOne(S)
  PROVE  Cardinality(S) <= 1
<1>1. CASE S = {}
  BY <1>1, FS_EmptySet
<1>2. CASE S # {}
  <2>1. PICK x \in S : TRUE
    BY <1>2
  <2>2. S = {x}
    BY <2>1 DEF AtMostOne
  <2>3. Cardinality({x}) = 1
    BY FS_Singleton
  <2>4. QED BY <2>2, <2>3
<1>3. QED BY <1>1, <1>2

\* What disturbs is never forgotten, and requests that do not overlap arrive
\* one after the other.
LEMMA Disturbance ==
  ASSUME Typed
  PROVE  /\ \A r \in Reqs : Serve(r) => disturbed' \in {disturbed, Disturbs(Deletion)}
         /\ \A level \in 0..3 : Disturbs(level) >= disturbed /\ Disturbs(level) >= level
<1>1. disturbed \in 0..3
  BY DEF Typed, TypeOK, Undisturbed, Overlap
<1>2. ASSUME NEW r \in Reqs, Serve(r)
      PROVE  disturbed' \in {disturbed, Disturbs(Deletion)}
  <2>1. CASE SignupStep(r)
    BY <2>1 DEF SignupStep, SignupLoads, SignupHashes, SignupExists, SignupStored,
       SignupSetsTtl, SignupResponds, historyVars
  <2>2. CASE LoginStep(r)
    BY <2>2 DEF LoginStep, LoginLoads, LoginReadsPassword, LoginCompares, LoginExists,
       LoginPopped, LoginReadded, LoginEvicted, LoginResponds, historyVars
  <2>3. CASE LogoutStep(r)
    BY <2>3 DEF LogoutStep, LogoutLoads, LogoutRemoved, LogoutCounts, LogoutCleared,
       LogoutResponds, historyVars
  <2>4. CASE DeleteStep(r)
    BY <2>4 DEF DeleteStep, DeleteLoads, DeleteLists, DeleteRecords, DeleteSet,
       DeleteResponds, historyVars
  <2>5. CASE RegisterStep(r)
    BY <2>5 DEF RegisterStep, RegisterReads, RegisterConflicts, RegisterReturns,
       historyVars
  <2>6. CASE HandshakeStep(r)
    BY <2>6 DEF HandshakeStep, HandshakeLoads, HandshakeJoins, historyVars
  <2>7. QED BY <1>2, <2>1, <2>2, <2>3, <2>4, <2>5, <2>6 DEF Serve
<1>3. QED BY <1>1, <1>2 DEF Disturbs

LEMMA NeverForgotten ==
  ASSUME Typed, [Next]_vars
  PROVE  /\ disturbed \in 0..3 /\ disturbed' \in 0..3
         /\ disturbed <= disturbed'
<1>1. disturbed \in 0..3
  BY DEF Typed, TypeOK, Undisturbed, Overlap
<1>2. disturbed' \in 0..3
  <2>1. TypeOK'
    BY NextTypes DEF Typed
  <2>2. QED BY <2>1 DEF TypeOK, Undisturbed, Overlap
<1>3. disturbed <= disturbed'
  <2>1. \A level \in 0..3 : disturbed <= Disturbs(level)
    BY <1>1 DEF Disturbs
  <2>2. ASSUME NEW r \in Reqs, Serve(r) PROVE disturbed <= disturbed'
    BY <1>1, <2>1, <2>2, Disturbance DEF Deletion
  <2>3. CASE Tick \/ Crash
    BY <1>1, <2>1, <2>3 DEF Tick, Crash, Interruption
  <2>4. CASE UNCHANGED disturbed
    BY <1>1, <2>4
  <2>5. CASE disturbed' = Overlap
    BY <1>1, <2>5 DEF Overlap
  <2>6. QED
    BY <2>2, <2>3, <2>4, <2>5, Steps DEF StartRequest, StartRegister, SocketCloses,
       ExpiryEvent, vars, historyVars
<1>4. QED BY <1>1, <1>2, <1>3

\* While requests do not overlap, an arriving one meets only light ones, and only
\* if it is light itself.
LEMMA ArriveAlone ==
  ASSUME Typed, NEW kind \in Kinds, disturbed' < Overlap,
         disturbed' = IF Overlaps(kind) THEN Overlap ELSE disturbed
  PROVE  /\ disturbed < Overlap /\ disturbed' = disturbed
         /\ \A k \in Active : {kind, req[k].kind} \subseteq Light
<1>1. disturbed \in 0..3
  BY DEF Typed, TypeOK, Undisturbed, Overlap
<1>2. ~Overlaps(kind)
  BY DEF Overlap
<1>3. QED BY <1>1, <1>2 DEF Overlaps, Light

\* The requests in progress after a step of r.
LEMMA ServeActive ==
  ASSUME Typed, NEW r \in Reqs, Serve(r)
  PROVE  /\ Active' \subseteq Active
         /\ r \in Active
         /\ r \in Active' <=> req'[r].pc # "over"
         /\ \A k \in Active : req'[k].kind = req[k].kind
<1>1. /\ \A k \in Reqs \ {r} : req'[k] = req[k]
      /\ r \in Active
      /\ req'[r].pc # "idle" /\ req'[r].kind = req[r].kind
      /\ req' \in [Reqs -> Request]
  BY ServeMoves DEF Typed
<1>2. r \in Active' <=> req'[r].pc # "over"
  BY <1>1 DEF Active, Request, Waiting, Elsewhere
<1>3. QED BY <1>1, <1>2 DEF Active

LEMMA InitAlone == Init => Alone
BY DEF Init, Alone, Active, Idle, Waiting, Elsewhere

LEMMA NextAlone == Typed /\ Alone /\ [Next]_vars => Alone'
<1> SUFFICES ASSUME Typed, Alone, [Next]_vars, disturbed' < Overlap,
                    NEW r \in Active', NEW k \in Active', r # k
             PROVE  {req'[r].kind, req'[k].kind} \subseteq Light
  BY DEF Alone
<1>0. /\ TypeOK /\ QueueInv
      /\ \A n, m \in Active : n # m => {req[n].kind, req[m].kind} \subseteq Light
  BY NeverForgotten DEF Typed, Alone, Overlap
<1>1. ASSUME NEW n \in Reqs, NEW kind \in Kinds,
             disturbed' = IF Overlaps(kind) THEN Overlap ELSE disturbed,
             req'[n].kind = kind, \A m \in Reqs \ {n} : req'[m] = req[m]
      PROVE  {req'[r].kind, req'[k].kind} \subseteq Light
  <2>1. \A m \in Active : {kind, req[m].kind} \subseteq Light
    BY <1>1, ArriveAlone
  <2>2. r # n => r \in Active /\ req'[r] = req[r]
    BY <1>1 DEF Active
  <2>3. k # n => k \in Active /\ req'[k] = req[k]
    BY <1>1 DEF Active
  <2>4. QED BY <1>0, <1>1, <2>1, <2>2, <2>3
<1>2. ASSUME NEW n \in Reqs, NEW kind \in Kinds, NEW s \in Sids, StartRequest(n, kind, s)
      PROVE  {req'[r].kind, req'[k].kind} \subseteq Light
  <2>1. Begins(n, kind, "load", s, sess[s] > 0, FALSE)
    BY <1>0, <1>2, ArriveMoves
  <2>2. QED BY <1>1, <1>2, <2>1 DEF Begins, StartRequest
<1>3. ASSUME NEW n \in Reqs, NEW c \in sockets, StartRegister(n, c)
      PROVE  {req'[r].kind, req'[k].kind} \subseteq Light
  <2>1. Begins(n, "register", "hget", "none", FALSE, user.key) /\ "register" \in Kinds
    BY <1>0, <1>3, ArriveMoves DEF Kinds
  <2>2. QED BY <1>1, <1>3, <2>1 DEF Begins, StartRegister
<1>4. ASSUME NEW n \in Reqs, Serve(n)
      PROVE  {req'[r].kind, req'[k].kind} \subseteq Light
  BY <1>0, <1>4, ServeActive
<1>5. CASE Crash
  BY <1>0, <1>5, CrashMoves
<1>6. CASE UNCHANGED req
  BY <1>0, <1>6 DEF Active
<1>7. QED
  BY <1>2, <1>3, <1>4, <1>5, <1>6, Steps DEF SocketCloses, Tick, ExpiryEvent, vars

-----------------------------------------------------------------------------
(* The name is given to one sign-up.                                         *)

ClaimInv ==
  /\ claimed # {} => user.ttl # Gone
  /\ disturbed < Overlap =>
       /\ AtMostOne(claimed)
       /\ \A r \in Active : req[r].kind = "signup" =>
            /\ req[r].pc = "exists" /\ ~req[r].found => user.ttl = Gone
            /\ req[r].pc \in {"hset", "sadd", "expire"} => claimed = {}

\* What a step of a request other than a sign-up does to the claim.
LEMMA ServeClaim ==
  ASSUME Typed, NEW r \in Reqs, Serve(r), ~SignupStep(r)
  PROVE  /\ req[r].kind # "signup"
         /\ \/ claimed' = {}
            \/ claimed' = claimed /\ (user.ttl # Gone => user'.ttl # Gone)
<1>0. /\ TypeOK /\ QueueInv /\ RequestInv
      /\ user \in [ttl : TtlValues, password : BOOLEAN, key : BOOLEAN]
  BY DEF Typed, TypeOK
<1>1. CASE LoginStep(r)
  BY <1>0, <1>1, LoginMoves DEF LoginStep, LoginLoads, LoginReadsPassword, LoginCompares,
     LoginExists, LoginPopped, LoginReadded, LoginEvicted, LoginResponds, redisVars,
     historyVars
<1>2. CASE LogoutStep(r)
  BY <1>0, <1>2, LogoutMoves DEF LogoutStep, LogoutLoads, LogoutRemoved, LogoutCounts,
     LogoutCleared, LogoutResponds, redisVars, historyVars
<1>3. CASE DeleteStep(r)
  BY <1>0, <1>3, DeleteMoves DEF DeleteStep, DeleteLoads, DeleteLists, DeleteRecords,
     DeleteSet, DeleteResponds, redisVars, historyVars
<1>4. CASE RegisterStep(r)
  <2>1. (\E key \in BOOLEAN : WriteKeyField(key)) => (user.ttl # Gone => user'.ttl # Gone)
    BY <1>0 DEF WriteKeyField, Created
  <2>2. QED
    BY <1>0, <1>4, <2>1, RegisterMoves DEF RegisterStep, RegisterReads,
       RegisterConflicts, RegisterReturns, redisVars, historyVars
<1>5. CASE HandshakeStep(r)
  BY <1>0, <1>5, HandshakeMoves DEF HandshakeStep, HandshakeLoads, HandshakeJoins,
     redisVars, historyVars, RequestInv
<1>6. QED BY <1>1, <1>2, <1>3, <1>4, <1>5 DEF Serve

\* And what a step of a sign-up does.
LEMMA SignupClaim ==
  ASSUME Typed, ClaimInv, NEW r \in Reqs, SignupStep(r)
  PROVE  /\ claimed' # {} => user'.ttl # Gone
         /\ disturbed < Overlap =>
              /\ AtMostOne(claimed')
              /\ req'[r].pc = "exists" /\ ~req'[r].found => user'.ttl = Gone
              /\ req'[r].pc \in {"hset", "sadd", "expire"} => claimed' = {}
<1> DEFINE Goal == /\ claimed' # {} => user'.ttl # Gone
                   /\ disturbed < Overlap =>
                        /\ AtMostOne(claimed')
                        /\ req'[r].pc = "exists" /\ ~req'[r].found => user'.ttl = Gone
                        /\ req'[r].pc \in {"hset", "sadd", "expire"} => claimed' = {}
<1>0. /\ TypeOK /\ QueueInv
      /\ user \in [ttl : TtlValues, password : BOOLEAN, key : BOOLEAN]
      /\ claimed # {} => user.ttl # Gone
      /\ req[r].kind = "signup"
      /\ disturbed < Overlap =>
           /\ AtMostOne(claimed)
           /\ req[r].pc = "exists" /\ ~req[r].found => user.ttl = Gone
           /\ req[r].pc \in {"hset", "sadd", "expire"} => claimed = {}
  <2>1. req[r].kind = "signup" /\ req[r].pc \in Waiting \cup Elsewhere
    BY SignupMoves DEF Typed, SignupStep, Waiting, Elsewhere
  <2>2. QED BY <2>1 DEF Typed, TypeOK, ClaimInv, Active
<1>1. CASE SignupLoads(r)
  <2>1. req'[r].pc = "hashing" /\ UNCHANGED <<claimed, user>>
    BY <1>0, <1>1, SignupMoves DEF Goes, SignupLoads, redisVars, historyVars
  <2>2. QED BY <1>0, <2>1
<1>2. CASE SignupHashes(r)
  <2>1. /\ req'[r].pc = "exists" /\ req'[r].found = (user.ttl # Gone)
        /\ UNCHANGED <<claimed, user>>
    BY <1>0, <1>2, SignupMoves DEF Goes, SignupHashes, redisVars, historyVars
  <2>2. QED BY <1>0, <2>1
<1>3. CASE SignupExists(r)
  <2>1. claimed' = claimed /\ req[r].pc = "exists"
    BY <1>0, <1>3, SignupMoves DEF SignupExists, historyVars
  <2>2. CASE req[r].found
    <3>1. req'[r].pc = "over" /\ user' = user
      BY <1>0, <1>3, <2>2, SignupMoves DEF Ends, SignupExists
    <3>2. QED BY <1>0, <2>1, <3>1
  <2>3. CASE ~req[r].found
    <3>1. req'[r].pc = "hset" /\ user'.ttl = Created
      BY <1>0, <1>3, <2>3, SignupMoves DEF Goes, SignupExists
    <3>2. Created # Gone
      BY UserFields, TypeParts, <1>0
    <3>3. QED BY <1>0, <2>1, <2>3, <3>1, <3>2
  <2>4. QED BY <2>2, <2>3
<1>4. CASE SignupStored(r)
  <2>1. /\ req[r].pc = "hset" /\ req'[r].pc = "sadd" /\ UNCHANGED <<claimed, user>>
    BY <1>0, <1>4, SignupMoves DEF Goes, SignupStored
  <2>2. QED BY <1>0, <2>1
<1>5. CASE SignupSetsTtl(r)
  <2>1. /\ req[r].pc = "sadd" /\ req'[r].pc = "expire" /\ UNCHANGED claimed
        /\ user'.ttl = SetUserTtl(Ttl)
    BY <1>0, <1>5, SignupMoves DEF Goes, SignupSetsTtl
  <2>2. user.ttl # Gone => user'.ttl # Gone
    BY <2>1, Numbers DEF SetUserTtl
  <2>3. QED BY <1>0, <2>1, <2>2
<1>6. CASE SignupResponds(r)
  <2>1. /\ req[r].pc = "expire" /\ req'[r].pc = "over" /\ UNCHANGED user
        /\ claimed' = IF user.ttl = Gone THEN claimed ELSE claimed \cup {r}
    BY <1>0, <1>6, SignupMoves DEF Ends, SignupResponds
  <2>2. QED BY <1>0, <2>1 DEF AtMostOne
<1>7. QED BY <1>1, <1>2, <1>3, <1>4, <1>5, <1>6 DEF SignupStep

LEMMA InitClaim == Init => ClaimInv
BY DEF Init, ClaimInv, AtMostOne, Active, Idle, Waiting, Elsewhere

LEMMA NextClaim == Typed /\ Alone /\ ClaimInv /\ [Next]_vars => ClaimInv'
<1> SUFFICES ASSUME Typed, Alone, ClaimInv, [Next]_vars PROVE ClaimInv'
  OBVIOUS
<1>0. /\ TypeOK /\ QueueInv
      /\ disturbed' < Overlap => disturbed < Overlap
  BY NeverForgotten DEF Typed, Overlap
<1>1. ASSUME NEW r \in Reqs, NEW kind \in Kinds, UNCHANGED <<user, claimed>>,
             disturbed' = IF Overlaps(kind) THEN Overlap ELSE disturbed,
             req'[r].kind = kind, req'[r].pc \in {"load", "hget"},
             \A m \in Reqs \ {r} : req'[m] = req[m]
      PROVE  ClaimInv'
  <2>1. ASSUME disturbed' < Overlap, NEW k \in Active', req'[k].kind = "signup"
        PROVE  req'[k].pc \in {"load", "hget"}
    <3>1. \A m \in Active : {kind, req[m].kind} \subseteq Light
      BY <1>1, <2>1, ArriveAlone
    <3>2. CASE k # r
      BY <1>1, <2>1, <3>1, <3>2 DEF Active, Light
    <3>3. QED BY <1>1, <3>2
  <2>2. QED BY <1>0, <1>1, <2>1 DEF ClaimInv
<1>2. ASSUME NEW r \in Reqs, NEW kind \in Kinds, NEW s \in Sids, StartRequest(r, kind, s)
      PROVE  ClaimInv'
  <2>1. Begins(r, kind, "load", s, sess[s] > 0, FALSE)
    BY <1>0, <1>2, ArriveMoves
  <2>2. QED BY <1>1, <1>2, <2>1 DEF Begins, StartRequest, redisVars
<1>3. ASSUME NEW r \in Reqs, NEW c \in sockets, StartRegister(r, c) PROVE ClaimInv'
  <2>1. Begins(r, "register", "hget", "none", FALSE, user.key) /\ "register" \in Kinds
    BY <1>0, <1>3, ArriveMoves DEF Kinds
  <2>2. QED BY <1>1, <1>3, <2>1 DEF Begins, StartRegister, redisVars
<1>4. ASSUME NEW r \in Reqs, Serve(r) PROVE ClaimInv'
  <2>0. /\ \A k \in Reqs \ {r} : req'[k] = req[k]
        /\ Active' \subseteq Active /\ r \in Active
        /\ \A k \in Active : req'[k].kind = req[k].kind
    BY <1>0, <1>4, ServeMoves, ServeActive
  <2>1. CASE SignupStep(r)
    <3>1. req[r].kind = "signup"
      BY <1>0, <2>1, SignupMoves DEF SignupStep
    <3>2. disturbed < Overlap => Active' \subseteq {r}
      BY <2>0, <3>1 DEF Alone, Light
    <3>3. QED BY <1>0, <2>1, <3>2, SignupClaim DEF ClaimInv
  <2>2. CASE ~SignupStep(r)
    <3>1. /\ req[r].kind # "signup"
          /\ \/ claimed' = {}
             \/ claimed' = claimed /\ (user.ttl # Gone => user'.ttl # Gone)
      BY <1>4, <2>2, ServeClaim
    <3>2. disturbed < Overlap => \A k \in Active' : req'[k].kind = "signup" =>
             req[r].kind \in Light /\ req[k].kind \in Light
      BY <2>0, <3>1 DEF Alone
    <3>3. disturbed < Overlap => \A k \in Active' : req'[k].kind # "signup"
      BY <2>0, <3>2 DEF Light
    <3>4. QED BY <1>0, <3>1, <3>3 DEF ClaimInv, AtMostOne
  <2>3. QED BY <2>1, <2>2
<1>5. CASE Tick
  <2>1. /\ Active' = Active /\ req' = req
        /\ claimed' = {} \/ (claimed' = claimed /\ user.ttl # 1)
        /\ user.ttl = Gone => user'.ttl = Gone
        /\ user.ttl # Gone /\ user.ttl # 1 => user'.ttl # Gone
    <3>1. TypeOK' /\ user.ttl \in TtlValues
      BY <1>0, NextTypes DEF Typed, TypeOK
    <3>2. user.ttl # Gone /\ user.ttl # 1 => user'.ttl # Gone
      <4>1. CASE user.ttl = NoTtl
        BY <1>0, <1>5, <4>1, TickRedis, Numbers
      <4>2. CASE user.ttl \notin {Gone, NoTtl, 1}
        <5>1. user.ttl > 0 /\ user.ttl \in Int
          BY <3>1, <4>2, Numbers
        <5>2. user'.ttl = user.ttl - 1
          BY <1>0, <1>5, <4>2, TickRedis
        <5>3. QED BY <5>1, <5>2 DEF Gone
      <4>3. QED BY <4>1, <4>2
    <3>3. QED BY <1>0, <1>5, <3>2, TickRedis DEF Tick, Active
  <2>2. QED BY <1>0, <2>1 DEF ClaimInv, AtMostOne
<1>6. CASE Crash
  <2>1. Active' = {} /\ UNCHANGED <<user, claimed>>
    BY <1>0, <1>6, CrashMoves DEF Crash, redisVars
  <2>2. QED BY <1>0, <2>1 DEF ClaimInv
<1>7. CASE UNCHANGED <<user, claimed, req, disturbed>>
  BY <1>7 DEF ClaimInv, Active, AtMostOne
<1>8. QED
  BY <1>2, <1>3, <1>4, <1>5, <1>6, <1>7, Steps
     DEF SocketCloses, ExpiryEvent, vars, redisVars, historyVars

\* SignupUnique: two sign-ups are told 201 for one name only if they overlapped.
THEOREM SignupUniqueCorrect == Spec => []SignupUnique
<1>1. Typed /\ Alone /\ [Next]_vars => Alone'
  BY NextAlone
<1>2. Typed /\ Alone /\ ClaimInv /\ [Next]_vars => ClaimInv'
  BY NextClaim
<1>3. ClaimInv => SignupUnique
  BY AtMostOneCardinality DEF ClaimInv, SignupUnique
<1>4. QED BY <1>1, <1>2, <1>3, InitAlone, InitClaim, TypedInv, PTL DEF Spec

-----------------------------------------------------------------------------
(* One device.  Up to a deletion, at each step of the request in progress the *)
(* sessions that are alive are known: they are in the set, or in hand.        *)

AliveIn(S) == \A s \in Sids : sess[s] > 0 => s \in S

\* The set has one member, lives as long as the account and belongs to a user.
MembersInv ==
  /\ AtMostOne(sessions.ids)
  /\ sessions.ttl > 0 => sessions.ttl = user.ttl
  /\ ~user.password => sessions.ids = {}

SignupStage(r) ==
  /\ AliveIn(sessions.ids)
  /\ req[r].pc = "exists" /\ ~req[r].found => sessions.ids = {}
  /\ req[r].pc = "hset" => sessions.ids = {} /\ user.password
  /\ req[r].pc \in {"sadd", "expire"} => sessions.ids = {req[r].sid} /\ user.password

LoginStage(r) ==
  /\ req[r].pc # "spop" => AliveIn(sessions.ids)
  /\ req[r].pc = "spop" => /\ sessions.ids = {}
                           /\ AliveIn(req[r].ids)
                           /\ AtMostOne(req[r].ids)
  /\ req[r].pc = "exists" /\ ~req[r].found => sessions.ids = {}
  /\ req[r].pc = "evict" => sessions.ids = {}
  /\ req[r].pc \in {"readd", "sadd"} => sessions.ids = {req[r].sid}
  /\ \/ req[r].pc = "hget" /\ req[r].found
     \/ req[r].pc \in {"comparing", "exists", "spop", "readd", "evict", "sadd"}
     => user.password

LogoutStage(r) ==
  /\ req[r].pc \in {"load", "srem", "smembers", "delset", "delsess", "over"}
  /\ req[r].pc \in {"load", "over"} => AliveIn(sessions.ids)
  /\ req[r].pc = "load" /\ req[r].loaded => sessions.ids = {req[r].sid}
  /\ req[r].pc \in {"srem", "smembers", "delset"} =>
       sessions.ids = {} /\ AliveIn({req[r].sid})
  /\ req[r].pc = "delsess" => sessions.ids = {} /\ AliveIn({})

DeleteStage(r) ==
  /\ req[r].pc \in {"load", "smembers", "delsess", "delset", "deluser", "over"}
  /\ req[r].pc \in {"load", "smembers", "over"} => AliveIn(sessions.ids)
  /\ req[r].pc \in {"smembers", "delsess"} => req[r].ids = sessions.ids
  /\ req[r].pc \in {"delsess", "delset", "deluser"} => AliveIn({})
  /\ req[r].pc \in {"delset", "deluser"} => sessions.ids = {}

Stage(r) ==
  /\ req[r].kind = "signup" => SignupStage(r)
  /\ req[r].kind = "login" => LoginStage(r)
  /\ req[r].kind = "logout" => LogoutStage(r)
  /\ req[r].kind = "delete" => DeleteStage(r)
  /\ req[r].kind = "handshake" => (req[r].loaded => req[r].sid \in sessions.ids)

QuietInv ==
  disturbed <= Deletion =>
    /\ MembersInv
    /\ (\A r \in Active : req[r].kind \in Light) => AliveIn(sessions.ids)
    /\ \A r \in Active : Stage(r)

\* Which sessions are alive after a record is written or deleted.
LEMMA AliveAfter ==
  ASSUME Typed, NEW s \in Sids
  PROVE  /\ sess' = Touched(s) =>
              \A t \in Sids : sess'[t] > 0 => sess[t] > 0
         /\ sess' = [sess EXCEPT ![s] = Ttl] =>
              \A t \in Sids : sess'[t] > 0 => sess[t] > 0 \/ t = s
         /\ sess' = [sess EXCEPT ![s] = 0] =>
              \A t \in Sids : sess'[t] > 0 => sess[t] > 0 /\ t # s
         /\ \A S : sess' = [t \in Sids |-> IF t \in S THEN 0 ELSE sess[t]] =>
              \A t \in Sids : sess'[t] > 0 => sess[t] > 0 /\ t \notin S
         /\ sess' = sess => \A t \in Sids : sess'[t] > 0 => sess[t] > 0
<1>1. sess \in [Sids -> 0..Ttl]
  BY DEF Typed, TypeOK
<1>2. QED BY <1>1, Numbers DEF Touched

\* What the set is after a member is added or removed.
LEMMA MembersAfter ==
  ASSUME Typed, NEW s \in Sids
  PROVE  /\ sessions' = AddSession(s) =>
              /\ sessions'.ids = sessions.ids \cup {s}
              /\ sessions.ids = {} => sessions'.ttl = NoTtl
              /\ sessions.ids # {} => sessions'.ttl = sessions.ttl
         /\ sessions' = RemoveSession(s) =>
              /\ sessions'.ids = sessions.ids \ {s}
              /\ sessions.ids \subseteq {s} => sessions'.ttl = Gone
         /\ sessions' = NoSessions => sessions'.ids = {} /\ sessions'.ttl = Gone
         /\ ~(Gone > 0) /\ ~(NoTtl > 0)
         /\ sessions.ids = {} <=> sessions.ttl = Gone
         /\ user.password => user.ttl # Gone
         /\ user.password \in BOOLEAN
<1>1. /\ sessions.ids = {} <=> sessions.ttl = Gone
      /\ user.ttl = Gone => user = NoUser
      /\ user.password \in BOOLEAN
  BY DEF Typed, TypeOK
<1>2. ~NoUser.password /\ NoSessions.ids = {} /\ NoSessions.ttl = Gone
  BY DEF NoUser, NoSessions
<1>3. ~(Gone > 0) /\ ~(NoTtl > 0)
  BY DEF Gone, NoTtl
<1>4. QED BY <1>1, <1>2, <1>3, SetOfSessions DEF Typed

\* The steps of a sign-up.
LEMMA SignupKeepsStage ==
  ASSUME Typed, MembersInv, NEW r \in Reqs, SignupStep(r), SignupStage(r)
  PROVE  MembersInv' /\ SignupStage(r)'
<1>0. /\ TypeOK /\ QueueInv
      /\ req[r].kind = "signup" /\ req[r].sid \in Sids
      /\ user \in [ttl : TtlValues, password : BOOLEAN, key : BOOLEAN]
      /\ sessions \in [ttl : TtlValues, ids : SUBSET Sids]
  <2>1. req[r].kind = "signup"
    BY SignupMoves DEF Typed, SignupStep
  <2>2. QED BY <2>1 DEF Typed, TypeOK, RequestInv
<1>1. CASE SignupLoads(r)
  <2>1. req'[r].pc = "hashing" /\ UNCHANGED <<user, sessions, sess>>
    BY <1>0, <1>1, SignupMoves DEF Goes, SignupLoads, redisVars
  <2>2. QED BY <2>1 DEF MembersInv, SignupStage, AliveIn, AtMostOne
<1>2. CASE SignupHashes(r)
  <2>1. /\ req'[r].pc = "exists" /\ req'[r].found = (user.ttl # Gone)
        /\ UNCHANGED <<user, sessions, sess>>
    BY <1>0, <1>2, SignupMoves DEF Goes, SignupHashes, redisVars
  <2>2. user.ttl = Gone => sessions.ids = {}
    BY <1>0, MembersAfter DEF MembersInv
  <2>3. QED BY <2>1, <2>2 DEF MembersInv, SignupStage, AliveIn, AtMostOne
<1>3. CASE SignupExists(r)
  <2>1. req[r].pc = "exists" /\ sessions' = sessions
    BY <1>0, <1>3, SignupMoves DEF SignupExists
  <2>2. CASE req[r].found
    <3>1. req'[r].pc = "over" /\ user' = user
      BY <1>0, <1>3, <2>2, SignupMoves DEF Ends, SignupExists
    <3>2. \A t \in Sids : sess'[t] > 0 => sess[t] > 0
      BY <1>0, <1>3, <2>2, AliveAfter DEF SignupExists, Fail
    <3>3. QED BY <2>1, <3>1, <3>2 DEF MembersInv, SignupStage, AliveIn, AtMostOne
  <2>3. CASE ~req[r].found
    <3>1. req'[r].pc = "hset" /\ sess' = sess
      BY <1>0, <1>3, <2>3, SignupMoves DEF Goes, SignupExists
    <3>2. user'.password
      BY <1>0, <1>3, <2>3 DEF SignupExists
    <3>3. sessions.ids = {} /\ ~(sessions.ttl > 0)
      BY <1>0, <2>1, <2>3, MembersAfter DEF SignupStage
    <3>4. QED BY <2>1, <3>1, <3>2, <3>3 DEF MembersInv, SignupStage, AliveIn, AtMostOne
  <2>4. QED BY <2>2, <2>3
<1>4. CASE SignupStored(r)
  <2>1. /\ req[r].pc = "hset" /\ req'[r].pc = "sadd" /\ req'[r].sid = req[r].sid
        /\ UNCHANGED <<user, sess>> /\ sessions' = AddSession(req[r].sid)
    BY <1>0, <1>4, SignupMoves DEF Goes, SignupStored
  <2>2. sessions.ids = {} /\ user.password /\ AliveIn(sessions.ids)
    BY <2>1 DEF SignupStage
  <2>3. sessions'.ids = {req[r].sid} /\ ~(sessions'.ttl > 0)
    BY <1>0, <2>1, <2>2, MembersAfter
  <2>4. QED BY <2>1, <2>2, <2>3 DEF MembersInv, SignupStage, AliveIn, AtMostOne
<1>5. CASE SignupSetsTtl(r)
  <2>1. /\ req[r].pc = "sadd" /\ req'[r].pc = "expire" /\ req'[r].sid = req[r].sid
        /\ sess' = sess
    BY <1>0, <1>5, SignupMoves DEF Goes, SignupSetsTtl
  <2>2. sessions.ids = {req[r].sid} /\ user.password /\ AliveIn(sessions.ids)
    BY <2>1 DEF SignupStage
  <2>3. user.ttl # Gone
    BY <1>0, <2>2, MembersAfter
  <2>4. user'.ttl = Ttl /\ user'.password = user.password
    BY <1>0, <1>5, <2>3 DEF SignupSetsTtl, SetUserTtl
  <2>5. sessions'.ttl = Ttl /\ sessions'.ids = sessions.ids
    BY <1>0, <1>5, <2>2 DEF SignupSetsTtl
  <2>6. QED BY <2>1, <2>2, <2>4, <2>5 DEF MembersInv, SignupStage, AliveIn, AtMostOne
<1>6. CASE SignupResponds(r)
  <2>1. /\ req[r].pc = "expire" /\ req'[r].pc = "over"
        /\ UNCHANGED <<user, sessions>>
    BY <1>0, <1>6, SignupMoves DEF Ends, SignupResponds
  <2>2. sessions.ids = {req[r].sid} /\ AliveIn(sessions.ids)
    BY <2>1 DEF SignupStage
  <2>3. \A t \in Sids : sess'[t] > 0 => sess[t] > 0 \/ t = req[r].sid
    BY <1>0, <1>6, AliveAfter DEF SignupResponds, Respond, Saved
  <2>4. QED BY <2>1, <2>2, <2>3 DEF MembersInv, SignupStage, AliveIn, AtMostOne
<1>7. QED BY <1>1, <1>2, <1>3, <1>4, <1>5, <1>6 DEF SignupStep

\* The steps of a login.
LEMMA LoginKeepsStage ==
  ASSUME Typed, MembersInv, NEW r \in Reqs, LoginStep(r), LoginStage(r)
  PROVE  MembersInv' /\ LoginStage(r)'
<1>0. /\ TypeOK /\ QueueInv
      /\ req[r].kind = "login" /\ req[r].sid \in Sids
      /\ user.password \in BOOLEAN
      /\ sessions \in [ttl : TtlValues, ids : SUBSET Sids]
  <2>1. req[r].kind = "login"
    BY LoginMoves DEF Typed, LoginStep
  <2>2. QED BY <2>1 DEF Typed, TypeOK, RequestInv
<1>1. CASE LoginLoads(r)
  <2>1. /\ req[r].pc = "load" /\ req'[r].pc = "hget" /\ req'[r].found = user.password
        /\ UNCHANGED <<user, sessions, sess>>
    BY <1>0, <1>1, LoginMoves DEF Goes, LoginLoads, redisVars
  <2>2. QED BY <2>1 DEF MembersInv, LoginStage, AliveIn, AtMostOne
<1>2. CASE LoginReadsPassword(r)
  <2>1. req[r].pc = "hget" /\ UNCHANGED <<user, sessions>>
    BY <1>0, <1>2, LoginMoves DEF LoginReadsPassword
  <2>2. \A t \in Sids : sess'[t] > 0 => sess[t] > 0
    BY <1>0, <1>2, AliveAfter DEF LoginReadsPassword, Fail
  <2>3. req'[r].pc = "over" \/ (req[r].found /\ req'[r].pc = "comparing")
    BY <1>0, <1>2, LoginMoves DEF Goes, Ends
  <2>4. QED BY <2>1, <2>2, <2>3 DEF MembersInv, LoginStage, AliveIn, AtMostOne
<1>3. CASE LoginCompares(r)
  <2>1. /\ req[r].pc = "comparing" /\ req'[r].pc = "exists"
        /\ req'[r].found = (sessions.ids # {})
        /\ UNCHANGED <<user, sessions, sess>>
    BY <1>0, <1>3, LoginMoves DEF Goes, LoginCompares, redisVars
  <2>2. QED BY <2>1 DEF MembersInv, LoginStage, AliveIn, AtMostOne
<1>4. CASE LoginExists(r)
  <2>1. /\ req[r].pc = "exists" /\ UNCHANGED <<user, sess>>
        /\ req'[r].sid = req[r].sid
    BY <1>0, <1>4, LoginMoves DEF LoginExists, Goes
  <2>2. user.password /\ AliveIn(sessions.ids) /\ AtMostOne(sessions.ids)
    BY <2>1 DEF LoginStage, MembersInv
  <2>3. CASE ~req[r].found
    <3>1. req'[r].pc = "sadd" /\ sessions' = AddSession(req[r].sid)
      BY <1>0, <1>4, <2>3, LoginMoves DEF LoginExists, CreateSession, Goes
    <3>2. sessions.ids = {}
      BY <2>1, <2>3 DEF LoginStage
    <3>3. sessions'.ids = {req[r].sid} /\ ~(sessions'.ttl > 0)
      BY <1>0, <3>1, <3>2, MembersAfter
    <3>4. QED BY <2>1, <2>2, <3>1, <3>2, <3>3 DEF MembersInv, LoginStage, AliveIn, AtMostOne
  <2>4. CASE req[r].found /\ sessions.ids = {}
    <3>1. req'[r].pc = "spop" /\ req'[r].ids = {} /\ sessions' = sessions
      BY <1>0, <1>4, <2>4, LoginMoves DEF LoginExists, Goes
    <3>2. ~(sessions.ttl > 0)
      BY <1>0, <2>4, MembersAfter
    <3>3. QED BY <2>1, <2>2, <2>4, <3>1, <3>2 DEF MembersInv, LoginStage, AliveIn, AtMostOne
  <2>5. CASE req[r].found /\ sessions.ids # {}
    <3>1. PICK s \in sessions.ids : /\ Goes(r, "spop", req[r].found, {s})
                                    /\ sessions' = RemoveSession(s)
      BY <1>0, <1>4, <2>5, LoginMoves
    <3>2. sessions.ids = {s} /\ s \in Sids
      BY <1>0, <2>2 DEF AtMostOne
    <3>3. sessions'.ids = {} /\ ~(sessions'.ttl > 0)
      BY <3>1, <3>2, MembersAfter
    <3>4. req'[r].pc = "spop" /\ req'[r].ids = {s}
      BY <3>1 DEF Goes
    <3>5. QED BY <2>1, <2>2, <3>2, <3>3, <3>4 DEF MembersInv, LoginStage, AliveIn, AtMostOne
  <2>6. QED BY <2>3, <2>4, <2>5
<1>5. CASE LoginPopped(r)
  <2>1. /\ req[r].pc = "spop" /\ user' = user /\ req'[r].sid = req[r].sid
        /\ req'[r].ids = req[r].ids
    BY <1>0, <1>5, LoginMoves DEF LoginPopped, Goes
  <2>2. user.password /\ sessions.ids = {} /\ AliveIn(req[r].ids)
    BY <2>1 DEF LoginStage
  <2>3. CASE req[r].ids \subseteq {req[r].sid}
    <3>1. req'[r].pc = "readd" /\ sess' = sess /\ sessions' = AddSession(req[r].sid)
      BY <1>0, <1>5, <2>3, LoginMoves DEF LoginPopped, Goes
    <3>2. sessions'.ids = {req[r].sid} /\ ~(sessions'.ttl > 0)
      BY <1>0, <2>2, <3>1, MembersAfter
    <3>3. QED BY <2>1, <2>2, <2>3, <3>1, <3>2 DEF MembersInv, LoginStage, AliveIn, AtMostOne
  <2>4. CASE ~(req[r].ids \subseteq {req[r].sid})
    <3>1. req'[r].pc = "evict" /\ sessions' = sessions
      BY <1>0, <1>5, <2>4, LoginMoves DEF LoginPopped, Goes
    <3>2. \A t \in Sids : sess'[t] > 0 => sess[t] > 0 /\ t \notin req[r].ids
      BY <1>0, <1>5, <2>4, AliveAfter DEF LoginPopped
    <3>3. ~(sessions.ttl > 0)
      BY <1>0, <2>2, MembersAfter
    <3>4. QED BY <2>1, <2>2, <3>1, <3>2, <3>3 DEF MembersInv, LoginStage, AliveIn, AtMostOne
  <2>5. QED BY <2>3, <2>4
<1>6. CASE LoginReadded(r)
  <2>1. /\ req[r].pc = "readd" /\ req'[r].pc = "sadd" /\ req'[r].sid = req[r].sid
        /\ UNCHANGED <<user, sess>> /\ sessions' = AddSession(req[r].sid)
    BY <1>0, <1>6, LoginMoves DEF LoginReadded, CreateSession, Goes
  <2>2. user.password /\ sessions.ids = {req[r].sid} /\ AliveIn(sessions.ids)
    BY <2>1 DEF LoginStage
  <2>3. sessions'.ids = sessions.ids /\ sessions'.ttl = sessions.ttl
    BY <1>0, <2>1, <2>2, MembersAfter
  <2>4. QED BY <2>1, <2>2, <2>3 DEF MembersInv, LoginStage, AliveIn, AtMostOne
<1>7. CASE LoginEvicted(r)
  <2>1. /\ req[r].pc = "evict" /\ req'[r].pc = "sadd" /\ req'[r].sid = req[r].sid
        /\ UNCHANGED <<user, sess>> /\ sessions' = AddSession(req[r].sid)
    BY <1>0, <1>7, LoginMoves DEF LoginEvicted, CreateSession, Goes
  <2>2. user.password /\ sessions.ids = {} /\ AliveIn(sessions.ids)
    BY <2>1 DEF LoginStage
  <2>3. sessions'.ids = {req[r].sid} /\ ~(sessions'.ttl > 0)
    BY <1>0, <2>1, <2>2, MembersAfter
  <2>4. QED BY <2>1, <2>2, <2>3 DEF MembersInv, LoginStage, AliveIn, AtMostOne
<1>8. CASE LoginResponds(r)
  <2>1. req[r].pc = "sadd" /\ req'[r].pc = "over" /\ UNCHANGED <<user, sessions>>
    BY <1>0, <1>8, LoginMoves DEF LoginResponds, Ends
  <2>2. user.password /\ sessions.ids = {req[r].sid} /\ AliveIn(sessions.ids)
    BY <2>1 DEF LoginStage
  <2>3. \A t \in Sids : sess'[t] > 0 => sess[t] > 0 \/ t = req[r].sid
    BY <1>0, <1>8, AliveAfter DEF LoginResponds, Respond, Saved
  <2>4. QED BY <2>1, <2>2, <2>3 DEF MembersInv, LoginStage, AliveIn, AtMostOne
<1>9. QED BY <1>1, <1>2, <1>3, <1>4, <1>5, <1>6, <1>7, <1>8 DEF LoginStep

\* The steps of a logout.
LEMMA LogoutKeepsStage ==
  ASSUME Typed, MembersInv, NEW r \in Reqs, LogoutStep(r), LogoutStage(r)
  PROVE  MembersInv' /\ LogoutStage(r)'
<1>0. /\ TypeOK /\ QueueInv
      /\ req[r].kind = "logout" /\ req[r].sid \in Sids
      /\ sessions \in [ttl : TtlValues, ids : SUBSET Sids]
      /\ user' = user /\ req'[r].sid = req[r].sid
      /\ user.password \in BOOLEAN
  <2>1. req[r].kind = "logout"
    BY LogoutMoves DEF Typed, LogoutStep
  <2>2. user' = user
    BY DEF LogoutStep, LogoutLoads, LogoutRemoved, LogoutCounts, LogoutCleared,
       LogoutResponds, redisVars
  <2>3. req'[r].sid = req[r].sid
    BY ServeMoves DEF Typed, Serve
  <2>4. QED BY <2>1, <2>2, <2>3 DEF Typed, TypeOK, RequestInv
<1>1. CASE LogoutLoads(r)
  <2>1. req[r].pc = "load" /\ sess' = sess /\ AliveIn(sessions.ids)
    BY <1>0, <1>1, LogoutMoves DEF LogoutLoads, LogoutStage, Unauthenticated
  <2>2. CASE ~req[r].loaded
    <3>1. req'[r].pc = "over" /\ sessions' = sessions
      BY <1>0, <1>1, <2>2, LogoutMoves DEF LogoutLoads, Ends
    <3>2. QED BY <1>0, <2>1, <3>1 DEF MembersInv, LogoutStage, AliveIn, AtMostOne
  <2>3. CASE req[r].loaded
    <3>1. req'[r].pc = "srem" /\ sessions' = RemoveSession(req[r].sid)
      BY <1>0, <1>1, <2>3, LogoutMoves DEF LogoutLoads, Goes
    <3>2. sessions.ids = {req[r].sid}
      BY <2>1, <2>3 DEF LogoutStage
    <3>3. sessions'.ids = {} /\ ~(sessions'.ttl > 0)
      BY <1>0, <3>1, <3>2, MembersAfter
    <3>4. QED BY <1>0, <2>1, <3>1, <3>2, <3>3 DEF MembersInv, LogoutStage, AliveIn, AtMostOne
  <2>4. QED BY <2>2, <2>3
<1>2. CASE LogoutRemoved(r)
  <2>1. req[r].pc = "srem" /\ req'[r].pc = "smembers" /\ UNCHANGED <<sessions, sess>>
    BY <1>0, <1>2, LogoutMoves DEF LogoutRemoved, Goes, redisVars
  <2>2. QED BY <1>0, <2>1 DEF MembersInv, LogoutStage, AliveIn, AtMostOne
<1>3. CASE LogoutCounts(r)
  <2>1. req[r].pc = "smembers"
    BY <1>0, <1>3, LogoutMoves
  <2>2. sessions.ids = {} /\ AliveIn({req[r].sid}) /\ ~(sessions.ttl > 0)
    BY <1>0, <2>1, MembersAfter DEF LogoutStage
  <2>3. CASE req[r].ids = {}
    <3>1. req'[r].pc = "delset" /\ sessions' = NoSessions /\ sess' = sess
      BY <1>0, <1>3, <2>3, LogoutMoves DEF LogoutCounts, Goes
    <3>2. sessions'.ids = {} /\ ~(sessions'.ttl > 0)
      BY <1>0, <3>1, MembersAfter
    <3>3. QED BY <1>0, <2>2, <3>1, <3>2 DEF MembersInv, LogoutStage, AliveIn, AtMostOne
  <2>4. CASE req[r].ids # {}
    <3>1. req'[r].pc = "delsess" /\ sessions' = sessions
      BY <1>0, <1>3, <2>4, LogoutMoves DEF LogoutCounts, Goes
    <3>2. \A t \in Sids : sess'[t] > 0 => sess[t] > 0 /\ t # req[r].sid
      BY <1>0, <1>3, <2>4, AliveAfter DEF LogoutCounts
    <3>3. QED BY <1>0, <2>2, <3>1, <3>2 DEF MembersInv, LogoutStage, AliveIn, AtMostOne
  <2>5. QED BY <2>3, <2>4
<1>4. CASE LogoutCleared(r)
  <2>1. req[r].pc = "delset" /\ req'[r].pc = "delsess" /\ sessions' = sessions
    BY <1>0, <1>4, LogoutMoves DEF LogoutCleared, Goes
  <2>2. \A t \in Sids : sess'[t] > 0 => sess[t] > 0 /\ t # req[r].sid
    BY <1>0, <1>4, AliveAfter DEF LogoutCleared
  <2>3. QED BY <1>0, <2>1, <2>2 DEF MembersInv, LogoutStage, AliveIn, AtMostOne
<1>5. CASE LogoutResponds(r)
  <2>1. req[r].pc = "delsess" /\ req'[r].pc = "over" /\ sessions' = sessions
    BY <1>0, <1>5, LogoutMoves DEF LogoutResponds, Ends
  <2>2. \A t \in Sids : sess'[t] > 0 => sess[t] > 0 /\ t # req[r].sid
    BY <1>0, <1>5, AliveAfter DEF LogoutResponds
  <2>3. QED BY <1>0, <2>1, <2>2 DEF MembersInv, LogoutStage, AliveIn, AtMostOne
<1>6. QED BY <1>1, <1>2, <1>3, <1>4, <1>5 DEF LogoutStep

\* The steps of a deletion.
LEMMA DeleteKeepsStage ==
  ASSUME Typed, MembersInv, NEW r \in Reqs, DeleteStep(r), DeleteStage(r)
  PROVE  MembersInv' /\ DeleteStage(r)'
<1>0. /\ TypeOK /\ QueueInv
      /\ req[r].kind = "delete" /\ req[r].sid \in Sids
      /\ sessions \in [ttl : TtlValues, ids : SUBSET Sids]
      /\ user.password \in BOOLEAN
  <2>1. req[r].kind = "delete"
    BY DeleteMoves DEF Typed, DeleteStep
  <2>2. QED BY <2>1 DEF Typed, TypeOK, RequestInv
<1>1. CASE DeleteLoads(r)
  <2>1. req[r].pc = "load" /\ UNCHANGED <<user, sessions, sess>>
    BY <1>0, <1>1, DeleteMoves DEF DeleteLoads, Unauthenticated
  <2>2. req'[r].pc = "over" \/ (req'[r].pc = "smembers" /\ req'[r].ids = sessions.ids)
    BY <1>0, <1>1, DeleteMoves DEF Goes, Ends
  <2>3. QED BY <2>1, <2>2 DEF MembersInv, DeleteStage, AliveIn, AtMostOne
<1>2. CASE DeleteLists(r)
  <2>1. req[r].pc = "smembers" /\ UNCHANGED <<user, sessions>>
    BY <1>0, <1>2, DeleteMoves DEF DeleteLists
  <2>2. AliveIn(sessions.ids) /\ req[r].ids = sessions.ids
    BY <2>1 DEF DeleteStage
  <2>3. CASE req[r].ids = {}
    <3>1. req'[r].pc = "over"
      BY <1>0, <1>2, <2>3, DeleteMoves DEF Ends
    <3>2. \A t \in Sids : sess'[t] > 0 => sess[t] > 0
      BY <1>0, <1>2, <2>3, AliveAfter DEF DeleteLists, Fail
    <3>3. QED BY <2>1, <2>2, <3>1, <3>2 DEF MembersInv, DeleteStage, AliveIn, AtMostOne
  <2>4. CASE req[r].ids # {}
    <3>1. req'[r].pc = "delsess" /\ req'[r].ids = req[r].ids
      BY <1>0, <1>2, <2>4, DeleteMoves DEF Goes
    <3>2. \A t \in Sids : sess'[t] > 0 => sess[t] > 0 /\ t \notin req[r].ids
      BY <1>0, <1>2, <2>4, AliveAfter DEF DeleteLists
    <3>3. QED BY <2>1, <2>2, <3>1, <3>2 DEF MembersInv, DeleteStage, AliveIn, AtMostOne
  <2>5. QED BY <2>3, <2>4
<1>3. CASE DeleteRecords(r)
  <2>1. /\ req[r].pc = "delsess" /\ req'[r].pc = "delset" /\ UNCHANGED <<user, sess>>
        /\ sessions' = NoSessions
    BY <1>0, <1>3, DeleteMoves DEF DeleteRecords, Goes
  <2>2. sessions'.ids = {} /\ ~(sessions'.ttl > 0)
    BY <1>0, <2>1, MembersAfter
  <2>3. QED BY <2>1, <2>2 DEF MembersInv, DeleteStage, AliveIn, AtMostOne
<1>4. CASE DeleteSet(r)
  <2>1. req[r].pc = "delset" /\ req'[r].pc = "deluser" /\ UNCHANGED <<sessions, sess>>
    BY <1>0, <1>4, DeleteMoves DEF DeleteSet, Goes
  <2>2. sessions.ids = {} /\ ~(sessions.ttl > 0) /\ AliveIn({})
    BY <1>0, <2>1, MembersAfter DEF DeleteStage
  <2>3. QED BY <2>1, <2>2 DEF MembersInv, DeleteStage, AliveIn, AtMostOne
<1>5. CASE DeleteResponds(r)
  <2>1. req[r].pc = "deluser" /\ req'[r].pc = "over" /\ UNCHANGED <<user, sessions>>
    BY <1>0, <1>5, DeleteMoves DEF DeleteResponds, Ends
  <2>2. \A t \in Sids : sess'[t] > 0 => sess[t] > 0
    BY <1>0, <1>5, AliveAfter DEF DeleteResponds
  <2>3. QED BY <2>1, <2>2 DEF MembersInv, DeleteStage, AliveIn, AtMostOne
<1>6. QED BY <1>1, <1>2, <1>3, <1>4, <1>5 DEF DeleteStep

\* The steps of registrations and handshakes change no session.
LEMMA LightFrame ==
  ASSUME Typed, NEW r \in Reqs, RegisterStep(r) \/ HandshakeStep(r)
  PROVE  /\ req[r].kind \in Light
         /\ UNCHANGED <<sessions, sess>>
         /\ user'.password = user.password
         /\ user.ttl # Gone => user'.ttl = user.ttl
<1>0. /\ TypeOK /\ QueueInv /\ RequestInv
      /\ user \in [ttl : TtlValues, password : BOOLEAN, key : BOOLEAN]
  BY DEF Typed, TypeOK
<1>1. CASE RegisterStep(r)
  <2>1. req[r].kind = "register"
    BY <1>0, <1>1, RegisterMoves DEF RegisterStep
  <2>2. UNCHANGED <<sessions, sess>> /\ ((\E key \in BOOLEAN : WriteKeyField(key)) \/ UNCHANGED user)
    BY <1>1 DEF RegisterStep, RegisterReads, RegisterConflicts, RegisterReturns,
       redisVars
  <2>3. (\E key \in BOOLEAN : WriteKeyField(key)) =>
          /\ user'.password = user.password
          /\ user.ttl # Gone => user'.ttl = user.ttl
    BY <1>0 DEF WriteKeyField, Created
  <2>4. QED BY <2>1, <2>2, <2>3 DEF Light
<1>2. CASE HandshakeStep(r)
  <2>1. req[r].kind = "handshake"
    BY <1>0, <1>2, HandshakeMoves DEF HandshakeStep, HandshakeJoins, RequestInv
  <2>2. UNCHANGED <<user, sessions, sess>>
    BY <1>2 DEF HandshakeStep, HandshakeLoads, HandshakeJoins, redisVars
  <2>3. QED BY <2>1, <2>2 DEF Light
<1>3. QED BY <1>1, <1>2

\* A step of a request: a light one meets only light ones, another one is alone.
LEMMA ServeQuiet ==
  ASSUME Typed, Alone, QuietInv, NEW r \in Reqs, Serve(r)
  PROVE  QuietInv'
<1> SUFFICES ASSUME disturbed' <= Deletion
             PROVE  /\ MembersInv'
                    /\ (\A k \in Active' : req'[k].kind \in Light) =>
                         AliveIn(sessions.ids)'
                    /\ \A k \in Active' : Stage(k)'
  BY DEF QuietInv
<1>0. /\ TypeOK /\ QueueInv /\ RequestInv
      /\ disturbed <= Deletion /\ disturbed < Overlap
      /\ MembersInv
      /\ (\A k \in Active : req[k].kind \in Light) => AliveIn(sessions.ids)
      /\ \A k \in Active : Stage(k)
  <2>1. disturbed <= disturbed' /\ disturbed \in 0..3 /\ disturbed' \in 0..3
    BY NeverForgotten DEF Next
  <2>2. QED BY <2>1 DEF Typed, QuietInv, Deletion, Overlap
<1>1. /\ \A k \in Reqs \ {r} : req'[k] = req[k]
      /\ req'[r].kind = req[r].kind /\ req'[r].sid = req[r].sid
      /\ req'[r].pc # "over" => req'[r].loaded = req[r].loaded
      /\ Active' \subseteq Active /\ r \in Active
      /\ r \in Active' <=> req'[r].pc # "over"
      /\ \A k \in Active : req'[k].kind = req[k].kind
      /\ req[r].pc # "over" /\ req[r].pc # "idle"
  BY <1>0, ServeMoves, ServeActive DEF Active, Waiting, Elsewhere
<1>2. CASE RegisterStep(r) \/ HandshakeStep(r)
  <2>1. /\ req[r].kind \in Light
        /\ UNCHANGED <<sessions, sess>>
        /\ user'.password = user.password
        /\ user.ttl # Gone => user'.ttl = user.ttl
    BY <1>2, LightFrame
  <2>2. \A k \in Active : req[k].kind \in Light
    BY <1>0, <1>1, <2>1 DEF Alone
  <2>3. AliveIn(sessions.ids)'
    BY <1>0, <2>1, <2>2 DEF AliveIn
  <2>4. MembersInv'
    <3>1. sessions.ttl > 0 => user.ttl # Gone
      BY <1>0, MembersAfter, Numbers DEF MembersInv, Gone
    <3>2. QED BY <1>0, <2>1, <3>1 DEF MembersInv, AtMostOne
  <2>5. ASSUME NEW k \in Active' PROVE Stage(k)'
    <3>1. k \in Active /\ Stage(k) /\ req'[k].kind = req[k].kind /\ req[k].kind \in Light
      BY <1>0, <1>1, <2>2
    <3>2. req'[k].loaded = req[k].loaded /\ req'[k].sid = req[k].sid
      <4>1. k \in Reqs
        BY <3>1 DEF Active
      <4>2. QED BY <1>1, <2>5, <4>1
    <3>3. QED BY <2>1, <3>1, <3>2 DEF Stage, Light
  <2>6. QED BY <2>3, <2>4, <2>5
<1>3. CASE ~(RegisterStep(r) \/ HandshakeStep(r))
  <2>1. SignupStep(r) \/ LoginStep(r) \/ LogoutStep(r) \/ DeleteStep(r)
    BY <1>3 DEF Serve
  <2>2. req[r].kind \in {"signup", "login", "logout", "delete"} /\ Stage(r)
    BY <1>0, <1>1, <2>1, SignupMoves, LoginMoves, LogoutMoves, DeleteMoves
       DEF SignupStep, LoginStep, LogoutStep, DeleteStep
  <2>3. Active' \subseteq {r}
    <3>1. req[r].kind \notin Light
      BY <2>2 DEF Light
    <3>2. QED BY <1>0, <1>1, <3>1 DEF Alone
  <2>4. MembersInv' /\ Stage(r)' /\ (req'[r].pc = "over" => AliveIn(sessions.ids)')
    <3>1. CASE SignupStep(r)
      <4>1. req[r].kind = "signup"
        BY <1>0, <3>1, SignupMoves DEF SignupStep
      <4>2. MembersInv' /\ SignupStage(r)'
        BY <1>0, <2>2, <3>1, <4>1, SignupKeepsStage DEF Stage
      <4>3. QED BY <1>1, <4>1, <4>2 DEF Stage, SignupStage
    <3>2. CASE LoginStep(r)
      <4>1. req[r].kind = "login"
        BY <1>0, <3>2, LoginMoves DEF LoginStep
      <4>2. MembersInv' /\ LoginStage(r)'
        BY <1>0, <2>2, <3>2, <4>1, LoginKeepsStage DEF Stage
      <4>3. QED BY <1>1, <4>1, <4>2 DEF Stage, LoginStage
    <3>3. CASE LogoutStep(r)
      <4>1. req[r].kind = "logout"
        BY <1>0, <3>3, LogoutMoves DEF LogoutStep
      <4>2. MembersInv' /\ LogoutStage(r)'
        BY <1>0, <2>2, <3>3, <4>1, LogoutKeepsStage DEF Stage
      <4>3. QED BY <1>1, <4>1, <4>2 DEF Stage, LogoutStage
    <3>4. CASE DeleteStep(r)
      <4>1. req[r].kind = "delete"
        BY <1>0, <3>4, DeleteMoves DEF DeleteStep
      <4>2. MembersInv' /\ DeleteStage(r)'
        BY <1>0, <2>2, <3>4, <4>1, DeleteKeepsStage DEF Stage
      <4>3. QED BY <1>1, <4>1, <4>2 DEF Stage, DeleteStage
    <3>5. QED BY <2>1, <3>1, <3>2, <3>3, <3>4
  <2>5. (\A k \in Active' : req'[k].kind \in Light) => AliveIn(sessions.ids)'
    <3>1. req'[r].kind \notin Light
      BY <1>1, <2>2 DEF Light
    <3>2. QED BY <1>1, <2>4, <3>1
  <2>6. QED BY <2>3, <2>4, <2>5
<1>4. QED BY <1>2, <1>3

\* A request that arrives finds what is alive in the set.
LEMMA ArriveQuiet ==
  ASSUME Typed, QuietInv, NEW r \in Reqs, NEW kind \in Kinds,
         NEW s \in Sids \cup {"none"}, NEW p \in {"load", "hget"}, NEW loaded, NEW found,
         Begins(r, kind, p, s, loaded, found),
         kind # "register" => p = "load" /\ s \in Sids /\ loaded = (sess[s] > 0),
         disturbed' = IF Overlaps(kind) THEN Overlap ELSE disturbed,
         UNCHANGED <<user, sessions, sess>>
  PROVE  QuietInv'
<1> SUFFICES ASSUME disturbed' <= Deletion
             PROVE  /\ MembersInv'
                    /\ (\A k \in Active' : req'[k].kind \in Light) =>
                         AliveIn(sessions.ids)'
                    /\ \A k \in Active' : Stage(k)'
  BY DEF QuietInv
<1>1. disturbed \in 0..3
  BY DEF Typed, TypeOK, Undisturbed, Overlap
<1>2. /\ disturbed <= Deletion
      /\ \A k \in Active : {kind, req[k].kind} \subseteq Light
  <2>1. disturbed' < Overlap
    BY <1>1 DEF Deletion, Overlap
  <2>2. QED BY <2>1, ArriveAlone
<1>3. MembersInv /\ AliveIn(sessions.ids) /\ \A k \in Active : Stage(k)
  BY <1>2 DEF QuietInv
<1>4. AliveIn(sessions.ids)' /\ MembersInv'
  BY <1>3 DEF AliveIn, MembersInv, AtMostOne
<1>5. Stage(r)'
  <2>1. /\ req'[r].kind = kind /\ req'[r].pc = p /\ req'[r].sid = s
        /\ req'[r].loaded = loaded
    BY DEF Begins
  <2>2. CASE kind = "register"
    BY <2>1, <2>2 DEF Stage
  <2>3. CASE kind # "register"
    <3>1. p = "load" /\ (loaded => s \in sessions.ids)
      BY <1>3, <2>3 DEF AliveIn
    <3>2. loaded => sessions.ids = {s}
      BY <1>3, <3>1 DEF MembersInv, AtMostOne
    <3>3. QED
      BY <1>4, <2>1, <3>1, <3>2 DEF Stage, SignupStage, LoginStage, LogoutStage,
         DeleteStage, AliveIn
  <2>4. QED BY <2>2, <2>3
<1>6. ASSUME NEW k \in Active', k # r PROVE Stage(k)'
  <2>1. req'[k] = req[k] /\ k \in Active
    BY <1>6 DEF Begins, Active
  <2>2. Stage(k) /\ req[k].kind \in Light
    BY <1>2, <1>3, <2>1
  <2>3. QED BY <2>1, <2>2 DEF Stage, Light
<1>7. QED BY <1>4, <1>5, <1>6

\* Time: the set expires only with the account.
LEMMA TickQuiet ==
  ASSUME Typed, QuietInv, Tick
  PROVE  QuietInv'
<1> SUFFICES ASSUME disturbed' <= Deletion
             PROVE  /\ MembersInv'
                    /\ (\A k \in Active' : req'[k].kind \in Light) =>
                         AliveIn(sessions.ids)'
                    /\ \A k \in Active' : Stage(k)'
  BY DEF QuietInv
<1>1. /\ disturbed \in 0..3 /\ TypeOK
      /\ user.ttl \in TtlValues /\ sessions.ttl \in TtlValues
      /\ user \in [ttl : TtlValues, password : BOOLEAN, key : BOOLEAN]
  BY DEF Typed, TypeOK, Undisturbed, Overlap
<1>2. user.ttl # 1 /\ disturbed' = disturbed
  <2>1. Disturbs(Interruption) > Deletion
    BY <1>1 DEF Disturbs, Interruption, Deletion
  <2>2. Disturbs(Interruption) \in 0..3
    BY <1>1 DEF Disturbs, Interruption
  <2>3. QED BY <1>1, <2>1, <2>2 DEF Tick, Deletion
<1>3. /\ MembersInv
      /\ (\A r \in Active : req[r].kind \in Light) => AliveIn(sessions.ids)
      /\ \A r \in Active : Stage(r)
  BY <1>2 DEF QuietInv
<1>4. sessions.ttl # 1
  BY <1>2, <1>3 DEF MembersInv
<1>5. /\ sessions'.ids = sessions.ids
      /\ \A s \in Sids : sess'[s] > 0 => sess[s] > 0
      /\ Active' = Active /\ req' = req
  <2>1. \A s \in Sids : sess'[s] = IF sess[s] > 0 THEN sess[s] - 1 ELSE 0
    BY <1>1, TickRedis
  <2>2. QED BY <1>1, <1>4, <2>1, TickRedis DEF Tick, Active
<1>6. user'.password = user.password
  BY <1>1, <1>2, TickRedis
<1>7. sessions'.ttl > 0 => sessions'.ttl = user'.ttl
  <2>1. CASE sessions.ttl \in {Gone, NoTtl}
    <3>1. sessions'.ttl = sessions.ttl
      BY <1>1, <2>1, TickRedis
    <3>2. QED BY <2>1, <3>1 DEF Gone, NoTtl
  <2>2. CASE sessions.ttl \notin {Gone, NoTtl}
    <3>1. sessions.ttl > 0
      BY <1>1, <2>2, Numbers
    <3>2. user.ttl = sessions.ttl
      BY <1>3, <3>1 DEF MembersInv
    <3>3. sessions'.ttl = sessions.ttl - 1 /\ user'.ttl = user.ttl - 1
      BY <1>1, <1>4, <2>2, <3>2, TickRedis
    <3>4. QED BY <3>2, <3>3
  <2>3. QED BY <2>1, <2>2
<1>8. MembersInv'
  BY <1>3, <1>5, <1>6, <1>7 DEF MembersInv, AtMostOne
<1>9. \A S : AliveIn(S) => \A s \in Sids : sess'[s] > 0 => s \in S
  BY <1>5 DEF AliveIn
<1>10. (\A k \in Active' : req'[k].kind \in Light) => AliveIn(sessions.ids)'
  BY <1>3, <1>5, <1>9 DEF AliveIn
<1>11. ASSUME NEW r \in Active' PROVE Stage(r)'
  <2>1. Stage(r)
    BY <1>3, <1>5
  <2>2. SignupStage(r) => SignupStage(r)'
    BY <1>5, <1>6 DEF SignupStage, AliveIn
  <2>3. LoginStage(r) => LoginStage(r)'
    BY <1>5, <1>6 DEF LoginStage, AliveIn, AtMostOne
  <2>4. LogoutStage(r) => LogoutStage(r)'
    BY <1>5 DEF LogoutStage, AliveIn
  <2>5. DeleteStage(r) => DeleteStage(r)'
    BY <1>5 DEF DeleteStage, AliveIn
  <2>6. QED BY <1>5, <2>1, <2>2, <2>3, <2>4, <2>5 DEF Stage
<1>12. QED BY <1>8, <1>10, <1>11

LEMMA InitQuiet == Init => QuietInv
<1> SUFFICES ASSUME Init PROVE QuietInv
  OBVIOUS
<1>1. MembersInv
  BY DEF Init, MembersInv, AtMostOne, NoSessions, Gone
<1>2. AliveIn(sessions.ids)
  BY DEF Init, AliveIn
<1>3. Active = {}
  BY DEF Init, Active, Idle, Waiting, Elsewhere
<1>4. QED BY <1>1, <1>2, <1>3 DEF QuietInv

LEMMA NextQuiet == Typed /\ Alone /\ QuietInv /\ [Next]_vars => QuietInv'
<1> SUFFICES ASSUME Typed, Alone, QuietInv, [Next]_vars PROVE QuietInv'
  OBVIOUS
<1>0. TypeOK /\ QueueInv
  BY DEF Typed
<1>1. ASSUME NEW r \in Reqs, NEW k \in Kinds, NEW s \in Sids, StartRequest(r, k, s)
      PROVE  QuietInv'
  <2>1. Begins(r, k, "load", s, sess[s] > 0, FALSE)
    BY <1>0, <1>1, ArriveMoves
  <2>2. /\ disturbed' = IF Overlaps(k) THEN Overlap ELSE disturbed
        /\ UNCHANGED <<user, sessions, sess>>
    BY <1>1 DEF StartRequest, redisVars
  <2>3. QED BY <2>1, <2>2, ArriveQuiet
<1>2. ASSUME NEW r \in Reqs, NEW c \in sockets, StartRegister(r, c) PROVE QuietInv'
  <2>1. Begins(r, "register", "hget", "none", FALSE, user.key) /\ "register" \in Kinds
    BY <1>0, <1>2, ArriveMoves DEF Kinds
  <2>2. /\ disturbed' = IF Overlaps("register") THEN Overlap ELSE disturbed
        /\ UNCHANGED <<user, sessions, sess>>
    BY <1>2 DEF StartRegister, redisVars
  <2>3. QED BY <2>1, <2>2, ArriveQuiet
<1>3. ASSUME NEW r \in Reqs, Serve(r) PROVE QuietInv'
  BY <1>3, ServeQuiet
<1>4. CASE Tick
  BY <1>4, TickQuiet
<1>5. CASE Crash
  <2>1. disturbed \in 0..3
    BY <1>0 DEF TypeOK, Undisturbed, Overlap
  <2>2. Active # {} => ~(disturbed' <= Deletion)
    BY <1>5, <2>1 DEF Crash, Disturbs, Interruption, Deletion
  <2>3. Active = {} => disturbed' = disturbed
    BY <1>5 DEF Crash
  <2>4. Active' = {} /\ UNCHANGED <<user, sessions, sess>>
    BY <1>0, <1>5, CrashMoves DEF Crash, redisVars
  <2>5. QED BY <2>2, <2>3, <2>4 DEF QuietInv, MembersInv, AtMostOne, AliveIn
<1>6. CASE UNCHANGED <<user, sessions, sess, req, disturbed>>
  <2>1. Active' = Active
    BY <1>6 DEF Active
  <2>2. QED
    BY <1>6, <2>1 DEF QuietInv, MembersInv, AtMostOne, AliveIn, Stage, SignupStage,
       LoginStage, LogoutStage, DeleteStage
<1>7. QED
  BY <1>1, <1>2, <1>3, <1>4, <1>5, <1>6, Steps
     DEF SocketCloses, ExpiryEvent, vars, redisVars, historyVars

LEMMA QuietInvariant == Spec => [](Typed /\ Alone /\ QuietInv)
<1>1. Typed /\ Alone /\ [Next]_vars => Alone'
  BY NextAlone
<1>2. Typed /\ Alone /\ QuietInv /\ [Next]_vars => QuietInv'
  BY NextQuiet
<1>3. QED BY <1>1, <1>2, InitAlone, InitQuiet, TypedInv, PTL DEF Spec

\* OneDevice: no two sessions of a name are alive, unless requests overlapped, a
\* crash stopped one half-way, or the account expired.
THEOREM OneDeviceCorrect == Spec => []OneDevice
<1>1. Typed /\ Alone /\ QuietInv => OneDevice
  <2> SUFFICES ASSUME Typed, Alone, QuietInv, disturbed <= Deletion
               PROVE  AtMostOne(Live)
    BY AtMostOneCardinality DEF OneDevice
  <2>1. /\ MembersInv
        /\ (\A r \in Active : req[r].kind \in Light) => AliveIn(sessions.ids)
        /\ \A r \in Active : Stage(r)
    BY DEF QuietInv
  <2>2. ASSUME NEW S, AtMostOne(S), AliveIn(S) PROVE AtMostOne(Live)
    BY <2>2 DEF AtMostOne, AliveIn, Live
  <2>3. CASE \A r \in Active : req[r].kind \in Light
    BY <2>1, <2>2, <2>3 DEF MembersInv
  <2>4. ASSUME NEW r \in Active, req[r].kind \notin Light PROVE AtMostOne(Live)
    <3>1. /\ req[r].kind \in {"signup", "login", "logout", "delete"}
          /\ req[r].pc \in Waiting \cup Elsewhere
          /\ Stage(r)
      BY <2>1, <2>4 DEF Typed, RequestInv, TypeOK, Active, Kinds, Light, Waiting, Elsewhere
    <3>2. AtMostOne({}) /\ AtMostOne({req[r].sid}) /\ AtMostOne(sessions.ids)
      BY <2>1 DEF AtMostOne, MembersInv
    <3>3. CASE req[r].kind = "signup"
      BY <2>2, <3>1, <3>2, <3>3 DEF Stage, SignupStage
    <3>4. CASE req[r].kind = "login"
      BY <2>2, <3>1, <3>2, <3>4 DEF Stage, LoginStage
    <3>5. CASE req[r].kind = "logout"
      BY <2>2, <3>1, <3>2, <3>5 DEF Stage, LogoutStage
    <3>6. CASE req[r].kind = "delete"
      BY <2>2, <3>1, <3>2, <3>6 DEF Stage, DeleteStage
    <3>7. QED BY <3>1, <3>3, <3>4, <3>5, <3>6
  <2>5. QED BY <2>3, <2>4
<1>2. QED BY <1>1, QuietInvariant, PTL

\* Tracked: every session that is alive is in the sessions set.
THEOREM TrackedCorrect == Spec => []Tracked
<1>1. QuietInv => Tracked
  BY DEF QuietInv, Tracked, AliveIn, Live
<1>2. QED BY <1>1, QuietInvariant, PTL

\* OneMember: the sessions set has one member, as the login that pops one relies on.
THEOREM OneMemberCorrect == Spec => []OneMember
<1>1. QuietInv => OneMember
  BY AtMostOneCardinality DEF QuietInv, OneMember, MembersInv
<1>2. QED BY <1>1, QuietInvariant, PTL

-----------------------------------------------------------------------------
(* One device in the room.  The session of its sockets is in the set or, while *)
(* a request takes it from there, in that request's hand.                      *)

RoomIn(S) == \A c \in sockets : req[c].sid \in S

Hand(r) ==
  IF \/ req[r].kind = "login" /\ req[r].pc \in {"spop", "evict"}
     \/ req[r].kind = "delete" /\ req[r].pc = "delset"
  THEN req[r].ids
  ELSE IF req[r].kind = "logout" /\ req[r].pc \in {"srem", "smembers", "delset", "delsess"}
       THEN {req[r].sid}
       ELSE sessions.ids

RoomInv ==
  /\ \A c \in sockets : req[c].pc = "over"
  /\ disturbed = Undisturbed =>
       /\ (\A r \in Active : req[r].kind \in Light) => RoomIn(sessions.ids)
       /\ \A r \in Active : RoomIn(Hand(r)) /\ AtMostOne(Hand(r))

\* What a step of a request does to its hand, and to the room.
LEMMA SignupHand ==
  ASSUME Typed, MembersInv', NEW r \in Reqs, SignupStep(r), SignupStage(r)
  PROVE  /\ AtMostOne(Hand(r)')
         /\ sockets' = sockets /\ Hand(r) \subseteq Hand(r)'
<1>0. /\ TypeOK /\ QueueInv /\ req[r].kind = "signup" /\ req[r].sid \in Sids
      /\ req'[r].kind = "signup"
  <2>1. req[r].kind = "signup"
    BY SignupMoves DEF Typed, SignupStep
  <2>2. req'[r].kind = "signup"
    BY <2>1, ServeMoves DEF Typed, Serve
  <2>3. QED BY <2>1, <2>2 DEF Typed, RequestInv
<1>1. Hand(r) = sessions.ids /\ Hand(r)' = sessions'.ids
  BY <1>0 DEF Hand
<1>2. sessions.ids \subseteq sessions'.ids
  <2>1. CASE SignupStored(r)
    BY <1>0, <2>1, MembersAfter DEF SignupStored
  <2>2. CASE SignupSetsTtl(r)
    <3>1. sessions \in [ttl : TtlValues, ids : SUBSET Sids]
      BY <1>0 DEF TypeOK
    <3>2. QED BY <2>2, <3>1 DEF SignupSetsTtl
  <2>3. CASE UNCHANGED sessions
    BY <2>3
  <2>4. QED
    BY <2>1, <2>2, <2>3 DEF SignupStep, SignupLoads, SignupHashes, SignupExists,
       SignupResponds, redisVars
<1>3. sockets' = sockets
  BY DEF SignupStep, SignupLoads, SignupHashes, SignupExists, SignupStored,
     SignupSetsTtl, SignupResponds
<1>4. QED BY <1>1, <1>2, <1>3 DEF MembersInv

LEMMA LoginHand ==
  ASSUME Typed, MembersInv, MembersInv', NEW r \in Reqs, LoginStep(r), LoginStage(r),
         AtMostOne(Hand(r))
  PROVE  /\ AtMostOne(Hand(r)')
         /\ sockets' = {} \/ (sockets' = sockets /\ Hand(r) \subseteq Hand(r)')
<1>0. /\ TypeOK /\ QueueInv /\ req[r].kind = "login" /\ req[r].sid \in Sids
      /\ req'[r].kind = "login"
      /\ AtMostOne(sessions'.ids) /\ AtMostOne(sessions.ids)
  <2>1. req[r].kind = "login"
    BY LoginMoves DEF Typed, LoginStep
  <2>2. req'[r].kind = "login"
    BY <2>1, ServeMoves DEF Typed, Serve
  <2>3. QED BY <2>1, <2>2 DEF Typed, RequestInv, MembersInv
<1>1. /\ Hand(r) = IF req[r].pc \in {"spop", "evict"} THEN req[r].ids ELSE sessions.ids
      /\ Hand(r)' = IF req'[r].pc \in {"spop", "evict"} THEN req'[r].ids
                    ELSE sessions'.ids
  BY <1>0 DEF Hand
<1>2. CASE LoginLoads(r) \/ LoginReadsPassword(r) \/ LoginCompares(r) \/ LoginResponds(r)
  <2>1. UNCHANGED <<sessions, sockets>>
    BY <1>2 DEF LoginLoads, LoginReadsPassword, LoginCompares, LoginResponds, redisVars
  <2>2. req[r].pc \notin {"spop", "evict"} /\ req'[r].pc \notin {"spop", "evict"}
    BY <1>0, <1>2, LoginMoves DEF Goes, Ends
  <2>3. QED BY <1>0, <1>1, <2>1, <2>2
<1>3. CASE LoginExists(r)
  <2>1. req[r].pc = "exists" /\ sockets' = sockets
    BY <1>0, <1>3, LoginMoves DEF LoginExists
  <2>2. CASE ~req[r].found
    <3>1. req'[r].pc = "sadd" /\ sessions' = AddSession(req[r].sid)
      BY <1>0, <1>3, <2>2, LoginMoves DEF LoginExists, CreateSession, Goes
    <3>2. sessions.ids \subseteq sessions'.ids
      BY <1>0, <3>1, MembersAfter
    <3>3. QED BY <1>0, <1>1, <2>1, <3>1, <3>2
  <2>3. CASE req[r].found /\ sessions.ids = {}
    <3>1. req'[r].pc = "spop" /\ req'[r].ids = {}
      BY <1>0, <1>3, <2>3, LoginMoves DEF Goes
    <3>2. QED BY <1>1, <2>1, <2>3, <3>1 DEF AtMostOne
  <2>4. CASE req[r].found /\ sessions.ids # {}
    <3>1. PICK s \in sessions.ids : Goes(r, "spop", req[r].found, {s})
      BY <1>0, <1>3, <2>4, LoginMoves
    <3>2. sessions.ids = {s} /\ req'[r].pc = "spop" /\ req'[r].ids = {s}
      BY <1>0, <3>1 DEF AtMostOne, Goes
    <3>3. QED BY <1>1, <2>1, <3>2 DEF AtMostOne
  <2>5. QED BY <2>2, <2>3, <2>4
<1>4. CASE LoginPopped(r)
  <2>1. /\ req[r].pc = "spop" /\ sockets' = sockets /\ req'[r].ids = req[r].ids
    BY <1>0, <1>4, LoginMoves DEF LoginPopped, Goes
  <2>2. CASE req[r].ids \subseteq {req[r].sid}
    <3>1. req'[r].pc = "readd" /\ sessions' = AddSession(req[r].sid)
      BY <1>0, <1>4, <2>2, LoginMoves DEF LoginPopped, Goes
    <3>2. req[r].ids \subseteq sessions'.ids
      BY <1>0, <2>2, <3>1, MembersAfter
    <3>3. QED BY <1>0, <1>1, <2>1, <3>1, <3>2
  <2>3. CASE ~(req[r].ids \subseteq {req[r].sid})
    <3>1. req'[r].pc = "evict"
      BY <1>0, <1>4, <2>3, LoginMoves DEF Goes
    <3>2. QED BY <1>1, <2>1, <3>1
  <2>4. QED BY <2>2, <2>3
<1>5. CASE LoginReadded(r)
  <2>1. /\ req[r].pc = "readd" /\ req'[r].pc = "sadd" /\ sockets' = sockets
        /\ sessions' = AddSession(req[r].sid)
    BY <1>0, <1>5, LoginMoves DEF LoginReadded, CreateSession, Goes
  <2>2. sessions.ids \subseteq sessions'.ids
    BY <1>0, <2>1, MembersAfter
  <2>3. QED BY <1>0, <1>1, <2>1, <2>2
<1>6. CASE LoginEvicted(r)
  <2>1. req'[r].pc = "sadd" /\ sockets' = {}
    BY <1>0, <1>6, LoginMoves DEF LoginEvicted, Goes
  <2>2. QED BY <1>0, <1>1, <2>1
<1>7. QED BY <1>2, <1>3, <1>4, <1>5, <1>6 DEF LoginStep

LEMMA LogoutHand ==
  ASSUME Typed, MembersInv', NEW r \in Reqs, LogoutStep(r), LogoutStage(r)
  PROVE  /\ AtMostOne(Hand(r)')
         /\ sockets' = {} \/ (sockets' = sockets /\ Hand(r) \subseteq Hand(r)')
<1> DEFINE Holding == {"srem", "smembers", "delset", "delsess"}
<1>0. /\ TypeOK /\ QueueInv /\ req[r].kind = "logout"
      /\ req'[r].kind = "logout" /\ req'[r].sid = req[r].sid
      /\ AtMostOne(sessions'.ids) /\ AtMostOne({req[r].sid})
  <2>1. req[r].kind = "logout"
    BY LogoutMoves DEF Typed, LogoutStep
  <2>2. req'[r].kind = "logout" /\ req'[r].sid = req[r].sid
    BY <2>1, ServeMoves DEF Typed, Serve
  <2>3. QED BY <2>1, <2>2 DEF Typed, MembersInv, AtMostOne
<1>1. /\ Hand(r) = IF req[r].pc \in Holding THEN {req[r].sid} ELSE sessions.ids
      /\ Hand(r)' = IF req'[r].pc \in Holding THEN {req[r].sid} ELSE sessions'.ids
  BY <1>0 DEF Hand
<1>2. CASE LogoutLoads(r)
  <2>1. req[r].pc = "load" /\ sockets' = sockets
    BY <1>0, <1>2, LogoutMoves DEF LogoutLoads
  <2>2. CASE req[r].loaded
    <3>1. req'[r].pc = "srem" /\ sessions.ids = {req[r].sid}
      BY <1>0, <1>2, <2>1, <2>2, LogoutMoves DEF Goes, LogoutStage
    <3>2. QED BY <1>0, <1>1, <2>1, <3>1
  <2>3. CASE ~req[r].loaded
    <3>1. req'[r].pc = "over" /\ sessions' = sessions
      BY <1>0, <1>2, <2>3, LogoutMoves DEF Ends, LogoutLoads
    <3>2. QED BY <1>0, <1>1, <2>1, <3>1
  <2>4. QED BY <2>2, <2>3
<1>3. CASE LogoutRemoved(r) \/ LogoutCounts(r) \/ LogoutCleared(r)
  <2>1. sockets' = sockets
    BY <1>3 DEF LogoutRemoved, LogoutCounts, LogoutCleared
  <2>2. req[r].pc \in Holding /\ req'[r].pc \in Holding
    BY <1>0, <1>3, LogoutMoves DEF Goes
  <2>3. QED BY <1>0, <1>1, <2>1, <2>2
<1>4. CASE LogoutResponds(r)
  BY <1>0, <1>1, <1>4 DEF LogoutResponds
<1>5. QED BY <1>2, <1>3, <1>4 DEF LogoutStep

LEMMA DeleteHand ==
  ASSUME Typed, MembersInv, MembersInv', NEW r \in Reqs, DeleteStep(r), DeleteStage(r),
         disturbed' = Undisturbed
  PROVE  /\ AtMostOne(Hand(r)')
         /\ sockets' = sockets /\ Hand(r) \subseteq Hand(r)'
<1>0. /\ TypeOK /\ QueueInv /\ req[r].kind = "delete" /\ req'[r].kind = "delete"
      /\ AtMostOne(sessions'.ids) /\ AtMostOne(sessions.ids)
      /\ sockets' = sockets
  <2>1. req[r].kind = "delete"
    BY DeleteMoves DEF Typed, DeleteStep
  <2>2. req'[r].kind = "delete"
    BY <2>1, ServeMoves DEF Typed, Serve
  <2>3. sockets' = sockets
    BY DEF DeleteStep, DeleteLoads, DeleteLists, DeleteRecords, DeleteSet, DeleteResponds
  <2>4. QED BY <2>1, <2>2, <2>3 DEF Typed, MembersInv
<1>1. /\ Hand(r) = IF req[r].pc = "delset" THEN req[r].ids ELSE sessions.ids
      /\ Hand(r)' = IF req'[r].pc = "delset" THEN req'[r].ids ELSE sessions'.ids
  BY <1>0 DEF Hand
<1>2. CASE DeleteLoads(r) \/ DeleteLists(r) \/ DeleteResponds(r)
  <2>1. sessions' = sessions
    BY <1>2 DEF DeleteLoads, DeleteLists, DeleteResponds
  <2>2. req[r].pc # "delset" /\ req'[r].pc # "delset"
    BY <1>0, <1>2, DeleteMoves DEF Goes, Ends
  <2>3. QED BY <1>0, <1>1, <2>1, <2>2
<1>3. CASE DeleteRecords(r)
  <2>1. req[r].pc = "delsess" /\ req'[r].pc = "delset" /\ req'[r].ids = req[r].ids
    BY <1>0, <1>3, DeleteMoves DEF Goes
  <2>2. req[r].ids = sessions.ids
    BY <2>1 DEF DeleteStage
  <2>3. QED BY <1>0, <1>1, <2>1, <2>2
<1>4. CASE DeleteSet(r)
  <2>1. disturbed \in 0..3
    BY <1>0 DEF TypeOK, Undisturbed, Overlap
  <2>2. FALSE
    BY <1>4, <2>1 DEF DeleteSet, Disturbs, Deletion, Undisturbed
  <2>3. QED BY <2>2
<1>5. QED BY <1>2, <1>3, <1>4 DEF DeleteStep

\* A socket joins the room with the session its handshake has loaded.
LEMMA LightRoom ==
  ASSUME Typed, NEW r \in Reqs, RegisterStep(r) \/ HandshakeStep(r)
  PROVE  \/ sockets' = sockets
         \/ /\ sockets' = sockets \cup {r} /\ req'[r].pc = "over"
            /\ req[r].kind = "handshake" /\ req[r].loaded
<1>1. CASE RegisterStep(r)
  BY <1>1 DEF RegisterStep, RegisterReads, RegisterConflicts, RegisterReturns
<1>2. CASE HandshakeLoads(r)
  BY <1>2 DEF HandshakeLoads
<1>3. CASE HandshakeJoins(r)
  <2>1. req[r].pc = "joining" /\ req'[r].pc = "over" /\ sockets' = sockets \cup {r}
    BY <1>3, HandshakeMoves DEF Typed, HandshakeJoins, Ends
  <2>2. QED BY <2>1 DEF Typed, RequestInv
<1>4. QED BY <1>1, <1>2, <1>3 DEF HandshakeStep

LEMMA ServeRoom ==
  ASSUME Typed, Alone, QuietInv, RoomInv, NEW r \in Reqs, Serve(r)
  PROVE  RoomInv'
<1>0. /\ TypeOK /\ QueueInv /\ RequestInv
      /\ \A c \in sockets : req[c].pc = "over"
      /\ sockets \subseteq Reqs
  BY DEF Typed, RoomInv, TypeOK
<1>1. /\ \A k \in Reqs \ {r} : req'[k] = req[k]
      /\ req'[r].kind = req[r].kind /\ req'[r].sid = req[r].sid
      /\ Active' \subseteq Active /\ r \in Active
      /\ r \in Active' <=> req'[r].pc # "over"
      /\ \A k \in Active : req'[k].kind = req[k].kind
      /\ req[r].pc # "over"
  BY <1>0, ServeMoves, ServeActive DEF Active, Waiting, Elsewhere
<1>2. /\ \A c \in sockets : c # r /\ req'[c] = req[c]
      /\ \A S : RoomIn(S) => \A c \in sockets : req'[c].sid \in S
  BY <1>0, <1>1 DEF RoomIn
<1>3. \A c \in sockets' : req'[c].pc = "over"
  <2>1. CASE RegisterStep(r) \/ HandshakeStep(r)
    BY <1>0, <1>2, <2>1, LightRoom
  <2>2. CASE sockets' \subseteq sockets
    BY <1>0, <1>2, <2>2
  <2>3. QED
    BY <2>1, <2>2 DEF Serve, SignupStep, SignupLoads, SignupHashes, SignupExists,
       SignupStored, SignupSetsTtl, SignupResponds, LoginStep, LoginLoads,
       LoginReadsPassword, LoginCompares, LoginExists, LoginPopped, LoginReadded,
       LoginEvicted, LoginResponds, LogoutStep, LogoutLoads, LogoutRemoved,
       LogoutCounts, LogoutCleared, LogoutResponds, DeleteStep, DeleteLoads,
       DeleteLists, DeleteRecords, DeleteSet, DeleteResponds
<1>4. ASSUME disturbed' = Undisturbed
      PROVE  /\ (\A k \in Active' : req'[k].kind \in Light) => RoomIn(sessions.ids)'
             /\ \A k \in Active' : RoomIn(Hand(k))' /\ AtMostOne(Hand(k)')
  <2>0. /\ disturbed = Undisturbed /\ disturbed <= Deletion /\ disturbed < Overlap
        /\ disturbed' <= Deletion
    <3>1. disturbed <= disturbed' /\ disturbed \in 0..3
      BY NeverForgotten DEF Next
    <3>2. QED BY <1>4, <3>1 DEF Undisturbed, Deletion, Overlap
  <2>1. /\ MembersInv /\ \A k \in Active : Stage(k)
        /\ (\A k \in Active : req[k].kind \in Light) => RoomIn(sessions.ids)
        /\ \A k \in Active : RoomIn(Hand(k)) /\ AtMostOne(Hand(k))
    BY <2>0 DEF QuietInv, RoomInv
  <2>2. MembersInv'
    BY <2>0, ServeQuiet DEF QuietInv
  <2>3. CASE RegisterStep(r) \/ HandshakeStep(r)
    <3>1. req[r].kind \in Light /\ sessions' = sessions
      BY <2>3, LightFrame
    <3>2. \A k \in Active : req[k].kind \in Light
      BY <1>1, <2>0, <3>1 DEF Alone
    <3>3. RoomIn(sessions.ids)'
      <4>1. \A c \in sockets : req'[c].sid \in sessions'.ids
        BY <1>2, <2>1, <3>1, <3>2
      <4>2. CASE sockets' = sockets
        BY <4>1, <4>2 DEF RoomIn
      <4>3. CASE sockets' = sockets \cup {r} /\ req[r].kind = "handshake" /\ req[r].loaded
        <5>1. req[r].sid \in sessions.ids
          BY <1>1, <2>1, <4>3 DEF Stage
        <5>2. QED BY <1>1, <3>1, <4>1, <4>3, <5>1 DEF RoomIn
      <4>4. QED BY <2>3, <4>2, <4>3, LightRoom
    <3>4. \A k \in Active' : Hand(k)' = sessions'.ids
      BY <1>1, <3>2 DEF Hand, Light
    <3>5. QED BY <2>2, <3>3, <3>4 DEF RoomIn, MembersInv
  <2>4. CASE ~(RegisterStep(r) \/ HandshakeStep(r))
    <3>1. SignupStep(r) \/ LoginStep(r) \/ LogoutStep(r) \/ DeleteStep(r)
      BY <2>4 DEF Serve
    <3>2. req[r].kind \in {"signup", "login", "logout", "delete"} /\ Stage(r)
      BY <1>0, <1>1, <2>1, <3>1, SignupMoves, LoginMoves, LogoutMoves, DeleteMoves
         DEF SignupStep, LoginStep, LogoutStep, DeleteStep
    <3>3. Active' \subseteq {r}
      <4>1. req[r].kind \notin Light
        BY <3>2 DEF Light
      <4>2. QED BY <1>1, <2>0, <4>1 DEF Alone
    <3>4. /\ AtMostOne(Hand(r)')
          /\ sockets' = {} \/ (sockets' = sockets /\ Hand(r) \subseteq Hand(r)')
      <4>1. CASE SignupStep(r)
        <5>1. req[r].kind = "signup"
          BY <1>0, <4>1, SignupMoves DEF SignupStep
        <5>2. QED BY <2>2, <3>2, <4>1, <5>1, SignupHand DEF Stage
      <4>2. CASE LoginStep(r)
        <5>1. req[r].kind = "login"
          BY <1>0, <4>2, LoginMoves DEF LoginStep
        <5>2. QED BY <1>1, <2>1, <2>2, <3>2, <4>2, <5>1, LoginHand DEF Stage
      <4>3. CASE LogoutStep(r)
        <5>1. req[r].kind = "logout"
          BY <1>0, <4>3, LogoutMoves DEF LogoutStep
        <5>2. QED BY <2>2, <3>2, <4>3, <5>1, LogoutHand DEF Stage
      <4>4. CASE DeleteStep(r)
        <5>1. req[r].kind = "delete"
          BY <1>0, <4>4, DeleteMoves DEF DeleteStep
        <5>2. QED BY <1>4, <2>1, <2>2, <3>2, <4>4, <5>1, DeleteHand DEF Stage
      <4>5. QED BY <3>1, <4>1, <4>2, <4>3, <4>4
    <3>5. RoomIn(Hand(r))'
      <4>1. \A c \in sockets : req'[c].sid \in Hand(r)
        BY <1>1, <1>2, <2>1
      <4>2. QED BY <3>4, <4>1 DEF RoomIn
    <3>6. (\A k \in Active' : req'[k].kind \in Light) => RoomIn(sessions.ids)'
      <4>1. SUFFICES ASSUME \A k \in Active' : req'[k].kind \in Light
                     PROVE  RoomIn(sessions.ids)'
        OBVIOUS
      <4>2. req'[r].pc = "over"
        BY <1>1, <3>2, <4>1 DEF Light
      <4>3. Hand(r)' = sessions'.ids
        BY <4>2 DEF Hand
      <4>4. QED BY <3>5, <4>3 DEF RoomIn
    <3>7. QED BY <3>3, <3>4, <3>5, <3>6
  <2>5. QED BY <2>3, <2>4
<1>5. QED BY <1>3, <1>4 DEF RoomInv

LEMMA InitRoom == Init => RoomInv
BY DEF Init, RoomInv, RoomIn, Active, Idle, Waiting, Elsewhere

LEMMA NextRoom == Typed /\ Alone /\ QuietInv /\ RoomInv /\ [Next]_vars => RoomInv'
<1> SUFFICES ASSUME Typed, Alone, QuietInv, RoomInv, [Next]_vars PROVE RoomInv'
  OBVIOUS
<1>0. /\ TypeOK /\ QueueInv /\ sockets \subseteq Reqs
      /\ \A c \in sockets : req[c].pc = "over"
      /\ Active \subseteq Reqs
  BY DEF Typed, TypeOK, RoomInv, Active
<1>1. ASSUME NEW r \in Reqs, NEW kind \in Kinds, req[r] = Idle,
             req'[r].kind = kind, req'[r].pc \in {"load", "hget"},
             \A m \in Reqs \ {r} : req'[m] = req[m],
             disturbed' = IF Overlaps(kind) THEN Overlap ELSE disturbed,
             UNCHANGED <<sessions, sockets>>
      PROVE  RoomInv'
  <2>1. \A c \in sockets : req'[c] = req[c]
    BY <1>0, <1>1 DEF Idle
  <2>2. ASSUME disturbed' = Undisturbed
        PROVE  /\ RoomIn(sessions.ids)'
               /\ \A k \in Active' : RoomIn(Hand(k))' /\ AtMostOne(Hand(k)')
    <3>1. /\ disturbed = Undisturbed /\ disturbed <= Deletion
          /\ \A k \in Active : {kind, req[k].kind} \subseteq Light
      <4>1. disturbed' < Overlap
        BY <2>2 DEF Undisturbed, Overlap
      <4>2. QED BY <1>1, <2>2, <4>1, ArriveAlone DEF Undisturbed, Deletion
    <3>2. RoomIn(sessions.ids) /\ AtMostOne(sessions.ids)
      BY <3>1 DEF RoomInv, QuietInv, MembersInv
    <3>3. ASSUME NEW k \in Active' PROVE Hand(k)' = sessions'.ids
      <4>1. CASE k = r
        BY <1>1, <4>1 DEF Hand
      <4>2. CASE k # r
        <5>1. k \in Active /\ req'[k] = req[k]
          BY <1>1, <4>2 DEF Active
        <5>2. req'[k].kind \in Light
          BY <3>1, <5>1
        <5>3. QED BY <5>2 DEF Hand, Light
      <4>3. QED BY <4>1, <4>2
    <3>4. RoomIn(sessions.ids)'
      BY <1>1, <2>1, <3>2 DEF RoomIn
    <3>5. QED BY <1>1, <3>2, <3>3, <3>4 DEF RoomIn
  <2>3. QED BY <1>0, <1>1, <2>1, <2>2 DEF RoomInv
<1>2. ASSUME NEW r \in Reqs, NEW kind \in Kinds, NEW s \in Sids, StartRequest(r, kind, s)
      PROVE  RoomInv'
  <2>1. req[r] = Idle /\ Begins(r, kind, "load", s, sess[s] > 0, FALSE)
    BY <1>0, <1>2, ArriveMoves
  <2>2. QED BY <1>1, <1>2, <2>1 DEF Begins, StartRequest, redisVars
<1>3. ASSUME NEW r \in Reqs, NEW c \in sockets, StartRegister(r, c) PROVE RoomInv'
  <2>1. /\ req[r] = Idle /\ "register" \in Kinds
        /\ Begins(r, "register", "hget", "none", FALSE, user.key)
    BY <1>0, <1>3, ArriveMoves DEF Kinds
  <2>2. QED BY <1>1, <1>3, <2>1 DEF Begins, StartRegister, redisVars
<1>4. ASSUME NEW r \in Reqs, Serve(r) PROVE RoomInv'
  BY <1>4, ServeRoom
<1>5. CASE Crash
  <2>1. sockets' = {} /\ Active' = {}
    BY <1>0, <1>5, CrashMoves DEF Crash
  <2>2. QED BY <2>1 DEF RoomInv, RoomIn
<1>6. CASE Tick
  <2>1. /\ UNCHANGED <<req, sockets>> /\ Active' = Active
        /\ disturbed' = Undisturbed => /\ disturbed = Undisturbed
                                       /\ user.ttl # 1
    <3>1. disturbed \in 0..3
      BY <1>0 DEF TypeOK, Undisturbed, Overlap
    <3>2. Disturbs(Interruption) # Undisturbed
      BY <3>1 DEF Disturbs, Interruption, Undisturbed
    <3>3. QED BY <1>6, <3>2 DEF Tick, Active
  <2>2. disturbed = Undisturbed /\ user.ttl # 1 => sessions'.ids = sessions.ids
    <3>1. disturbed = Undisturbed => MembersInv
      BY DEF QuietInv, Undisturbed, Deletion
    <3>2. disturbed = Undisturbed /\ user.ttl # 1 => sessions.ttl # 1
      BY <3>1 DEF MembersInv
    <3>3. QED BY <1>0, <1>6, <3>2, TickRedis
  <2>3. \A r \in Reqs : sessions'.ids = sessions.ids => Hand(r)' = Hand(r)
    BY <2>1 DEF Hand
  <2>4. QED BY <1>0, <2>1, <2>2, <2>3 DEF RoomInv, RoomIn
<1>7. CASE sockets' \subseteq sockets /\ UNCHANGED <<sessions, req, disturbed>>
  <2>1. Active' = Active /\ \A r \in Reqs : Hand(r)' = Hand(r)
    BY <1>7 DEF Active, Hand
  <2>2. QED BY <1>0, <1>7, <2>1 DEF RoomInv, RoomIn
<1>8. QED
  BY <1>2, <1>3, <1>4, <1>5, <1>6, <1>7, Steps
     DEF SocketCloses, ExpiryEvent, vars, redisVars, historyVars

\* OneSocketDevice: all sockets in the room belong to one session.
THEOREM OneSocketDeviceCorrect == Spec => []OneSocketDevice
<1>1. Typed /\ Alone /\ QuietInv /\ RoomInv /\ [Next]_vars => RoomInv'
  BY NextRoom
<1>2. QuietInv /\ RoomInv => OneSocketDevice
  <2> SUFFICES ASSUME QuietInv, RoomInv, disturbed = Undisturbed
               PROVE  AtMostOne({req[r].sid : r \in sockets})
    BY AtMostOneCardinality DEF OneSocketDevice
  <2>1. ASSUME NEW S, AtMostOne(S), RoomIn(S)
        PROVE  AtMostOne({req[r].sid : r \in sockets})
    BY <2>1 DEF AtMostOne, RoomIn
  <2>2. CASE Active = {}
    <3>1. RoomIn(sessions.ids) /\ AtMostOne(sessions.ids)
      BY <2>2 DEF RoomInv, QuietInv, MembersInv, Undisturbed, Deletion
    <3>2. QED BY <2>1, <3>1
  <2>3. CASE Active # {}
    <3>1. PICK r \in Active : RoomIn(Hand(r)) /\ AtMostOne(Hand(r))
      BY <2>3 DEF RoomInv
    <3>2. QED BY <2>1, <3>1
  <2>4. QED BY <2>2, <2>3
<1>3. QED BY <1>1, <1>2, InitRoom, QuietInvariant, PTL DEF Spec
=============================================================================
