--------------------------- MODULE Friends_proofs ---------------------------
(***************************************************************************)
(* Theorems about Friends, for every number of names, handlers, operations, *)
(* ticks and crashes.                                                       *)
(***************************************************************************)
EXTENDS Friends, Queue_proofs

-----------------------------------------------------------------------------
(* Type correctness.                                                        *)

SetType == [ttl : TtlValues, of : SUBSET Names]

\* The values a key of Redis can have.
LEMMA SetTypes ==
  /\ Gone \in TtlValues
  /\ NoTtl \in TtlValues
  /\ Ttl \in TtlValues
  /\ NoSet \in SetType
  /\ \A set \in SetType, n \in Names, ttl \in TtlValues :
       Adding(set, n, ttl) \in SetType /\ Removing(set, n) \in SetType
  /\ \A ttl \in TtlValues : Aged(ttl) \in TtlValues
  /\ \A set \in SetType : AgedSet(set) \in SetType
<1>1. Gone \in TtlValues /\ NoTtl \in TtlValues /\ Ttl \in TtlValues
  BY TtlAssumption DEF TtlValues
<1>2. NoSet \in SetType
  BY <1>1 DEF NoSet, SetType
<1>3. \A set \in SetType, n \in Names, ttl \in TtlValues :
        Adding(set, n, ttl) \in SetType /\ Removing(set, n) \in SetType
  BY <1>2 DEF Adding, Removing, SetType
<1>4. \A ttl \in TtlValues : Aged(ttl) \in TtlValues
  BY TtlAssumption DEF TtlValues, Aged, Gone, NoTtl
<1>5. \A set \in SetType : AgedSet(set) \in SetType
  BY <1>2, <1>4 DEF AgedSet, SetType
<1>6. QED BY <1>1, <1>2, <1>3, <1>4, <1>5

\* TTLs are integers.
LEMMA TtlIsInt == \A ttl \in TtlValues : ttl \in Int
BY TtlAssumption DEF TtlValues, Gone, NoTtl

\* A handler whose fields are changed is a handler.
LEMMA HandlerFields ==
  ASSUME NEW h \in Handler
  PROVE  /\ \A p \in Waits : [h EXCEPT !.pc = p] \in Handler
         /\ \A p \in Waits, f \in BOOLEAN :
              [h EXCEPT !.pc = p, !.found = f] \in Handler
         /\ \A f \in BOOLEAN : [h EXCEPT !.found = f] \in Handler
         /\ \A t \in TtlValues : [h EXCEPT !.theirs = t] \in Handler
         /\ \A p \in Waits, t \in TtlValues :
              /\ [h EXCEPT !.pc = p, !.theirs = t] \in Handler
              /\ [h EXCEPT !.pc = p, !.mine = t] \in Handler
         /\ \A p \in Waits, t, u \in TtlValues :
              [h EXCEPT !.pc = p, !.mine = t, !.theirs = u] \in Handler
BY DEF Handler

\* A handler is made of a kind, a command and two names.
LEMMA NewHandler ==
  \A kind \in Kinds, pc \in Waits, me, peer \in Names :
    New(kind, pc, me, peer) \in Handler
BY SetTypes DEF New, Handler

\* A slot that resumes holds a handler, and is the first of the queue.
LEMMA ResumesHandler ==
  ASSUME TypeOK, NEW s \in Slots, NEW kind, NEW pc \in Waits,
         Resumes(s, kind, pc)
  PROVE  /\ op[s] \in Handler
         /\ op[s].kind = kind
         /\ op[s].pc = pc
         /\ replies # <<>>
         /\ Head(replies) = s
BY DEF TypeOK, Resumes, Idle, Waits

-----------------------------------------------------------------------------
(* Control.  A handler starts behind all others, or it is the first of the  *)
(* queue and goes on behind all others, or ends.                            *)

Continues(s) == \/ \E h \in Handler : Then(s, h)
                \/ End(s)

Moves(s) ==
  \/ \E h \in Handler : Start(s, h)
  \/ /\ op[s] \in Handler
     /\ replies # <<>>
     /\ Head(replies) = s
     /\ Continues(s)
     /\ UNCHANGED <<boundVars, raced>>

\* The steps of "friend:request" are such moves.
LEMMA RequestMoves ==
  ASSUME TypeOK, NEW s \in Slots, RequestStep(s)
  PROVE  Moves(s)
<1>1. ASSUME NEW me \in Names, NEW peer \in Names, RequestStarts(s, me, peer)
      PROVE  Moves(s)
  <2>1. New("request", "ttl", me, peer) \in Handler
    BY NewHandler DEF Kinds, Waits
  <2>2. user[peer] \in TtlValues
    BY DEF TypeOK
  <2>3. [New("request", "ttl", me, peer) EXCEPT !.theirs = user[peer]] \in Handler
    BY <2>1, <2>2, HandlerFields
  <2>4. QED BY <1>1, <2>3 DEF RequestStarts, Moves
<1>2. CASE RequestRefused(s)
  <2>1. op[s] \in Handler /\ replies # <<>> /\ Head(replies) = s
    BY <1>2, ResumesHandler DEF RequestRefused, Waits
  <2>2. QED BY <1>2, <2>1 DEF RequestRefused, Resumes, Moves, Continues
<1>3. CASE RequestStored(s)
  <2>1. op[s] \in Handler /\ replies # <<>> /\ Head(replies) = s
    BY <1>3, ResumesHandler DEF RequestStored, Waits
  <2>2. [op[s] EXCEPT !.pc = "exec", !.theirs = Gone] \in Handler
    BY <2>1, HandlerFields, SetTypes DEF Waits
  <2>3. QED BY <1>3, <2>1, <2>2 DEF RequestStored, Resumes, Moves, Continues
<1>4. CASE RequestTold(s)
  <2>1. op[s] \in Handler /\ replies # <<>> /\ Head(replies) = s
    BY <1>4, ResumesHandler DEF RequestTold, Waits
  <2>2. QED BY <1>4, <2>1 DEF RequestTold, Resumes, Moves, Continues
<1>5. QED BY <1>1, <1>2, <1>3, <1>4 DEF RequestStep

\* So are those of "friend:accept" and "friend:decline".
LEMMA AnswerMoves ==
  ASSUME TypeOK, NEW s \in Slots, AnswerStep(s)
  PROVE  Moves(s)
<1>1. ASSUME NEW kind \in Kinds, NEW me \in Names, NEW peer \in Names,
             AnswerStarts(s, kind, me, peer)
      PROVE  Moves(s)
  <2> DEFINE h == [New(kind, "ismember", me, peer) EXCEPT
                     !.found = peer \in requests[me].of]
  <2>1. New(kind, "ismember", me, peer) \in Handler
    BY NewHandler DEF Waits
  <2>2. (peer \in requests[me].of) \in BOOLEAN
    OBVIOUS
  <2>3. h \in Handler
    BY <2>1, <2>2, HandlerFields, Zenon
  <2>4. Start(s, h)
    BY <1>1 DEF AnswerStarts
  <2> HIDE DEF h
  <2>5. QED BY <2>3, <2>4 DEF Moves
<1>2. CASE AnswerRefused(s)
  <2>1. op[s] \in Handler /\ replies # <<>> /\ Head(replies) = s
    BY <1>2, ResumesHandler DEF AnswerRefused, Waits
  <2>2. QED BY <1>2, <2>1 DEF AnswerRefused, Resumes, Moves, Continues
<1>3. CASE AcceptAsksMyTtl(s)
  <2>1. op[s] \in Handler /\ replies # <<>> /\ Head(replies) = s
    BY <1>3, ResumesHandler DEF AcceptAsksMyTtl, Waits
  <2>2. user[op[s].me] \in TtlValues
    BY <2>1 DEF Handler, TypeOK
  <2>3. [op[s] EXCEPT !.pc = "ttlme", !.mine = user[op[s].me]] \in Handler
    BY <2>1, <2>2, HandlerFields DEF Waits
  <2>4. QED BY <1>3, <2>1, <2>3 DEF AcceptAsksMyTtl, Resumes, Moves, Continues
<1>4. CASE AcceptAsksTheirTtl(s)
  <2>1. op[s] \in Handler /\ replies # <<>> /\ Head(replies) = s
    BY <1>4, ResumesHandler DEF AcceptAsksTheirTtl, Waits
  <2>2. user[op[s].peer] \in TtlValues
    BY <2>1 DEF Handler, TypeOK
  <2>3. [op[s] EXCEPT !.pc = "ttlpeer", !.theirs = user[op[s].peer]] \in Handler
    BY <2>1, <2>2, HandlerFields DEF Waits
  <2>4. QED BY <1>4, <2>1, <2>3 DEF AcceptAsksTheirTtl, Resumes, Moves, Continues
<1>5. CASE AcceptCommits(s)
  <2>1. op[s] \in Handler /\ replies # <<>> /\ Head(replies) = s
    BY <1>5, ResumesHandler DEF AcceptCommits, Waits
  <2>2. [op[s] EXCEPT !.pc = "exec", !.mine = Gone, !.theirs = Gone] \in Handler
    BY <2>1, HandlerFields, SetTypes DEF Waits
  <2>3. QED BY <1>5, <2>1, <2>2 DEF AcceptCommits, Resumes, Moves, Continues
<1>6. CASE AcceptTold(s)
  <2>1. op[s] \in Handler /\ replies # <<>> /\ Head(replies) = s
    BY <1>6, ResumesHandler DEF AcceptTold, Waits
  <2>2. QED BY <1>6, <2>1 DEF AcceptTold, Resumes, Moves, Continues
<1>7. CASE DeclineRemoves(s)
  <2>1. op[s] \in Handler /\ replies # <<>> /\ Head(replies) = s
    BY <1>7, ResumesHandler DEF DeclineRemoves, Waits
  <2>2. [op[s] EXCEPT !.pc = "srem"] \in Handler
    BY <2>1, HandlerFields DEF Waits
  <2>3. QED BY <1>7, <2>1, <2>2 DEF DeclineRemoves, Resumes, Moves, Continues
<1>8. CASE DeclineTold(s)
  <2>1. op[s] \in Handler /\ replies # <<>> /\ Head(replies) = s
    BY <1>8, ResumesHandler DEF DeclineTold, Waits
  <2>2. QED BY <1>8, <2>1 DEF DeclineTold, Resumes, Moves, Continues
<1>9. QED BY <1>1, <1>2, <1>3, <1>4, <1>5, <1>6, <1>7, <1>8 DEF AnswerStep

\* And those of deletions and signups.
LEMMA AccountMoves ==
  ASSUME TypeOK, NEW s \in Slots, AccountStep(s)
  PROVE  Moves(s)
<1>1. ASSUME NEW me \in Names, DeleteStarts(s, me) PROVE Moves(s)
  <2>1. New("delete", "deluser", me, me) \in Handler
    BY NewHandler DEF Kinds, Waits
  <2>2. QED BY <1>1, <2>1 DEF DeleteStarts, Moves
<1>2. ASSUME NEW me \in Names, SignupStarts(s, me) PROVE Moves(s)
  <2>1. New("signup", "exists", me, me) \in Handler
    BY NewHandler DEF Kinds, Waits
  <2>2. [New("signup", "exists", me, me) EXCEPT !.found = user[me] # Gone] \in Handler
    BY <2>1, HandlerFields
  <2>3. QED BY <1>2, <2>2 DEF SignupStarts, Moves
<1>3. CASE DeleteAsksRequests(s)
  <2>1. op[s] \in Handler /\ replies # <<>> /\ Head(replies) = s
    BY <1>3, ResumesHandler DEF DeleteAsksRequests, Waits
  <2>2. [op[s] EXCEPT !.pc = "existsreq",
                      !.found = requests[op[s].me].of # {}] \in Handler
    BY <2>1, HandlerFields DEF Waits
  <2>3. QED BY <1>3, <2>1, <2>2 DEF DeleteAsksRequests, Resumes, Moves, Continues
<1>4. CASE DeleteRequests(s)
  <2>1. op[s] \in Handler /\ replies # <<>> /\ Head(replies) = s
    BY <1>4, ResumesHandler DEF DeleteRequests, Waits
  <2>2. [op[s] EXCEPT !.pc = "delreq"] \in Handler
    BY <2>1, HandlerFields DEF Waits
  <2>3. QED BY <1>4, <2>1, <2>2 DEF DeleteRequests, Resumes, Moves, Continues
<1>5. CASE DeleteAsksFriends(s)
  <2>1. op[s] \in Handler /\ replies # <<>> /\ Head(replies) = s
    BY <1>5, ResumesHandler DEF DeleteAsksFriends, Waits
  <2>2. [op[s] EXCEPT !.pc = "existsfr",
                      !.found = friends[op[s].me].of # {}] \in Handler
    BY <2>1, HandlerFields DEF Waits
  <2>3. QED BY <1>5, <2>1, <2>2 DEF DeleteAsksFriends, Resumes, Moves, Continues
<1>6. CASE DeleteFriends(s)
  <2>1. op[s] \in Handler /\ replies # <<>> /\ Head(replies) = s
    BY <1>6, ResumesHandler DEF DeleteFriends, Waits
  <2>2. [op[s] EXCEPT !.pc = "delfr"] \in Handler
    BY <2>1, HandlerFields DEF Waits
  <2>3. QED BY <1>6, <2>1, <2>2 DEF DeleteFriends, Resumes, Moves, Continues
<1>7. CASE DeleteEnds(s)
  <2>1. op[s] \in Handler /\ replies # <<>> /\ Head(replies) = s
    BY <1>7, ResumesHandler DEF DeleteEnds, Waits
  <2>2. QED BY <1>7, <2>1 DEF DeleteEnds, Resumes, Moves, Continues
<1>8. CASE SignupExists(s)
  <2>1. op[s] \in Handler /\ replies # <<>> /\ Head(replies) = s
    BY <1>8, ResumesHandler DEF SignupExists, Waits
  <2>2. [op[s] EXCEPT !.pc = "hset"] \in Handler
    BY <2>1, HandlerFields DEF Waits
  <2>3. QED BY <1>8, <2>1, <2>2 DEF SignupExists, Resumes, Moves, Continues
<1>9. CASE SignupSession(s)
  <2>1. op[s] \in Handler /\ replies # <<>> /\ Head(replies) = s
    BY <1>9, ResumesHandler DEF SignupSession, Waits
  <2>2. [op[s] EXCEPT !.pc = "sadd"] \in Handler
    BY <2>1, HandlerFields DEF Waits
  <2>3. QED BY <1>9, <2>1, <2>2 DEF SignupSession, Resumes, Moves, Continues
<1>10. CASE SignupSetsTtl(s)
  <2>1. op[s] \in Handler /\ replies # <<>> /\ Head(replies) = s
    BY <1>10, ResumesHandler DEF SignupSetsTtl, Waits
  <2>2. [op[s] EXCEPT !.pc = "expire"] \in Handler
    BY <2>1, HandlerFields DEF Waits
  <2>3. QED BY <1>10, <2>1, <2>2 DEF SignupSetsTtl, Resumes, Moves, Continues
<1>11. CASE SignupEnds(s)
  <2>1. op[s] \in Handler /\ replies # <<>> /\ Head(replies) = s
    BY <1>11, ResumesHandler DEF SignupEnds, Waits
  <2>2. QED BY <1>11, <2>1 DEF SignupEnds, Resumes, Moves, Continues
<1>12. QED BY <1>1, <1>2, <1>3, <1>4, <1>5, <1>6, <1>7, <1>8, <1>9, <1>10, <1>11
           DEF AccountStep

\* Moves keep the types of what they change.
LEMMA MovesTypes ==
  ASSUME TypeOK, NEW s \in Slots, Moves(s)
  PROVE  /\ op' \in [Slots -> Handler \cup {Idle}]
         /\ replies' \in Seq(Slots)
         /\ started' \in 0..MaxOps
         /\ ticks' \in 0..MaxTicks
         /\ crashes' \in 0..MaxCrashes
         /\ raced' \subseteq Names \X Names
<1>1. ASSUME NEW h \in Handler, Start(s, h)
      PROVE  /\ op' \in [Slots -> Handler \cup {Idle}]
             /\ replies' \in Seq(Slots)
             /\ started' \in 0..MaxOps
             /\ raced' \subseteq Names \X Names
             /\ UNCHANGED <<ticks, crashes>>
  <2>1. Subject(h) \in Names \X Names
    BY DEF Subject, Handler
  <2>2. Append(replies, s) \in Seq(Slots)
    BY AppendProperties DEF TypeOK
  <2>3. started' \in 0..MaxOps
    BY <1>1, BoundsAssumption DEF TypeOK, Start
  <2>4. QED BY <1>1, <2>1, <2>2, <2>3 DEF TypeOK, Start
<1>2. ASSUME replies # <<>>, Continues(s)
      PROVE  op' \in [Slots -> Handler \cup {Idle}] /\ replies' \in Seq(Slots)
  <2>1. Tail(replies) \in Seq(Slots)
    BY <1>2, HeadTailProperties DEF TypeOK
  <2>2. Append(Tail(replies), s) \in Seq(Slots)
    BY <2>1, AppendProperties
  <2>3. QED BY <1>2, <2>1, <2>2 DEF TypeOK, Continues, Then, End
<1>3. QED BY <1>1, <1>2 DEF Moves, TypeOK, boundVars

-----------------------------------------------------------------------------
\* The initial state is type correct.
LEMMA TypeInit == Init => TypeOK
<1> SUFFICES ASSUME Init PROVE TypeOK
  OBVIOUS
<1>1. user \in [Names -> TtlValues]
  BY DEF Init, TtlValues
<1>2. QED BY <1>1, SetTypes, EmptySeq, BoundsAssumption DEF Init, TypeOK, SetType

\* The steps of "friend:request" keep the types.
LEMMA TypeRequest ==
  ASSUME TypeOK, NEW s \in Slots, RequestStep(s)
  PROVE  TypeOK'
<1> USE RequestMoves, MovesTypes
<1>1. ASSUME NEW me \in Names, NEW peer \in Names, RequestStarts(s, me, peer)
      PROVE  TypeOK'
  BY <1>1 DEF TypeOK, RequestStarts, Start
<1>2. CASE RequestRefused(s)
  BY <1>2 DEF TypeOK, RequestRefused, redisVars
<1>3. CASE RequestStored(s)
  <2>1. /\ op[s].me \in Names /\ op[s].peer \in Names
        /\ op[s].theirs \in TtlValues
    BY <1>3, ResumesHandler DEF RequestStored, Waits, Handler
  <2>2. requests' \in [Names -> SetType]
    BY <1>3, <2>1, SetTypes DEF TypeOK, RequestStored, SetType
  <2>3. asked' \in [Names -> SUBSET Names]
    BY <1>3, <2>1 DEF TypeOK, RequestStored
  <2>4. QED BY <1>3, <2>2, <2>3 DEF TypeOK, RequestStored, SetType
<1>4. CASE RequestTold(s)
  BY <1>4 DEF TypeOK, RequestTold, redisVars
<1>5. QED BY <1>1, <1>2, <1>3, <1>4 DEF RequestStep

\* The steps of "friend:accept" and "friend:decline" keep the types.
LEMMA TypeAnswer ==
  ASSUME TypeOK, NEW s \in Slots, AnswerStep(s)
  PROVE  TypeOK'
<1> USE AnswerMoves, MovesTypes
<1>1. ASSUME NEW kind \in Kinds, NEW me \in Names, NEW peer \in Names,
             AnswerStarts(s, kind, me, peer)
      PROVE  TypeOK'
  BY <1>1 DEF TypeOK, AnswerStarts, Start
<1>2. CASE AnswerRefused(s)
  BY <1>2 DEF TypeOK, AnswerRefused, redisVars
<1>3. CASE AcceptAsksMyTtl(s)
  BY <1>3 DEF TypeOK, AcceptAsksMyTtl, redisVars
<1>4. CASE AcceptAsksTheirTtl(s)
  BY <1>4 DEF TypeOK, AcceptAsksTheirTtl, redisVars
<1>5. CASE AcceptCommits(s)
  <2>1. /\ op[s].me \in Names /\ op[s].peer \in Names
        /\ op[s].mine \in TtlValues /\ op[s].theirs \in TtlValues
    BY <1>5, ResumesHandler DEF AcceptCommits, Waits, Handler
  <2>2. requests' \in [Names -> SetType]
    BY <1>5, <2>1, SetTypes DEF TypeOK, AcceptCommits, SetType
  <2>3. friends' \in [Names -> SetType]
    <3> DEFINE mine == Adding(friends[op[s].me], op[s].peer, op[s].mine)
               theirs == Adding(friends[op[s].peer], op[s].me, op[s].theirs)
    <3>1. mine \in SetType /\ theirs \in SetType
      BY <2>1, SetTypes DEF TypeOK, SetType
    <3>2. friends' = [friends EXCEPT ![op[s].me] = mine, ![op[s].peer] = theirs]
      BY <1>5 DEF AcceptCommits, Befriended
    <3> HIDE DEF mine, theirs
    <3>3. QED BY <2>1, <3>1, <3>2 DEF TypeOK, SetType
  <2>4. /\ asked' \in [Names -> SUBSET Names]
        /\ made' \in [Names -> SUBSET Names]
    BY <1>5, <2>1 DEF TypeOK, AcceptCommits
  <2>5. QED BY <1>5, <2>2, <2>3, <2>4 DEF TypeOK, AcceptCommits, SetType
<1>6. CASE AcceptTold(s)
  <2>1. op[s].me \in Names /\ op[s].peer \in Names
    BY <1>6, ResumesHandler DEF AcceptTold, Waits, Handler
  <2>2. QED BY <1>6, <2>1 DEF TypeOK, AcceptTold, redisVars
<1>7. CASE DeclineRemoves(s)
  <2>1. op[s].me \in Names /\ op[s].peer \in Names
    BY <1>7, ResumesHandler DEF DeclineRemoves, Waits, Handler
  <2>2. requests' \in [Names -> SetType]
    BY <1>7, <2>1, SetTypes DEF TypeOK, DeclineRemoves, SetType
  <2>3. asked' \in [Names -> SUBSET Names]
    BY <1>7, <2>1 DEF TypeOK, DeclineRemoves
  <2>4. QED BY <1>7, <2>2, <2>3 DEF TypeOK, DeclineRemoves, SetType
<1>8. CASE DeclineTold(s)
  <2>1. op[s].me \in Names /\ op[s].peer \in Names
    BY <1>8, ResumesHandler DEF DeclineTold, Waits, Handler
  <2>2. QED BY <1>8, <2>1 DEF TypeOK, DeclineTold, redisVars
<1>9. QED BY <1>1, <1>2, <1>3, <1>4, <1>5, <1>6, <1>7, <1>8 DEF AnswerStep

\* The steps of deletions and signups keep the types.
LEMMA TypeAccount ==
  ASSUME TypeOK, NEW s \in Slots, AccountStep(s)
  PROVE  TypeOK'
<1> USE AccountMoves, MovesTypes, SetTypes
<1>1. ASSUME NEW me \in Names, DeleteStarts(s, me) PROVE TypeOK'
  BY <1>1 DEF TypeOK, DeleteStarts, Start
<1>2. ASSUME NEW me \in Names, SignupStarts(s, me) PROVE TypeOK'
  BY <1>2 DEF TypeOK, SignupStarts, Start
<1>3. CASE DeleteAsksRequests(s)
  BY <1>3 DEF TypeOK, DeleteAsksRequests, redisVars
<1>4. CASE DeleteRequests(s)
  <2>1. requests' \in [Names -> SetType] /\ asked' \in [Names -> SUBSET Names]
    BY <1>4 DEF TypeOK, DeleteRequests, SetType
  <2>2. QED BY <1>4, <2>1 DEF TypeOK, DeleteRequests, SetType
<1>5. CASE DeleteAsksFriends(s)
  BY <1>5 DEF TypeOK, DeleteAsksFriends, redisVars
<1>6. CASE DeleteFriends(s)
  <2>1. friends' \in [Names -> SetType] /\ made' \in [Names -> SUBSET Names]
    BY <1>6 DEF TypeOK, DeleteFriends, SetType
  <2>2. QED BY <1>6, <2>1 DEF TypeOK, DeleteFriends, SetType
<1>7. CASE DeleteEnds(s)
  BY <1>7 DEF TypeOK, DeleteEnds, redisVars
<1>8. CASE SignupExists(s)
  <2>1. user' \in [Names -> TtlValues]
    BY <1>8 DEF TypeOK, SignupExists
  <2>2. QED BY <1>8, <2>1 DEF TypeOK, SignupExists
<1>9. CASE SignupSession(s)
  BY <1>9 DEF TypeOK, SignupSession, redisVars
<1>10. CASE SignupSetsTtl(s)
  <2>1. user' \in [Names -> TtlValues]
    BY <1>10 DEF TypeOK, SignupSetsTtl
  <2>2. QED BY <1>10, <2>1 DEF TypeOK, SignupSetsTtl
<1>11. CASE SignupEnds(s)
  BY <1>11 DEF TypeOK, SignupEnds, redisVars
<1>12. QED BY <1>1, <1>2, <1>3, <1>4, <1>5, <1>6, <1>7, <1>8, <1>9, <1>10, <1>11
           DEF AccountStep

\* The names whose TTL is held, and those whose deletion is under way.
LEMMA HeldNames == TypeOK => ReadTtls \subseteq Names /\ Deleting \subseteq Names
BY DEF TypeOK, ReadTtls, Deleting, Active, Handler

\* Time and crashes keep the types.
LEMMA TypeEnvironment == TypeOK /\ (Tick \/ Crash) => TypeOK'
<1> SUFFICES ASSUME TypeOK, Tick \/ Crash PROVE TypeOK'
  OBVIOUS
<1>1. CASE Tick
  <2>1. user' \in [Names -> TtlValues]
    BY <1>1, SetTypes DEF Tick, TypeOK
  <2>2. /\ requests' \in [Names -> SetType]
        /\ friends' \in [Names -> SetType]
    BY <1>1, SetTypes DEF Tick, TypeOK, SetType
  <2>3. ticks' \in 0..MaxTicks
    BY <1>1, BoundsAssumption DEF Tick, TypeOK
  <2>4. ended' \subseteq Names /\ loose' \subseteq Names
    BY <1>1, HeldNames DEF Tick, TypeOK
  <2>5. QED BY <1>1, <2>1, <2>2, <2>3, <2>4 DEF Tick, TypeOK, SetType
<1>2. CASE Crash
  <2>1. crashes' \in 0..MaxCrashes
    BY <1>2, BoundsAssumption DEF Crash, TypeOK
  <2>2. loose' \subseteq Names
    BY <1>2, HeldNames DEF Crash, TypeOK
  <2>3. QED BY <1>2, <2>1, <2>2, EmptySeq DEF Crash, TypeOK, redisVars
<1>3. QED BY <1>1, <1>2

\* Every step keeps the types, and so does a stuttering step.
LEMMA TypeNext == TypeOK /\ [Next]_vars => TypeOK'
<1> SUFFICES ASSUME TypeOK, [Next]_vars PROVE TypeOK'
  OBVIOUS
<1>1. CASE UNCHANGED vars
  BY <1>1 DEF TypeOK, vars
<1>2. QED BY <1>1, TypeRequest, TypeAnswer, TypeAccount, TypeEnvironment DEF Next

\* The types hold in every state of every behaviour.
THEOREM TypeCorrect == Spec => []TypeOK
<1>1. Init => TypeOK
  BY TypeInit
<1>2. TypeOK /\ [Next]_vars => TypeOK'
  BY TypeNext
<1>3. QED BY <1>1, <1>2, PTL DEF Spec

-----------------------------------------------------------------------------
(* The queue.                                                               *)

\* The queue holds the handlers that are under way, each once.
QueueInv ==
  /\ Distinct(replies)
  /\ Range(replies) = Active

\* What a step of the handler in slot s leaves to the others: they are where
\* they were, and it stands behind them if it goes on.
Apart(s) ==
  /\ Active' \ {s} = Active \ {s}
  /\ \A t \in Active \ {s} : op'[t] = op[t]
  /\ \A t \in Active \ {s}, d \in Slots :
       Before(t, d, replies) => Before(t, d, replies')
  /\ s \in Active' => \A t \in Active \ {s} : Before(t, s, replies')
  /\ \A t \in Slots : ~Before(t, s, replies)

\* A handler is not idle.
LEMMA NotIdle == \A h \in Handler : h # Idle
<1> SUFFICES ASSUME NEW h \in Handler PROVE h.pc # Idle.pc
  OBVIOUS
<1>1. QED BY DEF Handler, Idle, Waits

\* Nobody is behind, or in front of, who is not in the queue.
LEMMA BeforeInRange ==
  \A s, t, q : Before(s, t, q) => s \in Range(q) /\ t \in Range(q)
BY DEF Before, Range

\* The moves of a handler keep the queue in order.
LEMMA QueueMoves ==
  ASSUME TypeOK, QueueInv, NEW s \in Slots, Moves(s)
  PROVE  QueueInv' /\ Apart(s)
<1>1. replies \in Seq(Slots)
  BY DEF TypeOK
<1>2. ASSUME NEW h \in Handler, Start(s, h) PROVE QueueInv' /\ Apart(s)
  <2>1. s \notin Active /\ s \notin Range(replies)
    BY <1>2 DEF Start, Active, QueueInv
  <2>2. /\ replies' = Append(replies, s)
        /\ op' = [op EXCEPT ![s] = h]
    BY <1>2 DEF Start
  <2>3. op'[s] = h /\ \A t \in Slots \ {s} : op'[t] = op[t]
    BY <2>2 DEF TypeOK
  <2>4. Active' = Active \cup {s}
    BY <2>3, NotIdle DEF Active
  <2>5. /\ Distinct(replies')
        /\ Range(replies') = Range(replies) \cup {s}
        /\ \A t, d : Before(t, d, replies) => Before(t, d, replies')
        /\ \A t \in Range(replies) : Before(t, s, replies')
    BY <1>1, <2>1, <2>2, JoinQueue DEF QueueInv
  <2>6. \A t : ~Before(t, s, replies)
    BY <2>1, BeforeInRange
  <2>7. QED BY <2>1, <2>3, <2>4, <2>5, <2>6 DEF QueueInv, Apart, Active
<1>3. ASSUME op[s] \in Handler, replies # <<>>, Head(replies) = s, Continues(s)
      PROVE  QueueInv' /\ Apart(s)
  <2>1. s \in Active
    BY <1>3, NotIdle DEF Active
  <2>2. \A t : ~Before(t, s, replies)
    BY <1>1, <1>3, LeaveQueue DEF QueueInv
  <2>3. ASSUME NEW h \in Handler, Then(s, h) PROVE QueueInv' /\ Apart(s)
    <3>1. /\ replies' = Append(Tail(replies), Head(replies))
          /\ op' = [op EXCEPT ![s] = h]
      BY <2>3, <1>3 DEF Then
    <3>2. op'[s] = h /\ \A t \in Slots \ {s} : op'[t] = op[t]
      BY <3>1 DEF TypeOK
    <3>3. Active' = Active
      BY <2>1, <3>2, NotIdle DEF Active
    <3>4. /\ Distinct(replies')
          /\ Range(replies') = Range(replies)
          /\ \A t, d : Before(t, d, replies) /\ t # s => Before(t, d, replies')
          /\ \A t \in Range(replies) \ {s} : Before(t, s, replies')
      BY <1>1, <1>3, <3>1, RejoinQueue DEF QueueInv
    <3>5. QED BY <2>2, <3>2, <3>3, <3>4 DEF QueueInv, Apart, Active
  <2>4. ASSUME End(s) PROVE QueueInv' /\ Apart(s)
    <3>1. /\ replies' = Tail(replies)
          /\ op' = [op EXCEPT ![s] = Idle]
      BY <2>4 DEF End
    <3>2. op'[s] = Idle /\ \A t \in Slots \ {s} : op'[t] = op[t]
      BY <3>1 DEF TypeOK
    <3>3. Active' = Active \ {s}
      BY <3>2 DEF Active
    <3>4. /\ Distinct(replies')
          /\ Range(replies') = Range(replies) \ {s}
          /\ \A t, d : Before(t, d, replies) /\ t # s => Before(t, d, replies')
      BY <1>1, <1>3, <3>1, LeaveQueue DEF QueueInv
    <3>5. QED BY <2>2, <3>2, <3>3, <3>4 DEF QueueInv, Apart, Active
  <2>5. QED BY <1>3, <2>3, <2>4 DEF Continues
<1>4. QED BY <1>2, <1>3 DEF Moves

\* Every step keeps the queue in order.
LEMMA QueueNext == TypeOK /\ QueueInv /\ [Next]_vars => QueueInv'
<1> SUFFICES ASSUME TypeOK, QueueInv, [Next]_vars PROVE QueueInv'
  OBVIOUS
<1>1. ASSUME NEW s \in Slots, RequestStep(s) \/ AnswerStep(s) \/ AccountStep(s)
      PROVE  QueueInv'
  BY <1>1, RequestMoves, AnswerMoves, AccountMoves, QueueMoves
<1>2. CASE Tick
  BY <1>2 DEF Tick, QueueInv, Active
<1>3. CASE Crash
  <2>1. Active' = {}
    BY <1>3 DEF Crash, Active
  <2>2. QED BY <1>3, <2>1, EmptyQueue DEF Crash, QueueInv
<1>4. CASE UNCHANGED vars
  BY <1>4 DEF vars, QueueInv, Active
<1>5. QED BY <1>1, <1>2, <1>3, <1>4 DEF Next

-----------------------------------------------------------------------------
(* What the steps write.                                                    *)

\* The steps that write the keys, or what is remembered about them, are few.
LEMMA Writers ==
  ASSUME NEW s \in Slots
  PROVE  /\ RequestStep(s) => \/ RequestStored(s)
                              \/ UNCHANGED <<redisVars, ended, loose, asked, made>>
         /\ AnswerStep(s) => \/ AcceptCommits(s)
                             \/ DeclineRemoves(s)
                             \/ UNCHANGED <<redisVars, ended, loose, asked, made>>
         /\ AccountStep(s) => \/ \E me \in Names : DeleteStarts(s, me)
                              \/ DeleteRequests(s)
                              \/ DeleteFriends(s)
                              \/ SignupExists(s)
                              \/ SignupSetsTtl(s)
                              \/ UNCHANGED <<redisVars, ended, loose, asked, made>>
<1>1. RequestStep(s) => \/ RequestStored(s)
                        \/ UNCHANGED <<redisVars, ended, loose, asked, made>>
  BY DEF RequestStep, RequestStarts, Start, RequestRefused, RequestTold, redisVars
<1>2. AnswerStep(s) => \/ AcceptCommits(s)
                       \/ DeclineRemoves(s)
                       \/ UNCHANGED <<redisVars, ended, loose, asked, made>>
  BY DEF AnswerStep, AnswerStarts, Start, AnswerRefused, AcceptAsksMyTtl,
     AcceptAsksTheirTtl, AcceptTold, DeclineTold, redisVars
<1>3. AccountStep(s) => \/ \E me \in Names : DeleteStarts(s, me)
                        \/ DeleteRequests(s)
                        \/ DeleteFriends(s)
                        \/ SignupExists(s)
                        \/ SignupSetsTtl(s)
                        \/ UNCHANGED <<redisVars, ended, loose, asked, made>>
  BY DEF AccountStep, SignupStarts, Start, DeleteAsksRequests, DeleteAsksFriends,
     DeleteEnds, SignupSession, SignupEnds, redisVars
<1>4. QED BY <1>1, <1>2, <1>3

\* Accepting, key by key: the code never accepts a request of its own.
LEMMA BefriendedKeys ==
  ASSUME TypeOK, NEW me \in Names, NEW peer \in Names, me # peer,
         NEW mine, NEW theirs
  PROVE  LET new == Befriended(me, peer, mine, theirs)
         IN  /\ new[me] = Adding(friends[me], peer, mine)
             /\ new[peer] = Adding(friends[peer], me, theirs)
             /\ \A n \in Names \ {me, peer} : new[n] = friends[n]
<1> DEFINE a == Adding(friends[me], peer, mine)
           b == Adding(friends[peer], me, theirs)
           new == [friends EXCEPT ![me] = a, ![peer] = b]
<1>1. Befriended(me, peer, mine, theirs) = new
  BY DEF Befriended
<1> HIDE DEF a, b
<1>2. new[me] = a /\ new[peer] = b /\ \A n \in Names \ {me, peer} : new[n] = friends[n]
  BY DEF TypeOK
<1>3. QED BY <1>1, <1>2 DEF a, b

-----------------------------------------------------------------------------
(* Sets in Redis.                                                           *)

\* A set has members and a TTL, or does not exist.
SetOk(set) == set = NoSet \/ (set.ttl \in 1..Ttl /\ set.of # {})

\* Nobody accepts a request of its own.
SetsInv ==
  /\ \A n \in Names : SetOk(requests[n]) /\ SetOk(friends[n])
  /\ \A s \in Active : op[s].kind = "accept" => op[s].me # op[s].peer

\* Adding, removing and ageing keep a set so.  Adding a name with a TTL gives
\* the set that TTL; removing leaves the TTL alone; a second takes one of it.
LEMMA SetOperations ==
  ASSUME NEW set \in SetType, SetOk(set), NEW n \in Names
  PROVE  /\ \A ttl \in TtlValues :
              /\ SetOk(Adding(set, n, ttl))
              /\ Adding(set, n, ttl) # NoSet =>
                   /\ Adding(set, n, ttl).ttl = ttl
                   /\ Adding(set, n, ttl).of = set.of \cup {n}
              /\ ttl > 0 => Adding(set, n, ttl) # NoSet
         /\ SetOk(Removing(set, n))
         /\ Removing(set, n).of = set.of \ {n}
         /\ Removing(set, n) # NoSet => Removing(set, n).ttl = set.ttl
         /\ SetOk(AgedSet(set))
         /\ AgedSet(set).of \subseteq set.of
         /\ set.ttl > 1 =>
              AgedSet(set).ttl = set.ttl - 1 /\ AgedSet(set).of = set.of
         /\ set.ttl <= 1 => AgedSet(set) = NoSet
<1> USE TtlAssumption
<1>1. ASSUME NEW ttl \in TtlValues
      PROVE  /\ SetOk(Adding(set, n, ttl))
             /\ Adding(set, n, ttl) # NoSet =>
                  /\ Adding(set, n, ttl).ttl = ttl
                  /\ Adding(set, n, ttl).of = set.of \cup {n}
             /\ ttl > 0 => Adding(set, n, ttl) # NoSet
  BY DEF SetOk, SetType, Adding, NoSet, Gone, NoTtl, TtlValues
<1>2. /\ SetOk(Removing(set, n))
      /\ Removing(set, n).of = set.of \ {n}
      /\ Removing(set, n) # NoSet => Removing(set, n).ttl = set.ttl
  BY DEF SetOk, SetType, Removing, NoSet, Gone, NoTtl, TtlValues
<1>3. /\ SetOk(AgedSet(set))
      /\ AgedSet(set).of \subseteq set.of
      /\ set.ttl > 1 =>
           AgedSet(set).ttl = set.ttl - 1 /\ AgedSet(set).of = set.of
      /\ set.ttl <= 1 => AgedSet(set) = NoSet
  <2>1. CASE set.ttl > 1
    BY <2>1 DEF SetOk, SetType, AgedSet, Aged, NoSet, Gone, NoTtl, TtlValues
  <2>2. CASE set.ttl <= 1
    <3>1. Aged(set.ttl) = Gone
      BY <2>2 DEF SetOk, SetType, Aged, NoSet, Gone, NoTtl, TtlValues
    <3>2. AgedSet(set) = NoSet /\ NoSet.of = {}
      BY <3>1 DEF AgedSet, NoSet
    <3>3. ~(set.ttl > 1)
      BY <2>2 DEF SetType, TtlValues, Gone, NoTtl
    <3>4. QED BY <2>2, <3>2, <3>3 DEF SetOk
  <2>3. set.ttl \in Int
    BY DEF SetType, TtlValues, Gone, NoTtl
  <2>4. QED BY <2>1, <2>2, <2>3
<1>4. QED BY <1>1, <1>2, <1>3

\* A handler that goes on is for the same operation.
LEMMA SameOperation ==
  ASSUME TypeOK, NEW s \in Slots, s \in Active, s \in Active',
         RequestStep(s) \/ AnswerStep(s) \/ AccountStep(s)
  PROVE  /\ op'[s].kind = op[s].kind
         /\ op'[s].me = op[s].me
         /\ op'[s].peer = op[s].peer
<1> DEFINE Goal == /\ op'[s].kind = op[s].kind
                   /\ op'[s].me = op[s].me
                   /\ op'[s].peer = op[s].peer
<1> SUFFICES Goal
  OBVIOUS
<1>1. op[s] \in Handler
  BY DEF Active, TypeOK
<1>2. \A h : ~Start(s, h)
  BY DEF Start, Active
<1>3. ~End(s)
  BY DEF End, Active, TypeOK
<1>4. ASSUME NEW h, Then(s, h), h.kind = op[s].kind, h.me = op[s].me,
             h.peer = op[s].peer
      PROVE  Goal
  BY <1>4 DEF Then, TypeOK
<1> HIDE DEF Goal
<1>5. CASE RequestStep(s)
  <2>1. RequestStored(s)
    BY <1>5, <1>2, <1>3 DEF RequestStep, RequestStarts, RequestRefused, RequestTold
  <2>2. QED BY <2>1, <1>1, <1>4 DEF RequestStored, Handler
<1>6. CASE AnswerStep(s)
  <2>1. CASE AcceptAsksMyTtl(s)
    BY <2>1, <1>1, <1>4 DEF AcceptAsksMyTtl, Handler
  <2>2. CASE AcceptAsksTheirTtl(s)
    BY <2>2, <1>1, <1>4 DEF AcceptAsksTheirTtl, Handler
  <2>3. CASE AcceptCommits(s)
    BY <2>3, <1>1, <1>4 DEF AcceptCommits, Handler
  <2>4. CASE DeclineRemoves(s)
    BY <2>4, <1>1, <1>4 DEF DeclineRemoves, Handler
  <2>5. QED BY <1>6, <1>2, <1>3, <2>1, <2>2, <2>3, <2>4
            DEF AnswerStep, AnswerStarts, AnswerRefused, AcceptTold, DeclineTold
<1>7. CASE AccountStep(s)
  <2>1. CASE DeleteAsksRequests(s)
    BY <2>1, <1>1, <1>4 DEF DeleteAsksRequests, Handler
  <2>2. CASE DeleteRequests(s)
    BY <2>2, <1>1, <1>4 DEF DeleteRequests, Handler
  <2>3. CASE DeleteAsksFriends(s)
    BY <2>3, <1>1, <1>4 DEF DeleteAsksFriends, Handler
  <2>4. CASE DeleteFriends(s)
    BY <2>4, <1>1, <1>4 DEF DeleteFriends, Handler
  <2>5. CASE SignupExists(s)
    BY <2>5, <1>1, <1>3, <1>4 DEF SignupExists, Handler
  <2>6. CASE SignupSession(s)
    BY <2>6, <1>1, <1>4 DEF SignupSession, Handler
  <2>7. CASE SignupSetsTtl(s)
    BY <2>7, <1>1, <1>4 DEF SignupSetsTtl, Handler
  <2>8. QED BY <1>7, <1>2, <1>3, <2>1, <2>2, <2>3, <2>4, <2>5, <2>6, <2>7
            DEF AccountStep, DeleteStarts, SignupStarts, DeleteEnds, SignupEnds
<1>8. QED BY <1>5, <1>6, <1>7

\* How it goes on: with which command, and what it has read by then.
LEMMA GoesOn ==
  ASSUME TypeOK, NEW s \in Slots, s \in Active, s \in Active',
         RequestStep(s) \/ AnswerStep(s) \/ AccountStep(s)
  PROVE  LET old == op[s]
             new == op'[s]
         IN  \/ RequestStored(s) /\ old.pc = "ttl" /\ new.pc = "exec"
             \/ /\ AcceptAsksMyTtl(s) /\ old.pc = "ismember" /\ old.found
                /\ new.pc = "ttlme" /\ new.found = old.found
                /\ new.mine = user[old.me]
             \/ /\ AcceptAsksTheirTtl(s) /\ old.pc = "ttlme"
                /\ new.pc = "ttlpeer" /\ new.found = old.found
                /\ new.mine = old.mine /\ new.theirs = user[old.peer]
             \/ /\ AcceptCommits(s) /\ old.pc = "ttlpeer"
                /\ new.pc = "exec" /\ new.found = old.found
             \/ /\ DeclineRemoves(s) /\ old.pc = "ismember" /\ old.found
                /\ new.pc = "srem" /\ new.found = old.found
             \/ /\ DeleteAsksRequests(s) /\ old.pc = "deluser"
                /\ new.pc = "existsreq" /\ new.found = (requests[old.me].of # {})
             \/ /\ DeleteRequests(s) /\ old.pc = "existsreq" /\ old.found
                /\ new.pc = "delreq"
             \/ /\ DeleteAsksFriends(s)
                /\ old.pc = "delreq" \/ (old.pc = "existsreq" /\ ~old.found)
                /\ new.pc = "existsfr" /\ new.found = (friends[old.me].of # {})
             \/ /\ DeleteFriends(s) /\ old.pc = "existsfr" /\ old.found
                /\ new.pc = "delfr"
             \/ /\ SignupExists(s) /\ old.pc = "exists" /\ ~old.found
                /\ new.pc = "hset"
             \/ SignupSession(s) /\ old.pc = "hset" /\ new.pc = "sadd"
             \/ SignupSetsTtl(s) /\ old.pc = "sadd" /\ new.pc = "expire"
<1>1. op[s] \in Handler
  BY DEF Active, TypeOK
<1>2. \A h : ~Start(s, h)
  BY DEF Start, Active
<1>3. ~End(s)
  BY DEF End, Active, TypeOK
<1>4. \A h : Then(s, h) => op'[s] = h
  BY DEF Then, TypeOK
<1>5. ASSUME RequestStep(s)
      PROVE  RequestStored(s) /\ op[s].pc = "ttl" /\ op'[s].pc = "exec"
  BY <1>1, <1>2, <1>3, <1>4, <1>5
     DEF RequestStep, RequestStarts, RequestRefused, RequestTold, RequestStored,
         Resumes, Handler
<1>6. ASSUME AnswerStep(s)
      PROVE  \/ /\ AcceptAsksMyTtl(s) /\ op[s].pc = "ismember" /\ op[s].found
                /\ op'[s].pc = "ttlme" /\ op'[s].found = op[s].found
                /\ op'[s].mine = user[op[s].me]
             \/ /\ AcceptAsksTheirTtl(s) /\ op[s].pc = "ttlme"
                /\ op'[s].pc = "ttlpeer" /\ op'[s].found = op[s].found
                /\ op'[s].mine = op[s].mine /\ op'[s].theirs = user[op[s].peer]
             \/ /\ AcceptCommits(s) /\ op[s].pc = "ttlpeer"
                /\ op'[s].pc = "exec" /\ op'[s].found = op[s].found
             \/ /\ DeclineRemoves(s) /\ op[s].pc = "ismember" /\ op[s].found
                /\ op'[s].pc = "srem" /\ op'[s].found = op[s].found
  <2>1. AcceptAsksMyTtl(s) =>
          /\ op[s].pc = "ismember" /\ op[s].found
          /\ op'[s].pc = "ttlme" /\ op'[s].found = op[s].found
          /\ op'[s].mine = user[op[s].me]
    BY <1>1, <1>4 DEF AcceptAsksMyTtl, Resumes, Handler
  <2>2. AcceptAsksTheirTtl(s) =>
          /\ op[s].pc = "ttlme"
          /\ op'[s].pc = "ttlpeer" /\ op'[s].found = op[s].found
          /\ op'[s].mine = op[s].mine /\ op'[s].theirs = user[op[s].peer]
    BY <1>1, <1>4 DEF AcceptAsksTheirTtl, Resumes, Handler
  <2>3. AcceptCommits(s) =>
          op[s].pc = "ttlpeer" /\ op'[s].pc = "exec" /\ op'[s].found = op[s].found
    BY <1>1, <1>4 DEF AcceptCommits, Resumes, Handler
  <2>4. DeclineRemoves(s) =>
          /\ op[s].pc = "ismember" /\ op[s].found
          /\ op'[s].pc = "srem" /\ op'[s].found = op[s].found
    BY <1>1, <1>4 DEF DeclineRemoves, Resumes, Handler
  <2>5. QED BY <1>2, <1>3, <1>6, <2>1, <2>2, <2>3, <2>4
            DEF AnswerStep, AnswerStarts, AnswerRefused, AcceptTold, DeclineTold
<1>7. ASSUME AccountStep(s)
      PROVE  \/ /\ DeleteAsksRequests(s) /\ op[s].pc = "deluser"
                /\ op'[s].pc = "existsreq"
                /\ op'[s].found = (requests[op[s].me].of # {})
             \/ /\ DeleteRequests(s) /\ op[s].pc = "existsreq" /\ op[s].found
                /\ op'[s].pc = "delreq"
             \/ /\ DeleteAsksFriends(s)
                /\ op[s].pc = "delreq" \/ (op[s].pc = "existsreq" /\ ~op[s].found)
                /\ op'[s].pc = "existsfr"
                /\ op'[s].found = (friends[op[s].me].of # {})
             \/ /\ DeleteFriends(s) /\ op[s].pc = "existsfr" /\ op[s].found
                /\ op'[s].pc = "delfr"
             \/ /\ SignupExists(s) /\ op[s].pc = "exists" /\ ~op[s].found
                /\ op'[s].pc = "hset"
             \/ SignupSession(s) /\ op[s].pc = "hset" /\ op'[s].pc = "sadd"
             \/ SignupSetsTtl(s) /\ op[s].pc = "sadd" /\ op'[s].pc = "expire"
  <2>1. DeleteAsksRequests(s) =>
          /\ op[s].pc = "deluser" /\ op'[s].pc = "existsreq"
          /\ op'[s].found = (requests[op[s].me].of # {})
    BY <1>1, <1>4 DEF DeleteAsksRequests, Resumes, Handler
  <2>2. DeleteRequests(s) =>
          op[s].pc = "existsreq" /\ op[s].found /\ op'[s].pc = "delreq"
    BY <1>1, <1>4 DEF DeleteRequests, Resumes, Handler
  <2>3. DeleteAsksFriends(s) =>
          /\ op[s].pc = "delreq" \/ (op[s].pc = "existsreq" /\ ~op[s].found)
          /\ op'[s].pc = "existsfr"
          /\ op'[s].found = (friends[op[s].me].of # {})
    BY <1>1, <1>4 DEF DeleteAsksFriends, Resumes, Handler
  <2>4. DeleteFriends(s) =>
          op[s].pc = "existsfr" /\ op[s].found /\ op'[s].pc = "delfr"
    BY <1>1, <1>4 DEF DeleteFriends, Resumes, Handler
  <2>5. SignupExists(s) =>
          op[s].pc = "exists" /\ ~op[s].found /\ op'[s].pc = "hset"
    BY <1>1, <1>3, <1>4 DEF SignupExists, Resumes, Handler
  <2>6. /\ SignupSession(s) => op[s].pc = "hset" /\ op'[s].pc = "sadd"
        /\ SignupSetsTtl(s) => op[s].pc = "sadd" /\ op'[s].pc = "expire"
    BY <1>1, <1>4 DEF SignupSession, SignupSetsTtl, Resumes, Handler
  <2>7. QED BY <1>2, <1>3, <1>7, <2>1, <2>2, <2>3, <2>4, <2>5, <2>6
            DEF AccountStep, DeleteStarts, SignupStarts, DeleteEnds, SignupEnds
<1>8. QED BY <1>5, <1>6, <1>7

\* Only the first steps are taken in an idle slot.
LEMMA FirstSteps ==
  ASSUME TypeOK, NEW s \in Slots, s \notin Active
  PROVE  /\ RequestStep(s) => \E me, peer \in Names : RequestStarts(s, me, peer)
         /\ AnswerStep(s) => \E kind \in Kinds, me, peer \in Names :
                               AnswerStarts(s, kind, me, peer)
         /\ AccountStep(s) => \E me \in Names :
                                DeleteStarts(s, me) \/ SignupStarts(s, me)
<1>1. \A kind, pc : pc \in Waits => ~Resumes(s, kind, pc)
  BY DEF Resumes, Active, Idle, Waits
<1>2. Waits = {"ttl", "exec", "ismember", "ttlme", "ttlpeer", "srem", "deluser",
               "existsreq", "delreq", "existsfr", "delfr", "exists", "hset",
               "sadd", "expire"}
  BY DEF Waits
<1>3. RequestStep(s) => \E me, peer \in Names : RequestStarts(s, me, peer)
  BY <1>1, <1>2 DEF RequestStep, RequestRefused, RequestStored, RequestTold
<1>4. AnswerStep(s) => \E kind \in Kinds, me, peer \in Names :
                         AnswerStarts(s, kind, me, peer)
  BY <1>1, <1>2 DEF AnswerStep, AnswerRefused, AcceptAsksMyTtl, AcceptAsksTheirTtl,
     AcceptCommits, AcceptTold, DeclineRemoves, DeclineTold
<1>5. AccountStep(s) => \E me \in Names : DeleteStarts(s, me) \/ SignupStarts(s, me)
  BY <1>1, <1>2 DEF AccountStep, DeleteAsksRequests, DeleteRequests,
     DeleteAsksFriends, DeleteFriends, DeleteEnds, SignupExists, SignupSession,
     SignupSetsTtl, SignupEnds
<1>6. QED BY <1>3, <1>4, <1>5

\* Every step keeps the sets as they can be.
LEMMA SetsNext == TypeOK /\ QueueInv /\ SetsInv /\ [Next]_vars => SetsInv'
<1> SUFFICES ASSUME TypeOK, QueueInv, SetsInv, [Next]_vars PROVE SetsInv'
  OBVIOUS
<1> DEFINE Sets == \A n \in Names : SetOk(requests[n]) /\ SetOk(friends[n])
           Accepters == \A s \in Active : op[s].kind = "accept" => op[s].me # op[s].peer
<1>1. \A n \in Names : requests[n] \in SetType /\ friends[n] \in SetType
  BY DEF TypeOK, SetType
<1>2. SetOk(NoSet)
  BY DEF SetOk
<1>3. ASSUME NEW s \in Slots, RequestStep(s) \/ AnswerStep(s) \/ AccountStep(s)
      PROVE  Accepters'
  <2>1. Apart(s)
    BY <1>3, RequestMoves, AnswerMoves, AccountMoves, QueueMoves
  <2>2. ASSUME s \in Active, s \in Active', op'[s].kind = "accept"
        PROVE  op'[s].me # op'[s].peer
    BY <1>3, <2>2, SameOperation DEF SetsInv
  <2>3. ASSUME s \notin Active, s \in Active', op'[s].kind = "accept"
        PROVE  op'[s].me # op'[s].peer
    <3>1. ASSUME NEW me \in Names, NEW peer \in Names, RequestStarts(s, me, peer)
          PROVE  op'[s].kind = "request"
      BY <3>1 DEF RequestStarts, Start, New, TypeOK
    <3>2. ASSUME NEW kind \in Kinds, NEW me \in Names, NEW peer \in Names,
                 AnswerStarts(s, kind, me, peer)
          PROVE  op'[s].me # op'[s].peer
      BY <3>2 DEF AnswerStarts, Start, New, TypeOK
    <3>3. ASSUME NEW me \in Names, DeleteStarts(s, me) \/ SignupStarts(s, me)
          PROVE  op'[s].kind \in {"delete", "signup"}
      BY <3>3 DEF DeleteStarts, SignupStarts, Start, New, TypeOK
    <3>4. QED BY <1>3, <2>3, <3>1, <3>2, <3>3, FirstSteps
  <2>4. QED BY <2>1, <2>2, <2>3 DEF Apart, SetsInv
<1>4. ASSUME NEW s \in Slots, RequestStored(s) PROVE Sets'
  <2>1. /\ op[s].me \in Names /\ op[s].peer \in Names
        /\ op[s].theirs \in TtlValues
    BY <1>4, ResumesHandler DEF RequestStored, Waits, Handler
  <2>2. SetOk(Adding(requests[op[s].peer], op[s].me, op[s].theirs))
    BY <1>1, <2>1, SetOperations DEF SetsInv
  <2>3. QED BY <1>4, <2>1, <2>2 DEF RequestStored, SetsInv, TypeOK
<1>5. ASSUME NEW s \in Slots, AcceptCommits(s) PROVE Sets'
  <2>1. /\ op[s] \in Handler
        /\ op[s].me \in Names /\ op[s].peer \in Names
        /\ op[s].mine \in TtlValues /\ op[s].theirs \in TtlValues
        /\ op[s].kind = "accept"
    BY <1>5, ResumesHandler DEF AcceptCommits, Waits, Handler
  <2>2. op[s].me # op[s].peer
    BY <2>1, NotIdle DEF SetsInv, Active
  <2>3. /\ SetOk(Removing(requests[op[s].me], op[s].peer))
        /\ SetOk(Adding(friends[op[s].me], op[s].peer, op[s].mine))
        /\ SetOk(Adding(friends[op[s].peer], op[s].me, op[s].theirs))
    BY <1>1, <2>1, SetOperations DEF SetsInv
  <2>4. \A n \in Names : SetOk(requests'[n])
    BY <1>5, <2>1, <2>3 DEF AcceptCommits, SetsInv, TypeOK
  <2>5. \A n \in Names : SetOk(friends'[n])
    <3>1. friends' = Befriended(op[s].me, op[s].peer, op[s].mine, op[s].theirs)
      BY <1>5 DEF AcceptCommits
    <3>2. QED BY <2>1, <2>2, <2>3, <3>1, BefriendedKeys DEF SetsInv
  <2>6. QED BY <2>4, <2>5
<1>6. ASSUME NEW s \in Slots, DeclineRemoves(s) PROVE Sets'
  <2>1. op[s].me \in Names /\ op[s].peer \in Names
    BY <1>6, ResumesHandler DEF DeclineRemoves, Waits, Handler
  <2>2. SetOk(Removing(requests[op[s].me], op[s].peer))
    BY <1>1, <2>1, SetOperations DEF SetsInv
  <2>3. QED BY <1>6, <2>1, <2>2 DEF DeclineRemoves, SetsInv, TypeOK
<1>7. ASSUME NEW s \in Slots, DeleteRequests(s) \/ DeleteFriends(s) PROVE Sets'
  BY <1>2, <1>7 DEF DeleteRequests, DeleteFriends, SetsInv, TypeOK
<1>8. ASSUME UNCHANGED <<requests, friends>> PROVE Sets'
  BY <1>8 DEF SetsInv
<1>9. ASSUME Tick PROVE Sets'
  BY <1>1, <1>9, SetOperations DEF Tick, SetsInv
<1>10. CASE \E s \in Slots : RequestStep(s) \/ AnswerStep(s) \/ AccountStep(s)
  <2>1. PICK s \in Slots : RequestStep(s) \/ AnswerStep(s) \/ AccountStep(s)
    BY <1>10
  <2>2. Accepters'
    BY <1>3, <2>1
  <2>3. Sets'
    <3>1. CASE RequestStored(s) \/ AcceptCommits(s) \/ DeclineRemoves(s)
               \/ DeleteRequests(s) \/ DeleteFriends(s)
      BY <3>1, <1>4, <1>5, <1>6, <1>7
    <3>2. CASE UNCHANGED <<requests, friends>>
      BY <3>2, <1>8
    <3>3. QED BY <2>1, <3>1, <3>2, Writers
              DEF redisVars, DeleteStarts, Start, SignupExists, SignupSetsTtl
  <2>4. QED BY <2>2, <2>3 DEF SetsInv
<1>11. CASE Tick
  BY <1>9, <1>11 DEF SetsInv, Tick, Active
<1>12. CASE Crash
  <2>1. Active' = {}
    BY <1>12 DEF Crash, Active
  <2>2. QED BY <1>8, <1>12, <2>1 DEF SetsInv, Crash, redisVars
<1>13. CASE UNCHANGED vars
  BY <1>8, <1>13 DEF SetsInv, vars, Active
<1>14. QED BY <1>10, <1>11, <1>12, <1>13 DEF Next

-----------------------------------------------------------------------------
(* Kept while alive.                                                        *)

\* What a handler has read is not shorter than the account, as long as that has
\* not ended, and deletions, and signups that found no account, are of accounts
\* that have.
KeptOp(h) ==
  /\ h.pc \in {"ttl", "ttlpeer"} /\ h.peer \notin ended => h.theirs >= user[h.peer]
  /\ h.pc \in {"ttlme", "ttlpeer"} /\ h.me \notin ended => h.mine >= user[h.me]
  /\ h.kind = "delete" => h.me \in ended
  /\ h.kind = "signup" /\ ~(h.pc = "exists" /\ h.found) => h.me \in ended

\* Neither are the sets.
KeptName(n) ==
  /\ user[n] \in 1..Ttl
  /\ requests[n] # NoSet => requests[n].ttl >= user[n]
  /\ friends[n] # NoSet => friends[n].ttl >= user[n]
  /\ asked[n] \subseteq requests[n].of
  /\ made[n] \subseteq friends[n].of

KeptInv ==
  /\ \A n \in Names \ ended : KeptName(n)
  /\ \A s \in Active : KeptOp(op[s])

\* An account that has not ended only gets older.
Older == /\ ended \subseteq ended'
         /\ \A n \in Names \ ended' : user'[n] <= user[n]

\* Getting older keeps what the handlers have read long enough.
LEMMA KeptFrame ==
  ASSUME TypeOK, TypeOK', Older
  PROVE  \A h \in Handler : KeptOp(h) => KeptOp(h)'
<1> SUFFICES ASSUME NEW h \in Handler, KeptOp(h) PROVE KeptOp(h)'
  OBVIOUS
<1>1. /\ h.me \in Names /\ h.peer \in Names
      /\ h.mine \in Int /\ h.theirs \in Int
  BY TtlIsInt DEF Handler
<1>2. \A n \in Names : user[n] \in Int /\ user'[n] \in Int
  BY TtlIsInt DEF TypeOK
<1>3. QED BY <1>1, <1>2 DEF KeptOp, Older

\* The accounts that the steps of handlers find get no older, and nobody makes
\* them last longer.
LEMMA KeptOlder ==
  ASSUME TypeOK, KeptInv, NEW s \in Slots,
         RequestStep(s) \/ AnswerStep(s) \/ AccountStep(s)
  PROVE  /\ ended \subseteq ended'
         /\ \A n \in Names \ ended' : user'[n] = user[n]
<1>1. ASSUME NEW me \in Names, DeleteStarts(s, me)
      PROVE  /\ ended \subseteq ended'
             /\ \A n \in Names \ ended' : user'[n] = user[n]
  BY <1>1 DEF DeleteStarts, TypeOK
<1>2. ASSUME SignupExists(s) \/ SignupSetsTtl(s)
      PROVE  /\ ended \subseteq ended'
             /\ \A n \in Names \ ended' : user'[n] = user[n]
  <2>1. op[s] \in Handler /\ op[s].kind = "signup" /\ op[s].pc \in {"exists", "sadd"}
    BY <1>2, ResumesHandler DEF SignupExists, SignupSetsTtl, Waits
  <2>2. CASE UNCHANGED user
    BY <1>2, <2>2 DEF SignupExists, SignupSetsTtl
  <2>3. CASE op[s].pc = "exists" /\ op[s].found
    BY <1>2, <2>1, <2>3, <2>2 DEF SignupExists, SignupSetsTtl, Resumes
  <2>4. CASE ~(op[s].pc = "exists" /\ op[s].found)
    <3>1. op[s].me \in ended
      BY <2>1, <2>4, NotIdle DEF KeptInv, KeptOp, Active
    <3>2. QED BY <1>2, <3>1, <2>2 DEF SignupExists, SignupSetsTtl, TypeOK
  <2>5. QED BY <2>3, <2>4
<1>3. CASE UNCHANGED <<user, ended>>
  BY <1>3
<1>4. QED BY <1>1, <1>2, <1>3, Writers
          DEF RequestStored, AcceptCommits, DeclineRemoves, DeleteRequests,
              DeleteFriends, redisVars

\* What the steps of handlers read is what the accounts have left.
LEMMA KeptReads ==
  ASSUME TypeOK, TypeOK', KeptInv, NEW s \in Slots,
         RequestStep(s) \/ AnswerStep(s) \/ AccountStep(s), s \in Active'
  PROVE  KeptOp(op[s])'
<1>1. \A n \in Names : user[n] \in Int /\ user'[n] \in Int
  BY TtlIsInt DEF TypeOK
<1>2. Older /\ \A n \in Names \ ended' : user'[n] = user[n]
  BY <1>1, KeptOlder DEF Older
<1>3. op'[s] \in Handler
  BY DEF TypeOK, Active
<1>4. CASE s \notin Active
  <2>1. ASSUME NEW me \in Names, NEW peer \in Names, RequestStarts(s, me, peer)
        PROVE  KeptOp(op[s])'
    <3>1. /\ op'[s].kind = "request" /\ op'[s].pc = "ttl" /\ op'[s].peer = peer
          /\ op'[s].theirs = user[peer] /\ user' = user
      BY <2>1 DEF RequestStarts, Start, New, TypeOK
    <3>2. QED BY <3>1, <1>1 DEF KeptOp
  <2>2. ASSUME NEW kind \in Kinds, NEW me \in Names, NEW peer \in Names,
               AnswerStarts(s, kind, me, peer)
        PROVE  KeptOp(op[s])'
    <3>1. op'[s].kind \in {"accept", "decline"} /\ op'[s].pc = "ismember"
      BY <2>2 DEF AnswerStarts, Start, New, TypeOK
    <3>2. QED BY <3>1 DEF KeptOp
  <2>3. ASSUME NEW me \in Names, DeleteStarts(s, me)
        PROVE  KeptOp(op[s])'
    <3>1. /\ op'[s].kind = "delete" /\ op'[s].pc = "deluser" /\ op'[s].me = me
          /\ me \in ended'
      BY <2>3 DEF DeleteStarts, Start, New, TypeOK
    <3>2. QED BY <3>1 DEF KeptOp
  <2>4. ASSUME NEW me \in Names, SignupStarts(s, me)
        PROVE  KeptOp(op[s])'
    <3>1. /\ op'[s].kind = "signup" /\ op'[s].pc = "exists" /\ op'[s].me = me
          /\ op'[s].found <=> user[me] # Gone
          /\ ended' = ended
      BY <2>4 DEF SignupStarts, Start, New, TypeOK
    <3>2. user[me] = Gone => me \in ended
      BY DEF KeptInv, KeptName, Gone
    <3>3. QED BY <3>1, <3>2 DEF KeptOp
  <2>5. QED BY <1>4, <2>1, <2>2, <2>3, <2>4, FirstSteps
<1>5. CASE s \in Active
  <2>1. PICK h \in Handler : h = op[s]
    BY <1>5 DEF TypeOK, Active
  <2>2. KeptOp(h) /\ KeptOp(h)'
    BY <1>2, <1>5, <2>1, KeptFrame DEF KeptInv
  <2>3. op'[s].kind = h.kind /\ op'[s].me = h.me /\ op'[s].peer = h.peer
    BY <1>5, <2>1, SameOperation
  <2>4. \/ op'[s].pc \notin {"ttl", "ttlme", "ttlpeer", "exists"}
        \/ op'[s].pc = "ttlme" /\ op'[s].mine = user[h.me]
        \/ /\ op'[s].pc = "ttlpeer" /\ h.pc = "ttlme"
           /\ op'[s].mine = h.mine /\ op'[s].theirs = user[h.peer]
    BY <1>5, <2>1, GoesOn
  <2>5. h.kind = "signup" => ~(h.pc = "exists" /\ h.found)
    BY <1>5, <2>1, GoesOn DEF AcceptAsksMyTtl, Resumes
  <2>6. h.me \in Names /\ h.peer \in Names
    BY DEF Handler
  <2>7. QED BY <1>1, <1>2, <2>2, <2>3, <2>4, <2>5, <2>6 DEF KeptOp
<1>6. QED BY <1>4, <1>5

\* What the steps of handlers write lasts as long as the account.
LEMMA KeptWrites ==
  ASSUME TypeOK, QueueInv, SetsInv, KeptInv, NEW s \in Slots,
         RequestStep(s) \/ AnswerStep(s) \/ AccountStep(s)
  PROVE  \A n \in Names \ ended' : KeptName(n)'
<1> DEFINE Kept == \A n \in Names \ ended : KeptName(n)
<1>1. \A n \in Names : requests[n] \in SetType /\ friends[n] \in SetType
  BY DEF TypeOK, SetType
<1>2. \A n \in Names : SetOk(requests[n]) /\ SetOk(friends[n])
  BY DEF SetsInv
<1>3. ended \subseteq ended' /\ \A n \in Names \ ended' : user'[n] = user[n]
  BY KeptOlder
<1>4. \A n \in Names \ ended' : KeptName(n)
  BY <1>3 DEF KeptInv
<1>5. op[s] \in Handler => KeptOp(op[s])
  BY NotIdle DEF KeptInv, Active
<1>6. CASE RequestStored(s)
  <2>1. /\ op[s] \in Handler /\ op[s].pc = "ttl"
        /\ op[s].me \in Names /\ op[s].peer \in Names
        /\ op[s].theirs \in TtlValues
    BY <1>6, ResumesHandler DEF RequestStored, Waits, Handler
  <2> DEFINE new == Adding(requests[op[s].peer], op[s].me, op[s].theirs)
  <2>2. op[s].peer \notin ended =>
          op[s].theirs >= user[op[s].peer] /\ user[op[s].peer] > 0
    BY <1>5, <2>1, TtlAssumption DEF KeptOp, KeptInv, KeptName
  <2>3. op[s].peer \notin ended =>
          /\ new.ttl = op[s].theirs
          /\ new.of = requests[op[s].peer].of \cup {op[s].me}
    <3>1. user[op[s].peer] \in Int /\ op[s].theirs \in Int
      BY <2>1, TtlIsInt DEF TypeOK
    <3>2. op[s].peer \notin ended => op[s].theirs > 0
      BY <2>2, <3>1
    <3>3. QED BY <1>1, <1>2, <2>1, <3>2, SetOperations
  <2>4. /\ requests' = [requests EXCEPT ![op[s].peer] = new]
        /\ asked' = [asked EXCEPT ![op[s].peer] = @ \cup {op[s].me}]
        /\ UNCHANGED <<user, friends, made>>
    BY <1>6 DEF RequestStored
  <2> HIDE DEF new
  <2>5. QED BY <1>3, <1>4, <2>1, <2>2, <2>3, <2>4 DEF KeptName, TypeOK
<1>7. CASE AcceptCommits(s)
  <2>1. /\ op[s] \in Handler /\ op[s].pc = "ttlpeer" /\ op[s].kind = "accept"
        /\ op[s].me \in Names /\ op[s].peer \in Names
        /\ op[s].mine \in TtlValues /\ op[s].theirs \in TtlValues
    BY <1>7, ResumesHandler DEF AcceptCommits, Waits, Handler
  <2>2. op[s].me # op[s].peer
    BY <2>1, NotIdle DEF SetsInv, Active
  <2> DEFINE me == op[s].me
             peer == op[s].peer
             left == Removing(requests[me], peer)
             mine == Adding(friends[me], peer, op[s].mine)
             theirs == Adding(friends[peer], me, op[s].theirs)
  <2>3. /\ me \notin ended => op[s].mine >= user[me] /\ op[s].mine > 0
        /\ peer \notin ended => op[s].theirs >= user[peer] /\ op[s].theirs > 0
    <3>1. /\ user[me] \in Int /\ op[s].mine \in Int
          /\ user[peer] \in Int /\ op[s].theirs \in Int
      BY <2>1, TtlIsInt DEF TypeOK
    <3>2. /\ me \notin ended => user[me] > 0
          /\ peer \notin ended => user[peer] > 0
      BY <2>1 DEF KeptInv, KeptName
    <3>3. QED BY <1>5, <2>1, <3>1, <3>2 DEF KeptOp
  <2>4. /\ me \notin ended => /\ mine.ttl = op[s].mine
                              /\ mine.of = friends[me].of \cup {peer}
        /\ peer \notin ended => /\ theirs.ttl = op[s].theirs
                                /\ theirs.of = friends[peer].of \cup {me}
        /\ left.of = requests[me].of \ {peer}
        /\ left # NoSet => left.ttl = requests[me].ttl /\ requests[me] # NoSet
    <3>1. Removing(NoSet, peer) = NoSet
      BY DEF Removing, NoSet
    <3>2. QED BY <1>1, <1>2, <2>1, <2>3, <3>1, SetOperations
  <2>5. /\ requests'[me] = left
        /\ \A n \in Names \ {me} : requests'[n] = requests[n]
        /\ asked'[me] = asked[me] \ {peer}
        /\ \A n \in Names \ {me} : asked'[n] = asked[n]
    BY <1>7, <2>1 DEF AcceptCommits, TypeOK
  <2>6. /\ friends'[me] = mine
        /\ friends'[peer] = theirs
        /\ \A n \in Names \ {me, peer} : friends'[n] = friends[n]
    <3>1. friends' = Befriended(me, peer, op[s].mine, op[s].theirs)
      BY <1>7 DEF AcceptCommits
    <3>2. QED BY <2>1, <2>2, <3>1, BefriendedKeys
  <2>7. /\ made'[me] = made[me] \cup {peer}
        /\ made'[peer] = made[peer] \cup {me}
        /\ \A n \in Names \ {me, peer} : made'[n] = made[n]
    BY <1>7, <2>1, <2>2 DEF AcceptCommits, TypeOK
  <2>8. user' = user /\ ended' = ended
    BY <1>7 DEF AcceptCommits
  <2> HIDE DEF left, mine, theirs
  <2>9. ASSUME NEW n \in Names \ ended PROVE KeptName(n)'
    <3>1. KeptName(n)
      BY <2>9 DEF KeptInv
    <3>2. CASE n = me
      BY <2>1, <2>2, <2>3, <2>4, <2>5, <2>6, <2>7, <2>8, <2>9, <3>1, <3>2 DEF KeptName
    <3>3. CASE n = peer
      BY <2>1, <2>2, <2>3, <2>4, <2>5, <2>6, <2>7, <2>8, <2>9, <3>1, <3>3 DEF KeptName
    <3>4. CASE n \notin {me, peer}
      BY <2>5, <2>6, <2>7, <2>8, <3>1, <3>4 DEF KeptName
    <3>5. QED BY <3>2, <3>3, <3>4
  <2>10. QED BY <2>8, <2>9
<1>8. CASE DeclineRemoves(s)
  <2>1. op[s].me \in Names /\ op[s].peer \in Names
    BY <1>8, ResumesHandler DEF DeclineRemoves, Waits, Handler
  <2> DEFINE left == Removing(requests[op[s].me], op[s].peer)
  <2>2. /\ left.of = requests[op[s].me].of \ {op[s].peer}
        /\ left # NoSet => left.ttl = requests[op[s].me].ttl
        /\ left = NoSet \/ requests[op[s].me] # NoSet
    <3>1. Removing(NoSet, op[s].peer) = NoSet
      BY DEF Removing, NoSet
    <3>2. QED BY <1>1, <1>2, <2>1, <3>1, SetOperations
  <2>3. /\ requests' = [requests EXCEPT ![op[s].me] = left]
        /\ asked' = [asked EXCEPT ![op[s].me] = @ \ {op[s].peer}]
        /\ UNCHANGED <<user, friends, made, ended>>
    BY <1>8 DEF DeclineRemoves
  <2> HIDE DEF left
  <2>4. QED BY <1>4, <2>1, <2>2, <2>3 DEF KeptName, TypeOK
<1>9. CASE \E me \in Names : DeleteStarts(s, me)
  BY <1>3, <1>4, <1>9 DEF DeleteStarts, Start, KeptName
<1>10. CASE DeleteRequests(s) \/ DeleteFriends(s)
  <2>1. op[s] \in Handler /\ op[s].kind = "delete"
    BY <1>10, ResumesHandler DEF DeleteRequests, DeleteFriends, Waits
  <2>2. op[s].me \in ended
    BY <1>5, <2>1 DEF KeptOp
  <2>3. QED BY <1>3, <1>4, <1>10, <2>2
            DEF DeleteRequests, DeleteFriends, KeptName, TypeOK
<1>11. CASE SignupExists(s) \/ SignupSetsTtl(s)
  BY <1>3, <1>4, <1>11 DEF SignupExists, SignupSetsTtl, KeptName
<1>12. CASE UNCHANGED <<redisVars, ended, loose, asked, made>>
  BY <1>4, <1>12 DEF redisVars, KeptName
<1>13. QED BY <1>6, <1>7, <1>8, <1>9, <1>10, <1>11, <1>12, Writers

\* A second takes as much of the sets as of the accounts.
LEMMA KeptTick ==
  ASSUME TypeOK, TypeOK', SetsInv, KeptInv, Tick
  PROVE  KeptInv'
<1>1. \A n \in Names : requests[n] \in SetType /\ friends[n] \in SetType
  BY DEF TypeOK, SetType
<1>2. \A n \in Names : SetOk(requests[n]) /\ SetOk(friends[n])
  BY DEF SetsInv
<1>3. ASSUME NEW n \in Names \ ended'
      PROVE  /\ n \notin ended
             /\ user[n] > 1
             /\ user'[n] = user[n] - 1
             /\ user'[n] \in 1..Ttl
  <2>1. n \notin ended /\ user'[n] = Aged(user[n]) /\ user'[n] # Gone
    BY <1>3 DEF Tick
  <2>2. user[n] \in 1..Ttl
    BY <2>1 DEF KeptInv, KeptName
  <2>3. QED BY <2>1, <2>2, TtlAssumption DEF Aged, Gone, NoTtl
<1>4. ASSUME NEW n \in Names \ ended' PROVE KeptName(n)'
  <2>1. KeptName(n)
    BY <1>3, <1>4 DEF KeptInv
  <2>2. requests[n].ttl \in Int /\ friends[n].ttl \in Int /\ user[n] \in Int
    BY <1>1, <1>4, TtlIsInt DEF SetType, TypeOK
  <2>3. /\ requests'[n] = AgedSet(requests[n])
        /\ friends'[n] = AgedSet(friends[n])
        /\ asked' = asked /\ made' = made
    BY <1>4 DEF Tick
  <2>4. /\ requests[n] # NoSet => requests[n].ttl > 1
        /\ friends[n] # NoSet => friends[n].ttl > 1
    BY <1>3, <1>4, <2>1, <2>2 DEF KeptName
  <2>5. AgedSet(NoSet) = NoSet
    BY DEF AgedSet, NoSet, Aged, Gone, NoTtl
  <2>6. /\ requests[n] # NoSet => /\ AgedSet(requests[n]).ttl = requests[n].ttl - 1
                                  /\ AgedSet(requests[n]).of = requests[n].of
        /\ friends[n] # NoSet => /\ AgedSet(friends[n]).ttl = friends[n].ttl - 1
                                 /\ AgedSet(friends[n]).of = friends[n].of
    BY <1>1, <1>2, <1>4, <2>4, SetOperations
  <2>7. /\ requests'[n] # NoSet => requests'[n].ttl >= user'[n]
        /\ friends'[n] # NoSet => friends'[n].ttl >= user'[n]
    BY <1>3, <1>4, <2>1, <2>2, <2>3, <2>5, <2>6 DEF KeptName
  <2>8. requests'[n].of = requests[n].of /\ friends'[n].of = friends[n].of
    BY <2>3, <2>5, <2>6
  <2>9. QED BY <1>3, <1>4, <2>1, <2>3, <2>7, <2>8 DEF KeptName
<1>5. ASSUME NEW s \in Active PROVE KeptOp(op[s])'
  <2>1. PICK h \in Handler : h = op[s] /\ op' = op /\ KeptOp(h)
    BY <1>5 DEF TypeOK, Active, Tick, KeptInv
  <2>2. Older
    <3>1. \A n \in Names : user[n] \in Int
      BY TtlIsInt DEF TypeOK
    <3>2. ended \subseteq ended'
      BY DEF Tick
    <3>3. QED BY <1>3, <3>1, <3>2 DEF Older
  <2>3. KeptOp(h)'
    BY <2>1, <2>2, KeptFrame
  <2>4. QED BY <2>1, <2>3 DEF KeptOp
<1>6. QED BY <1>4, <1>5 DEF KeptInv, Tick, Active

\* Every step keeps what the accounts are due.
LEMMA KeptNext ==
  TypeOK /\ TypeOK' /\ QueueInv /\ SetsInv /\ KeptInv /\ [Next]_vars => KeptInv'
<1> SUFFICES ASSUME TypeOK, TypeOK', QueueInv, SetsInv, KeptInv, [Next]_vars
             PROVE  KeptInv'
  OBVIOUS
<1>1. ASSUME NEW s \in Slots, RequestStep(s) \/ AnswerStep(s) \/ AccountStep(s)
      PROVE  KeptInv'
  <2>1. Apart(s)
    BY <1>1, RequestMoves, AnswerMoves, AccountMoves, QueueMoves
  <2>2. Older
    <3>1. \A n \in Names : user[n] \in Int
      BY TtlIsInt DEF TypeOK
    <3>2. ended \subseteq ended' /\ \A n \in Names \ ended' : user'[n] = user[n]
      BY <1>1, KeptOlder
    <3>3. QED BY <3>1, <3>2 DEF Older
  <2>3. ASSUME NEW t \in Active', t # s PROVE KeptOp(op[t])'
    <3>1. t \in Active /\ op'[t] = op[t]
      BY <2>1, <2>3 DEF Apart
    <3>2. PICK h \in Handler : h = op[t] /\ KeptOp(h)
      BY <3>1 DEF TypeOK, Active, KeptInv
    <3>3. KeptOp(h)'
      BY <2>2, <3>2, KeptFrame
    <3>4. QED BY <3>1, <3>2, <3>3 DEF KeptOp
  <2>4. s \in Active' => KeptOp(op[s])'
    BY <1>1, KeptReads
  <2>5. \A n \in Names \ ended' : KeptName(n)'
    BY <1>1, KeptWrites
  <2>6. QED BY <2>3, <2>4, <2>5 DEF KeptInv
<1>2. CASE Tick
  BY <1>2, KeptTick
<1>3. CASE Crash
  <2>1. Active' = {}
    BY <1>3 DEF Crash, Active
  <2>2. QED BY <1>3, <2>1 DEF Crash, redisVars, KeptInv, KeptName
<1>4. CASE UNCHANGED vars
  BY <1>4 DEF vars, KeptInv, KeptName, KeptOp, Active
<1>5. QED BY <1>1, <1>2, <1>3, <1>4 DEF Next

\* The queue, the sets and what they are due, at first.
LEMMA KeptInit == Init => QueueInv /\ SetsInv /\ KeptInv
<1> SUFFICES ASSUME Init PROVE QueueInv /\ SetsInv /\ KeptInv
  OBVIOUS
<1>1. Active = {}
  BY DEF Init, Active
<1>2. QueueInv
  BY <1>1, EmptyQueue DEF Init, QueueInv
<1>3. SetsInv
  BY <1>1 DEF Init, SetsInv, SetOk
<1>4. KeptInv
  BY <1>1 DEF Init, KeptInv, KeptName
<1>5. QED BY <1>2, <1>3, <1>4

\* What the requests and friendships of an account rest on, in every state.
LEMMA KeptInvariant == Spec => [](TypeOK /\ QueueInv /\ SetsInv /\ KeptInv)
<1>1. Init => TypeOK /\ QueueInv /\ SetsInv /\ KeptInv
  BY TypeInit, KeptInit
<1>2. TypeOK /\ QueueInv /\ SetsInv /\ KeptInv /\ [Next]_vars =>
        (TypeOK /\ QueueInv /\ SetsInv /\ KeptInv)'
  BY TypeNext, QueueNext, SetsNext, KeptNext
<1>3. QED BY <1>1, <1>2, PTL DEF Spec

\* A request or a friendship of an account that has not ended is there until
\* somebody removes it.
THEOREM KeptWhileAliveCorrect == Spec => []KeptWhileAlive
<1>1. KeptInv => KeptWhileAlive
  BY DEF KeptInv, KeptName, KeptWhileAlive
<1>2. QED BY <1>1, KeptInvariant, PTL

-----------------------------------------------------------------------------
(* Mutual friends.                                                          *)

\* A set of friends holds nothing but what was made, and what was made was made
\* on both sides.
MadeInv ==
  /\ \A n \in Names : friends[n].of \subseteq made[n]
  /\ \A a, b \in Names \ ended : a \in made[b] => b \in made[a]

\* Every step keeps friendships mutual.
LEMMA MadeNext ==
  TypeOK /\ QueueInv /\ SetsInv /\ KeptInv /\ MadeInv /\ [Next]_vars => MadeInv'
<1> SUFFICES ASSUME TypeOK, QueueInv, SetsInv, KeptInv, MadeInv, [Next]_vars
             PROVE  MadeInv'
  OBVIOUS
<1>1. \A n \in Names : friends[n] \in SetType /\ SetOk(friends[n])
  BY DEF TypeOK, SetType, SetsInv
<1>2. NoSet.of = {}
  BY DEF NoSet
<1>3. ASSUME NEW s \in Slots, AcceptCommits(s) PROVE MadeInv'
  <2>1. /\ op[s] \in Handler /\ op[s].kind = "accept"
        /\ op[s].me \in Names /\ op[s].peer \in Names
        /\ op[s].mine \in TtlValues /\ op[s].theirs \in TtlValues
    BY <1>3, ResumesHandler DEF AcceptCommits, Waits, Handler
  <2>2. op[s].me # op[s].peer
    BY <2>1, NotIdle DEF SetsInv, Active
  <2> DEFINE me == op[s].me
             peer == op[s].peer
             mine == Adding(friends[me], peer, op[s].mine)
             theirs == Adding(friends[peer], me, op[s].theirs)
  <2>3. /\ mine.of \subseteq friends[me].of \cup {peer}
        /\ theirs.of \subseteq friends[peer].of \cup {me}
    BY <1>1, <1>2, <2>1, SetOperations
  <2>4. /\ friends'[me] = mine
        /\ friends'[peer] = theirs
        /\ \A n \in Names \ {me, peer} : friends'[n] = friends[n]
    <3>1. friends' = Befriended(me, peer, op[s].mine, op[s].theirs)
      BY <1>3 DEF AcceptCommits
    <3>2. QED BY <2>1, <2>2, <3>1, BefriendedKeys
  <2>5. /\ made'[me] = made[me] \cup {peer}
        /\ made'[peer] = made[peer] \cup {me}
        /\ \A n \in Names \ {me, peer} : made'[n] = made[n]
    BY <1>3, <2>1, <2>2 DEF AcceptCommits, TypeOK
  <2>6. ended' = ended
    BY <1>3 DEF AcceptCommits
  <2> HIDE DEF mine, theirs
  <2>7. \A n \in Names : friends'[n].of \subseteq made'[n]
    BY <2>1, <2>2, <2>3, <2>4, <2>5 DEF MadeInv
  <2>8. \A a, b \in Names \ ended : a \in made'[b] => b \in made'[a]
    BY <2>1, <2>2, <2>5 DEF MadeInv
  <2>9. QED BY <2>6, <2>7, <2>8 DEF MadeInv
<1>4. ASSUME NEW s \in Slots, DeleteFriends(s) PROVE MadeInv'
  <2>1. op[s] \in Handler /\ op[s].kind = "delete" /\ op[s].me \in Names
    BY <1>4, ResumesHandler DEF DeleteFriends, Waits, Handler
  <2>2. op[s].me \in ended
    BY <2>1, NotIdle DEF KeptInv, KeptOp, Active
  <2>3. /\ friends' = [friends EXCEPT ![op[s].me] = NoSet]
        /\ made' = [made EXCEPT ![op[s].me] = {}]
        /\ ended' = ended
    BY <1>4 DEF DeleteFriends
  <2>4. QED BY <1>2, <2>1, <2>2, <2>3 DEF MadeInv, TypeOK
<1>5. ASSUME UNCHANGED <<friends, made>>, ended \subseteq ended' PROVE MadeInv'
  BY <1>5 DEF MadeInv
<1>6. ASSUME Tick PROVE MadeInv'
  <2>1. \A n \in Names : friends'[n].of \subseteq friends[n].of
    BY <1>1, <1>6, SetOperations DEF Tick
  <2>2. made' = made /\ ended \subseteq ended'
    BY <1>6 DEF Tick
  <2>3. QED BY <2>1, <2>2 DEF MadeInv
<1>7. ASSUME NEW s \in Slots, RequestStep(s) \/ AnswerStep(s) \/ AccountStep(s)
      PROVE  MadeInv'
  <2>1. CASE AcceptCommits(s) \/ DeleteFriends(s)
    BY <2>1, <1>3, <1>4
  <2>2. CASE UNCHANGED <<friends, made>>
    BY <1>5, <1>7, <2>2, KeptOlder
  <2>3. QED BY <1>7, <2>1, <2>2, Writers
            DEF RequestStored, DeclineRemoves, DeleteStarts, Start,
                DeleteRequests, SignupExists, SignupSetsTtl, redisVars
<1>8. CASE Crash \/ UNCHANGED vars
  BY <1>5, <1>8 DEF Crash, vars, redisVars
<1>9. QED BY <1>6, <1>7, <1>8 DEF Next

\* Friendship is mutual as long as neither account has ended.
THEOREM SymmetricCorrect == Spec => []Symmetric
<1>1. Init => MadeInv
  BY DEF Init, MadeInv, NoSet
<1>2. MadeInv /\ KeptWhileAlive => Symmetric
  BY DEF MadeInv, KeptWhileAlive, Symmetric
<1>3. Spec => []MadeInv
  BY <1>1, KeptInvariant, MadeNext, PTL DEF Spec
<1>4. QED BY <1>2, <1>3, KeptWhileAliveCorrect, PTL

-----------------------------------------------------------------------------
(* One answer.                                                              *)

\* The handler in slot s works on the request of a to b.
Works(s, a, b) ==
  /\ op[s].kind = "request" => op[s].me = a /\ op[s].peer = b
  /\ op[s].kind \in {"accept", "decline"} => op[s].peer = a /\ op[s].me = b
  /\ op[s].kind \in {"request", "accept", "decline"}

Answered(a, b) == \E x \in {"accepted", "rejected"} : <<a, b, x>> \in told

\* A request on which no two handlers ever worked at a time: if it is pending, or
\* a handler has found it so, nothing has been told of it yet; what a handler
\* has removed stays removed until that is told.
OneAtATime(a, b) ==
  /\ \A s, t \in Active : Works(s, a, b) /\ Works(t, a, b) => s = t
  /\ a \in requests[b].of => ~Answered(a, b)
  /\ \A s \in Active :
       Works(s, a, b) /\ op[s].kind # "request" =>
         /\ op[s].found => ~Answered(a, b)
         /\ op[s].pc # "ismember" => op[s].found
         /\ op[s].pc \in {"exec", "srem"} => a \notin requests[b].of
  /\ <<a, b, "accepted">> \notin told \/ <<a, b, "rejected">> \notin told

AnswerInv == \A a, b \in Names : <<a, b>> \in raced \/ OneAtATime(a, b)

\* A handler that does not work on a request, or has just started, neither makes
\* it pending nor tells anything of it.
LEMMA OtherRequests ==
  ASSUME TypeOK, SetsInv, NEW s \in Slots,
         RequestStep(s) \/ AnswerStep(s) \/ AccountStep(s),
         NEW a \in Names, NEW b \in Names, s \notin Active \/ ~Works(s, a, b)
  PROVE  /\ a \in requests'[b].of => a \in requests[b].of
         /\ \A x : <<a, b, x>> \in told' => <<a, b, x>> \in told
<1>1. \A n \in Names : requests[n] \in SetType /\ SetOk(requests[n])
  BY DEF TypeOK, SetType, SetsInv
<1>2. NoSet.of = {}
  BY DEF NoSet
<1>3. op[s] \in Handler =>
        /\ ~Works(s, a, b)
        /\ op[s].me \in Names /\ op[s].peer \in Names
        /\ op[s].theirs \in TtlValues
  BY NotIdle DEF Active, Handler
<1>4. CASE RequestStored(s)
  <2>1. op[s] \in Handler /\ op[s].kind = "request"
    BY <1>4, ResumesHandler DEF RequestStored, Waits
  <2>2. op[s].me # a \/ op[s].peer # b
    BY <1>3, <2>1 DEF Works
  <2> DEFINE new == Adding(requests[op[s].peer], op[s].me, op[s].theirs)
  <2>3. new.of \subseteq requests[op[s].peer].of \cup {op[s].me}
    BY <1>1, <1>2, <1>3, <2>1, SetOperations
  <2>4. /\ requests' = [requests EXCEPT ![op[s].peer] = new]
        /\ told' \subseteq told
    BY <1>4 DEF RequestStored
  <2> HIDE DEF new
  <2>5. a \in requests'[b].of => a \in requests[b].of
    BY <2>2, <2>3, <2>4 DEF TypeOK
  <2>6. QED BY <2>4, <2>5
<1>5. CASE AcceptCommits(s) \/ DeclineRemoves(s)
  <2>1. op[s] \in Handler
    BY <1>5, ResumesHandler DEF AcceptCommits, DeclineRemoves, Waits
  <2> DEFINE left == Removing(requests[op[s].me], op[s].peer)
  <2>2. left.of \subseteq requests[op[s].me].of
    BY <1>1, <1>3, <2>1, SetOperations
  <2>3. /\ requests' = [requests EXCEPT ![op[s].me] = left]
        /\ told' = told
    BY <1>5 DEF AcceptCommits, DeclineRemoves
  <2> HIDE DEF left
  <2>4. QED BY <2>2, <2>3 DEF TypeOK
<1>6. CASE AcceptTold(s) \/ DeclineTold(s)
  <2>1. op[s] \in Handler /\ op[s].kind \in {"accept", "decline"}
    BY <1>6, ResumesHandler DEF AcceptTold, DeclineTold, Waits
  <2>2. op[s].peer # a \/ op[s].me # b
    BY <1>3, <2>1 DEF Works
  <2>3. /\ requests' = requests
        /\ told' = told \cup {<<op[s].peer, op[s].me, "accepted">>}
           \/ told' = told \cup {<<op[s].peer, op[s].me, "rejected">>}
    BY <1>6 DEF AcceptTold, DeclineTold, redisVars
  <2>4. QED BY <2>2, <2>3
<1>7. CASE DeleteRequests(s)
  BY <1>2, <1>7 DEF DeleteRequests, TypeOK
<1>8. CASE UNCHANGED <<requests, told>>
  BY <1>8
<1>9. RequestStep(s) => RequestStored(s) \/ UNCHANGED <<requests, told>>
  BY DEF RequestStep, RequestStarts, Start, RequestRefused, RequestTold, redisVars
<1>10. AnswerStep(s) => \/ AcceptCommits(s) \/ DeclineRemoves(s)
                        \/ AcceptTold(s) \/ DeclineTold(s)
                        \/ UNCHANGED <<requests, told>>
  BY DEF AnswerStep, AnswerStarts, Start, AnswerRefused, AcceptAsksMyTtl,
     AcceptAsksTheirTtl, redisVars
<1>11. AccountStep(s) => DeleteRequests(s) \/ UNCHANGED <<requests, told>>
  BY DEF AccountStep, DeleteStarts, SignupStarts, Start, DeleteAsksRequests,
     DeleteAsksFriends, DeleteFriends, DeleteEnds, SignupExists, SignupSession,
     SignupSetsTtl, SignupEnds, redisVars
<1>12. QED BY <1>4, <1>5, <1>6, <1>7, <1>8, <1>9, <1>10, <1>11

\* Handlers that are not on a request keep it as it is.
LEMMA AnswerOthers ==
  ASSUME TypeOK, QueueInv, SetsInv, NEW s \in Slots,
         RequestStep(s) \/ AnswerStep(s) \/ AccountStep(s),
         NEW a \in Names, NEW b \in Names, OneAtATime(a, b),
         s \notin Active \/ ~Works(s, a, b), ~(s \in Active' /\ Works(s, a, b)')
  PROVE  OneAtATime(a, b)'
<1>1. /\ a \in requests'[b].of => a \in requests[b].of
      /\ \A x : <<a, b, x>> \in told' => <<a, b, x>> \in told
  BY OtherRequests
<1>2. Answered(a, b)' => Answered(a, b)
  BY <1>1 DEF Answered
<1>3. Apart(s)
  BY RequestMoves, AnswerMoves, AccountMoves, QueueMoves
<1>4. \A t \in Active' : Works(t, a, b)' => t \in Active /\ op'[t] = op[t]
  BY <1>3 DEF Apart
<1>5. \A t \in Active' : Works(t, a, b)' => Works(t, a, b)
  BY <1>4 DEF Works
<1>6. QED BY <1>1, <1>2, <1>4, <1>5 DEF OneAtATime

\* A handler that starts on a request is the only one, or has made a race of it.
LEMMA AnswerStartsAlone ==
  ASSUME TypeOK, QueueInv, SetsInv, NEW s \in Slots, s \notin Active, s \in Active',
         RequestStep(s) \/ AnswerStep(s) \/ AccountStep(s),
         NEW a \in Names, NEW b \in Names, OneAtATime(a, b), Works(s, a, b)',
         <<a, b>> \notin raced'
  PROVE  OneAtATime(a, b)'
<1>1. /\ a \in requests'[b].of => a \in requests[b].of
      /\ \A x : <<a, b, x>> \in told' => <<a, b, x>> \in told
  BY OtherRequests
<1>2. Answered(a, b)' => Answered(a, b)
  BY <1>1 DEF Answered
<1>3. Apart(s)
  BY RequestMoves, AnswerMoves, AccountMoves, QueueMoves
<1>4. ASSUME NEW t \in Active' \ {s}, Works(t, a, b)' PROVE FALSE
  <2>1. t \in Active /\ op'[t] = op[t]
    BY <1>3, <1>4 DEF Apart
  <2>2. Works(t, a, b)
    BY <1>4, <2>1 DEF Works
  <2>3. PICK h \in Handler : Start(s, h)
    <3>1. Moves(s) /\ op[s] \notin Handler
      BY RequestMoves, AnswerMoves, AccountMoves, NotIdle DEF Active
    <3>2. QED BY <3>1 DEF Moves
  <2>4. op'[s] = h
    BY <2>3 DEF Start, TypeOK
  <2>5. OnRequests(h) /\ Subject(h) = <<a, b>>
    BY <2>4 DEF Works, OnRequests, Subject
  <2>6. OnRequests(op[t]) /\ Subject(op[t]) = <<a, b>>
    BY <2>2 DEF Works, OnRequests, Subject
  <2>7. <<a, b>> \in raced'
    BY <2>1, <2>3, <2>5, <2>6 DEF Start
  <2>8. QED BY <2>7
<1>5. op'[s].kind # "request" =>
        /\ op'[s].pc = "ismember"
        /\ op'[s].found => a \in requests[b].of
  <2>1. ASSUME NEW me \in Names, NEW peer \in Names, RequestStarts(s, me, peer)
        PROVE  op'[s].kind = "request"
    BY <2>1 DEF RequestStarts, Start, New, TypeOK
  <2>2. ASSUME NEW kind \in Kinds, NEW me \in Names, NEW peer \in Names,
               AnswerStarts(s, kind, me, peer)
        PROVE  /\ op'[s].pc = "ismember"
               /\ op'[s].found => a \in requests[b].of
    <3>1. /\ op'[s].kind \in {"accept", "decline"}
          /\ op'[s].pc = "ismember"
          /\ op'[s].me = me
          /\ op'[s].peer = peer
          /\ op'[s].found => peer \in requests[me].of
      BY <2>2 DEF AnswerStarts, Start, New, TypeOK
    <3>2. QED BY <3>1 DEF Works
  <2>3. ASSUME NEW me \in Names, DeleteStarts(s, me) \/ SignupStarts(s, me)
        PROVE  FALSE
    <3>1. op'[s].kind \in {"delete", "signup"}
      BY <2>3 DEF DeleteStarts, SignupStarts, Start, New, TypeOK
    <3>2. QED BY <3>1 DEF Works
  <2>4. QED BY <2>1, <2>2, <2>3, FirstSteps
<1>6. QED BY <1>1, <1>2, <1>4, <1>5 DEF OneAtATime

\* The only handler on a request keeps it in order.
LEMMA AnswerAlone ==
  ASSUME TypeOK, QueueInv, SetsInv, NEW s \in Slots, s \in Active,
         RequestStep(s) \/ AnswerStep(s) \/ AccountStep(s),
         NEW a \in Names, NEW b \in Names, OneAtATime(a, b), Works(s, a, b)
  PROVE  OneAtATime(a, b)'
<1>1. \A n \in Names : requests[n] \in SetType /\ SetOk(requests[n])
  BY DEF TypeOK, SetType, SetsInv
<1>2. op[s] \in Handler
  BY DEF Active, TypeOK
<1>3. Apart(s)
  BY RequestMoves, AnswerMoves, AccountMoves, QueueMoves
<1>4. ASSUME NEW t \in Active' \ {s} PROVE ~Works(t, a, b)'
  <2>1. t \in Active /\ op'[t] = op[t]
    BY <1>3, <1>4 DEF Apart
  <2>2. ~Works(t, a, b)
    BY <1>4, <2>1 DEF OneAtATime
  <2>3. QED BY <2>1, <2>2 DEF Works
<1>5. \A h : ~Start(s, h)
  BY DEF Start, Active
<1>6. End(s) => s \notin Active'
  BY DEF End, Active, TypeOK
<1>7. s \in Active' => /\ op'[s].kind = op[s].kind
                       /\ op'[s].me = op[s].me
                       /\ op'[s].peer = op[s].peer
  BY SameOperation
<1>8. CASE RequestStored(s)
  <2>1. op[s].kind = "request" /\ op[s].me = a /\ op[s].peer = b
    BY <1>2, <1>8, ResumesHandler DEF RequestStored, Works, Waits
  <2>2. told' = told \ {<<a, b, "accepted">>, <<a, b, "rejected">>}
    BY <1>8, <2>1 DEF RequestStored
  <2>3. ~Answered(a, b)'
    BY <2>2 DEF Answered
  <2>4. QED BY <1>4, <1>7, <2>1, <2>2, <2>3 DEF OneAtATime
<1>9. ASSUME s \in Active', op[s].kind # "request"
      PROVE  /\ op[s].found /\ op'[s].found
             /\ op'[s].pc \in {"exec", "srem"} => AcceptCommits(s) \/ DeclineRemoves(s)
  <2>1. op[s].kind \in {"accept", "decline"}
    BY <1>9 DEF Works
  <2>2. ~RequestStored(s)
    BY <1>9 DEF RequestStored, Resumes
  <2>3. /\ ~DeleteAsksRequests(s) /\ ~DeleteRequests(s) /\ ~DeleteAsksFriends(s)
        /\ ~DeleteFriends(s) /\ ~SignupExists(s) /\ ~SignupSession(s)
        /\ ~SignupSetsTtl(s)
    BY <2>1 DEF DeleteAsksRequests, DeleteRequests, DeleteAsksFriends,
       DeleteFriends, SignupExists, SignupSession, SignupSetsTtl, Resumes
  <2>4. op[s].pc # "ismember" => op[s].found
    BY <1>9 DEF OneAtATime
  <2>5. QED BY <1>9, <2>2, <2>3, <2>4, GoesOn
<1>10. CASE UNCHANGED <<requests, told>> /\ ~AcceptCommits(s) /\ ~DeclineRemoves(s)
  <2>1. Answered(a, b)' <=> Answered(a, b)
    BY <1>10 DEF Answered
  <2>2. QED BY <1>4, <1>7, <1>9, <1>10, <2>1 DEF OneAtATime
<1>11. CASE AcceptCommits(s) \/ DeclineRemoves(s)
  <2>1. op[s].kind \in {"accept", "decline"} /\ op[s].me = b /\ op[s].peer = a
    BY <1>2, <1>11, ResumesHandler DEF AcceptCommits, DeclineRemoves, Works, Waits
  <2>2. Removing(requests[b], a).of = requests[b].of \ {a}
    BY <1>1, SetOperations
  <2>3. a \notin requests'[b].of /\ told' = told
    BY <1>11, <2>1, <2>2 DEF AcceptCommits, DeclineRemoves, TypeOK
  <2>4. Answered(a, b)' <=> Answered(a, b)
    BY <2>3 DEF Answered
  <2>5. QED BY <1>4, <1>7, <1>9, <2>3, <2>4 DEF OneAtATime
<1>12. CASE AcceptTold(s) \/ DeclineTold(s)
  <2>1. /\ op[s].kind \in {"accept", "decline"} /\ op[s].me = b /\ op[s].peer = a
        /\ op[s].pc \in {"exec", "srem"}
    BY <1>2, <1>12, ResumesHandler DEF AcceptTold, DeclineTold, Works, Waits
  <2>2. ~Answered(a, b) /\ a \notin requests[b].of
    BY <2>1 DEF OneAtATime
  <2>3. /\ requests' = requests
        /\ \/ told' = told \cup {<<a, b, "accepted">>}
           \/ told' = told \cup {<<a, b, "rejected">>}
    BY <1>12, <2>1 DEF AcceptTold, DeclineTold, redisVars
  <2>4. s \notin Active'
    BY <1>6, <1>12 DEF AcceptTold, DeclineTold
  <2>5. <<a, b, "accepted">> \notin told' \/ <<a, b, "rejected">> \notin told'
    BY <2>2, <2>3 DEF Answered
  <2>6. QED BY <1>4, <2>2, <2>3, <2>4, <2>5 DEF OneAtATime
<1>13. RequestStep(s) => RequestStored(s) \/ (UNCHANGED <<requests, told>>
                                              /\ ~AcceptCommits(s) /\ ~DeclineRemoves(s))
  BY <1>5 DEF RequestStep, RequestStarts, RequestRefused, RequestTold, redisVars,
     AcceptCommits, DeclineRemoves, Resumes
<1>14. AnswerStep(s) => \/ AcceptCommits(s) \/ DeclineRemoves(s)
                        \/ AcceptTold(s) \/ DeclineTold(s)
                        \/ UNCHANGED <<requests, told>>
  BY <1>5 DEF AnswerStep, AnswerStarts, AnswerRefused, AcceptAsksMyTtl,
     AcceptAsksTheirTtl, redisVars
<1>15. ~AccountStep(s)
  <2>1. op[s].kind \notin {"delete", "signup"}
    BY DEF Works
  <2>2. QED BY <1>5, <2>1
        DEF AccountStep, DeleteStarts, SignupStarts, DeleteAsksRequests,
            DeleteRequests, DeleteAsksFriends, DeleteFriends, DeleteEnds,
            SignupExists, SignupSession, SignupSetsTtl, SignupEnds, Resumes
<1>16. QED BY <1>8, <1>10, <1>11, <1>12, <1>13, <1>14, <1>15

\* Every step keeps the answers to every request in order.
LEMMA AnswerNext ==
  TypeOK /\ QueueInv /\ SetsInv /\ AnswerInv /\ [Next]_vars => AnswerInv'
<1> SUFFICES ASSUME TypeOK, QueueInv, SetsInv, AnswerInv, [Next]_vars,
                    NEW a \in Names, NEW b \in Names, <<a, b>> \notin raced'
             PROVE  OneAtATime(a, b)'
  BY DEF AnswerInv
<1>1. ASSUME NEW s \in Slots, RequestStep(s) \/ AnswerStep(s) \/ AccountStep(s)
      PROVE  OneAtATime(a, b)'
  <2>1. raced \subseteq raced'
    <3>1. Moves(s)
      BY <1>1, RequestMoves, AnswerMoves, AccountMoves
    <3>2. QED BY <3>1 DEF Moves, Start
  <2>2. OneAtATime(a, b)
    BY <2>1 DEF AnswerInv
  <2>3. CASE s \in Active /\ Works(s, a, b)
    BY <1>1, <2>2, <2>3, AnswerAlone
  <2>4. CASE s \notin Active /\ s \in Active' /\ Works(s, a, b)'
    BY <1>1, <2>2, <2>4, AnswerStartsAlone
  <2>5. ASSUME s \in Active, s \in Active', ~Works(s, a, b)
        PROVE  ~Works(s, a, b)'
    <3>1. /\ op'[s].kind = op[s].kind
          /\ op'[s].me = op[s].me
          /\ op'[s].peer = op[s].peer
      BY <1>1, <2>5, SameOperation
    <3>2. QED BY <2>5, <3>1 DEF Works
  <2>6. CASE /\ s \notin Active \/ ~Works(s, a, b)
             /\ ~(s \in Active' /\ Works(s, a, b)')
    BY <1>1, <2>2, <2>6, AnswerOthers
  <2>7. QED BY <2>3, <2>4, <2>5, <2>6
<1>2. CASE Tick
  <2>1. OneAtATime(a, b)
    BY <1>2 DEF AnswerInv, Tick
  <2>2. requests'[b].of \subseteq requests[b].of
    <3>1. requests[b] \in SetType /\ SetOk(requests[b])
      BY DEF TypeOK, SetType, SetsInv
    <3>2. QED BY <1>2, <3>1, SetOperations DEF Tick
  <2>3. UNCHANGED <<op, told>>
    BY <1>2 DEF Tick
  <2>4. QED BY <2>1, <2>2, <2>3 DEF OneAtATime, Active, Works, Answered
<1>3. CASE Crash
  <2>1. Active' = {}
    BY <1>3 DEF Crash, Active
  <2>2. UNCHANGED <<requests, told, raced>>
    BY <1>3 DEF Crash, redisVars
  <2>3. QED BY <2>1, <2>2 DEF AnswerInv, OneAtATime, Answered
<1>4. CASE UNCHANGED vars
  BY <1>4 DEF vars, AnswerInv, OneAtATime, Active, Works, Answered
<1>5. QED BY <1>1, <1>2, <1>3, <1>4 DEF Next

\* The sender of a request is told of both answers only if two handlers worked on
\* the request at a time.
THEOREM OneAnswerCorrect == Spec => []OneAnswer
<1>1. Init => AnswerInv
  BY DEF Init, AnswerInv, OneAtATime, Active, Answered
<1>2. AnswerInv => OneAnswer
  BY DEF AnswerInv, OneAtATime, OneAnswer
<1>3. Spec => []AnswerInv
  BY <1>1, KeptInvariant, AnswerNext, PTL DEF Spec
<1>4. QED BY <1>2, <1>3, PTL

-----------------------------------------------------------------------------
(* Nothing outlives the account.                                            *)

Deletes(d, n) == op[d].kind = "delete" /\ op[d].me = n

\* A deletion is still to empty the set requests:<n>, or friends:<n>.
RequestsDue(n) ==
  \E d \in Active : /\ Deletes(d, n)
                    /\ \/ op[d].pc = "deluser"
                       \/ op[d].pc = "existsreq" /\ op[d].found

FriendsDue(n) ==
  \E d \in Active : /\ Deletes(d, n)
                    /\ \/ op[d].pc \in {"deluser", "existsreq", "delreq"}
                       \/ op[d].pc = "existsfr" /\ op[d].found

\* A TTL is no longer than that of user:<n>.
Within(ttl, n) == user[n] = NoTtl \/ ttl <= user[n]

\* A set is no longer than the account, or due to be emptied.
WithinName(n) ==
  /\ RequestsDue(n) \/ requests[n] = NoSet \/ Within(requests[n].ttl, n)
  /\ FriendsDue(n) \/ friends[n] = NoSet \/ Within(friends[n].ttl, n)

\* A deletion of n that has not looked at any set will answer after s; one that
\* has not looked at the friends will, or has not looked at any set.
FirstBehind(s, n) ==
  \E d \in Active : /\ Deletes(d, n)
                    /\ op[d].pc = "deluser"
                    /\ Before(s, d, replies)

SecondBehind(s, n) ==
  \E d \in Active : /\ Deletes(d, n)
                    /\ \/ op[d].pc = "deluser"
                       \/ op[d].pc = "existsreq" /\ Before(s, d, replies)

\* What a handler has read is no longer than the account, or a deletion will
\* look at what the handler writes.
WithinOp(s) ==
  /\ op[s].pc = "ttl" /\ op[s].peer \notin loose /\ op[s].theirs > 0 =>
       Within(op[s].theirs, op[s].peer) \/ FirstBehind(s, op[s].peer)
  /\ op[s].pc = "ttlme" /\ op[s].me \notin loose /\ op[s].mine > 0 =>
       Within(op[s].mine, op[s].me) \/ FirstBehind(s, op[s].me)
  /\ op[s].pc = "ttlpeer" /\ op[s].me \notin loose /\ op[s].mine > 0 =>
       Within(op[s].mine, op[s].me) \/ SecondBehind(s, op[s].me)
  /\ op[s].pc = "ttlpeer" /\ op[s].peer \notin loose /\ op[s].theirs > 0 =>
       Within(op[s].theirs, op[s].peer) \/ SecondBehind(s, op[s].peer)

OutliveInv ==
  /\ \A n \in Names \ loose : WithinName(n)
  /\ \A s \in Active : WithinOp(s)

\* A deletion takes the steps of a deletion.
LEMMA DeletionSteps ==
  ASSUME NEW s \in Slots, s \in Active, op[s].kind = "delete",
         RequestStep(s) \/ AnswerStep(s) \/ AccountStep(s)
  PROVE  \/ DeleteAsksRequests(s) \/ DeleteRequests(s) \/ DeleteAsksFriends(s)
         \/ DeleteFriends(s) \/ DeleteEnds(s)
BY DEF Active, Start, Resumes,
   RequestStep, RequestStarts, RequestRefused, RequestStored, RequestTold,
   AnswerStep, AnswerStarts, AnswerRefused, AcceptAsksMyTtl, AcceptAsksTheirTtl,
   AcceptCommits, AcceptTold, DeclineRemoves, DeclineTold, AccountStep,
   DeleteStarts, SignupStarts, SignupExists, SignupSession, SignupSetsTtl, SignupEnds

\* Every step of a deletion brings it to the next command.
LEMMA DeletionGoesOn ==
  ASSUME TypeOK, NEW s \in Slots, s \in Active
  PROVE  /\ DeleteAsksRequests(s) =>
              /\ s \in Active' /\ op[s].kind = "delete" /\ op[s].pc = "deluser"
              /\ op'[s].kind = "delete" /\ op'[s].me = op[s].me
              /\ op'[s].pc = "existsreq"
              /\ op'[s].found <=> requests[op[s].me].of # {}
         /\ DeleteRequests(s) =>
              /\ s \in Active' /\ op[s].kind = "delete" /\ op[s].pc = "existsreq"
              /\ op'[s].kind = "delete" /\ op'[s].me = op[s].me
              /\ op'[s].pc = "delreq"
         /\ DeleteAsksFriends(s) =>
              /\ s \in Active' /\ op[s].kind = "delete"
              /\ op[s].pc = "delreq" \/ (op[s].pc = "existsreq" /\ ~op[s].found)
              /\ op'[s].kind = "delete" /\ op'[s].me = op[s].me
              /\ op'[s].pc = "existsfr"
              /\ op'[s].found <=> friends[op[s].me].of # {}
         /\ DeleteFriends(s) =>
              op[s].kind = "delete" /\ op[s].pc = "existsfr"
         /\ DeleteEnds(s) =>
              /\ op[s].kind = "delete"
              /\ op[s].pc = "delfr" \/ (op[s].pc = "existsfr" /\ ~op[s].found)
<1>1. op[s] \in Handler
  BY DEF Active, TypeOK
<1>2. \A h : Then(s, h) => op'[s] = h
  BY DEF Then, TypeOK
<1>3. op'[s].pc # "idle" => s \in Active'
  BY DEF Active, Idle
<1>4. DeleteAsksRequests(s) =>
        /\ op[s].kind = "delete" /\ op[s].pc = "deluser"
        /\ op'[s].kind = "delete" /\ op'[s].me = op[s].me
        /\ op'[s].pc = "existsreq"
        /\ op'[s].found <=> requests[op[s].me].of # {}
  BY <1>1, <1>2 DEF DeleteAsksRequests, Resumes, Handler
<1>5. DeleteRequests(s) =>
        /\ op[s].kind = "delete" /\ op[s].pc = "existsreq"
        /\ op'[s].kind = "delete" /\ op'[s].me = op[s].me
        /\ op'[s].pc = "delreq"
  BY <1>1, <1>2 DEF DeleteRequests, Resumes, Handler
<1>6. DeleteAsksFriends(s) =>
        /\ op[s].kind = "delete"
        /\ op[s].pc = "delreq" \/ (op[s].pc = "existsreq" /\ ~op[s].found)
        /\ op'[s].kind = "delete" /\ op'[s].me = op[s].me
        /\ op'[s].pc = "existsfr"
        /\ op'[s].found <=> friends[op[s].me].of # {}
  BY <1>1, <1>2 DEF DeleteAsksFriends, Resumes, Handler
<1>7. QED BY <1>3, <1>4, <1>5, <1>6 DEF DeleteFriends, DeleteEnds, Resumes

\* Nothing that is due is forgotten.
LEMMA DueKept ==
  ASSUME TypeOK, QueueInv, SetsInv, NEW s \in Slots,
         RequestStep(s) \/ AnswerStep(s) \/ AccountStep(s), NEW n \in Names
  PROVE  /\ RequestsDue(n) => RequestsDue(n)' \/ requests'[n] = NoSet
         /\ FriendsDue(n) => FriendsDue(n)' \/ friends'[n] = NoSet
<1>1. Apart(s)
  BY RequestMoves, AnswerMoves, AccountMoves, QueueMoves
<1>2. ASSUME NEW d \in Active, d # s, Deletes(d, n)
      PROVE  d \in Active' /\ op'[d] = op[d] /\ Deletes(d, n)'
  BY <1>1, <1>2 DEF Apart, Deletes
<1>3. requests[n] \in SetType /\ SetOk(requests[n])
      /\ friends[n] \in SetType /\ SetOk(friends[n])
  BY DEF TypeOK, SetType, SetsInv
<1>4. ASSUME s \in Active, Deletes(s, n)
      PROVE  \/ DeleteAsksRequests(s) \/ DeleteRequests(s) \/ DeleteAsksFriends(s)
             \/ DeleteFriends(s) \/ DeleteEnds(s)
  BY <1>4, DeletionSteps DEF Deletes
<1>5. CASE s \in Active /\ Deletes(s, n) /\ DeleteAsksRequests(s)
  <2>1. requests' = requests
    BY <1>5 DEF DeleteAsksRequests, redisVars
  <2>2. s \in Active' /\ Deletes(s, n)' /\ op'[s].pc = "existsreq"
    BY <1>5, DeletionGoesOn DEF Deletes
  <2>3. op'[s].found \/ requests[n] = NoSet
    BY <1>3, <1>5, DeletionGoesOn DEF Deletes, SetOk
  <2>4. QED BY <2>1, <2>2, <2>3 DEF RequestsDue, FriendsDue
<1>6. CASE s \in Active /\ Deletes(s, n) /\ DeleteRequests(s)
  <2>1. requests'[n] = NoSet
    BY <1>6 DEF DeleteRequests, Deletes, TypeOK
  <2>2. s \in Active' /\ Deletes(s, n)' /\ op'[s].pc = "delreq"
    BY <1>6, DeletionGoesOn DEF Deletes
  <2>3. QED BY <2>1, <2>2 DEF FriendsDue
<1>7. CASE s \in Active /\ Deletes(s, n) /\ DeleteAsksFriends(s)
  <2>1. friends' = friends
    BY <1>7 DEF DeleteAsksFriends, redisVars
  <2>2. /\ s \in Active' /\ Deletes(s, n)' /\ op'[s].pc = "existsfr"
        /\ op[s].pc = "delreq" \/ (op[s].pc = "existsreq" /\ ~op[s].found)
    BY <1>7, DeletionGoesOn DEF Deletes
  <2>3. op'[s].found \/ friends[n] = NoSet
    BY <1>3, <1>7, DeletionGoesOn DEF Deletes, SetOk
  <2>4. RequestsDue(n) => RequestsDue(n)'
    BY <1>2, <2>2 DEF RequestsDue
  <2>5. FriendsDue(n)' \/ friends'[n] = NoSet
    BY <2>1, <2>2, <2>3 DEF FriendsDue
  <2>6. QED BY <2>4, <2>5
<1>8. CASE s \in Active /\ Deletes(s, n) /\ DeleteFriends(s)
  <2>1. friends'[n] = NoSet
    BY <1>8 DEF DeleteFriends, Deletes, TypeOK
  <2>2. op[s].pc = "existsfr"
    BY <1>8, DeletionGoesOn
  <2>3. RequestsDue(n) => RequestsDue(n)'
    BY <1>2, <2>2 DEF RequestsDue
  <2>4. QED BY <2>1, <2>3
<1>9. CASE s \in Active /\ Deletes(s, n) /\ DeleteEnds(s)
  <2>1. op[s].pc = "delfr" \/ (op[s].pc = "existsfr" /\ ~op[s].found)
    BY <1>9, DeletionGoesOn
  <2>2. RequestsDue(n) => RequestsDue(n)'
    BY <1>2, <2>1 DEF RequestsDue
  <2>3. FriendsDue(n) => FriendsDue(n)'
    BY <1>2, <2>1 DEF FriendsDue
  <2>4. QED BY <2>2, <2>3
<1>10. CASE s \notin Active \/ ~Deletes(s, n)
  <2>1. RequestsDue(n) => RequestsDue(n)'
    BY <1>2, <1>10 DEF RequestsDue
  <2>2. FriendsDue(n) => FriendsDue(n)'
    BY <1>2, <1>10 DEF FriendsDue
  <2>3. QED BY <2>1, <2>2
<1>11. QED BY <1>4, <1>5, <1>6, <1>7, <1>8, <1>9, <1>10

\* What stands behind another handler stays there until that answers.
LEMMA BehindKept ==
  ASSUME TypeOK, QueueInv, SetsInv, NEW s \in Slots,
         RequestStep(s) \/ AnswerStep(s) \/ AccountStep(s),
         NEW t \in Active, t # s, NEW n \in Names
  PROVE  /\ FirstBehind(t, n) => FirstBehind(t, n)'
         /\ SecondBehind(t, n) => SecondBehind(t, n)'
<1>1. Apart(s)
  BY RequestMoves, AnswerMoves, AccountMoves, QueueMoves
<1>2. ASSUME NEW d \in Active, d # s, Deletes(d, n)
      PROVE  /\ d \in Active' /\ op'[d] = op[d] /\ Deletes(d, n)'
             /\ Before(t, d, replies) => Before(t, d, replies')
  BY <1>1, <1>2 DEF Apart, Deletes, Active
<1>3. ~Before(t, s, replies)
  BY <1>1 DEF Apart, Active
<1>4. FirstBehind(t, n) => FirstBehind(t, n)'
  BY <1>2, <1>3 DEF FirstBehind
<1>5. ASSUME s \in Active, Deletes(s, n), op[s].pc = "deluser"
      PROVE  SecondBehind(t, n)'
  <2>1. DeleteAsksRequests(s)
    BY <1>5, DeletionSteps, DeletionGoesOn DEF Deletes
  <2>2. s \in Active' /\ Deletes(s, n)' /\ op'[s].pc = "existsreq"
    BY <1>5, <2>1, DeletionGoesOn DEF Deletes
  <2>3. Before(t, s, replies')
    BY <1>1, <2>2 DEF Apart
  <2>4. QED BY <2>2, <2>3 DEF SecondBehind
<1>6. SecondBehind(t, n) => SecondBehind(t, n)'
  BY <1>2, <1>3, <1>5 DEF SecondBehind
<1>7. QED BY <1>4, <1>6

\* Only a deletion shortens an account, and it begins behind all handlers.
LEMMA WithinKept ==
  ASSUME TypeOK, QueueInv, NEW s \in Slots,
         RequestStep(s) \/ AnswerStep(s) \/ AccountStep(s), NEW n \in Names
  PROVE  /\ loose' = loose
         /\ \/ \A ttl \in TtlValues : Within(ttl, n) => Within(ttl, n)'
            \/ /\ DeleteStarts(s, n)
               /\ s \in Active' /\ Deletes(s, n)' /\ op'[s].pc = "deluser"
               /\ \A t \in Active : t # s => FirstBehind(t, n)'
<1>1. user[n] \in TtlValues
  BY DEF TypeOK
<1>2. ASSUME NEW me \in Names, DeleteStarts(s, me)
      PROVE  \/ user'[n] = user[n]
             \/ /\ DeleteStarts(s, n)
                /\ s \in Active' /\ Deletes(s, n)' /\ op'[s].pc = "deluser"
                /\ \A t \in Active : t # s => FirstBehind(t, n)'
  <2>1. user'[n] = user[n] \/ me = n
    BY <1>2 DEF DeleteStarts, TypeOK
  <2>2. op'[s].kind = "delete" /\ op'[s].me = me /\ op'[s].pc = "deluser"
    BY <1>2 DEF DeleteStarts, Start, New, TypeOK
  <2>3. s \in Active'
    BY <2>2 DEF Active, Idle
  <2>4. ASSUME NEW t \in Active, t # s, me = n PROVE FirstBehind(t, n)'
    <3>1. Before(t, s, replies')
      BY <1>2, <2>3, <2>4, AccountMoves, QueueMoves DEF Apart, AccountStep
    <3>2. QED BY <2>2, <2>3, <2>4, <3>1 DEF FirstBehind, Deletes
  <2>5. QED BY <1>2, <2>1, <2>2, <2>3, <2>4 DEF Deletes
<1>3. ASSUME SignupExists(s) \/ SignupSetsTtl(s)
      PROVE  \A ttl \in TtlValues : Within(ttl, n) => Within(ttl, n)'
  <2>1. user'[n] \in {user[n], NoTtl, Ttl}
    BY <1>3 DEF SignupExists, SignupSetsTtl, TypeOK
  <2>2. \A ttl \in TtlValues : ttl <= Ttl
    BY TtlAssumption DEF TtlValues, Gone, NoTtl
  <2>3. QED BY <2>1, <2>2 DEF Within
<1>4. ASSUME user'[n] = user[n]
      PROVE  \A ttl \in TtlValues : Within(ttl, n) => Within(ttl, n)'
  BY <1>4 DEF Within
<1>5. loose' = loose
  BY Writers DEF RequestStored, AcceptCommits, DeclineRemoves, DeleteStarts, Start,
     DeleteRequests, DeleteFriends, SignupExists, SignupSetsTtl, redisVars
<1>6. user' = user \/ (\E me \in Names : DeleteStarts(s, me))
        \/ SignupExists(s) \/ SignupSetsTtl(s)
  BY Writers DEF RequestStored, AcceptCommits, DeclineRemoves, DeleteRequests,
     DeleteFriends, redisVars
<1>7. QED BY <1>2, <1>3, <1>4, <1>5, <1>6

\* What a handler has read stays as good while others take their steps.
LEMMA WithinOthers ==
  ASSUME TypeOK, QueueInv, SetsInv, NEW s \in Slots,
         RequestStep(s) \/ AnswerStep(s) \/ AccountStep(s),
         NEW t \in Active, t # s, WithinOp(t)
  PROVE  WithinOp(t)'
<1>1. op[t] \in Handler
  BY DEF TypeOK, Active
<1>2. /\ op[t].me \in Names /\ op[t].peer \in Names
      /\ op[t].mine \in TtlValues /\ op[t].theirs \in TtlValues
  BY <1>1 DEF Handler
<1>3. op'[t] = op[t]
  BY RequestMoves, AnswerMoves, AccountMoves, QueueMoves DEF Apart
<1>4. loose' = loose
  BY <1>2, WithinKept
<1>5. ASSUME NEW n \in Names, NEW ttl \in TtlValues
      PROVE  /\ Within(ttl, n) \/ FirstBehind(t, n) =>
                  Within(ttl, n)' \/ FirstBehind(t, n)'
             /\ Within(ttl, n) \/ SecondBehind(t, n) =>
                  Within(ttl, n)' \/ SecondBehind(t, n)'
  <2>1. /\ FirstBehind(t, n) => FirstBehind(t, n)'
        /\ SecondBehind(t, n) => SecondBehind(t, n)'
    BY BehindKept
  <2>2. FirstBehind(t, n)' => SecondBehind(t, n)'
    BY DEF FirstBehind, SecondBehind
  <2>3. Within(ttl, n) => Within(ttl, n)' \/ FirstBehind(t, n)'
    BY WithinKept
  <2>4. QED BY <2>1, <2>2, <2>3
<1>6. PICK h \in Handler : h = op[t]
  BY <1>1
<1>7. /\ h.pc = "ttl" /\ h.peer \notin loose /\ h.theirs > 0 =>
           Within(h.theirs, h.peer)' \/ FirstBehind(t, h.peer)'
      /\ h.pc = "ttlme" /\ h.me \notin loose /\ h.mine > 0 =>
           Within(h.mine, h.me)' \/ FirstBehind(t, h.me)'
      /\ h.pc = "ttlpeer" /\ h.me \notin loose /\ h.mine > 0 =>
           Within(h.mine, h.me)' \/ SecondBehind(t, h.me)'
      /\ h.pc = "ttlpeer" /\ h.peer \notin loose /\ h.theirs > 0 =>
           Within(h.theirs, h.peer)' \/ SecondBehind(t, h.peer)'
  BY <1>2, <1>5, <1>6 DEF WithinOp
<1>8. QED BY <1>3, <1>4, <1>6, <1>7 DEF WithinOp

\* What a handler reads is as good when it is read.
LEMMA WithinReads ==
  ASSUME TypeOK, QueueInv, SetsInv, OutliveInv, NEW s \in Slots,
         RequestStep(s) \/ AnswerStep(s) \/ AccountStep(s), s \in Active'
  PROVE  WithinOp(s)'
<1>1. \A n \in Names : user[n] \in Int /\ user[n] <= user[n]
  BY TtlIsInt DEF TypeOK
<1>2. CASE s \notin Active
  <2>1. ASSUME NEW me \in Names, NEW peer \in Names, RequestStarts(s, me, peer)
        PROVE  WithinOp(s)'
    <3>1. /\ op'[s].pc = "ttl" /\ op'[s].peer = peer
          /\ op'[s].theirs = user[peer] /\ user' = user
      BY <2>1 DEF RequestStarts, Start, New, TypeOK
    <3>2. QED BY <1>1, <3>1 DEF WithinOp, Within
  <2>2. ASSUME NEW kind \in Kinds, NEW me \in Names, NEW peer \in Names,
               AnswerStarts(s, kind, me, peer)
        PROVE  WithinOp(s)'
    <3>1. op'[s].pc = "ismember"
      BY <2>2 DEF AnswerStarts, Start, New, TypeOK
    <3>2. QED BY <3>1 DEF WithinOp
  <2>3. ASSUME NEW me \in Names, DeleteStarts(s, me) \/ SignupStarts(s, me)
        PROVE  WithinOp(s)'
    <3>1. op'[s].pc \in {"deluser", "exists"}
      BY <2>3 DEF DeleteStarts, SignupStarts, Start, New, TypeOK
    <3>2. QED BY <3>1 DEF WithinOp
  <2>4. QED BY <1>2, <2>1, <2>2, <2>3, FirstSteps
<1>3. CASE s \in Active
  <2>1. op[s] \in Handler /\ WithinOp(s)
    BY <1>3 DEF TypeOK, Active, OutliveInv
  <2>2. op[s].me \in Names /\ op[s].peer \in Names
    BY <2>1 DEF Handler
  <2>3. op'[s].me = op[s].me /\ op'[s].peer = op[s].peer
    BY <1>3, SameOperation
  <2>4. CASE op'[s].pc \notin {"ttl", "ttlme", "ttlpeer"}
    BY <2>4 DEF WithinOp
  <2>5. CASE AcceptAsksMyTtl(s) /\ op'[s].pc = "ttlme" /\ op'[s].mine = user[op[s].me]
    <3>1. user' = user
      BY <2>5 DEF AcceptAsksMyTtl, redisVars
    <3>2. QED BY <1>1, <2>2, <2>3, <2>5, <3>1 DEF WithinOp, Within
  <2>6. CASE /\ AcceptAsksTheirTtl(s) /\ op[s].pc = "ttlme"
             /\ op'[s].pc = "ttlpeer" /\ op'[s].mine = op[s].mine
             /\ op'[s].theirs = user[op[s].peer]
    <3>1. user' = user /\ loose' = loose
      BY <2>6 DEF AcceptAsksTheirTtl, redisVars
    <3>2. op[s].me \notin loose /\ op[s].mine > 0 =>
            Within(op[s].mine, op[s].me) \/ FirstBehind(s, op[s].me)
      BY <2>1, <2>6 DEF WithinOp
    <3>3. FirstBehind(s, op[s].me) => SecondBehind(s, op[s].me)'
      <4>1. op[s].kind = "accept"
        BY <2>6 DEF AcceptAsksTheirTtl, Resumes
      <4>2. \A d \in Active \ {s} : d \in Active' /\ op'[d] = op[d]
        BY RequestMoves, AnswerMoves, AccountMoves, QueueMoves DEF Apart
      <4>3. QED BY <2>3, <4>1, <4>2 DEF FirstBehind, SecondBehind, Deletes
    <3>4. QED BY <1>1, <2>2, <2>3, <2>6, <3>1, <3>2, <3>3 DEF WithinOp, Within
  <2>7. QED BY <1>3, <2>4, <2>5, <2>6, GoesOn
<1>4. QED BY <1>2, <1>3

\* What a handler writes is no longer than the account, or due to be emptied.
LEMMA WithinWrites ==
  ASSUME TypeOK, QueueInv, SetsInv, OutliveInv, NEW s \in Slots,
         RequestStep(s) \/ AnswerStep(s) \/ AccountStep(s),
         NEW n \in Names, n \notin loose
  PROVE  WithinName(n)'
<1>1. \A m \in Names : /\ requests[m] \in SetType /\ SetOk(requests[m])
                       /\ friends[m] \in SetType /\ SetOk(friends[m])
  BY DEF TypeOK, SetType, SetsInv
<1>2. /\ RequestsDue(n) => RequestsDue(n)' \/ requests'[n] = NoSet
      /\ FriendsDue(n) => FriendsDue(n)' \/ friends'[n] = NoSet
  BY DueKept
<1>3. \/ \A ttl \in TtlValues : Within(ttl, n) => Within(ttl, n)'
      \/ RequestsDue(n)' /\ FriendsDue(n)'
  BY WithinKept DEF RequestsDue, FriendsDue
<1>4. \/ requests'[n] = NoSet
      \/ requests[n] # NoSet /\ requests'[n].ttl = requests[n].ttl
      \/ RequestStored(s) /\ op[s].peer = n
  <2>1. ASSUME AcceptCommits(s) \/ DeclineRemoves(s)
        PROVE  requests'[n] = NoSet
               \/ (requests[n] # NoSet /\ requests'[n].ttl = requests[n].ttl)
    <3>1. op[s].me \in Names /\ op[s].peer \in Names
      BY <2>1, ResumesHandler DEF AcceptCommits, DeclineRemoves, Waits, Handler
    <3> DEFINE left == Removing(requests[op[s].me], op[s].peer)
    <3>2. \/ left = NoSet
          \/ requests[op[s].me] # NoSet /\ left.ttl = requests[op[s].me].ttl
      <4>1. Removing(NoSet, op[s].peer) = NoSet
        BY DEF Removing, NoSet
      <4>2. QED BY <1>1, <3>1, <4>1, SetOperations
    <3>3. requests' = [requests EXCEPT ![op[s].me] = left]
      BY <2>1 DEF AcceptCommits, DeclineRemoves
    <3> HIDE DEF left
    <3>4. QED BY <3>1, <3>2, <3>3 DEF TypeOK
  <2>2. ASSUME RequestStored(s), op[s].peer # n PROVE requests'[n] = requests[n]
    BY <2>2 DEF RequestStored, TypeOK
  <2>3. ASSUME DeleteRequests(s) PROVE requests'[n] \in {NoSet, requests[n]}
    BY <2>3 DEF DeleteRequests, TypeOK
  <2>4. QED BY <2>1, <2>2, <2>3, Writers
            DEF DeleteStarts, Start, DeleteFriends, SignupExists, SignupSetsTtl,
                redisVars
<1>5. \/ friends'[n] = friends[n]
      \/ friends'[n] = NoSet
      \/ AcceptCommits(s) /\ n \in {op[s].me, op[s].peer}
  <2>1. ASSUME AcceptCommits(s), n \notin {op[s].me, op[s].peer}
        PROVE  friends'[n] = friends[n]
    BY <2>1 DEF AcceptCommits, Befriended, TypeOK
  <2>2. ASSUME DeleteFriends(s) PROVE friends'[n] \in {NoSet, friends[n]}
    BY <2>2 DEF DeleteFriends, TypeOK
  <2>3. QED BY <2>1, <2>2, Writers
            DEF RequestStored, DeclineRemoves, DeleteStarts, Start, DeleteRequests,
                SignupExists, SignupSetsTtl, redisVars
<1>6. WithinName(n) /\ (op[s] \in Handler => WithinOp(s))
  BY NotIdle DEF OutliveInv, Active
<1>7. requests[n].ttl \in TtlValues /\ friends[n].ttl \in TtlValues
  BY <1>1 DEF SetType
<1>8. ASSUME op[s].kind # "delete", s \in Active
      PROVE  /\ FirstBehind(s, n) => RequestsDue(n)'
             /\ SecondBehind(s, n) => FriendsDue(n)'
  <2>1. \A d \in Active \ {s} : d \in Active' /\ op'[d] = op[d]
    BY RequestMoves, AnswerMoves, AccountMoves, QueueMoves DEF Apart
  <2>2. FirstBehind(s, n) => RequestsDue(n)'
    BY <1>8, <2>1 DEF FirstBehind, RequestsDue, Deletes
  <2>3. SecondBehind(s, n) => FriendsDue(n)'
    BY <1>8, <2>1 DEF SecondBehind, FriendsDue, Deletes
  <2>4. QED BY <2>2, <2>3
<1>9. ASSUME requests[n] # NoSet, requests'[n].ttl = requests[n].ttl
      PROVE  RequestsDue(n)' \/ requests'[n] = NoSet \/ Within(requests[n].ttl, n)'
  <2>1. Within(requests[n].ttl, n)' <=>
          (user'[n] = NoTtl \/ requests[n].ttl <= user'[n])
    BY <1>9 DEF Within
  <2>2. QED BY <1>2, <1>3, <1>6, <1>7, <1>9, <2>1 DEF WithinName, Within
<1>10. ASSUME RequestStored(s), op[s].peer = n
       PROVE  RequestsDue(n)' \/ requests'[n] = NoSet \/ Within(requests[n].ttl, n)'
  <2>1. /\ op[s] \in Handler /\ op[s].pc = "ttl" /\ op[s].kind = "request"
        /\ op[s].me \in Names /\ op[s].theirs \in TtlValues
    BY <1>10, ResumesHandler DEF RequestStored, Waits, Handler
  <2> DEFINE new == Adding(requests[n], op[s].me, op[s].theirs)
  <2>2. requests'[n] = new /\ user' = user
    BY <1>10 DEF RequestStored, TypeOK
  <2>3. op[s].theirs > 0
    BY <1>10, <2>1, TtlAssumption DEF RequestStored, TtlValues, Gone, NoTtl
  <2>4. new.ttl = op[s].theirs
    BY <1>1, <2>1, <2>3, SetOperations
  <2>5. Within(op[s].theirs, n) \/ FirstBehind(s, n)
    BY <1>6, <1>10, <2>1, <2>3 DEF WithinOp
  <2>6. Within(op[s].theirs, n) => Within(requests[n].ttl, n)'
    BY <2>2, <2>4 DEF Within
  <2>7. FirstBehind(s, n) => RequestsDue(n)'
    BY <1>8, <2>1, NotIdle DEF Active
  <2>8. QED BY <2>5, <2>6, <2>7
<1>11. ASSUME AcceptCommits(s), n \in {op[s].me, op[s].peer}
       PROVE  FriendsDue(n)' \/ friends'[n] = NoSet \/ Within(friends[n].ttl, n)'
  <2>1. /\ op[s] \in Handler /\ op[s].pc = "ttlpeer" /\ op[s].kind = "accept"
        /\ op[s].me \in Names /\ op[s].peer \in Names
        /\ op[s].mine \in TtlValues /\ op[s].theirs \in TtlValues
    BY <1>11, ResumesHandler DEF AcceptCommits, Waits, Handler
  <2>2. s \in Active /\ op[s].me # op[s].peer
    BY <2>1, NotIdle DEF SetsInv, Active
  <2>3. PICK ttl \in {op[s].mine, op[s].theirs}, m \in Names :
          /\ friends'[n] = Adding(friends[n], m, ttl)
          /\ ttl > 0 => Within(ttl, n) \/ SecondBehind(s, n)
    <3>1. /\ friends'[op[s].me] = Adding(friends[op[s].me], op[s].peer, op[s].mine)
          /\ friends'[op[s].peer] = Adding(friends[op[s].peer], op[s].me, op[s].theirs)
      <4>1. friends' = Befriended(op[s].me, op[s].peer, op[s].mine, op[s].theirs)
        BY <1>11 DEF AcceptCommits
      <4>2. QED BY <2>1, <2>2, <4>1, BefriendedKeys
    <3>2. CASE n = op[s].me
      BY <1>6, <2>1, <3>1, <3>2 DEF WithinOp
    <3>3. CASE n = op[s].peer
      BY <1>6, <2>1, <3>1, <3>3 DEF WithinOp
    <3>4. QED BY <1>11, <3>2, <3>3
  <2>4. ttl \in TtlValues
    BY <2>1
  <2>5. CASE ttl > 0
    <3>1. friends'[n].ttl = ttl
      BY <1>1, <2>3, <2>4, <2>5, SetOperations
    <3>2. user' = user
      BY <1>11 DEF AcceptCommits
    <3>3. Within(ttl, n) => Within(friends[n].ttl, n)'
      BY <3>1, <3>2 DEF Within
    <3>4. QED BY <1>8, <2>1, <2>2, <2>3, <2>5, <3>3
  <2>6. CASE ~(ttl > 0)
    BY <2>3, <2>6 DEF Adding
  <2>7. QED BY <2>5, <2>6
<1>12. RequestsDue(n)' \/ requests'[n] = NoSet \/ Within(requests[n].ttl, n)'
  BY <1>4, <1>9, <1>10
<1>13. FriendsDue(n)' \/ friends'[n] = NoSet \/ Within(friends[n].ttl, n)'
  <2>1. CASE friends'[n] = friends[n]
    <3>1. Within(friends[n].ttl, n)' <=> (user'[n] = NoTtl \/ friends[n].ttl <= user'[n])
      BY <2>1 DEF Within
    <3>2. QED BY <1>2, <1>3, <1>6, <1>7, <2>1, <3>1 DEF WithinName, Within
  <2>2. QED BY <1>5, <1>11, <2>1
<1>14. QED BY <1>12, <1>13 DEF WithinName

\* A second takes as much of the sets as of the accounts, and what has been read
\* before it is no longer relied on.
LEMMA WithinTick ==
  ASSUME TypeOK, SetsInv, OutliveInv, Tick
  PROVE  OutliveInv'
<1>1. \A n \in Names : /\ requests[n] \in SetType /\ SetOk(requests[n])
                       /\ friends[n] \in SetType /\ SetOk(friends[n])
  BY DEF TypeOK, SetType, SetsInv
<1>2. /\ op' = op /\ replies' = replies /\ Active' = Active
      /\ loose' = loose \cup ReadTtls
  BY DEF Tick, Active
<1>3. ASSUME NEW s \in Active' PROVE WithinOp(s)'
  <2>1. /\ op[s].pc \in {"ttl", "ttlpeer"} => op[s].peer \in loose'
        /\ op[s].pc \in {"ttlme", "ttlpeer"} => op[s].me \in loose'
    BY <1>2, <1>3 DEF ReadTtls
  <2>2. QED BY <1>2, <2>1 DEF WithinOp
<1>4. ASSUME NEW n \in Names, n \notin loose' PROVE WithinName(n)'
  <2>1. WithinName(n)
    BY <1>2, <1>4 DEF OutliveInv
  <2>2. /\ RequestsDue(n)' <=> RequestsDue(n)
        /\ FriendsDue(n)' <=> FriendsDue(n)
    BY <1>2 DEF RequestsDue, FriendsDue, Deletes
  <2>3. /\ user[n] \in Int /\ user'[n] = Aged(user[n])
        /\ requests'[n] = AgedSet(requests[n])
        /\ friends'[n] = AgedSet(friends[n])
    BY TtlIsInt DEF Tick, TypeOK
  <2>4. ASSUME NEW set \in SetType, SetOk(set), set = NoSet \/ Within(set.ttl, n)
        PROVE  \/ AgedSet(set) = NoSet
               \/ user'[n] = NoTtl \/ AgedSet(set).ttl <= user'[n]
    <3>1. set.ttl \in Int /\ (set.ttl > 1 \/ set.ttl <= 1)
      BY TtlIsInt DEF SetType
    <3>2. CASE set.ttl <= 1
      BY <2>4, <3>2, SetOperations
    <3>3. CASE set.ttl > 1
      <4>1. AgedSet(set).ttl = set.ttl - 1
        BY <2>4, <3>3, SetOperations
      <4>2. set # NoSet
        BY <3>3 DEF NoSet, Gone
      <4>3. user[n] = NoTtl \/ set.ttl <= user[n]
        BY <2>4, <4>2 DEF Within
      <4>4. QED BY <2>3, <3>1, <3>3, <4>1, <4>3 DEF Aged, NoTtl, Gone
    <3>4. QED BY <3>1, <3>2, <3>3
  <2>5. RequestsDue(n) \/ requests'[n] = NoSet \/ Within(requests[n].ttl, n)'
    BY <1>1, <2>1, <2>3, <2>4 DEF WithinName, Within
  <2>6. FriendsDue(n) \/ friends'[n] = NoSet \/ Within(friends[n].ttl, n)'
    BY <1>1, <2>1, <2>3, <2>4 DEF WithinName, Within
  <2>7. QED BY <2>2, <2>5, <2>6 DEF WithinName
<1>5. QED BY <1>3, <1>4 DEF OutliveInv

\* Every step keeps the sets no longer than the accounts.
LEMMA OutliveNext ==
  TypeOK /\ QueueInv /\ SetsInv /\ OutliveInv /\ [Next]_vars => OutliveInv'
<1> SUFFICES ASSUME TypeOK, QueueInv, SetsInv, OutliveInv, [Next]_vars
             PROVE  OutliveInv'
  OBVIOUS
<1>1. ASSUME NEW s \in Slots, RequestStep(s) \/ AnswerStep(s) \/ AccountStep(s)
      PROVE  OutliveInv'
  <2>1. Apart(s)
    BY <1>1, RequestMoves, AnswerMoves, AccountMoves, QueueMoves
  <2>2. ASSUME NEW t \in Active' PROVE WithinOp(t)'
    <3>1. CASE t = s
      BY <1>1, <2>2, <3>1, WithinReads
    <3>2. CASE t # s
      <4>1. t \in Active /\ WithinOp(t)
        BY <2>1, <2>2, <3>2 DEF Apart, OutliveInv
      <4>2. QED BY <1>1, <3>2, <4>1, WithinOthers
    <3>3. QED BY <3>1, <3>2
  <2>3. ASSUME NEW n \in Names, n \notin loose' PROVE WithinName(n)'
    <3>1. n \notin loose
      BY <1>1, <2>3, WithinKept
    <3>2. QED BY <1>1, <3>1, WithinWrites
  <2>4. QED BY <2>2, <2>3 DEF OutliveInv
<1>2. CASE Tick
  BY <1>2, WithinTick
<1>3. CASE Crash
  <2>1. /\ Active' = {}
        /\ loose' = loose \cup Deleting
        /\ UNCHANGED <<user, requests, friends>>
    BY <1>3 DEF Crash, Active, redisVars
  <2>2. ASSUME NEW n \in Names, n \notin loose' PROVE WithinName(n)'
    <3>1. WithinName(n)
      BY <2>1, <2>2 DEF OutliveInv
    <3>2. ~RequestsDue(n) /\ ~FriendsDue(n)
      BY <2>1, <2>2 DEF RequestsDue, FriendsDue, Deletes, Deleting
    <3>3. QED BY <2>1, <3>1, <3>2 DEF WithinName, Within
  <2>3. QED BY <2>1, <2>2 DEF OutliveInv
<1>4. CASE UNCHANGED vars
  BY <1>4 DEF vars, OutliveInv, WithinName, WithinOp, Within, RequestsDue,
     FriendsDue, FirstBehind, SecondBehind, Deletes, Active
<1>5. QED BY <1>1, <1>2, <1>3, <1>4 DEF Next

\* When an account has ended and no deletion of it is under way, nothing is left
\* of its requests and friends, unless time passed between a TTL that was read
\* and what was written with it, or a crash cut a deletion short.
THEOREM NothingOutlivesCorrect == Spec => []NothingOutlives
<1>1. Init => OutliveInv
  BY DEF Init, OutliveInv, WithinName, Active
<1>2. SetsInv /\ OutliveInv => NothingOutlives
  <2> SUFFICES ASSUME SetsInv, OutliveInv, NEW n \in Names, user[n] = Gone,
                      n \notin Deleting \cup loose
               PROVE  requests[n] = NoSet /\ friends[n] = NoSet
    BY DEF NothingOutlives
  <2>1. WithinName(n)
    BY DEF OutliveInv
  <2>2. ~RequestsDue(n) /\ ~FriendsDue(n)
    BY DEF RequestsDue, FriendsDue, Deletes, Deleting
  <2>3. SetOk(requests[n]) /\ SetOk(friends[n])
    BY DEF SetsInv
  <2>4. \A ttl \in 1..Ttl : ~Within(ttl, n)
    BY TtlAssumption DEF Within, Gone, NoTtl
  <2>5. QED BY <2>1, <2>2, <2>3, <2>4 DEF WithinName, SetOk
<1>3. Spec => []OutliveInv
  BY <1>1, KeptInvariant, OutliveNext, PTL DEF Spec
<1>4. QED BY <1>2, <1>3, KeptInvariant, PTL
=============================================================================
