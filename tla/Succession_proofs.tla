-------------------------- MODULE Succession_proofs --------------------------
(***************************************************************************)
(* Theorems about Succession, for every number of messages, connections,    *)
(* drains, account requests and ticks: what an account leaves to the next   *)
(* owner of its name, and what it does not.                                 *)
(***************************************************************************)
EXTENDS Succession, Queue_proofs

-----------------------------------------------------------------------------
(* Types.  TypeOK says nothing of the variables of Delivery, and is not      *)
(* inductive: that the name has an owner of its own after each sign-up needs *)
(* the order of the steps of account requests.                               *)

Handlers == D!Msgs \cup Drains \cup {Account}

RequestSteps == {"idle", "exists", "hset", "sadd", "expire",
                 "smembers", "delsess", "delset", "deluser"}

Request == [pc : RequestSteps, by : {0} \cup Owners, found : BOOLEAN,
            listed : {0} \cup Owners]

\* The variables of Delivery.
DeliveryTyped ==
  /\ conn \in [Conns -> {"new", "up", "down"}]
  /\ listening \in [Conns -> BOOLEAN]
  /\ pc \in [D!Msgs -> {"unsent"} \cup D!InProgress \cup D!Settled]
  /\ flight \in [D!Msgs -> [Conns -> D!PacketStates]]
  /\ first \in [D!Msgs -> {"none", "ok", "error"}]
  /\ replies \in Seq(Handlers)
  /\ inbox \in Seq(D!Msgs)
  /\ drain \in [Drains -> D!DrainRun]

\* The account and the request for it: who could own the name before has been
\* counted, a sign-up that goes on has found the name free, a name that is free
\* has no session in its set, and only a sign-up leaves it without a TTL.
AccountTyped ==
  /\ user \in {Gone, NoTtl} \cup 1..Ttl
  /\ owner \in Owners
  /\ member \in {0, owner}
  /\ session \in [Owners -> 0..Ttl]
  /\ request \in Request
  /\ requested \in 0..MaxRequests
  /\ expired \in BOOLEAN
  /\ owner <= requested + 1
  /\ request.pc = "exists" => owner <= requested
  /\ request.pc = "exists" /\ ~request.found => user = Gone
  /\ user = NoTtl <=> request.pc \in {"hset", "sadd"}
  /\ user = Gone \/ request.pc = "delset" => member = 0
  /\ \A o \in Owners : session[o] > 0 => o <= owner

\* Sockets, messages and the inbox; a handler that pushes has read a TTL.
MailTyped ==
  /\ of \in [Conns -> {0} \cup Owners]
  /\ mail \in [D!Msgs -> {0} \cup Owners]
  /\ held \in [D!Msgs -> {Gone} \cup 1..Ttl]
  /\ keep \in {Gone} \cup 1..Ttl
  /\ inbox = <<>> <=> keep = Gone
  /\ \A m \in D!Msgs : pc[m] = "ttl" => held[m] \in 1..Ttl
  /\ taken \subseteq D!Msgs \X ({0} \cup Owners)
  /\ stranded \subseteq D!Msgs
  /\ lingering \subseteq {0} \cup Owners

Typed == DeliveryTyped /\ AccountTyped /\ MailTyped

\* Types are those of TypeOK.
LEMMA TypedIsTypeOK == Typed => TypeOK
BY DEF Typed, DeliveryTyped, AccountTyped, MailTyped, TypeOK, Request, RequestSteps

\* TTLs and the numbers of accounts are integers.
LEMMA Numbers ==
  /\ Ttl \in Nat \ {0}
  /\ \A x \in {Gone, NoTtl} \cup 1..Ttl : x \in Int
  /\ \A o \in {0} \cup Owners : o \in Nat
  /\ 1 \in Owners
BY TtlAssumption, BoundsAssumption DEF Gone, NoTtl, Owners

\* A message is no drain, and neither is the account request.
LEMMA Apart ==
  /\ \A m \in D!Msgs : m \notin Drains /\ m # Account
  /\ \A d \in Drains : d \notin D!Msgs /\ d # Account
BY DeliveryAssumption DEF D!Msgs

\* The initial state has the types.
LEMMA InitTyped == Init => Typed
<1> SUFFICES ASSUME Init PROVE Typed
  OBVIOUS
<1>1. D!NoDrain \in D!DrainRun
  BY EmptySeq DEF D!NoDrain, D!DrainRun, D!DrainStates, D!PacketStates
<1>2. DeliveryTyped
  BY <1>1, EmptySeq DEF Init, D!Init, DeliveryTyped, D!PacketStates
<1>3. AccountTyped
  <2>1. request \in Request /\ request.pc = "idle"
    BY DEF Init, NoRequest, Request, RequestSteps
  <2>2. requested \in 0..MaxRequests /\ owner <= requested + 1
    BY BoundsAssumption DEF Init
  <2>3. user \notin {Gone, NoTtl} /\ user \in 1..Ttl
    BY Numbers DEF Init, Gone, NoTtl
  <2>4. /\ session \in [Owners -> 0..Ttl]
        /\ \A o \in Owners : session[o] > 0 => o <= owner
    BY Numbers DEF Init
  <2>5. QED BY <2>1, <2>2, <2>3, <2>4, Numbers DEF Init, AccountTyped
<1>4. MailTyped
  BY <1>2 DEF Init, D!Init, MailTyped
<1>5. QED BY <1>2, <1>3, <1>4 DEF Typed

\* The steps of pages and of messages leave the account alone.
LEMMA PathFrame ==
  PageStep \/ MessageStep => UNCHANGED accountVars
BY DEF PageStep, MessageStep, Connect, Page, TakeMessage, TakeBatch, Send,
       Acknowledged, Push, HandlerEnds, Drain

\* The steps of account requests leave the message path alone, but for the queue.
LEMMA AccountFrame ==
  AccountStep => UNCHANGED <<conn, listening, pc, flight, first, inbox, drain,
                             received, overtaken, mailVars, taken, ticks, expired>>
BY DEF AccountStep, SignupStarts, SignupExists, SignupStored, SignupSetsTtl,
       SignupResponds, DeleteStarts, Touch, DeleteRecords, DeleteSet, DeleteUser,
       DeleteResponds, Start, Resumes, Aside, deliveryVars, mailVars, historyVars

\* Changing fields of a run leaves a run.
LEMMA RunFields ==
  ASSUME NEW run \in D!DrainRun
  PROVE  /\ \A p \in D!DrainStates : [run EXCEPT !.pc = p] \in D!DrainRun
         /\ \A q \in D!PacketStates : [run EXCEPT !.packet = q] \in D!DrainRun
         /\ \A p \in D!DrainStates, q \in D!PacketStates :
              [run EXCEPT !.pc = p, !.packet = q] \in D!DrainRun
         /\ \A p \in D!DrainStates, c \in Conns :
              [run EXCEPT !.pc = p, !.conn = c] \in D!DrainRun
         /\ \A p \in D!DrainStates, b \in Seq(D!Msgs) :
              [run EXCEPT !.pc = p, !.batch = b] \in D!DrainRun
BY DEF D!DrainRun

\* A handler joins the queue, leaves it, or leaves it and joins it again.
LEMMA QueueTypes ==
  ASSUME DeliveryTyped
  PROVE  /\ \A h \in Handlers : Append(replies, h) \in Seq(Handlers)
         /\ replies # <<>> => /\ Tail(replies) \in Seq(Handlers)
                              /\ \A h \in Handlers :
                                   Append(Tail(replies), h) \in Seq(Handlers)
BY AppendProperties, HeadTailProperties DEF DeliveryTyped

\* The pages' steps keep the types of Delivery's variables.
LEMMA PageDelivery ==
  ASSUME Typed, PageStep
  PROVE  DeliveryTyped'
<1> USE DEF Typed, DeliveryTyped, D!historyVars, D!clientVars
<1>1. ASSUME NEW c \in Conns, NEW a \in BOOLEAN, D!Connect(c, a)
      PROVE  DeliveryTyped'
  BY <1>1 DEF D!Connect
<1>2. ASSUME NEW c \in Conns, D!Disconnect(c) \/ D!Unmount(c)
      PROVE  DeliveryTyped'
  BY <1>2 DEF D!Disconnect, D!Unmount
<1>3. ASSUME NEW c \in Conns, NEW d \in Drains, D!Mount(c, d)
      PROVE  DeliveryTyped'
  <2>1. drain' \in [Drains -> D!DrainRun]
    BY <1>3, RunFields DEF D!Mount, D!DrainStates
  <2>2. QED BY <1>3, <2>1 DEF D!Mount
<1>4. ASSUME NEW c \in Conns, NEW m \in D!Msgs, NEW s \in AckStatuses,
             D!TakeMessage(m, c, s)
      PROVE  DeliveryTyped'
  <2>1. s \in D!PacketStates
    BY DeliveryAssumption DEF D!PacketStates
  <2>2. QED BY <1>4, <2>1 DEF D!TakeMessage
<1>5. ASSUME NEW d \in Drains, NEW s \in AckStatuses, D!TakeBatch(d, s)
      PROVE  DeliveryTyped'
  <2>1. s \in D!PacketStates
    BY DeliveryAssumption DEF D!PacketStates
  <2>2. drain' \in [Drains -> D!DrainRun]
    BY <1>5, <2>1, RunFields DEF D!TakeBatch
  <2>3. QED BY <1>5, <2>2 DEF D!TakeBatch
<1> QED
  BY <1>1, <1>2, <1>3, <1>4, <1>5 DEF PageStep, Connect, Page, TakeMessage, TakeBatch

\* AskTtl keeps the types of the variables it changes.
LEMMA AskTtlDelivery ==
  ASSUME DeliveryTyped, NEW m \in D!Msgs, D!AskTtl(m)
  PROVE  /\ pc' \in [D!Msgs -> {"unsent"} \cup D!InProgress \cup D!Settled]
         /\ replies' \in Seq(Handlers)
<1>1. m \in Handlers
  BY DEF Handlers
<1>2. replies' \in Seq(Handlers)
  BY <1>1, QueueTypes DEF D!AskTtl, DeliveryTyped
<1>3. pc' \in [D!Msgs -> {"unsent"} \cup D!InProgress \cup D!Settled]
  BY DEF D!AskTtl, DeliveryTyped, D!InProgress, D!Settled
<1>4. QED BY <1>2, <1>3

\* So do the steps of the message path.
LEMMA MessageDelivery ==
  ASSUME Typed, MessageStep
  PROVE  DeliveryTyped'
<1> USE DEF Typed, D!historyVars, D!clientVars
<1>1. ASSUME NEW m \in D!Msgs, D!SendToRoom(m)
      PROVE  DeliveryTyped'
  BY <1>1 DEF D!SendToRoom, DeliveryTyped, D!PacketStates, D!InProgress
<1>2. ASSUME NEW m \in D!Msgs, D!SendToEmptyRoom(m)
      PROVE  DeliveryTyped'
  BY <1>2, AskTtlDelivery DEF D!SendToEmptyRoom, DeliveryTyped
<1>3. ASSUME NEW m \in D!Msgs, NEW c \in Conns, D!AckArrives(m, c)
      PROVE  DeliveryTyped'
  <2>1. /\ flight' \in [D!Msgs -> [Conns -> D!PacketStates]]
        /\ first' \in [D!Msgs -> {"none", "ok", "error"}]
    BY <1>3, DeliveryAssumption DEF D!AckArrives, DeliveryTyped, D!PacketStates
  <2>2. /\ pc' \in [D!Msgs -> {"unsent"} \cup D!InProgress \cup D!Settled]
        /\ replies' \in Seq(Handlers)
    BY <1>3, AskTtlDelivery DEF D!AckArrives, DeliveryTyped, D!Settled
  <2>3. QED BY <1>3, <2>1, <2>2 DEF D!AckArrives, DeliveryTyped
<1>4. ASSUME NEW m \in D!Msgs, D!Push(m)
      PROVE  DeliveryTyped'
  <2>1. m \in Handlers
    BY DEF Handlers
  <2>2. replies' \in Seq(Handlers)
    BY <1>4, <2>1, QueueTypes DEF D!Push
  <2>3. inbox' \in Seq(D!Msgs)
    BY <1>4, AppendProperties DEF D!Push, DeliveryTyped
  <2>4. QED BY <1>4, <2>2, <2>3 DEF D!Push, DeliveryTyped, D!InProgress
<1>5. ASSUME NEW m \in D!Msgs, D!AckTimeout(m)
      PROVE  DeliveryTyped'
  BY <1>5 DEF D!AckTimeout, DeliveryTyped, D!Settled
<1>6. ASSUME NEW m \in D!Msgs, D!AckSender(m)
      PROVE  DeliveryTyped'
  <2>1. replies' \in Seq(Handlers)
    BY <1>6, QueueTypes DEF D!AckSender
  <2>2. QED BY <1>6, <2>1 DEF D!AckSender, DeliveryTyped, D!Settled
<1>7. ASSUME NEW d \in Drains, D!StartDrain(d)
      PROVE  DeliveryTyped'
  <2>1. d \in Handlers
    BY DEF Handlers
  <2>2. drain' \in [Drains -> D!DrainRun]
    BY <1>7, RunFields DEF D!StartDrain, DeliveryTyped, D!DrainStates
  <2>3. replies' \in Seq(Handlers)
    BY <1>7, <2>1, QueueTypes DEF D!StartDrain
  <2>4. QED BY <1>7, <2>2, <2>3 DEF D!StartDrain, DeliveryTyped
<1>8. ASSUME NEW d \in Drains, D!EmitBatch(d)
      PROVE  DeliveryTyped'
  <2>1. replies' \in Seq(Handlers)
    BY <1>8, QueueTypes DEF D!EmitBatch
  <2>2. /\ [drain[d] EXCEPT !.pc = "done"] \in D!DrainRun
        /\ [drain[d] EXCEPT !.pc = "waiting", !.packet = "sent"] \in D!DrainRun
    BY RunFields DEF DeliveryTyped, D!DrainStates, D!PacketStates
  <2>3. \/ drain' = [drain EXCEPT ![d] = [drain[d] EXCEPT !.pc = "done"]]
        \/ drain' = [drain EXCEPT ![d] =
                       [drain[d] EXCEPT !.pc = "waiting", !.packet = "sent"]]
    BY <1>8 DEF D!EmitBatch
  <2>4. drain' \in [Drains -> D!DrainRun]
    BY <2>2, <2>3 DEF DeliveryTyped
  <2>5. QED BY <1>8, <2>1, <2>4 DEF D!EmitBatch, DeliveryTyped
<1>9. ASSUME NEW d \in Drains, D!DrainAckArrives(d)
      PROVE  DeliveryTyped'
  <2>1. d \in Handlers
    BY DEF Handlers
  <2>2. replies' \in Seq(Handlers) /\ inbox' \in Seq(D!Msgs)
    BY <1>9, <2>1, QueueTypes, EmptySeq DEF D!DrainAckArrives, DeliveryTyped
  <2>3. \A p \in {"del", "done"} :
          [drain[d] EXCEPT !.pc = p, !.packet = "answered"] \in D!DrainRun
    BY RunFields DEF DeliveryTyped, D!DrainStates, D!PacketStates
  <2>4. \E p \in {"del", "done"} :
          drain' = [drain EXCEPT ![d] =
                      [drain[d] EXCEPT !.pc = p, !.packet = "answered"]]
    BY <1>9 DEF D!DrainAckArrives
  <2>5. drain' \in [Drains -> D!DrainRun]
    BY <2>3, <2>4 DEF DeliveryTyped
  <2>6. QED BY <1>9, <2>2, <2>5 DEF D!DrainAckArrives, DeliveryTyped
<1>10. ASSUME NEW d \in Drains, D!DrainTimeout(d)
       PROVE  DeliveryTyped'
  BY <1>10, RunFields DEF D!DrainTimeout, DeliveryTyped, D!DrainStates
<1>11. ASSUME NEW d \in Drains, D!DrainReturns(d)
       PROVE  DeliveryTyped'
  <2>1. replies' \in Seq(Handlers)
    BY <1>11, QueueTypes DEF D!DrainReturns
  <2>2. drain' \in [Drains -> D!DrainRun]
    BY <1>11, RunFields DEF D!DrainReturns, DeliveryTyped, D!DrainStates
  <2>3. QED BY <1>11, <2>1, <2>2 DEF D!DrainReturns, DeliveryTyped
<1> QED
  BY <1>1, <1>2, <1>3, <1>4, <1>5, <1>6, <1>7, <1>8, <1>9, <1>10, <1>11
     DEF MessageStep, Send, Acknowledged, Push, HandlerEnds, Drain

\* A step of an account request moves Account in the queue, or not.
LEMMA AccountQueue ==
  ASSUME AccountStep
  PROVE  \/ replies' = Append(replies, Account)
         \/ replies # <<>> /\ replies' = Tail(replies)
         \/ replies # <<>> /\ replies' = Append(Tail(replies), Account)
         \/ UNCHANGED replies
BY DEF AccountStep, SignupStarts, SignupExists, SignupStored, SignupSetsTtl,
       SignupResponds, DeleteStarts, Touch, DeleteRecords, DeleteSet, DeleteUser,
       DeleteResponds, Start, Resumes, Then, End, deliveryVars

\* Every step keeps the types of Delivery's variables.
LEMMA StepDelivery ==
  ASSUME Typed, [Next]_vars
  PROVE  DeliveryTyped'
<1>1. CASE AccountStep
  <2>1. Account \in Handlers
    BY DEF Handlers
  <2>2. replies' \in Seq(Handlers)
    BY <1>1, <2>1, AccountQueue, QueueTypes DEF Typed, DeliveryTyped
  <2>3. QED BY <1>1, <2>2, AccountFrame DEF Typed, DeliveryTyped
<1>2. CASE Tick
  BY <1>2, EmptySeq DEF Tick, Typed, DeliveryTyped
<1>3. CASE ExpiryEvent
  BY <1>3 DEF ExpiryEvent, Typed, DeliveryTyped
<1>4. CASE UNCHANGED vars
  BY <1>4 DEF vars, deliveryVars, Typed, DeliveryTyped
<1>5. QED
  BY <1>1, <1>2, <1>3, <1>4, PageDelivery, MessageDelivery DEF Next

\* A request that goes on keeps what it has read.
LEMMA RequestFields ==
  ASSUME AccountTyped
  PROVE  /\ \A p \in RequestSteps : /\ [request EXCEPT !.pc = p] \in Request
                                    /\ [request EXCEPT !.pc = p].pc = p
         /\ NoRequest \in Request
         /\ NoRequest.pc = "idle"
BY DEF AccountTyped, Request, RequestSteps, NoRequest

\* Account requests keep the types of the account.
LEMMA RequestAccount ==
  ASSUME Typed, AccountStep
  PROVE  AccountTyped'
<1> USE Numbers, RequestFields DEF Typed
<1>0. expired' = expired
  BY AccountFrame
<1>1. CASE SignupStarts
  <2>1. request' = [NoRequest EXCEPT !.pc = "exists", !.found = user # Gone]
    BY <1>1 DEF SignupStarts, Start
  <2>2. request' \in Request
    BY <2>1 DEF NoRequest, Request, RequestSteps
  <2>3. request'.pc = "exists" /\ (~request'.found => user = Gone)
    BY <2>1 DEF NoRequest
  <2>4. /\ requested' = requested + 1
        /\ requested < MaxRequests
        /\ request.pc = "idle"
        /\ UNCHANGED <<user, owner, member, session>>
    BY <1>1 DEF SignupStarts, Start
  <2>5. requested' \in 0..MaxRequests /\ owner <= requested'
    BY <2>4, BoundsAssumption DEF AccountTyped, Owners
  <2>6. QED BY <1>0, <2>2, <2>3, <2>4, <2>5 DEF AccountTyped, Owners
<1>2. CASE SignupExists
  <2>1. /\ request.pc = "exists"
        /\ UNCHANGED <<member, session, requested>>
    BY <1>2 DEF SignupExists, Resumes
  <2>2. CASE request.found
    <3>1. request' = NoRequest /\ UNCHANGED <<user, owner>>
      BY <1>2, <2>2 DEF SignupExists, End
    <3>2. QED BY <1>0, <2>1, <3>1 DEF AccountTyped
  <2>3. CASE ~request.found
    <3>1. /\ request' = [request EXCEPT !.pc = "hset"]
          /\ user' = NoTtl
          /\ owner' = owner + 1
      BY <1>2, <2>3 DEF SignupExists, Then
    <3>2. user = Gone /\ member = 0 /\ owner <= requested
      BY <2>1, <2>3 DEF AccountTyped
    <3>3. request' \in Request /\ request'.pc = "hset"
      BY <3>1 DEF RequestSteps
    <3>4. owner' \in Owners /\ owner' <= requested' + 1
      BY <2>1, <3>1, <3>2, BoundsAssumption DEF AccountTyped, Owners
    <3>5. \A o \in Owners : session[o] > 0 => o <= owner'
      BY <3>1 DEF AccountTyped, Owners
    <3>6. QED BY <1>0, <2>1, <3>1, <3>2, <3>3, <3>4, <3>5
              DEF AccountTyped, Gone, NoTtl
  <2>4. QED BY <2>2, <2>3
<1>3. CASE SignupStored
  <2>1. /\ request.pc = "hset"
        /\ request' = [request EXCEPT !.pc = "sadd"]
        /\ member' = owner
        /\ UNCHANGED <<user, owner, session, requested>>
    BY <1>3 DEF SignupStored, Resumes, Then
  <2>2. request' \in Request /\ request'.pc = "sadd"
    BY <2>1 DEF RequestSteps
  <2>3. user = NoTtl
    BY <2>1 DEF AccountTyped
  <2>4. QED BY <1>0, <2>1, <2>2, <2>3 DEF AccountTyped, Gone, NoTtl
<1>4. CASE SignupSetsTtl
  <2>1. /\ request.pc = "sadd"
        /\ request' = [request EXCEPT !.pc = "expire"]
        /\ user' = Ttl
        /\ UNCHANGED <<member, owner, session, requested>>
    BY <1>4 DEF SignupSetsTtl, Resumes, Then
  <2>2. request' \in Request /\ request'.pc = "expire"
    BY <2>1 DEF RequestSteps
  <2>3. QED BY <1>0, <2>1, <2>2 DEF AccountTyped, Gone, NoTtl
<1>5. CASE SignupResponds
  <2>1. /\ request.pc = "expire"
        /\ request' = NoRequest
        /\ session' = [session EXCEPT ![owner] = Ttl]
        /\ UNCHANGED <<user, member, owner, requested>>
    BY <1>5 DEF SignupResponds, Resumes, End
  <2>2. /\ session' \in [Owners -> 0..Ttl]
        /\ \A o \in Owners : session'[o] > 0 => o <= owner
    BY <2>1 DEF AccountTyped
  <2>3. QED BY <1>0, <2>1, <2>2 DEF AccountTyped
<1>6. ASSUME NEW o \in Owners, DeleteStarts(o)
      PROVE  AccountTyped'
  <2>1. /\ request' = [NoRequest EXCEPT !.pc = "smembers", !.by = o,
                                        !.listed = member]
        /\ requested' = requested + 1
        /\ requested < MaxRequests
        /\ request.pc = "idle"
        /\ UNCHANGED <<user, owner, member, session>>
    BY <1>6 DEF DeleteStarts, Start
  <2>2. request' \in Request /\ request'.pc = "smembers"
    BY <2>1 DEF NoRequest, Request, RequestSteps, AccountTyped
  <2>3. requested' \in 0..MaxRequests /\ owner <= requested' + 1
    BY <2>1, BoundsAssumption DEF AccountTyped, Owners
  <2>4. QED BY <1>0, <2>1, <2>2, <2>3 DEF AccountTyped
<1>7. ASSUME NEW o \in Owners, Touch(o)
      PROVE  AccountTyped'
  <2>1. /\ session' = [session EXCEPT ![o] = Ttl]
        /\ session[o] > 0
        /\ UNCHANGED <<user, owner, member, request, requested>>
    BY <1>7 DEF Touch
  <2>2. /\ session' \in [Owners -> 0..Ttl]
        /\ \A x \in Owners : session'[x] > 0 => x <= owner
    BY <2>1 DEF AccountTyped
  <2>3. QED BY <1>0, <2>1, <2>2 DEF AccountTyped
<1>8. CASE DeleteRecords
  <2>1. /\ request.pc = "smembers"
        /\ UNCHANGED <<user, owner, member, requested>>
        /\ \/ /\ request' = NoRequest
              /\ session' = [session EXCEPT ![request.by] = IF @ > 0 THEN Ttl ELSE 0]
           \/ /\ request' = [request EXCEPT !.pc = "delsess"]
              /\ session' = [session EXCEPT ![request.listed] = 0]
    BY <1>8 DEF DeleteRecords, Resumes, Then, End
  <2>2. /\ session' \in [Owners -> 0..Ttl]
        /\ \A x \in Owners : session'[x] > 0 => x <= owner
    BY <2>1 DEF AccountTyped
  <2>3. request' \in Request /\ request'.pc \in {"idle", "delsess"}
    BY <2>1 DEF RequestSteps
  <2>4. QED BY <1>0, <2>1, <2>2, <2>3 DEF AccountTyped
<1>9. CASE DeleteSet
  <2>1. /\ request.pc = "delsess"
        /\ request' = [request EXCEPT !.pc = "delset"]
        /\ member' = 0
        /\ UNCHANGED <<user, owner, session, requested>>
    BY <1>9 DEF DeleteSet, Resumes, Then
  <2>2. request' \in Request /\ request'.pc = "delset"
    BY <2>1 DEF RequestSteps
  <2>3. QED BY <1>0, <2>1, <2>2 DEF AccountTyped
<1>10. CASE DeleteUser
  <2>1. /\ request.pc = "delset"
        /\ request' = [request EXCEPT !.pc = "deluser"]
        /\ user' = Gone
        /\ UNCHANGED <<member, owner, session, requested>>
    BY <1>10 DEF DeleteUser, Resumes, Then
  <2>2. request' \in Request /\ request'.pc = "deluser"
    BY <2>1 DEF RequestSteps
  <2>3. QED BY <1>0, <2>1, <2>2 DEF AccountTyped, Gone, NoTtl
<1>11. CASE DeleteResponds
  <2>1. /\ request.pc = "deluser"
        /\ request' = NoRequest
        /\ session' = [session EXCEPT ![request.by] = 0]
        /\ UNCHANGED <<user, member, owner, requested>>
    BY <1>11 DEF DeleteResponds, Resumes, End
  <2>2. /\ session' \in [Owners -> 0..Ttl]
        /\ \A o \in Owners : session'[o] = 0 \/ session'[o] = session[o]
    <3>1. PICK by : session' = [session EXCEPT ![by] = 0]
      BY <2>1
    <3>2. session \in [Owners -> 0..Ttl] /\ 0 \in 0..Ttl
      BY DEF AccountTyped
    <3>3. QED BY <3>1, <3>2
  <2>3. \A o \in Owners : session'[o] > 0 => o <= owner
    BY <2>2 DEF AccountTyped
  <2>4. QED BY <1>0, <2>1, <2>2, <2>3 DEF AccountTyped
<1>12. QED
  BY <1>1, <1>2, <1>3, <1>4, <1>5, <1>6, <1>7, <1>8, <1>9, <1>10, <1>11
     DEF AccountStep

\* What time does to a TTL: it is never raised, and nothing else ends a key.
LEMMA Ageing ==
  \A x \in {Gone, NoTtl} \cup 1..Ttl :
    /\ Aged(x) \in {Gone, NoTtl} \cup 1..Ttl
    /\ Aged(x) <= x
    /\ Aged(x) = NoTtl <=> x = NoTtl
    /\ Aged(x) = Gone <=> x \in {Gone, 1}
    /\ x \in {Gone} \cup 1..Ttl => Aged(x) \in {Gone} \cup 1..Ttl
    /\ x # NoTtl => \A y \in {Gone} \cup 1..Ttl : x <= y => Aged(x) <= Aged(y)
<1>1. ASSUME NEW x \in {Gone, NoTtl} \cup 1..Ttl
      PROVE  \/ x = 1 /\ Aged(x) = Gone
             \/ x \in 2..Ttl /\ Aged(x) = x - 1 /\ Aged(x) \in 1..Ttl
             \/ x \in {Gone, NoTtl} /\ Aged(x) = x
  BY Numbers DEF Aged, Gone, NoTtl
<1>2. ASSUME NEW x \in {Gone, NoTtl} \cup 1..Ttl
      PROVE  /\ Aged(x) \in {Gone, NoTtl} \cup 1..Ttl
             /\ Aged(x) <= x
             /\ Aged(x) = NoTtl <=> x = NoTtl
             /\ Aged(x) = Gone <=> x \in {Gone, 1}
             /\ x \in {Gone} \cup 1..Ttl => Aged(x) \in {Gone} \cup 1..Ttl
  BY <1>1, Numbers DEF Gone, NoTtl
<1>3. ASSUME NEW x \in {Gone} \cup 1..Ttl, NEW y \in {Gone} \cup 1..Ttl, x <= y
      PROVE  Aged(x) <= Aged(y)
  BY <1>3, Numbers DEF Aged, Gone, NoTtl
<1>4. QED BY <1>2, <1>3

\* So does every step.
LEMMA StepAccount ==
  ASSUME Typed, [Next]_vars
  PROVE  AccountTyped'
<1>1. CASE Tick
  <2>1. /\ user' = Aged(user)
        /\ expired' \in BOOLEAN
        /\ member' = IF user = 1 THEN 0 ELSE member
        /\ session' = [o \in Owners |-> IF session[o] > 0 THEN session[o] - 1 ELSE 0]
        /\ UNCHANGED <<owner, request, requested>>
    BY <1>1 DEF Tick
  <2>2. /\ user' \in {Gone, NoTtl} \cup 1..Ttl
        /\ user' = NoTtl <=> user = NoTtl
        /\ user' = Gone <=> user \in {Gone, 1}
    BY <2>1, Ageing DEF Typed, AccountTyped
  <2>3. /\ session' \in [Owners -> 0..Ttl]
        /\ \A o \in Owners : session'[o] > 0 => o <= owner
    BY <2>1, Numbers DEF Typed, AccountTyped
  <2>4. QED BY <2>1, <2>2, <2>3 DEF Typed, AccountTyped
<1>2. CASE ExpiryEvent
  BY <1>2 DEF ExpiryEvent, Typed, AccountTyped
<1>3. CASE UNCHANGED vars
  BY <1>3 DEF vars, accountVars, Typed, AccountTyped
<1>4. CASE PageStep \/ MessageStep
  BY <1>4, PathFrame DEF accountVars, Typed, AccountTyped
<1>5. QED BY <1>1, <1>2, <1>3, <1>4, RequestAccount DEF Next

\* Sockets in the room are sockets, and messages in the inbox messages.
LEMMA Members ==
  ASSUME Typed
  PROVE  /\ D!Room \subseteq Conns
         /\ {of[c] : c \in D!Room} \subseteq {0} \cup Owners
         /\ Range(inbox) \subseteq D!Msgs
         /\ \A d \in Drains : Range(drain[d].batch) \subseteq D!Msgs
<1>1. D!Room \subseteq Conns
  BY DEF D!Room
<1>2. {of[c] : c \in D!Room} \subseteq {0} \cup Owners
  BY <1>1 DEF Typed, MailTyped
<1>3. Range(inbox) \subseteq D!Msgs
  BY RangeSubset DEF Typed, DeliveryTyped
<1>4. ASSUME NEW d \in Drains
      PROVE  Range(drain[d].batch) \subseteq D!Msgs
  <2>1. drain[d].batch \in Seq(D!Msgs)
    BY DEF Typed, DeliveryTyped, D!DrainRun
  <2>2. QED BY <2>1, RangeSubset
<1>5. QED BY <1>1, <1>2, <1>3, <1>4

\* A handler that turns to the inbox has found the account alive.
LEMMA AskTtlReads ==
  ASSUME Typed, NEW m \in D!Msgs, D!AskTtl(m)
  PROVE  /\ \/ pc'[m] = "ttl" /\ user \in 1..Ttl
            \/ pc'[m] = "refused"
         /\ \A k \in D!Msgs \ {m} : pc'[k] = pc[k]
BY Numbers DEF D!AskTtl, Typed, DeliveryTyped, AccountTyped, Gone, NoTtl

\* The steps of pages keep the types of sockets, messages and the inbox.
LEMMA PageMail ==
  ASSUME Typed, PageStep
  PROVE  MailTyped'
<1> USE DEF Typed, MailTyped, mailVars, historyVars, D!historyVars, D!clientVars
<1>1. ASSUME NEW c \in Conns, NEW a \in BOOLEAN, NEW o \in Owners, Connect(c, a, o)
      PROVE  MailTyped'
  BY <1>1 DEF Connect, D!Connect
<1>2. ASSUME NEW c \in Conns, Page(c)
      PROVE  MailTyped'
  BY <1>2 DEF Page, D!Disconnect, D!Unmount, D!Mount
<1>3. ASSUME NEW c \in Conns, NEW m \in D!Msgs, NEW s \in AckStatuses,
             TakeMessage(m, c, s)
      PROVE  MailTyped'
  BY <1>3 DEF TakeMessage, D!TakeMessage
<1>4. ASSUME NEW d \in Drains, NEW s \in AckStatuses, TakeBatch(d, s)
      PROVE  MailTyped'
  <2>1. drain[d].conn \in Conns
    BY <1>4, Members DEF TakeBatch, D!TakeBatch
  <2>2. Range(drain[d].batch) \X {of[drain[d].conn]}
          \subseteq D!Msgs \X ({0} \cup Owners)
    BY <2>1, Members
  <2>3. taken' \subseteq D!Msgs \X ({0} \cup Owners)
    BY <1>4, <2>2 DEF TakeBatch
  <2>4. QED BY <1>4, <2>3 DEF TakeBatch, D!TakeBatch
<1>5. QED BY <1>1, <1>2, <1>3, <1>4 DEF PageStep

\* So do those of messages.
LEMMA MessageMail ==
  ASSUME Typed, MessageStep
  PROVE  MailTyped'
<1> USE DEF Typed, mailVars, historyVars, D!historyVars, D!clientVars
<1>1. ASSUME NEW m \in D!Msgs, Send(m)
      PROVE  MailTyped'
  <2>1. /\ pc'[m] = "ttl" => user \in 1..Ttl
        /\ \A k \in D!Msgs \ {m} : pc'[k] = pc[k]
    <3>1. CASE D!SendToRoom(m)
      BY <3>1 DEF D!SendToRoom, DeliveryTyped
    <3>2. CASE D!SendToEmptyRoom(m)
      BY <3>2, AskTtlReads DEF D!SendToEmptyRoom
    <3>3. QED BY <1>1, <3>1, <3>2 DEF Send
  <2>2. /\ held' \in [D!Msgs -> {Gone} \cup 1..Ttl]
        /\ \A k \in D!Msgs : pc'[k] = "ttl" => held'[k] \in 1..Ttl
    BY <1>1, <2>1 DEF Send, Reads, MailTyped
  <2>3. mail' \in [D!Msgs -> {0} \cup Owners]
    BY <1>1 DEF Send, MailTyped, AccountTyped
  <2>4. UNCHANGED <<of, inbox, keep, taken, stranded, lingering>>
    BY <1>1 DEF Send, D!SendToRoom, D!SendToEmptyRoom
  <2>5. QED BY <2>2, <2>3, <2>4 DEF MailTyped
<1>2. ASSUME NEW m \in D!Msgs, NEW c \in Conns, Acknowledged(m, c)
      PROVE  MailTyped'
  <2>1. /\ pc'[m] = "ttl" => user \in 1..Ttl
        /\ \A k \in D!Msgs \ {m} : pc'[k] = pc[k]
    BY <1>2, AskTtlReads DEF Acknowledged, D!AckArrives, DeliveryTyped
  <2>2. /\ held' \in [D!Msgs -> {Gone} \cup 1..Ttl]
        /\ \A k \in D!Msgs : pc'[k] = "ttl" => held'[k] \in 1..Ttl
    BY <1>2, <2>1 DEF Acknowledged, Reads, MailTyped
  <2>3. UNCHANGED <<of, mail, inbox, keep, taken, stranded, lingering>>
    BY <1>2 DEF Acknowledged, D!AckArrives
  <2>4. QED BY <2>2, <2>3 DEF MailTyped
<1>3. ASSUME NEW m \in D!Msgs, Push(m)
      PROVE  MailTyped'
  <2>1. /\ inbox' = Append(inbox, m)
        /\ pc' = [pc EXCEPT ![m] = "push"]
        /\ pc[m] = "ttl"
        /\ keep' = held[m]
        /\ held' = [held EXCEPT ![m] = Gone]
        /\ stranded' = IF held[m] = user THEN stranded
                       ELSE stranded \cup Range(inbox')
        /\ UNCHANGED <<of, mail, taken, lingering>>
    BY <1>3 DEF Push, D!Push
  <2>2. inbox' \in Seq(D!Msgs) /\ inbox' # <<>>
    BY <2>1, AppendProperties DEF DeliveryTyped
  <2>3. Range(inbox') \subseteq D!Msgs
    BY <2>2, RangeSubset
  <2>4. keep' \in 1..Ttl /\ keep' # Gone
    BY <2>1, Numbers DEF MailTyped, Gone
  <2>5. /\ held' \in [D!Msgs -> {Gone} \cup 1..Ttl]
        /\ \A k \in D!Msgs : pc'[k] = "ttl" => held'[k] \in 1..Ttl
    BY <2>1 DEF MailTyped, DeliveryTyped
  <2>6. QED BY <2>1, <2>2, <2>3, <2>4, <2>5 DEF MailTyped
<1>4. ASSUME NEW m \in D!Msgs, HandlerEnds(m)
      PROVE  MailTyped'
  <2>1. /\ UNCHANGED <<of, mail, held, keep, inbox, taken, stranded, lingering>>
        /\ \A k \in D!Msgs : pc'[k] = "ttl" => pc[k] = "ttl"
    BY <1>4 DEF HandlerEnds, D!AckTimeout, D!AckSender, DeliveryTyped
  <2>2. QED BY <2>1 DEF MailTyped
<1>5. ASSUME NEW d \in Drains, Drain(d)
      PROVE  MailTyped'
  <2>1. /\ UNCHANGED <<pc, of, mail, held, taken, stranded, lingering>>
        /\ inbox' \in {inbox, <<>>}
        /\ keep' = IF inbox' = <<>> THEN Gone ELSE keep
    BY <1>5 DEF Drain, D!StartDrain, D!EmitBatch, D!DrainAckArrives,
                D!DrainTimeout, D!DrainReturns
  <2>2. QED BY <2>1 DEF MailTyped
<1>6. QED BY <1>1, <1>2, <1>3, <1>4, <1>5 DEF MessageStep

\* What account requests leave behind is messages and accounts.
LEMMA AccountLeaves ==
  ASSUME AccountStep
  PROVE  /\ stranded' \in {stranded, stranded \cup Range(inbox)}
         /\ lingering' \in {lingering, lingering \cup {of[c] : c \in D!Room}}
BY DEF AccountStep, SignupStarts, SignupExists, SignupStored, SignupSetsTtl,
       SignupResponds, DeleteStarts, Touch, DeleteRecords, DeleteSet, DeleteUser,
       DeleteResponds, historyVars

\* So does every step.
LEMMA StepMail ==
  ASSUME Typed, [Next]_vars
  PROVE  MailTyped'
<1> USE DEF Typed
<1>1. CASE Tick
  <2>1. /\ keep' = Aged(keep)
        /\ inbox' = IF keep = 1 THEN <<>> ELSE inbox
        /\ UNCHANGED <<pc, of, mail, held, taken, stranded, lingering>>
    BY <1>1 DEF Tick, historyVars
  <2>2. keep' \in {Gone} \cup 1..Ttl /\ (keep' = Gone <=> keep \in {Gone, 1})
    BY <2>1, Ageing DEF MailTyped
  <2>3. QED BY <2>1, <2>2 DEF MailTyped
<1>2. CASE AccountStep
  <2>1. /\ stranded' \subseteq D!Msgs
        /\ lingering' \subseteq {0} \cup Owners
    BY <1>2, AccountLeaves, Members DEF MailTyped
  <2>2. UNCHANGED <<pc, inbox, of, mail, held, keep, taken>>
    BY <1>2, AccountFrame DEF mailVars
  <2>3. QED BY <2>1, <2>2 DEF MailTyped
<1>3. CASE ExpiryEvent
  BY <1>3 DEF ExpiryEvent, MailTyped, mailVars, historyVars
<1>4. CASE UNCHANGED vars
  BY <1>4 DEF vars, deliveryVars, mailVars, historyVars, MailTyped
<1>5. QED BY <1>1, <1>2, <1>3, <1>4, PageMail, MessageMail DEF Next

\* Every step keeps the types.
LEMMA StepTyped == Typed /\ [Next]_vars => Typed'
BY StepDelivery, StepAccount, StepMail DEF Typed

\* The types hold in every reachable state.
LEMMA TypedInvariant == Spec => []Typed
BY InitTyped, StepTyped, PTL DEF Spec

(* Every variable keeps its type: in particular the sessions set has only a *)
(* session of the account that has the name (redisCreateUser and            *)
(* redisDeleteUser leave no member for an heir), and the list in Redis has a *)
(* TTL exactly as long as it exists.                                        *)
THEOREM TypeCorrect == Spec => []TypeOK
BY TypedInvariant, TypedIsTypeOK, PTL

-----------------------------------------------------------------------------
(* What the steps do to sockets, messages and history, action by action: all *)
(* that the invariants below need of them.                                   *)

\* What has been done stays done: histories grow, the name is handed on and not
\* back, and messages and sockets keep what they are once they are under way.
Forward ==
  /\ owner <= owner'
  /\ taken \subseteq taken' /\ stranded \subseteq stranded'
  /\ lingering \subseteq lingering'
  /\ \A m \in D!Msgs : pc[m] # "unsent" => pc'[m] # "unsent" /\ mail'[m] = mail[m]
  /\ \A m \in D!Msgs : pc[m] = "unsent" => mail'[m] \in {mail[m], owner}
  /\ \A c \in Conns : conn[c] # "new" => conn'[c] # "new" /\ of'[c] = of[c]

LEMMA PageForward ==
  ASSUME Typed, PageStep
  PROVE  Forward
<1>1. UNCHANGED <<pc, mail, owner, stranded>>
  BY DEF PageStep, Connect, Page, TakeMessage, TakeBatch, accountVars, mailVars,
         historyVars, D!historyVars, D!clientVars, D!Connect, D!Disconnect,
         D!Unmount, D!Mount, D!TakeMessage, D!TakeBatch
<1>2. taken \subseteq taken' /\ lingering \subseteq lingering'
  BY DEF PageStep, Connect, Page, TakeMessage, TakeBatch, historyVars
<1>3. \A c \in Conns : conn[c] # "new" => conn'[c] # "new" /\ of'[c] = of[c]
  BY DEF PageStep, Connect, Page, TakeMessage, TakeBatch, mailVars, D!clientVars,
         D!Connect, D!Disconnect, D!Unmount, D!Mount, D!TakeMessage, D!TakeBatch,
         Typed, DeliveryTyped, MailTyped
<1>4. owner \in Nat
  BY Numbers DEF Typed, AccountTyped
<1>5. QED BY <1>1, <1>2, <1>3, <1>4 DEF Forward

\* The steps of messages leave sockets and histories alone.
LEMMA MessageFrame ==
  ASSUME MessageStep
  PROVE  /\ UNCHANGED <<conn, listening, of, taken, lingering, owner, expired, user>>
         /\ stranded \subseteq stranded'
BY DEF MessageStep, Send, Acknowledged, Push, HandlerEnds, Drain, D!SendToRoom,
       D!SendToEmptyRoom, D!AckArrives, D!Push, D!AckTimeout, D!AckSender,
       D!StartDrain, D!EmitBatch, D!DrainAckArrives, D!DrainTimeout,
       D!DrainReturns, D!clientVars, mailVars, historyVars, accountVars

\* They move the handler of one message, or none.
LEMMA MessageMoves ==
  ASSUME Typed, MessageStep
  PROVE  \A m \in D!Msgs : \/ UNCHANGED <<pc[m], mail[m]>>
                           \/ pc[m] # "unsent" /\ pc'[m] # "unsent" /\ mail'[m] = mail[m]
                           \/ pc[m] = "unsent" /\ pc'[m] # "unsent" /\ mail'[m] = owner
<1> USE DEF Typed, DeliveryTyped, MailTyped
<1>1. ASSUME NEW m \in D!Msgs, Send(m)
      PROVE  /\ pc[m] = "unsent" /\ pc'[m] # "unsent" /\ mail'[m] = owner
             /\ \A k \in D!Msgs \ {m} : UNCHANGED <<pc[k], mail[k]>>
  BY <1>1 DEF Send, D!SendToRoom, D!SendToEmptyRoom, D!AskTtl, D!Starts
<1>2. ASSUME NEW m \in D!Msgs, NEW c \in Conns, Acknowledged(m, c)
      PROVE  /\ pc[m] # "unsent" /\ pc'[m] # "unsent" /\ mail' = mail
             /\ \A k \in D!Msgs \ {m} : pc'[k] = pc[k]
  BY <1>2 DEF Acknowledged, D!AckArrives, D!AskTtl
<1>3. ASSUME NEW m \in D!Msgs, Push(m) \/ HandlerEnds(m)
      PROVE  /\ pc[m] # "unsent" /\ pc'[m] # "unsent" /\ mail' = mail
             /\ \A k \in D!Msgs \ {m} : pc'[k] = pc[k]
  BY <1>3 DEF Push, HandlerEnds, D!Push, D!AckTimeout, D!AckSender, mailVars
<1>4. ASSUME NEW d \in Drains, Drain(d)
      PROVE  UNCHANGED <<pc, mail>>
  BY <1>4 DEF Drain, D!StartDrain, D!EmitBatch, D!DrainAckArrives,
              D!DrainTimeout, D!DrainReturns
<1>5. QED BY <1>1, <1>2, <1>3, <1>4 DEF MessageStep

LEMMA StepForward ==
  ASSUME Typed, [Next]_vars
  PROVE  Forward
<1>0. owner \in Nat
  BY Numbers DEF Typed, AccountTyped
<1>1. CASE MessageStep
  BY <1>0, <1>1, MessageFrame, MessageMoves DEF Forward
<1>2. CASE AccountStep
  <2>1. owner' \in {owner, owner + 1}
    BY <1>2 DEF AccountStep, SignupStarts, SignupExists, SignupStored,
         SignupSetsTtl, SignupResponds, DeleteStarts, Touch, DeleteRecords,
         DeleteSet, DeleteUser, DeleteResponds
  <2>2. stranded \subseteq stranded' /\ lingering \subseteq lingering'
    BY <1>2, AccountLeaves
  <2>3. QED BY <1>0, <1>2, <2>1, <2>2, AccountFrame DEF Forward, mailVars
<1>3. CASE Tick
  BY <1>0, <1>3 DEF Tick, Forward, historyVars
<1>4. CASE ExpiryEvent
  BY <1>0, <1>4 DEF ExpiryEvent, Forward, mailVars, historyVars, Typed, DeliveryTyped
<1>5. CASE UNCHANGED vars
  BY <1>0, <1>5 DEF vars, deliveryVars, accountVars, mailVars, historyVars, Forward
<1>6. QED BY <1>1, <1>2, <1>3, <1>4, <1>5, PageForward DEF Next

\* What a step of an account request makes of the name: nothing, a sign-up that
\* has found it free, one that sets its TTL, or a deletion.
LEMMA NameStep ==
  ASSUME Typed, AccountStep
  PROVE  \/ UNCHANGED <<user, owner>>
         \/ /\ user = Gone /\ user' = NoTtl /\ owner' = owner + 1
            /\ replies # <<>> /\ Head(replies) = Account
            /\ replies' = Append(Tail(replies), Account)
            /\ lingering' = IF expired THEN lingering \cup {of[c] : c \in D!Room}
                            ELSE lingering
         \/ /\ user = NoTtl /\ user' = Ttl /\ owner' = owner
            /\ request.pc = "sadd"
            /\ replies # <<>> /\ Head(replies) = Account
         \/ /\ user' = Gone /\ owner' = owner
            /\ request.pc = "delset"
            /\ stranded' = stranded \cup Range(inbox)
            /\ lingering' = lingering \cup {of[c] : c \in D!Room}
<1> USE DEF Typed
<1>1. CASE SignupExists
  <2>1. CASE request.found
    BY <1>1, <2>1 DEF SignupExists
  <2>2. CASE ~request.found
    <3>1. /\ request.pc = "exists" /\ user = Gone
          /\ replies # <<>> /\ Head(replies) = Account
      BY <1>1, <2>2 DEF SignupExists, Resumes, AccountTyped
    <3>2. replies' = Append(Tail(replies), Account)
      BY <1>1, <2>2 DEF SignupExists, Then
    <3>3. QED BY <1>1, <2>2, <3>1, <3>2 DEF SignupExists
  <2>3. QED BY <2>1, <2>2
<1>2. CASE SignupSetsTtl
  <2>1. request.pc = "sadd" /\ replies # <<>> /\ Head(replies) = Account
    BY <1>2 DEF SignupSetsTtl, Resumes
  <2>2. QED BY <1>2, <2>1 DEF SignupSetsTtl, AccountTyped
<1>3. CASE DeleteUser
  BY <1>3 DEF DeleteUser, Resumes
<1>4. CASE ~(SignupExists \/ SignupSetsTtl \/ DeleteUser)
  BY <1>4 DEF AccountStep, SignupStarts, SignupStored, SignupResponds,
         DeleteStarts, Touch, DeleteRecords, DeleteSet, DeleteResponds
<1>5. QED BY <1>1, <1>2, <1>3, <1>4

-----------------------------------------------------------------------------
(* Rooms.  A socket in the room is one of the account that has the name, or  *)
(* the code has left it there: its account was deleted, or had expired and   *)
(* not been noticed, or its session had outlived it.  A name that nobody has *)
(* keeps its last owner's sockets only until the event arrives.              *)

InRoom(c) == (of[c] = owner /\ (user # Gone \/ expired)) \/ of[c] \in lingering

RoomInv == \A c \in Conns : of[c] <= owner /\ (conn[c] = "up" => InRoom(c))

LEMMA InitRoom == Init => RoomInv
BY DEF Init, D!Init, RoomInv

\* The pages' steps keep the room.
LEMMA PageRoom ==
  ASSUME Typed, RoomInv, PageStep
  PROVE  RoomInv'
<1>1. UNCHANGED <<user, owner, expired>>
  BY PathFrame DEF accountVars
<1>2. ASSUME NEW k \in Conns, NEW a \in BOOLEAN, NEW o \in Owners, Connect(k, a, o)
      PROVE  RoomInv'
  <2>1. /\ of' = [of EXCEPT ![k] = o]
        /\ conn' = [conn EXCEPT ![k] = "up"]
        /\ session[o] > 0
        /\ lingering' = IF o = owner /\ user # Gone THEN lingering
                        ELSE lingering \cup {o}
    BY <1>2 DEF Connect, D!Connect
  <2>2. o <= owner
    BY <2>1 DEF Typed, AccountTyped
  <2>3. /\ of'[k] = o
        /\ \A c \in Conns \ {k} : of'[c] = of[c] /\ conn'[c] = conn[c]
    BY <2>1 DEF Typed, MailTyped, DeliveryTyped
  <2>4. QED BY <1>1, <2>1, <2>2, <2>3 DEF RoomInv, InRoom
<1>3. CASE ~\E c \in Conns, a \in BOOLEAN, o \in Owners : Connect(c, a, o)
  <2>1. /\ \A c \in Conns : conn'[c] = "up" => conn[c] = "up"
        /\ UNCHANGED <<of, lingering>>
    BY <1>3 DEF PageStep, Page, TakeMessage, TakeBatch, mailVars, historyVars,
         D!clientVars, D!Disconnect, D!Unmount, D!Mount, D!TakeMessage,
         D!TakeBatch, Typed, DeliveryTyped
  <2>2. QED BY <1>1, <2>1 DEF RoomInv, InRoom
<1>4. QED BY <1>2, <1>3

\* So does every step.
LEMMA StepRoom ==
  ASSUME Typed, RoomInv, [Next]_vars
  PROVE  RoomInv'
<1>0. /\ owner \in Nat /\ owner' \in Nat
      /\ \A c \in Conns : of[c] \in Nat
  BY StepTyped, Numbers DEF Typed, AccountTyped, MailTyped
<1>1. CASE AccountStep
  <2>1. UNCHANGED <<conn, of, expired>>
    BY <1>1, AccountFrame DEF mailVars
  <2>2. owner <= owner' /\ lingering \subseteq lingering'
    BY StepForward DEF Forward
  <2>3. \A c \in Conns : of'[c] <= owner'
    BY <1>0, <2>1, <2>2 DEF RoomInv
  <2>4. \A c \in Conns : conn[c] = "up" => c \in D!Room
    BY DEF D!Room
  <2>5. ASSUME NEW c \in Conns, conn'[c] = "up"
        PROVE  InRoom(c)'
    <3>1. InRoom(c) /\ c \in D!Room
      BY <2>1, <2>4, <2>5 DEF RoomInv
    <3>2. CASE UNCHANGED <<user, owner>>
      BY <2>1, <2>2, <3>1, <3>2 DEF InRoom
    <3>3. CASE /\ user = Gone
               /\ lingering' = IF expired THEN lingering \cup {of[k] : k \in D!Room}
                               ELSE lingering
      BY <2>1, <3>1, <3>3 DEF InRoom
    <3>4. CASE user' = Ttl /\ owner' = owner
      BY <2>1, <2>2, <3>1, <3>4, Numbers DEF InRoom, Gone
    <3>5. CASE lingering' = lingering \cup {of[k] : k \in D!Room}
      BY <2>1, <3>1, <3>5 DEF InRoom
    <3>6. QED BY <1>1, <3>2, <3>3, <3>4, <3>5, NameStep
  <2>6. QED BY <2>3, <2>5 DEF RoomInv
<1>2. CASE Tick
  <2>1. /\ user' = Aged(user)
        /\ expired' = (expired \/ user = 1)
        /\ UNCHANGED <<conn, of, owner, lingering>>
    BY <1>2 DEF Tick, historyVars
  <2>2. user' = Gone => user = Gone \/ expired'
    BY <2>1, Ageing DEF Typed, AccountTyped
  <2>3. expired => expired'
    BY <2>1 DEF Typed, AccountTyped
  <2>4. QED BY <2>1, <2>2, <2>3 DEF RoomInv, InRoom
<1>3. CASE ExpiryEvent
  <2>1. \A c \in Conns : conn'[c] # "up"
    BY <1>3 DEF ExpiryEvent
  <2>2. UNCHANGED <<of, owner>>
    BY <1>3 DEF ExpiryEvent, mailVars
  <2>3. QED BY <2>1, <2>2 DEF RoomInv
<1>4. CASE MessageStep
  BY <1>4, MessageFrame DEF RoomInv, InRoom
<1>5. CASE UNCHANGED vars
  BY <1>5 DEF vars, deliveryVars, accountVars, mailVars, historyVars, RoomInv, InRoom
<1>6. QED BY <1>1, <1>2, <1>3, <1>4, <1>5, PageRoom DEF Next

-----------------------------------------------------------------------------
(* What a message may be offered to, and who has taken it.                   *)

\* Sockets opened with a session of an earlier account than m is for are the
\* lingering ones.
NotEarlier(m, o) == o < mail[m] => o \in lingering

\* A message is for the account that had the name when it was sent, and offered
\* to sockets that were in the room then.
OfferInv ==
  /\ \A m \in D!Msgs : mail[m] <= owner
  /\ \A m \in D!Msgs, c \in Conns : flight[m][c] # "none" =>
       /\ pc[m] # "unsent"
       /\ conn[c] # "new"
       /\ of[c] <= mail[m]
       /\ NotEarlier(m, of[c])

\* What is in the inbox is with its handler still, or acknowledged, and goes
\* with the account unless an action of the code has prolonged it.
InboxInv ==
  \A m \in Range(inbox) : /\ pc[m] \in {"push", "acked"}
                          /\ m \in stranded \/ keep = user

\* A run of the inbox handler serves one socket, with what was in the inbox then.
BatchInv ==
  \A d \in Drains :
    /\ drain[d].pc # "idle" =>
         drain[d].conn \in Conns /\ conn[drain[d].conn] # "new"
    /\ drain[d].pc \in {"idle", "requested"} => drain[d].batch = <<>>
    /\ \A m \in Range(drain[d].batch) :
         pc[m] # "unsent" /\ NotEarlier(m, of[drain[d].conn])

TakenInv ==
  \A t \in taken : pc[t[1]] # "unsent" /\ NotEarlier(t[1], t[2])

\* The state of an offer changes from "none" only when the message is sent.
LEMMA OffersMade ==
  ASSUME Typed, [Next]_vars
  PROVE  \A m \in D!Msgs, c \in Conns :
           flight'[m][c] # "none" =>
             \/ flight[m][c] # "none"
             \/ /\ pc'[m] # "unsent" /\ mail'[m] = owner
                /\ conn[c] = "up" /\ UNCHANGED lingering
<1> USE DEF Typed, DeliveryTyped, MailTyped
<1>1. ASSUME NEW k \in D!Msgs, Send(k), D!SendToRoom(k)
      PROVE  /\ flight' = [flight EXCEPT ![k] =
                             [c \in Conns |-> IF c \in D!Room THEN "sent" ELSE "none"]]
             /\ pc'[k] # "unsent" /\ mail'[k] = owner /\ UNCHANGED lingering
  BY <1>1 DEF Send, D!SendToRoom, historyVars
<1>2. ASSUME NEW k \in D!Msgs, NEW c \in Conns, NEW s,
             flight[k][c] # "none", flight' = [flight EXCEPT ![k][c] = s]
      PROVE  \A m \in D!Msgs, x \in Conns :
               flight'[m][x] # "none" => flight[m][x] # "none"
  BY <1>2
<1>3. ASSUME NEW m \in D!Msgs, NEW c \in Conns, NEW s \in AckStatuses,
             TakeMessage(m, c, s)
      PROVE  flight[m][c] # "none" /\ flight' = [flight EXCEPT ![m][c] = s]
  BY <1>3 DEF TakeMessage, D!TakeMessage
<1>4. ASSUME NEW m \in D!Msgs, NEW c \in Conns, Acknowledged(m, c)
      PROVE  flight[m][c] # "none" /\ flight' = [flight EXCEPT ![m][c] = "answered"]
  BY <1>4, DeliveryAssumption DEF Acknowledged, D!AckArrives
<1>5. \/ UNCHANGED flight
      \/ \E k \in D!Msgs : Send(k) /\ D!SendToRoom(k)
      \/ \E m \in D!Msgs, c \in Conns, s \in AckStatuses : TakeMessage(m, c, s)
      \/ \E m \in D!Msgs, c \in Conns : Acknowledged(m, c)
  <2>1. CASE PageStep
    BY <2>1 DEF PageStep, Connect, Page, TakeBatch, D!Connect, D!Disconnect,
                D!Unmount, D!Mount, D!TakeBatch
  <2>2. CASE MessageStep
    BY <2>2 DEF MessageStep, Send, D!SendToEmptyRoom, Push, HandlerEnds, Drain,
         D!Push, D!AckTimeout, D!AckSender, D!StartDrain, D!EmitBatch,
         D!DrainAckArrives, D!DrainTimeout, D!DrainReturns
  <2>3. CASE AccountStep
    BY <2>3, AccountFrame
  <2>4. CASE Tick \/ ExpiryEvent \/ UNCHANGED vars
    BY <2>4 DEF Tick, ExpiryEvent, vars, deliveryVars
  <2>5. QED BY <2>1, <2>2, <2>3, <2>4 DEF Next
<1>6. ASSUME NEW k \in D!Msgs, Send(k), D!SendToRoom(k),
             NEW m \in D!Msgs, NEW c \in Conns, flight'[m][c] # "none"
      PROVE  \/ flight[m][c] # "none"
             \/ /\ pc'[m] # "unsent" /\ mail'[m] = owner
                /\ conn[c] = "up" /\ UNCHANGED lingering
  <2>1. /\ flight' = [flight EXCEPT ![k] =
                        [x \in Conns |-> IF x \in D!Room THEN "sent" ELSE "none"]]
        /\ pc'[k] # "unsent" /\ mail'[k] = owner /\ UNCHANGED lingering
    BY <1>1, <1>6
  <2>2. CASE m = k
    <3>1. flight'[k][c] = IF c \in D!Room THEN "sent" ELSE "none"
      BY <2>1
    <3>2. QED BY <1>6, <2>1, <2>2, <3>1 DEF D!Room
  <2>3. CASE m # k
    BY <1>6, <2>1, <2>3
  <2>4. QED BY <2>2, <2>3
<1>7. ASSUME NEW m \in D!Msgs, NEW c \in Conns, flight'[m][c] # "none",
             flight[m][c] = "none"
      PROVE  \E k \in D!Msgs : Send(k) /\ D!SendToRoom(k)
  <2>1. ~UNCHANGED flight
    BY <1>7
  <2>2. ~\E k \in D!Msgs, x \in Conns, s \in AckStatuses : TakeMessage(k, x, s)
    BY <1>2, <1>3, <1>7
  <2>3. ASSUME NEW k \in D!Msgs, NEW x \in Conns, Acknowledged(k, x)
        PROVE  FALSE
    <3>1. flight[k][x] # "none" /\ flight' = [flight EXCEPT ![k][x] = "answered"]
      BY <1>4, <2>3
    <3>2. QED BY <1>2, <1>7, <3>1
  <2>4. QED BY <1>5, <2>1, <2>2, <2>3
<1>8. QED BY <1>6, <1>7

\* Whether an account is earlier is settled when a message is sent.
LEMMA NotEarlierStays ==
  ASSUME Forward, NEW m \in D!Msgs, NEW o, pc[m] # "unsent", NotEarlier(m, o)
  PROVE  NotEarlier(m, o)'
BY DEF Forward, NotEarlier

LEMMA StepOffer ==
  ASSUME Typed, RoomInv, OfferInv, [Next]_vars
  PROVE  OfferInv'
<1>0. /\ owner \in Nat /\ owner' \in Nat
      /\ \A m \in D!Msgs : mail[m] \in Nat
      /\ \A c \in Conns : of[c] \in Nat
  BY StepTyped, Numbers DEF Typed, AccountTyped, MailTyped
<1>1. Forward
  BY StepForward
<1>2. ASSUME NEW m \in D!Msgs
      PROVE  mail'[m] <= owner'
  BY <1>0, <1>1 DEF OfferInv, Forward
<1>3. ASSUME NEW m \in D!Msgs, NEW c \in Conns, flight'[m][c] # "none"
      PROVE  /\ pc'[m] # "unsent"
             /\ conn'[c] # "new"
             /\ of'[c] <= mail'[m]
             /\ NotEarlier(m, of[c])'
  <2>1. CASE flight[m][c] # "none"
    <3>1. /\ pc[m] # "unsent" /\ conn[c] # "new" /\ of[c] <= mail[m]
          /\ NotEarlier(m, of[c])
      BY <2>1 DEF OfferInv
    <3>2. /\ pc'[m] # "unsent" /\ conn'[c] # "new"
          /\ mail'[m] = mail[m] /\ of'[c] = of[c]
      BY <1>1, <3>1 DEF Forward
    <3>3. lingering \subseteq lingering'
      BY <1>1 DEF Forward
    <3>4. QED BY <3>1, <3>2, <3>3 DEF NotEarlier
  <2>2. CASE flight[m][c] = "none"
    <3>1. /\ pc'[m] # "unsent" /\ mail'[m] = owner
          /\ conn[c] = "up" /\ UNCHANGED lingering
      BY <1>3, <2>2, OffersMade
    <3>2. conn'[c] # "new" /\ of'[c] = of[c]
      BY <1>1, <3>1 DEF Forward
    <3>3. of[c] <= owner /\ (of[c] = owner \/ of[c] \in lingering)
      BY <3>1 DEF RoomInv, InRoom
    <3>4. QED BY <1>0, <3>1, <3>2, <3>3 DEF NotEarlier
  <2>3. QED BY <2>1, <2>2
<1>4. QED BY <1>2, <1>3 DEF OfferInv

\* A message that its handler has pushed stays with the handler until the sender
\* is answered.
Accepted(m) == pc[m] \in {"push", "acked"}

LEMMA AcceptedStays ==
  ASSUME Typed, [Next]_vars
  PROVE  \A m \in D!Msgs : Accepted(m) => Accepted(m)'
<1> USE DEF Typed, DeliveryTyped, Accepted
<1>1. CASE MessageStep
  <2>1. ASSUME NEW k \in D!Msgs, Send(k) \/ \E c \in Conns : Acknowledged(k, c)
        PROVE  ~Accepted(k) /\ \A m \in D!Msgs \ {k} : pc'[m] = pc[m]
    BY <2>1 DEF Send, Acknowledged, D!SendToRoom, D!SendToEmptyRoom,
                D!AckArrives, D!AskTtl, D!Starts
  <2>2. ASSUME NEW k \in D!Msgs, Push(k) \/ HandlerEnds(k)
        PROVE  /\ \A m \in D!Msgs \ {k} : pc'[m] = pc[m]
               /\ pc[k] = "waiting" \/ pc'[k] \in {"push", "acked"}
    BY <2>2 DEF Push, HandlerEnds, D!Push, D!AckTimeout, D!AckSender
  <2>3. ASSUME NEW d \in Drains, Drain(d)
        PROVE  UNCHANGED pc
    BY <2>3 DEF Drain, D!StartDrain, D!EmitBatch, D!DrainAckArrives,
                D!DrainTimeout, D!DrainReturns
  <2>4. QED BY <1>1, <2>1, <2>2, <2>3 DEF MessageStep
<1>2. CASE PageStep
  BY <1>2 DEF PageStep, Connect, Page, TakeMessage, TakeBatch, D!Connect,
       D!Disconnect, D!Unmount, D!Mount, D!TakeMessage, D!TakeBatch
<1>3. CASE AccountStep
  BY <1>3, AccountFrame
<1>4. CASE Tick \/ ExpiryEvent \/ UNCHANGED vars
  BY <1>4 DEF Tick, ExpiryEvent, vars, deliveryVars
<1>5. QED BY <1>1, <1>2, <1>3, <1>4 DEF Next

\* Only a push, a drain or time changes the inbox or its TTL.
LEMMA InboxStep ==
  ASSUME [Next]_vars
  PROVE  \/ UNCHANGED <<inbox, keep>>
         \/ inbox' = <<>>
         \/ \E m \in D!Msgs : Push(m)
         \/ Tick /\ inbox' = inbox
<1>1. CASE PageStep
  BY <1>1 DEF PageStep, Connect, Page, TakeMessage, TakeBatch, mailVars, D!Connect,
       D!Disconnect, D!Unmount, D!Mount, D!TakeMessage, D!TakeBatch
<1>2. CASE MessageStep
  <2>1. ASSUME NEW d \in Drains, Drain(d)
        PROVE  UNCHANGED <<inbox, keep>> \/ inbox' = <<>>
    BY <2>1 DEF Drain, D!StartDrain, D!EmitBatch, D!DrainAckArrives,
                D!DrainTimeout, D!DrainReturns
  <2>2. ASSUME NEW m \in D!Msgs,
               Send(m) \/ HandlerEnds(m) \/ \E c \in Conns : Acknowledged(m, c)
        PROVE  UNCHANGED <<inbox, keep>>
    BY <2>2 DEF Send, HandlerEnds, Acknowledged, D!SendToRoom, D!SendToEmptyRoom,
                D!AckArrives, D!AckTimeout, D!AckSender, mailVars
  <2>3. QED BY <1>2, <2>1, <2>2 DEF MessageStep
<1>3. CASE AccountStep
  BY <1>3, AccountFrame DEF mailVars
<1>4. CASE Tick
  BY <1>4 DEF Tick
<1>5. CASE ExpiryEvent \/ UNCHANGED vars
  BY <1>5 DEF ExpiryEvent, vars, deliveryVars, mailVars
<1>6. QED BY <1>1, <1>2, <1>3, <1>4, <1>5 DEF Next

\* The name changes hands, or its TTL changes, only by account requests and time.
LEMMA NameFrame ==
  ASSUME [Next]_vars
  PROVE  AccountStep \/ Tick \/ UNCHANGED <<user, owner>>
BY PathFrame DEF Next, ExpiryEvent, vars, accountVars

\* What a push does to the inbox and to what is left to heirs.
LEMMA PushFacts ==
  ASSUME Typed, NEW m \in D!Msgs, Push(m)
  PROVE  /\ pc[m] = "ttl" /\ pc' = [pc EXCEPT ![m] = "push"] /\ Accepted(m)'
         /\ replies # <<>> /\ Head(replies) = m
         /\ replies' = Append(Tail(replies), m)
         /\ Range(inbox') = Range(inbox) \cup {m}
         /\ keep' = held[m]
         /\ stranded' = IF held[m] = user THEN stranded ELSE stranded \cup Range(inbox')
         /\ UNCHANGED <<user, owner, mail, of, taken, lingering, drain, first, flight,
                        request, expired>>
<1>1. Range(inbox') = Range(inbox) \cup {m}
  BY RangeAppend DEF Push, D!Push, Typed, DeliveryTyped
<1>2. QED
  BY <1>1 DEF Push, D!Push, D!historyVars, D!clientVars, accountVars, Accepted,
              Typed, DeliveryTyped

LEMMA StepInbox ==
  ASSUME Typed, InboxInv, [Next]_vars
  PROVE  InboxInv'
<1>1. \A m \in Range(inbox) :
        m \in D!Msgs /\ Accepted(m)' /\ (m \in stranded' \/ m \notin stranded)
  BY Members, AcceptedStays, StepForward DEF InboxInv, Accepted, Forward
<1>2. Range(inbox) # {} => keep \in 1..Ttl
  <2>1. Range(<<>>) = {}
    BY RangeEmpty
  <2>2. QED BY <2>1 DEF Typed, MailTyped
<1>3. CASE \E m \in D!Msgs : Push(m)
  <2>1. PICK m \in D!Msgs : Push(m)
    BY <1>3
  <2>2. /\ Accepted(m)' /\ Range(inbox') = Range(inbox) \cup {m} /\ keep' = held[m]
        /\ stranded' = IF held[m] = user THEN stranded ELSE stranded \cup Range(inbox')
        /\ user' = user
    BY <2>1, PushFacts
  <2>3. QED BY <1>1, <2>2 DEF InboxInv, Accepted
<1>4. CASE inbox' = <<>>
  <2>1. Range(inbox') = {}
    BY <1>4, RangeEmpty
  <2>2. QED BY <2>1 DEF InboxInv
<1>5. CASE Tick /\ inbox' = inbox
  <2>1. user' = Aged(user) /\ keep' = Aged(keep) /\ stranded' = stranded
    BY <1>5 DEF Tick, historyVars
  <2>2. QED BY <1>1, <1>5, <2>1 DEF InboxInv, Accepted
<1>6. CASE UNCHANGED <<inbox, keep>> /\ ~Tick
  <2>1. ASSUME NEW m \in Range(inbox)
        PROVE  m \in stranded' \/ keep = user'
    <3>1. CASE UNCHANGED user
      BY <1>1, <2>1, <3>1 DEF InboxInv
    <3>2. CASE AccountStep /\ ~UNCHANGED user
      <4>1. user \in {Gone, NoTtl} \/ stranded' = stranded \cup Range(inbox)
        BY <3>2, NameStep
      <4>2. keep \in 1..Ttl
        BY <1>2, <2>1
      <4>3. QED BY <1>1, <2>1, <4>1, <4>2, Numbers DEF InboxInv, Gone, NoTtl
    <3>3. QED BY <1>6, <3>1, <3>2, NameFrame
  <2>2. QED BY <1>1, <1>6, <2>1 DEF InboxInv, Accepted
<1>7. QED BY <1>3, <1>4, <1>5, <1>6, InboxStep

\* A run goes on, with the socket and the batch it has.
GoesOn(old, new) ==
  /\ new.conn = old.conn /\ new.batch = old.batch
  /\ \/ new.pc = old.pc
     \/ /\ old.pc \in {"range", "waiting", "del"}
        /\ new.pc \in {"waiting", "del", "done", "failed"}
        /\ new.pc = "waiting" => old.pc # "del"

\* What a step does to a run of the inbox handler.
LEMMA DrainStep ==
  ASSUME Typed, [Next]_vars, NEW d \in Drains
  PROVE  \/ GoesOn(drain[d], drain'[d])
         \/ /\ drain[d].pc = "idle" /\ drain'[d].pc = "requested"
            /\ drain'[d].conn \in Conns /\ conn[drain'[d].conn] = "up"
            /\ UNCHANGED drain[d].batch
         \/ /\ drain[d].pc = "requested" /\ drain'[d].pc = "range"
            /\ drain[d].conn \in Conns /\ conn[drain[d].conn] = "up"
            /\ UNCHANGED <<drain[d].conn, inbox, pc, mail, of, lingering>>
            /\ drain'[d].batch = inbox
<1> USE DEF Typed, DeliveryTyped, D!DrainRun
<1>1. CASE PageStep
  <2>1. CASE \E c \in Conns, k \in Drains : Page(c) /\ D!Mount(c, k)
    <3>1. PICK c \in Conns, k \in Drains :
            /\ drain[k].pc = "idle" /\ conn[c] = "up"
            /\ drain' = [drain EXCEPT ![k] = [drain[k] EXCEPT !.pc = "requested",
                                                              !.conn = c]]
      BY <2>1 DEF D!Mount
    <3>2. CASE k = d
      BY <3>1, <3>2
    <3>3. CASE k # d
      BY <3>1, <3>3 DEF GoesOn
    <3>4. QED BY <3>2, <3>3
  <2>2. CASE \E k \in Drains, s \in AckStatuses : TakeBatch(k, s)
    BY <2>2 DEF TakeBatch, D!TakeBatch, GoesOn
  <2>3. CASE UNCHANGED drain
    BY <2>3 DEF GoesOn
  <2>4. QED BY <1>1, <2>1, <2>2, <2>3 DEF PageStep, Connect, Page, TakeMessage,
         D!Connect, D!Disconnect, D!Unmount, D!TakeMessage
<1>2. CASE MessageStep
  <2>1. ASSUME NEW k \in Drains, D!StartDrain(k), Drain(k)
        PROVE  /\ drain[k].pc = "requested"
               /\ drain[k].conn \in Conns /\ conn[drain[k].conn] = "up"
               /\ drain' = [drain EXCEPT ![k] = [drain[k] EXCEPT !.pc = "range",
                                                                 !.batch = inbox]]
               /\ UNCHANGED <<inbox, pc, mail, of, lingering>>
    BY <2>1 DEF D!StartDrain, D!Room, Drain, historyVars
  <2>2. ASSUME NEW k \in Drains, D!EmitBatch(k) \/ D!DrainAckArrives(k)
                               \/ D!DrainTimeout(k) \/ D!DrainReturns(k)
        PROVE  \E run : /\ GoesOn(drain[k], run)
                        /\ drain' = [drain EXCEPT ![k] = run]
    <3>1. /\ drain[k].pc \in {"range", "waiting", "del"}
          /\ \E p \in {"waiting", "del", "done", "failed"}, q \in {"sent", "answered"} :
               /\ p = "waiting" => drain[k].pc # "del"
               /\ \/ drain' = [drain EXCEPT ![k] = [drain[k] EXCEPT !.pc = p]]
                  \/ drain' = [drain EXCEPT ![k] = [drain[k] EXCEPT !.pc = p,
                                                                   !.packet = q]]
      BY <2>2 DEF D!EmitBatch, D!DrainAckArrives, D!DrainTimeout, D!DrainReturns
    <3>2. \A p \in {"waiting", "del", "done", "failed"}, q \in {"sent", "answered"} :
            (p = "waiting" => drain[k].pc # "del") =>
            /\ GoesOn(drain[k], [drain[k] EXCEPT !.pc = p])
            /\ GoesOn(drain[k], [drain[k] EXCEPT !.pc = p, !.packet = q])
      BY <3>1 DEF GoesOn
    <3>3. QED BY <3>1, <3>2
  <2>3. CASE \E k \in Drains : D!StartDrain(k) /\ Drain(k)
    <3>1. PICK k \in Drains : D!StartDrain(k) /\ Drain(k)
      BY <2>3
    <3>2. CASE k = d
      <4>1. drain'[d] = [drain[d] EXCEPT !.pc = "range", !.batch = inbox]
        BY <2>1, <3>1, <3>2
      <4>2. /\ drain'[d].pc = "range" /\ drain'[d].batch = inbox
            /\ drain'[d].conn = drain[d].conn
        BY <4>1
      <4>3. QED BY <2>1, <3>1, <3>2, <4>2
    <3>3. CASE k # d
      BY <2>1, <3>1, <3>3 DEF GoesOn
    <3>4. QED BY <3>2, <3>3
  <2>4. CASE \E k \in Drains : D!EmitBatch(k) \/ D!DrainAckArrives(k)
                                \/ D!DrainTimeout(k) \/ D!DrainReturns(k)
    BY <2>2, <2>4 DEF GoesOn
  <2>5. CASE UNCHANGED drain
    BY <2>5 DEF GoesOn
  <2>6. QED BY <1>2, <2>3, <2>4, <2>5 DEF MessageStep, Send, Acknowledged, Push,
         HandlerEnds, Drain, D!SendToRoom, D!SendToEmptyRoom, D!AckArrives, D!Push,
         D!AckTimeout, D!AckSender
<1>3. CASE AccountStep
  BY <1>3, AccountFrame DEF GoesOn
<1>4. CASE Tick \/ ExpiryEvent \/ UNCHANGED vars
  BY <1>4 DEF Tick, ExpiryEvent, vars, deliveryVars, GoesOn
<1>5. QED BY <1>1, <1>2, <1>3, <1>4 DEF Next

LEMMA StepBatch ==
  ASSUME Typed, RoomInv, OfferInv, InboxInv, BatchInv, [Next]_vars
  PROVE  BatchInv'
<1>1. Forward
  BY StepForward
<1>2. ASSUME NEW d \in Drains
      PROVE  /\ drain'[d].pc # "idle" =>
                  drain'[d].conn \in Conns /\ conn'[drain'[d].conn] # "new"
             /\ drain'[d].pc \in {"idle", "requested"} => drain'[d].batch = <<>>
             /\ \A m \in Range(drain'[d].batch) :
                  pc'[m] # "unsent" /\ NotEarlier(m, of[drain[d].conn])'
  <2>0. /\ drain[d].pc # "idle" =>
             drain[d].conn \in Conns /\ conn[drain[d].conn] # "new"
        /\ drain[d].pc \in {"idle", "requested"} => drain[d].batch = <<>>
        /\ \A m \in Range(drain[d].batch) :
             /\ m \in D!Msgs /\ drain[d].pc # "idle"
             /\ pc[m] # "unsent" /\ NotEarlier(m, of[drain[d].conn])
    BY Members, RangeEmpty DEF BatchInv
  <2>1. CASE GoesOn(drain[d], drain'[d])
    <3>1. /\ drain'[d].conn = drain[d].conn /\ drain'[d].batch = drain[d].batch
          /\ drain'[d].pc # "idle" => drain[d].pc # "idle"
          /\ drain'[d].pc \in {"idle", "requested"} =>
               drain[d].pc \in {"idle", "requested"}
      BY <2>1 DEF GoesOn
    <3>2. drain[d].pc # "idle" =>
            /\ conn'[drain[d].conn] # "new"
            /\ of'[drain[d].conn] = of[drain[d].conn]
      BY <1>1, <2>0 DEF Forward
    <3>3. ASSUME NEW m \in Range(drain[d].batch)
          PROVE  pc'[m] # "unsent" /\ NotEarlier(m, of[drain[d].conn])'
      <4>1. pc'[m] # "unsent" /\ mail'[m] = mail[m] /\ lingering \subseteq lingering'
        BY <1>1, <2>0 DEF Forward
      <4>2. of'[drain'[d].conn] = of[drain[d].conn]
        BY <2>0, <3>1, <3>2
      <4>3. QED BY <2>0, <4>1, <4>2 DEF NotEarlier
    <3>4. QED BY <2>0, <3>1, <3>2, <3>3
  <2>2. CASE /\ drain[d].pc = "idle" /\ drain'[d].pc = "requested"
             /\ drain'[d].conn \in Conns /\ conn[drain'[d].conn] = "up"
             /\ UNCHANGED drain[d].batch
    <3>1. conn'[drain'[d].conn] # "new"
      BY <1>1, <2>2 DEF Forward
    <3>2. drain'[d].batch = <<>>
      BY <2>0, <2>2
    <3>3. QED BY <2>2, <3>1, <3>2, RangeEmpty
  <2>3. CASE /\ drain[d].pc = "requested" /\ drain'[d].pc = "range"
             /\ drain[d].conn \in Conns /\ conn[drain[d].conn] = "up"
             /\ UNCHANGED <<drain[d].conn, inbox, pc, mail, of, lingering>>
             /\ drain'[d].batch = inbox
    <3>1. conn'[drain[d].conn] # "new"
      BY <1>1, <2>3 DEF Forward
    <3>2. InRoom(drain[d].conn)
      BY <2>3 DEF RoomInv
    <3>3. ASSUME NEW m \in Range(inbox)
          PROVE  pc[m] # "unsent" /\ NotEarlier(m, of[drain[d].conn])
      <4>1. mail[m] <= owner /\ pc[m] # "unsent"
        BY Members, <3>3 DEF OfferInv, InboxInv
      <4>2. owner \in Nat /\ mail[m] \in Nat
        BY Members, Numbers, <3>3 DEF Typed, AccountTyped, MailTyped
      <4>3. QED BY <3>2, <4>1, <4>2 DEF InRoom, NotEarlier
    <3>4. QED BY <2>3, <3>1, <3>3 DEF NotEarlier
  <2>4. QED BY <2>1, <2>2, <2>3, DrainStep
<1>3. QED BY <1>2 DEF BatchInv

\* A page takes what it is offered, or what a run of the inbox handler has read.
LEMMA TakenStep ==
  ASSUME Typed, [Next]_vars, NEW t \in taken'
  PROVE  \/ t \in taken
         \/ \E m \in D!Msgs, c \in Conns : flight[m][c] = "sent" /\ t = <<m, of[c]>>
         \/ \E d \in Drains : \E m \in Range(drain[d].batch) : t = <<m, of[drain[d].conn]>>
<1>1. CASE t \in taken
  BY <1>1
<1>2. CASE \E m \in D!Msgs, c \in Conns, s \in AckStatuses : TakeMessage(m, c, s)
  BY <1>2 DEF TakeMessage, D!TakeMessage
<1>3. CASE \E d \in Drains, s \in AckStatuses : TakeBatch(d, s)
  BY <1>3 DEF TakeBatch
<1>4. CASE UNCHANGED taken
  BY <1>4
<1>5. QED
  <2>1. CASE PageStep
    BY <1>2, <1>3, <1>4, <2>1 DEF PageStep, Connect, Page, historyVars
  <2>2. CASE MessageStep \/ AccountStep \/ Tick \/ ExpiryEvent \/ UNCHANGED vars
    BY <1>4, <2>2, MessageFrame, AccountFrame DEF Tick, ExpiryEvent, vars, historyVars
  <2>3. QED BY <2>1, <2>2 DEF Next

LEMMA StepTaken ==
  ASSUME Typed, OfferInv, BatchInv, TakenInv, [Next]_vars
  PROVE  TakenInv'
<1>1. Forward
  BY StepForward
<1>2. ASSUME NEW t \in taken'
      PROVE  pc'[t[1]] # "unsent" /\ NotEarlier(t[1], t[2])'
  <2>1. t[1] \in D!Msgs /\ pc[t[1]] # "unsent" /\ NotEarlier(t[1], t[2])
    <3>1. CASE t \in taken
      BY <3>1 DEF TakenInv, Typed, MailTyped
    <3>2. CASE \E m \in D!Msgs, c \in Conns : flight[m][c] = "sent" /\ t = <<m, of[c]>>
      BY <3>2 DEF OfferInv
    <3>3. CASE \E d \in Drains : \E m \in Range(drain[d].batch) :
                 t = <<m, of[drain[d].conn]>>
      BY <3>3, Members DEF BatchInv
    <3>4. QED BY <3>1, <3>2, <3>3, TakenStep
  <2>2. QED BY <1>1, <2>1, NotEarlierStays DEF Forward
<1>3. QED BY <1>2 DEF TakenInv

\* Together, for any answers of the pages.
OwnerInv == Typed /\ RoomInv /\ OfferInv /\ InboxInv /\ BatchInv /\ TakenInv

LEMMA InitOwner == Init => OwnerInv
<1> SUFFICES ASSUME Init PROVE OwnerInv
  OBVIOUS
<1>1. /\ mail = [m \in D!Msgs |-> 0] /\ owner = 1 /\ taken = {} /\ inbox = <<>>
      /\ flight = [m \in D!Msgs |-> [c \in Conns |-> "none"]]
      /\ drain = [d \in Drains |-> D!NoDrain]
  BY DEF Init, D!Init
<1>2. D!NoDrain.pc = "idle" /\ D!NoDrain.batch = <<>>
  BY DEF D!NoDrain
<1>3. OfferInv /\ TakenInv
  BY <1>1 DEF OfferInv, TakenInv
<1>4. InboxInv /\ BatchInv
  BY <1>1, <1>2, RangeEmpty DEF InboxInv, BatchInv
<1>5. QED BY <1>3, <1>4, InitTyped, InitRoom DEF OwnerInv

LEMMA StepOwner == OwnerInv /\ [Next]_vars => OwnerInv'
BY StepTyped, StepRoom, StepOffer, StepInbox, StepBatch, StepTaken DEF OwnerInv

LEMMA OwnerInvariant == Spec => []OwnerInv
BY InitOwner, StepOwner, PTL DEF Spec

(* No message for an account is taken by a page of an earlier one, but the    *)
(* sockets that redisDeleteUser, a late "expired" event or a session record   *)
(* that outlived its account leave in the room.                               *)
THEOREM LeaversGetNothingCorrect == Spec => []LeaversGetNothing
<1>1. OwnerInv => LeaversGetNothing
  BY DEF OwnerInv, TakenInv, NotEarlier, LeaversGetNothing
<1>2. QED BY <1>1, OwnerInvariant, PTL

(* The inbox expires with the account, unless the account was deleted, or the *)
(* list got a TTL that was read before the TTL of the account changed.        *)
THEOREM InboxGoesWithAccountCorrect == Spec => []InboxGoesWithAccount
<1>1. OwnerInv => InboxGoesWithAccount
  <2> SUFFICES ASSUME OwnerInv, user = Gone, NEW m \in Range(inbox)
               PROVE  m \in stranded
    BY DEF InboxGoesWithAccount
  <2>1. keep # Gone
    BY RangeEmpty DEF OwnerInv, Typed, MailTyped
  <2>2. QED BY <2>1 DEF OwnerInv, InboxInv
<1>2. QED BY <1>1, OwnerInvariant, PTL

-----------------------------------------------------------------------------
(* The queue of replies.  Whoever waits for Redis is in it once, so that a   *)
(* handler is answered before those that asked after it.                     *)

\* The handlers that wait for a reply.
Asked(h) ==
  \/ h \in D!Msgs /\ pc[h] \in {"ttl", "push"}
  \/ h \in Drains /\ drain[h].pc \in {"range", "del"}
  \/ h = Account /\ request.pc # "idle"

QueueInv ==
  /\ Distinct(replies)
  /\ \A h \in Handlers : h \in Range(replies) <=> Asked(h)

\* A step leaves the queue alone, or one handler asks, or is answered, or is
\* answered and asks again.
QueueMove ==
  \/ /\ UNCHANGED replies
     /\ \A k \in Handlers : Asked(k)' <=> Asked(k)
  \/ \E h \in Handlers :
       /\ \A k \in Handlers \ {h} : Asked(k)' <=> Asked(k)
       /\ \/ ~Asked(h) /\ Asked(h)' /\ replies' = Append(replies, h)
          \/ /\ replies # <<>> /\ h = Head(replies)
             /\ \/ ~Asked(h)' /\ replies' = Tail(replies)
                \/ /\ Asked(h) /\ Asked(h)' /\ replies' = Append(Tail(replies), h)
                   /\ h \in D!Msgs => pc'[h] # "ttl"

\* A step that moves message m in the queue moves nobody else.
LEMMA MessageQueue ==
  ASSUME Typed, NEW m \in D!Msgs,
         Send(m) \/ (\E c \in Conns : Acknowledged(m, c)) \/ Push(m) \/ HandlerEnds(m)
  PROVE  QueueMove
<1> USE DEF Typed, DeliveryTyped
<1>1. /\ \A k \in D!Msgs \ {m} : pc'[k] = pc[k]
      /\ UNCHANGED <<drain, request>>
  BY DEF Send, Acknowledged, Push, HandlerEnds, D!SendToRoom, D!SendToEmptyRoom,
         D!AckArrives, D!Push, D!AckTimeout, D!AckSender, D!AskTtl, accountVars
<1>2. m \in Handlers /\ \A k \in Handlers \ {m} : Asked(k)' <=> Asked(k)
  BY <1>1, Apart DEF Handlers, Asked
<1>3. Asked(m) <=> pc[m] \in {"ttl", "push"}
  BY Apart DEF Asked
<1>4. Asked(m)' <=> pc'[m] \in {"ttl", "push"}
  BY Apart DEF Asked
<1>5. ASSUME D!AskTtl(m), ~Asked(m)
      PROVE  \/ ~Asked(m)' /\ UNCHANGED replies
             \/ Asked(m)' /\ replies' = Append(replies, m)
  BY <1>4, <1>5 DEF D!AskTtl
<1>6. \/ (Asked(m)' <=> Asked(m)) /\ UNCHANGED replies
      \/ ~Asked(m) /\ Asked(m)' /\ replies' = Append(replies, m)
      \/ /\ replies # <<>> /\ m = Head(replies)
         /\ \/ ~Asked(m)' /\ replies' = Tail(replies)
            \/ /\ Asked(m) /\ Asked(m)' /\ replies' = Append(Tail(replies), m)
               /\ pc'[m] # "ttl"
  <2>1. CASE Send(m)
    <3>1. ~Asked(m)
      BY <1>3, <2>1 DEF Send, D!SendToRoom, D!SendToEmptyRoom, D!Starts
    <3>2. CASE D!SendToRoom(m)
      BY <1>4, <3>1, <3>2 DEF D!SendToRoom
    <3>3. CASE D!SendToEmptyRoom(m)
      BY <1>5, <3>1, <3>3 DEF D!SendToEmptyRoom
    <3>4. QED BY <2>1, <3>2, <3>3 DEF Send
  <2>2. CASE \E c \in Conns : Acknowledged(m, c)
    <3>1. ~Asked(m)
      BY <1>3, <2>2 DEF Acknowledged, D!AckArrives
    <3>2. CASE D!AskTtl(m)
      BY <1>5, <3>1, <3>2
    <3>3. CASE ~D!AskTtl(m)
      BY <1>3, <1>4, <2>2, <3>3 DEF Acknowledged, D!AckArrives
    <3>4. QED BY <3>2, <3>3
  <2>3. CASE Push(m)
    BY <1>3, <1>4, <2>3 DEF Push, D!Push
  <2>4. CASE HandlerEnds(m)
    BY <1>3, <1>4, <2>4 DEF HandlerEnds, D!AckTimeout, D!AckSender
  <2>5. QED BY <2>1, <2>2, <2>3, <2>4
<1>7. QED
  <2>1. CASE (Asked(m)' <=> Asked(m)) /\ UNCHANGED replies
    BY <1>2, <2>1 DEF QueueMove
  <2>2. CASE ~((Asked(m)' <=> Asked(m)) /\ UNCHANGED replies)
    BY <1>2, <1>6, <2>2 DEF QueueMove
  <2>3. QED BY <2>1, <2>2

\* So does one that moves a run of the inbox handler.
LEMMA DrainQueue ==
  ASSUME Typed, NEW d \in Drains, Drain(d)
  PROVE  QueueMove
<1> USE DEF Typed, DeliveryTyped, D!DrainRun
<1>1. /\ \A k \in Drains \ {d} : drain'[k] = drain[k]
      /\ UNCHANGED <<pc, request>>
  BY DEF Drain, D!StartDrain, D!EmitBatch, D!DrainAckArrives, D!DrainTimeout,
         D!DrainReturns, accountVars
<1>2. d \in Handlers /\ \A k \in Handlers \ {d} : Asked(k)' <=> Asked(k)
  BY <1>1, Apart DEF Handlers, Asked
<1>3. Asked(d) <=> drain[d].pc \in {"range", "del"}
  BY Apart DEF Asked
<1>4. Asked(d)' <=> drain'[d].pc \in {"range", "del"}
  BY Apart DEF Asked
<1>5. \/ (Asked(d)' <=> Asked(d)) /\ UNCHANGED replies
      \/ ~Asked(d) /\ Asked(d)' /\ replies' = Append(replies, d)
      \/ replies # <<>> /\ d = Head(replies) /\ ~Asked(d)' /\ replies' = Tail(replies)
  <2>1. CASE D!StartDrain(d)
    BY <1>3, <1>4, <2>1 DEF D!StartDrain
  <2>2. CASE D!EmitBatch(d)
    BY <1>4, <2>2 DEF D!EmitBatch
  <2>3. CASE D!DrainAckArrives(d)
    BY <1>3, <1>4, <2>3 DEF D!DrainAckArrives
  <2>4. CASE D!DrainTimeout(d)
    BY <1>3, <1>4, <2>4 DEF D!DrainTimeout
  <2>5. CASE D!DrainReturns(d)
    BY <1>4, <2>5 DEF D!DrainReturns
  <2>6. QED BY <2>1, <2>2, <2>3, <2>4, <2>5 DEF Drain
<1>6. QED
  <2>1. CASE (Asked(d)' <=> Asked(d)) /\ UNCHANGED replies
    BY <1>2, <2>1 DEF QueueMove
  <2>2. CASE ~((Asked(d)' <=> Asked(d)) /\ UNCHANGED replies)
    BY <1>2, <1>5, <2>2 DEF QueueMove
  <2>3. QED BY <2>1, <2>2

\* So does one that moves the account request.
LEMMA RequestQueue ==
  ASSUME Typed, AccountStep
  PROVE  QueueMove
<1> USE DEF Typed
<1>1. /\ Account \in Handlers /\ Account \notin D!Msgs
      /\ \A k \in Handlers \ {Account} : Asked(k)' <=> Asked(k)
  BY Apart, AccountFrame DEF Handlers, Asked
<1>2. Asked(Account) <=> request.pc # "idle"
  BY Apart DEF Asked
<1>3. Asked(Account)' <=> request'.pc # "idle"
  BY Apart DEF Asked
<1>4. \/ request'.pc = request.pc /\ UNCHANGED replies
      \/ request.pc = "idle" /\ request'.pc # "idle" /\ replies' = Append(replies, Account)
      \/ /\ replies # <<>> /\ Account = Head(replies)
         /\ \/ request'.pc = "idle" /\ replies' = Tail(replies)
            \/ /\ request.pc # "idle" /\ request'.pc # "idle"
               /\ replies' = Append(Tail(replies), Account)
  <2>1. ASSUME NEW r \in Request, r.pc # "idle", Start(r)
        PROVE  request.pc = "idle" /\ request'.pc # "idle"
               /\ replies' = Append(replies, Account)
    BY <2>1 DEF Start, NoRequest
  <2>2. CASE SignupStarts \/ \E o \in Owners : DeleteStarts(o)
    <3>1. ASSUME SignupStarts
          PROVE  \E r \in Request : r.pc # "idle" /\ Start(r)
      <4> DEFINE r == [NoRequest EXCEPT !.pc = "exists", !.found = user # Gone]
      <4>1. r \in Request /\ r.pc # "idle"
        BY DEF NoRequest, Request, RequestSteps
      <4>2. QED BY <3>1, <4>1 DEF SignupStarts
    <3>2. ASSUME NEW o \in Owners, DeleteStarts(o)
          PROVE  \E r \in Request : r.pc # "idle" /\ Start(r)
      <4> DEFINE r == [NoRequest EXCEPT !.pc = "smembers", !.by = o, !.listed = member]
      <4>1. r \in Request /\ r.pc # "idle"
        BY DEF NoRequest, Request, RequestSteps, AccountTyped
      <4>2. QED BY <3>2, <4>1 DEF DeleteStarts
    <3>3. QED BY <2>1, <2>2, <3>1, <3>2
  <2>3. ASSUME NEW p \in RequestSteps \ {"idle"}, Resumes(p),
               End \/ \E q \in RequestSteps \ {"idle"} : Then(q)
        PROVE  /\ replies # <<>> /\ Account = Head(replies)
               /\ \/ request'.pc = "idle" /\ replies' = Tail(replies)
                  \/ /\ request.pc # "idle" /\ request'.pc # "idle"
                     /\ replies' = Append(Tail(replies), Account)
    BY <2>3, RequestFields DEF Resumes, End, Then
  <2>4. CASE \/ SignupExists \/ SignupStored \/ SignupSetsTtl \/ SignupResponds
             \/ DeleteRecords \/ DeleteSet \/ DeleteUser \/ DeleteResponds
    <3>1. \E p \in RequestSteps \ {"idle"} :
            Resumes(p) /\ (End \/ \E q \in RequestSteps \ {"idle"} : Then(q))
      BY <2>4 DEF SignupExists, SignupStored, SignupSetsTtl, SignupResponds,
                  DeleteRecords, DeleteSet, DeleteUser, DeleteResponds, RequestSteps
    <3>2. QED BY <2>3, <3>1
  <2>5. CASE \E o \in Owners : Touch(o)
    BY <2>5 DEF Touch, deliveryVars
  <2>6. QED BY <2>2, <2>4, <2>5 DEF AccountStep
<1>5. QED
  <2>1. CASE request'.pc = request.pc /\ UNCHANGED replies
    BY <1>1, <1>2, <1>3, <2>1 DEF QueueMove
  <2>2. CASE ~(request'.pc = request.pc /\ UNCHANGED replies)
    BY <1>1, <1>2, <1>3, <1>4, <2>2 DEF QueueMove
  <2>3. QED BY <2>1, <2>2

\* Every step does.
LEMMA StepMoves ==
  ASSUME Typed, [Next]_vars
  PROVE  QueueMove
<1>1. CASE PageStep
  <2>1. UNCHANGED <<replies, pc, request>>
    BY <1>1, PathFrame DEF PageStep, Connect, Page, TakeMessage, TakeBatch,
       D!Connect, D!Disconnect, D!Unmount, D!Mount, D!TakeMessage, D!TakeBatch,
       accountVars
  <2>2. ASSUME NEW d \in Drains
        PROVE  drain'[d].pc \in {"range", "del"} <=> drain[d].pc \in {"range", "del"}
    <3>1. CASE \E c \in Conns, k \in Drains : D!Mount(c, k)
      BY <3>1 DEF D!Mount, Typed, DeliveryTyped, D!DrainRun
    <3>2. CASE \E k \in Drains, s \in AckStatuses : D!TakeBatch(k, s)
      BY <3>2 DEF D!TakeBatch, Typed, DeliveryTyped, D!DrainRun
    <3>3. CASE UNCHANGED drain
      BY <3>3
    <3>4. QED BY <1>1, <3>1, <3>2, <3>3 DEF PageStep, Connect, Page, TakeMessage,
         TakeBatch, D!Connect, D!Disconnect, D!Unmount, D!TakeMessage
  <2>3. QED BY <2>1, <2>2 DEF QueueMove, Asked
<1>2. CASE MessageStep
  BY <1>2, MessageQueue, DrainQueue DEF MessageStep
<1>3. CASE Tick \/ ExpiryEvent \/ UNCHANGED vars
  BY <1>3 DEF Tick, ExpiryEvent, vars, deliveryVars, accountVars, QueueMove, Asked
<1>4. QED BY <1>1, <1>2, <1>3, RequestQueue DEF Next

\* A handler of a message keeps its place before the account request.
LEMMA StepQueue ==
  ASSUME Typed, QueueInv, [Next]_vars
  PROVE  /\ QueueInv'
         /\ \A m \in D!Msgs :
              pc[m] = "ttl" /\ pc'[m] = "ttl" /\ Before(m, Account, replies) =>
                /\ Before(m, Account, replies')
                /\ Head(replies) # Account
<1>0. replies \in Seq(Handlers) /\ Account \in Handlers
  BY DEF Typed, DeliveryTyped, Handlers
<1>1. \A h \in Handlers : h \in Range(replies) <=> Asked(h)
  BY DEF QueueInv
<1>2. \A m \in D!Msgs : m \in Handlers /\ m # Account /\ (pc[m] = "ttl" => Asked(m))
                        /\ (pc'[m] = "ttl" => Asked(m)')
  BY Apart DEF Handlers, Asked
<1>3. \A m : Before(m, Account, replies) => replies # <<>>
  BY DEF Before
<1>4. \A m : Before(m, Account, replies) => Head(replies) # Account
  BY <1>0, <1>3, LeaveQueue DEF QueueInv
<1>5. CASE /\ UNCHANGED replies
           /\ \A k \in Handlers : Asked(k)' <=> Asked(k)
  BY <1>1, <1>4, <1>5 DEF QueueInv
<1>6. ASSUME NEW h \in Handlers, \A k \in Handlers \ {h} : Asked(k)' <=> Asked(k),
             ~Asked(h), Asked(h)', replies' = Append(replies, h)
      PROVE  /\ QueueInv'
             /\ \A m : Before(m, Account, replies) => Before(m, Account, replies')
  <2>1. /\ Distinct(replies') /\ Range(replies') = Range(replies) \cup {h}
        /\ \A s, t : Before(s, t, replies) => Before(s, t, replies')
    BY <1>0, <1>1, <1>6, JoinQueue DEF QueueInv
  <2>2. \A k \in Handlers : k \in Range(replies') <=> Asked(k)'
    BY <1>1, <1>6, <2>1
  <2>3. QED BY <2>1, <2>2 DEF QueueInv
<1>7. ASSUME NEW h \in Handlers, \A k \in Handlers \ {h} : Asked(k)' <=> Asked(k),
             replies # <<>>, h = Head(replies), ~Asked(h)', replies' = Tail(replies)
      PROVE  /\ QueueInv'
             /\ \A m : m # h /\ Before(m, Account, replies) => Before(m, Account, replies')
  <2>1. /\ Distinct(replies') /\ Range(replies') = Range(replies) \ {h}
        /\ \A s, t : Before(s, t, replies) /\ s # h => Before(s, t, replies')
    BY <1>0, <1>7, LeaveQueue DEF QueueInv
  <2>2. \A k \in Handlers : k \in Range(replies') <=> Asked(k)'
    BY <1>1, <1>7, <2>1
  <2>3. QED BY <2>1, <2>2 DEF QueueInv
<1>8. ASSUME NEW h \in Handlers, \A k \in Handlers \ {h} : Asked(k)' <=> Asked(k),
             replies # <<>>, h = Head(replies), Asked(h), Asked(h)',
             replies' = Append(Tail(replies), h)
      PROVE  /\ QueueInv'
             /\ \A m : m # h /\ Before(m, Account, replies) => Before(m, Account, replies')
  <2>1. /\ Distinct(replies') /\ Range(replies') = Range(replies)
        /\ \A s, t : Before(s, t, replies) /\ s # h => Before(s, t, replies')
    BY <1>0, <1>8, RejoinQueue DEF QueueInv
  <2>2. \A k \in Handlers : k \in Range(replies') <=> Asked(k)'
    BY <1>1, <1>8, <2>1
  <2>3. QED BY <2>1, <2>2 DEF QueueInv
<1>9. CASE \E h \in Handlers :
             /\ \A k \in Handlers \ {h} : Asked(k)' <=> Asked(k)
             /\ \/ ~Asked(h) /\ Asked(h)' /\ replies' = Append(replies, h)
                \/ /\ replies # <<>> /\ h = Head(replies)
                   /\ \/ ~Asked(h)' /\ replies' = Tail(replies)
                      \/ /\ Asked(h) /\ Asked(h)' /\ replies' = Append(Tail(replies), h)
                         /\ h \in D!Msgs => pc'[h] # "ttl"
  <2>1. PICK h \in Handlers :
             /\ \A k \in Handlers \ {h} : Asked(k)' <=> Asked(k)
             /\ \/ ~Asked(h) /\ Asked(h)' /\ replies' = Append(replies, h)
                \/ /\ replies # <<>> /\ h = Head(replies)
                   /\ \/ ~Asked(h)' /\ replies' = Tail(replies)
                      \/ /\ Asked(h) /\ Asked(h)' /\ replies' = Append(Tail(replies), h)
                         /\ h \in D!Msgs => pc'[h] # "ttl"
    BY <1>9
  <2>2. CASE ~Asked(h) /\ Asked(h)' /\ replies' = Append(replies, h)
    BY <1>4, <1>6, <2>1, <2>2
  <2>3. CASE /\ replies # <<>> /\ h = Head(replies)
             /\ ~Asked(h)' /\ replies' = Tail(replies)
    BY <1>2, <1>4, <1>7, <2>1, <2>3
  <2>4. CASE /\ replies # <<>> /\ h = Head(replies)
             /\ Asked(h) /\ Asked(h)' /\ replies' = Append(Tail(replies), h)
             /\ h \in D!Msgs => pc'[h] # "ttl"
    BY <1>2, <1>4, <1>8, <2>1, <2>4
  <2>5. QED BY <2>1, <2>2, <2>3, <2>4
<1>10. QED BY <1>5, <1>9, StepMoves DEF QueueMove

-----------------------------------------------------------------------------
(* What a handler that is about to push has read: a TTL that the account has *)
(* not exceeded since.  If the name was signed up with in between, the       *)
(* sign-up waits in the queue behind it, and so sets its TTL after the push. *)

PushInv ==
  \A m \in D!Msgs : pc[m] = "ttl" =>
    /\ user <= held[m]
    /\ user = NoTtl => mail[m] # owner /\ Before(m, Account, replies)

\* A handler that has just read a TTL has read the account's.
LEMMA ReadsTtl ==
  ASSUME Typed, [Next]_vars, NEW m \in D!Msgs, pc'[m] = "ttl"
  PROVE  \/ pc[m] = "ttl" /\ held'[m] = held[m] /\ mail'[m] = mail[m]
         \/ /\ pc[m] # "ttl" /\ held'[m] = user /\ user \in 1..Ttl
            /\ UNCHANGED <<user, owner>>
            /\ mail'[m] = owner \/ \E c \in Conns : flight[m][c] = "error"
                                                   \/ first[m] = "error"
<1> USE DEF Typed, DeliveryTyped, MailTyped
<1>1. CASE MessageStep
  <2>0. UNCHANGED <<user, owner>>
    BY <1>1, MessageFrame
  <2>1. CASE Send(m)
    <3>1. pc[m] # "ttl" /\ mail'[m] = owner /\ held'[m] = user
      BY <2>1 DEF Send, Reads, D!SendToRoom, D!SendToEmptyRoom, D!Starts
    <3>2. user \in 1..Ttl
      BY <2>1, AskTtlReads DEF Send, D!SendToRoom, D!SendToEmptyRoom
    <3>3. QED BY <2>0, <3>1, <3>2
  <2>2. ASSUME NEW c \in Conns, Acknowledged(m, c)
        PROVE  /\ pc[m] # "ttl" /\ held'[m] = user /\ user \in 1..Ttl
               /\ flight[m][c] = "error" \/ first[m] = "error"
    <3>1. pc[m] = "waiting" /\ held'[m] = user
      BY <2>2 DEF Acknowledged, Reads, D!AckArrives
    <3>2. D!AskTtl(m) /\ (flight[m][c] = "error" \/ first[m] = "error")
      BY <2>2, <3>1, DeliveryAssumption DEF Acknowledged, D!AckArrives
    <3>3. QED BY <3>1, <3>2, AskTtlReads
  <2>3. CASE Push(m) \/ HandlerEnds(m)
    BY <2>3 DEF Push, HandlerEnds, D!Push, D!AckTimeout, D!AckSender, mailVars
  <2>4. ASSUME NEW k \in D!Msgs \ {m},
               Send(k) \/ (\E c \in Conns : Acknowledged(k, c)) \/ Push(k) \/ HandlerEnds(k)
        PROVE  pc[m] = "ttl" /\ held'[m] = held[m] /\ mail'[m] = mail[m]
    BY <2>4 DEF Send, Acknowledged, Push, HandlerEnds, Reads, D!SendToRoom,
         D!SendToEmptyRoom, D!AckArrives, D!Push, D!AckTimeout, D!AckSender,
         D!AskTtl, mailVars
  <2>5. ASSUME NEW d \in Drains, Drain(d)
        PROVE  pc[m] = "ttl" /\ held'[m] = held[m] /\ mail'[m] = mail[m]
    BY <2>5 DEF Drain, D!StartDrain, D!EmitBatch, D!DrainAckArrives,
         D!DrainTimeout, D!DrainReturns
  <2>6. CASE \E c \in Conns : Acknowledged(m, c)
    BY <2>0, <2>2, <2>6
  <2>7. CASE \E k \in D!Msgs \ {m} :
           Send(k) \/ (\E c \in Conns : Acknowledged(k, c)) \/ Push(k) \/ HandlerEnds(k)
    BY <2>4, <2>7
  <2>8. QED BY <1>1, <2>0, <2>1, <2>3, <2>5, <2>6, <2>7 DEF MessageStep
<1>2. CASE ~MessageStep
  <2>1. UNCHANGED <<pc, held, mail>>
    <3>1. CASE PageStep
      BY <3>1 DEF PageStep, Connect, Page, TakeMessage, TakeBatch, mailVars, D!Connect,
           D!Disconnect, D!Unmount, D!Mount, D!TakeMessage, D!TakeBatch
    <3>2. CASE AccountStep
      BY <3>2, AccountFrame DEF mailVars
    <3>3. CASE Tick \/ ExpiryEvent \/ UNCHANGED vars
      BY <3>3 DEF Tick, ExpiryEvent, vars, deliveryVars, mailVars
    <3>4. QED BY <1>2, <3>1, <3>2, <3>3 DEF Next
  <2>2. QED BY <2>1
<1>3. QED BY <1>1, <1>2

LEMMA StepPush ==
  ASSUME Typed, OfferInv, QueueInv, PushInv, [Next]_vars
  PROVE  PushInv'
<1> SUFFICES ASSUME NEW m \in D!Msgs, pc'[m] = "ttl"
             PROVE  /\ user' <= held'[m]
                    /\ user' = NoTtl => mail'[m] # owner' /\ Before(m, Account, replies')
  BY DEF PushInv
<1>1. CASE pc[m] # "ttl"
  <2>1. held'[m] = user /\ user \in 1..Ttl /\ user' = user
    BY <1>1, ReadsTtl
  <2>2. QED BY <2>1, Numbers DEF NoTtl
<1>2. CASE pc[m] = "ttl"
  <2>0. /\ held'[m] = held[m] /\ mail'[m] = mail[m] /\ held[m] \in 1..Ttl
        /\ user <= held[m] /\ mail[m] <= owner /\ mail[m] \in Nat /\ owner \in Nat
    BY <1>2, ReadsTtl, Numbers
       DEF PushInv, OfferInv, Typed, AccountTyped, MailTyped
  <2>1. user = NoTtl =>
          /\ mail[m] # owner
          /\ Before(m, Account, replies') /\ Head(replies) # Account
    BY <1>2, StepQueue DEF PushInv
  <2>2. CASE UNCHANGED <<user, owner>>
    BY <2>0, <2>1, <2>2
  <2>3. CASE Tick
    <3>1. user' = Aged(user) /\ owner' = owner
      BY <2>3 DEF Tick
    <3>2. Aged(user) <= user /\ (Aged(user) = NoTtl <=> user = NoTtl)
      BY Ageing DEF Typed, AccountTyped
    <3>3. user \in Int /\ user' \in Int
      BY <3>1, Ageing, Numbers DEF Typed, AccountTyped
    <3>4. QED BY <2>0, <2>1, <3>1, <3>2, <3>3
  <2>4. CASE AccountStep
    <3>1. CASE /\ user' = NoTtl /\ owner' = owner + 1
               /\ replies # <<>> /\ Head(replies) = Account
               /\ replies' = Append(Tail(replies), Account)
      <4>1. m \in Range(replies) /\ m # Account
        BY <1>2, Apart DEF QueueInv, Asked, Handlers
      <4>2. Before(m, Account, replies')
        BY <3>1, <4>1, RejoinQueue DEF QueueInv, Typed, DeliveryTyped
      <4>3. user' <= held'[m] /\ mail'[m] # owner'
        BY <2>0, <3>1, Numbers DEF NoTtl
      <4>4. QED BY <4>2, <4>3
    <3>2. CASE user = NoTtl /\ Head(replies) = Account
      BY <2>1, <3>2
    <3>3. CASE user' = Gone
      BY <2>0, <3>3, Numbers DEF Gone, NoTtl
    <3>4. QED BY <2>2, <2>4, <3>1, <3>2, <3>3, NameStep
  <2>5. QED BY <2>2, <2>3, <2>4, NameFrame
<1>3. QED BY <1>1, <1>2

\* The queue, and what the handlers in it have read.
LEMMA InitPush == Init => QueueInv /\ PushInv
<1> SUFFICES ASSUME Init PROVE QueueInv /\ PushInv
  OBVIOUS
<1>1. /\ replies = <<>> /\ pc = [m \in D!Msgs |-> "unsent"] /\ request = NoRequest
      /\ drain = [d \in Drains |-> D!NoDrain]
  BY DEF Init, D!Init
<1>2. D!NoDrain.pc = "idle" /\ NoRequest.pc = "idle"
  BY DEF D!NoDrain, NoRequest
<1>3. \A h : ~Asked(h)
  BY <1>1, <1>2 DEF Asked
<1>4. QED BY <1>1, <1>3, EmptyQueue DEF QueueInv, PushInv

LEMMA PushInvariant == Spec => [](OwnerInv /\ QueueInv /\ PushInv)
<1>1. Init => OwnerInv /\ QueueInv /\ PushInv
  BY InitOwner, InitPush
<1>2. OwnerInv /\ QueueInv /\ PushInv /\ [Next]_vars
        => (OwnerInv /\ QueueInv /\ PushInv)'
  BY StepOwner, StepQueue, StepPush DEF OwnerInv
<1>3. QED BY <1>1, <1>2, PTL DEF Spec

-----------------------------------------------------------------------------
(* What heirs get.  When pages take every message they are offered, a handler *)
(* turns to the inbox only when it starts, for the account that it reads the  *)
(* TTL of; so what it pushes is for the present owner, or the TTL is not his. *)

HeirInv ==
  /\ \A m \in D!Msgs : first[m] # "error" /\ \A c \in Conns : flight[m][c] # "error"
  /\ \A m \in D!Msgs : pc[m] = "ttl" => mail[m] = owner \/ user = NoTtl
  /\ \A m \in Range(inbox) : m \in stranded \/ mail[m] = owner
  /\ \A d \in Drains : \A m \in Range(drain[d].batch) :
       of[drain[d].conn] > mail[m] => m \in stranded
  /\ HeirsGetNothing

\* Nobody answers "error".
LEMMA NoErrors ==
  ASSUME "error" \notin AckStatuses, Typed, [Next]_vars,
         \A m \in D!Msgs : first[m] # "error" /\ \A c \in Conns : flight[m][c] # "error"
  PROVE  \A m \in D!Msgs : first'[m] # "error" /\ \A c \in Conns : flight'[m][c] # "error"
<1> USE DEF Typed, DeliveryTyped
<1>1. CASE \E m \in D!Msgs, c \in Conns, s \in AckStatuses : TakeMessage(m, c, s)
  BY <1>1 DEF TakeMessage, D!TakeMessage
<1>2. CASE \E m \in D!Msgs, c \in Conns : Acknowledged(m, c)
  BY <1>2 DEF Acknowledged, D!AckArrives
<1>3. CASE \E m \in D!Msgs : Send(m)
  BY <1>3 DEF Send, D!SendToRoom, D!SendToEmptyRoom
<1>4. CASE UNCHANGED <<first, flight>>
  BY <1>4
<1>5. QED
  <2>1. CASE PageStep
    BY <1>1, <1>4, <2>1 DEF PageStep, Connect, Page, TakeBatch, D!Connect,
       D!Disconnect, D!Unmount, D!Mount, D!TakeBatch
  <2>2. CASE MessageStep
    BY <1>2, <1>3, <1>4, <2>2 DEF MessageStep, Push, HandlerEnds, Drain, D!Push,
       D!AckTimeout, D!AckSender, D!StartDrain, D!EmitBatch, D!DrainAckArrives,
       D!DrainTimeout, D!DrainReturns
  <2>3. CASE AccountStep \/ Tick \/ ExpiryEvent \/ UNCHANGED vars
    BY <1>4, <2>3, AccountFrame DEF Tick, ExpiryEvent, vars, deliveryVars
  <2>4. QED BY <2>1, <2>2, <2>3 DEF Next

\* What is left to heirs of what a handler is about to push, and of the inbox.
LEMMA HeirPush ==
  ASSUME Typed, OfferInv, QueueInv, PushInv, HeirInv, [Next]_vars,
         NEW m \in D!Msgs, pc'[m] = "ttl"
  PROVE  mail'[m] = owner' \/ user' = NoTtl
<1>1. CASE pc[m] # "ttl"
  BY <1>1, ReadsTtl DEF HeirInv
<1>2. CASE pc[m] = "ttl"
  <2>1. mail'[m] = mail[m] /\ (mail[m] = owner \/ user = NoTtl)
    BY <1>2, ReadsTtl DEF HeirInv
  <2>2. user = NoTtl => Head(replies) # Account
    BY <1>2, StepQueue DEF PushInv
  <2>3. CASE Tick
    BY <2>1, <2>3, Ageing DEF Tick, Typed, AccountTyped
  <2>4. CASE AccountStep /\ ~UNCHANGED <<user, owner>>
    <3>1. CASE user' = NoTtl
      BY <3>1
    <3>2. CASE user = NoTtl /\ Head(replies) = Account
      BY <2>2, <3>2
    <3>3. CASE owner' = owner /\ request.pc = "delset"
      BY <2>1, <3>3 DEF Typed, AccountTyped
    <3>4. QED BY <2>4, <3>1, <3>2, <3>3, NameStep
  <2>5. CASE UNCHANGED <<user, owner>>
    BY <2>1, <2>5
  <2>6. QED BY <2>3, <2>4, <2>5, NameFrame
<1>3. QED BY <1>1, <1>2

LEMMA HeirInbox ==
  ASSUME Typed, InboxInv, PushInv, HeirInv, [Next]_vars, NEW m \in Range(inbox')
  PROVE  m \in stranded' \/ mail'[m] = owner'
<1>1. \A k \in Range(inbox) : k \in D!Msgs /\ mail'[k] = mail[k]
                              /\ (k \in stranded => k \in stranded')
  BY Members, StepForward DEF Forward, InboxInv
<1>2. \A k \in Range(inbox) : k \in stranded \/ mail[k] = owner
  BY DEF HeirInv
<1>3. CASE \E k \in D!Msgs : Push(k)
  <2>1. PICK k \in D!Msgs : Push(k)
    BY <1>3
  <2>2. /\ pc[k] = "ttl" /\ Range(inbox') = Range(inbox) \cup {k}
        /\ stranded' = IF held[k] = user THEN stranded ELSE stranded \cup Range(inbox')
        /\ UNCHANGED <<user, owner, mail>>
    BY <2>1, PushFacts
  <2>3. held[k] # NoTtl /\ (mail[k] = owner \/ user = NoTtl)
    BY <2>2, Numbers DEF HeirInv, Typed, MailTyped, NoTtl, Gone
  <2>4. QED BY <1>1, <1>2, <2>2, <2>3
<1>4. CASE inbox' = <<>>
  BY <1>4, RangeEmpty
<1>5. CASE Tick /\ inbox' = inbox
  BY <1>1, <1>2, <1>5 DEF Tick
<1>6. CASE UNCHANGED <<inbox, keep>> /\ ~Tick
  <2>1. CASE owner' = owner
    BY <1>1, <1>2, <1>6, <2>1
  <2>2. CASE owner' # owner
    <3>1. user = Gone
      <4>1. owner \in Nat
        BY Numbers DEF Typed, AccountTyped
      <4>2. AccountStep
        BY <1>6, <2>2, NameFrame
      <4>3. QED BY <2>2, <4>1, <4>2, NameStep
    <3>2. keep # Gone
      BY <1>6, RangeEmpty DEF Typed, MailTyped
    <3>3. QED BY <1>1, <1>6, <3>1, <3>2 DEF InboxInv
  <2>3. QED BY <2>1, <2>2
<1>7. QED BY <1>3, <1>4, <1>5, <1>6, InboxStep

LEMMA HeirBatch ==
  ASSUME Typed, RoomInv, OfferInv, InboxInv, BatchInv, HeirInv, [Next]_vars,
         NEW d \in Drains, NEW m \in Range(drain'[d].batch),
         of'[drain'[d].conn] > mail'[m]
  PROVE  m \in stranded'
<1>1. Forward
  BY StepForward
<1>2. ASSUME drain'[d].batch = drain[d].batch, drain'[d].conn = drain[d].conn
      PROVE  m \in stranded'
  <2>1. m \in Range(drain[d].batch) /\ m \in D!Msgs /\ pc[m] # "unsent"
    BY <1>2, Members DEF BatchInv
  <2>2. drain[d].conn \in Conns /\ conn[drain[d].conn] # "new"
    BY <2>1, RangeEmpty DEF BatchInv
  <2>3. of'[drain[d].conn] = of[drain[d].conn] /\ mail'[m] = mail[m]
    BY <1>1, <2>1, <2>2 DEF Forward
  <2>4. m \in stranded
    BY <1>2, <2>1, <2>3 DEF HeirInv
  <2>5. QED BY <1>1, <2>4 DEF Forward
<1>3. CASE GoesOn(drain[d], drain'[d])
  BY <1>2, <1>3 DEF GoesOn
<1>4. CASE drain[d].pc = "idle" /\ drain'[d].batch = drain[d].batch
  BY <1>4, RangeEmpty DEF BatchInv
<1>5. CASE /\ drain[d].conn \in Conns /\ conn[drain[d].conn] = "up"
           /\ UNCHANGED <<drain[d].conn, inbox, pc, mail, of, lingering>>
           /\ drain'[d].batch = inbox
  <2>1. m \in Range(inbox) /\ m \in D!Msgs
    BY <1>5, Members
  <2>2. of[drain[d].conn] > mail[m] /\ of[drain[d].conn] <= owner
    BY <1>5 DEF RoomInv
  <2>3. mail[m] \in Nat /\ owner \in Nat /\ of[drain[d].conn] \in Nat
    BY <1>5, <2>1, Numbers DEF Typed, AccountTyped, MailTyped
  <2>4. mail[m] # owner
    BY <2>2, <2>3
  <2>5. QED BY <1>1, <2>1, <2>4 DEF HeirInv, Forward
<1>6. QED BY <1>3, <1>4, <1>5, DrainStep

LEMMA HeirTaken ==
  ASSUME Typed, OfferInv, BatchInv, TakenInv, HeirInv, [Next]_vars
  PROVE  HeirsGetNothing'
<1> SUFFICES ASSUME NEW t \in taken', t[2] > mail'[t[1]]
             PROVE  t[1] \in stranded'
  BY DEF HeirsGetNothing
<1>1. Forward
  BY StepForward
<1>2. CASE t \in taken
  <2>1. t[1] \in D!Msgs /\ pc[t[1]] # "unsent"
    BY <1>2 DEF Typed, MailTyped, TakenInv
  <2>2. QED BY <1>1, <1>2, <2>1 DEF Forward, HeirInv, HeirsGetNothing
<1>3. CASE \E m \in D!Msgs, c \in Conns : flight[m][c] = "sent" /\ t = <<m, of[c]>>
  <2>1. PICK m \in D!Msgs, c \in Conns : flight[m][c] = "sent" /\ t = <<m, of[c]>>
    BY <1>3
  <2>2. pc[m] # "unsent" /\ of[c] <= mail[m]
    BY <2>1 DEF OfferInv
  <2>3. mail'[m] = mail[m]
    BY <1>1, <2>2 DEF Forward
  <2>4. mail[m] \in Nat /\ of[c] \in Nat
    BY Numbers DEF Typed, MailTyped
  <2>5. of[c] > mail[m]
    BY <2>1, <2>3
  <2>6. QED BY <2>2, <2>4, <2>5
<1>4. CASE \E d \in Drains : \E m \in Range(drain[d].batch) :
             t = <<m, of[drain[d].conn]>>
  <2>1. PICK d \in Drains : \E m \in Range(drain[d].batch) :
             t = <<m, of[drain[d].conn]>>
    BY <1>4
  <2>2. t[1] \in Range(drain[d].batch) /\ t[2] = of[drain[d].conn]
    BY <2>1
  <2>3. t[1] \in D!Msgs /\ pc[t[1]] # "unsent"
    BY <2>2, Members DEF BatchInv
  <2>4. mail'[t[1]] = mail[t[1]]
    BY <1>1, <2>3 DEF Forward
  <2>5. t[1] \in stranded
    BY <2>2, <2>4 DEF HeirInv
  <2>6. QED BY <1>1, <2>5 DEF Forward
<1>5. QED BY <1>2, <1>3, <1>4, TakenStep

(* Messages for an account are not taken by a page of a later one, but those  *)
(* that redisDeleteUser leaves in the inbox, or that redisSaveMessage keeps   *)
(* there with a TTL that is not the account's any more.                       *)
THEOREM HeirsGetNothingCorrect ==
  ASSUME "error" \notin AckStatuses
  PROVE  Spec => []HeirsGetNothing
<1>1. Init => HeirInv
  <2> SUFFICES ASSUME Init PROVE HeirInv
    OBVIOUS
  <2>1. /\ taken = {} /\ inbox = <<>>
        /\ flight = [m \in D!Msgs |-> [c \in Conns |-> "none"]]
        /\ first = [m \in D!Msgs |-> "none"]
        /\ pc = [m \in D!Msgs |-> "unsent"]
        /\ drain = [d \in Drains |-> D!NoDrain]
    BY DEF Init, D!Init
  <2>2. D!NoDrain.batch = <<>>
    BY DEF D!NoDrain
  <2>3. QED BY <2>1, <2>2, RangeEmpty DEF HeirInv, HeirsGetNothing
<1>2. OwnerInv /\ QueueInv /\ PushInv /\ HeirInv /\ [Next]_vars => HeirInv'
  <2> SUFFICES ASSUME OwnerInv, QueueInv, PushInv, HeirInv, [Next]_vars
               PROVE  HeirInv'
    OBVIOUS
  <2>1. \A m \in D!Msgs : first'[m] # "error" /\ \A c \in Conns : flight'[m][c] # "error"
    BY NoErrors DEF OwnerInv, HeirInv
  <2>2. \A m \in D!Msgs : pc'[m] = "ttl" => mail'[m] = owner' \/ user' = NoTtl
    BY HeirPush DEF OwnerInv
  <2>3. \A m \in Range(inbox') : m \in stranded' \/ mail'[m] = owner'
    BY HeirInbox DEF OwnerInv
  <2>4. \A d \in Drains : \A m \in Range(drain'[d].batch) :
          of'[drain'[d].conn] > mail'[m] => m \in stranded'
    BY HeirBatch DEF OwnerInv
  <2>5. QED BY <2>1, <2>2, <2>3, <2>4, HeirTaken DEF OwnerInv, HeirInv
<1>3. HeirInv => HeirsGetNothing
  BY DEF HeirInv
<1>4. QED BY <1>1, <1>2, <1>3, PushInvariant, PTL DEF Spec

-----------------------------------------------------------------------------
(* What becomes of accepted messages.  A message leaves the inbox when a page *)
(* has taken the batch it is in, when it has been overtaken, or with time; but *)
(* not with time while the account it is for lives.                            *)

\* A page of the account that m is for has taken it, or one left in the room.
Reached(m) == \E o \in {mail[m]} \cup lingering : <<m, o>> \in taken

\* The inbox outlives the account whose messages are in it.
KeepInv ==
  \A m \in Range(inbox) : mail[m] = owner => user # NoTtl /\ user <= keep

\* An answer "ok" says that the page has taken what was offered to it.
AnswerInv ==
  /\ \A m \in D!Msgs, c \in Conns : flight[m][c] = "ok" => <<m, of[c]>> \in taken
  /\ \A m \in D!Msgs : first[m] = "ok" => Reached(m)
  /\ \A d \in Drains :
       /\ drain[d].packet = "ok" =>
            \A m \in Range(drain[d].batch) : <<m, of[drain[d].conn]>> \in taken
       /\ drain[d].pc \in {"idle", "requested", "range"} => drain[d].packet = "none"

\* A run that may still delete the inbox has read all that is in it, but what
\* has overtaken it.
CoverInv ==
  \A d \in D!ActiveDrains : Range(inbox) \subseteq Range(drain[d].batch) \cup overtaken

KeptInv ==
  \A m \in D!Msgs : Accepted(m) /\ mail[m] = owner /\ user # Gone =>
    m \in Range(inbox) \cup overtaken \/ Reached(m)

\* What has reached its account stays there.
LEMMA ReachedStays ==
  ASSUME Typed, TakenInv, Forward
  PROVE  \A m \in D!Msgs : Reached(m) => Reached(m)'
<1> SUFFICES ASSUME NEW m \in D!Msgs, Reached(m) PROVE Reached(m)'
  OBVIOUS
<1>1. PICK o \in {mail[m]} \cup lingering : <<m, o>> \in taken
  BY DEF Reached
<1>2. pc[m] # "unsent"
  BY <1>1 DEF TakenInv
<1>3. mail'[m] = mail[m] /\ taken \subseteq taken' /\ lingering \subseteq lingering'
  BY <1>2 DEF Forward
<1>4. QED BY <1>1, <1>3 DEF Reached

\* Whoever may take m is of the account that m is for, or lingers.
LEMMA TakersReach ==
  ASSUME Typed, NEW m \in D!Msgs, NEW c \in Conns, <<m, of[c]>> \in taken,
         of[c] <= mail[m], NotEarlier(m, of[c])
  PROVE  Reached(m)
<1>1. of[c] \in Nat /\ mail[m] \in Nat
  BY Numbers DEF Typed, MailTyped
<1>2. QED BY <1>1 DEF Reached, NotEarlier

LEMMA StepKeep ==
  ASSUME Typed, OfferInv, InboxInv, PushInv, KeepInv, [Next]_vars
  PROVE  KeepInv'
<1>0. \A m \in Range(inbox) : /\ m \in D!Msgs /\ mail'[m] = mail[m]
                              /\ mail[m] <= owner /\ mail[m] \in Nat /\ owner \in Nat
  BY Members, Numbers, StepForward
     DEF Forward, InboxInv, OfferInv, Typed, AccountTyped, MailTyped
<1>1. CASE \E k \in D!Msgs : Push(k)
  <2>1. PICK k \in D!Msgs : Push(k)
    BY <1>1
  <2>2. /\ pc[k] = "ttl" /\ Range(inbox') = Range(inbox) \cup {k}
        /\ keep' = held[k] /\ UNCHANGED <<user, owner, mail>>
    BY <2>1, PushFacts
  <2>3. user <= held[k] /\ (user = NoTtl => mail[k] # owner)
    BY <2>2 DEF PushInv
  <2>4. QED BY <2>2, <2>3 DEF KeepInv
<1>2. CASE inbox' = <<>>
  BY <1>2, RangeEmpty DEF KeepInv
<1>3. CASE Tick /\ inbox' = inbox
  <2>1. user' = Aged(user) /\ keep' = Aged(keep) /\ owner' = owner
    BY <1>3 DEF Tick
  <2>2. user # NoTtl /\ user <= keep => Aged(user) # NoTtl /\ Aged(user) <= Aged(keep)
    BY Ageing DEF Typed, AccountTyped, MailTyped
  <2>3. QED BY <1>0, <1>3, <2>1, <2>2 DEF KeepInv
<1>4. CASE UNCHANGED <<inbox, keep>> /\ ~Tick
  <2>1. CASE UNCHANGED <<user, owner>>
    BY <1>0, <1>4, <2>1 DEF KeepInv
  <2>2. CASE AccountStep /\ ~UNCHANGED <<user, owner>>
    <3>1. CASE owner' = owner + 1
      BY <1>0, <1>4, <3>1 DEF KeepInv
    <3>2. CASE user = NoTtl /\ owner' = owner
      BY <1>0, <1>4, <3>2 DEF KeepInv
    <3>3. CASE user' = Gone /\ owner' = owner
      <4>1. user' # NoTtl /\ user' <= keep
        BY <3>3, Numbers DEF Typed, MailTyped, Gone, NoTtl
      <4>2. QED BY <1>4, <4>1 DEF KeepInv
    <3>4. QED BY <2>2, <3>1, <3>2, <3>3, NameStep
  <2>3. QED BY <1>4, <2>1, <2>2, NameFrame
<1>5. QED BY <1>1, <1>2, <1>3, <1>4, InboxStep

\* A socket answers "ok" when its page takes the message.
LEMMA AnswersMade ==
  ASSUME Typed, [Next]_vars, NEW m \in D!Msgs
  PROVE  /\ \A c \in Conns : flight'[m][c] = "ok" =>
              \/ flight[m][c] = "ok"
              \/ flight[m][c] # "none" /\ <<m, of[c]>> \in taken'
         /\ first'[m] = "ok" =>
              first[m] = "ok" \/ \E c \in Conns : flight[m][c] = "ok"
         /\ Accepted(m)' => Accepted(m) \/ Push(m) \/ first'[m] = "ok"
<1> USE DEF Typed, DeliveryTyped, Accepted
<1>1. ASSUME NEW k \in D!Msgs, NEW x \in Conns, NEW s \in AckStatuses,
             TakeMessage(k, x, s), NEW c \in Conns, flight'[m][c] = "ok"
      PROVE  \/ flight[m][c] = "ok"
             \/ flight[m][c] # "none" /\ <<m, of[c]>> \in taken'
  <2>1. /\ flight[k][x] = "sent" /\ flight' = [flight EXCEPT ![k][x] = s]
        /\ s = "ok" => <<k, of[x]>> \in taken'
    BY <1>1 DEF TakeMessage, D!TakeMessage
  <2>2. CASE m = k /\ c = x
    BY <1>1, <2>1, <2>2
  <2>3. CASE ~(m = k /\ c = x)
    BY <1>1, <2>1, <2>3
  <2>4. QED BY <2>2, <2>3
<1>2. ASSUME NEW k \in D!Msgs, NEW x \in Conns, Acknowledged(k, x)
      PROVE  /\ \A c \in Conns : flight'[m][c] = "ok" => flight[m][c] = "ok"
             /\ first'[m] = "ok" =>
                  first[m] = "ok" \/ \E c \in Conns : flight[m][c] = "ok"
             /\ Accepted(m)' => Accepted(m) \/ first'[m] = "ok"
  <2>1. /\ flight' = [flight EXCEPT ![k][x] = "answered"]
        /\ first' = [first EXCEPT ![k] = IF @ = "none" THEN flight[k][x] ELSE @]
    BY <1>2 DEF Acknowledged, D!AckArrives
  <2>2. pc'[k] = "acked" => first'[k] = "ok"
    BY <1>2 DEF Acknowledged, D!AckArrives, D!AskTtl
  <2>3. pc'[k] # "push" /\ \A i \in D!Msgs \ {k} : pc'[i] = pc[i]
    BY <1>2 DEF Acknowledged, D!AckArrives, D!AskTtl
  <2>4. \A c \in Conns : flight'[m][c] = "ok" => flight[m][c] = "ok"
    BY <2>1
  <2>5. QED BY <2>1, <2>2, <2>3, <2>4
<1>3. ASSUME NEW k \in D!Msgs, Send(k)
      PROVE  /\ \A c \in Conns : flight'[m][c] = "ok" => flight[m][c] = "ok"
             /\ first' = first
             /\ Accepted(m)' => Accepted(m)
  <2>1. CASE D!SendToRoom(k)
    BY <2>1 DEF D!SendToRoom
  <2>2. CASE D!SendToEmptyRoom(k)
    BY <2>2 DEF D!SendToEmptyRoom, D!AskTtl
  <2>3. QED BY <1>3, <2>1, <2>2 DEF Send
<1>4. ASSUME NEW k \in D!Msgs, Push(k) \/ HandlerEnds(k)
      PROVE  /\ UNCHANGED <<flight, first>>
             /\ Accepted(m)' => Accepted(m) \/ Push(m)
  <2>1. CASE Push(k)
    BY <2>1 DEF Push, D!Push
  <2>2. CASE HandlerEnds(k)
    BY <2>2 DEF HandlerEnds, D!AckTimeout, D!AckSender
  <2>3. QED BY <1>4, <2>1, <2>2
<1>5. CASE UNCHANGED <<flight, first, pc>>
  BY <1>5
<1>6. CASE PageStep
  <2>1. CASE \E k \in D!Msgs, x \in Conns, s \in AckStatuses : TakeMessage(k, x, s)
    <3>1. UNCHANGED <<pc, first>>
      BY <2>1 DEF TakeMessage, D!TakeMessage
    <3>2. QED BY <1>1, <2>1, <3>1
  <2>2. QED BY <1>5, <1>6, <2>1 DEF PageStep, Connect, Page, TakeBatch, D!Connect,
       D!Disconnect, D!Unmount, D!Mount, D!TakeBatch
<1>7. CASE MessageStep
  <2>1. CASE \E d \in Drains : Drain(d)
    BY <1>5, <2>1 DEF Drain, D!StartDrain, D!EmitBatch, D!DrainAckArrives,
         D!DrainTimeout, D!DrainReturns
  <2>2. CASE \E k \in D!Msgs : Send(k)
    BY <1>3, <2>2
  <2>3. CASE \E k \in D!Msgs, x \in Conns : Acknowledged(k, x)
    BY <1>2, <2>3
  <2>4. CASE \E k \in D!Msgs : Push(k) \/ HandlerEnds(k)
    BY <1>4, <2>4
  <2>5. QED BY <1>7, <2>1, <2>2, <2>3, <2>4 DEF MessageStep
<1>8. CASE AccountStep \/ Tick \/ ExpiryEvent \/ UNCHANGED vars
  BY <1>5, <1>8, AccountFrame DEF Tick, ExpiryEvent, vars, deliveryVars
<1>9. QED BY <1>6, <1>7, <1>8 DEF Next

\* The packet of a run: sent, taken by the page with the batch, or answered.
LEMMA PacketStep ==
  ASSUME Typed, [Next]_vars, NEW d \in Drains
  PROVE  \/ UNCHANGED drain[d].packet
         \/ /\ drain'[d].packet \in {"sent", "answered"}
            /\ drain'[d].pc \notin {"idle", "requested", "range"}
         \/ /\ drain[d].packet = "sent" /\ drain'[d].pc = drain[d].pc
            /\ drain'[d].packet = "ok" =>
                 \A m \in Range(drain[d].batch) : <<m, of[drain[d].conn]>> \in taken'
<1> USE DEF Typed, DeliveryTyped, D!DrainRun
<1>1. ASSUME NEW k \in Drains, NEW s \in AckStatuses, TakeBatch(k, s)
      PROVE  \/ UNCHANGED drain[d].packet
             \/ /\ drain[d].packet = "sent" /\ drain'[d].pc = drain[d].pc
                /\ drain'[d].packet = "ok" =>
                     \A m \in Range(drain[d].batch) : <<m, of[drain[d].conn]>> \in taken'
  <2>1. /\ drain' = [drain EXCEPT ![k] = [drain[k] EXCEPT !.packet = s]]
        /\ drain[k].packet = "sent"
        /\ s = "ok" => taken' = taken \cup (Range(drain[k].batch) \X {of[drain[k].conn]})
    BY <1>1 DEF TakeBatch, D!TakeBatch
  <2>2. CASE d = k
    BY <2>1, <2>2
  <2>3. CASE d # k
    BY <2>1, <2>3
  <2>4. QED BY <2>2, <2>3
<1>2. ASSUME NEW k \in Drains, NEW p, NEW q, NEW new,
             \/ new = [drain[k] EXCEPT !.pc = p]
             \/ /\ new = [drain[k] EXCEPT !.pc = p, !.packet = q]
                /\ q \in {"sent", "answered"} /\ p \in {"waiting", "del", "done"},
             drain' = [drain EXCEPT ![k] = new]
      PROVE  \/ UNCHANGED drain[d].packet
             \/ /\ drain'[d].packet \in {"sent", "answered"}
                /\ drain'[d].pc \notin {"idle", "requested", "range"}
  <2>1. CASE d = k
    BY <1>2, <2>1
  <2>2. CASE d # k
    BY <1>2, <2>2
  <2>3. QED BY <2>1, <2>2
<1>3. ASSUME NEW k \in Drains, D!EmitBatch(k) \/ D!DrainAckArrives(k)
                               \/ D!DrainTimeout(k) \/ D!DrainReturns(k)
      PROVE  \E p, q : \/ drain' = [drain EXCEPT ![k] = [drain[k] EXCEPT !.pc = p]]
                       \/ /\ drain' = [drain EXCEPT ![k] =
                                         [drain[k] EXCEPT !.pc = p, !.packet = q]]
                          /\ q \in {"sent", "answered"} /\ p \in {"waiting", "del", "done"}
  BY <1>3 DEF D!EmitBatch, D!DrainAckArrives, D!DrainTimeout, D!DrainReturns
<1>4. ASSUME NEW k \in Drains, NEW p, NEW b, NEW c, NEW new,
             new \in {[drain[k] EXCEPT !.pc = p, !.batch = b],
                      [drain[k] EXCEPT !.pc = p, !.conn = c]},
             drain' = [drain EXCEPT ![k] = new]
      PROVE  UNCHANGED drain[d].packet
  <2>1. CASE d = k
    BY <1>4, <2>1
  <2>2. CASE d # k
    BY <1>4, <2>2
  <2>3. QED BY <2>1, <2>2
<1>5. CASE \E c \in Conns, k \in Drains : D!Mount(c, k)
  <2>1. PICK c \in Conns, k \in Drains :
          drain' = [drain EXCEPT ![k] = [drain[k] EXCEPT !.pc = "requested", !.conn = c]]
    BY <1>5 DEF D!Mount
  <2>2. UNCHANGED drain[d].packet
    BY <1>4, <2>1
  <2>3. QED BY <2>2
<1>6. CASE \E k \in Drains : D!StartDrain(k)
  <2>1. PICK k \in Drains :
          drain' = [drain EXCEPT ![k] = [drain[k] EXCEPT !.pc = "range", !.batch = inbox]]
    BY <1>6 DEF D!StartDrain
  <2>2. UNCHANGED drain[d].packet
    BY <1>4, <2>1
  <2>3. QED BY <2>2
<1>7. CASE \E k \in Drains : D!EmitBatch(k) \/ D!DrainAckArrives(k)
                             \/ D!DrainTimeout(k) \/ D!DrainReturns(k)
  BY <1>2, <1>3, <1>7
<1>8. CASE UNCHANGED drain
  BY <1>8
<1>9. QED
  <2>1. CASE PageStep
    BY <1>1, <1>5, <1>8, <2>1 DEF PageStep, Connect, Page, TakeMessage, D!Connect,
       D!Disconnect, D!Unmount, D!TakeMessage
  <2>2. CASE MessageStep
    BY <1>6, <1>7, <1>8, <2>2 DEF MessageStep, Send, Acknowledged, Push, HandlerEnds,
       Drain, D!SendToRoom, D!SendToEmptyRoom, D!AckArrives, D!Push, D!AckTimeout,
       D!AckSender
  <2>3. CASE AccountStep \/ Tick \/ ExpiryEvent \/ UNCHANGED vars
    BY <1>8, <2>3, AccountFrame DEF Tick, ExpiryEvent, vars, deliveryVars
  <2>4. QED BY <2>1, <2>2, <2>3 DEF Next

\* What leaves the inbox, and what is overtaken.
LEMMA InboxLeaves ==
  ASSUME Typed, [Next]_vars
  PROVE  /\ overtaken \subseteq overtaken'
         /\ \A m \in D!Msgs : Push(m) /\ D!ActiveDrains # {} => m \in overtaken'
         /\ \/ Range(inbox) \subseteq Range(inbox')
            \/ \E d \in Drains : drain[d].pc = "waiting" /\ drain[d].packet = "ok"
            \/ Tick /\ keep = 1
<1>1. \A m \in D!Msgs : Push(m) =>
        /\ overtaken' = IF D!ActiveDrains # {} THEN overtaken \cup {m} ELSE overtaken
        /\ Range(inbox) \subseteq Range(inbox')
  BY PushFacts DEF Push, D!Push
<1>2. CASE \E m \in D!Msgs : Push(m)
  BY <1>1, <1>2
<1>3. CASE PageStep
  BY <1>1, <1>3 DEF PageStep, Connect, Page, TakeMessage, TakeBatch, D!historyVars,
     D!Connect, D!Disconnect, D!Unmount, D!Mount, D!TakeMessage, D!TakeBatch
<1>4. CASE MessageStep /\ ~\E m \in D!Msgs : Push(m)
  <2>1. CASE \E d \in Drains : Drain(d)
    BY <1>4, <2>1 DEF Drain, D!historyVars, D!StartDrain, D!EmitBatch,
       D!DrainAckArrives, D!DrainTimeout, D!DrainReturns
  <2>2. CASE \E m \in D!Msgs :
               Send(m) \/ HandlerEnds(m) \/ \E c \in Conns : Acknowledged(m, c)
    BY <1>4, <2>2 DEF Send, HandlerEnds, Acknowledged, D!historyVars, D!SendToRoom,
       D!SendToEmptyRoom, D!AckArrives, D!AckTimeout, D!AckSender
  <2>3. QED BY <1>4, <2>1, <2>2 DEF MessageStep
<1>5. CASE AccountStep \/ Tick \/ ExpiryEvent \/ UNCHANGED vars
  BY <1>1, <1>5, AccountFrame DEF Tick, ExpiryEvent, vars, deliveryVars
<1>6. QED BY <1>2, <1>3, <1>4, <1>5 DEF Next

LEMMA StepAnswer ==
  ASSUME Typed, OfferInv, BatchInv, TakenInv, AnswerInv, [Next]_vars
  PROVE  AnswerInv'
<1>1. Forward
  BY StepForward
<1>2. ASSUME NEW m \in D!Msgs, NEW c \in Conns, flight'[m][c] = "ok"
      PROVE  <<m, of'[c]>> \in taken'
  <2>1. flight[m][c] # "none" /\ <<m, of[c]>> \in taken'
    BY <1>1, <1>2, AnswersMade DEF AnswerInv, Forward
  <2>2. of'[c] = of[c]
    BY <1>1, <2>1 DEF OfferInv, Forward
  <2>3. QED BY <2>1, <2>2
<1>3. ASSUME NEW m \in D!Msgs, first'[m] = "ok"
      PROVE  Reached(m)'
  <2>1. CASE first[m] = "ok"
    BY <1>1, <2>1, ReachedStays DEF AnswerInv
  <2>2. CASE \E c \in Conns : flight[m][c] = "ok"
    <3>1. PICK c \in Conns : flight[m][c] = "ok"
      BY <2>2
    <3>2. <<m, of[c]>> \in taken /\ of[c] <= mail[m] /\ NotEarlier(m, of[c])
      BY <3>1 DEF AnswerInv, OfferInv
    <3>3. QED BY <1>1, <3>2, TakersReach, ReachedStays
  <2>3. QED BY <1>3, <2>1, <2>2, AnswersMade
<1>4. ASSUME NEW d \in Drains
      PROVE  /\ drain'[d].packet = "ok" =>
                  \A m \in Range(drain'[d].batch) : <<m, of'[drain'[d].conn]>> \in taken'
             /\ drain'[d].pc \in {"idle", "requested", "range"} => drain'[d].packet = "none"
  <2>1. drain[d].pc \in {"idle", "requested", "range"} => drain[d].packet = "none"
    BY DEF AnswerInv
  <2>2. ASSUME drain'[d].pc \in {"idle", "requested", "range"}
        PROVE  drain'[d].packet = "none"
    <3>1. drain[d].pc \in {"idle", "requested", "range"}
      BY <2>2, DrainStep DEF GoesOn
    <3>2. QED BY <2>1, <2>2, <3>1, PacketStep
  <2>3. ASSUME drain'[d].packet = "ok", NEW m \in Range(drain'[d].batch)
        PROVE  <<m, of'[drain'[d].conn]>> \in taken'
    <3>1. drain'[d].pc \notin {"idle", "requested", "range"}
      BY <2>2, <2>3
    <3>2. drain'[d].conn = drain[d].conn /\ drain'[d].batch = drain[d].batch
          /\ drain[d].pc # "idle"
      BY <3>1, DrainStep DEF GoesOn
    <3>3. of'[drain'[d].conn] = of[drain[d].conn]
      BY <1>1, <3>2 DEF BatchInv, Forward
    <3>4. <<m, of[drain[d].conn]>> \in taken'
      BY <1>1, <2>3, <3>2, PacketStep DEF AnswerInv, Forward
    <3>5. QED BY <3>3, <3>4
  <2>4. QED BY <2>2, <2>3
<1>5. QED BY <1>2, <1>3, <1>4 DEF AnswerInv

LEMMA StepCover ==
  ASSUME Typed, CoverInv, [Next]_vars
  PROVE  CoverInv'
<1> SUFFICES ASSUME NEW d \in Drains, drain'[d].pc \in {"range", "waiting"},
                    NEW m \in Range(inbox')
             PROVE  m \in Range(drain'[d].batch) \cup overtaken'
  BY DEF CoverInv, D!ActiveDrains
<1>1. CASE drain'[d].batch = inbox /\ UNCHANGED inbox
  BY <1>1
<1>2. CASE GoesOn(drain[d], drain'[d])
  <2>1. d \in D!ActiveDrains /\ drain'[d].batch = drain[d].batch
    BY <1>2 DEF GoesOn, D!ActiveDrains
  <2>2. Range(inbox) \subseteq Range(drain'[d].batch) \cup overtaken'
    BY <2>1, InboxLeaves DEF CoverInv
  <2>3. CASE m \in Range(inbox)
    BY <2>2, <2>3
  <2>4. CASE m \notin Range(inbox)
    <3>1. PICK k \in D!Msgs : Push(k)
      <4>1. inbox' # inbox /\ inbox' # <<>>
        BY <2>4, RangeEmpty
      <4>2. QED BY <4>1, InboxStep
    <3>2. m = k
      BY <2>4, <3>1, PushFacts
    <3>3. QED BY <2>1, <3>1, <3>2, InboxLeaves
  <2>5. QED BY <2>3, <2>4
<1>3. QED BY <1>1, <1>2, DrainStep

LEMMA StepKept ==
  ASSUME Typed, RoomInv, OfferInv, BatchInv, TakenInv, KeepInv, AnswerInv, CoverInv,
         KeptInv, [Next]_vars
  PROVE  KeptInv'
<1> SUFFICES ASSUME NEW m \in D!Msgs, Accepted(m)', mail'[m] = owner', user' # Gone
             PROVE  m \in Range(inbox') \cup overtaken' \/ Reached(m)'
  BY DEF KeptInv
<1>0. Forward /\ (Reached(m) => Reached(m)') /\ owner \in Nat /\ mail[m] \in Nat
  BY StepForward, ReachedStays, Numbers DEF Typed, AccountTyped, MailTyped
<1>1. CASE Push(m)
  BY <1>1, PushFacts
<1>2. CASE first'[m] = "ok"
  BY <1>2, StepAnswer DEF AnswerInv
<1>3. CASE Accepted(m)
  <2>1. mail'[m] = mail[m] /\ mail[m] <= owner
    BY <1>0, <1>3 DEF Accepted, Forward, OfferInv
  <2>2. owner' = owner /\ user # Gone
    <3>1. CASE UNCHANGED <<user, owner>>
      BY <3>1
    <3>2. CASE Tick
      <4>1. user' = Aged(user) /\ owner' = owner
        BY <3>2 DEF Tick
      <4>2. QED BY <4>1, Ageing DEF Typed, AccountTyped
    <3>3. CASE AccountStep /\ ~UNCHANGED <<user, owner>>
      <4>1. owner' # owner + 1
        BY <1>0, <2>1
      <4>2. QED BY <3>3, <4>1, NameStep, Numbers DEF Gone, NoTtl
    <3>4. QED BY <3>1, <3>2, <3>3, NameFrame
  <2>3. m \in Range(inbox) \cup overtaken \/ Reached(m)
    BY <1>3, <2>1, <2>2 DEF KeptInv
  <2>4. CASE m \in overtaken \/ Reached(m)
    BY <1>0, <2>4, InboxLeaves
  <2>5. CASE m \in Range(inbox)
    <3>1. CASE Range(inbox) \subseteq Range(inbox')
      BY <2>5, <3>1
    <3>2. CASE \E d \in Drains : drain[d].pc = "waiting" /\ drain[d].packet = "ok"
      <4>1. PICK d \in Drains : drain[d].pc = "waiting" /\ drain[d].packet = "ok"
        BY <3>2
      <4>2. m \in Range(drain[d].batch) \/ m \in overtaken
        BY <2>5, <4>1 DEF CoverInv, D!ActiveDrains
      <4>3. CASE m \in Range(drain[d].batch)
        <5>1. drain[d].conn \in Conns /\ NotEarlier(m, of[drain[d].conn])
          BY <4>1, <4>3 DEF BatchInv
        <5>2. <<m, of[drain[d].conn]>> \in taken
          BY <4>1, <4>3 DEF AnswerInv
        <5>3. of[drain[d].conn] <= mail[m]
          BY <2>1, <2>2, <5>1 DEF RoomInv
        <5>4. QED BY <1>0, <5>1, <5>2, <5>3, TakersReach
      <4>4. QED BY <2>4, <4>2, <4>3
    <3>3. CASE Tick /\ keep = 1
      <4>1. user # NoTtl /\ user <= 1
        BY <2>1, <2>2, <2>5, <3>3 DEF KeepInv
      <4>2. user = 1
        BY <2>2, <4>1, Numbers DEF Typed, AccountTyped
      <4>3. user' = Gone
        BY <3>3, <4>2 DEF Tick, Aged
      <4>4. QED BY <4>3
    <3>4. QED BY <3>1, <3>2, <3>3, InboxLeaves
  <2>6. QED BY <2>3, <2>4, <2>5
<1>4. QED BY <1>1, <1>2, <1>3, AnswersMade

(* A message that its sender knows accepted, and whose account lives, waits in *)
(* the inbox, has been overtaken by a drain, or was taken by a page of that     *)
(* account or by one left in the room (messages.service.ts:51-70,               *)
(* inbox.handler.ts:22-61), whatever the pages answer.                          *)
THEOREM AckedReachesOwnerCorrect == Spec => []AckedReachesOwner
<1> DEFINE Inv == /\ OwnerInv /\ QueueInv /\ PushInv
                  /\ KeepInv /\ AnswerInv /\ CoverInv /\ KeptInv
<1>1. Init => Inv
  <2> SUFFICES ASSUME Init PROVE KeepInv /\ AnswerInv /\ CoverInv /\ KeptInv
    BY InitOwner, InitPush
  <2>1. /\ inbox = <<>>
        /\ flight = [m \in D!Msgs |-> [c \in Conns |-> "none"]]
        /\ first = [m \in D!Msgs |-> "none"]
        /\ pc = [m \in D!Msgs |-> "unsent"]
        /\ drain = [d \in Drains |-> D!NoDrain]
    BY DEF Init, D!Init
  <2>2. D!NoDrain.pc = "idle" /\ D!NoDrain.packet = "none"
    BY DEF D!NoDrain
  <2>3. AnswerInv
    BY <2>1, <2>2 DEF AnswerInv
  <2>4. KeepInv /\ CoverInv /\ KeptInv
    BY <2>1, <2>2, RangeEmpty DEF KeepInv, CoverInv, KeptInv, Accepted, D!ActiveDrains
  <2>5. QED BY <2>3, <2>4
<1>2. Inv /\ [Next]_vars => Inv'
  <2> SUFFICES ASSUME Inv, [Next]_vars PROVE Inv'
    OBVIOUS
  <2>1. (OwnerInv /\ QueueInv /\ PushInv)'
    BY StepOwner, StepQueue, StepPush DEF OwnerInv
  <2>2. KeepInv' /\ AnswerInv' /\ CoverInv' /\ KeptInv'
    BY StepKeep, StepAnswer, StepCover, StepKept DEF OwnerInv
  <2>3. QED BY <2>1, <2>2
<1>3. Inv => AckedReachesOwner
  <2> SUFFICES ASSUME KeptInv, NEW m \in D!Msgs,
                      pc[m] = "acked", mail[m] = owner, user > 0
               PROVE  \/ m \in Range(inbox) \cup overtaken
                      \/ \E o \in {owner} \cup lingering : <<m, o>> \in taken
    BY DEF AckedReachesOwner
  <2>1. Accepted(m) /\ user # Gone
    BY DEF Accepted, Gone
  <2>2. QED BY <2>1 DEF KeptInv, Reached
<1>4. QED BY <1>1, <1>2, <1>3, PTL DEF Spec
=============================================================================
