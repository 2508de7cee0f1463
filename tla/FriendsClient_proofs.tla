------------------------ MODULE FriendsClient_proofs ------------------------
(***************************************************************************)
(* Theorems about FriendsClient, for every number of peers, clicks, moves  *)
(* and lost connections.                                                   *)
(***************************************************************************)
EXTENDS FriendsClient, Queue_proofs

-----------------------------------------------------------------------------
(* Packets.  What a step does to the two channels is stated once, in terms  *)
(* of what is under way.                                                    *)

Packet(type, p) == [type |-> type, peer |-> p]

Sent(type, p) == Packet(type, p) \in Range(toServer)
Due(type, p) == Packet(type, p) \in Range(toPage)

\* Packets are the same if they say the same.
LEMMA SamePacket ==
  \A t, u, p, q : Packet(t, p) = Packet(u, q) <=> t = u /\ p = q
<1> SUFFICES ASSUME NEW t, NEW u, NEW p, NEW q, Packet(t, p) = Packet(u, q)
             PROVE  t = u /\ p = q
  OBVIOUS
<1>1. Packet(t, p).type = t /\ Packet(t, p).peer = p
  BY DEF Packet
<1>2. Packet(u, q).type = u /\ Packet(u, q).peer = q
  BY DEF Packet
<1>3. QED BY <1>1, <1>2

\* The page emits.
LEMMA Emits ==
  ASSUME TypeOK, NEW p \in Peers, NEW type \in {"request", "accept", "decline"},
         Emit(type, p)
  PROVE  /\ toServer' \in Seq(Requests)
         /\ \A t, q : Sent(t, q)' <=> Sent(t, q) \/ (t = type /\ q = p)
         /\ \A t, q : Due(t, q)' <=> Due(t, q)
<1>1. Packet(type, p) \in Requests /\ toServer \in Seq(Requests)
  BY DEF Packet, Requests, TypeOK
<1>2. toServer' = Append(toServer, Packet(type, p)) /\ toPage' = toPage
  BY DEF Emit, Packet
<1>3. /\ toServer' \in Seq(Requests)
      /\ Range(toServer') = Range(toServer) \cup {Packet(type, p)}
  BY <1>1, <1>2, RangeAppend
<1>4. QED BY <1>2, <1>3, SamePacket DEF Sent, Due

\* The server takes a packet of the page.
LEMMA Takes ==
  ASSUME TypeOK, NEW p \in Peers, NEW type, Receives(type, p)
  PROVE  /\ toServer' \in Seq(Requests)
         /\ \A t, q : Sent(t, q) <=> Sent(t, q)' \/ (t = type /\ q = p)
<1>1. /\ toServer \in Seq(Requests) /\ toServer # <<>>
      /\ Head(toServer) = Packet(type, p)
      /\ toServer' = Tail(toServer)
  BY DEF Receives, Packet, TypeOK
<1>2. /\ Tail(toServer) \in Seq(Requests)
      /\ Range(toServer) = Range(Tail(toServer)) \cup {Head(toServer)}
  BY <1>1, RangeHeadTail
<1>3. QED BY <1>1, <1>2, SamePacket DEF Sent

\* The server emits to the user's room.
LEMMA Notifies ==
  ASSUME TypeOK, NEW p \in Peers,
         NEW type \in {"incoming", "accepted", "rejected", "nouser", "notfound"},
         \/ Notify(type, p)
         \/ link /\ toPage' = Append(toPage, Packet(type, p))
  PROVE  /\ toPage' \in Seq(Events)
         /\ link => \A t, q : Due(t, q)' <=> Due(t, q) \/ (t = type /\ q = p)
         /\ ~link => \A t, q : Due(t, q)' <=> Due(t, q)
<1>1. Packet(type, p) \in Events /\ toPage \in Seq(Events) /\ link \in BOOLEAN
  BY DEF Packet, Events, TypeOK
<1>2. CASE link
  <2>1. toPage' = Append(toPage, Packet(type, p))
    BY <1>2 DEF Notify, Packet
  <2>2. /\ toPage' \in Seq(Events)
        /\ Range(toPage') = Range(toPage) \cup {Packet(type, p)}
    BY <1>1, <2>1, RangeAppend
  <2>3. QED BY <1>2, <2>2, SamePacket DEF Due
<1>3. CASE ~link
  <2>1. toPage' = toPage
    BY <1>3 DEF Notify
  <2>2. QED BY <1>1, <1>3, <2>1 DEF Due
<1>4. QED BY <1>1, <1>2, <1>3

\* The page hears an event.
LEMMA HearsOne ==
  ASSUME TypeOK, NEW p \in Peers, NEW type, Hears(type, p)
  PROVE  /\ toPage' \in Seq(Events)
         /\ \A t, q : Due(t, q) <=> Due(t, q)' \/ (t = type /\ q = p)
         /\ \A t, q : Sent(t, q)' <=> Sent(t, q)
<1>1. /\ toPage \in Seq(Events) /\ toPage # <<>>
      /\ Head(toPage) = Packet(type, p)
      /\ toPage' = Tail(toPage)
      /\ toServer' = toServer
  BY DEF Hears, Packet, TypeOK
<1>2. /\ Tail(toPage) \in Seq(Events)
      /\ Range(toPage) = Range(Tail(toPage)) \cup {Head(toPage)}
  BY <1>1, RangeHeadTail
<1>3. QED BY <1>1, <1>2, SamePacket DEF Sent, Due

\* The channels stay as they are.
LEMMA SamePackets ==
  ASSUME UNCHANGED <<toServer, toPage>>
  PROVE  \A t, q : (Sent(t, q)' <=> Sent(t, q)) /\ (Due(t, q)' <=> Due(t, q))
BY DEF Sent, Due

\* Nothing is under way in an empty channel.
LEMMA NoPackets ==
  /\ toServer = <<>> => \A t, q : ~Sent(t, q)
  /\ toPage = <<>> => \A t, q : ~Due(t, q)
BY RangeEmpty DEF Sent, Due

\* What a step blames is remembered.
LEMMA Blames ==
  ASSUME TypeOK, NEW S, NEW what \in Mishaps
  PROVE  /\ Blame(S, what) \in [Peers -> SUBSET Mishaps]
         /\ \A p \in Peers : /\ mishap[p] \subseteq Blame(S, what)[p]
                             /\ p \in S => what \in Blame(S, what)[p]
BY DEF Blame, TypeOK

\* A lost connection is blamed for all that was under way.
LEMMA DropBlames ==
  ASSUME TypeOK, Drop, NEW p \in Peers
  PROVE  /\ mishap[p] \subseteq mishap'[p]
         /\ \A t : Sent(t, p) => "lost" \in mishap'[p]
         /\ \A t : Due(t, p) => Missed \in mishap'[p]
         /\ \A t, q : ~Sent(t, q)' /\ ~Due(t, q)'
<1>1. \A t : (Sent(t, p) => p \in PeersOf(toServer)) /\ (Due(t, p) => p \in PeersOf(toPage))
  BY DEF PeersOf, Sent, Due, Packet
<1>2. mishap'[p] = mishap[p] \cup (IF p \in PeersOf(toServer) THEN {"lost"} ELSE {})
                             \cup (IF p \in PeersOf(toPage) THEN {Missed} ELSE {})
  BY DEF Drop
<1>3. Range(toServer') = {} /\ Range(toPage') = {}
  BY RangeEmpty DEF Drop
<1>4. QED BY <1>1, <1>2, <1>3 DEF Sent, Due

-----------------------------------------------------------------------------
(* Type correctness.                                                        *)

Lists == [friends : SUBSET Peers, incoming : SUBSET Peers, outgoing : SUBSET Peers]

LEMMA TypeInit == Init => TypeOK
BY BoundsAssumption DEF Init, TypeOK

LEMMA TypeLoad == TypeOK /\ LoadStep => TypeOK'
<1> SUFFICES ASSUME TypeOK, LoadStep PROVE TypeOK'
  OBVIOUS
<1> USE DEF TypeOK, serverVars, boundVars
<1>1. CASE AnswerFriends \/ AnswerRequests
  <2>1. <<mates>> \in Seq(SUBSET Peers) /\ <<theirs>> \in Seq(SUBSET Peers)
    OBVIOUS
  <2>2. fetch' \in [friends : Seq(SUBSET Peers), requests : Seq(SUBSET Peers)]
    BY <1>1, <2>1 DEF AnswerFriends, AnswerRequests
  <2>3. QED BY <1>1, <2>2 DEF AnswerFriends, AnswerRequests
<1>2. CASE Load
  <2>1. Head(fetch.friends) \subseteq Peers /\ Head(fetch.requests) \subseteq Peers
    <3>1. /\ fetch.friends \in Seq(SUBSET Peers) /\ fetch.friends # <<>>
          /\ fetch.requests \in Seq(SUBSET Peers) /\ fetch.requests # <<>>
      BY <1>2 DEF Load
    <3>2. QED BY <3>1, RangeHeadTail
  <2>2. mishap' \in [Peers -> SUBSET Mishaps]
    <3>1. "overwritten" \in Mishaps
      BY DEF Mishaps
    <3>2. QED BY <1>2, <3>1, Blames DEF Load
  <2>3. QED BY <1>2, <2>1, <2>2 DEF Load
<1>3. CASE LoadFails \/ SyncRef
  BY <1>3 DEF LoadFails, SyncRef
<1>4. QED BY <1>1, <1>2, <1>3 DEF LoadStep

LEMMA TypeUser ==
  ASSUME TypeOK, NEW p \in Peers, UserStep(p)
  PROVE  TypeOK'
<1>1. PICK type \in {"request", "accept", "decline"} : Emit(type, p)
  BY DEF UserStep, SendFriendRequest, AcceptRequest, DeclineRequest
<1>2. toServer' \in Seq(Requests)
  BY <1>1, Emits
<1>3. /\ view' \in Lists
      /\ lastOp' \in {NoOp} \cup [type : {"request", "accept"}, peer : Peers]
  <2>1. view \in Lists
    BY DEF TypeOK, Lists
  <2>2. CASE SendFriendRequest(p)
    BY <2>1, <2>2 DEF SendFriendRequest, Lists
  <2>3. CASE AcceptRequest(p)
    BY <2>1, <2>3 DEF AcceptRequest, Lists
  <2>4. CASE DeclineRequest(p)
    BY <2>1, <2>4 DEF DeclineRequest, Lists, TypeOK
  <2>5. QED BY <2>2, <2>3, <2>4 DEF UserStep
<1>4. mishap' \in [Peers -> SUBSET Mishaps]
  <2>1. "crossed" \in Mishaps
    BY DEF Mishaps
  <2>2. QED
    BY <2>1, Blames
       DEF UserStep, SendFriendRequest, AcceptRequest, DeclineRequest, TypeOK
<1>5. clicks' \in 0..MaxClicks
  BY <1>1, BoundsAssumption DEF Emit, TypeOK
<1>6. QED BY <1>1, <1>2, <1>3, <1>4, <1>5 DEF Emit, TypeOK, serverVars, Lists

LEMMA TypeServer ==
  ASSUME TypeOK, NEW p \in Peers, ServerStep(p)
  PROVE  TypeOK'
<1>1. {"refused", "ended", Missed} \subseteq Mishaps
  BY DEF Mishaps, Missed
<1>2. mishap' \in [Peers -> SUBSET Mishaps]
  <2>1. \/ mishap' = mishap
        \/ \E what \in Mishaps, S \in SUBSET Peers : mishap' = Blame(S, what)
    BY <1>1
       DEF ServerStep, ServerRequest, ServerAccept, ServerDecline, PeerAsks,
           PeerAccepts, PeerDeclines, PeerLeaves, PeerSignsUp, Notify
  <2>2. QED BY <2>1, Blames DEF TypeOK
<1>3. toPage' \in Seq(Events)
  <2>1. \/ toPage' = toPage
        \/ \E type \in {"incoming", "accepted", "rejected", "nouser", "notfound"} :
             \/ Notify(type, p)
             \/ link /\ toPage' = Append(toPage, Packet(type, p))
    BY DEF ServerStep, ServerRequest, ServerAccept, ServerDecline, PeerAsks,
           PeerAccepts, PeerDeclines, PeerLeaves, PeerSignsUp, Receives, Packet
  <2>2. QED BY <2>1, Notifies DEF TypeOK
<1>4. CASE ServerRequest(p) \/ ServerAccept(p) \/ ServerDecline(p)
  <2>1. PICK type \in {"request", "accept", "decline"} : Receives(type, p)
    BY <1>4 DEF ServerRequest, ServerAccept, ServerDecline
  <2>2. toServer' \in Seq(Requests)
    BY <2>1, Takes
  <2>3. mine' \subseteq Peers /\ theirs' \subseteq Peers /\ mates' \subseteq Peers
    BY <1>4 DEF ServerRequest, ServerAccept, ServerDecline, TypeOK
  <2>4. QED BY <1>2, <1>3, <2>1, <2>2, <2>3 DEF Receives, TypeOK, pageVars, boundVars
<1>5. CASE \/ PeerAsks(p) \/ PeerAccepts(p) \/ PeerDeclines(p)
           \/ PeerLeaves(p) \/ PeerSignsUp(p)
  <2>1. mine' \subseteq Peers /\ theirs' \subseteq Peers /\ mates' \subseteq Peers
    BY <1>5 DEF PeerAsks, PeerAccepts, PeerDeclines, PeerLeaves, PeerSignsUp, TypeOK
  <2>2. Moves /\ accounts' \subseteq Peers
    BY <1>5 DEF PeerAsks, PeerAccepts, PeerDeclines, PeerLeaves, PeerSignsUp, Acts,
                TypeOK
  <2>3. moves' \in 0..MaxMoves
    BY <2>2, BoundsAssumption DEF Acts, Moves, TypeOK
  <2>4. QED BY <1>2, <1>3, <2>1, <2>2, <2>3 DEF Acts, Moves, TypeOK, pageVars
<1>6. QED BY <1>4, <1>5 DEF ServerStep

LEMMA TypeEvent ==
  ASSUME TypeOK, NEW p \in Peers, EventStep(p)
  PROVE  TypeOK'
<1>1. PICK type : Hears(type, p)
  BY DEF EventStep, HandleFriendIncoming, HandleFriendAccepted, HandleFriendRejected,
         HandleFriendError
<1>2. toPage' \in Seq(Events)
  BY <1>1, HearsOne
<1>3. view' \in Lists
  <2>1. view \in Lists
    BY DEF TypeOK, Lists
  <2>2. CASE HandleFriendIncoming(p)
    BY <2>1, <2>2 DEF HandleFriendIncoming, Lists
  <2>3. CASE HandleFriendAccepted(p)
    BY <2>1, <2>3 DEF HandleFriendAccepted, Lists
  <2>4. CASE HandleFriendRejected(p)
    BY <2>1, <2>4 DEF HandleFriendRejected, Lists
  <2>5. CASE HandleFriendError(p)
    BY <2>1, <2>5 DEF HandleFriendError, Lists
  <2>6. QED BY <2>2, <2>3, <2>4, <2>5 DEF EventStep
<1>4. lastOp' \in {NoOp, lastOp}
  BY DEF EventStep, HandleFriendIncoming, HandleFriendAccepted, HandleFriendRejected,
         HandleFriendError, Answered
<1>5. QED BY <1>1, <1>2, <1>3, <1>4 DEF Hears, TypeOK, Lists, serverVars, boundVars

LEMMA TypeConnection == TypeOK /\ (Drop \/ Reconnect) => TypeOK'
<1> SUFFICES ASSUME TypeOK, Drop \/ Reconnect PROVE TypeOK'
  OBVIOUS
<1>1. CASE Drop
  <2>1. "lost" \in Mishaps /\ Missed \in Mishaps
    BY DEF Mishaps, Missed
  <2>2. mishap' \in [Peers -> SUBSET Mishaps]
    BY <1>1, <2>1 DEF Drop, TypeOK
  <2>3. drops' \in 0..MaxDrops
    BY <1>1, BoundsAssumption DEF Drop, TypeOK
  <2>4. toServer' \in Seq(Requests) /\ toPage' \in Seq(Events)
    BY <1>1 DEF Drop
  <2>5. QED BY <1>1, <2>2, <2>3, <2>4 DEF Drop, TypeOK, serverVars, pageVars
<1>2. CASE Reconnect
  BY <1>2 DEF Reconnect, TypeOK, serverVars, pageVars, boundVars
<1>3. QED BY <1>1, <1>2

LEMMA TypeNext == TypeOK /\ [Next]_vars => TypeOK'
<1> SUFFICES ASSUME TypeOK, [Next]_vars PROVE TypeOK'
  OBVIOUS
<1>1. CASE UNCHANGED vars
  BY <1>1 DEF TypeOK, vars
<1>2. QED BY <1>1, TypeLoad, TypeUser, TypeServer, TypeEvent, TypeConnection DEF Next

\* TypeOK: what the server, the channels and the page's lists can hold.
THEOREM TypeCorrect == Spec => []TypeOK
<1>1. QED BY TypeInit, TypeNext, PTL DEF Spec

-----------------------------------------------------------------------------
(* What every step respects.                                                *)

\* Friends of the user stay friends, and nothing that went wrong is forgotten.
LEMMA Grows ==
  ASSUME TypeOK, [Next]_vars
  PROVE  /\ mates \subseteq mates'
         /\ \A p \in Peers : mishap[p] \subseteq mishap'[p]
<1>1. CASE Drop
  BY <1>1, DropBlames DEF Drop, serverVars
<1>2. ASSUME NEW p \in Peers, ServerStep(p)
      PROVE  /\ mates \subseteq mates'
             /\ \A q \in Peers : mishap[q] \subseteq mishap'[q]
  <2>1. \/ mishap' = mishap
        \/ \E what \in Mishaps, S \in SUBSET Peers : mishap' = Blame(S, what)
    <3>1. {"refused", "ended", Missed} \subseteq Mishaps
      BY DEF Mishaps, Missed
    <3>2. QED
      BY <1>2, <3>1
         DEF ServerStep, ServerRequest, ServerAccept, ServerDecline, PeerAsks,
             PeerAccepts, PeerDeclines, PeerLeaves, PeerSignsUp, Notify
  <2>2. mates \subseteq mates'
    BY <1>2 DEF ServerStep, ServerRequest, ServerAccept, ServerDecline, PeerAsks,
                PeerAccepts, PeerDeclines, PeerLeaves, PeerSignsUp
  <2>3. QED BY <2>1, <2>2, Blames
<1>3. ASSUME NEW p \in Peers, UserStep(p) \/ EventStep(p)
      PROVE  /\ mates' = mates
             /\ \/ mishap' = mishap
                \/ \E S : mishap' = Blame(S, "crossed")
  BY <1>3
     DEF UserStep, SendFriendRequest, AcceptRequest, DeclineRequest, Emit, EventStep,
         HandleFriendIncoming, HandleFriendAccepted, HandleFriendRejected,
         HandleFriendError, Hears, serverVars
<1>4. CASE LoadStep \/ Reconnect \/ UNCHANGED vars
  <2>1. /\ mates' = mates
        /\ \/ mishap' = mishap
           \/ \E S : mishap' = Blame(S, "overwritten")
    BY <1>4 DEF LoadStep, AnswerFriends, AnswerRequests, Load, LoadFails, SyncRef,
                Reconnect, vars, serverVars
  <2>2. QED BY <2>1, Blames DEF Mishaps
<1>5. \A S : \A p \in Peers : mishap[p] \subseteq Blame(S, "crossed")[p]
  BY Blames DEF Mishaps
<1>6. QED BY <1>1, <1>2, <1>3, <1>4, <1>5 DEF Next

\* A packet of the page leaves the channel when the server handles it, or when
\* the connection is lost.
LEMMA SentLeaves ==
  ASSUME TypeOK, [Next]_vars, NEW p \in Peers, NEW type, Sent(type, p), ~Sent(type, p)'
  PROVE  \/ type = "request" /\ ServerRequest(p)
         \/ type = "accept" /\ ServerAccept(p)
         \/ type = "decline" /\ ServerDecline(p)
         \/ Drop /\ "lost" \in mishap'[p]
<1>1. CASE Drop
  BY <1>1, DropBlames
<1>2. ASSUME NEW q \in Peers, ServerStep(q)
      PROVE  \/ type = "request" /\ ServerRequest(p)
             \/ type = "accept" /\ ServerAccept(p)
             \/ type = "decline" /\ ServerDecline(p)
  <2>1. CASE \/ PeerAsks(q) \/ PeerAccepts(q) \/ PeerDeclines(q)
           \/ PeerLeaves(q) \/ PeerSignsUp(q)
    BY <2>1 DEF PeerAsks, PeerAccepts, PeerDeclines, PeerLeaves, PeerSignsUp, Acts,
                Moves, Sent
  <2>2. CASE ServerRequest(q)
    <3>1. Receives("request", q)
      BY <2>2 DEF ServerRequest
    <3>2. QED BY <2>2, <3>1, Takes
  <2>3. CASE ServerAccept(q)
    <3>1. Receives("accept", q)
      BY <2>3 DEF ServerAccept
    <3>2. QED BY <2>3, <3>1, Takes
  <2>4. CASE ServerDecline(q)
    <3>1. Receives("decline", q)
      BY <2>4 DEF ServerDecline
    <3>2. QED BY <2>4, <3>1, Takes
  <2>5. QED BY <1>2, <2>1, <2>2, <2>3, <2>4 DEF ServerStep
<1>3. ASSUME NEW q \in Peers, UserStep(q)
      PROVE  FALSE
  <2>1. PICK t \in {"request", "accept", "decline"} : Emit(t, q)
    BY <1>3 DEF UserStep, SendFriendRequest, AcceptRequest, DeclineRequest
  <2>2. QED BY <2>1, Emits
<1>4. CASE LoadStep \/ Reconnect \/ UNCHANGED vars
  BY <1>4 DEF LoadStep, AnswerFriends, AnswerRequests, Load, LoadFails, SyncRef,
              Reconnect, vars, Sent
<1>5. ASSUME NEW q \in Peers, EventStep(q)
      PROVE  FALSE
  BY <1>5 DEF EventStep, HandleFriendIncoming, HandleFriendAccepted,
              HandleFriendRejected, HandleFriendError, Hears, Sent
<1>6. QED BY <1>1, <1>2, <1>3, <1>4, <1>5 DEF Next

\* A packet of the server leaves the channel when the page hears it, or when the
\* connection is lost.
LEMMA DueLeaves ==
  ASSUME TypeOK, [Next]_vars, NEW p \in Peers, NEW type, Due(type, p), ~Due(type, p)'
  PROVE  \/ Hears(type, p) /\ EventStep(p)
         \/ Drop /\ Missed \in mishap'[p]
<1>1. CASE Drop
  BY <1>1, DropBlames
<1>2. ASSUME NEW q \in Peers, ServerStep(q)
      PROVE  FALSE
  <2>1. \/ toPage' = toPage
        \/ \E t \in {"incoming", "accepted", "rejected", "nouser", "notfound"} :
             \/ Notify(t, q)
             \/ link /\ toPage' = Append(toPage, Packet(t, q))
    BY <1>2
       DEF ServerStep, ServerRequest, ServerAccept, ServerDecline, PeerAsks,
           PeerAccepts, PeerDeclines, PeerLeaves, PeerSignsUp, Receives, Packet
  <2>2. CASE toPage' = toPage
    BY <2>2 DEF Due
  <2>3. QED BY <2>1, <2>2, Notifies
<1>3. ASSUME NEW q \in Peers, EventStep(q)
      PROVE  Hears(type, p) /\ EventStep(p)
  <2>1. PICK t : Hears(t, q)
    BY <1>3 DEF EventStep, HandleFriendIncoming, HandleFriendAccepted,
                HandleFriendRejected, HandleFriendError
  <2>2. t = type /\ q = p
    BY <2>1, HearsOne
  <2>3. QED BY <1>3, <2>1, <2>2
<1>4. ASSUME NEW q \in Peers, UserStep(q)
      PROVE  FALSE
  BY <1>4 DEF UserStep, SendFriendRequest, AcceptRequest, DeclineRequest, Emit, Due
<1>5. CASE LoadStep \/ Reconnect \/ UNCHANGED vars
  BY <1>5 DEF LoadStep, AnswerFriends, AnswerRequests, Load, LoadFails, SyncRef,
              Reconnect, vars, Due
<1>6. QED BY <1>1, <1>2, <1>3, <1>4, <1>5 DEF Next

\* An acceptance is under way only of a peer that has become a friend.
AcceptedInv == \A p \in Peers : Due("accepted", p) => p \in mates

LEMMA NextAccepted == TypeOK /\ AcceptedInv /\ [Next]_vars => AcceptedInv'
<1> SUFFICES ASSUME TypeOK, AcceptedInv, [Next]_vars,
                    NEW p \in Peers, Due("accepted", p)', ~Due("accepted", p)
             PROVE  p \in mates'
  BY Grows DEF AcceptedInv
<1>1. ASSUME NEW q \in Peers, ServerStep(q)
      PROVE  p \in mates'
  <2>1. CASE PeerAccepts(q)
    <3>1. Notify("accepted", q)
      BY <2>1 DEF PeerAccepts
    <3>2. q = p
      BY <3>1, Notifies
    <3>3. QED BY <2>1, <3>2 DEF PeerAccepts
  <2>2. CASE ~PeerAccepts(q)
    <3>1. \/ toPage' = toPage
          \/ \E t \in {"incoming", "rejected", "nouser", "notfound"} :
               \/ Notify(t, q)
               \/ link /\ toPage' = Append(toPage, Packet(t, q))
      BY <1>1, <2>2
         DEF ServerStep, ServerRequest, ServerAccept, ServerDecline, PeerAsks,
             PeerDeclines, PeerLeaves, PeerSignsUp, Receives, Packet
    <3>2. CASE toPage' = toPage
      BY <3>2 DEF Due
    <3>3. link \in BOOLEAN
      BY DEF TypeOK
    <3>4. QED BY <3>1, <3>2, <3>3, Notifies
  <2>3. QED BY <2>1, <2>2
<1>2. ASSUME NEW q \in Peers, EventStep(q)
      PROVE  FALSE
  <2>1. PICK t : Hears(t, q)
    BY <1>2 DEF EventStep, HandleFriendIncoming, HandleFriendAccepted,
                HandleFriendRejected, HandleFriendError
  <2>2. QED BY <2>1, HearsOne
<1>3. ASSUME NEW q \in Peers, UserStep(q)
      PROVE  FALSE
  BY <1>3 DEF UserStep, SendFriendRequest, AcceptRequest, DeclineRequest, Emit, Due
<1>4. CASE LoadStep \/ Reconnect \/ UNCHANGED vars
  BY <1>4 DEF LoadStep, AnswerFriends, AnswerRequests, Load, LoadFails, SyncRef,
              Reconnect, vars, Due
<1>5. CASE Drop
  BY <1>5, DropBlames
<1>6. QED BY <1>1, <1>2, <1>3, <1>4, <1>5 DEF Next

-----------------------------------------------------------------------------
(* Who is shown as a friend.                                                *)

Fetched(p) == fetch.friends # <<>> /\ p \in Head(fetch.friends)

\* p is a friend, is about to be, or was not to be.
Real(p) == p \in mates \/ Sent("accept", p) \/ ~Spared(p, {"refused", "lost"})

\* So is whoever is in the state, the ref, or the server's answer.
RealInv ==
  \A p \in Peers : p \in view.friends \cup ref \/ Fetched(p) => Real(p)

LEMMA RealStays ==
  ASSUME TypeOK, [Next]_vars
  PROVE  \A p \in Peers : Real(p) => Real(p)'
<1> SUFFICES ASSUME NEW p \in Peers, Real(p) PROVE Real(p)'
  OBVIOUS
<1>1. CASE Sent("accept", p) /\ ~Sent("accept", p)'
  <2>1. CASE ServerAccept(p)
    <3>1. "refused" \in Mishaps
      BY DEF Mishaps
    <3>2. QED BY <2>1, <3>1, Blames DEF ServerAccept, Real, Spared
  <2>2. CASE "lost" \in mishap'[p]
    BY <2>2 DEF Real, Spared
  <2>3. QED BY <1>1, <2>1, <2>2, SentLeaves
<1>2. QED BY <1>1, Grows DEF Real, Spared

LEMMA NextReal == TypeOK /\ AcceptedInv /\ RealInv /\ [Next]_vars => RealInv'
<1> SUFFICES ASSUME TypeOK, AcceptedInv, RealInv, [Next]_vars, NEW p \in Peers,
                    p \in view'.friends \cup ref' \/ Fetched(p)', ~Real(p)
             PROVE  Real(p)'
  BY RealStays DEF RealInv
<1>1. p \notin view.friends \cup ref /\ ~Fetched(p) /\ p \notin mates
  BY DEF RealInv, Real
<1>2. /\ fetch \in [friends : Seq(SUBSET Peers), requests : Seq(SUBSET Peers)]
      /\ view \in Lists
  BY DEF TypeOK, Lists
<1>3. ASSUME NEW q \in Peers, UserStep(q)
      PROVE  Real(p)'
  <2>1. ref' = ref /\ fetch' = fetch
    BY <1>3 DEF UserStep, SendFriendRequest, AcceptRequest, DeclineRequest, Emit
  <2>2. AcceptRequest(q) /\ p = q
    <3>1. p \in view'.friends
      BY <1>1, <2>1 DEF Fetched
    <3>2. SendFriendRequest(q) \/ DeclineRequest(q) => view'.friends = view.friends
      BY <1>2 DEF SendFriendRequest, DeclineRequest, Lists
    <3>3. AcceptRequest(q) => view'.friends = view.friends \cup {q}
      BY <1>2 DEF AcceptRequest, Lists
    <3>4. QED BY <1>1, <1>3, <3>1, <3>2, <3>3 DEF UserStep
  <2>3. Emit("accept", p)
    BY <2>2 DEF AcceptRequest
  <2>4. QED BY <2>3, Emits DEF Real
<1>4. ASSUME NEW q \in Peers, EventStep(q)
      PROVE  FALSE
  <2>1. ref' = ref /\ fetch' = fetch
    BY <1>4 DEF EventStep, HandleFriendIncoming, HandleFriendAccepted,
                HandleFriendRejected, HandleFriendError, Hears
  <2>2. HandleFriendAccepted(q) /\ p = q
    BY <1>1, <1>2, <1>4, <2>1
       DEF EventStep, HandleFriendIncoming, HandleFriendAccepted,
           HandleFriendRejected, HandleFriendError, Lists, Fetched
  <2>3. Due("accepted", p)
    <3>1. Hears("accepted", p)
      BY <2>2 DEF HandleFriendAccepted
    <3>2. QED BY <3>1, HearsOne
  <2>4. QED BY <1>1, <2>3 DEF AcceptedInv
<1>5. CASE LoadStep
  <2>1. CASE AnswerFriends
    <3>1. fetch'.friends = <<mates>> /\ Head(<<mates>>) = mates
      BY <1>2, <2>1 DEF AnswerFriends
    <3>2. QED BY <1>1, <2>1, <3>1 DEF AnswerFriends, Fetched
  <2>2. CASE ~AnswerFriends
    <3>1. fetch'.friends = fetch.friends
      BY <1>2, <1>5, <2>2 DEF LoadStep, AnswerRequests, Load, LoadFails, SyncRef
    <3>2. CASE Load
      BY <1>1, <1>2, <3>1, <3>2 DEF Load, Fetched, Lists
    <3>3. CASE ~Load
      BY <1>1, <1>5, <2>2, <3>1, <3>3
         DEF LoadStep, AnswerRequests, LoadFails, SyncRef, Fetched
    <3>4. QED BY <3>2, <3>3
  <2>3. QED BY <2>1, <2>2
<1>6. ASSUME NEW q \in Peers, ServerStep(q)
      PROVE  UNCHANGED <<view, ref, fetch>>
  BY <1>6 DEF ServerStep, ServerRequest, ServerAccept, ServerDecline, Receives,
              PeerAsks, PeerAccepts, PeerDeclines, PeerLeaves, PeerSignsUp, Acts, Moves,
              pageVars
<1>7. CASE Drop \/ Reconnect \/ UNCHANGED vars
  BY <1>1, <1>7 DEF Drop, Reconnect, vars, pageVars, Fetched
<1>8. QED BY <1>1, <1>3, <1>4, <1>5, <1>6, <1>7 DEF Next, Fetched

\* ShownFriendsAreReal: whoever is shown as a friend is one, or is about to be,
\* unless the server refused, or never got, the acceptance.
THEOREM ShownFriendsAreRealCorrect == Spec => []ShownFriendsAreReal
<1>1. Init => AcceptedInv /\ RealInv
  BY NoPackets DEF Init, AcceptedInv, RealInv, Fetched
<1>2. TypeOK /\ RealInv => ShownFriendsAreReal
  BY DEF TypeOK, RealInv, Real, Sent, Packet, ShownFriendsAreReal
<1>3. QED BY <1>1, <1>2, NextAccepted, NextReal, TypeCorrect, PTL DEF Spec

-----------------------------------------------------------------------------
(* Whether all friends are shown.                                           *)

\* The lists are loaded from both answers.
LoadInv == loaded = "ok" => fetch.friends # <<>> /\ fetch.requests # <<>>

LEMMA NextLoad == TypeOK /\ LoadInv /\ [Next]_vars => LoadInv'
<1> SUFFICES ASSUME TypeOK, LoadInv, [Next]_vars PROVE LoadInv'
  OBVIOUS
<1>1. CASE LoadStep
  <2>1. CASE AnswerFriends \/ AnswerRequests \/ LoadFails
    BY <2>1 DEF AnswerFriends, AnswerRequests, LoadFails, LoadInv
  <2>2. CASE Load \/ SyncRef
    BY <2>2 DEF Load, SyncRef, LoadInv
  <2>3. QED BY <1>1, <2>1, <2>2 DEF LoadStep
<1>2. CASE ~LoadStep
  <2>1. UNCHANGED <<loaded, fetch>>
    BY <1>2 DEF Next, vars, pageVars, Drop, Reconnect, UserStep, SendFriendRequest,
                AcceptRequest, DeclineRequest, Emit, ServerStep, ServerRequest,
                ServerAccept, ServerDecline, Receives, PeerAsks, PeerAccepts,
                PeerDeclines, PeerLeaves, PeerSignsUp, Acts, Moves, EventStep,
                HandleFriendIncoming, HandleFriendAccepted, HandleFriendRejected,
                HandleFriendError, Hears
  <2>2. QED BY <2>1 DEF LoadInv
<1>3. QED BY <1>1, <1>2

\* A friend is shown, or the page is about to learn of it.
ShownOrDue(p) ==
  \/ p \in view.friends
  \/ Due("accepted", p)
  \/ loaded # "ok" /\ (fetch.friends = <<>> \/ Fetched(p))
  \/ ~Spared(p, {"missed", "overwritten"})

\* A peer whom the user accepts is shown as a friend from the start.
ShownInv ==
  \A p \in Peers :
    /\ p \in mates => ShownOrDue(p)
    /\ Sent("accept", p) => p \in view.friends \/ ~Spared(p, {"overwritten"})

\* Nobody is hidden again but by the load, which is blamed for it.
LEMMA ShownStays ==
  ASSUME TypeOK, [Next]_vars, NEW p \in Peers, p \in view.friends
  PROVE  p \in view'.friends \/ "overwritten" \in mishap'[p]
<1>1. view \in Lists
  BY DEF TypeOK, Lists
<1>2. CASE Load
  <2>1. "overwritten" \in Mishaps
    BY DEF Mishaps
  <2>2. QED BY <1>1, <1>2, <2>1, Blames DEF Load, Lists
<1>3. ASSUME NEW q \in Peers, UserStep(q)
      PROVE  p \in view'.friends
  BY <1>1, <1>3 DEF UserStep, SendFriendRequest, AcceptRequest, DeclineRequest, Lists
<1>4. ASSUME NEW q \in Peers, EventStep(q)
      PROVE  p \in view'.friends
  BY <1>1, <1>4 DEF EventStep, HandleFriendIncoming, HandleFriendAccepted,
                    HandleFriendRejected, HandleFriendError, Lists
<1>5. ASSUME NEW q \in Peers, ServerStep(q)
      PROVE  UNCHANGED view
  BY <1>5 DEF ServerStep, ServerRequest, ServerAccept, ServerDecline, Receives,
              PeerAsks, PeerAccepts, PeerDeclines, PeerLeaves, PeerSignsUp, Acts, Moves,
              pageVars
<1>6. CASE LoadStep /\ ~Load
  BY <1>6 DEF LoadStep, AnswerFriends, AnswerRequests, LoadFails, SyncRef
<1>7. CASE Drop \/ Reconnect \/ UNCHANGED vars
  BY <1>7 DEF Drop, Reconnect, vars, pageVars
<1>8. QED BY <1>2, <1>3, <1>4, <1>5, <1>6, <1>7 DEF Next

\* An acceptance is under way from the click on.
LEMMA AcceptSent ==
  ASSUME TypeOK, [Next]_vars, NEW p \in Peers, Sent("accept", p)', ~Sent("accept", p)
  PROVE  AcceptRequest(p)
<1>1. ASSUME NEW q \in Peers, UserStep(q)
      PROVE  AcceptRequest(p)
  <2>1. CASE AcceptRequest(q)
    <3>1. Emit("accept", q)
      BY <2>1 DEF AcceptRequest
    <3>2. QED BY <2>1, <3>1, Emits
  <2>2. CASE SendFriendRequest(q)
    <3>1. Emit("request", q)
      BY <2>2 DEF SendFriendRequest
    <3>2. QED BY <3>1, Emits
  <2>3. CASE DeclineRequest(q)
    <3>1. Emit("decline", q)
      BY <2>3 DEF DeclineRequest
    <3>2. QED BY <3>1, Emits
  <2>4. QED BY <1>1, <2>1, <2>2, <2>3 DEF UserStep
<1>2. ASSUME NEW q \in Peers, ServerStep(q)
      PROVE  FALSE
  <2>1. CASE \/ PeerAsks(q) \/ PeerAccepts(q) \/ PeerDeclines(q)
           \/ PeerLeaves(q) \/ PeerSignsUp(q)
    BY <2>1 DEF PeerAsks, PeerAccepts, PeerDeclines, PeerLeaves, PeerSignsUp, Acts,
                Moves, Sent
  <2>2. CASE ServerRequest(q) \/ ServerAccept(q) \/ ServerDecline(q)
    <3>1. PICK type \in {"request", "accept", "decline"} : Receives(type, q)
      BY <2>2 DEF ServerRequest, ServerAccept, ServerDecline
    <3>2. QED BY <3>1, Takes
  <2>3. QED BY <1>2, <2>1, <2>2 DEF ServerStep
<1>3. CASE LoadStep \/ Reconnect \/ UNCHANGED vars
  BY <1>3 DEF LoadStep, AnswerFriends, AnswerRequests, Load, LoadFails, SyncRef,
              Reconnect, vars, Sent
<1>4. ASSUME NEW q \in Peers, EventStep(q)
      PROVE  FALSE
  BY <1>4 DEF EventStep, HandleFriendIncoming, HandleFriendAccepted,
              HandleFriendRejected, HandleFriendError, Hears, Sent
<1>5. CASE Drop
  BY <1>5, DropBlames
<1>6. QED BY <1>1, <1>2, <1>3, <1>4, <1>5 DEF Next

\* The page hears one event at a time.
LEMMA HearsWhat ==
  ASSUME TypeOK, NEW p \in Peers, NEW type, Hears(type, p), EventStep(p)
  PROVE  /\ type = "incoming" => HandleFriendIncoming(p)
         /\ type = "accepted" => HandleFriendAccepted(p)
         /\ type = "rejected" => HandleFriendRejected(p)
         /\ type = "nouser" => HandleFriendError(p)
<1>1. \A t : Hears(t, p) => t = type
  <2> SUFFICES ASSUME NEW t, Hears(t, p) PROVE t = type
    OBVIOUS
  <2>1. Packet(t, p) = Packet(type, p)
    BY DEF Hears, Packet
  <2>2. QED BY <2>1, SamePacket
<1>2. /\ HandleFriendIncoming(p) => Hears("incoming", p)
      /\ HandleFriendAccepted(p) => Hears("accepted", p)
      /\ HandleFriendRejected(p) => Hears("rejected", p)
      /\ HandleFriendError(p) => Hears("nouser", p) \/ Hears("notfound", p)
  BY DEF HandleFriendIncoming, HandleFriendAccepted, HandleFriendRejected,
         HandleFriendError
<1>3. QED BY <1>1, <1>2 DEF EventStep

\* What is missed before the load has read anything is still to be loaded.
LEMMA MissedOrLoads ==
  ASSUME TypeOK, LoadInv, UNCHANGED <<fetch, loaded>>,
         NEW p \in Peers, Missed \in mishap'[p]
  PROVE  /\ ShownOrDue(p)'
         /\ \/ "missed" \in mishap'[p]
            \/ loaded' # "ok" /\ fetch'.requests = <<>>
<1>1. CASE Missed = "missed"
  BY <1>1 DEF ShownOrDue, Spared
<1>2. CASE Missed # "missed"
  <2>1. fetch.friends = <<>> /\ fetch.requests = <<>> /\ loaded # "ok"
    BY <1>2 DEF Missed, LoadInv
  <2>2. QED BY <2>1 DEF ShownOrDue
<1>3. QED BY <1>1, <1>2

\* Whoever was shown or due stays so.
LEMMA ShownOrDueStays ==
  ASSUME TypeOK, LoadInv, [Next]_vars, NEW p \in Peers, p \in mates, ShownOrDue(p)
  PROVE  ShownOrDue(p)'
<1>1. CASE p \in view.friends
  BY <1>1, ShownStays DEF ShownOrDue, Spared
<1>2. CASE Due("accepted", p) /\ ~Due("accepted", p)'
  <2>1. CASE Hears("accepted", p) /\ EventStep(p)
    <3>1. HandleFriendAccepted(p)
      BY <2>1, HearsWhat
    <3>2. QED BY <3>1 DEF HandleFriendAccepted, ShownOrDue
  <2>2. CASE Drop /\ Missed \in mishap'[p]
    <3>1. UNCHANGED <<fetch, loaded>>
      BY <2>2 DEF Drop, pageVars
    <3>2. QED BY <2>2, <3>1, MissedOrLoads
  <2>3. QED BY <1>2, <2>1, <2>2, DueLeaves
<1>3. CASE loaded # "ok" /\ (fetch.friends = <<>> \/ Fetched(p))
  <2>1. fetch \in [friends : Seq(SUBSET Peers), requests : Seq(SUBSET Peers)]
    BY DEF TypeOK
  <2>2. CASE AnswerFriends
    <3>1. fetch'.friends = <<mates>> /\ Head(<<mates>>) = mates
      BY <2>1, <2>2 DEF AnswerFriends
    <3>2. QED BY <1>3, <2>2, <3>1 DEF AnswerFriends, ShownOrDue, Fetched
  <2>3. CASE Load
    <3>1. p \in view'.friends
      BY <1>3, <2>3 DEF Load, Fetched, TypeOK
    <3>2. QED BY <3>1 DEF ShownOrDue
  <2>4. CASE AnswerRequests \/ LoadFails \/ SyncRef
    <3>1. fetch'.friends = fetch.friends /\ loaded' # "ok"
      BY <1>3, <2>1, <2>4 DEF AnswerRequests, LoadFails, SyncRef
    <3>2. QED BY <1>3, <3>1 DEF ShownOrDue, Fetched
  <2>5. CASE ~LoadStep
    <3>1. UNCHANGED <<loaded, fetch>>
      BY <2>5 DEF Next, vars, pageVars, Drop, Reconnect, UserStep, SendFriendRequest,
                  AcceptRequest, DeclineRequest, Emit, ServerStep, ServerRequest,
                  ServerAccept, ServerDecline, Receives, PeerAsks, PeerAccepts,
                  PeerDeclines, PeerLeaves, PeerSignsUp, Acts, Moves, EventStep,
                  HandleFriendIncoming, HandleFriendAccepted, HandleFriendRejected,
                  HandleFriendError, Hears
    <3>2. QED BY <1>3, <3>1 DEF ShownOrDue, Fetched
  <2>6. QED BY <2>2, <2>3, <2>4, <2>5 DEF LoadStep
<1>4. CASE ~Spared(p, {"missed", "overwritten"})
  BY <1>4, Grows DEF ShownOrDue, Spared
<1>5. QED BY <1>1, <1>2, <1>3, <1>4 DEF ShownOrDue

LEMMA NextShown == TypeOK /\ LoadInv /\ ShownInv /\ [Next]_vars => ShownInv'
<1> SUFFICES ASSUME TypeOK, LoadInv, ShownInv, [Next]_vars, NEW p \in Peers
             PROVE  /\ p \in mates' => ShownOrDue(p)'
                    /\ Sent("accept", p)' =>
                         p \in view'.friends \/ ~Spared(p, {"overwritten"})'
  BY DEF ShownInv
<1>1. ASSUME p \in mates', p \notin mates
      PROVE  ShownOrDue(p)'
  <2>1. PICK q \in Peers : ServerAccept(q) \/ PeerAccepts(q)
    BY <1>1 DEF Next, vars, serverVars, LoadStep, AnswerFriends, AnswerRequests, Load,
                LoadFails, SyncRef, Drop, Reconnect, UserStep, SendFriendRequest,
                AcceptRequest, DeclineRequest, Emit, ServerStep, ServerRequest,
                ServerDecline, PeerAsks, PeerDeclines, PeerLeaves, PeerSignsUp,
                EventStep, HandleFriendIncoming, HandleFriendAccepted,
                HandleFriendRejected, HandleFriendError, Hears
  <2>2. q = p /\ UNCHANGED <<view, fetch, loaded>>
    BY <1>1, <2>1 DEF ServerAccept, PeerAccepts, Receives, Acts, Moves, pageVars
  <2>3. CASE ServerAccept(p)
    <3>1. Sent("accept", p)
      <4>1. Receives("accept", p)
        BY <2>3 DEF ServerAccept
      <4>2. QED BY <4>1, Takes
    <3>2. QED BY <2>2, <3>1, Grows DEF ShownInv, ShownOrDue, Spared
  <2>4. CASE PeerAccepts(p)
    <3>1. Notify("accepted", p)
      BY <2>4 DEF PeerAccepts
    <3>2. CASE link
      BY <3>1, <3>2, Notifies DEF ShownOrDue
    <3>3. CASE ~link
      <4>1. Missed \in Mishaps /\ mishap' = Blame({p}, Missed)
        BY <3>1, <3>3 DEF Notify, Missed, Mishaps
      <4>2. QED BY <2>2, <4>1, Blames, MissedOrLoads
    <3>4. QED BY <3>2, <3>3
  <2>5. QED BY <2>1, <2>2, <2>3, <2>4
<1>2. ASSUME Sent("accept", p)'
      PROVE  p \in view'.friends \/ ~Spared(p, {"overwritten"})'
  <2>1. CASE Sent("accept", p)
    BY <2>1, ShownStays, Grows DEF ShownInv, Spared
  <2>2. CASE ~Sent("accept", p)
    <3>1. AcceptRequest(p)
      BY <1>2, <2>2, AcceptSent
    <3>2. QED BY <3>1 DEF AcceptRequest, TypeOK
  <2>3. QED BY <2>1, <2>2
<1>3. QED BY <1>1, <1>2, ShownOrDueStays DEF ShownInv

\* FriendsAreShown: every friend is shown once nothing is under way, unless the
\* news were lost with a connection, or overwritten by the load.
THEOREM FriendsAreShownCorrect == Spec => []FriendsAreShown
<1>1. Init => LoadInv /\ ShownInv
  BY NoPackets DEF Init, LoadInv, ShownInv, ShownOrDue
<1>2. TypeOK /\ ShownInv => FriendsAreShown
  BY NoPackets DEF TypeOK, ShownInv, ShownOrDue, FriendsAreShown, Quiet
<1>3. QED BY <1>1, <1>2, NextLoad, NextShown, TypeCorrect, PTL DEF Spec

-----------------------------------------------------------------------------
(* Pending requests.                                                        *)

Asks(p) == lastOp = [type |-> "request", peer |-> p]

\* The server holds the request, will hold it, or an answer to it is on its way;
\* an error, which does not say whom it is about, finds the request in lastOp.
Honest(p) ==
  \/ p \in mine
  \/ Sent("request", p) /\ Asks(p)
  \/ Due("accepted", p) \/ Due("rejected", p)
  \/ Due("nouser", p) /\ Asks(p)
  \/ ~Spared(p, {"missed", "unheard", "lost", "crossed", "ended"})

PendingInv == \A p \in view.outgoing : Honest(p)

\* An operation that follows on a request not yet answered is blamed for it.
LEMMA Crosses ==
  ASSUME TypeOK, NEW p \in Peers, Sent("request", p) \/ Due("nouser", p),
         NEW q \in Peers, SendFriendRequest(q) \/ AcceptRequest(q)
  PROVE  "crossed" \in mishap'[p]
<1>1. p \in Unanswered
  <2>1. CASE Sent("request", p)
    <3>1. PICK i \in DOMAIN toServer : toServer[i] = Packet("request", p)
      BY <2>1 DEF Sent, Range
    <3>2. toServer[i].type = "request" /\ toServer[i].peer = p
      BY <3>1 DEF Packet
    <3>3. QED BY <3>2 DEF Unanswered
  <2>2. CASE Due("nouser", p)
    <3>1. PICK i \in DOMAIN toPage : toPage[i] = Packet("nouser", p)
      BY <2>2 DEF Due, Range
    <3>2. toPage[i].type = "nouser" /\ toPage[i].peer = p
      BY <3>1 DEF Packet
    <3>3. QED BY <3>2 DEF Unanswered
  <2>3. QED BY <2>1, <2>2
<1>2. \E S : p \in S /\ mishap' = Blame(S, "crossed")
  BY <1>1 DEF SendFriendRequest, AcceptRequest
<1>3. QED BY <1>2, Blames DEF Mishaps

\* Requests under way stay so when the page only emits, or hears of others.
LEMMA HonestUser ==
  ASSUME TypeOK, [Next]_vars, NEW q \in Peers, UserStep(q),
         NEW p \in Peers, Honest(p)
  PROVE  Honest(p)'
<1>1. PICK type \in {"request", "accept", "decline"} : Emit(type, q)
  BY DEF UserStep, SendFriendRequest, AcceptRequest, DeclineRequest
<1>2. /\ \A t : Sent(t, p) => Sent(t, p)'
      /\ \A t : Due(t, p) => Due(t, p)'
      /\ mine' = mine
  BY <1>1, Emits DEF Emit, serverVars
<1>3. CASE DeclineRequest(q)
  <2>1. lastOp' = lastOp
    BY <1>3 DEF DeclineRequest
  <2>2. QED BY <1>2, <2>1, Grows DEF Honest, Spared, Asks
<1>4. CASE SendFriendRequest(q) \/ AcceptRequest(q)
  <2>1. CASE Sent("request", p) \/ Due("nouser", p)
    BY <1>4, <2>1, Crosses DEF Honest, Spared
  <2>2. CASE ~Sent("request", p) /\ ~Due("nouser", p)
    BY <1>2, <2>2, Grows DEF Honest, Spared
  <2>3. QED BY <2>1, <2>2
<1>5. QED BY <1>3, <1>4 DEF UserStep

LEMMA HonestServer ==
  ASSUME TypeOK, [Next]_vars, NEW q \in Peers, ServerStep(q),
         NEW p \in Peers, Honest(p)
  PROVE  Honest(p)'
<1>1. UNCHANGED <<view, lastOp>>
  BY DEF ServerStep, ServerRequest, ServerAccept, ServerDecline, Receives, PeerAsks,
         PeerAccepts, PeerDeclines, PeerLeaves, PeerSignsUp, Acts, Moves, pageVars
<1>2. ~Drop
  BY DEF Drop, ServerStep, ServerRequest, ServerAccept, ServerDecline, Receives,
         PeerAsks, PeerAccepts, PeerDeclines, PeerLeaves, PeerSignsUp, Acts, Moves,
         boundVars, TypeOK
<1>3. \A t : Due(t, p) => Due(t, p)'
  <2>1. \/ toPage' = toPage
        \/ \E t \in {"incoming", "accepted", "rejected", "nouser", "notfound"} :
             \/ Notify(t, q)
             \/ link /\ toPage' = Append(toPage, Packet(t, q))
    BY DEF ServerStep, ServerRequest, ServerAccept, ServerDecline, PeerAsks,
           PeerAccepts, PeerDeclines, PeerLeaves, PeerSignsUp, Receives, Packet
  <2>2. CASE toPage' = toPage
    BY <2>2 DEF Due
  <2>3. link \in BOOLEAN
    BY DEF TypeOK
  <2>4. QED BY <2>1, <2>2, <2>3, Notifies
<1>4. CASE p \in mine /\ p \notin mine' /\ ~PeerLeaves(p)
  <2>1. PICK type \in {"accepted", "rejected"} : Notify(type, p)
    BY <1>4 DEF ServerStep, ServerRequest, ServerAccept, ServerDecline, PeerAsks,
                PeerAccepts, PeerDeclines, PeerLeaves, PeerSignsUp
  <2>2. CASE link
    BY <2>1, <2>2, Notifies DEF Honest
  <2>3. CASE ~link
    <3>1. mishap' = Blame({p}, Missed) /\ Missed \in Mishaps
      BY <2>1, <2>3 DEF Notify, Missed, Mishaps
    <3>2. Missed \in mishap'[p]
      BY <3>1, Blames
    <3>3. QED BY <3>2 DEF Honest, Spared, Missed
  <2>4. QED BY <2>2, <2>3
<1>5. CASE p \in mine /\ PeerLeaves(p)
  <2>1. "ended" \in mishap'[p]
    BY <1>5, Blames DEF PeerLeaves, Mishaps
  <2>2. QED BY <2>1 DEF Honest, Spared
<1>6. CASE Sent("request", p) /\ ~Sent("request", p)' /\ Asks(p)
  <2>1. ServerRequest(p)
    BY <1>2, <1>6, SentLeaves
  <2>2. CASE p \in accounts
    BY <2>1, <2>2 DEF ServerRequest, Honest
  <2>3. CASE p \notin accounts
    <3>1. Notify("nouser", p) /\ link
      BY <2>1, <2>3 DEF ServerRequest, Receives
    <3>2. Due("nouser", p)'
      BY <3>1, Notifies
    <3>3. QED BY <1>1, <1>6, <3>2 DEF Honest, Asks
  <2>4. QED BY <2>2, <2>3
<1>7. QED BY <1>1, <1>3, <1>4, <1>5, <1>6, Grows DEF Honest, Spared, Asks

LEMMA HonestEvent ==
  ASSUME TypeOK, [Next]_vars, NEW q \in Peers, EventStep(q),
         NEW p \in Peers, Honest(p), p \in view'.outgoing
  PROVE  Honest(p)'
<1>1. PICK type : Hears(type, q)
  BY DEF EventStep, HandleFriendIncoming, HandleFriendAccepted, HandleFriendRejected,
         HandleFriendError
<1>2. /\ mine' = mine
      /\ \A t : Sent(t, p) => Sent(t, p)'
      /\ \A t : Due(t, p) => Due(t, p)' \/ (t = type /\ p = q)
  BY <1>1, HearsOne DEF Hears, serverVars
<1>3. view \in Lists
  BY DEF TypeOK, Lists
<1>4. /\ HandleFriendAccepted(q) \/ HandleFriendRejected(q) => p # q
  BY <1>3 DEF HandleFriendAccepted, HandleFriendRejected, Lists
<1>5. type \notin {"accepted", "rejected"} \/ p # q
  BY <1>1, <1>4, HearsWhat
<1>6. /\ Asks(p) => Asks(p)'
      /\ ~(type = "nouser" /\ p = q /\ Asks(p))
  <2>1. CASE HandleFriendIncoming(q)
    BY <1>1, <2>1, HearsWhat DEF HandleFriendIncoming, Asks, Hears
  <2>2. CASE HandleFriendAccepted(q) \/ HandleFriendRejected(q)
    BY <1>4, <2>2 DEF HandleFriendAccepted, HandleFriendRejected, Answered, Asks
  <2>3. CASE HandleFriendError(q)
    BY <1>1, <1>3, <2>3 DEF HandleFriendError, Matches, Asks, Lists, NoOp, Hears
  <2>4. QED BY <2>1, <2>2, <2>3 DEF EventStep
<1>7. QED BY <1>2, <1>5, <1>6, Grows DEF Honest, Spared

LEMMA NextPending == TypeOK /\ PendingInv /\ [Next]_vars => PendingInv'
<1> SUFFICES ASSUME TypeOK, PendingInv, [Next]_vars,
                    NEW p \in view'.outgoing
             PROVE  Honest(p)'
  BY DEF PendingInv
<1>0. p \in Peers /\ view \in Lists
  BY TypeNext DEF TypeOK, Lists
<1>1. CASE p \notin view.outgoing
  <2>1. SendFriendRequest(p)
    <3>1. PICK q \in Peers : SendFriendRequest(q)
      <4>1. \A q \in Peers : EventStep(q) \/ AcceptRequest(q) \/ DeclineRequest(q) =>
              p \notin view'.outgoing
        <5> SUFFICES ASSUME NEW q \in Peers,
                            EventStep(q) \/ AcceptRequest(q) \/ DeclineRequest(q)
                     PROVE  p \notin view'.outgoing
          OBVIOUS
        <5>1. CASE AcceptRequest(q) \/ DeclineRequest(q)
          BY <1>0, <1>1, <5>1 DEF AcceptRequest, DeclineRequest, Lists
        <5>2. CASE HandleFriendIncoming(q) \/ HandleFriendError(q)
          BY <1>0, <1>1, <5>2 DEF HandleFriendIncoming, HandleFriendError, Lists
        <5>3. CASE HandleFriendAccepted(q) \/ HandleFriendRejected(q)
          BY <1>0, <1>1, <5>3 DEF HandleFriendAccepted, HandleFriendRejected, Lists
        <5>4. QED BY <5>1, <5>2, <5>3 DEF EventStep
      <4>2. LoadStep => p \notin view'.outgoing
        BY <1>0, <1>1 DEF LoadStep, AnswerFriends, AnswerRequests, Load, LoadFails,
                          SyncRef, Lists
      <4>3. \A q \in Peers : ServerStep(q) => view' = view
        BY DEF ServerStep, ServerRequest, ServerAccept, ServerDecline, Receives,
               PeerAsks, PeerAccepts, PeerDeclines, PeerLeaves, PeerSignsUp, Acts,
               Moves, pageVars
      <4>4. Drop \/ Reconnect \/ UNCHANGED vars => view' = view
        BY DEF Drop, Reconnect, vars, pageVars
      <4>5. QED BY <1>1, <4>1, <4>2, <4>3, <4>4 DEF Next, UserStep
    <3>2. q = p
      BY <1>0, <1>1, <3>1 DEF SendFriendRequest, Lists
    <3>3. QED BY <3>1, <3>2
  <2>2. Emit("request", p) /\ Asks(p)'
    BY <2>1 DEF SendFriendRequest, Asks
  <2>3. QED BY <1>0, <2>2, Emits DEF Honest
<1>2. CASE p \in view.outgoing
  <2>1. Honest(p)
    BY <1>2 DEF PendingInv
  <2>2. CASE LoadStep \/ Reconnect \/ UNCHANGED vars
    <3>1. UNCHANGED <<mine, lastOp, toServer, toPage>>
      BY <2>2 DEF LoadStep, AnswerFriends, AnswerRequests, Load, LoadFails, SyncRef,
                  Reconnect, vars, serverVars, pageVars
    <3>2. QED BY <1>0, <2>1, <3>1, Grows, SamePackets DEF Honest, Spared, Asks
  <2>3. CASE Drop
    <3>1. mine' = mine
      BY <2>3 DEF Drop, serverVars
    <3>2. QED BY <1>0, <2>1, <2>3, <3>1, DropBlames DEF Honest, Spared, Missed
  <2>4. QED
    BY <1>0, <2>1, <2>2, <2>3, HonestUser, HonestServer, HonestEvent DEF Next
<1>3. QED BY <1>1, <1>2

\* PendingIsHonest: what is shown as pending once nothing is under way is held by
\* the server, unless the request or its answer was lost or crossed another, or
\* the account of the peer has ended (user.service.ts:35-42).
THEOREM PendingIsHonestCorrect == Spec => []PendingIsHonest
<1>1. Init => PendingInv
  BY DEF Init, PendingInv
<1>2. PendingInv => PendingIsHonest
  BY NoPackets DEF PendingInv, Honest, PendingIsHonest, Quiet
<1>3. QED BY <1>1, <1>2, NextPending, TypeCorrect, PTL DEF Spec

-----------------------------------------------------------------------------
(* Requests of others.                                                      *)

FetchedRequest(p) == fetch.requests # <<>> /\ p \in Head(fetch.requests)

\* A request is shown, or the page is about to learn of it, or the user has
\* answered it.
Known(p) ==
  \/ p \in view.incoming
  \/ p \in mates
  \/ Due("incoming", p)
  \/ Sent("accept", p) \/ Sent("decline", p)
  \/ loaded # "ok" /\ (fetch.requests = <<>> \/ FetchedRequest(p))
  \/ ~Spared(p, {"missed", "lost"})

KnownInv == \A p \in theirs : Known(p)

LEMMA KnownStays ==
  ASSUME TypeOK, AcceptedInv, LoadInv, [Next]_vars,
         NEW p \in Peers, p \in theirs, p \in theirs', Known(p)
  PROVE  Known(p)'
<1>0. /\ view \in Lists
      /\ fetch \in [friends : Seq(SUBSET Peers), requests : Seq(SUBSET Peers)]
  BY DEF TypeOK, Lists
<1>1. CASE p \in view.incoming /\ p \notin view'.incoming
  <2>1. CASE \E q \in Peers : UserStep(q)
    <3>1. PICK q \in Peers : UserStep(q)
      BY <2>1
    <3>2. q = p /\ (Emit("accept", p) \/ Emit("decline", p))
      BY <1>0, <1>1, <3>1
         DEF UserStep, SendFriendRequest, AcceptRequest, DeclineRequest, Lists
    <3>3. QED BY <3>2, Emits DEF Known
  <2>2. CASE \E q \in Peers : EventStep(q)
    <3>1. PICK q \in Peers : EventStep(q)
      BY <2>2
    <3>2. q = p /\ HandleFriendAccepted(p)
      BY <1>0, <1>1, <3>1
         DEF EventStep, HandleFriendIncoming, HandleFriendAccepted,
             HandleFriendRejected, HandleFriendError, Lists
    <3>3. Hears("accepted", p)
      BY <3>2 DEF HandleFriendAccepted
    <3>4. p \in mates
      BY <3>3, HearsOne DEF AcceptedInv
    <3>5. QED BY <3>4, Grows DEF Known
  <2>3. CASE ~\E q \in Peers : UserStep(q) \/ EventStep(q)
    BY <1>0, <1>1, <2>3
       DEF Next, vars, pageVars, LoadStep, AnswerFriends, AnswerRequests, Load,
           LoadFails, SyncRef, Drop, Reconnect, ServerStep, ServerRequest,
           ServerAccept, ServerDecline, Receives, PeerAsks, PeerAccepts,
           PeerDeclines, PeerLeaves, PeerSignsUp, Acts, Moves, Lists
  <2>4. QED BY <2>1, <2>2, <2>3
<1>2. CASE Due("incoming", p) /\ ~Due("incoming", p)'
  <2>1. CASE Hears("incoming", p) /\ EventStep(p)
    <3>1. HandleFriendIncoming(p)
      BY <2>1, HearsWhat
    <3>2. QED BY <1>0, <3>1 DEF HandleFriendIncoming, Known, Lists
  <2>2. CASE Drop /\ Missed \in mishap'[p]
    <3>1. UNCHANGED <<fetch, loaded>>
      BY <2>2 DEF Drop, pageVars
    <3>2. QED BY <2>2, <3>1, MissedOrLoads DEF Known, Spared
  <2>3. QED BY <1>2, <2>1, <2>2, DueLeaves
<1>3. ASSUME NEW type \in {"accept", "decline"}, Sent(type, p), ~Sent(type, p)'
      PROVE  Known(p)'
  <2>1. CASE ServerAccept(p)
    BY <2>1 DEF ServerAccept, Known
  <2>2. CASE ServerDecline(p)
    BY <2>2 DEF ServerDecline, TypeOK
  <2>3. CASE Drop /\ "lost" \in mishap'[p]
    BY <2>3 DEF Known, Spared
  <2>4. QED BY <1>3, <2>1, <2>2, <2>3, SentLeaves
<1>4. CASE loaded # "ok" /\ (fetch.requests = <<>> \/ FetchedRequest(p))
  <2>1. CASE AnswerRequests
    <3>1. fetch'.requests = <<theirs>> /\ Head(<<theirs>>) = theirs
      BY <1>0, <2>1 DEF AnswerRequests
    <3>2. QED BY <1>4, <2>1, <3>1 DEF AnswerRequests, Known, FetchedRequest
  <2>2. CASE Load
    <3>1. p \in view'.incoming
      BY <1>0, <1>4, <2>2 DEF Load, FetchedRequest, Lists
    <3>2. QED BY <3>1 DEF Known
  <2>3. CASE AnswerFriends \/ LoadFails \/ SyncRef
    <3>1. fetch'.requests = fetch.requests /\ loaded' # "ok"
      BY <1>0, <1>4, <2>3 DEF AnswerFriends, LoadFails, SyncRef
    <3>2. QED BY <1>4, <3>1 DEF Known, FetchedRequest
  <2>4. CASE ~LoadStep
    <3>1. UNCHANGED <<loaded, fetch>>
      BY <2>4 DEF Next, vars, pageVars, Drop, Reconnect, UserStep, SendFriendRequest,
                  AcceptRequest, DeclineRequest, Emit, ServerStep, ServerRequest,
                  ServerAccept, ServerDecline, Receives, PeerAsks, PeerAccepts,
                  PeerDeclines, PeerLeaves, PeerSignsUp, Acts, Moves, EventStep,
                  HandleFriendIncoming, HandleFriendAccepted, HandleFriendRejected,
                  HandleFriendError, Hears
    <3>2. QED BY <1>4, <3>1 DEF Known, FetchedRequest
  <2>5. QED BY <2>1, <2>2, <2>3, <2>4 DEF LoadStep
<1>5. QED BY <1>1, <1>2, <1>3, <1>4, Grows DEF Known, Spared

LEMMA NextKnown ==
  TypeOK /\ AcceptedInv /\ LoadInv /\ KnownInv /\ [Next]_vars => KnownInv'
<1> SUFFICES ASSUME TypeOK, AcceptedInv, LoadInv, KnownInv, [Next]_vars,
                    NEW p \in theirs'
             PROVE  Known(p)'
  BY DEF KnownInv
<1>0. p \in Peers
  BY TypeNext DEF TypeOK
<1>1. CASE p \notin theirs
  <2>1. PICK q \in Peers : PeerAsks(q)
    BY <1>1 DEF Next, vars, serverVars, LoadStep, AnswerFriends, AnswerRequests, Load,
                LoadFails, SyncRef, Drop, Reconnect, UserStep, SendFriendRequest,
                AcceptRequest, DeclineRequest, Emit, ServerStep, ServerRequest,
                ServerAccept, ServerDecline, PeerAccepts, PeerDeclines, PeerLeaves,
                PeerSignsUp, EventStep, HandleFriendIncoming, HandleFriendAccepted,
                HandleFriendRejected, HandleFriendError, Hears
  <2>2. q = p /\ Notify("incoming", q) /\ UNCHANGED <<fetch, loaded>>
    BY <1>1, <2>1 DEF PeerAsks, Acts, Moves, pageVars
  <2>3. CASE link
    BY <2>2, <2>3, Notifies DEF Known
  <2>4. CASE ~link
    <3>1. Missed \in Mishaps /\ mishap' = Blame({p}, Missed)
      BY <2>2, <2>4 DEF Notify, Missed, Mishaps
    <3>2. QED BY <1>0, <2>2, <3>1, Blames, MissedOrLoads DEF Known, Spared
  <2>5. QED BY <2>3, <2>4
<1>2. QED BY <1>0, <1>1, KnownStays DEF KnownInv

\* RequestsAreShown: every request to the user is shown once nothing is under way,
\* except a friend's, or one whose event, or whose answer by the user, was lost.
THEOREM RequestsAreShownCorrect == Spec => []RequestsAreShown
<1>1. Init => AcceptedInv /\ LoadInv /\ KnownInv
  BY NoPackets DEF Init, AcceptedInv, LoadInv, KnownInv, Known
<1>2. KnownInv => RequestsAreShown
  BY NoPackets DEF KnownInv, Known, RequestsAreShown, Quiet
<1>3. QED BY <1>1, <1>2, NextAccepted, NextLoad, NextKnown, TypeCorrect, PTL DEF Spec
=============================================================================
