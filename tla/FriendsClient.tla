--------------------------- MODULE FriendsClient ---------------------------
(***************************************************************************)
(* The friend lists that one page shows (useChat.ts) against what the      *)
(* server holds for its user: lists loaded over HTTP when the page mounts, *)
(* changed at once by the user's clicks and by events of the socket, which *)
(* acknowledges nothing and reports failures by one "friend:error".        *)
(*                                                                         *)
(* The server's handlers are atomic here; module Friends takes them apart. *)
(* The user has one page open, and an account that outlives it; those of   *)
(* the others come and go, of which no event tells the page.  An action of *)
(* the page is one callback; React runs effects, such as the one that      *)
(* copies the friends into friendsRef, some time after the state they      *)
(* depend on has changed.                                                  *)
(***************************************************************************)
EXTENDS Naturals, Sequences, Functions

CONSTANTS
  Peers,      \* the other users
  MaxClicks,  \* how often the user asks, accepts or declines
  MaxMoves,   \* how often the others do, leave or sign up
  MaxDrops    \* how often the connection is lost

ASSUME BoundsAssumption ==
  MaxClicks \in Nat /\ MaxMoves \in Nat /\ MaxDrops \in Nat

VARIABLES
  accounts,  \* peers whose account exists
  theirs,    \* server: requests:<user>, the peers that asked the user
  mine,      \* server: the peers p with the user in requests:<p>
  mates,     \* server: friends:<user>
  link,      \* the page's socket is connected
  toServer,  \* packets of the page; when disconnected, socket.io's send buffer
  toPage,    \* packets of the server
  view,      \* the lists of the page: friends, incoming, outgoing
  ref,       \* friendsRef.current
  lastOp,    \* lastOpRef.current
  fetch,     \* the two answers of the HTTP load, each <<>> until the server gives it
  loaded,    \* what became of the load
  clicks, moves, drops,  \* bounds
  mishap     \* history: what has gone wrong that concerns a peer, see Mishaps

serverVars == <<accounts, theirs, mine, mates>>
pageVars == <<view, ref, lastOp, fetch, loaded>>
boundVars == <<clicks, moves, drops>>
vars == <<accounts, theirs, mine, mates, link, toServer, toPage, view, ref,
          lastOp, fetch, loaded, clicks, moves, drops, mishap>>

-----------------------------------------------------------------------------
Requests == [type : {"request", "accept", "decline"}, peer : Peers]
Events == [type : {"incoming", "accepted", "rejected", "nouser", "notfound"},
           peer : Peers]
NoOp == [type |-> "none"]

(* "missed": an event about the peer was lost with a connection; "unheard":  *)
(* it was, but the lists had not been read by then.  "lost": an operation of *)
(* the user was.  "refused": the server refused to accept the peer.          *)
(* "overwritten": the load replaced the friends by a copy without the peer.  *)
(* "crossed": the user went on to another operation before the answer to one *)
(* about the peer.  "ended": the peer's account did, and with it the user's  *)
(* request.                                                                  *)
Mishaps == {"missed", "unheard", "lost", "refused", "overwritten", "crossed", "ended"}

Missed == IF fetch = [friends |-> <<>>, requests |-> <<>>] THEN "unheard"
          ELSE "missed"

Blame(peers, what) ==
  [p \in Peers |-> IF p \in peers THEN mishap[p] \cup {what} ELSE mishap[p]]

TypeOK ==
  /\ accounts \subseteq Peers
  /\ theirs \subseteq Peers
  /\ mine \subseteq Peers
  /\ mates \subseteq Peers
  /\ link \in BOOLEAN
  /\ toServer \in Seq(Requests)
  /\ toPage \in Seq(Events)
  /\ view \in [friends : SUBSET Peers, incoming : SUBSET Peers,
               outgoing : SUBSET Peers]
  /\ ref \subseteq Peers
  /\ lastOp \in {NoOp} \cup [type : {"request", "accept"}, peer : Peers]
  /\ fetch \in [friends : Seq(SUBSET Peers), requests : Seq(SUBSET Peers)]
  /\ loaded \in {"pending", "ok", "failed"}
  /\ clicks \in 0..MaxClicks
  /\ moves \in 0..MaxMoves
  /\ drops \in 0..MaxDrops
  /\ mishap \in [Peers -> SUBSET Mishaps]

\* The page has just mounted on a connected socket; the user has a history, with
\* peers whose account has ended too.
Init ==
  /\ accounts \in SUBSET Peers
  /\ theirs \in SUBSET Peers
  /\ mine \in SUBSET (accounts \ theirs)
  /\ mates \in SUBSET (Peers \ (theirs \cup mine))
  /\ link = TRUE
  /\ toServer = <<>>
  /\ toPage = <<>>
  /\ view = [friends |-> {}, incoming |-> {}, outgoing |-> {}]
  /\ ref = {}
  /\ lastOp = NoOp
  /\ fetch = [friends |-> <<>>, requests |-> <<>>]
  /\ loaded = "pending"
  /\ clicks = 0
  /\ moves = 0
  /\ drops = 0
  /\ mishap = [p \in Peers |-> {}]

-----------------------------------------------------------------------------
(* The load: two requests at once, answered at different times.             *)

AnswerFriends ==
  /\ loaded = "pending"
  /\ fetch.friends = <<>>
  /\ fetch' = [fetch EXCEPT !.friends = <<mates>>]
  /\ UNCHANGED <<serverVars, link, toServer, toPage, view, ref, lastOp, loaded,
                 boundVars, mishap>>

AnswerRequests ==
  /\ loaded = "pending"
  /\ fetch.requests = <<>>
  /\ fetch' = [fetch EXCEPT !.requests = <<theirs>>]
  /\ UNCHANGED <<serverVars, link, toServer, toPage, view, ref, lastOp, loaded,
                 boundVars, mishap>>

\* Mutant of Load: the incoming requests are replaced, not merged.
Load_Replaces ==
  /\ loaded = "pending"
  /\ fetch.friends # <<>>
  /\ fetch.requests # <<>>
  /\ loaded' = "ok"
  /\ LET merged == ref \cup Head(fetch.friends)
     IN  /\ view' = [view EXCEPT !.friends = merged,
                                 !.incoming = Head(fetch.requests)]
         /\ ref' = merged
         /\ mishap' = Blame(view.friends \ merged, "overwritten")
  /\ UNCHANGED <<serverVars, link, toServer, toPage, lastOp, fetch, boundVars>>

\* Both are there: the friends become what the ref and the server say; the
\* requests are merged into the state itself.
Load ==
  /\ loaded = "pending"
  /\ fetch.friends # <<>>
  /\ fetch.requests # <<>>
  /\ loaded' = "ok"
  /\ LET merged == ref \cup Head(fetch.friends)
     IN  /\ view' = [view EXCEPT !.friends = merged,
                                 !.incoming = @ \cup Head(fetch.requests)]
         /\ ref' = merged
         /\ mishap' = Blame(view.friends \ merged, "overwritten")
  /\ UNCHANGED <<serverVars, link, toServer, toPage, lastOp, fetch, boundVars>>

\* Either request fails: an error is shown and the lists stay as they are.
LoadFails ==
  /\ loaded = "pending"
  /\ loaded' = "failed"
  /\ UNCHANGED <<serverVars, link, toServer, toPage, view, ref, lastOp, fetch,
                 boundVars, mishap>>

\* The effect of a change of friends.
SyncRef ==
  /\ ref # view.friends
  /\ ref' = view.friends
  /\ UNCHANGED <<serverVars, link, toServer, toPage, view, lastOp, fetch, loaded,
                 boundVars, mishap>>

-----------------------------------------------------------------------------
(* The user's clicks.                                                       *)

\* Requests of the user that may still be answered by "friend:error".
Unanswered ==
  {toServer[i].peer : i \in {j \in DOMAIN toServer : toServer[j].type = "request"}}
  \cup {toPage[i].peer : i \in {j \in DOMAIN toPage : toPage[j].type = "nouser"}}

Emit(type, p) ==
  /\ clicks < MaxClicks
  /\ clicks' = clicks + 1
  /\ toServer' = Append(toServer, [type |-> type, peer |-> p])
  /\ UNCHANGED <<serverVars, link, toPage, ref, fetch, loaded, moves, drops>>

\* The sidebar's form hands over only a name that no list shows.
Askable(p) == p \notin view.friends \cup view.outgoing \cup view.incoming

SendFriendRequest(p) ==
  /\ Askable(p)
  /\ Emit("request", p)
  /\ view' = [view EXCEPT !.outgoing = @ \cup {p}]
  /\ lastOp' = [type |-> "request", peer |-> p]
  /\ mishap' = Blame(Unanswered \cup (IF Unanswered = {} THEN {} ELSE {p}), "crossed")

AcceptRequest(p) ==
  /\ p \in view.incoming
  /\ Emit("accept", p)
  /\ view' = [view EXCEPT !.incoming = @ \ {p}, !.friends = @ \cup {p}]
  /\ lastOp' = [type |-> "accept", peer |-> p]
  /\ mishap' = Blame(Unanswered, "crossed")

\* Mutant of DeclineRequest: recorded as the last operation, like the others.
DeclineRequest_Tracked(p) ==
  /\ p \in view.incoming
  /\ Emit("decline", p)
  /\ view' = [view EXCEPT !.incoming = @ \ {p}]
  /\ lastOp' = [type |-> "decline", peer |-> p]
  /\ UNCHANGED mishap

DeclineRequest(p) ==
  /\ p \in view.incoming
  /\ Emit("decline", p)
  /\ view' = [view EXCEPT !.incoming = @ \ {p}]
  /\ UNCHANGED <<lastOp, mishap>>

-----------------------------------------------------------------------------
(* The server, and the other users.                                         *)

\* Emits to the user's room: nobody is there when the page is disconnected.
Notify(type, p) ==
  /\ toPage' = IF link THEN Append(toPage, [type |-> type, peer |-> p]) ELSE toPage
  /\ mishap' = IF link THEN mishap ELSE Blame({p}, Missed)

Receives(type, p) ==
  /\ link
  /\ toServer # <<>>
  /\ Head(toServer) = [type |-> type, peer |-> p]
  /\ toServer' = Tail(toServer)
  /\ UNCHANGED <<accounts, link, pageVars, boundVars>>

ServerRequest(p) ==
  /\ Receives("request", p)
  /\ \/ /\ p \in accounts
        /\ mine' = mine \cup {p}
        /\ UNCHANGED <<toPage, mishap>>
     \/ /\ p \notin accounts
        /\ Notify("nouser", p)
        /\ UNCHANGED mine
  /\ UNCHANGED <<theirs, mates>>

ServerAccept(p) ==
  /\ Receives("accept", p)
  /\ \/ /\ p \in theirs
        /\ theirs' = theirs \ {p}
        /\ mates' = mates \cup {p}
        /\ UNCHANGED <<toPage, mishap>>
     \/ /\ p \notin theirs
        /\ toPage' = Append(toPage, [type |-> "notfound", peer |-> p])
        /\ mishap' = Blame({p}, "refused")
        /\ UNCHANGED <<theirs, mates>>
  /\ UNCHANGED mine

ServerDecline(p) ==
  /\ Receives("decline", p)
  /\ \/ /\ p \in theirs
        /\ theirs' = theirs \ {p}
        /\ UNCHANGED <<toPage, mishap>>
     \/ /\ p \notin theirs
        /\ Notify("notfound", p)
        /\ UNCHANGED theirs
  /\ UNCHANGED <<mine, mates>>

Moves ==
  /\ moves < MaxMoves
  /\ moves' = moves + 1
  /\ UNCHANGED <<link, toServer, pageVars, clicks, drops>>

Acts(p) ==
  /\ p \in accounts
  /\ Moves
  /\ UNCHANGED accounts

PeerAsks(p) ==
  /\ Acts(p)
  /\ theirs' = theirs \cup {p}
  /\ Notify("incoming", p)
  /\ UNCHANGED <<mine, mates>>

PeerAccepts(p) ==
  /\ p \in mine
  /\ Acts(p)
  /\ mine' = mine \ {p}
  /\ mates' = mates \cup {p}
  /\ Notify("accepted", p)
  /\ UNCHANGED theirs

PeerDeclines(p) ==
  /\ p \in mine
  /\ Acts(p)
  /\ mine' = mine \ {p}
  /\ Notify("rejected", p)
  /\ UNCHANGED <<theirs, mates>>

\* The account of p expires or is deleted: user:p, requests:p and friends:p go, but
\* p stays in the sets of the user.
PeerLeaves(p) ==
  /\ p \in accounts
  /\ Moves
  /\ accounts' = accounts \ {p}
  /\ mine' = mine \ {p}
  /\ mishap' = Blame(mine \cap {p}, "ended")
  /\ UNCHANGED <<theirs, mates, toPage>>

PeerSignsUp(p) ==
  /\ p \notin accounts
  /\ Moves
  /\ accounts' = accounts \cup {p}
  /\ UNCHANGED <<theirs, mine, mates, toPage, mishap>>

-----------------------------------------------------------------------------
(* The page's listeners.                                                    *)

Hears(type, p) ==
  /\ toPage # <<>>
  /\ Head(toPage) = [type |-> type, peer |-> p]
  /\ toPage' = Tail(toPage)
  /\ UNCHANGED <<serverVars, link, toServer, ref, fetch, loaded, boundVars, mishap>>

\* The operation is forgotten when its peer is heard of.
Answered(p) == IF lastOp # NoOp /\ lastOp.peer = p THEN NoOp ELSE lastOp

HandleFriendIncoming(p) ==
  /\ Hears("incoming", p)
  /\ view' = [view EXCEPT !.incoming = @ \cup {p}]
  /\ UNCHANGED lastOp

\* Mutant of HandleFriendAccepted: the friend is not added.
HandleFriendAccepted_NotAdded(p) ==
  /\ Hears("accepted", p)
  /\ view' = [view EXCEPT !.outgoing = @ \ {p}, !.incoming = @ \ {p}]
  /\ lastOp' = Answered(p)

HandleFriendAccepted(p) ==
  /\ Hears("accepted", p)
  /\ view' = [friends |-> view.friends \cup {p}, outgoing |-> view.outgoing \ {p},
              incoming |-> view.incoming \ {p}]
  /\ lastOp' = Answered(p)

\* Mutant of HandleFriendRejected: taken for an acceptance.
HandleFriendRejected_Added(p) ==
  /\ Hears("rejected", p)
  /\ view' = [view EXCEPT !.outgoing = @ \ {p}, !.friends = @ \cup {p}]
  /\ lastOp' = Answered(p)

HandleFriendRejected(p) ==
  /\ Hears("rejected", p)
  /\ view' = [view EXCEPT !.outgoing = @ \ {p}]
  /\ lastOp' = Answered(p)

\* The wording of an error is compared with the last operation.  Only "User x
\* does not exist.", for a request, ever matches: "You don't have any friend
\* requests from x.", the error of an accept, holds none of the words looked for.
\* The error does not say whom it is about, so the last operation is undone.
Matches(type) == lastOp # NoOp /\ lastOp.type = "request" /\ type = "nouser"

\* Mutant of HandleFriendError: nothing is undone.
HandleFriendError_NoRevert(p) ==
  \E type \in {"nouser", "notfound"} :
    /\ Hears(type, p)
    /\ UNCHANGED <<view, lastOp>>

HandleFriendError(p) ==
  \E type \in {"nouser", "notfound"} :
    /\ Hears(type, p)
    /\ \/ /\ Matches(type)
          /\ view' = [view EXCEPT !.outgoing = @ \ {lastOp.peer}]
          /\ lastOp' = NoOp
       \/ /\ ~Matches(type)
          /\ UNCHANGED <<view, lastOp>>

-----------------------------------------------------------------------------
(* The connection.  What is under way is lost; nothing is loaded again when *)
(* the socket reconnects, and what the page emitted meanwhile is sent then. *)

PeersOf(packets) == {packet.peer : packet \in Range(packets)}

Drop ==
  /\ link
  /\ drops < MaxDrops
  /\ drops' = drops + 1
  /\ link' = FALSE
  /\ toServer' = <<>>
  /\ toPage' = <<>>
  /\ mishap' = [p \in Peers |->
                  mishap[p] \cup (IF p \in PeersOf(toServer) THEN {"lost"} ELSE {})
                            \cup (IF p \in PeersOf(toPage) THEN {Missed} ELSE {})]
  /\ UNCHANGED <<serverVars, pageVars, clicks, moves>>

Reconnect ==
  /\ ~link
  /\ link' = TRUE
  /\ UNCHANGED <<serverVars, toServer, toPage, pageVars, boundVars, mishap>>

-----------------------------------------------------------------------------
LoadStep == AnswerFriends \/ AnswerRequests \/ Load \/ LoadFails \/ SyncRef

UserStep(p) == SendFriendRequest(p) \/ AcceptRequest(p) \/ DeclineRequest(p)

ServerStep(p) ==
  \/ ServerRequest(p)
  \/ ServerAccept(p)
  \/ ServerDecline(p)
  \/ PeerAsks(p)
  \/ PeerAccepts(p)
  \/ PeerDeclines(p)
  \/ PeerLeaves(p)
  \/ PeerSignsUp(p)

EventStep(p) ==
  \/ HandleFriendIncoming(p)
  \/ HandleFriendAccepted(p)
  \/ HandleFriendRejected(p)
  \/ HandleFriendError(p)

Next ==
  \/ LoadStep
  \/ \E p \in Peers : UserStep(p) \/ ServerStep(p) \/ EventStep(p)
  \/ Drop
  \/ Reconnect

Spec == Init /\ [][Next]_vars

-----------------------------------------------------------------------------
(* What the lists promise, once nothing is under way.                       *)

Quiet == loaded = "ok" /\ link /\ toServer = <<>> /\ toPage = <<>>

Spared(p, what) == mishap[p] \cap what = {}

\* Every friend is shown, however the load, the events and the clicks have
\* overlapped (useChat.ts:205-209): except one whose "friend:accepted" was lost,
\* because a reconnect loads nothing, and one that the load has overwritten,
\* because friendsRef lags behind the state.
FriendsAreShown ==
  Quiet => \A p \in mates : Spared(p, {"missed", "overwritten"}) => p \in view.friends

\* Whoever is shown as a friend is one, or is about to be, except after an
\* accept that the server refused or never got (useChat.ts:573-586).  A friend
\* whose account has ended still is one: the server keeps the name in
\* friends:<user>.
ShownFriendsAreReal ==
  \A p \in view.friends :
    \/ p \in mates
    \/ [type |-> "accept", peer |-> p] \in Range(toServer)
    \/ ~Spared(p, {"refused", "lost"})

\* A request shown as pending is one the server holds, except when the request,
\* or the answer to it, was lost, when another operation took its place in lastOp
\* before the error came (useChat.ts:479-505), or when it ended with the account
\* of the peer, which nobody tells the page (user.service.ts:35-42).
PendingIsHonest ==
  Quiet => \A p \in view.outgoing :
             \/ p \in mine
             \/ ~Spared(p, {"missed", "unheard", "lost", "crossed", "ended"})

\* Every request to the user is shown, except one whose event, or whose answer
\* by the user, was lost, and except that of a friend: an acceptance of one's own
\* request hides the other's (useChat.ts:462).
RequestsAreShown ==
  Quiet => \A p \in theirs :
             \/ p \in view.incoming
             \/ p \in mates
             \/ ~Spared(p, {"missed", "lost"})
=============================================================================
