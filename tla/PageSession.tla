---------------------------- MODULE PageSession ----------------------------
(***************************************************************************)
(* Who a page believes its user is (useAuth.tsx, socket.ts), for the tabs  *)
(* of ONE browser, which share the session cookie and localStorage.  The   *)
(* backend never says whose session a cookie names: a page keeps the name  *)
(* it logged in with, and learns only whether its socket is let in.        *)
(*                                                                         *)
(* A tab has one socket object.  Packets emitted while it is not connected *)
(* wait in its send buffer, which outlives everything but the object.      *)
(***************************************************************************)
EXTENDS Naturals, SequencesExt

CONSTANTS
  Tabs,          \* the tabs of the browser
  Users,         \* the accounts somebody uses in it
  MaxLogins,     \* how often somebody logs in or signs up
  MaxReloads,    \* how often a tab is loaded again
  MaxEvictions,  \* how often a session is ended from elsewhere
  MaxDrops       \* how often a connection is lost

ASSUME BoundsAssumption ==
  /\ MaxLogins \in Nat
  /\ MaxReloads \in Nat
  /\ MaxEvictions \in Nat
  /\ MaxDrops \in Nat

Nobody == "nobody"

\* What stands for no user and for the requests that log nobody in is no user.
ASSUME UsersAssumption == {Nobody, "none", "logout", "lost"} \cap Users = {}

VARIABLES
  cookie,     \* the user whose live session the cookie names
  stored,     \* the name in localStorage
  tab,        \* tab[t]: the AuthProvider of t and its socket
  logins, reloads, evictions, drops,  \* bounds
  strayed,    \* history: a packet of one user has reached the session of another
  dismissed,  \* history: tabs that the server has disconnected
  mixed       \* history: what can mix users up, see Confusions

boundVars == <<logins, reloads, evictions, drops>>
vars == <<cookie, stored, tab, logins, reloads, evictions, drops, strayed,
          dismissed, mixed>>

-----------------------------------------------------------------------------
Names == Users \cup {Nobody}

\* status and user are the state of useAuth; link is the socket, "refused" when
\* its handshake has been and the page does not know yet; as is the user of the
\* session it was let in with; buffer has a name for each packet that waits;
\* request is the HTTP request under way: a logout, the login of a user, or one
\* that the page will take for a failure, "lost".
Tab == [status : {"loading", "authenticated", "unauthenticated"}, user : Names,
        link : {"off", "connecting", "refused", "up"}, as : Names,
        buffer : Seq(Users), request : {"none", "logout", "lost"} \cup Users]

(* "kept": a refused page left a packet in its buffer.  "shared": somebody   *)
(* logged in while another tab showed somebody else.  "overlap": a login     *)
(* began with another request under way, or a reload cut one off.  "lost":   *)
(* the last login that the server has served is one whose page takes it for  *)
(* a failure; the next login ends that.                                      *)
Confusions == {"kept", "shared", "overlap", "lost"}

TypeOK ==
  /\ cookie \in Names
  /\ stored \in Names
  /\ tab \in [Tabs -> Tab]
  /\ logins \in 0..MaxLogins
  /\ reloads \in 0..MaxReloads
  /\ evictions \in 0..MaxEvictions
  /\ drops \in 0..MaxDrops
  /\ strayed \in BOOLEAN
  /\ dismissed \subseteq Tabs
  /\ mixed \subseteq Confusions

\* A page that has just been loaded while localStorage holds the name: it probes
\* the session by connecting if there is one.
Loaded(name) ==
  [status |-> IF name = Nobody THEN "unauthenticated" ELSE "loading",
   user |-> name, link |-> IF name = Nobody THEN "off" ELSE "connecting",
   as |-> Nobody, buffer |-> <<>>, request |-> "none"]

\* The session may have ended since the name was stored.
Init ==
  /\ stored \in Names
  /\ cookie \in {Nobody, stored}
  /\ tab = [t \in Tabs |-> Loaded(stored)]
  /\ logins = 0
  /\ reloads = 0
  /\ evictions = 0
  /\ drops = 0
  /\ strayed = FALSE
  /\ dismissed = {}
  /\ mixed = {}

Reload(t) ==
  /\ reloads < MaxReloads
  /\ reloads' = reloads + 1
  /\ tab' = [tab EXCEPT ![t] = Loaded(stored)]
  /\ dismissed' = dismissed \ {t}
  /\ mixed' = IF tab[t].request = "none" THEN mixed ELSE mixed \cup {"overlap"}
  /\ UNCHANGED <<cookie, stored, logins, evictions, drops, strayed>>

-----------------------------------------------------------------------------
(* The handshake.                                                           *)

\* The cookie names a session: the socket is let in as its user, the buffer is
\* sent, and handleConnect says so.
Connected(t) ==
  /\ tab[t].link = "connecting"
  /\ cookie # Nobody
  /\ tab' = [tab EXCEPT ![t].link = "up", ![t].as = cookie, ![t].buffer = <<>>,
                        ![t].status = "authenticated"]
  /\ strayed' = (strayed \/ \E u \in ToSet(tab[t].buffer) : u # cookie)
  /\ UNCHANGED <<cookie, stored, boundVars, dismissed, mixed>>

\* It names none: "User connected to websocket without a session."
Refuse(t) ==
  /\ tab[t].link = "connecting"
  /\ cookie = Nobody
  /\ tab' = [tab EXCEPT ![t].link = "refused"]
  /\ UNCHANGED <<cookie, stored, boundVars, strayed, dismissed, mixed>>

\* Mutant of HandleConnectError: any error is left to the next attempt.
HandleConnectError_Retries(t) ==
  /\ tab[t].link = "refused"
  /\ tab' = [tab EXCEPT ![t].link = "connecting"]
  /\ UNCHANGED <<cookie, stored, boundVars, strayed, dismissed, mixed>>

\* Mutant of HandleConnectError: an error state the type does not have.
HandleConnectError_Status(t) ==
  /\ tab[t].link = "refused"
  /\ tab' = [tab EXCEPT ![t].link = "off", ![t].status = "refused",
                        ![t].user = Nobody]
  /\ stored' = Nobody
  /\ UNCHANGED <<cookie, boundVars, strayed, dismissed, mixed>>

\* handleConnectError disconnects the socket, whose buffer stays, and forgets
\* the name, whoever has stored it meanwhile.
HandleConnectError(t) ==
  /\ tab[t].link = "refused"
  /\ tab' = [tab EXCEPT ![t].link = "off", ![t].status = "unauthenticated",
                        ![t].user = Nobody]
  /\ stored' = Nobody
  /\ mixed' = IF tab[t].buffer = <<>> THEN mixed ELSE mixed \cup {"kept"}
  /\ UNCHANGED <<cookie, boundVars, strayed, dismissed>>

\* The transport is lost: socket.io goes on trying to reconnect.
Drop(t) ==
  /\ tab[t].link = "up"
  /\ drops < MaxDrops
  /\ drops' = drops + 1
  /\ tab' = [tab EXCEPT ![t].link = "connecting", ![t].as = Nobody]
  /\ UNCHANGED <<cookie, stored, logins, reloads, evictions, strayed, dismissed,
                 mixed>>

\* The server disconnects the sockets of u: socket.io does not reconnect.
Dismiss(u) == {t \in Tabs : tab[t].link = "up" /\ tab[t].as = u}

Without(gone) ==
  [t \in Tabs |-> IF t \in gone THEN [tab[t] EXCEPT !.link = "off", !.as = Nobody]
                  ELSE tab[t]]

-----------------------------------------------------------------------------
(* Logging in and out: the server does its part, then the page.             *)

\* The form is there while nobody is logged in, and takes one submission at a time.
Submits(t) == tab[t].status = "unauthenticated" /\ tab[t].request = "none"

\* POST /api/auth/login or /api/users.  The session the cookie names becomes one
\* of u; without one, the response brings the cookie of a new one.  The response
\* may be lost, before or after its headers, or report an error although the
\* session has been set.  The sockets of u may be disconnected (module Accounts
\* says when).
LoginServed(t, u) ==
  /\ Submits(t)
  /\ logins < MaxLogins
  /\ logins' = logins + 1
  /\ \E answer \in {u, "lost"}, gone \in {{}, Dismiss(u)} :
       /\ cookie' \in {u} \cup (IF answer = "lost" /\ cookie = Nobody THEN {Nobody} ELSE {})
       /\ tab' = [Without(gone) EXCEPT ![t].request = answer]
       /\ dismissed' = dismissed \cup gone
       /\ mixed' = (mixed \ {"lost"}) \cup ({answer} \cap {"lost"}) \cup
            {c \in {"shared"} : \E x \in Tabs \ {t} : tab[x].user \notin {u, Nobody}} \cup
            {c \in {"overlap"} : \E x \in Tabs \ {t} : tab[x].request # "none"}
  /\ UNCHANGED <<stored, reloads, evictions, drops, strayed>>

\* Mutants of LoginDone: a name that is stored stays; the socket is not connected.
LoginDone_KeepsName(t) ==
  /\ tab[t].request \in Users
  /\ tab' = [tab EXCEPT ![t].status = "authenticated", ![t].request = "none",
                        ![t].user = tab[t].request, ![t].link = "connecting"]
  /\ stored' = IF stored = Nobody THEN tab[t].request ELSE stored
  /\ dismissed' = dismissed \ {t}
  /\ UNCHANGED <<cookie, boundVars, strayed, mixed>>

LoginDone_NoSocket(t) ==
  /\ tab[t].request \in Users
  /\ tab' = [tab EXCEPT ![t].status = "authenticated", ![t].request = "none",
                        ![t].user = tab[t].request]
  /\ stored' = tab[t].request
  /\ dismissed' = dismissed \ {t}
  /\ UNCHANGED <<cookie, boundVars, strayed, mixed>>

\* The name is stored and shown; the effect of its change connects the socket.
LoginDone(t) ==
  /\ tab[t].request \in Users
  /\ tab' = [tab EXCEPT ![t].status = "authenticated", ![t].request = "none",
                        ![t].user = tab[t].request, ![t].link = "connecting"]
  /\ stored' = tab[t].request
  /\ dismissed' = dismissed \ {t}
  /\ UNCHANGED <<cookie, boundVars, strayed, mixed>>

\* login or signup rejects: the form shows an error and can be submitted again;
\* no name is stored and no socket connected, whatever the server has done.
LoginFailed(t) ==
  /\ tab[t].request = "lost"
  /\ tab' = [tab EXCEPT ![t].request = "none"]
  /\ UNCHANGED <<cookie, stored, boundVars, strayed, dismissed, mixed>>

\* POST /api/auth/logout ends the session and disconnects its user's sockets;
\* or it fails, which the page takes for a success.
LogoutServed(t) ==
  /\ tab[t].status = "authenticated"
  /\ tab[t].request = "none"
  /\ \/ /\ cookie' = Nobody
        /\ tab' = [Without(Dismiss(cookie)) EXCEPT ![t].request = "logout"]
        /\ dismissed' = dismissed \cup Dismiss(cookie)
     \/ /\ tab' = [tab EXCEPT ![t].request = "logout"]
        /\ UNCHANGED <<cookie, dismissed>>
  /\ UNCHANGED <<stored, boundVars, strayed, mixed>>

\* Mutant of LogoutDone: the socket object is kept.
LogoutDone_KeepsSocket(t) ==
  /\ tab[t].request = "logout"
  /\ tab' = [tab EXCEPT ![t] = [Loaded(Nobody) EXCEPT !.buffer = tab[t].buffer]]
  /\ stored' = Nobody
  /\ UNCHANGED <<cookie, boundVars, strayed, dismissed, mixed>>

\* destroySocket: the next login gets a new one.
LogoutDone(t) ==
  /\ tab[t].request = "logout"
  /\ tab' = [tab EXCEPT ![t] = Loaded(Nobody)]
  /\ stored' = Nobody
  /\ UNCHANGED <<cookie, boundVars, strayed, dismissed, mixed>>

\* The user logs in on another device, deletes the account, or it expires.
Evict ==
  /\ cookie # Nobody
  /\ evictions < MaxEvictions
  /\ evictions' = evictions + 1
  /\ cookie' = Nobody
  /\ tab' = Without(Dismiss(cookie))
  /\ dismissed' = dismissed \cup Dismiss(cookie)
  /\ UNCHANGED <<stored, logins, reloads, drops, strayed, mixed>>

-----------------------------------------------------------------------------
\* The chat emits something: it is rendered only for an authenticated user.  One
\* packet in a buffer is enough.
Emit(t) ==
  /\ tab[t].status = "authenticated"
  /\ tab[t].user # Nobody
  /\ \/ /\ tab[t].link = "up"
        /\ strayed' = (strayed \/ tab[t].user # tab[t].as)
        /\ UNCHANGED tab
     \/ /\ tab[t].link # "up"
        /\ tab[t].buffer = <<>>
        /\ tab' = [tab EXCEPT ![t].buffer = Append(@, tab[t].user)]
        /\ UNCHANGED strayed
  /\ UNCHANGED <<cookie, stored, boundVars, dismissed, mixed>>

TabStep(t) ==
  \/ Reload(t)
  \/ Connected(t)
  \/ Refuse(t)
  \/ HandleConnectError(t)
  \/ Drop(t)
  \/ \E u \in Users : LoginServed(t, u)
  \/ LoginDone(t)
  \/ LoginFailed(t)
  \/ LogoutServed(t)
  \/ LogoutDone(t)
  \/ Emit(t)

Next == Evict \/ \E t \in Tabs : TabStep(t)

Spec == Init /\ [][Next]_vars

\* A socket that tries to connect gets an answer, and callbacks run.
Fairness ==
  \A t \in Tabs : WF_vars(Connected(t) \/ Refuse(t) \/ HandleConnectError(t))

FairSpec == Spec /\ Fairness

-----------------------------------------------------------------------------
(* What a page promises.                                                    *)

\* What a page emits reaches the server in a session of the user the page shows,
\* through drops, evictions, logins and logouts that fail and users who take turns
\* (useAuth.tsx:86-111).  Not if somebody logs in in another tab, or a page that is
\* refused leaves a packet in the buffer of the socket it does not destroy
\* (useAuth.tsx:66).
PacketsKeepTheirSender == strayed => mixed \ {"lost"} # {}

\* The name that the next load of a page will show is that of the session, even
\* if a tab forgets it while another logs in, or a logout leaves the session
\* behind; unless two requests overlapped, or the session is of a login that its
\* page takes for a failure (useAuth.tsx:87, 94; AuthForm.tsx:47-52), which hands
\* it over to another user under the name another tab has stored.
NameMatchesSession ==
  /\ \A t \in Tabs : tab[t].request = "none"
  /\ stored # Nobody
  /\ cookie # Nobody
  /\ mixed \cap {"overlap", "lost"} = {}
  => stored = cookie

\* A page that shows its chat without a socket that is or tries to be connected
\* was disconnected by the server; nothing tells it (useAuth.tsx:75-77).
OffMeansDismissed ==
  \A t \in Tabs :
    tab[t].status = "authenticated" /\ tab[t].link = "off" => t \in dismissed

\* The probe of the session always ends (useAuth.tsx:46-84).
ProbeEnds ==
  \A t \in Tabs : tab[t].status = "loading" ~> tab[t].status # "loading"
=============================================================================
