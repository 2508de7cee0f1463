------------------------- MODULE PageSession_proofs -------------------------
(***************************************************************************)
(* Theorems about PageSession, for every number of tabs, users, logins,     *)
(* reloads, evictions and drops.                                            *)
(***************************************************************************)
EXTENDS PageSession, TLAPS

-----------------------------------------------------------------------------
(* Type correctness.                                                        *)

\* A page that is loaded is a page, with nothing to send and nothing under way.
LEMMA LoadedPage == \A name \in Names : Loaded(name) \in Tab
BY DEF Loaded, Tab, Names

\* A page whose fields are changed is a page.
LEMMA PageFields ==
  ASSUME NEW p \in Tab
  PROVE  /\ \A l \in {"off", "connecting", "refused", "up"} :
              [p EXCEPT !.link = l] \in Tab
         /\ \A l \in {"off", "connecting", "refused", "up"}, n \in Names :
              [p EXCEPT !.link = l, !.as = n] \in Tab
         /\ \A n \in Names :
              [p EXCEPT !.link = "up", !.as = n, !.buffer = <<>>,
                        !.status = "authenticated"] \in Tab
         /\ [p EXCEPT !.link = "off", !.status = "unauthenticated",
                      !.user = Nobody] \in Tab
         /\ \A n \in Names :
              [p EXCEPT !.status = "authenticated", !.request = "none",
                        !.user = n, !.link = "connecting"] \in Tab
         /\ \A r \in {"none", "logout", "lost"} \cup Users :
              [p EXCEPT !.request = r] \in Tab
         /\ \A u \in Users :
              [p EXCEPT !.buffer = Append(p.buffer, u)] \in Tab
<1>1. <<>> \in Seq(Users) /\ \A u \in Users : Append(p.buffer, u) \in Seq(Users)
  BY DEF Tab
<1>2. QED BY <1>1 DEF Tab, Names

\* Disconnecting some pages leaves pages.
LEMMA WithoutPages ==
  ASSUME TypeOK
  PROVE  \A gone \in SUBSET Tabs : Without(gone) \in [Tabs -> Tab]
BY DEF TypeOK, Without, Tab, Names

\* A page that is disconnected keeps all but its socket.
LEMMA WithoutKeeps ==
  ASSUME TypeOK, NEW gone \in SUBSET Tabs, NEW x \in Tabs
  PROVE  /\ Without(gone)[x].status = tab[x].status
         /\ Without(gone)[x].user = tab[x].user
         /\ Without(gone)[x].buffer = tab[x].buffer
         /\ Without(gone)[x].request = tab[x].request
         /\ \/ /\ Without(gone)[x].link = tab[x].link
               /\ Without(gone)[x].as = tab[x].as
            \/ /\ Without(gone)[x].link = "off"
               /\ Without(gone)[x].as = Nobody
BY DEF TypeOK, Without, Tab

(* What the steps that disconnect pages do to them.                         *)
Unsocketed(x) ==
  /\ tab'[x].status = tab[x].status
  /\ tab'[x].user = tab[x].user
  /\ tab'[x].buffer = tab[x].buffer
  /\ \/ tab'[x].link = tab[x].link /\ tab'[x].as = tab[x].as
     \/ tab'[x].link = "off" /\ tab'[x].as = Nobody

\* An eviction touches nothing else.
LEMMA EvictPages ==
  ASSUME TypeOK, Evict
  PROVE  \A x \in Tabs : Unsocketed(x) /\ tab'[x].request = tab[x].request
BY WithoutKeeps DEF Evict, Dismiss, Unsocketed

\* A login that is served touches the request of its page.
LEMMA LoginServedPages ==
  ASSUME TypeOK, NEW t \in Tabs, NEW u \in Users, LoginServed(t, u)
  PROVE  /\ \A x \in Tabs : Unsocketed(x)
         /\ \A x \in Tabs \ {t} : tab'[x].request = tab[x].request
         /\ tab'[t].request \in {u, "lost"}
         /\ tab'[t].request = "lost" => "lost" \in mixed'
         /\ cookie' = u \/ (cookie' = Nobody /\ tab'[t].request = "lost")
<1>1. PICK answer \in {u, "lost"}, gone \in SUBSET Tabs :
        /\ tab' = [Without(gone) EXCEPT ![t].request = answer]
        /\ answer = "lost" => "lost" \in mixed'
        /\ cookie' = u \/ (cookie' = Nobody /\ answer = "lost")
  BY DEF LoginServed, Dismiss
<1>2. Without(gone) \in [Tabs -> Tab]
  BY WithoutPages
<1>3. \A x \in Tabs :
        /\ tab'[x].status = Without(gone)[x].status
        /\ tab'[x].user = Without(gone)[x].user
        /\ tab'[x].buffer = Without(gone)[x].buffer
        /\ tab'[x].link = Without(gone)[x].link
        /\ tab'[x].as = Without(gone)[x].as
        /\ tab'[x].request = IF x = t THEN answer
                           ELSE Without(gone)[x].request
  BY <1>1, <1>2 DEF Tab
<1>4. QED BY <1>1, <1>3, WithoutKeeps DEF Unsocketed

\* So does a logout that is served.
LEMMA LogoutServedPages ==
  ASSUME TypeOK, NEW t \in Tabs, LogoutServed(t)
  PROVE  /\ \A x \in Tabs : Unsocketed(x)
         /\ \A x \in Tabs \ {t} : tab'[x].request = tab[x].request
         /\ tab'[t].request = "logout"
<1>1. PICK gone \in SUBSET Tabs :
        \/ tab' = [Without(gone) EXCEPT ![t].request = "logout"]
        \/ tab' = [tab EXCEPT ![t].request = "logout"]
  BY DEF LogoutServed, Dismiss
<1>2. Without(gone) \in [Tabs -> Tab] /\ tab \in [Tabs -> Tab]
  BY WithoutPages DEF TypeOK
<1>3. CASE tab' = [tab EXCEPT ![t].request = "logout"]
  BY <1>2, <1>3 DEF Unsocketed, Tab
<1>4. CASE tab' = [Without(gone) EXCEPT ![t].request = "logout"]
  <2>1. \A x \in Tabs :
          /\ tab'[x].status = Without(gone)[x].status
          /\ tab'[x].user = Without(gone)[x].user
          /\ tab'[x].buffer = Without(gone)[x].buffer
          /\ tab'[x].link = Without(gone)[x].link
          /\ tab'[x].as = Without(gone)[x].as
          /\ tab'[x].request = IF x = t THEN "logout" ELSE Without(gone)[x].request
    BY <1>2, <1>4 DEF Tab
  <2>2. QED BY <2>1, WithoutKeeps DEF Unsocketed
<1>5. QED BY <1>1, <1>3, <1>4

\* No page but t changes.
OthersStay(t) == \A x \in Tabs \ {t} : tab'[x] = tab[x]

\* A reload: what it does to the pages.
LEMMA ReloadPage ==
  ASSUME TypeOK, NEW t \in Tabs, Reload(t)
  PROVE  /\ OthersStay(t)
         /\ tab'[t] = Loaded(stored)
BY DEF Reload, OthersStay, TypeOK, Tab

\* A socket that is let in: what it does to the pages.
LEMMA ConnectedPage ==
  ASSUME TypeOK, NEW t \in Tabs, Connected(t)
  PROVE  /\ OthersStay(t)
         /\ tab'[t].status = "authenticated"
         /\ tab'[t].user = tab[t].user
         /\ tab'[t].link = "up"
         /\ tab'[t].as = cookie
         /\ tab'[t].buffer = <<>>
         /\ tab'[t].request = tab[t].request
BY DEF Connected, OthersStay, TypeOK, Tab

\* A socket that is refused: what it does to the pages.
LEMMA RefusePage ==
  ASSUME TypeOK, NEW t \in Tabs, Refuse(t)
  PROVE  /\ OthersStay(t)
         /\ tab'[t].status = tab[t].status
         /\ tab'[t].user = tab[t].user
         /\ tab'[t].link = "refused"
         /\ tab'[t].as = tab[t].as
         /\ tab'[t].buffer = tab[t].buffer
         /\ tab'[t].request = tab[t].request
BY DEF Refuse, OthersStay, TypeOK, Tab

\* A page that learns so: what it does to the pages.
LEMMA HandleConnectErrorPage ==
  ASSUME TypeOK, NEW t \in Tabs, HandleConnectError(t)
  PROVE  /\ OthersStay(t)
         /\ tab'[t].status = "unauthenticated"
         /\ tab'[t].user = Nobody
         /\ tab'[t].link = "off"
         /\ tab'[t].as = tab[t].as
         /\ tab'[t].buffer = tab[t].buffer
         /\ tab'[t].request = tab[t].request
BY DEF HandleConnectError, OthersStay, TypeOK, Tab

\* A connection that is lost: what it does to the pages.
LEMMA DropPage ==
  ASSUME TypeOK, NEW t \in Tabs, Drop(t)
  PROVE  /\ OthersStay(t)
         /\ tab'[t].status = tab[t].status
         /\ tab'[t].user = tab[t].user
         /\ tab'[t].link = "connecting"
         /\ tab'[t].as = Nobody
         /\ tab'[t].buffer = tab[t].buffer
         /\ tab'[t].request = tab[t].request
BY DEF Drop, OthersStay, TypeOK, Tab

\* A login that is answered: what it does to the pages.
LEMMA LoginDonePage ==
  ASSUME TypeOK, NEW t \in Tabs, LoginDone(t)
  PROVE  /\ OthersStay(t)
         /\ tab'[t].status = "authenticated"
         /\ tab'[t].user = tab[t].request
         /\ tab'[t].link = "connecting"
         /\ tab'[t].as = tab[t].as
         /\ tab'[t].buffer = tab[t].buffer
         /\ tab'[t].request = "none"
BY DEF LoginDone, OthersStay, TypeOK, Tab

\* A login that fails: what it does to the pages.
LEMMA LoginFailedPage ==
  ASSUME TypeOK, NEW t \in Tabs, LoginFailed(t)
  PROVE  /\ OthersStay(t)
         /\ tab'[t].status = tab[t].status
         /\ tab'[t].user = tab[t].user
         /\ tab'[t].link = tab[t].link
         /\ tab'[t].as = tab[t].as
         /\ tab'[t].buffer = tab[t].buffer
         /\ tab[t].request = "lost"
         /\ tab'[t].request = "none"
BY DEF LoginFailed, OthersStay, TypeOK, Tab

\* A logout that is answered: what it does to the pages.
LEMMA LogoutDonePage ==
  ASSUME TypeOK, NEW t \in Tabs, LogoutDone(t)
  PROVE  /\ OthersStay(t)
         /\ tab'[t] = Loaded(Nobody)
BY DEF LogoutDone, OthersStay, TypeOK, Tab

\* A packet: what it does to the pages.
LEMMA EmitPage ==
  ASSUME TypeOK, NEW t \in Tabs, Emit(t)
  PROVE  /\ OthersStay(t)
         /\ tab'[t].status = tab[t].status
         /\ tab'[t].user = tab[t].user
         /\ tab'[t].link = tab[t].link
         /\ tab'[t].as = tab[t].as
         /\ tab'[t].request = tab[t].request
         /\ \/ tab'[t].buffer = tab[t].buffer
            \/ /\ tab[t].buffer = <<>>
               /\ tab'[t].buffer = Append(<<>>, tab[t].user)
BY DEF Emit, OthersStay, TypeOK, Tab

\* Initially every variable has its type.
LEMMA InitTyped == Init => TypeOK
<1> SUFFICES ASSUME Init PROVE TypeOK
  OBVIOUS
<1>1. tab \in [Tabs -> Tab]
  BY LoadedPage DEF Init
<1>2. cookie \in Names /\ stored \in Names /\ strayed \in BOOLEAN
  BY DEF Init, Names
<1>3. /\ logins \in 0..MaxLogins
      /\ reloads \in 0..MaxReloads
      /\ evictions \in 0..MaxEvictions
      /\ drops \in 0..MaxDrops
  BY BoundsAssumption DEF Init
<1>4. QED BY <1>1, <1>2, <1>3 DEF Init, TypeOK

\* Every step keeps the types.
LEMMA StepTyped ==
  ASSUME TypeOK, [Next]_vars
  PROVE  TypeOK'
<1> USE BoundsAssumption
<1>1. CASE UNCHANGED vars
  BY <1>1 DEF vars, boundVars, TypeOK
<1>2. CASE Evict
  <2>1. Dismiss(cookie) \subseteq Tabs
    BY DEF Dismiss
  <2>2. Without(Dismiss(cookie)) \in [Tabs -> Tab]
    BY <2>1, WithoutPages
  <2>3. QED BY <1>2, <2>1, <2>2 DEF Evict, TypeOK, Names
<1>3. ASSUME NEW t \in Tabs, TabStep(t)
      PROVE  TypeOK'
  <2> PICK p \in Tab : p = tab[t]
    BY DEF TypeOK
  <2>1. CASE Reload(t)
    <3>1. tab' \in [Tabs -> Tab]
      BY <2>1, LoadedPage DEF Reload, TypeOK
    <3>2. QED BY <2>1, <3>1 DEF Reload, TypeOK, Confusions
  <2>2. CASE Connected(t)
    <3>1. tab' = [tab EXCEPT ![t] =
                    [p EXCEPT !.link = "up", !.as = cookie, !.buffer = <<>>,
                              !.status = "authenticated"]]
      BY <2>2 DEF Connected
    <3>4. tab' \in [Tabs -> Tab]
      BY <3>1, PageFields DEF TypeOK
    <3>2. strayed' \in BOOLEAN
      BY <2>2 DEF Connected
    <3>3. QED BY <2>2, <3>2, <3>4 DEF Connected, TypeOK, boundVars
  <2>3. CASE Refuse(t)
    <3>1. tab' \in [Tabs -> Tab]
      BY <2>3, PageFields DEF Refuse, TypeOK
    <3>2. QED BY <2>3, <3>1 DEF Refuse, TypeOK, boundVars
  <2>4. CASE HandleConnectError(t)
    <3>1. tab' = [tab EXCEPT ![t] =
                    [p EXCEPT !.link = "off", !.status = "unauthenticated",
                              !.user = Nobody]]
      BY <2>4 DEF HandleConnectError
    <3>2. tab' \in [Tabs -> Tab]
      BY <3>1, PageFields DEF TypeOK
    <3>3. QED BY <2>4, <3>2 DEF HandleConnectError, TypeOK, boundVars, Names,
                 Confusions
  <2>5. CASE Drop(t)
    <3>1. tab' = [tab EXCEPT ![t] = [p EXCEPT !.link = "connecting", !.as = Nobody]]
      BY <2>5 DEF Drop
    <3>2. tab' \in [Tabs -> Tab]
      BY <3>1, PageFields DEF TypeOK, Names
    <3>3. QED BY <2>5, <3>2 DEF Drop, TypeOK
  <2>6. ASSUME NEW u \in Users, LoginServed(t, u)
        PROVE  TypeOK'
    <3>1. PICK answer \in {u, "lost"}, gone \in {{}, Dismiss(u)} :
            /\ tab' = [Without(gone) EXCEPT ![t].request = answer]
            /\ dismissed' = dismissed \cup gone
            /\ cookie' \in {u, Nobody}
      BY <2>6 DEF LoginServed
    <3>2. gone \subseteq Tabs
      BY DEF Dismiss
    <3>3. Without(gone) \in [Tabs -> Tab]
      BY <3>2, WithoutPages
    <3>4. tab' \in [Tabs -> Tab]
      BY <3>1, <3>3 DEF Tab
    <3>5. mixed' \subseteq Confusions
      BY <2>6 DEF LoginServed, TypeOK, Confusions
    <3>6. QED BY <2>6, <3>1, <3>2, <3>4, <3>5 DEF LoginServed, TypeOK, Names
  <2>7. CASE LoginDone(t)
    <3>1. tab' = [tab EXCEPT ![t] =
                    [p EXCEPT !.status = "authenticated", !.request = "none",
                              !.user = p.request, !.link = "connecting"]]
      BY <2>7 DEF LoginDone
    <3>2. p.request \in Names
      BY <2>7 DEF LoginDone, Names
    <3>3. tab' \in [Tabs -> Tab]
      BY <3>1, <3>2, PageFields DEF TypeOK
    <3>4. QED BY <2>7, <3>2, <3>3 DEF LoginDone, TypeOK, boundVars, Names
  <2>8. CASE LogoutServed(t)
    <3>1. Dismiss(cookie) \subseteq Tabs
      BY DEF Dismiss
    <3>2. Without(Dismiss(cookie)) \in [Tabs -> Tab]
      BY <3>1, WithoutPages
    <3>3. tab' \in [Tabs -> Tab]
      <4>1. PICK pages \in [Tabs -> Tab] :
              tab' = [pages EXCEPT ![t] = [pages[t] EXCEPT !.request = "logout"]]
        BY <2>8, <3>2 DEF LogoutServed, TypeOK
      <4>2. [pages[t] EXCEPT !.request = "logout"] \in Tab
        BY PageFields
      <4>3. QED BY <4>1, <4>2
    <3>4. cookie' \in Names /\ dismissed' \subseteq Tabs
      BY <2>8, <3>1 DEF LogoutServed, TypeOK, Names
    <3>5. QED BY <2>8, <3>3, <3>4 DEF LogoutServed, TypeOK, boundVars
  <2>9. CASE LogoutDone(t)
    <3>1. tab' \in [Tabs -> Tab]
      BY <2>9, LoadedPage DEF LogoutDone, TypeOK, Names
    <3>2. QED BY <2>9, <3>1 DEF LogoutDone, TypeOK, boundVars, Names
  <2>10. CASE Emit(t)
    <3>1. tab' \in [Tabs -> Tab]
      <4>1. p.user \in Users
        BY <2>10 DEF Emit, Tab, Names
      <4>2. tab' = tab \/ tab' = [tab EXCEPT ![t] =
                                   [p EXCEPT !.buffer = Append(p.buffer, p.user)]]
        BY <2>10 DEF Emit
      <4>3. [p EXCEPT !.buffer = Append(p.buffer, p.user)] \in Tab
        BY <4>1, PageFields
      <4>4. QED BY <4>2, <4>3 DEF TypeOK
    <3>2. strayed' \in BOOLEAN
      BY <2>10 DEF Emit, TypeOK
    <3>3. QED BY <2>10, <3>1, <3>2 DEF Emit, TypeOK, boundVars
  <2>12. CASE LoginFailed(t)
    <3>1. tab' \in [Tabs -> Tab]
      BY <2>12, PageFields DEF LoginFailed, TypeOK
    <3>2. QED BY <2>12, <3>1 DEF LoginFailed, TypeOK, boundVars
  <2>11. QED BY <1>3, <2>1, <2>2, <2>3, <2>4, <2>5, <2>6, <2>7, <2>8, <2>9,
                <2>10, <2>12 DEF TabStep
<1>4. QED BY <1>1, <1>2, <1>3 DEF Next

(* The pages, their sockets, the cookie and localStorage have the types the *)
(* code gives them: a page is only ever in one of the three states of       *)
(* useAuth.tsx:24.                                                          *)
THEOREM TypeCorrect == Spec => []TypeOK
BY InitTyped, StepTyped, PTL DEF Spec

-----------------------------------------------------------------------------
(* A page without a socket.                                                 *)

\* Initially no page shows its chat.
LEMMA InitOff == Init => OffMeansDismissed
BY DEF Init, OffMeansDismissed, Loaded

\* A step that turns a socket off shows the login form, or is the server's.
LEMMA StepOff ==
  ASSUME TypeOK, OffMeansDismissed, [Next]_vars
  PROVE  OffMeansDismissed'
<1>1. CASE UNCHANGED vars
  BY <1>1 DEF vars, OffMeansDismissed
<1>2. CASE Evict
  BY <1>2 DEF Evict, OffMeansDismissed, Without, TypeOK, Tab
<1>3. ASSUME NEW t \in Tabs, TabStep(t)
      PROVE  OffMeansDismissed'
  <2>1. CASE Reload(t)
    BY <2>1 DEF Reload, Loaded, OffMeansDismissed, TypeOK
  <2>2. CASE Connected(t)
    BY <2>2 DEF Connected, OffMeansDismissed, TypeOK, Tab
  <2>3. CASE Refuse(t)
    BY <2>3 DEF Refuse, OffMeansDismissed, TypeOK, Tab
  <2>4. CASE HandleConnectError(t)
    BY <2>4 DEF HandleConnectError, OffMeansDismissed, TypeOK, Tab
  <2>5. CASE Drop(t)
    BY <2>5 DEF Drop, OffMeansDismissed, TypeOK, Tab
  <2>6. ASSUME NEW u \in Users, LoginServed(t, u)
        PROVE  OffMeansDismissed'
    <3>1. PICK answer \in {u, "lost"}, gone \in {{}, Dismiss(u)} :
            /\ tab' = [Without(gone) EXCEPT ![t].request = answer]
            /\ dismissed' = dismissed \cup gone
      BY <2>6 DEF LoginServed
    <3>2. QED BY <3>1 DEF Without, OffMeansDismissed, TypeOK, Tab
  <2>7. CASE LoginDone(t)
    BY <2>7 DEF LoginDone, OffMeansDismissed, TypeOK, Tab
  <2>8. CASE LogoutServed(t)
    BY <2>8 DEF LogoutServed, Without, OffMeansDismissed, TypeOK, Tab
  <2>9. CASE LogoutDone(t)
    BY <2>9 DEF LogoutDone, Loaded, OffMeansDismissed, TypeOK
  <2>10. CASE Emit(t)
    BY <2>10 DEF Emit, OffMeansDismissed, TypeOK, Tab
  <2>12. CASE LoginFailed(t)
    BY <2>12 DEF LoginFailed, OffMeansDismissed, TypeOK, Tab
  <2>11. QED BY <1>3, <2>1, <2>2, <2>3, <2>4, <2>5, <2>6, <2>7, <2>8, <2>9,
                <2>10, <2>12 DEF TabStep
<1>4. QED BY <1>1, <1>2, <1>3 DEF Next

(* A page that shows its chat while its socket neither is nor tries to be   *)
(* connected has been disconnected by the server (useAuth.tsx:75-77): no     *)
(* other order of probes, logins, reloads and lost connections gets there.  *)
THEOREM OffMeansDismissedCorrect == Spec => []OffMeansDismissed
BY TypeCorrect, InitOff, StepOff, PTL DEF Spec
-----------------------------------------------------------------------------
(* The name and the cookie.                                                 *)

(* Between the two halves of a login the cookie may already name its user    *)
(* while localStorage does not.  Unless requests overlap there is one such    *)
(* login at a time, and a session that is not its user's has ended.  After    *)
(* it the two agree, unless its page has taken it for a failure.              *)
LoginInv ==
  "overlap" \notin mixed =>
    /\ \A t, x \in Tabs :
         tab[t].request \in Users /\ tab[x].request \in Users => t = x
    /\ \A t \in Tabs : tab[t].request \in Users => cookie \in {tab[t].request, Nobody}
    /\ (\A t \in Tabs : tab[t].request \notin Users) /\ "lost" \notin mixed =>
         cookie = Nobody \/ stored \in {cookie, Nobody}

\* A page that has just been loaded has no request under way.
LEMMA InitLogin == Init => LoginInv
BY UsersAssumption DEF Init, LoginInv, Loaded

\* Losing the name or the session, and requests that log nobody in, do no harm.
LEMMA QuietLogin ==
  ASSUME LoginInv,
         mixed \subseteq mixed',
         \A x \in Tabs : \/ tab'[x].request = tab[x].request
                         \/ /\ tab'[x].request \notin Users
                            /\ tab[x].request \notin Users,
         cookie' \in {cookie, Nobody},
         stored' \in {stored, Nobody}
  PROVE  LoginInv'
BY DEF LoginInv

\* Every step keeps the invariant.
LEMMA StepLogin ==
  ASSUME TypeOK, LoginInv, [Next]_vars
  PROVE  LoginInv'
<1> USE UsersAssumption
<1>1. CASE UNCHANGED vars
  BY <1>1 DEF vars, LoginInv
<1>2. CASE Evict
  <2>1. \A x \in Tabs : tab'[x].request = tab[x].request
    BY <1>2, EvictPages
  <2>2. QED BY <1>2, <2>1, QuietLogin DEF Evict
<1>3. ASSUME NEW t \in Tabs, TabStep(t)
      PROVE  LoginInv'
  <2>1. CASE Reload(t)
    <3>1. \A x \in Tabs \ {t} : tab'[x].request = tab[x].request
      BY <2>1, ReloadPage DEF OthersStay
    <3>2. tab'[t].request = "none"
      BY <2>1, ReloadPage DEF Loaded
    <3>3. CASE tab[t].request = "none"
      BY <2>1, <3>1, <3>2, <3>3, QuietLogin DEF Reload
    <3>4. CASE tab[t].request # "none"
      BY <2>1, <3>4 DEF Reload, LoginInv
    <3>5. QED BY <3>3, <3>4
  <2>2. CASE Connected(t)
    <3>1. \A x \in Tabs : tab'[x].request = tab[x].request
      BY <2>2, ConnectedPage DEF OthersStay
    <3>2. QED BY <2>2, <3>1, QuietLogin DEF Connected
  <2>3. CASE Refuse(t)
    <3>1. \A x \in Tabs : tab'[x].request = tab[x].request
      BY <2>3, RefusePage DEF OthersStay
    <3>2. QED BY <2>3, <3>1, QuietLogin DEF Refuse
  <2>4. CASE HandleConnectError(t)
    <3>1. \A x \in Tabs : tab'[x].request = tab[x].request
      BY <2>4, HandleConnectErrorPage DEF OthersStay
    <3>2. QED BY <2>4, <3>1, QuietLogin DEF HandleConnectError
  <2>5. CASE Drop(t)
    <3>1. \A x \in Tabs : tab'[x].request = tab[x].request
      BY <2>5, DropPage DEF OthersStay
    <3>2. QED BY <2>5, <3>1, QuietLogin DEF Drop
  <2>6. ASSUME NEW u \in Users, LoginServed(t, u)
        PROVE  LoginInv'
    <3>1. SUFFICES ASSUME "overlap" \notin mixed'
                   PROVE  LoginInv'
      BY DEF LoginInv
    <3>2. \A x \in Tabs \ {t} : tab[x].request = "none"
      BY <2>6, <3>1 DEF LoginServed
    <3>3. /\ \A x \in Tabs \ {t} : tab'[x].request = "none"
          /\ \/ tab'[t].request = u /\ cookie' = u
             \/ tab'[t].request = "lost" /\ "lost" \in mixed'
      BY <2>6, <3>2, LoginServedPages
    <3>4. QED BY <3>3 DEF LoginInv
  <2>7. CASE LoginDone(t)
    <3>1. SUFFICES ASSUME "overlap" \notin mixed
                   PROVE  LoginInv'
      BY <2>7 DEF LoginInv, LoginDone
    <3>2. /\ \A x \in Tabs \ {t} : tab'[x].request = tab[x].request
          /\ tab'[t].request = "none"
      BY <2>7, LoginDonePage DEF OthersStay
    <3>3. /\ tab[t].request \in Users
          /\ stored' = tab[t].request
          /\ cookie' = cookie
      BY <2>7 DEF LoginDone
    <3>4. cookie \in {stored', Nobody}
      BY <3>1, <3>3 DEF LoginInv
    <3>5. \A x \in Tabs : tab'[x].request \notin Users
      BY <3>1, <3>2, <3>3 DEF LoginInv
    <3>6. QED BY <3>3, <3>4, <3>5 DEF LoginInv
  <2>8. CASE LogoutServed(t)
    <3>1. /\ \A x \in Tabs \ {t} : tab'[x].request = tab[x].request
          /\ tab'[t].request = "logout"
          /\ tab[t].request = "none"
      BY <2>8, LogoutServedPages DEF LogoutServed
    <3>2. QED BY <2>8, <3>1, QuietLogin DEF LogoutServed
  <2>9. CASE LogoutDone(t)
    <3>1. /\ \A x \in Tabs \ {t} : tab'[x].request = tab[x].request
          /\ tab'[t].request = "none"
          /\ tab[t].request = "logout"
      <4>1. tab[t].request = "logout"
        BY <2>9 DEF LogoutDone
      <4>2. Loaded(Nobody).request = "none"
        BY DEF Loaded
      <4>3. QED BY <2>9, <4>1, <4>2, LogoutDonePage DEF OthersStay
    <3>2. QED BY <2>9, <3>1, QuietLogin DEF LogoutDone
  <2>10. CASE Emit(t)
    <3>1. \A x \in Tabs : tab'[x].request = tab[x].request
      BY <2>10, EmitPage DEF OthersStay
    <3>2. QED BY <2>10, <3>1, QuietLogin DEF Emit
  <2>12. CASE LoginFailed(t)
    <3>1. /\ \A x \in Tabs \ {t} : tab'[x].request = tab[x].request
          /\ tab'[t].request = "none"
          /\ tab[t].request = "lost"
      BY <2>12, LoginFailedPage DEF OthersStay
    <3>2. QED BY <2>12, <3>1, QuietLogin DEF LoginFailed
  <2>11. QED BY <1>3, <2>1, <2>2, <2>3, <2>4, <2>5, <2>6, <2>7, <2>8, <2>9,
                <2>10, <2>12 DEF TabStep
<1>4. QED BY <1>1, <1>2, <1>3 DEF Next

(* When nothing is under way, the name that the next load of a page shows is *)
(* that of the session, whatever order logins, failed logouts, evictions and *)
(* refused pages came in (useAuth.tsx:86-111), unless requests overlapped or *)
(* the page of the last login takes it for a failure.                        *)
THEOREM NameMatchesSessionCorrect == Spec => []NameMatchesSession
<1>1. TypeOK /\ LoginInv => NameMatchesSession
  BY UsersAssumption DEF LoginInv, NameMatchesSession
<1>2. Spec => []LoginInv
  BY TypeCorrect, InitLogin, StepLogin, PTL DEF Spec
<1>3. QED BY <1>1, <1>2, TypeCorrect, PTL

-----------------------------------------------------------------------------
(* Whose packets a page sends.                                              *)

(* What a page has in common with its socket: a page that shows nobody has   *)
(* no socket and, unless one was refused with packets waiting, nothing to    *)
(* send.                                                                     *)
PageInv(x) ==
  /\ tab[x].status = "unauthenticated" <=> tab[x].user = Nobody
  /\ tab[x].user = Nobody => tab[x].link = "off"
  /\ tab[x].user = Nobody /\ "kept" \notin mixed => tab[x].buffer = <<>>
  /\ tab[x].link = "up" <=> tab[x].as # Nobody
  /\ tab[x].request \in Users => tab[x].user = Nobody

\* The name in localStorage is one that a page shows.
StoredIsShown ==
  stored = Nobody \/ Tabs = {} \/ \E x \in Tabs : tab[x].user = stored

PagesInv == StoredIsShown /\ \A x \in Tabs : PageInv(x)

\* The page x, its socket and what it has yet to send know nobody but n.
Knows(x, n) ==
  /\ tab[x].user \in {n, Nobody}
  /\ tab[x].as \in {n, Nobody}
  /\ tab[x].request \in {"none", "logout", "lost", n}
  /\ \A i \in DOMAIN tab[x].buffer : tab[x].buffer[i] = n

\* Nobody but n is known to the browser.
OnlyUser(n) ==
  /\ cookie \in {n, Nobody}
  /\ stored \in {n, Nobody}
  /\ \A x \in Tabs : Knows(x, n)

\* As long as nothing has mixed users up, they take turns.
PacketInv == mixed \ {"lost"} = {} => ~strayed /\ \E n \in Names : OnlyUser(n)

\* Initially every page shows the name that is stored.
LEMMA InitPage == Init => PagesInv /\ PacketInv
<1> SUFFICES ASSUME Init PROVE PagesInv /\ PacketInv
  OBVIOUS
<1>1. PagesInv
  BY UsersAssumption DEF Init, PagesInv, StoredIsShown, PageInv, Loaded
<1>2. OnlyUser(stored)
  BY DEF Init, OnlyUser, Knows, Loaded
<1>3. QED BY <1>1, <1>2 DEF Init, PacketInv

\* What has mixed users up is never forgotten, except for a lost login.
LEMMA MixedGrows == TypeOK /\ [Next]_vars => mixed \ {"lost"} \subseteq mixed'
BY DEF Next, TabStep, vars, Evict, Reload, Connected, Refuse, HandleConnectError,
       Drop, LoginServed, LoginDone, LoginFailed, LogoutServed, LogoutDone, Emit

\* A page that does not change keeps its part of the invariant.
LEMMA SamePage ==
  ASSUME NEW x \in Tabs, PageInv(x), mixed \ {"lost"} \subseteq mixed', tab'[x] = tab[x]
  PROVE  PageInv(x)'
BY DEF PageInv

\* So does a page that is disconnected.
LEMMA UnsocketedPage ==
  ASSUME NEW x \in Tabs, PageInv(x), mixed \ {"lost"} \subseteq mixed', Unsocketed(x),
         tab'[x].request = tab[x].request \/ tab'[x].request \notin Users
  PROVE  PageInv(x)'
BY DEF PageInv, Unsocketed

\* The name in localStorage is shown as long as it and the names shown stay.
LEMMA SameStored ==
  ASSUME StoredIsShown, stored' = stored,
         \A x \in Tabs : tab'[x].user = tab[x].user
  PROVE  StoredIsShown'
BY DEF StoredIsShown

\* Every step keeps what pages have in common with their sockets.
LEMMA StepPage ==
  ASSUME TypeOK, PagesInv, [Next]_vars
  PROVE  PagesInv'
<1> USE UsersAssumption
<1>0. mixed \ {"lost"} \subseteq mixed'
  BY MixedGrows
<1>1. CASE UNCHANGED vars
  BY <1>1 DEF vars, PagesInv, PageInv, StoredIsShown
<1>2. CASE Evict
  <2>1. \A x \in Tabs : Unsocketed(x) /\ tab'[x].request = tab[x].request
    BY <1>2, EvictPages
  <2>2. \A x \in Tabs : PageInv(x)'
    BY <1>0, <2>1, UnsocketedPage DEF PagesInv
  <2>3. StoredIsShown'
    BY <1>2, <2>1, SameStored DEF PagesInv, Evict, Unsocketed
  <2>4. QED BY <2>2, <2>3 DEF PagesInv
<1>3. ASSUME NEW t \in Tabs, TabStep(t)
      PROVE  PagesInv'
  <2>0. ASSUME OthersStay(t), PageInv(t)', StoredIsShown'
        PROVE  PagesInv'
    BY <1>0, <2>0, SamePage DEF OthersStay, PagesInv
  <2>1. CASE Reload(t)
    <3>1. OthersStay(t) /\ tab'[t] = Loaded(stored)
      BY <2>1, ReloadPage
    <3>2. PageInv(t)'
      BY <3>1 DEF PageInv, Loaded
    <3>3. StoredIsShown'
      BY <2>1, <3>1 DEF Reload, StoredIsShown, Loaded
    <3>4. QED BY <2>0, <3>1, <3>2, <3>3
  <2>2. CASE Connected(t)
    <3>1. cookie # Nobody /\ tab[t].link = "connecting" /\ stored' = stored
      BY <2>2 DEF Connected
    <3>2. PageInv(t)'
      BY <2>2, <3>1, ConnectedPage DEF PageInv, PagesInv
    <3>3. StoredIsShown'
      BY <2>2, <3>1, ConnectedPage, SameStored DEF PagesInv, OthersStay
    <3>4. QED BY <2>0, <2>2, <3>2, <3>3, ConnectedPage
  <2>3. CASE Refuse(t)
    <3>1. tab[t].link = "connecting" /\ stored' = stored /\ mixed' = mixed
      BY <2>3 DEF Refuse
    <3>2. PageInv(t)'
      BY <2>3, <3>1, RefusePage DEF PageInv, PagesInv
    <3>3. StoredIsShown'
      BY <2>3, <3>1, RefusePage, SameStored DEF PagesInv, OthersStay
    <3>4. QED BY <2>0, <2>3, <3>2, <3>3, RefusePage
  <2>4. CASE HandleConnectError(t)
    <3>1. /\ tab[t].link = "refused"
          /\ stored' = Nobody
          /\ tab[t].buffer = <<>> \/ "kept" \in mixed'
      BY <2>4 DEF HandleConnectError
    <3>2. PageInv(t)'
      BY <2>4, <3>1, HandleConnectErrorPage DEF PageInv, PagesInv
    <3>3. QED BY <2>0, <2>4, <3>1, <3>2, HandleConnectErrorPage DEF StoredIsShown
  <2>5. CASE Drop(t)
    <3>1. tab[t].link = "up" /\ stored' = stored /\ mixed' = mixed
      BY <2>5 DEF Drop
    <3>2. PageInv(t)'
      BY <2>5, <3>1, DropPage DEF PageInv, PagesInv
    <3>3. StoredIsShown'
      BY <2>5, <3>1, DropPage, SameStored DEF PagesInv, OthersStay
    <3>4. QED BY <2>0, <2>5, <3>2, <3>3, DropPage
  <2>6. ASSUME NEW u \in Users, LoginServed(t, u)
        PROVE  PagesInv'
    <3>1. tab[t].status = "unauthenticated" /\ stored' = stored
      BY <2>6 DEF LoginServed, Submits
    <3>2. \A x \in Tabs \ {t} : PageInv(x)'
      BY <1>0, <2>6, LoginServedPages, UnsocketedPage DEF PagesInv
    <3>3. PageInv(t)'
      BY <1>0, <2>6, <3>1, LoginServedPages DEF PagesInv, PageInv, Unsocketed
    <3>4. StoredIsShown'
      BY <2>6, <3>1, LoginServedPages, SameStored DEF PagesInv, Unsocketed
    <3>5. QED BY <3>2, <3>3, <3>4 DEF PagesInv
  <2>7. CASE LoginDone(t)
    <3>1. tab[t].request \in Users /\ stored' = tab[t].request
      BY <2>7 DEF LoginDone
    <3>2. PageInv(t)'
      BY <2>7, <3>1, LoginDonePage DEF PageInv, PagesInv
    <3>3. StoredIsShown'
      BY <2>7, <3>1, LoginDonePage DEF StoredIsShown
    <3>4. QED BY <2>0, <2>7, <3>2, <3>3, LoginDonePage
  <2>8. CASE LogoutServed(t)
    <3>1. /\ \A x \in Tabs : Unsocketed(x)
          /\ \A x \in Tabs : \/ tab'[x].request = tab[x].request
                             \/ tab'[x].request \notin Users
      BY <2>8, LogoutServedPages
    <3>2. \A x \in Tabs : PageInv(x)'
      BY <1>0, <3>1, UnsocketedPage DEF PagesInv
    <3>3. StoredIsShown'
      BY <2>8, <3>1, SameStored DEF PagesInv, LogoutServed, Unsocketed
    <3>4. QED BY <3>2, <3>3 DEF PagesInv
  <2>9. CASE LogoutDone(t)
    <3>1. OthersStay(t) /\ tab'[t] = Loaded(Nobody)
      BY <2>9, LogoutDonePage
    <3>2. PageInv(t)'
      BY <3>1 DEF PageInv, Loaded
    <3>3. StoredIsShown'
      BY <2>9 DEF LogoutDone, StoredIsShown
    <3>4. QED BY <2>0, <3>1, <3>2, <3>3
  <2>10. CASE Emit(t)
    <3>1. /\ tab[t].user # Nobody
          /\ stored' = stored
      BY <2>10 DEF Emit
    <3>2. PageInv(t)'
      BY <2>10, <3>1, EmitPage DEF PageInv, PagesInv
    <3>3. StoredIsShown'
      BY <2>10, <3>1, EmitPage, SameStored DEF PagesInv, OthersStay
    <3>4. QED BY <2>0, <2>10, <3>2, <3>3, EmitPage
  <2>12. CASE LoginFailed(t)
    <3>1. stored' = stored /\ mixed' = mixed
      BY <2>12 DEF LoginFailed
    <3>2. PageInv(t)'
      BY <2>12, <3>1, LoginFailedPage DEF PageInv, PagesInv
    <3>3. StoredIsShown'
      BY <2>12, <3>1, LoginFailedPage, SameStored DEF PagesInv, OthersStay
    <3>4. QED BY <2>0, <2>12, <3>2, <3>3, LoginFailedPage
  <2>11. QED BY <1>3, <2>1, <2>2, <2>3, <2>4, <2>5, <2>6, <2>7, <2>8, <2>9,
                <2>10, <2>12 DEF TabStep
<1>4. QED BY <1>1, <1>2, <1>3 DEF Next

\* A disconnected page knows no more than before.
LEMMA UnsocketedKnows ==
  ASSUME NEW x \in Tabs, NEW n, Knows(x, n), Unsocketed(x),
         tab'[x].request \in {tab[x].request, "none", "logout", "lost", n}
  PROVE  Knows(x, n)'
BY DEF Knows, Unsocketed

\* Every step keeps users taking turns.
LEMMA StepPacket ==
  ASSUME TypeOK, PagesInv, PacketInv, [Next]_vars
  PROVE  PacketInv'
<1> SUFFICES ASSUME mixed' \ {"lost"} = {}
             PROVE  ~strayed' /\ \E n \in Names : OnlyUser(n)'
  BY DEF PacketInv
<1> USE UsersAssumption
<1>0. mixed \ {"lost"} = {} /\ ~strayed
  BY MixedGrows DEF PacketInv
<1> PICK n \in Names : OnlyUser(n)
  BY <1>0 DEF PacketInv
<1>1. CASE UNCHANGED vars
  BY <1>0, <1>1 DEF vars, OnlyUser, Knows
<1>2. CASE Evict
  <2>1. \A x \in Tabs : Knows(x, n)'
    BY <1>2, EvictPages, UnsocketedKnows DEF OnlyUser
  <2>2. QED BY <1>0, <1>2, <2>1 DEF Evict, OnlyUser
<1>3. ASSUME NEW t \in Tabs, TabStep(t)
      PROVE  ~strayed' /\ \E m \in Names : OnlyUser(m)'
  <2>0. ASSUME OthersStay(t), Knows(t, n)', cookie' \in {cookie, Nobody},
               stored' \in {n, Nobody}
        PROVE  OnlyUser(n)'
    BY <2>0 DEF OthersStay, OnlyUser, Knows
  <2>1. CASE Reload(t)
    <3>1. OthersStay(t) /\ tab'[t] = Loaded(stored)
      BY <2>1, ReloadPage
    <3>2. Knows(t, n)'
      BY <3>1 DEF OnlyUser, Knows, Loaded
    <3>3. stored' = stored /\ cookie' = cookie /\ strayed' = strayed
      BY <2>1 DEF Reload
    <3>4. QED BY <1>0, <2>0, <3>1, <3>2, <3>3 DEF OnlyUser
  <2>2. CASE Connected(t)
    <3>1. /\ cookie = n
          /\ stored' = stored
          /\ cookie' = cookie
      BY <2>2 DEF Connected, OnlyUser
    <3>2. Knows(t, n)'
      BY <2>2, <3>1, ConnectedPage DEF OnlyUser, Knows
    <3>3. \A u \in ToSet(tab[t].buffer) : u = n
      BY DEF OnlyUser, Knows, ToSet
    <3>4. ~strayed'
      BY <1>0, <2>2, <3>1, <3>3 DEF Connected
    <3>5. QED BY <2>0, <2>2, <3>1, <3>2, <3>4, ConnectedPage DEF OnlyUser
  <2>3. CASE Refuse(t)
    <3>1. Knows(t, n)'
      BY <2>3, RefusePage DEF OnlyUser, Knows
    <3>2. QED BY <1>0, <2>0, <2>3, <3>1, RefusePage DEF Refuse, OnlyUser
  <2>4. CASE HandleConnectError(t)
    <3>1. Knows(t, n)'
      BY <2>4, HandleConnectErrorPage DEF OnlyUser, Knows
    <3>2. stored' = Nobody /\ cookie' = cookie /\ strayed' = strayed
      BY <2>4 DEF HandleConnectError
    <3>3. QED BY <1>0, <2>0, <2>4, <3>1, <3>2, HandleConnectErrorPage
  <2>5. CASE Drop(t)
    <3>1. Knows(t, n)'
      BY <2>5, DropPage DEF OnlyUser, Knows
    <3>2. QED BY <1>0, <2>0, <2>5, <3>1, DropPage DEF Drop, OnlyUser
  <2>6. ASSUME NEW u \in Users, LoginServed(t, u)
        PROVE  ~strayed' /\ \E m \in Names : OnlyUser(m)'
    <3>1. /\ cookie' \in {u, Nobody}
          /\ stored' = stored
          /\ strayed' = strayed
          /\ tab[t].status = "unauthenticated"
      BY <2>6 DEF LoginServed, Submits
    <3>2. \A x \in Tabs \ {t} : tab[x].user \in {u, Nobody}
      BY <2>6 DEF LoginServed
    <3>3. \A x \in Tabs \ {t} : tab[x].request = "none"
      BY <2>6 DEF LoginServed
    <3>4. tab[t].user = Nobody
      BY <3>1 DEF PagesInv, PageInv
    <3>5. /\ \A x \in Tabs : Unsocketed(x)
          /\ \A x \in Tabs : tab'[x].request \in {"none", "lost", u}
      BY <2>6, <3>3, LoginServedPages
    <3>6. stored \in {u, Nobody} /\ \A x \in Tabs : Knows(x, u)'
      <4>1. CASE u = n
        BY <3>5, <4>1, UnsocketedKnows DEF OnlyUser
      <4>2. CASE u # n
        <5>1. \A x \in Tabs : tab[x].user = Nobody
          BY <3>2, <3>4, <4>2 DEF OnlyUser, Knows
        <5>2. stored = Nobody
          BY <5>1 DEF PagesInv, StoredIsShown
        <5>3. \A x \in Tabs : tab[x].buffer = <<>> /\ tab[x].as = Nobody
          BY <1>0, <5>1 DEF PagesInv, PageInv
        <5>4. \A x \in Tabs : Knows(x, u)'
          BY <3>5, <5>1, <5>3 DEF Knows, Unsocketed
        <5>5. QED BY <5>2, <5>4
      <4>3. QED BY <4>1, <4>2
    <3>7. OnlyUser(u)'
      BY <3>1, <3>6 DEF OnlyUser
    <3>8. QED BY <1>0, <3>1, <3>7 DEF Names
  <2>7. CASE LoginDone(t)
    <3>1. /\ tab[t].request \in Users
          /\ stored' = tab[t].request
          /\ cookie' = cookie
          /\ strayed' = strayed
      BY <2>7 DEF LoginDone
    <3>2. tab[t].request = n
      BY <3>1 DEF OnlyUser, Knows
    <3>3. Knows(t, n)'
      BY <2>7, <3>2, LoginDonePage DEF OnlyUser, Knows
    <3>4. QED BY <1>0, <2>0, <2>7, <3>1, <3>2, <3>3, LoginDonePage
  <2>8. CASE LogoutServed(t)
    <3>1. \A x \in Tabs : Knows(x, n)'
      BY <2>8, LogoutServedPages, UnsocketedKnows DEF OnlyUser
    <3>2. stored' = stored /\ cookie' \in {cookie, Nobody} /\ strayed' = strayed
      BY <2>8 DEF LogoutServed
    <3>3. QED BY <1>0, <3>1, <3>2 DEF OnlyUser
  <2>9. CASE LogoutDone(t)
    <3>1. OthersStay(t) /\ tab'[t] = Loaded(Nobody)
      BY <2>9, LogoutDonePage
    <3>2. Knows(t, n)'
      BY <3>1 DEF Knows, Loaded
    <3>3. stored' = Nobody /\ cookie' = cookie /\ strayed' = strayed
      BY <2>9 DEF LogoutDone
    <3>4. QED BY <1>0, <2>0, <3>1, <3>2, <3>3
  <2>10. CASE Emit(t)
    <3>1. tab[t].user = n /\ stored' = stored /\ cookie' = cookie
      BY <2>10 DEF Emit, OnlyUser, Knows
    <3>2. Knows(t, n)'
      <4>1. Append(<<>>, n) = <<n>>
        OBVIOUS
      <4>2. \A i \in DOMAIN <<n>> : <<n>>[i] = n
        OBVIOUS
      <4>3. QED BY <2>10, <3>1, <4>1, <4>2, EmitPage DEF OnlyUser, Knows
    <3>3. tab[t].link = "up" => tab[t].as = n
      BY DEF PagesInv, PageInv, OnlyUser, Knows
    <3>4. ~strayed'
      BY <1>0, <2>10, <3>1, <3>3 DEF Emit
    <3>5. QED BY <2>0, <2>10, <3>1, <3>2, <3>4, EmitPage DEF OnlyUser
  <2>12. CASE LoginFailed(t)
    <3>1. Knows(t, n)'
      BY <2>12, LoginFailedPage DEF OnlyUser, Knows
    <3>2. stored' = stored /\ cookie' = cookie /\ strayed' = strayed
      BY <2>12 DEF LoginFailed
    <3>3. QED BY <1>0, <2>0, <2>12, <3>1, <3>2, LoginFailedPage DEF OnlyUser
  <2>11. QED BY <1>3, <2>1, <2>2, <2>3, <2>4, <2>5, <2>6, <2>7, <2>8, <2>9,
                <2>10, <2>12 DEF TabStep
<1>4. QED BY <1>1, <1>2, <1>3 DEF Next

(* A packet reaches the server in a session of the user whose page emitted it *)
(* (useAuth.tsx:86-111), however long it waited in the socket's buffer and    *)
(* whoever logged in meanwhile, unless one of the confusions happened.        *)
THEOREM PacketsKeepTheirSenderCorrect == Spec => []PacketsKeepTheirSender
<1>1. TypeOK /\ PacketInv => PacketsKeepTheirSender
  BY DEF PacketInv, PacketsKeepTheirSender, TypeOK
<1>2. Init => PagesInv /\ PacketInv
  BY InitPage
<1>3. TypeOK /\ PagesInv /\ PacketInv /\ [Next]_vars => (PagesInv /\ PacketInv)'
  BY StepPage, StepPacket
<1>4. Spec => [](PagesInv /\ PacketInv)
  BY <1>2, <1>3, TypeCorrect, PTL DEF Spec
<1>5. QED BY <1>1, <1>4, TypeCorrect, PTL
=============================================================================
