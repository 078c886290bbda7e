----------------------------- MODULE RefreshClient -----------------------------
(***************************************************************************)
(* The HTTP client of the tabs of one browser (frontend/src/api/client.ts, *)
(* context/AuthContext.tsx) against what the backend promises of refresh   *)
(* tokens (RefreshChain): the tabs share the cookies, each has its own CSRF*)
(* token and account on the screen, renews an expired access token once    *)
(* per call, behind a Web Lock, and repeats the call.  Requests and their  *)
(* answers travel, may be lost, and tabs are reloaded and closed meanwhile.*)
(***************************************************************************)
EXTENDS Integers, FiniteSets, Sequences

CONSTANTS
  Tabs, None,
  Sessions,        \* 1 .. n: the logins in this browser, in order
  Owner,           \* of each session: the account
  GraceWindow,     \* GRACE_WINDOW_MS
  HasLocks,        \* whether the browser has Web Locks
  LateStrays,      \* whether the refresh of a closed tab may arrive after the next one
  Crossing,        \* whether an answer with cookies may cross a login
  MaxLost,         \* bounds: answers to a refresh that are lost,
  MaxTime          \* time

ASSUME ClientAssumption ==
  /\ {HasLocks, LateStrays, Crossing} \subseteq BOOLEAN
  /\ {MaxLost, MaxTime, GraceWindow} \subseteq Nat
  /\ Sessions \subseteq Nat \ {0}

VARIABLES
  chain,     \* of each session: see RefreshChain
  valid,     \* the access tokens that have not expired: <<session, number>>
  jar,       \* the cookies: session, number of the tokens, CSRF token
  tab,       \* of each tab: page, account shown, CSRF token in memory
  call,      \* of each tab: a call of the application
  ask,       \* of each tab: GET /auth/csrf
  flight,    \* of each tab: POST /auth/refresh (pendingSessionRefresh)
  lock,      \* SESSION_REFRESH_LOCK: the tab that holds it, then those that wait
  stray,     \* refreshes on their way whose tab is gone
  now, lost, reused

vars == <<chain, valid, jar, tab, call, ask, flight, lock, stray, now, lost, reused>>

Server == INSTANCE RefreshChain

\* A CSRF token is named after the session whose login made it.
NoCookies == [s |-> 0, n |-> 0, csrf |-> 0]
NoCall == [pc |-> "idle", kind |-> None, by |-> None, sent |-> NoCookies,
           answer |-> None, csrfRetried |-> FALSE, refreshed |-> FALSE]
\* fetchCurrentUser: the profile, asked for as soon as there is a session.
Profile == [NoCall EXCEPT !.pc = "send", !.kind = "me"]
NoRequest == [pc |-> "idle", sent |-> NoCookies, answer |-> None, n |-> 0]

Init ==
  /\ chain = [s \in Sessions |-> Server!Fresh]
  /\ valid = {} /\ jar = NoCookies
  /\ tab = [t \in Tabs |-> [page |-> "boot", user |-> None, csrf |-> 0]]
  /\ call = [t \in Tabs |-> NoCall] /\ ask = [t \in Tabs |-> NoRequest]
  /\ flight = [t \in Tabs |-> NoRequest]
  /\ lock = <<>> /\ stray = {} /\ now = 0 /\ lost = 0 /\ reused = FALSE

Live(s) == s # 0 /\ chain[s].life = "live"
Authentic(c) == Live(c.s) /\ <<c.s, c.n>> \in valid
ToPage(t, page) == tab' = [tab EXCEPT ![t] = [page |-> page, user |-> None, csrf |-> 0]]
\* The application started with a session.
Started(t, csrf) ==
  /\ tab' = [tab EXCEPT ![t] = [page |-> "profile", user |-> None, csrf |-> csrf]]
  /\ call' = [call EXCEPT ![t] = Profile]

-----------------------------------------------------------------------------
(* The pages.                                                              *)

\* A login, by any of the ways, answered at once: its cookies replace those of
\* the browser, also under the other tabs.
Login(t) ==
  \E s \in Sessions :
    /\ tab[t].page = "login" /\ chain[s] = Server!Fresh
    /\ \A q \in Sessions : q < s => chain[q] # Server!Fresh
    /\ Crossing \/ \A u \in Tabs : ask[u].pc = "idle" /\ flight[u].pc \in {"idle", "queued"}
    /\ chain' = [chain EXCEPT ![s] = Server!Link("live", 1, None, None, 0)]
    /\ valid' = valid \cup {<<s, 1>>}
    /\ jar' = [s |-> s, n |-> 1, csrf |-> s]
    /\ Started(t, s)
    /\ UNCHANGED <<ask, flight, lock, stray, now, lost, reused>>

Logout(t) ==
  /\ tab[t].page = "app" /\ call[t] = NoCall
  /\ chain' = IF Live(jar.s) THEN [chain EXCEPT ![jar.s] = Server!Ended] ELSE chain
  /\ jar' = NoCookies /\ ToPage(t, "login")
  /\ UNCHANGED <<valid, call, ask, flight, lock, stray, now, lost, reused>>

\* Bound: the answers that carry cookies and are lost.
LoseOne == lost < MaxLost /\ lost' = lost + 1
Lose(f) == IF f.answer = "ok" THEN LoseOne ELSE UNCHANGED lost
\* The requests for the lock but that of t, which asks at most once.
Without(q, t) ==
  IF \A i \in DOMAIN q : q[i] # t THEN q
  ELSE LET k == CHOOSE i \in DOMAIN q : q[i] = t
       IN [i \in 1 .. Len(q) - 1 |-> q[IF i < k THEN i ELSE i + 1]]
UnlockNever(t) == UNCHANGED lock                                \* a mutant
Unlock(t) == lock' = Without(lock, t)
\* The tab is reloaded, or closed and opened again: what it waited for never
\* comes, and the refresh it had sent may yet reach the backend.
Reload(t) ==
  /\ tab[t].page \notin {"boot", "booting"} \/ flight[t].pc # "idle"
  /\ \/ Lose(flight[t]) /\ UNCHANGED stray
     \/ flight[t].pc = "sent" /\ LoseOne /\ stray' = stray \cup {flight[t].sent}
  /\ Unlock(t) /\ ToPage(t, "boot")
  /\ call' = [call EXCEPT ![t] = NoCall] /\ ask' = [ask EXCEPT ![t] = NoRequest]
  /\ flight' = [flight EXCEPT ![t] = NoRequest]
  /\ UNCHANGED <<chain, valid, jar, now, reused>>

-----------------------------------------------------------------------------
(* The refresh: one per tab at a time, one per browser with Web Locks.     *)

\* sharedRefresh: joins the one under way.
Join(t) ==
  IF flight[t].pc # "idle" THEN UNCHANGED <<flight, lock>>
  ELSE flight' = [flight EXCEPT ![t].pc = "queued"] /\ lock' = Append(lock, t)

\* ensureFreshSession
EnsureFresh(t) ==
  /\ tab[t].page = "app" /\ flight[t].pc = "idle"
  /\ Join(t)
  /\ UNCHANGED <<chain, valid, jar, tab, call, ask, stray, now, lost, reused>>

GrantAny(t) ==                                                  \* a mutant
  /\ flight[t].pc = "queued"
  /\ flight' = [flight EXCEPT ![t] = [@ EXCEPT !.pc = "sent", !.sent = jar]]
  /\ UNCHANGED <<chain, valid, jar, tab, call, ask, lock, stray, now, lost, reused>>
Grant(t) ==
  /\ flight[t].pc = "queued" /\ (HasLocks => Head(lock) = t)
  /\ LateStrays \/ stray = {}
  /\ flight' = [flight EXCEPT ![t] = [@ EXCEPT !.pc = "sent", !.sent = jar]]
  /\ UNCHANGED <<chain, valid, jar, tab, call, ask, lock, stray, now, lost, reused>>

\* What the backend does with the refresh token of cookies c.
Exchange(c) ==
  IF ~Live(c.s) THEN UNCHANGED <<chain, valid, reused>>
  ELSE LET k == chain[c.s] IN
       IF Server!MayExchange(k, c.n, now)
       THEN /\ chain' = [chain EXCEPT ![c.s] =
                           Server!Link("live", k.current + 1, c.n, k.current, now)]
            /\ valid' = valid \cup {<<c.s, k.current + 1>>} /\ UNCHANGED reused
       ELSE /\ chain' = [chain EXCEPT ![c.s] = Server!Ended]
            /\ reused' = TRUE /\ UNCHANGED valid
ServeRefresh(t) ==
  LET c == flight[t].sent IN
  /\ flight[t].pc = "sent" /\ Exchange(c)
  /\ flight' = [flight EXCEPT ![t] =
       IF Live(c.s) /\ Server!MayExchange(chain[c.s], c.n, now)
       THEN [@ EXCEPT !.pc = "served", !.answer = "ok", !.n = chain[c.s].current + 1]
       ELSE [@ EXCEPT !.pc = "served", !.answer = "lost"]]
  /\ UNCHANGED <<jar, tab, call, ask, lock, stray, now, lost>>
ServeStray(c) ==
  /\ c \in stray /\ stray' = stray \ {c} /\ Exchange(c)
  /\ UNCHANGED <<jar, tab, call, ask, flight, lock, now, lost>>

\* The browser shows another account than the tab.
SameAccount(t, s) == FALSE                                      \* a mutant
OtherAccount(t, s) == tab[t].user # None /\ tab[t].user # Owner[s]

\* The application goes on without the profile that it could not load.
NoProfile(t) == tab' = [tab EXCEPT ![t].page = "app"]
\* handleSessionEnded: the checks of the start go nowhere.
SessionEnded(t) ==
  /\ call' = [call EXCEPT ![t] = NoCall]
  /\ IF call[t].kind = "write" THEN ToPage(t, "login") ELSE NoProfile(t)
Rejected(t) ==
  /\ call' = [call EXCEPT ![t] = NoCall]
  /\ IF call[t].kind = "write" THEN UNCHANGED tab ELSE NoProfile(t)
Repeat(t, csrf) ==
  call' = [call EXCEPT ![t].pc = "send"] /\ tab' = [tab EXCEPT ![t].csrf = csrf]
\* window.location.reload(): nothing but Reload follows.
ReloadTab(t) == call' = [call EXCEPT ![t] = NoCall] /\ ToPage(t, "leaving")

\* What waited for the refresh goes on with its outcome.
ResumeHasty(t, outcome) ==                                      \* a mutant
  LET f == flight[t] IN
  IF tab[t].page = "booting"
  THEN IF outcome = "ok" THEN Started(t, f.sent.csrf) ELSE ToPage(t, "login") /\ UNCHANGED call
  ELSE IF call[t].pc # "waitRefresh" THEN UNCHANGED <<call, tab>>
  ELSE IF outcome # "ok" THEN SessionEnded(t)
  ELSE IF OtherAccount(t, f.sent.s) THEN ReloadTab(t)
  ELSE Repeat(t, f.sent.csrf)
Resume(t, outcome) ==
  LET f == flight[t] IN
  IF tab[t].page = "booting"
  THEN IF outcome = "ok" THEN Started(t, f.sent.csrf) ELSE ToPage(t, "login") /\ UNCHANGED call
  ELSE IF call[t].pc # "waitRefresh" THEN UNCHANGED <<call, tab>>
  ELSE IF outcome = "lost" THEN SessionEnded(t)
  ELSE IF outcome = "transient" THEN Rejected(t)
  ELSE IF OtherAccount(t, f.sent.s) THEN ReloadTab(t)
  ELSE Repeat(t, f.sent.csrf)
AnswerRefresh(t) ==
  LET f == flight[t] IN
  /\ f.pc = "served" /\ Resume(t, f.answer) /\ Unlock(t)
  /\ flight' = [flight EXCEPT ![t] = NoRequest]
  /\ jar' = IF f.answer = "ok" THEN [s |-> f.sent.s, n |-> f.n, csrf |-> f.sent.csrf] ELSE jar
  /\ UNCHANGED <<chain, valid, ask, stray, now, lost, reused>>
\* The network, 429, 5xx.
FailRefresh(t) ==
  LET f == flight[t] IN
  /\ f.pc \in {"sent", "served"} /\ Lose(f)
  /\ Resume(t, "transient") /\ Unlock(t)
  /\ flight' = [flight EXCEPT ![t] = NoRequest]
  /\ UNCHANGED <<chain, valid, jar, ask, stray, now, reused>>

-----------------------------------------------------------------------------
(* GET /auth/csrf: when the application starts, and after a 403.           *)

Ask(t) ==
  ask' = [ask EXCEPT ![t] = [NoRequest EXCEPT !.pc = "served", !.sent = jar, !.answer =
    CASE Authentic(jar) -> "authenticated"
      [] jar.s # 0 /\ <<jar.s, jar.n>> \notin valid -> "refreshable"
      [] OTHER -> "no session"]]
Boot(t) ==
  /\ tab[t].page = "boot"
  /\ tab' = [tab EXCEPT ![t].page = "booting"] /\ Ask(t)
  /\ UNCHANGED <<chain, valid, jar, call, flight, lock, stray, now, lost, reused>>
AnswerAsk(t) ==
  LET a == ask[t] IN
  /\ a.pc = "served" /\ ask' = [ask EXCEPT ![t] = NoRequest]
  /\ jar' = IF a.answer = "authenticated" THEN [jar EXCEPT !.csrf = a.sent.csrf] ELSE jar
  /\ IF tab[t].page = "booting"
     THEN CASE a.answer = "authenticated" -> Started(t, a.sent.csrf) /\ UNCHANGED <<flight, lock>>
            [] a.answer = "refreshable" -> Join(t) /\ UNCHANGED <<tab, call>>
            [] OTHER -> ToPage(t, "login") /\ UNCHANGED <<call, flight, lock>>
     ELSE /\ UNCHANGED <<flight, lock>>
          /\ CASE a.answer # "authenticated" -> Rejected(t)
               [] a.answer = "authenticated" /\ OtherAccount(t, a.sent.s) -> ReloadTab(t)
               [] OTHER -> Repeat(t, a.sent.csrf)
  /\ UNCHANGED <<chain, valid, stray, now, lost, reused>>

-----------------------------------------------------------------------------
(* The calls: those that write, and the profile when the application starts.*)

\* The request interceptor, CsrfGuard, which comes before the access token is
\* looked at, and the guard of the session.
Verdict(kind, head) ==
  CASE kind = "write" /\ jar.s # 0 /\ head # jar.csrf -> "403"
    [] (kind = "write" => head = jar.csrf) /\ Authentic(jar) -> "ok"
    [] OTHER -> "401"
\* A call reaches the backend with the cookies and the CSRF token of now.
Serve(t, c) ==
  call' = [call EXCEPT ![t] = [c EXCEPT !.pc = "served", !.sent = jar,
             !.answer = Verdict(c.kind, tab[t].csrf)]]
Call(t) ==
  /\ call[t] = NoCall /\ tab[t].page = "app"
  /\ Serve(t, [NoCall EXCEPT !.kind = "write", !.by = tab[t].user])
  /\ UNCHANGED <<chain, valid, jar, tab, ask, flight, lock, stray, now, lost, reused>>
Send(t) ==
  /\ call[t].pc = "send" /\ Serve(t, call[t])
  /\ UNCHANGED <<chain, valid, jar, tab, ask, flight, lock, stray, now, lost, reused>>
Waiting(c, for) == [c EXCEPT !.pc = for, !.sent = NoCookies, !.answer = None]
Answer(t) ==
  LET c == call[t] IN
  /\ c.pc = "served"
  /\ CASE c.answer = "ok" ->
            /\ call' = [call EXCEPT ![t] = NoCall] /\ UNCHANGED <<ask, flight, lock>>
            /\ tab' = IF c.kind = "write" THEN tab
                      ELSE [tab EXCEPT ![t].page = "app", ![t].user = Owner[c.sent.s]]
       [] c.answer = "403" /\ ~c.csrfRetried ->
            /\ call' = [call EXCEPT ![t] = Waiting([c EXCEPT !.csrfRetried = TRUE], "waitCsrf")]
            /\ Ask(t) /\ UNCHANGED <<tab, flight, lock>>
       [] c.answer = "401" /\ ~c.refreshed ->
            /\ call' = [call EXCEPT ![t] = Waiting([c EXCEPT !.refreshed = TRUE], "waitRefresh")]
            /\ Join(t) /\ UNCHANGED <<tab, ask>>
       [] c.answer = "401" /\ c.refreshed -> SessionEnded(t) /\ UNCHANGED <<ask, flight, lock>>
       [] OTHER -> Rejected(t) /\ UNCHANGED <<ask, flight, lock>>
  /\ UNCHANGED <<chain, valid, jar, stray, now, lost, reused>>

-----------------------------------------------------------------------------
(* Time, and the other devices.                                            *)

\* An access token outlives the answer that brings it and the call repeated
\* with it (it lasts 15 minutes).
Expire(s, n) ==
  /\ <<s, n>> \in valid /\ Live(s)
  /\ \A t \in Tabs : /\ flight[t].pc # "served"
                     /\ call[t].refreshed => call[t].pc \in {"waitRefresh", "served"}
  /\ valid' = valid \ {<<s, n>>}
  /\ UNCHANGED <<chain, jar, tab, call, ask, flight, lock, stray, now, lost, reused>>
EndElsewhere(s) ==
  /\ Live(s) /\ chain' = [chain EXCEPT ![s] = Server!Ended]
  /\ UNCHANGED <<valid, jar, tab, call, ask, flight, lock, stray, now, lost, reused>>
\* A browser that missed an answer asks again within the window, and requests
\* arrive within it.
Tick ==
  /\ now < MaxTime /\ now' = now + 1
  /\ Live(jar.s) => chain[jar.s].current = jar.n
  /\ stray = {} /\ \A t \in Tabs : flight[t].pc # "sent"
  /\ UNCHANGED <<chain, valid, jar, tab, call, ask, flight, lock, stray, lost, reused>>

Renewal(t) == ServeRefresh(t) \/ AnswerRefresh(t)
Asking(t) == Boot(t) \/ AnswerAsk(t)
Calling(t) == Send(t) \/ Answer(t)
Next ==
  \/ \E t \in Tabs :
       \/ Grant(t) \/ Renewal(t) \/ Asking(t) \/ Calling(t)
       \/ FailRefresh(t) \/ Call(t) \/ EnsureFresh(t)
       \/ Login(t) \/ Reload(t) \/ Logout(t)
  \/ \E c \in stray : ServeStray(c)
  \/ \E s \in Sessions : EndElsewhere(s) \/ \E n \in 1 .. chain[s].current : Expire(s, n)
  \/ Tick

Spec == Init /\ [][Next]_vars
\* Requests are answered, and the browser grants the lock in turn.
Fairness ==
  \A t \in Tabs : /\ WF_vars(Grant(t)) /\ WF_vars(Renewal(t))
                  /\ WF_vars(Asking(t)) /\ WF_vars(Calling(t))

-----------------------------------------------------------------------------
(* Properties.                                                             *)

\* The tabs of a browser never make the backend take their own refresh for the
\* reuse of a token: one answer may be lost.
SessionKept == ~reused

\* What a tab writes is written to the account it shows (F-05); a tab that could
\* not load its profile shows none.
WritesAreOwn ==
  \A t \in Tabs :
    LET c == call[t] IN
    c.pc = "served" /\ c.kind = "write" /\ c.answer = "ok" /\ c.by # None =>
      Owner[c.sent.s] = c.by

\* A tab with a call under way is sent to the login page only if the session
\* that the call, or its refresh, was for is over.
OnlyEndedSignedOut ==
  [][\A t \in Tabs :
       tab[t].page = "app" /\ tab'[t].page = "login" /\ call[t].pc # "idle" =>
         ~Live(IF call[t].pc = "waitRefresh" THEN flight[t].sent.s ELSE call[t].sent.s)]_vars

\* A call that waits waits for a request that is under way, and the lock is
\* never held by, nor promised to, a tab that asks for nothing.
NobodyWaitsInVain ==
  /\ \A t \in Tabs : /\ call[t].pc = "waitRefresh" => flight[t].pc # "idle"
                     /\ call[t].pc = "waitCsrf" => ask[t].pc # "idle"
                     /\ flight[t].pc # "idle" => \E i \in DOMAIN lock : lock[i] = t
  /\ \A i \in DOMAIN lock : flight[lock[i]].pc # "idle"

\* Every call ends, whichever way.
CallsEnd == \A t \in Tabs : call[t].pc # "idle" ~> call[t].pc = "idle"
=============================================================================
