-------------------------- MODULE RefreshClientProofs --------------------------
(***************************************************************************)
(* What the tabs of one browser promise, for any number of tabs, logins    *)
(* and refreshes: nobody waits in vain, a call is sent to the login page   *)
(* only when its session is over, a tab writes to the account it shows,    *)
(* and the backend never takes a refresh of the browser for a reuse.       *)
(***************************************************************************)
EXTENDS RefreshClient, TLAPS

USE ClientAssumption

Accounts == {Owner[s] : s \in Sessions} \cup {None}
Pages == {"boot", "booting", "login", "profile", "app", "leaving"}
Cookies == [s : Sessions \cup {0}, n : Nat, csrf : Sessions \cup {0}]
TabRecord == [page : Pages, user : Accounts, csrf : Sessions \cup {0}]
CallRecord == [pc : {"idle", "send", "served", "waitCsrf", "waitRefresh"},
               kind : {None, "me", "write"}, by : Accounts, sent : Cookies,
               answer : {None, "ok", "403", "401"}, csrfRetried : BOOLEAN, refreshed : BOOLEAN]
AskRecord == [pc : {"idle", "served"}, sent : Cookies, n : Nat,
              answer : {None, "authenticated", "refreshable", "no session"}]
FlightRecord == [pc : {"idle", "queued", "sent", "served"}, sent : Cookies, n : Nat,
                 answer : {None, "ok", "lost"}]
ChainLink == [life : {"fresh", "live", "ended"}, current : Nat, presented : Nat \cup {None},
              replaced : Nat \cup {None}, at : Nat]

ServerTypes ==
  /\ chain \in [Sessions -> ChainLink]
  /\ valid \subseteq Sessions \X Nat
  /\ stray \subseteq Cookies
  /\ now \in Nat /\ lost \in Nat /\ lost <= MaxLost /\ reused \in BOOLEAN
BrowserTypes ==
  /\ jar \in Cookies
  /\ tab \in [Tabs -> TabRecord]
  /\ call \in [Tabs -> CallRecord]
  /\ ask \in [Tabs -> AskRecord]
  /\ flight \in [Tabs -> FlightRecord]

\* The lock is asked for by the tabs with a refresh, once each.
LockInv ==
  /\ lock \in Seq(Tabs)
  /\ \A i, j \in DOMAIN lock : lock[i] = lock[j] => i = j
  /\ \A t \in Tabs : flight[t].pc # "idle" <=> \E i \in DOMAIN lock : lock[i] = t

\* What a tab waits for is under way, and nothing else is; where it makes calls.
WaitInv(t) ==
  /\ call[t].pc = "waitRefresh" => flight[t].pc # "idle"
  /\ call[t].pc = "waitCsrf" => ask[t].pc # "idle"
  /\ ask[t].pc # "idle" /\ tab[t].page # "booting" => call[t].pc = "waitCsrf"
  /\ call[t].pc # "idle" => tab[t].page \in {"profile", "app"}
  /\ tab[t].page = "boot" \/ (tab[t].page = "booting" /\ ask[t].pc # "idle") =>
       flight[t].pc = "idle"
  /\ flight[t].pc = "served" => flight[t].answer \in {"ok", "lost"}
  /\ call[t].pc = "served" /\ call[t].answer = "ok" => call[t].sent.s # 0

ClientInv == ServerTypes /\ BrowserTypes /\ LockInv /\ \A t \in Tabs : WaitInv(t)

\* An access token that a refresh brought is good until what waited for it has
\* been repeated.
JarValid == Live(jar.s) => <<jar.s, jar.n>> \in valid
RenewedInv(t) ==
  /\ flight[t].pc = "served" /\ flight[t].answer # "ok" => ~Live(flight[t].sent.s)
  /\ flight[t].pc = "served" /\ flight[t].answer = "ok" /\ Live(flight[t].sent.s) =>
       <<flight[t].sent.s, flight[t].n>> \in valid
  /\ call[t].refreshed /\ call[t].pc = "send" => JarValid
  /\ call[t].refreshed /\ call[t].pc = "waitCsrf" /\ ask[t].answer = "authenticated" => JarValid
  /\ call[t].refreshed /\ call[t].pc = "served" /\ call[t].answer = "401" => ~Live(call[t].sent.s)

\* The sessions there have been, and whether one is the last.
Used == {s \in Sessions : chain[s] # Server!Fresh}
Newest(s) == s \in Used /\ \A q \in Used : q <= s
OfNewest(c) ==
  /\ c.csrf # 0 => c.csrf \in Used
  /\ c.s # 0 => Newest(c.s) /\ c.csrf = c.s

\* Cookies that go round are of the last login; a tab with the CSRF token of the
\* last login shows its account, and so does what it is about to write.
OwnInv ==
  /\ \A s \in Used, q \in Sessions : q < s => q \in Used
  /\ OfNewest(jar)
OwnWrite(t) ==
  LET c == call[t] IN
  c.pc = "served" /\ c.kind = "write" /\ c.answer = "ok" /\ c.by # None =>
    Owner[c.sent.s] = c.by
OwnTabInv(t) ==
  /\ ask[t].pc # "idle" => /\ OfNewest(ask[t].sent)
                           /\ ask[t].answer = "authenticated" => ask[t].sent.s # 0
  /\ flight[t].pc \in {"sent", "served"} => OfNewest(flight[t].sent)
  /\ flight[t].pc = "served" /\ flight[t].answer = "ok" => flight[t].sent.s # 0
  /\ tab[t].csrf # 0 => tab[t].csrf \in Used
  /\ tab[t].user # None /\ Newest(tab[t].csrf) => tab[t].user = Owner[tab[t].csrf]
  /\ call[t].pc # "idle" /\ call[t].kind = "write" => call[t].by = tab[t].user
  /\ call[t].pc = "served" /\ call[t].kind # "write" /\ call[t].answer = "ok" =>
       call[t].sent.s \in Used /\ tab[t].csrf <= call[t].sent.s
  /\ OwnWrite(t)

\* The tokens: those the browser sends are the current ones or, after an answer
\* was lost, those just replaced in exchange for themselves.
Behind(c) ==
  LET k == chain[c.s] IN
  /\ c.n = k.replaced /\ k.presented = k.replaced /\ c.n < k.current
  /\ k.at <= now /\ now - k.at <= GraceWindow
Current(c) == c.n = chain[c.s].current
Good(c) == Live(c.s) => Current(c) \/ (Behind(c) /\ lost >= 1)
Away(t) == flight[t].pc \in {"sent", "served"}
Brings(t) == flight[t].pc = "served" /\ flight[t].answer = "ok"
FlightInv(t) ==
  LET f == flight[t] IN
  /\ Away(t) => lock[1] = t
  /\ Away(t) => \/ jar.s = f.sent.s /\ jar.n = f.sent.n
                \/ ~Live(f.sent.s) /\ ~Live(jar.s)
  /\ Brings(t) /\ Live(f.sent.s) =>
       /\ f.n = chain[f.sent.s].current /\ f.sent.n < f.n
       /\ Behind(f.sent) \/ lost >= 1
StrayInv(c) ==
  /\ lost >= 1 /\ \A t \in Tabs : ~Away(t)
  /\ Live(c.s) => Current(c) /\ (jar.s = c.s => jar.n = c.n)
KeptInv ==
  /\ ~reused
  /\ (\A t \in Tabs : ~Brings(t)) => Good(jar)
  /\ \A t \in Tabs : FlightInv(t)
  /\ \A c \in stray : StrayInv(c) /\ \A d \in stray : c = d
-----------------------------------------------------------------------------
(* The records, and the queue of the lock.                                 *)

LEMMA RecordsTyped ==
  /\ NoCookies \in Cookies /\ NoCookies.s = 0 /\ NoCookies.csrf = 0
  /\ NoCall \in CallRecord /\ NoCall.pc = "idle" /\ NoCall.refreshed = FALSE
  /\ NoCall.sent = NoCookies
  /\ Profile \in CallRecord /\ Profile.pc = "send" /\ Profile.kind = "me"
  /\ Profile.refreshed = FALSE /\ Profile.sent = NoCookies
  /\ NoRequest \in AskRecord /\ NoRequest \in FlightRecord /\ NoRequest.pc = "idle"
  /\ NoRequest.sent = NoCookies
  /\ Server!Fresh \in ChainLink /\ Server!Ended \in ChainLink
  /\ Server!Fresh.life = "fresh" /\ Server!Ended.life = "ended"
<1>1. NoCookies \in Cookies /\ NoCookies.s = 0 /\ NoCookies.csrf = 0
  BY DEF NoCookies, Cookies
<1>2. NoCall \in CallRecord /\ NoCall.pc = "idle" /\ NoCall.refreshed = FALSE
      /\ NoCall.sent = NoCookies
  BY <1>1 DEF NoCall, CallRecord, Accounts
<1>3. Profile \in CallRecord /\ Profile.pc = "send" /\ Profile.kind = "me"
      /\ Profile.refreshed = FALSE /\ Profile.sent = NoCookies
  BY <1>2 DEF Profile, CallRecord
<1>4. NoRequest \in AskRecord /\ NoRequest \in FlightRecord /\ NoRequest.pc = "idle"
      /\ NoRequest.sent = NoCookies
  BY <1>1 DEF NoRequest, AskRecord, FlightRecord
<1>5. /\ Server!Fresh \in ChainLink /\ Server!Ended \in ChainLink
      /\ Server!Fresh.life = "fresh" /\ Server!Ended.life = "ended"
  BY DEF Server!Fresh, Server!Ended, Server!Link, ChainLink
<1> QED BY <1>1, <1>2, <1>3, <1>4, <1>5

\* A tab that leaves the queue leaves the others in their order.
LEMMA LeavesQueue ==
  ASSUME NEW q \in Seq(Tabs), NEW t \in Tabs,
         \A i, j \in DOMAIN q : q[i] = q[j] => i = j
  PROVE  LET r == Without(q, t) IN
         /\ r \in Seq(Tabs)
         /\ \A i, j \in DOMAIN r : r[i] = r[j] => i = j
         /\ \A u \in Tabs : (\E i \in DOMAIN r : r[i] = u) <=>
                              u # t /\ \E i \in DOMAIN q : q[i] = u
         /\ Len(q) > 0 /\ q[1] # t => r[1] = q[1]
<1> DEFINE r == Without(q, t)
<1>0. DOMAIN q = 1 .. Len(q) /\ Len(q) \in Nat
  OBVIOUS
<1>1. CASE \A i \in DOMAIN q : q[i] # t
  <2>1. r = q
    BY <1>1 DEF Without
  <2> HIDE DEF r
  <2> QED BY <1>1, <2>1 DEF r
<1>2. CASE \E i \in DOMAIN q : q[i] = t
  <2>1. PICK k \in DOMAIN q : q[k] = t /\ k = CHOOSE i \in DOMAIN q : q[i] = t
    BY <1>2
  <2>2. r = [i \in 1 .. Len(q) - 1 |-> q[IF i < k THEN i ELSE i + 1]]
    BY <1>2, <2>1 DEF Without
  <2>3. k \in 1 .. Len(q) /\ Len(q) - 1 \in Nat
    BY <1>0, <2>1
  <2> HIDE DEF r
  <2> DEFINE at(i) == IF i < k THEN i ELSE i + 1
  <2>4. DOMAIN r = 1 .. Len(q) - 1
    BY <2>2
  <2>5. \A i \in DOMAIN r : at(i) \in DOMAIN q /\ at(i) # k /\ r[i] = q[at(i)]
    BY <1>0, <2>2, <2>3, <2>4
  <2>6. \A i, j \in DOMAIN r : at(i) = at(j) => i = j
    BY <2>3, <2>4
  <2>7. \A i \in DOMAIN q : i # k => \E j \in DOMAIN r : at(j) = i
    <3> TAKE i \in DOMAIN q
    <3>1. CASE i < k
      BY <1>0, <2>3, <2>4, <3>1
    <3>2. CASE i > k
      <4>1. i - 1 \in DOMAIN r /\ at(i - 1) = i
        BY <1>0, <2>3, <2>4, <3>2
      <4> QED BY <4>1
    <3> QED BY <1>0, <2>3, <3>1, <3>2
  <2> HIDE DEF at
  <2>8. r \in Seq(Tabs)
    <3>1. \A i \in 1 .. Len(q) - 1 : r[i] \in Tabs
      BY <1>0, <2>4, <2>5
    <3>2. r = [i \in 1 .. Len(q) - 1 |-> r[i]]
      BY <2>2
    <3> QED BY <2>3, <3>1, <3>2
  <2>9. \A i, j \in DOMAIN r : r[i] = r[j] => i = j
    BY <2>5, <2>6
  <2>10. \A u \in Tabs : (\E i \in DOMAIN r : r[i] = u) <=>
                           u # t /\ \E i \in DOMAIN q : q[i] = u
    BY <2>1, <2>5, <2>7
  <2>11. q[1] # t => r[1] = q[1]
    <3> SUFFICES ASSUME q[1] # t PROVE r[1] = q[1]
      OBVIOUS
    <3>1. k # 1 /\ 1 \in 1 .. Len(q) - 1 /\ 1 < k
      BY <1>0, <2>1, <2>3
    <3> QED BY <2>2, <3>1
  <2> QED BY <2>8, <2>9, <2>10, <2>11 DEF r
<1> QED BY <1>0, <1>1, <1>2

LEMMA JoinsQueue ==
  ASSUME NEW q \in Seq(Tabs), NEW t \in Tabs,
         \A i, j \in DOMAIN q : q[i] = q[j] => i = j,
         \A i \in DOMAIN q : q[i] # t
  PROVE  LET r == Append(q, t) IN
         /\ r \in Seq(Tabs)
         /\ \A i, j \in DOMAIN r : r[i] = r[j] => i = j
         /\ \A u \in Tabs : (\E i \in DOMAIN r : r[i] = u) <=>
                              u = t \/ \E i \in DOMAIN q : q[i] = u
         /\ Len(q) > 0 => r[1] = q[1]
<1> DEFINE r == Append(q, t)
<1>1. /\ r \in Seq(Tabs) /\ Len(q) \in Nat
      /\ DOMAIN q = 1 .. Len(q) /\ DOMAIN r = 1 .. Len(q) + 1
      /\ r[Len(q) + 1] = t /\ \A i \in 1 .. Len(q) : r[i] = q[i]
  OBVIOUS
<1> HIDE DEF r
<1>2. \A i \in DOMAIN r : i \in DOMAIN q \/ i = Len(q) + 1
  BY <1>1
<1>3. \A i \in DOMAIN q : i \in DOMAIN r /\ r[i] = q[i]
  BY <1>1
<1>4. Len(q) + 1 \in DOMAIN r
  BY <1>1
<1>5. \A i, j \in DOMAIN r : r[i] = r[j] => i = j
  BY <1>1, <1>2, <1>3
<1>6. \A u \in Tabs : (\E i \in DOMAIN r : r[i] = u) <=>
                        u = t \/ \E i \in DOMAIN q : q[i] = u
  BY <1>1, <1>2, <1>3, <1>4
<1>7. Len(q) > 0 => r[1] = q[1]
  BY <1>1
<1> QED BY <1>1, <1>5, <1>6, <1>7

LEMMA AtTab ==
  ASSUME ClientInv, NEW t \in Tabs
  PROVE  /\ tab[t] \in TabRecord /\ call[t] \in CallRecord
         /\ ask[t] \in AskRecord /\ flight[t] \in FlightRecord
         /\ jar \in Cookies /\ jar.s \in Sessions \cup {0} /\ jar.csrf \in Sessions \cup {0}
         /\ jar.n \in Nat
         /\ flight[t].sent \in Cookies /\ flight[t].sent.csrf \in Sessions \cup {0}
         /\ flight[t].sent.s \in Sessions \cup {0} /\ flight[t].sent.n \in Nat
         /\ ask[t].sent \in Cookies /\ ask[t].sent.csrf \in Sessions \cup {0}
         /\ ask[t].sent.s \in Sessions \cup {0}
         /\ call[t].sent \in Cookies /\ call[t].sent.s \in Sessions \cup {0}
         /\ tab[t].user \in Accounts /\ tab[t].csrf \in Sessions \cup {0}
         /\ flight[t].n \in Nat
<1>1. /\ tab[t] \in TabRecord /\ call[t] \in CallRecord
      /\ ask[t] \in AskRecord /\ flight[t] \in FlightRecord /\ jar \in Cookies
  BY DEF ClientInv, BrowserTypes
<1>2. flight[t].sent \in Cookies /\ flight[t].n \in Nat
  BY <1>1 DEF FlightRecord
<1>3. ask[t].sent \in Cookies
  BY <1>1 DEF AskRecord
<1>4. call[t].sent \in Cookies
  BY <1>1 DEF CallRecord
<1>5. tab[t].user \in Accounts /\ tab[t].csrf \in Sessions \cup {0}
  BY <1>1 DEF TabRecord
<1>6. \A c \in Cookies : c.s \in Sessions \cup {0} /\ c.csrf \in Sessions \cup {0} /\ c.n \in Nat
  BY DEF Cookies
<1> QED BY <1>1, <1>2, <1>3, <1>4, <1>5, <1>6

\* What may happen to a tab and its call: the call ends, and the tab is as it was,
\* or goes on without a profile, or has another page and no account; ...
Stops(t) ==
  /\ call' = [call EXCEPT ![t] = NoCall]
  /\ UNCHANGED tab \/ NoProfile(t) \/ ToPage(t, "login") \/ ToPage(t, "leaving")

\* ... or one of these.
MovesTo(t, csrf) ==
  \/ Started(t, csrf) \/ Repeat(t, csrf)
  \/ UNCHANGED call /\ (ToPage(t, "login") \/ UNCHANGED tab)
Elsewhere(t) == \A u \in Tabs \ {t} : tab'[u] = tab[u] /\ call'[u] = call[u]

LEMMA StopsOf ==
  ASSUME NEW t \in Tabs, SessionEnded(t) \/ Rejected(t) \/ ReloadTab(t)
  PROVE  Stops(t)
  BY DEF SessionEnded, Rejected, ReloadTab, Stops

LEMMA MovesTyped ==
  ASSUME ClientInv, NEW t \in Tabs, NEW csrf \in Sessions \cup {0},
         Stops(t) \/ MovesTo(t, csrf)
  PROVE  tab' \in [Tabs -> TabRecord] /\ call' \in [Tabs -> CallRecord] /\ Elsewhere(t)
<1>0. /\ tab \in [Tabs -> TabRecord] /\ call \in [Tabs -> CallRecord]
      /\ tab[t] \in TabRecord /\ call[t] \in CallRecord
  BY AtTab DEF ClientInv, BrowserTypes
<1>1. \A page \in Pages : [page |-> page, user |-> None, csrf |-> 0] \in TabRecord
  BY DEF TabRecord, Accounts
<1>2. /\ [page |-> "profile", user |-> None, csrf |-> csrf] \in TabRecord
      /\ [tab[t] EXCEPT !.page = "app"] \in TabRecord
      /\ [tab[t] EXCEPT !.csrf = csrf] \in TabRecord
  BY <1>0 DEF TabRecord, Accounts, Pages
<1>3. [call[t] EXCEPT !.pc = "send"] \in CallRecord
  BY <1>0 DEF CallRecord
<1>4. CASE Stops(t)
  <2>1. call' \in [Tabs -> CallRecord] /\ \A u \in Tabs \ {t} : call'[u] = call[u]
    BY <1>0, <1>4, RecordsTyped DEF Stops
  <2>2. CASE UNCHANGED tab
    BY <1>0, <2>1, <2>2 DEF Elsewhere
  <2>3. CASE NoProfile(t)
    BY <1>0, <1>2, <2>1, <2>3 DEF Elsewhere, NoProfile
  <2>4. CASE ToPage(t, "login") \/ ToPage(t, "leaving")
    BY <1>0, <1>1, <2>1, <2>4 DEF Elsewhere, ToPage, Pages
  <2> QED BY <1>4, <2>2, <2>3, <2>4 DEF Stops
<1>5. CASE Started(t, csrf)
  BY <1>0, <1>2, <1>5, RecordsTyped DEF Started, Elsewhere
<1>6. CASE Repeat(t, csrf)
  BY <1>0, <1>2, <1>3, <1>6 DEF Repeat, Elsewhere
<1>7. CASE UNCHANGED call /\ (ToPage(t, "login") \/ UNCHANGED tab)
  BY <1>0, <1>1, <1>7 DEF Elsewhere, ToPage, Pages
<1> QED BY <1>4, <1>5, <1>6, <1>7 DEF MovesTo

\* The five outcomes of a refresh for what waited for it.
LEMMA ResumeCases ==
  ASSUME NEW t \in Tabs, NEW outcome \in {"ok", "lost", "transient"}, Resume(t, outcome)
  PROVE  LET c == flight[t].sent IN
         \/ tab[t].page = "booting" /\ outcome = "ok" /\ Started(t, c.csrf)
         \/ tab[t].page = "booting" /\ outcome # "ok" /\ ToPage(t, "login") /\ UNCHANGED call
         \/ tab[t].page # "booting" /\ call[t].pc # "waitRefresh" /\ UNCHANGED <<call, tab>>
         \/ /\ tab[t].page # "booting" /\ call[t].pc = "waitRefresh"
            /\ \/ outcome = "lost" /\ SessionEnded(t)
               \/ outcome = "transient" /\ Rejected(t)
               \/ ReloadTab(t)
               \/ outcome = "ok" /\ ~OtherAccount(t, c.s) /\ Repeat(t, c.csrf)
  BY DEF Resume

\* ... and of GET /auth/csrf.
LEMMA AnswerAskCases ==
  ASSUME NEW t \in Tabs, AnswerAsk(t)
  PROVE  LET a == ask[t] IN
         \/ /\ tab[t].page = "booting" /\ a.answer = "authenticated"
            /\ Started(t, a.sent.csrf) /\ UNCHANGED <<flight, lock>>
         \/ /\ tab[t].page = "booting" /\ a.answer = "refreshable"
            /\ Join(t) /\ UNCHANGED <<tab, call>>
         \/ /\ tab[t].page = "booting"
            /\ ToPage(t, "login") /\ UNCHANGED <<call, flight, lock>>
         \/ /\ tab[t].page # "booting" /\ UNCHANGED <<flight, lock>>
            /\ \/ Rejected(t) \/ ReloadTab(t)
               \/ /\ a.answer = "authenticated" /\ ~OtherAccount(t, a.sent.s)
                  /\ Repeat(t, a.sent.csrf)
  BY DEF AnswerAsk

LEMMA AnswerCases ==
  ASSUME NEW t \in Tabs, Answer(t)
  PROVE  LET c == call[t] IN
         \/ /\ c.answer = "ok" /\ call' = [call EXCEPT ![t] = NoCall]
            /\ UNCHANGED <<ask, flight, lock>>
            /\ tab' = IF c.kind = "write" THEN tab
                      ELSE [tab EXCEPT ![t].page = "app", ![t].user = Owner[c.sent.s]]
         \/ /\ c.answer = "403" /\ UNCHANGED <<tab, flight, lock>> /\ Ask(t)
            /\ call' = [call EXCEPT ![t] = Waiting([c EXCEPT !.csrfRetried = TRUE], "waitCsrf")]
         \/ /\ c.answer = "401" /\ UNCHANGED <<tab, ask>> /\ Join(t)
            /\ call' = [call EXCEPT ![t] = Waiting([c EXCEPT !.refreshed = TRUE], "waitRefresh")]
         \/ /\ c.answer = "401" /\ c.refreshed /\ SessionEnded(t) /\ UNCHANGED <<ask, flight, lock>>
         \/ Rejected(t) /\ UNCHANGED <<ask, flight, lock>>
<1> DEFINE c == call[t]
<1>1. CASE c.answer = "ok"
  BY <1>1 DEF Answer
<1>2. CASE c.answer = "403" /\ ~c.csrfRetried
  BY <1>2 DEF Answer
<1>3. CASE c.answer = "401" /\ ~c.refreshed
  BY <1>3 DEF Answer
<1>4. CASE c.answer = "401" /\ c.refreshed
  BY <1>4 DEF Answer
<1>5. CASE ~(\/ c.answer = "ok"
             \/ c.answer = "403" /\ ~c.csrfRetried
             \/ c.answer = "401" /\ ~c.refreshed
             \/ c.answer = "401" /\ c.refreshed)
  BY <1>5 DEF Answer
<1> QED BY <1>1, <1>2, <1>3, <1>4, <1>5

LEMMA AskTyped ==
  ASSUME ClientInv, NEW t \in Tabs, Ask(t)
  PROVE  /\ ask' \in [Tabs -> AskRecord] /\ \A u \in Tabs \ {t} : ask'[u] = ask[u]
         /\ ask'[t].pc = "served" /\ ask'[t].sent = jar
         /\ ask'[t].answer = "authenticated" => Authentic(jar)
<1> DEFINE y == CASE Authentic(jar) -> "authenticated"
                  [] jar.s # 0 /\ <<jar.s, jar.n>> \notin valid -> "refreshable"
                  [] OTHER -> "no session"
<1>0. ask' = [ask EXCEPT ![t] = [NoRequest EXCEPT !.pc = "served", !.sent = jar, !.answer = y]]
  BY DEF Ask
<1>1. PICK x \in {"authenticated", "refreshable", "no session"} :
        x = y /\ (x = "authenticated" => Authentic(jar))
  OBVIOUS
<1> DEFINE a == [NoRequest EXCEPT !.pc = "served", !.sent = jar, !.answer = x]
<1>2. a \in AskRecord /\ a.pc = "served" /\ a.sent = jar /\ a.answer = x
  BY AtTab DEF NoRequest, AskRecord
<1>3. ask' = [ask EXCEPT ![t] = a]
  BY <1>0, <1>1
<1> HIDE DEF a
<1> QED BY <1>1, <1>2, <1>3 DEF ClientInv, BrowserTypes

LEMMA JoinTyped ==
  ASSUME ClientInv, NEW t \in Tabs, Join(t)
  PROVE  /\ flight' \in [Tabs -> FlightRecord] /\ \A u \in Tabs \ {t} : flight'[u] = flight[u]
         /\ flight'[t].pc # "idle"
         /\ \/ UNCHANGED <<flight, lock>>
            \/ flight[t].pc = "idle" /\ flight'[t].pc = "queued" /\ lock' = Append(lock, t)
               /\ flight'[t].sent = flight[t].sent
<1> DEFINE f == [flight[t] EXCEPT !.pc = "queued"]
<1>1. f \in FlightRecord /\ f.pc = "queued" /\ f.sent = flight[t].sent
  BY AtTab DEF FlightRecord
<1>2. \/ flight[t].pc # "idle" /\ UNCHANGED <<flight, lock>>
      \/ flight[t].pc = "idle" /\ flight' = [flight EXCEPT ![t] = f] /\ lock' = Append(lock, t)
  BY DEF Join
<1>3. flight \in [Tabs -> FlightRecord]
  BY DEF ClientInv, BrowserTypes
<1> HIDE DEF f
<1> QED BY <1>1, <1>2, <1>3

\* A call that is sent on.
LEMMA ServeTyped ==
  ASSUME ClientInv, NEW t \in Tabs, NEW c \in CallRecord, Serve(t, c)
  PROVE  /\ call' \in [Tabs -> CallRecord] /\ \A u \in Tabs \ {t} : call'[u] = call[u]
         /\ call'[t].pc = "served" /\ call'[t].sent = jar
         /\ call'[t].kind = c.kind /\ call'[t].by = c.by /\ call'[t].refreshed = c.refreshed
         /\ call'[t].answer = Verdict(c.kind, tab[t].csrf)
<1>1. PICK x \in {"403", "ok", "401"} : x = Verdict(c.kind, tab[t].csrf)
  BY DEF Verdict
<1> DEFINE d == [c EXCEPT !.pc = "served", !.sent = jar, !.answer = x]
<1>2. /\ d \in CallRecord /\ d.pc = "served" /\ d.sent = jar /\ d.kind = c.kind
      /\ d.by = c.by /\ d.refreshed = c.refreshed /\ d.answer = x
  BY AtTab DEF CallRecord
<1>3. call' = [call EXCEPT ![t] = d]
  BY <1>1 DEF Serve
<1> HIDE DEF d
<1> QED BY <1>1, <1>2, <1>3 DEF ClientInv, BrowserTypes

LEMMA WaitingTyped ==
  ASSUME NEW c \in CallRecord, NEW for \in {"waitCsrf", "waitRefresh"}
  PROVE  LET d == Waiting(c, for) IN
         /\ d \in CallRecord /\ d.pc = for /\ d.sent = NoCookies
         /\ d.kind = c.kind /\ d.by = c.by /\ d.refreshed = c.refreshed
  BY RecordsTyped DEF Waiting, CallRecord
-----------------------------------------------------------------------------
(* Steps keep the types, and those of a tab leave the others alone.        *)

LEMMA ExchangeTyped ==
  ASSUME ClientInv, NEW c \in Cookies, Exchange(c)
  PROVE  /\ chain' \in [Sessions -> ChainLink] /\ valid' \subseteq Sessions \X Nat
         /\ reused' \in BOOLEAN /\ valid \subseteq valid'
         /\ \A s \in Sessions : s # c.s => chain'[s] = chain[s]
         /\ \/ ~Live(c.s) /\ UNCHANGED <<chain, valid, reused>>
            \/ /\ Live(c.s) /\ c.s \in Sessions /\ UNCHANGED reused
               /\ Server!MayExchange(chain[c.s], c.n, now)
               /\ chain'[c.s] = Server!Link("live", chain[c.s].current + 1, c.n,
                                            chain[c.s].current, now)
               /\ <<c.s, chain[c.s].current + 1>> \in valid'
            \/ /\ Live(c.s) /\ c.s \in Sessions /\ UNCHANGED valid
               /\ ~Server!MayExchange(chain[c.s], c.n, now)
               /\ chain'[c.s] = Server!Ended
<1>0. /\ chain \in [Sessions -> ChainLink] /\ valid \subseteq Sessions \X Nat
      /\ reused \in BOOLEAN /\ now \in Nat /\ c.s \in Sessions \cup {0} /\ c.n \in Nat
  BY DEF ClientInv, ServerTypes, Cookies
<1>1. CASE ~Live(c.s)
  BY <1>0, <1>1 DEF Exchange
<1>2. CASE Live(c.s)
  <2> DEFINE k == chain[c.s]
             d == Server!Link("live", k.current + 1, c.n, k.current, now)
  <2>1. c.s \in Sessions /\ k \in ChainLink
    BY <1>0, <1>2 DEF Live
  <2>2. k.current \in Nat
    BY <2>1 DEF ChainLink
  <2>3. d \in ChainLink
    BY <1>0, <2>2 DEF ChainLink, Server!Link
  <2>4. CASE Server!MayExchange(k, c.n, now)
    <3>1. /\ chain' = [chain EXCEPT ![c.s] = d] /\ UNCHANGED reused
          /\ valid' = valid \cup {<<c.s, k.current + 1>>}
      BY <1>2, <2>4 DEF Exchange
    <3> HIDE DEF k, d
    <3>2. chain' \in [Sessions -> ChainLink] /\ chain'[c.s] = d
          /\ \A s \in Sessions : s # c.s => chain'[s] = chain[s]
      BY <1>0, <2>1, <2>3, <3>1
    <3>3. valid' \subseteq Sessions \X Nat
      BY <1>0, <2>1, <2>2, <3>1
    <3> QED BY <1>0, <1>2, <2>1, <2>4, <3>1, <3>2, <3>3 DEF k, d
  <2>5. CASE ~Server!MayExchange(k, c.n, now)
    <3>1. chain' = [chain EXCEPT ![c.s] = Server!Ended] /\ reused' = TRUE /\ UNCHANGED valid
      BY <1>2, <2>5 DEF Exchange
    <3>2. chain' \in [Sessions -> ChainLink] /\ chain'[c.s] = Server!Ended
          /\ \A s \in Sessions : s # c.s => chain'[s] = chain[s]
      BY <1>0, <2>1, <3>1, RecordsTyped
    <3> QED BY <1>0, <1>2, <2>1, <2>5, <3>1, <3>2
  <2> QED BY <2>4, <2>5
<1> QED BY <1>1, <1>2

LEMMA EndedTyped ==
  ASSUME ClientInv, NEW s \in Sessions, chain' = [chain EXCEPT ![s] = Server!Ended]
  PROVE  /\ chain' \in [Sessions -> ChainLink] /\ chain'[s] = Server!Ended
         /\ \A q \in Sessions : q # s => chain'[q] = chain[q]
  BY RecordsTyped DEF ClientInv, ServerTypes

LEMMA LoseTyped ==
  ASSUME ClientInv, NEW t \in Tabs, Lose(flight[t]) \/ LoseOne
  PROVE  /\ lost' \in Nat /\ lost' <= MaxLost /\ lost <= lost'
         /\ LoseOne \/ flight[t].answer = "ok" => lost' = lost + 1
  BY DEF ClientInv, ServerTypes, Lose, LoseOne

ServerStep ==
  /\ ServerTypes'
  /\ \A s \in Sessions :
       \/ chain'[s] = chain[s]
       \/ chain[s] = Server!Fresh /\ chain'[s] = Server!Link("live", 1, None, None, 0)
          /\ jar' = [s |-> s, n |-> 1, csrf |-> s] /\ <<s, 1>> \in valid'
       \/ Live(s) /\ chain'[s] = Server!Ended
       \/ /\ Live(s) /\ chain'[s].life = "live"
          /\ <<s, chain'[s].current>> \in valid'
  /\ lost <= lost' /\ now <= now'

\* Nothing but what is of tab t changes in the browser.
OnlyTab(t) ==
  /\ BrowserTypes'
  /\ \A u \in Tabs \ {t} : /\ tab'[u] = tab[u] /\ call'[u] = call[u]
                           /\ ask'[u] = ask[u] /\ flight'[u] = flight[u]

LEMMA ServerSame ==
  ASSUME ClientInv, UNCHANGED <<chain, valid, stray, now, lost, reused>>
  PROVE  ServerStep
  BY DEF ClientInv, ServerTypes, ServerStep

LEMMA LoginTyped ==
  ASSUME ClientInv, NEW t \in Tabs, Login(t)
  PROVE  OnlyTab(t) /\ ServerStep
<1>1. PICK s \in Sessions :
        /\ chain[s] = Server!Fresh
        /\ chain' = [chain EXCEPT ![s] = Server!Link("live", 1, None, None, 0)]
        /\ valid' = valid \cup {<<s, 1>>} /\ jar' = [s |-> s, n |-> 1, csrf |-> s]
        /\ Started(t, s) /\ UNCHANGED <<ask, flight, lock, stray, now, lost, reused>>
  BY DEF Login
<1>2. OnlyTab(t)
  <2>1. tab' \in [Tabs -> TabRecord] /\ call' \in [Tabs -> CallRecord] /\ Elsewhere(t)
    BY <1>1, MovesTyped DEF MovesTo
  <2>2. jar' \in Cookies
    BY <1>1 DEF Cookies
  <2> QED BY <1>1, <2>1, <2>2 DEF OnlyTab, BrowserTypes, Elsewhere, ClientInv
<1>3. ServerStep
  <2> DEFINE d == Server!Link("live", 1, None, None, 0)
  <2>1. d \in ChainLink
    BY DEF Server!Link, ChainLink
  <2>2. chain' = [chain EXCEPT ![s] = d]
    BY <1>1
  <2> HIDE DEF d
  <2>3. /\ chain' \in [Sessions -> ChainLink] /\ chain'[s] = d
        /\ \A q \in Sessions : q # s => chain'[q] = chain[q]
    BY <2>1, <2>2 DEF ClientInv, ServerTypes
  <2>4. <<s, 1>> \in valid' /\ valid' \subseteq Sessions \X Nat
    BY <1>1 DEF ClientInv, ServerTypes
  <2>5. ServerTypes'
    BY <1>1, <2>3, <2>4 DEF ClientInv, ServerTypes
  <2>6. lost <= lost' /\ now <= now'
    BY <1>1 DEF ClientInv, ServerTypes
  <2> QED BY <1>1, <2>3, <2>4, <2>5, <2>6 DEF ServerStep, d
<1> QED BY <1>2, <1>3

LEMMA LogoutTyped ==
  ASSUME ClientInv, NEW t \in Tabs, Logout(t)
  PROVE  OnlyTab(t) /\ ServerStep
<1>1. OnlyTab(t)
  <2>1. tab' \in [Tabs -> TabRecord] /\ call' \in [Tabs -> CallRecord] /\ Elsewhere(t)
    BY MovesTyped DEF MovesTo, Logout
  <2> QED BY <2>1, RecordsTyped DEF OnlyTab, BrowserTypes, Elsewhere, ClientInv, Logout
<1>2. CASE Live(jar.s)
  <2>1. jar.s \in Sessions /\ chain' = [chain EXCEPT ![jar.s] = Server!Ended]
    BY <1>2, AtTab DEF Logout, Live
  <2>2. UNCHANGED <<valid, stray, now, lost, reused>>
    BY DEF Logout
  <2>3. /\ chain' \in [Sessions -> ChainLink] /\ chain'[jar.s] = Server!Ended
        /\ \A q \in Sessions : q # jar.s => chain'[q] = chain[q]
    BY <2>1, EndedTyped
  <2>4. ServerTypes' /\ lost <= lost' /\ now <= now'
    BY <2>2, <2>3 DEF ClientInv, ServerTypes
  <2> QED BY <1>1, <1>2, <2>3, <2>4 DEF ServerStep
<1>3. CASE ~Live(jar.s)
  BY <1>1, <1>3, ServerSame DEF Logout
<1> QED BY <1>1, <1>2, <1>3

LEMMA ReloadTyped ==
  ASSUME ClientInv, NEW t \in Tabs, Reload(t)
  PROVE  OnlyTab(t) /\ ServerStep
<1>1. OnlyTab(t)
  <2>1. /\ tab' = [tab EXCEPT ![t] = [page |-> "boot", user |-> None, csrf |-> 0]]
        /\ call' = [call EXCEPT ![t] = NoCall] /\ ask' = [ask EXCEPT ![t] = NoRequest]
        /\ flight' = [flight EXCEPT ![t] = NoRequest] /\ UNCHANGED jar
    BY DEF Reload, ToPage
  <2>2. [page |-> "boot", user |-> None, csrf |-> 0] \in TabRecord
    BY DEF TabRecord, Pages, Accounts
  <2> QED BY <2>1, <2>2, RecordsTyped DEF OnlyTab, BrowserTypes, ClientInv
<1>2. lost' \in Nat /\ lost' <= MaxLost /\ lost <= lost'
  BY LoseTyped DEF Reload
<1>3. stray' \subseteq Cookies
  <2>1. stray' = stray \/ stray' = stray \cup {flight[t].sent}
    BY DEF Reload
  <2> QED BY <2>1, AtTab DEF ClientInv, ServerTypes
<1>4. UNCHANGED <<chain, valid, jar, now, reused>>
  BY DEF Reload
<1> QED BY <1>1, <1>2, <1>3, <1>4 DEF ServerStep, ClientInv, ServerTypes

LEMMA ExchangeServerStep ==
  ASSUME ClientInv, NEW c \in Cookies, Exchange(c), stray' \subseteq stray,
         UNCHANGED <<now, lost>>
  PROVE  ServerStep
<1>1. ServerTypes' /\ lost <= lost' /\ now <= now'
  <2>1. /\ chain' \in [Sessions -> ChainLink] /\ valid' \subseteq Sessions \X Nat
        /\ reused' \in BOOLEAN
    BY ExchangeTyped
  <2>2. stray' \subseteq Cookies /\ now \in Nat /\ lost \in Nat /\ lost <= MaxLost
    BY DEF ClientInv, ServerTypes
  <2> QED BY <2>1, <2>2 DEF ServerTypes
<1>2. ASSUME NEW s \in Sessions, chain'[s] # chain[s]
      PROVE  \/ Live(s) /\ chain'[s] = Server!Ended
             \/ /\ Live(s) /\ chain'[s].life = "live"
                /\ <<s, chain'[s].current>> \in valid'
  <2>1. s = c.s /\ ~UNCHANGED <<chain, valid, reused>>
    BY <1>2, ExchangeTyped
  <2>2. CASE Live(c.s) /\ chain'[c.s] = Server!Ended
    BY <2>1, <2>2
  <2>3. CASE /\ Live(c.s)
             /\ chain'[c.s] = Server!Link("live", chain[c.s].current + 1, c.n,
                                          chain[c.s].current, now)
             /\ <<c.s, chain[c.s].current + 1>> \in valid'
    <3>1. chain'[c.s].life = "live" /\ chain'[c.s].current = chain[c.s].current + 1
      BY <2>3 DEF Server!Link
    <3> QED BY <2>1, <2>3, <3>1
  <2> QED BY <2>1, <2>2, <2>3, ExchangeTyped
<1> QED BY <1>1, <1>2 DEF ServerStep

LEMMA SentTyped ==
  ASSUME NEW f \in FlightRecord, NEW c \in Cookies, NEW n \in Nat
  PROVE  /\ [f EXCEPT !.pc = "sent", !.sent = c] \in FlightRecord
         /\ [f EXCEPT !.pc = "served", !.answer = "ok", !.n = n] \in FlightRecord
         /\ [f EXCEPT !.pc = "served", !.answer = "lost"] \in FlightRecord
  BY DEF FlightRecord

LEMMA GrantTyped ==
  ASSUME ClientInv, NEW t \in Tabs, Grant(t)
  PROVE  /\ OnlyTab(t) /\ ServerStep /\ UNCHANGED <<call, tab, ask, jar>>
         /\ flight'[t].pc = "sent" /\ flight'[t].sent = jar
<1> DEFINE f == [flight[t] EXCEPT !.pc = "sent", !.sent = jar]
<1>1. f \in FlightRecord /\ f.pc = "sent" /\ f.sent = jar
  BY AtTab, SentTyped DEF FlightRecord
<1>2. flight' = [flight EXCEPT ![t] = f]
  BY DEF Grant
<1> HIDE DEF f
<1>3. /\ flight' \in [Tabs -> FlightRecord] /\ flight'[t] = f
      /\ \A u \in Tabs \ {t} : flight'[u] = flight[u]
  BY <1>1, <1>2 DEF ClientInv, BrowserTypes
<1>4. UNCHANGED <<call, tab, ask, jar, lock>> /\ ServerStep
  BY ServerSame DEF Grant
<1> QED BY <1>1, <1>3, <1>4 DEF OnlyTab, ClientInv, BrowserTypes

\* The refresh of a tab at the backend.
LEMMA ServeTypedRefresh ==
  ASSUME ClientInv, NEW t \in Tabs, ServeRefresh(t)
  PROVE  /\ OnlyTab(t) /\ ServerStep
         /\ LET c == flight[t].sent
                f == flight'[t]
            IN /\ f.pc = "served" /\ f.sent = c
               /\ \/ f.answer = "lost" /\ ~(Live(c.s) /\ Server!MayExchange(chain[c.s], c.n, now))
                  \/ /\ Live(c.s) /\ Server!MayExchange(chain[c.s], c.n, now)
                     /\ f.answer = "ok" /\ f.n = chain[c.s].current + 1
<1> DEFINE c == flight[t].sent
           ok == Live(c.s) /\ Server!MayExchange(chain[c.s], c.n, now)
<1>1. /\ flight[t] \in FlightRecord /\ c \in Cookies /\ Exchange(c)
      /\ UNCHANGED <<jar, tab, call, ask, lock, stray, now, lost>>
  BY AtTab DEF ServeRefresh
<1>2. ok => chain[c.s].current + 1 \in Nat
  <2> SUFFICES ASSUME ok PROVE chain[c.s].current + 1 \in Nat
    OBVIOUS
  <2>1. c.s \in Sessions
    BY AtTab DEF Live
  <2>2. chain[c.s] \in ChainLink
    BY <2>1 DEF ClientInv, ServerTypes
  <2> QED BY <2>2 DEF ChainLink
<1>3. PICK f \in FlightRecord :
        /\ flight' = [flight EXCEPT ![t] = f]
        /\ f.pc = "served" /\ f.sent = c
        /\ \/ f.answer = "lost" /\ ~ok
           \/ ok /\ f.answer = "ok" /\ f.n = chain[c.s].current + 1
  <2>1. CASE ok
    <3> DEFINE f == [flight[t] EXCEPT !.pc = "served", !.answer = "ok", !.n = chain[c.s].current + 1]
    <3>1. f \in FlightRecord
      BY <1>1, <1>2, <2>1, SentTyped
    <3>2. f.pc = "served" /\ f.sent = c /\ f.answer = "ok" /\ f.n = chain[c.s].current + 1
      BY <1>1 DEF FlightRecord
    <3>3. flight' = [flight EXCEPT ![t] = f]
      BY <2>1 DEF ServeRefresh
    <3> QED BY <2>1, <3>1, <3>2, <3>3
  <2>2. CASE ~ok
    <3> DEFINE f == [flight[t] EXCEPT !.pc = "served", !.answer = "lost"]
    <3>1. f \in FlightRecord
      BY <1>1, SentTyped
    <3>2. f.pc = "served" /\ f.sent = c /\ f.answer = "lost"
      BY <1>1 DEF FlightRecord
    <3>3. flight' = [flight EXCEPT ![t] = f]
      BY <2>2 DEF ServeRefresh
    <3> QED BY <2>2, <3>1, <3>2, <3>3
  <2> QED BY <2>1, <2>2
<1>4. /\ flight' \in [Tabs -> FlightRecord] /\ flight'[t] = f
      /\ \A u \in Tabs \ {t} : flight'[u] = flight[u]
  BY <1>3 DEF ClientInv, BrowserTypes
<1>5. OnlyTab(t)
  BY <1>1, <1>4 DEF OnlyTab, ClientInv, BrowserTypes
<1>6. ServerStep
  BY <1>1, ExchangeServerStep
<1> QED BY <1>3, <1>4, <1>5, <1>6

\* An answer reaches its tab, or does not.
LEMMA OutcomeTyped ==
  ASSUME ClientInv, NEW t \in Tabs, AnswerRefresh(t) \/ FailRefresh(t)
  PROVE  OnlyTab(t) /\ ServerStep
<1> DEFINE f == flight[t]
<1>0. f \in FlightRecord /\ f.sent \in Cookies /\ f.sent.csrf \in Sessions \cup {0}
      /\ f.n \in Nat /\ f.sent.s \in Sessions \cup {0}
  BY AtTab
<1>1. PICK outcome \in {"ok", "lost", "transient"} : Resume(t, outcome)
  <2>1. CASE AnswerRefresh(t)
    <3>1. f.answer \in {"ok", "lost"} /\ Resume(t, f.answer)
      BY <2>1 DEF AnswerRefresh, ClientInv, WaitInv
    <3> QED BY <3>1
  <2>2. CASE FailRefresh(t)
    BY <2>2 DEF FailRefresh
  <2> QED BY <2>1, <2>2
<1>2. Stops(t) \/ MovesTo(t, f.sent.csrf)
  BY <1>1, ResumeCases, StopsOf DEF MovesTo
<1>3. tab' \in [Tabs -> TabRecord] /\ call' \in [Tabs -> CallRecord] /\ Elsewhere(t)
  BY <1>0, <1>2, MovesTyped
<1>4. flight' = [flight EXCEPT ![t] = NoRequest] /\ UNCHANGED ask
  BY DEF AnswerRefresh, FailRefresh
<1>5. jar' \in Cookies
  <2>1. jar' = jar \/ jar' = [s |-> f.sent.s, n |-> f.n, csrf |-> f.sent.csrf]
    BY DEF AnswerRefresh, FailRefresh
  <2> QED BY <1>0, <2>1, AtTab DEF Cookies
<1>6. flight' \in [Tabs -> FlightRecord] /\ \A u \in Tabs \ {t} : flight'[u] = flight[u]
  BY <1>4, RecordsTyped DEF ClientInv, BrowserTypes
<1>7. OnlyTab(t)
  BY <1>3, <1>4, <1>5, <1>6 DEF OnlyTab, ClientInv, BrowserTypes, Elsewhere
<1>8. ServerStep
  <2>1. CASE AnswerRefresh(t)
    BY <2>1, ServerSame DEF AnswerRefresh
  <2>2. CASE FailRefresh(t)
    <3>1. lost' \in Nat /\ lost' <= MaxLost /\ lost <= lost'
      BY <2>2, LoseTyped DEF FailRefresh
    <3>2. UNCHANGED <<chain, valid, stray, now, reused>>
      BY <2>2 DEF FailRefresh
    <3> QED BY <3>1, <3>2 DEF ServerStep, ClientInv, ServerTypes
  <2> QED BY <2>1, <2>2
<1> QED BY <1>7, <1>8

LEMMA QuietTyped ==
  ASSUME ClientInv, NEW t \in Tabs,
         EnsureFresh(t) \/ Boot(t) \/ Call(t) \/ Send(t)
  PROVE  OnlyTab(t) /\ ServerStep
<1>1. ServerStep /\ UNCHANGED jar
  BY ServerSame DEF EnsureFresh, Boot, Call, Send
<1>2. CASE EnsureFresh(t)
  BY <1>1, <1>2, JoinTyped DEF EnsureFresh, OnlyTab, ClientInv, BrowserTypes
<1>3. CASE Boot(t)
  <2>1. [tab[t] EXCEPT !.page = "booting"] \in TabRecord
    BY AtTab DEF TabRecord, Pages
  <2> QED BY <1>1, <1>3, <2>1, AskTyped DEF Boot, OnlyTab, ClientInv, BrowserTypes
<1>4. CASE Call(t) \/ Send(t)
  <2>1. PICK c \in CallRecord : Serve(t, c)
    <3>1. [NoCall EXCEPT !.kind = "write", !.by = tab[t].user] \in CallRecord
      BY RecordsTyped, AtTab DEF CallRecord
    <3> QED BY <1>4, <3>1, AtTab DEF Call, Send
  <2>2. UNCHANGED <<tab, ask, flight>>
    BY <1>4 DEF Call, Send
  <2> QED BY <1>1, <2>1, <2>2, ServeTyped DEF OnlyTab, ClientInv, BrowserTypes
<1> QED BY <1>2, <1>3, <1>4

LEMMA AnswersTyped ==
  ASSUME ClientInv, NEW t \in Tabs, AnswerAsk(t) \/ Answer(t)
  PROVE  OnlyTab(t) /\ ServerStep
<1>1. ServerStep
  BY ServerSame DEF AnswerAsk, Answer
<1>2. CASE AnswerAsk(t)
  <2> DEFINE a == ask[t]
  <2>0. a.sent.csrf \in Sessions \cup {0}
    BY AtTab
  <2>1. ask' = [ask EXCEPT ![t] = NoRequest]
    BY <1>2 DEF AnswerAsk
  <2>2. ask' \in [Tabs -> AskRecord] /\ \A u \in Tabs \ {t} : ask'[u] = ask[u]
    BY <2>1, RecordsTyped DEF ClientInv, BrowserTypes
  <2>3. jar' \in Cookies
    <3>1. [jar EXCEPT !.csrf = a.sent.csrf] \in Cookies
      BY <2>0, AtTab DEF Cookies
    <3> QED BY <1>2, <3>1, AtTab DEF AnswerAsk
  <2>4. /\ Stops(t) \/ MovesTo(t, a.sent.csrf)
        /\ Join(t) \/ UNCHANGED <<flight, lock>>
    BY <1>2, AnswerAskCases, StopsOf DEF MovesTo
  <2>5. tab' \in [Tabs -> TabRecord] /\ call' \in [Tabs -> CallRecord] /\ Elsewhere(t)
    BY <2>0, <2>4, MovesTyped
  <2>6. flight' \in [Tabs -> FlightRecord] /\ \A u \in Tabs \ {t} : flight'[u] = flight[u]
    BY <2>4, JoinTyped DEF ClientInv, BrowserTypes
  <2> QED BY <1>1, <2>2, <2>3, <2>5, <2>6 DEF OnlyTab, BrowserTypes, Elsewhere
<1>3. CASE Answer(t)
  <2> DEFINE c == call[t]
  <2>0. /\ c \in CallRecord /\ tab[t] \in TabRecord
        /\ tab \in [Tabs -> TabRecord] /\ call \in [Tabs -> CallRecord]
        /\ UNCHANGED jar /\ jar \in Cookies
    BY <1>3, AtTab DEF Answer, ClientInv, BrowserTypes
  <2>1. tab' \in [Tabs -> TabRecord] /\ call' \in [Tabs -> CallRecord] /\ Elsewhere(t)
    <3>1. \/ Stops(t)
          \/ /\ call' = [call EXCEPT ![t] = NoCall]
             /\ tab' = IF c.kind = "write" THEN tab
                       ELSE [tab EXCEPT ![t].page = "app", ![t].user = Owner[c.sent.s]]
             /\ c.answer = "ok"
          \/ UNCHANGED tab /\ call' = [call EXCEPT ![t] =
                                Waiting([c EXCEPT !.csrfRetried = TRUE], "waitCsrf")]
          \/ UNCHANGED tab /\ call' = [call EXCEPT ![t] =
                                Waiting([c EXCEPT !.refreshed = TRUE], "waitRefresh")]
      BY <1>3, AnswerCases, StopsOf
    <3>2. CASE Stops(t)
      BY <3>2, MovesTyped
    <3>3. CASE /\ call' = [call EXCEPT ![t] = NoCall] /\ c.answer = "ok"
               /\ tab' = IF c.kind = "write" THEN tab
                         ELSE [tab EXCEPT ![t].page = "app", ![t].user = Owner[c.sent.s]]
      <4>0. c.sent.s \in Sessions
        BY <1>3, <3>3, AtTab DEF Answer, ClientInv, WaitInv
      <4>1. [tab[t] EXCEPT !.page = "app", !.user = Owner[c.sent.s]] \in TabRecord
        BY <2>0, <4>0 DEF TabRecord, Pages, Accounts
      <4>2. CASE c.kind = "write"
        BY <2>0, <3>3, <4>2, RecordsTyped DEF Elsewhere
      <4>3. CASE c.kind # "write"
        BY <2>0, <3>3, <4>1, <4>3, RecordsTyped DEF Elsewhere
      <4> QED BY <4>2, <4>3
    <3>4. CASE UNCHANGED tab /\ call' = [call EXCEPT ![t] =
                                Waiting([c EXCEPT !.csrfRetried = TRUE], "waitCsrf")]
      <4>1. [c EXCEPT !.csrfRetried = TRUE] \in CallRecord
        BY <2>0 DEF CallRecord
      <4> QED BY <2>0, <3>4, <4>1, WaitingTyped DEF Elsewhere
    <3>5. CASE UNCHANGED tab /\ call' = [call EXCEPT ![t] =
                                Waiting([c EXCEPT !.refreshed = TRUE], "waitRefresh")]
      <4>1. [c EXCEPT !.refreshed = TRUE] \in CallRecord
        BY <2>0 DEF CallRecord
      <4> QED BY <2>0, <3>5, <4>1, WaitingTyped DEF Elsewhere
    <3> QED BY <3>1, <3>2, <3>3, <3>4, <3>5
  <2>2. UNCHANGED ask \/ Ask(t)
    BY <1>3, AnswerCases
  <2>3. UNCHANGED flight \/ Join(t)
    BY <1>3, AnswerCases
  <2>4. ask' \in [Tabs -> AskRecord] /\ \A u \in Tabs \ {t} : ask'[u] = ask[u]
    BY <2>2, AskTyped DEF ClientInv, BrowserTypes
  <2>5. flight' \in [Tabs -> FlightRecord] /\ \A u \in Tabs \ {t} : flight'[u] = flight[u]
    BY <2>3, JoinTyped DEF ClientInv, BrowserTypes
  <2> QED BY <1>1, <2>0, <2>1, <2>4, <2>5 DEF OnlyTab, BrowserTypes, Elsewhere
<1> QED BY <1>2, <1>3
TabStep(t) ==
  \/ Grant(t) \/ ServeRefresh(t) \/ AnswerRefresh(t) \/ Boot(t) \/ AnswerAsk(t)
  \/ Send(t) \/ Answer(t) \/ FailRefresh(t) \/ Call(t) \/ EnsureFresh(t)
  \/ Login(t) \/ Reload(t) \/ Logout(t)
OtherStep ==
  \/ \E c \in stray : ServeStray(c)
  \/ \E s \in Sessions : EndElsewhere(s) \/ \E n \in 1 .. chain[s].current : Expire(s, n)
  \/ Tick

LEMMA NextCases == [Next]_vars => (\E t \in Tabs : TabStep(t)) \/ OtherStep \/ UNCHANGED vars
  BY DEF Next, TabStep, OtherStep, Renewal, Asking, Calling

LEMMA TabStepTyped ==
  ASSUME ClientInv, NEW t \in Tabs, TabStep(t)
  PROVE  OnlyTab(t) /\ ServerStep
  BY GrantTyped, ServeTypedRefresh, OutcomeTyped, QuietTyped, AnswersTyped,
     LoginTyped, ReloadTyped, LogoutTyped DEF TabStep

LEMMA OtherStepTyped ==
  ASSUME ClientInv, OtherStep
  PROVE  ServerStep /\ UNCHANGED <<jar, tab, call, ask, flight, lock>>
<1>1. CASE \E c \in stray : ServeStray(c)
  <2> PICK c \in stray : ServeStray(c)
    BY <1>1
  <2>1. c \in Cookies
    BY DEF ClientInv, ServerTypes
  <2> QED BY <2>1, ExchangeServerStep DEF ServeStray
<1>2. CASE \E s \in Sessions : EndElsewhere(s)
  <2> PICK s \in Sessions : EndElsewhere(s)
    BY <1>2
  <2>1. /\ Live(s) /\ chain' = [chain EXCEPT ![s] = Server!Ended]
        /\ UNCHANGED <<valid, jar, tab, call, ask, flight, lock, stray, now, lost, reused>>
    BY DEF EndElsewhere
  <2>2. ServerTypes' /\ lost <= lost' /\ now <= now'
    <3>1. chain' \in [Sessions -> ChainLink]
      BY <2>1, EndedTyped
    <3> QED BY <2>1, <3>1 DEF ClientInv, ServerTypes
  <2> QED BY <2>1, <2>2, EndedTyped DEF ServerStep
<1>3. CASE \E s \in Sessions : \E n \in 1 .. chain[s].current : Expire(s, n)
  BY <1>3 DEF Expire, ServerStep, ClientInv, ServerTypes
<1>4. CASE Tick
  BY <1>4 DEF Tick, ServerStep, ClientInv, ServerTypes
<1> QED BY <1>1, <1>2, <1>3, <1>4 DEF OtherStep

-----------------------------------------------------------------------------
(* Nobody waits in vain.                                                   *)

\* What a tab keeps in the queue: its place, a new one at the end, or none.
LEMMA LockStays ==
  ASSUME ClientInv, NEW t \in Tabs, OnlyTab(t), UNCHANGED lock,
         flight'[t].pc = "idle" <=> flight[t].pc = "idle"
  PROVE  LockInv'
<1>1. \A u \in Tabs : flight'[u].pc # "idle" <=> flight[u].pc # "idle"
  BY DEF OnlyTab
<1> QED BY <1>1 DEF LockInv, ClientInv

LEMMA LockJoined ==
  ASSUME ClientInv, NEW t \in Tabs, OnlyTab(t), Join(t)
  PROVE  LockInv'
<1>1. CASE UNCHANGED <<flight, lock>>
  BY <1>1, LockStays
<1>2. CASE ~UNCHANGED <<flight, lock>>
  <2>1. flight[t].pc = "idle" /\ flight'[t].pc = "queued" /\ lock' = Append(lock, t)
    BY <1>2, JoinTyped
  <2>2. \A i \in DOMAIN lock : lock[i] # t
    BY <2>1 DEF ClientInv, LockInv
  <2>3. /\ lock' \in Seq(Tabs)
        /\ \A i, j \in DOMAIN lock' : lock'[i] = lock'[j] => i = j
        /\ \A u \in Tabs : (\E i \in DOMAIN lock' : lock'[i] = u) <=>
                             u = t \/ \E i \in DOMAIN lock : lock[i] = u
    BY <2>1, <2>2, JoinsQueue DEF ClientInv, LockInv
  <2>4. \A u \in Tabs : flight'[u].pc # "idle" <=> \E i \in DOMAIN lock' : lock'[i] = u
    BY <2>1, <2>3 DEF OnlyTab, ClientInv, LockInv
  <2> QED BY <2>3, <2>4 DEF LockInv
<1> QED BY <1>1, <1>2

LEMMA LockLeft ==
  ASSUME ClientInv, NEW t \in Tabs, OnlyTab(t), Unlock(t), flight'[t].pc = "idle"
  PROVE  LockInv'
<1>1. /\ lock' \in Seq(Tabs)
      /\ \A i, j \in DOMAIN lock' : lock'[i] = lock'[j] => i = j
      /\ \A u \in Tabs : (\E i \in DOMAIN lock' : lock'[i] = u) <=>
                           u # t /\ \E i \in DOMAIN lock : lock[i] = u
  <2> DEFINE r == Without(lock, t)
  <2>1. lock' = r
    BY DEF Unlock
  <2>2. lock \in Seq(Tabs) /\ \A i, j \in DOMAIN lock : lock[i] = lock[j] => i = j
    BY DEF ClientInv, LockInv
  <2>3. /\ r \in Seq(Tabs)
        /\ \A i, j \in DOMAIN r : r[i] = r[j] => i = j
        /\ \A u \in Tabs : (\E i \in DOMAIN r : r[i] = u) <=>
                             u # t /\ \E i \in DOMAIN lock : lock[i] = u
    BY <2>2, LeavesQueue
  <2> HIDE DEF r
  <2> QED BY <2>1, <2>3
<1>2. \A u \in Tabs : flight'[u].pc # "idle" <=> \E i \in DOMAIN lock' : lock'[i] = u
  BY <1>1 DEF OnlyTab, ClientInv, LockInv
<1> QED BY <1>1, <1>2 DEF LockInv

LEMMA TabStepLock ==
  ASSUME ClientInv, NEW t \in Tabs, TabStep(t)
  PROVE  LockInv'
<1>0. OnlyTab(t) /\ flight \in [Tabs -> FlightRecord]
  BY TabStepTyped DEF ClientInv, BrowserTypes
<1>1. CASE UNCHANGED <<flight, lock>>
  BY <1>0, <1>1, LockStays
<1>2. CASE Join(t)
  BY <1>0, <1>2, LockJoined
<1>3. CASE Reload(t) \/ AnswerRefresh(t) \/ FailRefresh(t)
  BY <1>0, <1>3, LockLeft, RecordsTyped DEF Reload, AnswerRefresh, FailRefresh
<1>4. CASE Grant(t)
  BY <1>0, <1>4, GrantTyped, LockStays DEF Grant
<1>5. CASE ServeRefresh(t)
  BY <1>0, <1>5, ServeTypedRefresh, LockStays DEF ServeRefresh
<1>6. CASE Boot(t) \/ AnswerAsk(t) \/ Send(t) \/ Answer(t) \/ Call(t) \/ EnsureFresh(t)
           \/ Login(t) \/ Logout(t)
  <2>1. UNCHANGED <<flight, lock>> \/ Join(t)
    BY <1>6, AnswerAskCases, AnswerCases
       DEF Boot, Send, Call, EnsureFresh, Login, Logout
  <2> QED BY <1>1, <1>2, <2>1
<1> QED BY <1>3, <1>4, <1>5, <1>6 DEF TabStep

LEMMA TabStepWaits ==
  ASSUME ClientInv, NEW t \in Tabs, TabStep(t)
  PROVE  WaitInv(t)'
<1>0. /\ OnlyTab(t) /\ WaitInv(t)
      /\ flight \in [Tabs -> FlightRecord] /\ tab \in [Tabs -> TabRecord]
      /\ call \in [Tabs -> CallRecord] /\ ask \in [Tabs -> AskRecord]
  BY TabStepTyped DEF ClientInv, BrowserTypes
<1>1. CASE Grant(t)
  BY <1>0, <1>1, GrantTyped DEF WaitInv, Grant
<1>2. CASE ServeRefresh(t)
  BY <1>0, <1>2, ServeTypedRefresh DEF WaitInv, ServeRefresh
<1>3. CASE AnswerRefresh(t) \/ FailRefresh(t)
  <2>1. /\ flight'[t].pc = "idle" /\ UNCHANGED ask /\ flight[t].pc # "idle"
    BY <1>0, <1>3, RecordsTyped DEF AnswerRefresh, FailRefresh
  <2>2. PICK outcome \in {"ok", "lost", "transient"} : Resume(t, outcome)
    <3>1. CASE AnswerRefresh(t)
      <4>1. flight[t].answer \in {"ok", "lost"} /\ Resume(t, flight[t].answer)
        BY <1>0, <3>1 DEF AnswerRefresh, WaitInv
      <4> QED BY <4>1
    <3>2. CASE FailRefresh(t)
      BY <3>2 DEF FailRefresh
    <3> QED BY <1>3, <3>1, <3>2
  <2>3. CASE tab[t].page = "booting"
    <3>1. \/ Started(t, flight[t].sent.csrf)
          \/ ToPage(t, "login") /\ UNCHANGED call
      BY <2>2, <2>3, ResumeCases
    <3>2. ask[t].pc = "idle" /\ call[t].pc = "idle"
      BY <1>0, <2>1, <2>3 DEF WaitInv
    <3> QED BY <1>0, <2>1, <3>1, <3>2, RecordsTyped DEF WaitInv, Started, ToPage
  <2>4. CASE tab[t].page # "booting" /\ call[t].pc # "waitRefresh"
    <3>1. UNCHANGED <<call, tab>>
      BY <2>2, <2>4, ResumeCases
    <3> QED BY <1>0, <2>1, <2>4, <3>1 DEF WaitInv
  <2>5. CASE tab[t].page # "booting" /\ call[t].pc = "waitRefresh"
    <3>1. Stops(t) \/ Repeat(t, flight[t].sent.csrf)
      BY <2>2, <2>5, ResumeCases, StopsOf
    <3>2. ask[t].pc = "idle" /\ tab[t].page \in {"profile", "app"}
      BY <1>0, <2>5 DEF WaitInv
    <3>3. CASE Stops(t)
      <4>1. call'[t].pc = "idle" /\ flight'[t].pc = "idle" /\ ask'[t].pc = "idle"
        BY <1>0, <2>1, <3>2, <3>3, RecordsTyped DEF Stops
      <4> QED BY <4>1 DEF WaitInv
    <3>4. CASE Repeat(t, flight[t].sent.csrf)
      <4>1. /\ call'[t].pc = "send" /\ flight'[t].pc = "idle" /\ ask'[t].pc = "idle"
            /\ tab'[t].page = tab[t].page
        BY <1>0, <2>1, <3>2, <3>4 DEF Repeat, TabRecord, CallRecord
      <4> QED BY <3>2, <4>1 DEF WaitInv
    <3> QED BY <3>1, <3>3, <3>4
  <2> QED BY <2>3, <2>4, <2>5
<1>4. CASE Boot(t)
  <2>1. /\ tab'[t].page = "booting" /\ ask'[t].pc = "served" /\ UNCHANGED <<call, flight>>
        /\ call[t].pc = "idle" /\ flight[t].pc = "idle"
    BY <1>0, <1>4, AskTyped DEF Boot, WaitInv, TabRecord
  <2> QED BY <2>1 DEF WaitInv
<1>5. CASE AnswerAsk(t)
  <2>1. ask'[t].pc = "idle" /\ ask[t].pc = "served"
    BY <1>0, <1>5, RecordsTyped DEF AnswerAsk
  <2>2. CASE tab[t].page = "booting"
    <3>0. call[t].pc = "idle"
      BY <1>0, <2>2 DEF WaitInv
    <3>1. CASE Started(t, ask[t].sent.csrf) /\ UNCHANGED <<flight, lock>>
      <4>1. call'[t].pc = "send" /\ tab'[t].page = "profile" /\ UNCHANGED flight
        BY <1>0, <3>1, RecordsTyped DEF Started
      <4> QED BY <1>0, <2>1, <4>1 DEF WaitInv
    <3>2. CASE Join(t) /\ UNCHANGED <<tab, call>>
      <4>1. flight'[t].pc # "served" \/ UNCHANGED flight
        BY <3>2, JoinTyped
      <4> QED BY <1>0, <2>1, <2>2, <3>0, <3>2, <4>1 DEF WaitInv
    <3>3. CASE ToPage(t, "login") /\ UNCHANGED <<call, flight, lock>>
      <4>1. tab'[t].page = "login"
        BY <1>0, <3>3 DEF ToPage
      <4> QED BY <1>0, <2>1, <3>0, <3>3, <4>1 DEF WaitInv
    <3> QED BY <1>5, <2>2, <3>1, <3>2, <3>3, AnswerAskCases
  <2>3. CASE tab[t].page # "booting"
    <3>0. call[t].pc = "waitCsrf" /\ tab[t].page \in {"profile", "app"}
      BY <1>0, <2>1, <2>3 DEF WaitInv
    <3>1. UNCHANGED flight /\ (Stops(t) \/ Repeat(t, ask[t].sent.csrf))
      BY <1>5, <2>3, AnswerAskCases, StopsOf
    <3>2. CASE Stops(t)
      <4>1. call'[t].pc = "idle" /\ (tab'[t].page # "boot")
        BY <1>0, <3>0, <3>2, RecordsTyped DEF Stops, NoProfile, ToPage, TabRecord
      <4> QED BY <1>0, <2>1, <3>1, <4>1 DEF WaitInv
    <3>3. CASE Repeat(t, ask[t].sent.csrf)
      <4>1. call'[t].pc = "send" /\ tab'[t].page = tab[t].page
        BY <1>0, <3>3 DEF Repeat, TabRecord, CallRecord
      <4> QED BY <1>0, <2>1, <3>0, <3>1, <4>1 DEF WaitInv
    <3> QED BY <3>1, <3>2, <3>3
  <2> QED BY <2>2, <2>3
<1>6. CASE Send(t) \/ Call(t)
  <2>1. PICK c \in CallRecord : Serve(t, c)
    <3>1. [NoCall EXCEPT !.kind = "write", !.by = tab[t].user] \in CallRecord
      BY RecordsTyped, AtTab DEF CallRecord
    <3> QED BY <1>6, <3>1, AtTab DEF Call, Send
  <2>2. UNCHANGED <<tab, ask, flight>> /\ tab[t].page \in {"profile", "app"}
        /\ ask[t].pc = "idle"
    BY <1>0, <1>6, RecordsTyped DEF Call, Send, WaitInv
  <2>3. /\ call'[t].pc = "served" /\ call'[t].sent = jar
        /\ call'[t].answer = Verdict(c.kind, tab[t].csrf)
    BY <2>1, ServeTyped
  <2>4. call'[t].answer = "ok" => call'[t].sent.s # 0
    BY <2>3 DEF Verdict, Authentic, Live
  <2> QED BY <1>0, <2>2, <2>3, <2>4 DEF WaitInv
<1>7. CASE Answer(t)
  <2> DEFINE c == call[t]
  <2>0. c \in CallRecord /\ tab[t].page \in {"profile", "app"} /\ ask[t].pc = "idle"
        /\ c.pc = "served"
    BY <1>0, <1>7 DEF WaitInv, Answer
  <2>1. CASE /\ call' = [call EXCEPT ![t] = NoCall] /\ UNCHANGED <<ask, flight, lock>>
             /\ tab' = IF c.kind = "write" THEN tab
                       ELSE [tab EXCEPT ![t].page = "app", ![t].user = Owner[c.sent.s]]
    <3>1. call'[t].pc = "idle" /\ tab'[t].page \in {"profile", "app"}
      BY <1>0, <2>0, <2>1, RecordsTyped DEF TabRecord
    <3> QED BY <1>0, <2>0, <2>1, <3>1 DEF WaitInv
  <2>2. CASE /\ UNCHANGED <<tab, flight, lock>> /\ Ask(t)
             /\ call' = [call EXCEPT ![t] = Waiting([c EXCEPT !.csrfRetried = TRUE], "waitCsrf")]
    <3>1. call'[t].pc = "waitCsrf" /\ ask'[t].pc = "served"
      <4>1. [c EXCEPT !.csrfRetried = TRUE] \in CallRecord
        BY <2>0 DEF CallRecord
      <4> QED BY <1>0, <2>2, <4>1, AskTyped, WaitingTyped
    <3> QED BY <1>0, <2>0, <2>2, <3>1 DEF WaitInv
  <2>3. CASE /\ UNCHANGED <<tab, ask>> /\ Join(t)
             /\ call' = [call EXCEPT ![t] = Waiting([c EXCEPT !.refreshed = TRUE], "waitRefresh")]
    <3>1. call'[t].pc = "waitRefresh"
      <4>1. [c EXCEPT !.refreshed = TRUE] \in CallRecord
        BY <2>0 DEF CallRecord
      <4> QED BY <1>0, <2>3, <4>1, WaitingTyped
    <3>2. flight'[t].pc # "idle" /\ (flight'[t].pc # "served" \/ UNCHANGED flight)
      BY <2>3, JoinTyped
    <3> QED BY <1>0, <2>0, <2>3, <3>1, <3>2 DEF WaitInv
  <2>4. CASE Stops(t) /\ UNCHANGED <<ask, flight, lock>>
    <3>1. call'[t].pc = "idle" /\ tab'[t].page \notin {"boot", "booting"}
      BY <1>0, <2>0, <2>4, RecordsTyped DEF Stops, NoProfile, ToPage, TabRecord
    <3> QED BY <1>0, <2>0, <2>4, <3>1 DEF WaitInv
  <2> QED BY <1>7, <2>1, <2>2, <2>3, <2>4, AnswerCases, StopsOf
<1>8. CASE EnsureFresh(t)
  <2>1. flight'[t].pc # "idle" /\ flight'[t].pc # "served" /\ UNCHANGED <<tab, call, ask>>
        /\ tab[t].page = "app"
    BY <1>8, JoinTyped DEF EnsureFresh
  <2> QED BY <1>0, <2>1 DEF WaitInv
<1>9. CASE Login(t)
  <2>1. /\ tab[t].page = "login" /\ UNCHANGED <<ask, flight>>
        /\ \E s \in Sessions : Started(t, s)
    BY <1>9 DEF Login
  <2>2. ask[t].pc = "idle"
    BY <1>0, <2>1 DEF WaitInv
  <2>3. call'[t].pc = "send" /\ tab'[t].page = "profile"
    BY <1>0, <2>1, RecordsTyped DEF Started
  <2> QED BY <1>0, <2>1, <2>2, <2>3 DEF WaitInv
<1>10. CASE Reload(t)
  <2>1. call'[t].pc = "idle" /\ ask'[t].pc = "idle" /\ flight'[t].pc = "idle"
    BY <1>0, <1>10, RecordsTyped DEF Reload
  <2> QED BY <2>1 DEF WaitInv
<1>11. CASE Logout(t)
  <2>1. /\ tab'[t].page = "login" /\ UNCHANGED <<call, ask, flight>>
        /\ call[t].pc = "idle" /\ ask[t].pc = "idle"
    BY <1>0, <1>11, RecordsTyped DEF Logout, ToPage, WaitInv
  <2> QED BY <1>0, <2>1 DEF WaitInv
<1> QED BY <1>1, <1>2, <1>3, <1>4, <1>5, <1>6, <1>7, <1>8, <1>9, <1>10, <1>11 DEF TabStep

LEMMA InitClientInv == Init => ClientInv
<1> SUFFICES ASSUME Init PROVE ClientInv
  OBVIOUS
<1>1. ServerTypes
  <2>1. chain \in [Sessions -> ChainLink]
    BY RecordsTyped DEF Init
  <2>2. MaxLost \in Nat
    BY DEF ClientAssumption
  <2>3. valid \subseteq Sessions \X Nat /\ stray \subseteq Cookies
    BY DEF Init
  <2>4. now \in Nat /\ lost \in Nat /\ lost <= MaxLost
    BY <2>2 DEF Init
  <2>5. reused \in BOOLEAN
    BY DEF Init
  <2> QED BY <2>1, <2>3, <2>4, <2>5 DEF ServerTypes
<1>2. BrowserTypes
  <2>1. [page |-> "boot", user |-> None, csrf |-> 0] \in TabRecord
    BY DEF TabRecord, Pages, Accounts
  <2> QED BY <2>1, RecordsTyped DEF Init, BrowserTypes
<1>3. LockInv
  BY RecordsTyped DEF Init, LockInv
<1>4. \A t \in Tabs : WaitInv(t)
  BY RecordsTyped DEF Init, WaitInv
<1> QED BY <1>1, <1>2, <1>3, <1>4 DEF ClientInv

LEMMA NextClientInv == ClientInv /\ [Next]_vars => ClientInv'
<1> SUFFICES ASSUME ClientInv, [Next]_vars PROVE ClientInv'
  OBVIOUS
<1>1. CASE \E t \in Tabs : TabStep(t)
  <2> PICK t \in Tabs : TabStep(t)
    BY <1>1
  <2>1. OnlyTab(t) /\ ServerStep /\ LockInv' /\ WaitInv(t)'
    BY TabStepTyped, TabStepLock, TabStepWaits
  <2>2. \A u \in Tabs \ {t} : WaitInv(u)'
    BY <2>1 DEF ClientInv, OnlyTab, WaitInv
  <2> QED BY <2>1, <2>2 DEF ClientInv, OnlyTab, ServerStep
<1>2. CASE OtherStep
  <2>1. ServerStep /\ UNCHANGED <<jar, tab, call, ask, flight, lock>>
    BY <1>2, OtherStepTyped
  <2> QED BY <2>1 DEF ClientInv, ServerStep, BrowserTypes, LockInv, WaitInv
<1>3. CASE UNCHANGED vars
  BY <1>3 DEF vars, ClientInv, ServerTypes, BrowserTypes, LockInv, WaitInv
<1> QED BY <1>1, <1>2, <1>3, NextCases

LEMMA AlwaysClientInv == Spec => []ClientInv
  BY InitClientInv, NextClientInv, PTL DEF Spec

\* refreshCsrfToken, sharedRefresh, SESSION_REFRESH_LOCK: a call waits for a
\* request under way, and the lock is with a tab that refreshes, in any browser
\* and whatever is lost, reloaded or ended meanwhile.
THEOREM NobodyIsForgotten == Spec => []NobodyWaitsInVain
<1>1. ClientInv => NobodyWaitsInVain
  BY DEF ClientInv, LockInv, WaitInv, NobodyWaitsInVain
<1> QED BY <1>1, AlwaysClientInv, PTL
-----------------------------------------------------------------------------
(* Only whose session is over is signed out.                               *)

\* Cookies are of sessions there have been.
Known(c) == c.s # 0 => c.s \in Used
KnownTab(t) == Known(call[t].sent) /\ Known(ask[t].sent) /\ Known(flight[t].sent)
KnownInv ==
  /\ Known(jar) /\ \A c \in stray : Known(c)
  /\ \A t \in Tabs : KnownTab(t)

\* A session stays used, and stays over.
LEMMA UsedStay ==
  ASSUME ClientInv, ServerStep, NEW s \in Sessions, s \in Used
  PROVE  s \in Used' /\ (~Live(s) => ~Live(s)')
<1>1. chain[s] # Server!Fresh /\ s # 0 /\ chain[s] \in ChainLink
  BY DEF Used, ClientAssumption, ClientInv, ServerTypes
<1>2. \/ chain'[s] = chain[s]
      \/ Live(s) /\ chain'[s] = Server!Ended
      \/ Live(s) /\ chain'[s].life = "live"
  BY <1>1 DEF ServerStep
<1> QED BY <1>1, <1>2, RecordsTyped DEF Used, Live

LEMMA KnownStay ==
  ASSUME ClientInv, ServerStep, NEW c \in Cookies, Known(c)
  PROVE  Known(c)' /\ (~Live(c.s) => ~Live(c.s)')
<1>1. c.s \in Sessions \cup {0}
  BY DEF Cookies
<1>2. CASE c.s = 0
  BY <1>2 DEF Known, Live
<1>3. CASE c.s # 0
  <2>1. c.s \in Sessions /\ c.s \in Used
    BY <1>1, <1>3 DEF Known
  <2> QED BY <2>1, UsedStay DEF Known
<1> QED BY <1>2, <1>3

LEMMA MovesSent ==
  ASSUME ClientInv, NEW t \in Tabs, NEW csrf, Stops(t) \/ MovesTo(t, csrf)
  PROVE  /\ call'[t].sent \in {call[t].sent, NoCookies}
         /\ \/ call'[t] = NoCall \/ call'[t] = Profile \/ UNCHANGED call
            \/ /\ Repeat(t, csrf) /\ call'[t] = [call[t] EXCEPT !.pc = "send"]
<1>0. call \in [Tabs -> CallRecord] /\ call[t] \in CallRecord
  BY DEF ClientInv, BrowserTypes
<1>1. CASE Stops(t) \/ Started(t, csrf) \/ UNCHANGED call
  BY <1>0, <1>1, RecordsTyped DEF Stops, Started
<1>2. CASE Repeat(t, csrf)
  BY <1>0, <1>2 DEF Repeat, CallRecord
<1> QED BY <1>1, <1>2 DEF MovesTo

LEMMA OutcomeOf ==
  ASSUME ClientInv, NEW t \in Tabs, AnswerRefresh(t) \/ FailRefresh(t)
  PROVE  \E outcome \in {"ok", "lost", "transient"} :
           /\ Resume(t, outcome)
           /\ outcome # "transient" => AnswerRefresh(t) /\ outcome = flight[t].answer
                                        /\ flight[t].pc = "served"
<1>1. CASE AnswerRefresh(t)
  <2>1. flight[t].answer \in {"ok", "lost"} /\ Resume(t, flight[t].answer)
    BY <1>1 DEF AnswerRefresh, WaitInv, ClientInv
  <2> QED BY <1>1, <2>1 DEF AnswerRefresh
<1>2. CASE FailRefresh(t)
  BY <1>2 DEF FailRefresh
<1> QED BY <1>1, <1>2

LEMMA CallServed ==
  ASSUME ClientInv, NEW t \in Tabs, Send(t) \/ Call(t)
  PROVE  /\ UNCHANGED <<chain, valid, jar, tab, ask, flight, stray>>
         /\ call'[t].pc = "served" /\ call'[t].sent = jar
         /\ call'[t].answer = Verdict(call'[t].kind, tab[t].csrf)
         /\ \/ /\ Send(t) /\ call[t].pc = "send" /\ call'[t].kind = call[t].kind
               /\ call'[t].by = call[t].by /\ call'[t].refreshed = call[t].refreshed
            \/ /\ Call(t) /\ call'[t].kind = "write" /\ call'[t].by = tab[t].user
               /\ call'[t].refreshed = FALSE
<1>1. CASE Send(t)
  <2>1. Serve(t, call[t]) /\ call[t].pc = "send"
    BY <1>1 DEF Send
  <2>2. /\ call'[t].pc = "served" /\ call'[t].sent = jar
        /\ call'[t].kind = call[t].kind /\ call'[t].by = call[t].by
        /\ call'[t].refreshed = call[t].refreshed
        /\ call'[t].answer = Verdict(call[t].kind, tab[t].csrf)
    BY <2>1, ServeTyped, AtTab
  <2> QED BY <1>1, <2>1, <2>2 DEF Send
<1>2. CASE Call(t)
  <2> DEFINE c == [NoCall EXCEPT !.kind = "write", !.by = tab[t].user]
  <2>1. c \in CallRecord /\ c.kind = "write" /\ c.by = tab[t].user /\ c.refreshed = FALSE
    BY RecordsTyped, AtTab DEF CallRecord
  <2>2. Serve(t, c)
    BY <1>2 DEF Call
  <2> HIDE DEF c
  <2>3. /\ call'[t].pc = "served" /\ call'[t].sent = jar
        /\ call'[t].kind = "write" /\ call'[t].by = tab[t].user
        /\ call'[t].refreshed = FALSE
        /\ call'[t].answer = Verdict("write", tab[t].csrf)
    BY <2>1, <2>2, ServeTyped
  <2> QED BY <1>2, <2>3 DEF Call
<1> QED BY <1>1, <1>2

LEMMA CallWaits ==
  ASSUME ClientInv, NEW t \in Tabs, Answer(t)
  PROVE  \/ call'[t] = NoCall /\ UNCHANGED <<ask, flight, lock>>
         \/ /\ call'[t].pc = "waitCsrf" /\ call'[t].sent = NoCookies
            /\ call'[t].kind = call[t].kind /\ call'[t].by = call[t].by
            /\ call'[t].refreshed = call[t].refreshed
            /\ Ask(t) /\ UNCHANGED <<tab, flight, lock>>
         \/ /\ call'[t].pc = "waitRefresh" /\ call'[t].sent = NoCookies
            /\ call'[t].kind = call[t].kind /\ call'[t].by = call[t].by
            /\ Join(t) /\ UNCHANGED <<tab, ask>>
<1> DEFINE c == call[t]
<1>0. call \in [Tabs -> CallRecord] /\ c \in CallRecord
  BY DEF ClientInv, BrowserTypes
<1>1. CASE /\ UNCHANGED <<tab, flight, lock>> /\ Ask(t)
           /\ call' = [call EXCEPT ![t] = Waiting([c EXCEPT !.csrfRetried = TRUE], "waitCsrf")]
  <2> DEFINE d == [c EXCEPT !.csrfRetried = TRUE]
  <2>1. d \in CallRecord /\ d.kind = c.kind /\ d.by = c.by /\ d.refreshed = c.refreshed
    BY <1>0 DEF CallRecord
  <2>2. call'[t] = Waiting(d, "waitCsrf")
    BY <1>0, <1>1
  <2> HIDE DEF d
  <2> QED BY <1>1, <2>1, <2>2, WaitingTyped
<1>2. CASE /\ UNCHANGED <<tab, ask>> /\ Join(t)
           /\ call' = [call EXCEPT ![t] = Waiting([c EXCEPT !.refreshed = TRUE], "waitRefresh")]
  <2> DEFINE d == [c EXCEPT !.refreshed = TRUE]
  <2>1. d \in CallRecord /\ d.kind = c.kind /\ d.by = c.by
    BY <1>0 DEF CallRecord
  <2>2. call'[t] = Waiting(d, "waitRefresh")
    BY <1>0, <1>2
  <2> HIDE DEF d
  <2> QED BY <1>2, <2>1, <2>2, WaitingTyped
<1>3. CASE call' = [call EXCEPT ![t] = NoCall] /\ UNCHANGED <<ask, flight, lock>>
  BY <1>0, <1>3
<1>4. CASE (SessionEnded(t) \/ Rejected(t)) /\ UNCHANGED <<ask, flight, lock>>
  BY <1>3, <1>4 DEF SessionEnded, Rejected
<1> QED BY <1>1, <1>2, <1>3, <1>4, AnswerCases

\* What a step of a tab sends along is the cookies, or was with it already.
LEMMA SentFrom ==
  ASSUME ClientInv, NEW t \in Tabs, TabStep(t)
  PROVE  /\ call'[t].sent \in {call[t].sent, jar, NoCookies}
         /\ ask'[t].sent \in {ask[t].sent, jar, NoCookies}
         /\ flight'[t].sent \in {flight[t].sent, jar, NoCookies}
         /\ stray' \subseteq stray \cup {flight[t].sent}
<1>0. /\ call \in [Tabs -> CallRecord] /\ ask \in [Tabs -> AskRecord]
      /\ flight \in [Tabs -> FlightRecord]
  BY DEF ClientInv, BrowserTypes
<1>1. CASE Grant(t)
  BY <1>1, GrantTyped DEF Grant
<1>2. CASE ServeRefresh(t)
  BY <1>2, ServeTypedRefresh DEF ServeRefresh
<1>3. CASE AnswerRefresh(t) \/ FailRefresh(t)
  <2>1. UNCHANGED <<ask, stray>> /\ flight'[t] = NoRequest
    BY <1>0, <1>3 DEF AnswerRefresh, FailRefresh
  <2>2. Stops(t) \/ MovesTo(t, flight[t].sent.csrf)
    BY <1>3, OutcomeOf, ResumeCases, StopsOf DEF MovesTo
  <2> QED BY <2>1, <2>2, MovesSent, RecordsTyped
<1>4. CASE Boot(t)
  BY <1>4, AskTyped DEF Boot
<1>5. CASE AnswerAsk(t)
  <2>1. UNCHANGED stray /\ ask'[t] = NoRequest
    BY <1>0, <1>5 DEF AnswerAsk
  <2>2. Stops(t) \/ MovesTo(t, ask[t].sent.csrf)
    BY <1>5, AnswerAskCases, StopsOf DEF MovesTo
  <2>3. flight'[t].sent = flight[t].sent
    BY <1>5, AnswerAskCases, JoinTyped
  <2> QED BY <2>1, <2>2, <2>3, MovesSent, RecordsTyped
<1>6. CASE Send(t) \/ Call(t)
  BY <1>6, CallServed
<1>7. CASE Answer(t)
  <2>1. UNCHANGED stray
    BY <1>7 DEF Answer
  <2>2. call'[t].sent = NoCookies /\ flight'[t].sent = flight[t].sent
    BY <1>7, CallWaits, JoinTyped, RecordsTyped
  <2>3. ask'[t].sent \in {ask[t].sent, jar}
    BY <1>7, CallWaits, AskTyped
  <2> QED BY <2>1, <2>2, <2>3
<1>8. CASE EnsureFresh(t)
  BY <1>8, JoinTyped DEF EnsureFresh
<1>9. CASE Login(t)
  BY <1>0, <1>9, RecordsTyped DEF Login, Started
<1>10. CASE Reload(t)
  <2>1. /\ call'[t] = NoCall /\ ask'[t] = NoRequest /\ flight'[t] = NoRequest
        /\ stray' = stray \/ stray' = stray \cup {flight[t].sent}
    BY <1>0, <1>10 DEF Reload
  <2> QED BY <2>1, RecordsTyped
<1>11. CASE Logout(t)
  BY <1>11 DEF Logout
<1> QED BY <1>1, <1>2, <1>3, <1>4, <1>5, <1>6, <1>7, <1>8, <1>9, <1>10, <1>11 DEF TabStep

\* The cookies after a step.
LEMMA JarFrom ==
  ASSUME ClientInv, NEW t \in Tabs, TabStep(t)
  PROVE  \/ jar'.s = jar.s /\ jar'.n = jar.n
         \/ Logout(t) /\ jar' = NoCookies
         \/ /\ AnswerRefresh(t) /\ flight[t].pc = "served" /\ flight[t].answer = "ok"
            /\ jar' = [s |-> flight[t].sent.s, n |-> flight[t].n, csrf |-> flight[t].sent.csrf]
         \/ Login(t) /\ \E s \in Sessions :
              /\ jar' = [s |-> s, n |-> 1, csrf |-> s] /\ <<s, 1>> \in valid'
              /\ chain' = [chain EXCEPT ![s] = Server!Link("live", 1, None, None, 0)]
<1>1. CASE Login(t)
  BY <1>1 DEF Login
<1>2. CASE AnswerRefresh(t)
  BY <1>2 DEF AnswerRefresh
<1>3. CASE AnswerAsk(t)
  BY <1>3, AtTab DEF AnswerAsk, Cookies
<1>4. CASE Logout(t)
  BY <1>4 DEF Logout
<1> QED BY <1>1, <1>2, <1>3, <1>4
        DEF TabStep, Grant, ServeRefresh, FailRefresh, Boot, Send, Call, Answer, EnsureFresh, Reload

\* Where the call of a tab comes from that makes a step.
SameCall(t) ==
  /\ call'[t] = call[t]
  /\ call[t].pc # "idle" => tab'[t].csrf = tab[t].csrf /\ tab'[t].user = tab[t].user
  /\ call[t].pc = "waitCsrf" => ask'[t] = ask[t]
RepeatAfter(t, c) ==
  /\ Repeat(t, c.csrf) /\ ~OtherAccount(t, c.s)
  /\ call'[t] = [call[t] EXCEPT !.pc = "send"]
RepeatRefreshed(t) ==
  /\ AnswerRefresh(t) /\ flight[t].pc = "served" /\ flight[t].answer = "ok"
  /\ RepeatAfter(t, flight[t].sent)
RepeatAsked(t) ==
  /\ AnswerAsk(t) /\ ask[t].pc = "served" /\ ask[t].answer = "authenticated"
  /\ call[t].pc = "waitCsrf" /\ RepeatAfter(t, ask[t].sent)
Asks(t) ==
  /\ Ask(t) /\ UNCHANGED tab
  /\ call'[t].pc = "waitCsrf" /\ call'[t].kind = call[t].kind /\ call'[t].by = call[t].by
Waits(t) ==
  /\ UNCHANGED tab
  /\ call'[t].pc = "waitRefresh" /\ call'[t].kind = call[t].kind /\ call'[t].by = call[t].by

LEMMA OutcomeMoves ==
  ASSUME ClientInv, NEW t \in Tabs, AnswerRefresh(t) \/ FailRefresh(t)
  PROVE  \/ SameCall(t)
         \/ call'[t] = NoCall
         \/ /\ call'[t] = Profile /\ Started(t, flight[t].sent.csrf) /\ AnswerRefresh(t)
            /\ flight[t].pc = "served" /\ flight[t].answer = "ok"
         \/ call[t].pc = "waitRefresh" /\ RepeatRefreshed(t)
<1>0. call \in [Tabs -> CallRecord] /\ call[t] \in CallRecord
  BY DEF ClientInv, BrowserTypes
<1>1. PICK outcome \in {"ok", "lost", "transient"} :
        /\ Resume(t, outcome)
        /\ outcome # "transient" => AnswerRefresh(t) /\ outcome = flight[t].answer
                                     /\ flight[t].pc = "served"
  BY OutcomeOf
<1>2. CASE tab[t].page = "booting"
  <2>1. call[t].pc = "idle"
    BY <1>2 DEF ClientInv, WaitInv
  <2>2. CASE outcome = "ok" /\ Started(t, flight[t].sent.csrf)
    BY <1>0, <1>1, <2>2 DEF Started
  <2>3. CASE UNCHANGED call
    BY <2>1, <2>3 DEF SameCall
  <2> QED BY <1>1, <1>2, <2>2, <2>3, ResumeCases
<1>3. CASE tab[t].page # "booting" /\ call[t].pc # "waitRefresh"
  <2>1. UNCHANGED <<call, tab, ask>>
    BY <1>1, <1>3, ResumeCases DEF AnswerRefresh, FailRefresh
  <2> QED BY <2>1 DEF SameCall
<1>4. CASE tab[t].page # "booting" /\ call[t].pc = "waitRefresh"
  <2>1. CASE Stops(t)
    BY <1>0, <2>1 DEF Stops
  <2>2. CASE outcome = "ok" /\ ~OtherAccount(t, flight[t].sent.s) /\ Repeat(t, flight[t].sent.csrf)
    <3>1. call'[t] = [call[t] EXCEPT !.pc = "send"]
      BY <1>0, <2>2 DEF Repeat
    <3> QED BY <1>1, <1>4, <2>2, <3>1 DEF RepeatRefreshed, RepeatAfter
  <2> QED BY <1>1, <1>4, <2>1, <2>2, ResumeCases, StopsOf
<1> QED BY <1>2, <1>3, <1>4

LEMMA CallFrom ==
  ASSUME ClientInv, NEW t \in Tabs, TabStep(t)
  PROVE  \/ SameCall(t)
         \/ call'[t] = NoCall
         \/ call'[t] = Profile
         \/ call[t].pc = "waitRefresh" /\ RepeatRefreshed(t)
         \/ RepeatAsked(t)
         \/ Send(t) \/ Call(t)
         \/ Asks(t) /\ Answer(t) /\ call'[t].refreshed = call[t].refreshed
         \/ Waits(t) /\ Answer(t)
<1>0. call \in [Tabs -> CallRecord] /\ call[t] \in CallRecord
  BY DEF ClientInv, BrowserTypes
<1>1. CASE Grant(t) \/ ServeRefresh(t) \/ EnsureFresh(t)
  BY <1>1 DEF Grant, ServeRefresh, EnsureFresh, SameCall
<1>2. CASE AnswerRefresh(t) \/ FailRefresh(t)
  BY <1>2, OutcomeMoves
<1>3. CASE Boot(t)
  BY <1>3 DEF Boot, SameCall, ClientInv, WaitInv
<1>4. CASE AnswerAsk(t)
  <2>0. ask[t].pc = "served"
    BY <1>4 DEF AnswerAsk
  <2>1. CASE tab[t].page = "booting"
    <3>1. call[t].pc = "idle"
      BY <2>1 DEF ClientInv, WaitInv
    <3>2. UNCHANGED call \/ Started(t, ask[t].sent.csrf)
      BY <1>4, <2>1, AnswerAskCases
    <3> QED BY <1>0, <3>1, <3>2 DEF Started, SameCall
  <2>2. CASE tab[t].page # "booting"
    <3>1. call[t].pc = "waitCsrf"
      BY <2>0, <2>2 DEF ClientInv, WaitInv
    <3>2. CASE Stops(t)
      BY <1>0, <3>2 DEF Stops
    <3>3. CASE /\ ask[t].answer = "authenticated" /\ ~OtherAccount(t, ask[t].sent.s)
               /\ Repeat(t, ask[t].sent.csrf)
      <4>1. call'[t] = [call[t] EXCEPT !.pc = "send"]
        BY <1>0, <3>3 DEF Repeat
      <4> QED BY <1>4, <2>0, <3>1, <3>3, <4>1 DEF RepeatAsked, RepeatAfter
    <3> QED BY <1>4, <2>2, <3>2, <3>3, AnswerAskCases, StopsOf
  <2> QED BY <2>1, <2>2
<1>5. CASE Answer(t)
  <2>1. CASE call'[t] = NoCall
    BY <2>1
  <2>2. CASE /\ call'[t].pc = "waitCsrf" /\ call'[t].refreshed = call[t].refreshed
             /\ call'[t].kind = call[t].kind /\ call'[t].by = call[t].by
             /\ Ask(t) /\ UNCHANGED <<tab, flight, lock>>
    BY <1>5, <2>2 DEF Asks
  <2>3. CASE /\ call'[t].pc = "waitRefresh"
             /\ call'[t].kind = call[t].kind /\ call'[t].by = call[t].by
             /\ UNCHANGED <<tab, ask>>
    BY <1>5, <2>3 DEF Waits
  <2> QED BY <1>5, <2>1, <2>2, <2>3, CallWaits
<1>6. CASE Login(t)
  BY <1>0, <1>6 DEF Login, Started
<1>7. CASE Reload(t)
  BY <1>0, <1>7 DEF Reload
<1>8. CASE Logout(t)
  BY <1>8, RecordsTyped DEF Logout, SameCall
<1> QED BY <1>1, <1>2, <1>3, <1>4, <1>5, <1>6, <1>7, <1>8 DEF TabStep

LEMMA FlightServed ==
  ASSUME ClientInv, NEW t \in Tabs, TabStep(t), flight'[t].pc = "served"
  PROVE  flight'[t] = flight[t] \/ ServeRefresh(t)
<1>0. flight \in [Tabs -> FlightRecord]
  BY DEF ClientInv, BrowserTypes
<1>1. CASE Grant(t)
  BY <1>1, GrantTyped
<1>2. CASE AnswerRefresh(t) \/ FailRefresh(t) \/ Reload(t)
  BY <1>0, <1>2, RecordsTyped DEF AnswerRefresh, FailRefresh, Reload
<1>3. CASE Join(t)
  BY <1>3, JoinTyped
<1>4. CASE UNCHANGED flight
  BY <1>4
<1>5. CASE Boot(t) \/ AnswerAsk(t) \/ Send(t) \/ Answer(t) \/ Call(t) \/ EnsureFresh(t)
           \/ Login(t) \/ Logout(t)
  <2>1. UNCHANGED flight \/ Join(t)
    BY <1>5, AnswerAskCases, AnswerCases DEF Boot, Send, Call, EnsureFresh, Login, Logout
  <2> QED BY <1>3, <1>4, <2>1
<1> QED BY <1>1, <1>2, <1>5 DEF TabStep

EndInv == ClientInv /\ KnownInv /\ \A t \in Tabs : RenewedInv(t)

LEMMA TabStepKnown ==
  ASSUME ClientInv, KnownInv, NEW t \in Tabs, TabStep(t)
  PROVE  KnownInv'
<1>0. ServerStep /\ OnlyTab(t) /\ Known(NoCookies)
  BY TabStepTyped, RecordsTyped DEF Known
<1>1. \A u \in Tabs : /\ call[u].sent \in Cookies /\ ask[u].sent \in Cookies
                      /\ flight[u].sent \in Cookies
                      /\ Known(call[u].sent) /\ Known(ask[u].sent) /\ Known(flight[u].sent)
  BY AtTab DEF KnownInv, KnownTab
<1>2. jar \in Cookies /\ Known(jar) /\ NoCookies \in Cookies /\ stray \subseteq Cookies
      /\ \A c \in stray : Known(c)
  BY RecordsTyped DEF KnownInv, ClientInv, BrowserTypes, ServerTypes
<1>3. \A c \in Cookies : Known(c) /\ c.s # 0 => c.s \in Used'
  <2> SUFFICES ASSUME NEW c \in Cookies, Known(c), c.s # 0 PROVE c.s \in Used'
    OBVIOUS
  <2>1. c.s \in Sessions /\ c.s \in Used
    BY DEF Known, Cookies
  <2> QED BY <1>0, <2>1, UsedStay
<1>4. Known(jar)'
  <2>1. CASE jar'.s = jar.s
    BY <1>2, <1>3, <2>1 DEF Known
  <2>2. CASE jar' = NoCookies
    BY <2>2, RecordsTyped DEF Known
  <2>3. CASE jar' = [s |-> flight[t].sent.s, n |-> flight[t].n, csrf |-> flight[t].sent.csrf]
    <3>1. jar'.s = flight[t].sent.s
      BY <2>3
    <3> QED BY <1>1, <1>3, <3>1 DEF Known
  <2>4. CASE \E s \in Sessions :
               /\ jar' = [s |-> s, n |-> 1, csrf |-> s]
               /\ chain' = [chain EXCEPT ![s] = Server!Link("live", 1, None, None, 0)]
    <3> PICK s \in Sessions :
               /\ jar' = [s |-> s, n |-> 1, csrf |-> s]
               /\ chain' = [chain EXCEPT ![s] = Server!Link("live", 1, None, None, 0)]
      BY <2>4
    <3>1. chain'[s] = Server!Link("live", 1, None, None, 0)
      BY DEF ClientInv, ServerTypes
    <3>2. chain'[s].life = "live"
      BY <3>1 DEF Server!Link
    <3>3. chain'[s] # Server!Fresh
      BY <3>2, RecordsTyped
    <3>4. s \in Used' /\ jar'.s = s
      BY <3>3 DEF Used
    <3> QED BY <3>4 DEF Known
  <2>5. \/ jar'.s = jar.s \/ jar' = NoCookies
        \/ jar' = [s |-> flight[t].sent.s, n |-> flight[t].n, csrf |-> flight[t].sent.csrf]
        \/ \E s \in Sessions :
             /\ jar' = [s |-> s, n |-> 1, csrf |-> s]
             /\ chain' = [chain EXCEPT ![s] = Server!Link("live", 1, None, None, 0)]
    BY JarFrom
  <2> QED BY <2>1, <2>2, <2>3, <2>4, <2>5
<1>5. \A c \in stray' : Known(c)'
  BY <1>1, <1>2, <1>3, SentFrom DEF Known
<1>6. KnownTab(t)'
  BY <1>0, <1>1, <1>2, <1>3, SentFrom DEF KnownTab, Known
<1>7. \A u \in Tabs \ {t} : KnownTab(u)'
  BY <1>0, <1>1, <1>3 DEF KnownTab, Known, OnlyTab
<1> QED BY <1>4, <1>5, <1>6, <1>7 DEF KnownInv

LEMMA OtherStepKnown ==
  ASSUME ClientInv, KnownInv, OtherStep
  PROVE  KnownInv'
<1>1. ServerStep /\ UNCHANGED <<jar, tab, call, ask, flight, lock>>
  BY OtherStepTyped
<1>2. stray' \subseteq stray /\ stray \subseteq Cookies
  BY DEF OtherStep, ServeStray, EndElsewhere, Expire, Tick, ClientInv, ServerTypes
<1>3. \A c \in Cookies : Known(c) /\ c.s # 0 => c.s \in Used'
  <2> SUFFICES ASSUME NEW c \in Cookies, Known(c), c.s # 0 PROVE c.s \in Used'
    OBVIOUS
  <2>1. c.s \in Sessions /\ c.s \in Used
    BY DEF Known, Cookies
  <2> QED BY <1>1, <2>1, UsedStay
<1>4. \A t \in Tabs : KnownTab(t)'
  BY <1>1, <1>3, AtTab DEF KnownInv, KnownTab, Known
<1>5. Known(jar)' /\ \A c \in stray' : Known(c)'
  BY <1>1, <1>2, <1>3 DEF KnownInv, Known, ClientInv, BrowserTypes
<1> QED BY <1>4, <1>5 DEF KnownInv

LEMMA ValidGrows ==
  ASSUME ClientInv, NEW t \in Tabs, TabStep(t)
  PROVE  valid \subseteq valid'
<1>1. CASE ServeRefresh(t)
  BY <1>1, ExchangeTyped, AtTab DEF ServeRefresh
<1> QED BY <1>1 DEF TabStep, Grant, AnswerRefresh, Boot, AnswerAsk, Send, Answer, FailRefresh,
                    Call, EnsureFresh, Login, Reload, Logout

\* Of a step: s is a session that goes on.
LiveThen(s) == s # 0 /\ chain'[s].life = "live"

LEMMA OverStays ==
  ASSUME ClientInv, ServerStep, NEW c \in Cookies, Known(c), ~Live(c.s)
  PROVE  ~LiveThen(c.s)
<1>1. c.s \in Sessions \cup {0}
  BY DEF Cookies
<1>2. c.s # 0 => c.s \in Sessions /\ c.s \in Used
  BY <1>1 DEF Known
<1> QED BY <1>2, UsedStay DEF LiveThen, Live

\* What a refresh brings is good when it replaces the cookies, and what is good
\* stays so while no access token expires.
LEMMA JarStaysValid ==
  ASSUME EndInv, NEW t \in Tabs, TabStep(t), JarValid \/ AnswerRefresh(t),
         AnswerRefresh(t) => flight[t].pc = "served" /\ (JarValid \/ flight[t].answer = "ok")
  PROVE  JarValid'
<1>0. /\ ClientInv /\ KnownInv /\ RenewedInv(t) /\ ServerStep /\ valid \subseteq valid'
      /\ jar \in Cookies /\ flight[t].sent \in Cookies /\ Known(jar) /\ Known(flight[t].sent)
  BY TabStepTyped, ValidGrows, AtTab DEF EndInv, KnownInv, KnownTab
<1>1. CASE jar'.s = jar.s /\ jar'.n = jar.n /\ JarValid
  <2>1. LiveThen(jar.s) => Live(jar.s)
    BY <1>0, OverStays
  <2> QED BY <1>0, <1>1, <2>1 DEF JarValid, LiveThen, Live
<1>2. CASE jar' = NoCookies
  BY <1>2, RecordsTyped DEF JarValid, Live
<1>3. CASE /\ flight[t].pc = "served" /\ flight[t].answer = "ok"
           /\ jar' = [s |-> flight[t].sent.s, n |-> flight[t].n, csrf |-> flight[t].sent.csrf]
  <2>1. Live(flight[t].sent.s) => <<flight[t].sent.s, flight[t].n>> \in valid'
    BY <1>0, <1>3 DEF RenewedInv
  <2>2. LiveThen(flight[t].sent.s) => Live(flight[t].sent.s)
    BY <1>0, OverStays
  <2>3. jar'.s = flight[t].sent.s /\ jar'.n = flight[t].n
    BY <1>3
  <2>4. LiveThen(flight[t].sent.s) => <<flight[t].sent.s, flight[t].n>> \in valid'
    BY <2>1, <2>2
  <2> QED BY <2>3, <2>4 DEF JarValid, LiveThen, Live
<1>4. CASE \E s \in Sessions : jar' = [s |-> s, n |-> 1, csrf |-> s] /\ <<s, 1>> \in valid'
  BY <1>4 DEF JarValid
<1>5. \/ jar'.s = jar.s /\ jar'.n = jar.n
      \/ jar' = NoCookies
      \/ /\ AnswerRefresh(t) /\ flight[t].pc = "served" /\ flight[t].answer = "ok"
         /\ jar' = [s |-> flight[t].sent.s, n |-> flight[t].n, csrf |-> flight[t].sent.csrf]
      \/ \E s \in Sessions : jar' = [s |-> s, n |-> 1, csrf |-> s] /\ <<s, 1>> \in valid'
  BY <1>0, JarFrom
<1>6. CASE JarValid
  BY <1>1, <1>2, <1>3, <1>4, <1>5, <1>6
<1>7. CASE ~JarValid
  <2>1. AnswerRefresh(t) /\ flight[t].pc = "served" /\ flight[t].answer = "ok"
    BY <1>7
  <2>2. jar' = [s |-> flight[t].sent.s, n |-> flight[t].n, csrf |-> flight[t].sent.csrf]
    BY <2>1 DEF AnswerRefresh
  <2> QED BY <1>3, <2>1, <2>2
<1> QED BY <1>6, <1>7

LEMMA TabStepRenewed ==
  ASSUME EndInv, NEW t \in Tabs, TabStep(t)
  PROVE  RenewedInv(t)'
<1>0. /\ ClientInv /\ RenewedInv(t) /\ ServerStep /\ OnlyTab(t) /\ valid \subseteq valid'
      /\ flight[t].sent \in Cookies /\ Known(flight[t].sent)
      /\ call[t].sent \in Cookies /\ Known(call[t].sent)
      /\ call[t] \in CallRecord
  BY TabStepTyped, ValidGrows, AtTab DEF EndInv, KnownInv, KnownTab
<1>1. /\ LiveThen(flight[t].sent.s) => Live(flight[t].sent.s)
      /\ LiveThen(call[t].sent.s) => Live(call[t].sent.s)
  BY <1>0, OverStays
<1>2. /\ flight'[t].pc = "served" /\ flight'[t].answer # "ok" => ~LiveThen(flight'[t].sent.s)
      /\ flight'[t].pc = "served" /\ flight'[t].answer = "ok" /\ LiveThen(flight'[t].sent.s) =>
           <<flight'[t].sent.s, flight'[t].n>> \in valid'
  <2>1. CASE flight'[t] = flight[t]
    BY <1>0, <1>1, <2>1 DEF RenewedInv
  <2>2. CASE ServeRefresh(t)
    <3> DEFINE c == flight[t].sent
               ok == Live(c.s) /\ Server!MayExchange(chain[c.s], c.n, now)
    <3>1. /\ flight'[t].sent = c
          /\ \/ flight'[t].answer = "lost" /\ ~ok
             \/ ok /\ flight'[t].answer = "ok" /\ flight'[t].n = chain[c.s].current + 1
      BY <1>0, <2>2, ServeTypedRefresh
    <3>2. Exchange(c)
      BY <2>2 DEF ServeRefresh
    <3>3. CASE ok
      <4>1. <<c.s, chain[c.s].current + 1>> \in valid'
        BY <1>0, <3>2, <3>3, ExchangeTyped
      <4> QED BY <3>1, <3>3, <4>1
    <3>4. CASE ~ok /\ Live(c.s)
      <4>1. chain'[c.s] = Server!Ended
        BY <1>0, <3>2, <3>4, ExchangeTyped
      <4>2. ~LiveThen(c.s)
        BY <4>1, RecordsTyped DEF LiveThen
      <4> QED BY <3>1, <3>4, <4>2
    <3>5. CASE ~Live(c.s)
      BY <1>1, <3>1, <3>5
    <3> QED BY <3>3, <3>4, <3>5
  <2> QED BY <1>0, <2>1, <2>2, FlightServed
<1>3. JarValid /\ ~AnswerRefresh(t) => JarValid'
  BY JarStaysValid
<1>4. AnswerRefresh(t) /\ (JarValid \/ flight[t].answer = "ok") => JarValid'
  BY JarStaysValid DEF AnswerRefresh
<1>5. /\ call'[t].refreshed /\ call'[t].pc = "send" => JarValid'
      /\ call'[t].refreshed /\ call'[t].pc = "waitCsrf" /\ ask'[t].answer = "authenticated" =>
           JarValid'
      /\ call'[t].refreshed /\ call'[t].pc = "served" /\ call'[t].answer = "401" =>
           ~LiveThen(call'[t].sent.s)
  <2>1. CASE SameCall(t)
    BY <1>0, <1>1, <1>3, <1>4, <2>1 DEF SameCall, RenewedInv
  <2>2. CASE call'[t] = NoCall \/ call'[t] = Profile
    BY <2>2, RecordsTyped
  <2>3. CASE RepeatRefreshed(t)
    <3>1. call'[t].pc = "send" /\ JarValid'
      BY <1>0, <1>4, <2>3 DEF RepeatRefreshed, RepeatAfter, CallRecord
    <3> QED BY <3>1
  <2>4. CASE RepeatAsked(t)
    <3>1. /\ call'[t].pc = "send" /\ call'[t].refreshed = call[t].refreshed
      BY <1>0, <2>4 DEF RepeatAsked, RepeatAfter, CallRecord
    <3>2. call[t].refreshed => JarValid
      BY <1>0, <2>4 DEF RepeatAsked, RenewedInv
    <3> QED BY <1>3, <1>4, <3>1, <3>2
  <2>5. CASE Send(t) \/ Call(t)
    <3>1. /\ call'[t].pc = "served" /\ call'[t].sent = jar /\ UNCHANGED chain
          /\ call'[t].answer = Verdict(call'[t].kind, tab[t].csrf)
          /\ call'[t].refreshed => call[t].refreshed /\ call[t].pc = "send"
      BY <1>0, <2>5, CallServed
    <3>2. call'[t].refreshed => JarValid
      BY <1>0, <3>1 DEF RenewedInv
    <3>3. JarValid /\ Live(jar.s) => call'[t].answer # "401"
      BY <3>1 DEF JarValid, Authentic, Verdict, Live
    <3> QED BY <3>1, <3>2, <3>3 DEF LiveThen, Live
  <2>6. CASE Asks(t) /\ Answer(t) /\ call'[t].refreshed = call[t].refreshed
    <3>1. call'[t].pc = "waitCsrf" /\ (ask'[t].answer = "authenticated" => Authentic(jar))
      BY <1>0, <2>6, AskTyped DEF Asks
    <3>2. UNCHANGED <<chain, jar, valid>>
      BY <2>6 DEF Answer
    <3> QED BY <3>1, <3>2 DEF JarValid, Authentic, Live
  <2>7. CASE Waits(t)
    BY <2>7 DEF Waits
  <2> QED BY <1>0, <2>1, <2>2, <2>3, <2>4, <2>5, <2>6, <2>7, CallFrom
<1> QED BY <1>2, <1>5 DEF RenewedInv, LiveThen, Live

LEMMA OthersRenewed ==
  ASSUME EndInv, NEW t \in Tabs, TabStep(t), NEW u \in Tabs \ {t}
  PROVE  RenewedInv(u)'
<1>0. /\ ClientInv /\ RenewedInv(u) /\ ServerStep /\ valid \subseteq valid'
      /\ call'[u] = call[u] /\ ask'[u] = ask[u] /\ flight'[u] = flight[u]
      /\ flight[u].sent \in Cookies /\ Known(flight[u].sent)
      /\ call[u].sent \in Cookies /\ Known(call[u].sent)
  BY TabStepTyped, ValidGrows, AtTab DEF EndInv, KnownInv, KnownTab, OnlyTab
<1>1. /\ LiveThen(flight[u].sent.s) => Live(flight[u].sent.s)
      /\ LiveThen(call[u].sent.s) => Live(call[u].sent.s)
  BY <1>0, OverStays
<1>2. JarValid => JarValid'
  BY JarStaysValid DEF AnswerRefresh
<1> QED BY <1>0, <1>1, <1>2 DEF RenewedInv, LiveThen, Live

LEMMA OtherStepRenewed ==
  ASSUME EndInv, OtherStep, NEW u \in Tabs
  PROVE  RenewedInv(u)'
<1>0. /\ ClientInv /\ RenewedInv(u) /\ ServerStep /\ UNCHANGED <<jar, tab, call, ask, flight>>
      /\ flight[u].sent \in Cookies /\ Known(flight[u].sent)
      /\ call[u].sent \in Cookies /\ Known(call[u].sent)
      /\ jar \in Cookies /\ Known(jar)
  BY OtherStepTyped, AtTab DEF EndInv, KnownInv, KnownTab
<1>1. /\ LiveThen(flight[u].sent.s) => Live(flight[u].sent.s)
      /\ LiveThen(call[u].sent.s) => Live(call[u].sent.s)
      /\ LiveThen(jar.s) => Live(jar.s)
  BY <1>0, OverStays
<1>2. CASE valid \subseteq valid'
  <2>1. JarValid => JarValid'
    BY <1>0, <1>1, <1>2 DEF JarValid, LiveThen, Live
  <2> QED BY <1>0, <1>1, <1>2, <2>1 DEF RenewedInv, LiveThen, Live
<1>3. CASE \E s \in Sessions : \E n \in 1 .. chain[s].current : Expire(s, n)
  <2>1. /\ flight[u].pc # "served"
        /\ call[u].refreshed => call[u].pc \in {"waitRefresh", "served"}
    BY <1>3 DEF Expire
  <2> QED BY <1>0, <1>1, <2>1 DEF RenewedInv, LiveThen, Live
<1>4. (\E c \in stray : ServeStray(c)) => valid \subseteq valid'
  BY <1>0, ExchangeTyped DEF ServeStray, ClientInv, ServerTypes
<1>5. (\E s \in Sessions : EndElsewhere(s)) \/ Tick => valid \subseteq valid'
  BY DEF EndElsewhere, Tick
<1> QED BY <1>2, <1>3, <1>4, <1>5 DEF OtherStep

LEMMA AlwaysEndInv == Spec => []EndInv
<1>1. Init => KnownInv /\ \A t \in Tabs : RenewedInv(t)
  BY RecordsTyped DEF Init, KnownInv, KnownTab, Known, RenewedInv
<1>2. EndInv /\ [Next]_vars => EndInv'
  <2> SUFFICES ASSUME EndInv, [Next]_vars PROVE EndInv'
    OBVIOUS
  <2>0. ClientInv /\ KnownInv /\ ClientInv'
    BY NextClientInv DEF EndInv
  <2>1. CASE \E t \in Tabs : TabStep(t)
    <3> PICK t \in Tabs : TabStep(t)
      BY <2>1
    <3>1. KnownInv'
      BY <2>0, TabStepKnown
    <3>2. \A u \in Tabs : RenewedInv(u)'
      BY TabStepRenewed, OthersRenewed
    <3> QED BY <2>0, <3>1, <3>2 DEF EndInv
  <2>2. CASE OtherStep
    BY <2>0, <2>2, OtherStepKnown, OtherStepRenewed DEF EndInv
  <2>3. CASE UNCHANGED vars
    BY <2>0, <2>3 DEF vars, EndInv, KnownInv, KnownTab, Known, Used, RenewedInv, JarValid, Live
  <2> QED BY <2>1, <2>2, <2>3, NextCases
<1> QED BY <1>1, <1>2, InitClientInv, PTL DEF Spec, EndInv

\* handleSessionEnded, the response interceptor: a tab with a call under way goes
\* to the login page only if the session of that call, or of the refresh it
\* waited for, was over at the backend; a failing network signs nobody out.
THEOREM OnlyTheEndedSignOut == Spec => OnlyEndedSignedOut
<1> DEFINE Fair(t) ==
      tab[t].page = "app" /\ tab'[t].page = "login" /\ call[t].pc # "idle" =>
        ~Live(IF call[t].pc = "waitRefresh" THEN flight[t].sent.s ELSE call[t].sent.s)
<1>1. ASSUME EndInv, NEW t \in Tabs, TabStep(t), tab[t].page = "app", tab'[t].page = "login",
             call[t].pc # "idle"
      PROVE  ~Live(IF call[t].pc = "waitRefresh" THEN flight[t].sent.s ELSE call[t].sent.s)
  <2>0. /\ ClientInv /\ RenewedInv(t) /\ WaitInv(t) /\ tab \in [Tabs -> TabRecord]
        /\ tab[t] \in TabRecord /\ call[t] \in CallRecord
    BY <1>1, AtTab DEF EndInv, ClientInv, BrowserTypes
  <2>1. NoProfile(t) \/ Rejected(t) \/ ReloadTab(t) => FALSE
    BY <1>1, <2>0 DEF NoProfile, Rejected, ReloadTab, ToPage, TabRecord
  <2>2. CASE AnswerRefresh(t) \/ FailRefresh(t)
    <3>1. PICK outcome \in {"ok", "lost", "transient"} :
            /\ Resume(t, outcome)
            /\ outcome # "transient" => AnswerRefresh(t) /\ outcome = flight[t].answer
                                         /\ flight[t].pc = "served"
      BY <2>0, <2>2, OutcomeOf
    <3>2. ~Repeat(t, flight[t].sent.csrf)
      BY <1>1, <2>0 DEF Repeat, TabRecord
    <3>3. outcome = "lost" /\ call[t].pc = "waitRefresh"
      BY <1>1, <2>1, <3>1, <3>2, ResumeCases
    <3>4. ~Live(flight[t].sent.s)
      BY <2>0, <3>1, <3>3 DEF RenewedInv
    <3> QED BY <3>3, <3>4
  <2>3. CASE AnswerAsk(t)
    <3>1. ~Repeat(t, ask[t].sent.csrf)
      BY <1>1, <2>0 DEF Repeat, TabRecord
    <3> QED BY <1>1, <2>1, <2>3, <3>1, AnswerAskCases
  <2>4. CASE Answer(t)
    <3> DEFINE c == call[t]
    <3>1. c.pc = "served"
      BY <2>4 DEF Answer
    <3>2. CASE tab' = IF c.kind = "write" THEN tab
                      ELSE [tab EXCEPT ![t].page = "app", ![t].user = Owner[c.sent.s]]
      BY <1>1, <2>0, <3>2 DEF TabRecord
    <3>3. CASE UNCHANGED tab
      BY <1>1, <3>3
    <3>4. CASE c.answer = "401" /\ c.refreshed
      BY <2>0, <3>1, <3>4 DEF RenewedInv
    <3> QED BY <2>1, <2>4, <3>2, <3>3, <3>4, AnswerCases
  <2>5. CASE Grant(t) \/ ServeRefresh(t) \/ Boot(t) \/ Send(t) \/ Call(t) \/ EnsureFresh(t)
             \/ Login(t) \/ Reload(t) \/ Logout(t)
    BY <1>1, <2>0, <2>5, RecordsTyped
       DEF Grant, ServeRefresh, Boot, Send, Call, EnsureFresh, Login, Reload, Logout, ToPage
  <2> QED BY <1>1, <2>2, <2>3, <2>4, <2>5 DEF TabStep
<1>2. EndInv /\ [Next]_vars => [\A t \in Tabs : Fair(t)]_vars
  <2> SUFFICES ASSUME EndInv, [Next]_vars, ~UNCHANGED vars, NEW t \in Tabs,
                      tab[t].page = "app", tab'[t].page = "login", call[t].pc # "idle"
               PROVE  ~Live(IF call[t].pc = "waitRefresh" THEN flight[t].sent.s
                            ELSE call[t].sent.s)
    OBVIOUS
  <2>1. CASE OtherStep
    BY <2>1, OtherStepTyped DEF EndInv
  <2>2. CASE TabStep(t)
    BY <1>1, <2>2
  <2>3. CASE \E u \in Tabs \ {t} : TabStep(u)
    <3>1. tab'[t] = tab[t]
      BY <2>3, TabStepTyped DEF EndInv, OnlyTab
    <3> QED BY <3>1
  <2> QED BY <2>1, <2>2, <2>3, NextCases
<1>3. [][Next]_vars /\ []EndInv => [][\A t \in Tabs : Fair(t)]_vars
  BY <1>2, PTL
<1> QED BY <1>3, AlwaysEndInv, PTL DEF Spec, OnlyEndedSignedOut
-----------------------------------------------------------------------------
(* A tab writes to the account it shows.                                   *)

AllOwnInv == EndInv /\ OwnInv /\ \A t \in Tabs : OwnTabInv(t)

\* Only a login uses another session.
LEMMA UsedSame ==
  ASSUME ClientInv, (\E t \in Tabs : TabStep(t) /\ ~Login(t)) \/ OtherStep
  PROVE  Used' = Used
<1>0. ServerStep
  BY TabStepTyped, OtherStepTyped
<1>1. \A s \in Sessions : chain[s] = Server!Fresh => chain'[s] = chain[s]
  <2> SUFFICES ASSUME NEW s \in Sessions, chain[s] = Server!Fresh PROVE chain'[s] = chain[s]
    OBVIOUS
  <2>0. ~Live(s)
    BY RecordsTyped DEF Live
  <2>1. CASE \E c \in Cookies : Exchange(c)
    BY <2>0, <2>1, ExchangeTyped
  <2>2. CASE \E q \in Sessions : Live(q) /\ chain' = [chain EXCEPT ![q] = Server!Ended]
    BY <2>0, <2>2, EndedTyped
  <2>3. CASE UNCHANGED chain
    BY <2>3
  <2>4. (\E t \in Tabs : TabStep(t) /\ ~Login(t)) =>
          \/ \E c \in Cookies : Exchange(c)
          \/ \E q \in Sessions : Live(q) /\ chain' = [chain EXCEPT ![q] = Server!Ended]
          \/ UNCHANGED chain
    <3> SUFFICES ASSUME NEW t \in Tabs, TabStep(t), ~Login(t)
                 PROVE  \/ \E c \in Cookies : Exchange(c)
                        \/ \E q \in Sessions : Live(q) /\ chain' = [chain EXCEPT ![q] = Server!Ended]
                        \/ UNCHANGED chain
      OBVIOUS
    <3>1. CASE ServeRefresh(t)
      BY <3>1, AtTab DEF ServeRefresh
    <3>2. CASE Logout(t)
      BY <3>2, AtTab DEF Logout, Live
    <3> QED BY <3>1, <3>2
            DEF TabStep, Grant, AnswerRefresh, Boot, AnswerAsk, Send, Answer, FailRefresh, Call,
                EnsureFresh, Reload
  <2>5. OtherStep =>
          \/ \E c \in Cookies : Exchange(c)
          \/ \E q \in Sessions : Live(q) /\ chain' = [chain EXCEPT ![q] = Server!Ended]
          \/ UNCHANGED chain
    BY DEF OtherStep, ServeStray, EndElsewhere, Expire, Tick, ClientInv, ServerTypes
  <2> QED BY <2>1, <2>2, <2>3, <2>4, <2>5
<1>2. \A s \in Sessions : s \in Used' <=> s \in Used
  BY <1>0, <1>1, UsedStay DEF Used
<1> QED BY <1>2 DEF Used

LEMMA AskFrom ==
  ASSUME ClientInv, NEW t \in Tabs, TabStep(t)
  PROVE  ask'[t] = ask[t] \/ ask'[t] = NoRequest \/ (Ask(t) /\ UNCHANGED chain)
<1>0. ask \in [Tabs -> AskRecord]
  BY DEF ClientInv, BrowserTypes
<1>1. CASE AnswerAsk(t) \/ Reload(t)
  BY <1>0, <1>1 DEF AnswerAsk, Reload
<1>2. CASE Boot(t)
  BY <1>2 DEF Boot
<1>3. CASE Answer(t)
  BY <1>3, AnswerCases DEF Answer
<1> QED BY <1>1, <1>2, <1>3
        DEF TabStep, Grant, ServeRefresh, AnswerRefresh, Send, FailRefresh, Call, EnsureFresh,
            Login, Logout

\* A refresh that is away has gone with the cookies of then.
LEMMA FlightFrom ==
  ASSUME ClientInv, NEW t \in Tabs, TabStep(t), Away(t)'
  PROVE  \/ flight'[t] = flight[t] /\ Away(t)
         \/ Grant(t) /\ flight'[t].pc = "sent" /\ flight'[t].sent = jar
         \/ /\ ServeRefresh(t) /\ Away(t) /\ flight'[t].sent = flight[t].sent
            /\ flight'[t].answer = "ok" => Live(flight[t].sent.s)
<1>0. flight \in [Tabs -> FlightRecord]
  BY DEF ClientInv, BrowserTypes
<1>1. CASE Grant(t)
  BY <1>1, GrantTyped
<1>2. CASE AnswerRefresh(t) \/ FailRefresh(t) \/ Reload(t)
  <2>1. flight'[t] = NoRequest
    BY <1>0, <1>2 DEF AnswerRefresh, FailRefresh, Reload
  <2> QED BY <2>1, RecordsTyped DEF Away
<1>3. CASE Join(t)
  BY <1>3, JoinTyped DEF Away
<1>4. CASE UNCHANGED flight
  BY <1>4 DEF Away
<1>5. CASE Boot(t) \/ AnswerAsk(t) \/ Send(t) \/ Answer(t) \/ Call(t) \/ EnsureFresh(t)
           \/ Login(t) \/ Logout(t)
  <2>1. UNCHANGED flight \/ Join(t)
    BY <1>5, AnswerAskCases, AnswerCases DEF Boot, Send, Call, EnsureFresh, Login, Logout
  <2> QED BY <1>3, <1>4, <2>1
<1>6. CASE ServeRefresh(t)
  <2>1. flight[t].pc = "sent"
    BY <1>6 DEF ServeRefresh
  <2> QED BY <1>6, <2>1, ServeTypedRefresh DEF Away
<1> QED BY <1>1, <1>2, <1>5, <1>6 DEF TabStep

\* The CSRF token and the account of a tab.
LEMMA TabFrom ==
  ASSUME ClientInv, NEW t \in Tabs, TabStep(t), ~Login(t)
  PROVE  \/ tab'[t].csrf = tab[t].csrf /\ tab'[t].user = tab[t].user
         \/ tab'[t].csrf = 0 /\ tab'[t].user = None
         \/ /\ tab'[t].csrf = flight[t].sent.csrf /\ tab'[t].user = None
            /\ flight[t].pc = "served"
         \/ /\ tab'[t].csrf = ask[t].sent.csrf /\ tab'[t].user = None
            /\ ask[t].pc = "served"
         \/ RepeatRefreshed(t) /\ tab'[t].csrf = flight[t].sent.csrf /\ tab'[t].user = tab[t].user
         \/ RepeatAsked(t) /\ tab'[t].csrf = ask[t].sent.csrf /\ tab'[t].user = tab[t].user
         \/ /\ tab'[t].csrf = tab[t].csrf /\ tab'[t].user = Owner[call[t].sent.s]
            /\ call[t].pc = "served" /\ call[t].kind # "write" /\ call[t].answer = "ok"
<1>0. tab \in [Tabs -> TabRecord] /\ tab[t] \in TabRecord
  BY DEF ClientInv, BrowserTypes
<1>1. CASE UNCHANGED tab
  BY <1>1
<1>2. ASSUME Stops(t) \/ ToPage(t, "login")
      PROVE  \/ tab'[t].csrf = tab[t].csrf /\ tab'[t].user = tab[t].user
             \/ tab'[t].csrf = 0 /\ tab'[t].user = None
  BY <1>0, <1>2 DEF Stops, NoProfile, ToPage, TabRecord
<1>3. ASSUME NEW csrf, Repeat(t, csrf)
      PROVE  tab'[t].csrf = csrf /\ tab'[t].user = tab[t].user
  BY <1>0, <1>3 DEF Repeat, TabRecord
<1>4. ASSUME NEW csrf, Started(t, csrf)
      PROVE  tab'[t].csrf = csrf /\ tab'[t].user = None
  BY <1>0, <1>4 DEF Started
<1>5. CASE AnswerRefresh(t) \/ FailRefresh(t)
  <2>1. PICK outcome \in {"ok", "lost", "transient"} :
          /\ Resume(t, outcome)
          /\ outcome # "transient" => AnswerRefresh(t) /\ outcome = flight[t].answer
                                       /\ flight[t].pc = "served"
    BY <1>5, OutcomeOf
  <2>2. CASE outcome = "ok" /\ Started(t, flight[t].sent.csrf)
    BY <1>4, <2>1, <2>2
  <2>3. CASE ToPage(t, "login") \/ UNCHANGED tab \/ Stops(t)
    BY <1>1, <1>2, <2>3
  <2>4. CASE /\ call[t].pc = "waitRefresh" /\ outcome = "ok"
             /\ ~OtherAccount(t, flight[t].sent.s) /\ Repeat(t, flight[t].sent.csrf)
    <3>1. call'[t] = [call[t] EXCEPT !.pc = "send"]
      BY <2>4 DEF Repeat, ClientInv, BrowserTypes
    <3>2. RepeatRefreshed(t)
      BY <2>1, <2>4, <3>1 DEF RepeatRefreshed, RepeatAfter
    <3> QED BY <1>3, <2>4, <3>2
  <2> QED BY <2>1, <2>2, <2>3, <2>4, ResumeCases, StopsOf
<1>6. CASE AnswerAsk(t)
  <2>0. ask[t].pc = "served"
    BY <1>6 DEF AnswerAsk
  <2>1. CASE Started(t, ask[t].sent.csrf)
    BY <1>4, <2>0, <2>1
  <2>2. CASE ToPage(t, "login") \/ UNCHANGED tab \/ Stops(t)
    BY <1>1, <1>2, <2>2
  <2>3. CASE /\ tab[t].page # "booting" /\ ask[t].answer = "authenticated"
             /\ ~OtherAccount(t, ask[t].sent.s) /\ Repeat(t, ask[t].sent.csrf)
    <3>1. call'[t] = [call[t] EXCEPT !.pc = "send"]
      BY <2>3 DEF Repeat, ClientInv, BrowserTypes
    <3>2. call[t].pc = "waitCsrf"
      BY <2>0, <2>3 DEF ClientInv, WaitInv
    <3>3. RepeatAsked(t)
      BY <1>6, <2>0, <2>3, <3>1, <3>2 DEF RepeatAsked, RepeatAfter
    <3> QED BY <1>3, <2>3, <3>3
  <2> QED BY <1>6, <2>1, <2>2, <2>3, AnswerAskCases, StopsOf
<1>7. CASE Answer(t)
  <2> DEFINE c == call[t]
  <2>0. c.pc = "served"
    BY <1>7 DEF Answer
  <2>1. CASE /\ c.answer = "ok"
             /\ tab' = IF c.kind = "write" THEN tab
                       ELSE [tab EXCEPT ![t].page = "app", ![t].user = Owner[c.sent.s]]
    BY <1>0, <2>0, <2>1 DEF TabRecord
  <2>2. CASE UNCHANGED tab \/ Stops(t)
    BY <1>1, <1>2, <2>2
  <2> QED BY <1>7, <2>1, <2>2, AnswerCases, StopsOf
<1>8. CASE Reload(t) \/ Logout(t)
  BY <1>0, <1>8 DEF Reload, Logout, ToPage
<1>9. CASE Boot(t)
  BY <1>0, <1>9 DEF Boot, TabRecord
<1> QED BY <1>1, <1>5, <1>6, <1>7, <1>8, <1>9
        DEF TabStep, Grant, ServeRefresh, Send, Call, EnsureFresh

\* After a step: the last login, and cookies of it.
NewestThen(s) == s \in Used' /\ \A q \in Used' : q <= s
OfNewestThen(c) ==
  /\ c.csrf # 0 => c.csrf \in Used'
  /\ c.s # 0 => NewestThen(c.s) /\ c.csrf = c.s

LEMMA OneNewest ==
  /\ \A s, q : Newest(s) /\ Newest(q) => s = q
  /\ \A s : Newest(s) => s # 0 /\ s \in Sessions
<1>1. \A s \in Used : s \in Sessions /\ s \in Nat /\ s # 0
  BY DEF Used, ClientAssumption
<1>2. ASSUME NEW s, NEW q, Newest(s), Newest(q)
      PROVE  s = q
  <2>1. s \in Nat /\ q \in Nat /\ s <= q /\ q <= s
    BY <1>1, <1>2 DEF Newest
  <2> QED BY <2>1
<1> QED BY <1>1, <1>2 DEF Newest

LEMMA LoginOwn ==
  ASSUME AllOwnInv, ~Crossing, NEW t \in Tabs, Login(t)
  PROVE  OwnInv' /\ \A u \in Tabs : OwnTabInv(u)'
<1>1. PICK s \in Sessions :
        /\ chain[s] = Server!Fresh
        /\ \A q \in Sessions : q < s => chain[q] # Server!Fresh
        /\ \A u \in Tabs : ask[u].pc = "idle" /\ flight[u].pc \in {"idle", "queued"}
        /\ chain' = [chain EXCEPT ![s] = Server!Link("live", 1, None, None, 0)]
        /\ jar' = [s |-> s, n |-> 1, csrf |-> s]
        /\ Started(t, s) /\ UNCHANGED <<ask, flight, stray>>
  BY DEF Login
<1>2. Used' = Used \cup {s} /\ s \notin Used /\ s \in Nat /\ s # 0
  <2> DEFINE d == Server!Link("live", 1, None, None, 0)
  <2>1. d # Server!Fresh
    BY DEF Server!Link, Server!Fresh
  <2>2. chain' = [chain EXCEPT ![s] = d] /\ chain \in [Sessions -> ChainLink]
    BY <1>1 DEF AllOwnInv, EndInv, ClientInv, ServerTypes
  <2> HIDE DEF d
  <2> QED BY <1>1, <2>1, <2>2 DEF Used, ClientAssumption
<1>3. \A q \in Used : q < s
  <2> TAKE q \in Used
  <2>1. q \in Nat /\ q \in Sessions /\ q # s
    BY <1>2 DEF Used, ClientAssumption
  <2>2. ~(s < q)
    BY <1>1, <1>2, <2>1 DEF AllOwnInv, OwnInv
  <2> QED BY <1>2, <2>1, <2>2
<1>4. NewestThen(s) /\ \A q : NewestThen(q) => q = s
  <2>1. Used \subseteq Nat
    BY DEF Used, ClientAssumption
  <2>2. NewestThen(s)
    BY <1>2, <1>3, <2>1 DEF NewestThen
  <2>3. ASSUME NEW q, NewestThen(q)
        PROVE  q = s
    <3>1. q \in Used' /\ s <= q
      BY <1>2, <2>3 DEF NewestThen
    <3>2. q \in Used => q < s /\ q \in Nat
      BY <1>3, <2>1
    <3> QED BY <1>2, <3>1, <3>2
  <2> QED BY <2>2, <2>3
<1>5. OwnInv'
  <2>1. \A p \in Used', q \in Sessions : q < p => q \in Used'
    <3> TAKE p \in Used', q \in Sessions
    <3> HAVE q < p
    <3>1. CASE p \in Used
      BY <1>2, <3>1 DEF AllOwnInv, OwnInv
    <3>2. CASE p = s
      BY <1>1, <1>2, <3>2 DEF Used
    <3> QED BY <1>2, <3>1, <3>2
  <2>2. OfNewestThen(jar')
    BY <1>1, <1>2, <1>4 DEF OfNewestThen
  <2> QED BY <2>1, <2>2 DEF OwnInv, OfNewest, OfNewestThen, Newest, NewestThen
<1>6. ASSUME NEW u \in Tabs
      PROVE  OwnTabInv(u)'
  <2>0. /\ ask'[u].pc = "idle" /\ flight'[u].pc \in {"idle", "queued"}
        /\ OwnTabInv(u) /\ tab[u].csrf \in Sessions \cup {0}
    BY <1>1, <1>6, AtTab DEF AllOwnInv, EndInv
  <2>1. CASE u = t
    <3>1. /\ tab'[u].csrf = s /\ tab'[u].user = None
          /\ call'[u].pc = "send" /\ call'[u].kind = "me"
      BY <1>1, <2>1, RecordsTyped DEF Started, AllOwnInv, EndInv, ClientInv, BrowserTypes
    <3> QED BY <1>2, <2>0, <3>1 DEF OwnTabInv, OwnWrite
  <2>2. CASE u # t
    <3>1. tab'[u] = tab[u] /\ call'[u] = call[u]
      BY <1>1, <2>2 DEF Started
    <3>2. tab[u].csrf # 0 => tab[u].csrf \in Used
      BY <2>0 DEF OwnTabInv
    <3>3. ~NewestThen(tab[u].csrf)
      BY <1>2, <1>4, <3>2
    <3>4. tab'[u].csrf # 0 => tab'[u].csrf \in Used'
      BY <1>2, <3>1, <3>2
    <3>5. /\ call'[u].pc # "idle" /\ call'[u].kind = "write" => call'[u].by = tab'[u].user
          /\ call'[u].pc = "served" /\ call'[u].kind # "write" /\ call'[u].answer = "ok" =>
               call'[u].sent.s \in Used' /\ tab'[u].csrf <= call'[u].sent.s
          /\ OwnWrite(u)'
      BY <1>2, <2>0, <3>1 DEF OwnTabInv, OwnWrite
    <3> QED BY <2>0, <3>1, <3>3, <3>4, <3>5 DEF OwnTabInv, Newest, NewestThen
  <2> QED BY <2>1, <2>2
<1> QED BY <1>5, <1>6

\* The cookies after a step that is no login are of the same session as before,
\* of the one of a refresh, or none.
LEMMA JarOwn ==
  ASSUME AllOwnInv, NEW t \in Tabs, TabStep(t), ~Login(t)
  PROVE  OfNewestThen(jar')
<1>0. /\ Used' = Used /\ jar \in Cookies /\ ClientInv /\ OwnTabInv(t) /\ OfNewest(jar)
  BY UsedSame, AtTab DEF AllOwnInv, EndInv, OwnInv
<1>1. CASE UNCHANGED jar
  BY <1>0, <1>1 DEF OfNewest, OfNewestThen, Newest, NewestThen
<1>2. CASE Logout(t)
  <2>1. jar'.s = 0 /\ jar'.csrf = 0
    BY <1>2, RecordsTyped DEF Logout
  <2> QED BY <2>1 DEF OfNewestThen
<1>3. CASE AnswerRefresh(t) /\ ~UNCHANGED jar
  <2>1. /\ jar' = [s |-> flight[t].sent.s, n |-> flight[t].n, csrf |-> flight[t].sent.csrf]
        /\ flight[t].pc = "served"
    BY <1>3 DEF AnswerRefresh
  <2>2. OfNewest(flight[t].sent)
    BY <1>0, <2>1 DEF OwnTabInv
  <2>3. jar'.s = flight[t].sent.s /\ jar'.csrf = flight[t].sent.csrf
    BY <2>1
  <2> QED BY <1>0, <2>2, <2>3 DEF OfNewest, OfNewestThen, Newest, NewestThen
<1>4. CASE AnswerAsk(t) /\ ~UNCHANGED jar
  <2>1. /\ jar' = [jar EXCEPT !.csrf = ask[t].sent.csrf]
        /\ ask[t].answer = "authenticated" /\ ask[t].pc = "served"
    BY <1>4 DEF AnswerAsk
  <2>2. OfNewest(ask[t].sent) /\ ask[t].sent.s # 0
    BY <1>0, <2>1 DEF OwnTabInv
  <2>3. jar'.s = jar.s /\ jar'.csrf = ask[t].sent.csrf
    BY <1>0, <2>1 DEF Cookies
  <2>4. jar.s # 0 => jar.s = ask[t].sent.s
    BY <1>0, <2>2, OneNewest DEF OfNewest
  <2> QED BY <1>0, <2>2, <2>3, <2>4 DEF OfNewest, OfNewestThen, Newest, NewestThen
<1> QED BY <1>1, <1>2, <1>3, <1>4
        DEF TabStep, Grant, ServeRefresh, Boot, Send, Answer, FailRefresh, Call, EnsureFresh, Reload

LEMMA TabStepOwn ==
  ASSUME AllOwnInv, NEW t \in Tabs, TabStep(t), ~Login(t)
  PROVE  OwnTabInv(t)'
<1>0. /\ Used' = Used /\ ClientInv /\ OwnTabInv(t) /\ OfNewest(jar) /\ RenewedInv(t)
      /\ tab[t].csrf \in Sessions \cup {0} /\ Used \subseteq Sessions /\ Sessions \subseteq Nat \ {0}
      /\ call[t] \in CallRecord
  BY UsedSame, AtTab DEF AllOwnInv, EndInv, OwnInv, Used, ClientAssumption
<1>1. /\ ask'[t].pc # "idle" => OfNewest(ask'[t].sent)
      /\ ask'[t].pc # "idle" /\ ask'[t].answer = "authenticated" => ask'[t].sent.s # 0
  <2>1. CASE ask'[t] = ask[t] \/ ask'[t] = NoRequest
    BY <1>0, <2>1, RecordsTyped DEF OwnTabInv
  <2>2. CASE Ask(t)
    BY <1>0, <2>2, AskTyped DEF Authentic, Live
  <2> QED BY <1>0, <2>1, <2>2, AskFrom
<1>2. /\ Away(t)' => OfNewest(flight'[t].sent)
      /\ flight'[t].pc = "served" /\ flight'[t].answer = "ok" => flight'[t].sent.s # 0
  <2>1. CASE flight'[t] = flight[t]
    BY <1>0, <2>1 DEF OwnTabInv, Away
  <2>2. CASE flight'[t].pc = "sent" /\ flight'[t].sent = jar
    BY <1>0, <2>2
  <2>3. CASE /\ Away(t) /\ flight'[t].sent = flight[t].sent
             /\ flight'[t].answer = "ok" => Live(flight[t].sent.s)
    BY <1>0, <2>3 DEF OwnTabInv, Away, Live
  <2> QED BY <1>0, <2>1, <2>2, <2>3, FlightFrom DEF Away
<1>3. /\ tab'[t].csrf # 0 => tab'[t].csrf \in Used
      /\ tab'[t].user # None /\ Newest(tab'[t].csrf) => tab'[t].user = Owner[tab'[t].csrf]
  <2>2. CASE tab'[t].csrf = tab[t].csrf /\ tab'[t].user = tab[t].user
    BY <1>0, <2>2 DEF OwnTabInv
  <2>3. CASE tab'[t].csrf = 0 /\ tab'[t].user = None
    BY <2>3
  <2>4. CASE /\ tab'[t].csrf = flight[t].sent.csrf /\ tab'[t].user = None
             /\ flight[t].pc = "served"
    BY <1>0, <2>4 DEF OwnTabInv, OfNewest
  <2>5. CASE /\ tab'[t].csrf = ask[t].sent.csrf /\ tab'[t].user = None
             /\ ask[t].pc = "served"
    BY <1>0, <2>5 DEF OwnTabInv, OfNewest
  <2>6. CASE RepeatRefreshed(t) /\ tab'[t].csrf = flight[t].sent.csrf /\ tab'[t].user = tab[t].user
    <3>1. OfNewest(flight[t].sent) /\ flight[t].sent.s # 0 /\ ~OtherAccount(t, flight[t].sent.s)
      BY <1>0, <2>6 DEF RepeatRefreshed, RepeatAfter, OwnTabInv
    <3> QED BY <2>6, <3>1 DEF OfNewest, OtherAccount, Newest
  <2>7. CASE RepeatAsked(t) /\ tab'[t].csrf = ask[t].sent.csrf /\ tab'[t].user = tab[t].user
    <3>1. OfNewest(ask[t].sent) /\ ask[t].sent.s # 0 /\ ~OtherAccount(t, ask[t].sent.s)
      BY <1>0, <2>7 DEF RepeatAsked, RepeatAfter, OwnTabInv
    <3> QED BY <2>7, <3>1 DEF OfNewest, OtherAccount, Newest
  <2>8. CASE /\ tab'[t].csrf = tab[t].csrf /\ tab'[t].user = Owner[call[t].sent.s]
             /\ call[t].pc = "served" /\ call[t].kind # "write" /\ call[t].answer = "ok"
    <3>1. call[t].sent.s \in Used /\ tab[t].csrf <= call[t].sent.s
      BY <1>0, <2>8 DEF OwnTabInv
    <3>2. Newest(tab[t].csrf) => tab[t].csrf = call[t].sent.s
      <4> SUFFICES ASSUME Newest(tab[t].csrf) PROVE tab[t].csrf = call[t].sent.s
        OBVIOUS
      <4>1. call[t].sent.s <= tab[t].csrf
        BY <3>1 DEF Newest
      <4>2. call[t].sent.s \in Nat /\ tab[t].csrf \in Nat
        <5>1. \A x \in Sessions \cup {0} : x \in Nat
          BY DEF ClientAssumption
        <5>2. tab[t].csrf \in Sessions \cup {0} /\ call[t].sent.s \in Sessions
          BY <1>0, <3>1
        <5> QED BY <5>1, <5>2
      <4> QED BY <3>1, <4>1, <4>2
    <3>3. tab[t].csrf # 0 => tab[t].csrf \in Used
      BY <1>0 DEF OwnTabInv
    <3> QED BY <2>8, <3>2, <3>3
  <2> QED BY <1>0, <2>2, <2>3, <2>4, <2>5, <2>6, <2>7, <2>8, TabFrom
<1>4. /\ call'[t].pc # "idle" /\ call'[t].kind = "write" => call'[t].by = tab'[t].user
      /\ call'[t].pc = "served" /\ call'[t].kind # "write" /\ call'[t].answer = "ok" =>
           call'[t].sent.s \in Used /\ tab'[t].csrf <= call'[t].sent.s
      /\ call'[t].pc = "served" /\ call'[t].kind = "write" /\ call'[t].answer = "ok"
           /\ call'[t].by # None => Owner[call'[t].sent.s] = call'[t].by
  <2>1. CASE SameCall(t)
    BY <1>0, <2>1 DEF SameCall, OwnTabInv, OwnWrite
  <2>2. CASE call'[t] = NoCall \/ call'[t] = Profile
    BY <2>2, RecordsTyped
  <2>3. CASE (call[t].pc = "waitRefresh" /\ RepeatRefreshed(t)) \/ RepeatAsked(t)
    <3>1. /\ call[t].pc # "idle" /\ call'[t].pc = "send" /\ call'[t].kind = call[t].kind
          /\ call'[t].by = call[t].by /\ tab'[t].user = tab[t].user
      <4>1. call'[t] = [call[t] EXCEPT !.pc = "send"]
        BY <2>3 DEF RepeatRefreshed, RepeatAsked, RepeatAfter
      <4>2. tab'[t].user = tab[t].user
        <5>1. \E csrf : Repeat(t, csrf)
          BY <2>3 DEF RepeatRefreshed, RepeatAsked, RepeatAfter
        <5> QED BY <1>0, <5>1, AtTab DEF Repeat, ClientInv, BrowserTypes, TabRecord
      <4>3. call[t].pc # "idle"
        BY <2>3 DEF RepeatAsked
      <4> QED BY <1>0, <4>1, <4>2, <4>3 DEF CallRecord
    <3> QED BY <1>0, <3>1 DEF OwnTabInv
  <2>4. CASE Send(t) \/ Call(t)
    <3>0. /\ UNCHANGED <<jar, tab>> /\ call'[t].pc = "served" /\ call'[t].sent = jar
          /\ call'[t].answer = Verdict(call'[t].kind, tab[t].csrf)
      BY <1>0, <2>4, CallServed
    <3>1. call'[t].kind = "write" => call'[t].by = tab[t].user
      BY <1>0, <2>4, CallServed DEF OwnTabInv
    <3>2. call'[t].answer = "ok" => /\ jar.s # 0 /\ Newest(jar.s) /\ jar.csrf = jar.s
                                    /\ call'[t].kind = "write" => tab[t].csrf = jar.csrf
      BY <1>0, <3>0 DEF Verdict, Authentic, Live, OfNewest
    <3>3. Newest(jar.s) => jar.s \in Used /\ tab[t].csrf <= jar.s
      <4> SUFFICES ASSUME Newest(jar.s) PROVE jar.s \in Used /\ tab[t].csrf <= jar.s
        OBVIOUS
      <4>1. jar.s \in Used /\ jar.s \in Nat /\ \A q \in Used : q <= jar.s
        BY <1>0 DEF Newest
      <4>2. tab[t].csrf = 0 \/ tab[t].csrf \in Used
        BY <1>0 DEF OwnTabInv
      <4> QED BY <4>1, <4>2
    <3>4. Newest(tab[t].csrf) /\ tab[t].user # None => tab[t].user = Owner[tab[t].csrf]
      BY <1>0 DEF OwnTabInv
    <3> QED BY <3>0, <3>1, <3>2, <3>3, <3>4
  <2>5. CASE (Asks(t) \/ Waits(t)) /\ Answer(t)
    <3>1. /\ call[t].pc # "idle" /\ UNCHANGED tab /\ call'[t].pc # "served"
          /\ call'[t].kind = call[t].kind /\ call'[t].by = call[t].by
      BY <2>5 DEF Asks, Waits, Answer
    <3> QED BY <1>0, <3>1 DEF OwnTabInv
  <2> QED BY <1>0, <2>1, <2>2, <2>3, <2>4, <2>5, CallFrom
<1> QED BY <1>0, <1>1, <1>2, <1>3, <1>4 DEF OwnTabInv, OwnWrite, Away, OfNewest, Newest

LEMMA AlwaysOwnInv == ~Crossing /\ Spec => []AllOwnInv
<1>1. Init => OwnInv /\ \A t \in Tabs : OwnTabInv(t)
  <2> SUFFICES ASSUME Init PROVE OwnInv /\ \A t \in Tabs : OwnTabInv(t)
    OBVIOUS
  <2>1. Used = {} /\ jar.s = 0 /\ jar.csrf = 0
    BY RecordsTyped DEF Init, Used
  <2>2. \A t \in Tabs : /\ ask[t].pc = "idle" /\ flight[t].pc = "idle" /\ call[t].pc = "idle"
                        /\ tab[t].user = None /\ tab[t].csrf = 0
    BY RecordsTyped DEF Init
  <2> QED BY <2>1, <2>2 DEF OwnInv, OfNewest, OwnTabInv, OwnWrite
<1>2. ASSUME AllOwnInv, ~Crossing, [Next]_vars, EndInv'
      PROVE  AllOwnInv'
  <2>0. ClientInv
    BY <1>2 DEF AllOwnInv, EndInv
  <2>1. CASE \E t \in Tabs : TabStep(t)
    <3> PICK t \in Tabs : TabStep(t)
      BY <2>1
    <3>1. CASE Login(t)
      BY <1>2, <3>1, LoginOwn DEF AllOwnInv
    <3>2. CASE ~Login(t)
      <4>1. Used' = Used /\ OfNewestThen(jar') /\ OwnTabInv(t)' /\ OnlyTab(t)
        BY <1>2, <2>0, <3>2, UsedSame, JarOwn, TabStepOwn, TabStepTyped
      <4>2. OwnInv'
        BY <1>2, <4>1 DEF AllOwnInv, OwnInv, OfNewest, OfNewestThen, Newest, NewestThen
      <4>3. \A u \in Tabs \ {t} : OwnTabInv(u)'
        BY <1>2, <4>1 DEF AllOwnInv, OwnTabInv, OwnWrite, OnlyTab, OfNewest, Newest
      <4> QED BY <1>2, <4>1, <4>2, <4>3 DEF AllOwnInv
    <3> QED BY <3>1, <3>2
  <2>2. CASE OtherStep
    <3>1. Used' = Used /\ UNCHANGED <<jar, tab, call, ask, flight>>
      BY <2>0, <2>2, UsedSame, OtherStepTyped
    <3> QED BY <1>2, <3>1 DEF AllOwnInv, OwnInv, OwnTabInv, OwnWrite, OfNewest, Newest
  <2>3. CASE UNCHANGED vars
    <3>1. Used' = Used /\ UNCHANGED <<jar, tab, call, ask, flight>>
      BY <2>3 DEF vars, Used
    <3> QED BY <1>2, <3>1 DEF AllOwnInv, OwnInv, OwnTabInv, OwnWrite, OfNewest, Newest
  <2> QED BY <1>2, <2>1, <2>2, <2>3, NextCases
<1>3. CASE ~Crossing
  <2>1. Init /\ EndInv => AllOwnInv
    BY <1>1 DEF AllOwnInv
  <2>2. AllOwnInv /\ [Next]_vars /\ EndInv' => AllOwnInv'
    BY <1>2, <1>3
  <2> QED BY <2>1, <2>2, AlwaysEndInv, PTL DEF Spec
<1>4. CASE Crossing
  BY <1>4
<1> QED BY <1>3, <1>4

\* CsrfGuard, OtherAccount: in a browser where no answer with cookies crosses a
\* login, what a tab writes goes to the account it shows, whatever the others do.
THEOREM TabsWriteTheirOwn == ~Crossing /\ Spec => []WritesAreOwn
<1>1. AllOwnInv => WritesAreOwn
  BY DEF AllOwnInv, OwnTabInv, OwnWrite, WritesAreOwn
<1> QED BY <1>1, AlwaysOwnInv, PTL
-----------------------------------------------------------------------------
(* The session is kept.                                                    *)

AllKeptInv == EndInv /\ KeptInv

\* With the lock, one refresh at most is away.
LEMMA OneAway ==
  ASSUME AllKeptInv, NEW t \in Tabs, Away(t)
  PROVE  /\ lock[1] = t /\ Len(lock) > 0 /\ stray = {}
         /\ \A u \in Tabs : Away(u) => u = t
         /\ ~Brings(t) => Good(jar)
<1>1. lock[1] = t /\ stray = {} /\ \A u \in Tabs : Away(u) => u = t
  BY DEF AllKeptInv, KeptInv, FlightInv, StrayInv
<1>2. Len(lock) > 0
  BY DEF AllKeptInv, EndInv, ClientInv, LockInv, Away
<1>3. \A u \in Tabs : Brings(u) => Away(u)
  BY DEF Brings, Away
<1>4. ~Brings(t) => Good(jar)
  BY <1>1, <1>3 DEF AllKeptInv, KeptInv
<1> QED BY <1>1, <1>2, <1>4

LEMMA CurrentNatural ==
  ASSUME ClientInv, NEW s \in Sessions
  PROVE  chain[s].current \in Nat /\ chain[s].at \in Nat
<1>1. chain[s] \in ChainLink
  BY DEF ClientInv, ServerTypes
<1> QED BY <1>1 DEF ChainLink

\* A good token is exchanged, and who missed the answer may ask again.
LEMMA GoodExchange ==
  ASSUME ClientInv, NEW c \in Cookies, Live(c.s), Good(c), Exchange(c)
  PROVE  LET k == chain[c.s]
             d == chain'[c.s]
         IN /\ UNCHANGED reused /\ c.s \in Sessions /\ Server!MayExchange(k, c.n, now)
            /\ d.life = "live" /\ d.current = k.current + 1
            /\ \A s \in Sessions : s # c.s => chain'[s] = chain[s]
            /\ c.n < d.current
            /\ \/ lost >= 1
               \/ /\ c.n = d.replaced /\ d.presented = d.replaced
                  /\ d.at <= now /\ now - d.at <= GraceWindow
            /\ Current(c) => /\ c.n = d.replaced /\ d.presented = d.replaced
                             /\ d.at <= now /\ now - d.at <= GraceWindow
<1> DEFINE k == chain[c.s]
           d == chain'[c.s]
<1>1. /\ c.s \in Sessions /\ c.n \in Nat /\ now \in Nat /\ GraceWindow \in Nat
      /\ k.current \in Nat
  BY CurrentNatural DEF Live, Cookies, ClientInv, ServerTypes, ClientAssumption
<1>2. Server!MayExchange(k, c.n, now)
  BY DEF Good, Current, Behind, Server!MayExchange, Server!Tolerated
<1>3. /\ UNCHANGED reused /\ d = Server!Link("live", k.current + 1, c.n, k.current, now)
      /\ \A s \in Sessions : s # c.s => chain'[s] = chain[s]
  BY <1>2, ExchangeTyped
<1>4. /\ d.life = "live" /\ d.current = k.current + 1 /\ d.presented = c.n
      /\ d.replaced = k.current /\ d.at = now
  BY <1>3 DEF Server!Link
<1>5. c.n = k.current \/ (c.n < k.current /\ lost >= 1)
  BY DEF Good, Current, Behind
<1>6. c.n < d.current
  BY <1>1, <1>4, <1>5
<1> HIDE DEF k, d
<1>7. c.n = k.current => /\ c.n = d.replaced /\ d.presented = d.replaced
                         /\ d.at <= now /\ now - d.at <= GraceWindow
  BY <1>1, <1>4
<1> QED BY <1>1, <1>2, <1>3, <1>4, <1>5, <1>6, <1>7 DEF k, d, Current

\* Steps that have no part in a refresh.
LEMMA CalmKept ==
  ASSUME AllKeptInv, UNCHANGED <<chain, now, reused, stray>>, jar'.s = jar.s, jar'.n = jar.n,
         lost \in Nat, lost' \in Nat, lost <= lost',
         \A u \in Tabs : Away(u)' => Away(u) /\ flight'[u] = flight[u] /\ lock'[1] = u,
         \A u \in Tabs : Brings(u) => Brings(u)'
  PROVE  KeptInv'
<1>1. \A u \in Tabs : FlightInv(u)'
  <2> TAKE u \in Tabs
  <2>1. CASE Away(u)'
    BY <2>1 DEF AllKeptInv, KeptInv, FlightInv, Away, Brings, Behind, Live
  <2>2. CASE ~Away(u)'
    BY <2>2 DEF FlightInv, Away, Brings
  <2> QED BY <2>1, <2>2
<1>2. (\A u \in Tabs : ~Brings(u)') => Good(jar)'
  BY DEF AllKeptInv, KeptInv, Good, Live, Current, Behind
<1>3. \A c \in stray' : StrayInv(c)' /\ \A d \in stray' : c = d
  <2>1. \A c \in stray : lost' >= 1
    BY DEF AllKeptInv, KeptInv, StrayInv
  <2>2. \A c \in stray : StrayInv(c) /\ \A d \in stray : c = d
    BY DEF AllKeptInv, KeptInv
  <2> QED BY <2>1, <2>2 DEF StrayInv, Live, Current
<1> QED BY <1>1, <1>2, <1>3 DEF AllKeptInv, KeptInv

\* Sessions that end.
LEMMA EndKept ==
  ASSUME AllKeptInv, UNCHANGED <<flight, lock, stray, now, lost, reused>>,
         \A s \in Sessions : chain'[s] = chain[s] \/ chain'[s] = Server!Ended,
         \/ UNCHANGED jar
         \/ jar' = NoCookies /\ (jar.s = 0 \/ chain'[jar.s].life # "live")
  PROVE  KeptInv'
<1>0. ClientInv /\ jar \in Cookies /\ jar.s \in Sessions \cup {0}
  BY AtTab DEF AllKeptInv, EndInv, ClientInv, BrowserTypes, Cookies
<1>1. \A s \in Sessions : LiveThen(s) => Live(s) /\ chain'[s] = chain[s]
  BY RecordsTyped DEF LiveThen, Live, ClientAssumption
<1>2. \A u \in Tabs : FlightInv(u)'
  <2> TAKE u \in Tabs
  <2> DEFINE f == flight[u]
  <2>1. f.sent.s \in Sessions \cup {0} /\ FlightInv(u)
    BY <1>0, AtTab DEF AllKeptInv, KeptInv
  <2>2. LiveThen(f.sent.s) => Live(f.sent.s) /\ chain'[f.sent.s] = chain[f.sent.s]
    BY <1>1, <2>1 DEF LiveThen
  <2>3. LiveThen(jar'.s) => jar' = jar /\ Live(jar.s)
    BY <1>0, <1>1, RecordsTyped DEF LiveThen
  <2>4. Away(u) => \/ jar'.s = f.sent.s /\ jar'.n = f.sent.n
                   \/ ~LiveThen(f.sent.s) /\ ~LiveThen(jar'.s)
    <3>1. CASE UNCHANGED jar
      BY <2>1, <2>2, <2>3, <3>1 DEF FlightInv
    <3>2. CASE jar' = NoCookies /\ (jar.s = 0 \/ chain'[jar.s].life # "live")
      <4>1. ~LiveThen(jar.s) /\ ~LiveThen(jar'.s)
        BY <3>2, RecordsTyped DEF LiveThen
      <4> QED BY <2>1, <2>2, <4>1 DEF FlightInv
    <3> QED BY <3>1, <3>2
  <2>5. Brings(u) /\ LiveThen(f.sent.s) =>
          /\ f.n = chain'[f.sent.s].current /\ f.sent.n < f.n
          /\ Behind(f.sent) \/ lost >= 1
    BY <2>1, <2>2 DEF FlightInv
  <2>6. Away(u) => lock[1] = u
    BY <2>1 DEF FlightInv
  <2> QED BY <2>2, <2>4, <2>5, <2>6 DEF FlightInv, Away, Brings, LiveThen, Live, Behind
<1>3. (\A u \in Tabs : ~Brings(u)') => Good(jar)'
  <2>1. CASE LiveThen(jar'.s)
    <3>1. jar' = jar /\ Live(jar.s) /\ chain'[jar.s] = chain[jar.s]
      BY <1>0, <1>1, <2>1, RecordsTyped DEF LiveThen
    <3> QED BY <3>1 DEF AllKeptInv, KeptInv, Good, Live, Current, Behind, Brings
  <2>2. CASE ~LiveThen(jar'.s)
    BY <2>2 DEF Good, Live, LiveThen
  <2> QED BY <2>1, <2>2
<1>4. \A c \in stray' : StrayInv(c)' /\ \A d \in stray' : c = d
  <2> SUFFICES ASSUME NEW c \in stray PROVE StrayInv(c)' /\ \A d \in stray : c = d
    OBVIOUS
  <2>1. c.s \in Sessions \cup {0} /\ StrayInv(c) /\ \A d \in stray : c = d
    BY <1>0 DEF AllKeptInv, KeptInv, ClientInv, ServerTypes, Cookies
  <2>2. LiveThen(c.s) => Live(c.s) /\ chain'[c.s] = chain[c.s]
    BY <1>1, <2>1 DEF LiveThen
  <2>3. LiveThen(c.s) => c.n = chain'[c.s].current /\ (jar'.s = c.s => jar'.n = c.n)
    BY <2>1, <2>2, RecordsTyped DEF StrayInv, Current, LiveThen
  <2>4. lost >= 1 /\ \A u \in Tabs : ~Away(u)
    BY <2>1 DEF StrayInv
  <2> QED BY <2>1, <2>3, <2>4 DEF StrayInv, LiveThen, Live, Current, Away
<1> QED BY <1>2, <1>3, <1>4 DEF AllKeptInv, KeptInv

\* The refresh of a tab that is gone, or that the network fails: one answer may be
\* lost.
LEMMA LeaveKept ==
  ASSUME AllKeptInv, MaxLost <= 1, NEW t \in Tabs, Away(t), OnlyTab(t),
         flight'[t].pc = "idle", UNCHANGED <<chain, now, reused, jar>>,
         \/ Lose(flight[t]) /\ UNCHANGED stray
         \/ flight[t].pc = "sent" /\ LoseOne /\ stray' = stray \cup {flight[t].sent}
  PROVE  KeptInv'
<1> DEFINE f == flight[t]
<1>0. ClientInv /\ f.sent \in Cookies /\ lost \in Nat /\ lost <= MaxLost /\ MaxLost \in Nat
  BY AtTab DEF AllKeptInv, EndInv, ClientInv, ServerTypes, ClientAssumption
<1>1. \A u \in Tabs : ~Away(u)' /\ ~Brings(u)'
  BY OneAway DEF OnlyTab, Away, Brings
<1>2. /\ lost' \in Nat /\ lost <= lost' /\ lost' <= MaxLost
      /\ LoseOne \/ f.answer = "ok" => lost' = lost + 1
  BY <1>0, LoseTyped
<1>3. Good(jar)'
  <2>1. CASE ~Brings(t)
    <3>1. Good(jar)
      BY <2>1, OneAway
    <3> QED BY <1>0, <1>2, <3>1 DEF Good, Live, Current, Behind
  <2>2. CASE Brings(t)
    <3>1. f.answer = "ok" /\ lost = 0 /\ lost' = 1
      BY <1>0, <1>2, <2>2 DEF Brings
    <3>2. FlightInv(t)
      BY DEF AllKeptInv, KeptInv
    <3>3. CASE Live(jar.s)
      <4>1. jar.s = f.sent.s /\ jar.n = f.sent.n /\ Behind(f.sent)
        BY <2>2, <3>1, <3>2, <3>3 DEF FlightInv, Away, Brings
      <4>2. Behind(jar)
        BY <4>1 DEF Behind
      <4> QED BY <3>1, <4>2 DEF Good, Behind, Live
    <3>4. CASE ~Live(jar.s)
      BY <3>4 DEF Good, Live
    <3> QED BY <3>3, <3>4
  <2> QED BY <2>1, <2>2
<1>4. \A c \in stray' : StrayInv(c)' /\ \A d \in stray' : c = d
  <2>0. stray = {}
    BY OneAway
  <2>1. CASE UNCHANGED stray
    BY <2>0, <2>1
  <2>2. CASE f.pc = "sent" /\ LoseOne /\ stray' = stray \cup {f.sent}
    <3> SUFFICES ASSUME NEW c, c = f.sent PROVE StrayInv(c)'
      BY <2>0, <2>2
    <3>1. lost = 0 /\ lost' = 1 /\ ~Brings(t)
      BY <1>0, <1>2, <2>2 DEF Brings
    <3>2. FlightInv(t) /\ Good(jar)
      BY <3>1, OneAway DEF AllKeptInv, KeptInv
    <3>3. Live(c.s) => jar.s = c.s /\ jar.n = c.n
      BY <3>2 DEF FlightInv
    <3>4. Live(c.s) => c.n = chain[c.s].current
      BY <3>1, <3>2, <3>3 DEF Good, Current
    <3> QED BY <1>1, <3>1, <3>3, <3>4 DEF StrayInv, Live, Current
  <2> QED BY <2>1, <2>2
<1>5. \A u \in Tabs : FlightInv(u)'
  BY <1>1 DEF FlightInv
<1> QED BY <1>3, <1>4, <1>5 DEF AllKeptInv, KeptInv

\* The steps of a tab with no part in a refresh.
LEMMA CalmStepKept ==
  ASSUME AllKeptInv, NEW t \in Tabs,
         \/ Boot(t) \/ AnswerAsk(t) \/ Send(t) \/ Answer(t) \/ Call(t) \/ EnsureFresh(t)
         \/ Reload(t) /\ ~Away(t)
  PROVE  KeptInv'
<1>0. ClientInv /\ OnlyTab(t) /\ ServerStep /\ TabStep(t)
  BY TabStepTyped DEF AllKeptInv, EndInv, TabStep
<1>1. UNCHANGED <<chain, now, reused, stray>> /\ jar'.s = jar.s /\ jar'.n = jar.n
  <2>1. CASE AnswerAsk(t)
    BY <1>0, <2>1, AtTab DEF AnswerAsk, Cookies
  <2>2. CASE Reload(t) /\ ~Away(t)
    BY <2>2 DEF Reload, Away
  <2> QED BY <2>1, <2>2 DEF Boot, Send, Answer, Call, EnsureFresh
<1>2. lost \in Nat /\ lost' \in Nat /\ lost <= lost'
  BY <1>0 DEF ClientInv, ServerTypes, ServerStep
<1>3. /\ lock \in Seq(Tabs)
      /\ \A i, j \in DOMAIN lock : lock[i] = lock[j] => i = j
      /\ \A u \in Tabs : Away(u) => lock[1] = u /\ Len(lock) > 0
  BY <1>0, OneAway DEF ClientInv, LockInv
<1>4. CASE Reload(t) /\ ~Away(t)
  <2>1. /\ flight'[t].pc = "idle" /\ Unlock(t)
    BY <1>0, <1>4, RecordsTyped DEF Reload, ClientInv, BrowserTypes
  <2>2. \A u \in Tabs : Away(u) => lock'[1] = u
    <3> DEFINE r == Without(lock, t)
    <3>1. Len(lock) > 0 /\ lock[1] # t => r[1] = lock[1]
      BY <1>3, LeavesQueue
    <3>2. lock' = r
      BY <2>1 DEF Unlock
    <3> HIDE DEF r
    <3> QED BY <1>3, <1>4, <3>1, <3>2
  <2>3. \A u \in Tabs : Away(u)' => Away(u) /\ flight'[u] = flight[u]
    BY <1>0, <2>1 DEF OnlyTab, Away
  <2>4. \A u \in Tabs : Brings(u) => Brings(u)'
    <3> TAKE u \in Tabs
    <3>1. CASE u = t
      BY <1>4, <3>1 DEF Brings, Away
    <3>2. CASE u # t
      BY <1>0, <3>2 DEF OnlyTab, Brings
    <3> QED BY <3>1, <3>2
  <2> QED BY <1>1, <1>2, <2>2, <2>3, <2>4, CalmKept
<1>5. CASE UNCHANGED <<flight, lock>>
  <2>1. \A u \in Tabs : Away(u)' => Away(u) /\ flight'[u] = flight[u] /\ lock'[1] = u
    BY <1>3, <1>5 DEF Away
  <2>2. \A u \in Tabs : Brings(u) => Brings(u)'
    BY <1>5 DEF Brings
  <2> QED BY <1>1, <1>2, <2>1, <2>2, CalmKept
<1>6. CASE flight[t].pc = "idle" /\ flight'[t].pc = "queued" /\ lock' = Append(lock, t)
  <2>1. \A i \in DOMAIN lock : lock[i] # t
    BY <1>0, <1>6 DEF ClientInv, LockInv
  <2>2. Len(lock) > 0 => lock'[1] = lock[1]
    <3> DEFINE r == Append(lock, t)
    <3>1. Len(lock) > 0 => r[1] = lock[1]
      BY <1>3, <2>1, JoinsQueue
    <3>2. lock' = r
      BY <1>6
    <3> HIDE DEF r
    <3> QED BY <3>1, <3>2
  <2>3. \A u \in Tabs : Away(u)' => Away(u) /\ flight'[u] = flight[u]
    BY <1>0, <1>6 DEF OnlyTab, Away
  <2>4. \A u \in Tabs : Brings(u) => Brings(u)'
    BY <1>0, <1>6 DEF OnlyTab, Brings
  <2> QED BY <1>1, <1>2, <1>3, <2>2, <2>3, <2>4, CalmKept
<1>7. (Reload(t) /\ ~Away(t)) \/ UNCHANGED <<flight, lock>> \/ Join(t)
  BY AnswerAskCases, AnswerCases DEF Boot, Send, Call, EnsureFresh
<1> QED BY <1>0, <1>4, <1>5, <1>6, <1>7, JoinTyped

\* The lock is granted: no other refresh is away, and none is on its way.
LEMMA GrantKept ==
  ASSUME AllKeptInv, HasLocks, ~LateStrays, NEW t \in Tabs, Grant(t)
  PROVE  KeptInv'
<1>0. ClientInv /\ OnlyTab(t) /\ flight'[t].pc = "sent" /\ flight'[t].sent = jar
  BY GrantTyped DEF AllKeptInv, EndInv
<1>1. /\ flight[t].pc = "queued" /\ Head(lock) = t /\ stray = {}
      /\ UNCHANGED <<chain, valid, jar, lock, stray, now, lost, reused>>
  BY DEF Grant
<1>2. lock[1] = t
  <2>1. lock \in Seq(Tabs) /\ lock # <<>>
    BY <1>0, <1>1 DEF ClientInv, LockInv
  <2> QED BY <1>1, <2>1
<1>3. \A u \in Tabs : ~Away(u)
  BY <1>1, <1>2 DEF AllKeptInv, KeptInv, FlightInv, Away
<1>4. \A u \in Tabs : Away(u)' => u = t
  BY <1>0, <1>3 DEF OnlyTab, Away
<1>5. \A u \in Tabs : FlightInv(u)'
  BY <1>0, <1>1, <1>2, <1>4 DEF FlightInv, Away, Brings
<1>6. Good(jar)'
  BY <1>1, <1>3 DEF AllKeptInv, KeptInv, Away, Brings, Good, Live, Current, Behind
<1> QED BY <1>1, <1>5, <1>6 DEF AllKeptInv, KeptInv

\* The network fails, or the tab goes while its refresh is away.
LEMMA FailKept ==
  ASSUME AllKeptInv, MaxLost <= 1, NEW t \in Tabs, FailRefresh(t) \/ (Reload(t) /\ Away(t))
  PROVE  KeptInv'
<1>0. ClientInv /\ OnlyTab(t)
  BY TabStepTyped DEF AllKeptInv, EndInv, TabStep
<1>1. /\ Away(t) /\ UNCHANGED <<chain, now, reused, jar>>
      /\ \/ Lose(flight[t]) /\ UNCHANGED stray
         \/ flight[t].pc = "sent" /\ LoseOne /\ stray' = stray \cup {flight[t].sent}
  BY DEF FailRefresh, Reload, Away
<1>2. flight'[t].pc = "idle"
  BY <1>0, RecordsTyped DEF FailRefresh, Reload, ClientInv, BrowserTypes
<1> QED BY <1>0, <1>1, <1>2, LeaveKept

\* The answer to a refresh brings the current token.
LEMMA AnswerKept ==
  ASSUME AllKeptInv, NEW t \in Tabs, AnswerRefresh(t)
  PROVE  KeptInv'
<1> DEFINE f == flight[t]
<1>0. ClientInv /\ OnlyTab(t) /\ WaitInv(t) /\ FlightInv(t)
  BY TabStepTyped DEF AllKeptInv, EndInv, TabStep, ClientInv, KeptInv
<1>1. /\ f.pc = "served" /\ UNCHANGED <<chain, stray, now, lost, reused>>
      /\ jar' = IF f.answer = "ok" THEN [s |-> f.sent.s, n |-> f.n, csrf |-> f.sent.csrf] ELSE jar
  BY DEF AnswerRefresh
<1>2. flight'[t].pc = "idle"
  BY <1>0, RecordsTyped DEF AnswerRefresh, ClientInv, BrowserTypes
<1>3. Away(t) /\ stray = {} /\ \A u \in Tabs : Away(u) => u = t
  BY <1>1, OneAway DEF Away
<1>4. \A u \in Tabs : ~Away(u)' /\ ~Brings(u)'
  BY <1>0, <1>2, <1>3 DEF OnlyTab, Away, Brings
<1>5. Good(jar)'
  <2>1. CASE f.answer = "ok"
    <3>1. jar'.s = f.sent.s /\ jar'.n = f.n
      BY <1>1, <2>1
    <3>2. Live(f.sent.s) => f.n = chain[f.sent.s].current
      BY <1>0, <1>1, <2>1 DEF FlightInv, Brings
    <3> QED BY <1>1, <3>1, <3>2 DEF Good, Live, Current
  <2>2. CASE f.answer # "ok"
    <3>1. Good(jar) /\ UNCHANGED jar
      BY <1>1, <1>3, <2>2, OneAway DEF Brings
    <3> QED BY <1>1, <3>1 DEF Good, Live, Current, Behind
  <2> QED BY <2>1, <2>2
<1>6. \A u \in Tabs : FlightInv(u)'
  BY <1>4 DEF FlightInv
<1> QED BY <1>1, <1>3, <1>5, <1>6 DEF AllKeptInv, KeptInv

\* The backend exchanges the token a tab sent.
LEMMA ServeKept ==
  ASSUME AllKeptInv, NEW t \in Tabs, ServeRefresh(t)
  PROVE  KeptInv'
<1> DEFINE c == flight[t].sent
           f == flight'[t]
<1>0. ClientInv /\ OnlyTab(t) /\ FlightInv(t) /\ c \in Cookies /\ jar \in Cookies
  BY ServeTypedRefresh, AtTab DEF AllKeptInv, EndInv, KeptInv
<1>1. /\ flight[t].pc = "sent" /\ Exchange(c) /\ UNCHANGED <<jar, lock, stray, now, lost>>
      /\ now \in Nat /\ lost \in Nat
  BY <1>0 DEF ServeRefresh, ClientInv, ServerTypes
<1>2. f.pc = "served" /\ f.sent = c
  BY <1>0, ServeTypedRefresh
<1>3. \/ f.answer = "lost" /\ ~(Live(c.s) /\ Server!MayExchange(chain[c.s], c.n, now))
      \/ /\ Live(c.s) /\ Server!MayExchange(chain[c.s], c.n, now)
         /\ f.answer = "ok" /\ f.n = chain[c.s].current + 1
  BY <1>0, ServeTypedRefresh
<1>4. Away(t) /\ ~Brings(t) /\ lock[1] = t /\ stray = {} /\ Good(jar)
      /\ \A u \in Tabs : Away(u) => u = t
  BY <1>1, OneAway DEF Away, Brings
<1>5. \A u \in Tabs : (Away(u) \/ Brings(u))' => u = t
  BY <1>0, <1>4 DEF OnlyTab, Away, Brings
<1>6. \/ jar.s = c.s /\ jar.n = c.n
      \/ ~Live(c.s) /\ ~Live(jar.s)
  BY <1>0, <1>4 DEF FlightInv
<1>7. CASE ~Live(c.s)
  <2>1. UNCHANGED <<chain, reused>> /\ f.answer = "lost" /\ ~Live(jar.s)
    BY <1>1, <1>3, <1>6, <1>7 DEF Exchange
  <2>2. \A u \in Tabs : FlightInv(u)'
    BY <1>1, <1>2, <1>4, <1>5, <1>7, <2>1 DEF FlightInv, Away, Brings, Live
  <2>3. Good(jar)'
    BY <1>1, <2>1 DEF Good, Live
  <2> QED BY <1>1, <1>4, <2>1, <2>2, <2>3 DEF AllKeptInv, KeptInv
<1>8. CASE Live(c.s)
  <2> DEFINE d == chain'[c.s]
  <2>1. jar.s = c.s /\ jar.n = c.n /\ Good(c)
    BY <1>4, <1>6, <1>8 DEF Good, Current, Behind
  <2>2. /\ UNCHANGED reused /\ Server!MayExchange(chain[c.s], c.n, now)
        /\ d.current = chain[c.s].current + 1 /\ c.n < d.current
        /\ \/ lost >= 1
           \/ /\ c.n = d.replaced /\ d.presented = d.replaced
              /\ d.at <= now /\ now - d.at <= GraceWindow
    BY <1>0, <1>1, <1>8, <2>1, GoodExchange
  <2>3. f.answer = "ok" /\ f.n = d.current
    BY <1>3, <1>8, <2>2
  <2> HIDE DEF d
  <2>5. FlightInv(t)'
    <3>1. Away(t)' => lock'[1] = t
      BY <1>1, <1>4
    <3>2. jar'.s = f.sent.s /\ jar'.n = f.sent.n
      BY <1>1, <1>2, <2>1
    <3>3. f.n = chain'[f.sent.s].current /\ f.sent.n < f.n
      BY <1>2, <2>2, <2>3 DEF d
    <3>4. Behind(flight[t].sent)' \/ lost' >= 1
      BY <1>1, <1>2, <2>2 DEF Behind, d
    <3> QED BY <3>1, <3>2, <3>3, <3>4 DEF FlightInv
  <2>6. \A u \in Tabs : FlightInv(u)'
    BY <1>5, <2>5 DEF FlightInv
  <2>7. Brings(t)'
    BY <1>2, <2>3 DEF Brings
  <2> QED BY <1>1, <1>4, <2>2, <2>6, <2>7 DEF AllKeptInv, KeptInv
<1> QED BY <1>7, <1>8

\* The refresh of a tab that is gone reaches the backend: who asks next with the
\* cookies it was sent with asks for the answer that was lost.
LEMMA StrayKept ==
  ASSUME AllKeptInv, NEW c \in stray, ServeStray(c)
  PROVE  KeptInv'
<1>0. ClientInv /\ c \in Cookies /\ StrayInv(c) /\ jar \in Cookies
  BY DEF AllKeptInv, EndInv, KeptInv, ClientInv, ServerTypes, BrowserTypes
<1>1. /\ stray' = {} /\ Exchange(c) /\ UNCHANGED <<jar, flight, lock, now, lost>>
  BY DEF ServeStray, AllKeptInv, KeptInv
<1>2. /\ lost >= 1 /\ \A u \in Tabs : ~Away(u) /\ ~Brings(u)
      /\ Live(c.s) => Current(c) /\ (jar.s = c.s => jar.n = c.n)
  BY <1>0 DEF StrayInv, Away, Brings
<1>3. \A u \in Tabs : FlightInv(u)'
  BY <1>1, <1>2 DEF FlightInv, Away, Brings
<1>4. Good(jar)
  BY <1>2 DEF AllKeptInv, KeptInv
<1>5. CASE ~Live(c.s)
  <2>1. UNCHANGED <<chain, reused>>
    BY <1>1, <1>5 DEF Exchange
  <2> QED BY <1>1, <1>3, <1>4, <2>1 DEF AllKeptInv, KeptInv, Good, Live, Current, Behind
<1>6. CASE Live(c.s)
  <2> DEFINE d == chain'[c.s]
  <2>1. Good(c) /\ Current(c)
    BY <1>2, <1>6 DEF Good
  <2>2. /\ UNCHANGED reused /\ c.n < d.current
        /\ \A s \in Sessions : s # c.s => chain'[s] = chain[s]
        /\ c.n = d.replaced /\ d.presented = d.replaced
        /\ d.at <= now /\ now - d.at <= GraceWindow
    BY <1>0, <1>1, <1>6, <2>1, GoodExchange
  <2>3. Good(jar)'
    <3>1. CASE jar.s = c.s
      <4>1. jar.n = c.n
        BY <1>2, <1>6, <3>1
      <4>2. Behind(jar)'
        BY <1>1, <2>2, <3>1, <4>1 DEF Behind
      <4>3. lost' >= 1
        BY <1>1, <1>2
      <4> QED BY <4>2, <4>3 DEF Good
    <3>2. CASE jar.s # c.s
      <4>1. jar.s = 0 \/ chain'[jar.s] = chain[jar.s]
        BY <1>0, <2>2, <3>2 DEF Cookies
      <4> QED BY <1>1, <1>4, <4>1 DEF Good, Live, Current, Behind
    <3> QED BY <3>1, <3>2
  <2> QED BY <1>1, <1>3, <2>2, <2>3 DEF AllKeptInv, KeptInv
<1> QED BY <1>5, <1>6

\* A login, while no refresh of a tab is away: its cookies are new.
LEMMA LoginKept ==
  ASSUME AllKeptInv, ~Crossing, NEW t \in Tabs, Login(t)
  PROVE  KeptInv'
<1>1. PICK s \in Sessions :
        /\ chain[s] = Server!Fresh
        /\ \A u \in Tabs : ask[u].pc = "idle" /\ flight[u].pc \in {"idle", "queued"}
        /\ chain' = [chain EXCEPT ![s] = Server!Link("live", 1, None, None, 0)]
        /\ jar' = [s |-> s, n |-> 1, csrf |-> s]
        /\ UNCHANGED <<flight, lock, stray, now, lost, reused>>
  BY DEF Login
<1>2. chain'[s].current = 1 /\ \A q \in Sessions : q # s => chain'[q] = chain[q]
  BY <1>1 DEF AllKeptInv, EndInv, ClientInv, ServerTypes, Server!Link
<1>3. \A u \in Tabs : ~Away(u) /\ ~Away(u)' /\ ~Brings(u)'
  BY <1>1 DEF Away, Brings
<1>4. Good(jar)'
  BY <1>1, <1>2 DEF Good, Current
<1>5. \A u \in Tabs : FlightInv(u)'
  BY <1>3 DEF FlightInv
<1>6. \A c \in stray' : StrayInv(c)' /\ \A d \in stray' : c = d
  <2> SUFFICES ASSUME NEW c \in stray PROVE StrayInv(c)' /\ \A d \in stray : c = d
    BY <1>1
  <2>1. StrayInv(c) /\ (\A d \in stray : c = d) /\ c \in Cookies /\ Known(c)
    BY DEF AllKeptInv, EndInv, KnownInv, KeptInv, ClientInv, ServerTypes
  <2>2. c.s # s
    BY <1>1, <2>1 DEF Known, Used, ClientAssumption
  <2>3. c.s = 0 \/ chain'[c.s] = chain[c.s]
    BY <1>2, <2>1, <2>2 DEF Cookies
  <2>4. jar'.s # c.s
    BY <1>1, <2>2
  <2> QED BY <1>1, <1>3, <2>1, <2>3, <2>4 DEF StrayInv, Live, Current
<1> QED BY <1>1, <1>4, <1>5, <1>6 DEF AllKeptInv, KeptInv

\* The user leaves, here or elsewhere.
LEMMA LogoutKept ==
  ASSUME AllKeptInv, NEW t \in Tabs, Logout(t)
  PROVE  KeptInv'
<1>0. ClientInv /\ jar \in Cookies /\ jar.s \in Sessions \cup {0}
  BY AtTab DEF AllKeptInv, EndInv
<1>1. /\ jar' = NoCookies /\ UNCHANGED <<flight, lock, stray, now, lost, reused>>
      /\ chain' = IF Live(jar.s) THEN [chain EXCEPT ![jar.s] = Server!Ended] ELSE chain
  BY DEF Logout
<1>2. CASE Live(jar.s)
  <2>1. jar.s \in Sessions /\ chain' = [chain EXCEPT ![jar.s] = Server!Ended]
    BY <1>0, <1>1, <1>2 DEF Live
  <2>2. /\ chain'[jar.s] = Server!Ended
        /\ \A q \in Sessions : q # jar.s => chain'[q] = chain[q]
    BY <1>0, <2>1, EndedTyped
  <2>3. chain'[jar.s].life # "live"
    BY <2>2, RecordsTyped
  <2> QED BY <1>1, <2>2, <2>3, EndKept
<1>3. CASE ~Live(jar.s)
  <2>1. chain' = chain /\ (jar.s = 0 \/ chain'[jar.s].life # "live")
    BY <1>1, <1>3 DEF Live
  <2> QED BY <1>1, <2>1, EndKept
<1> QED BY <1>2, <1>3

\* Time passes while no request is on its way: the browser has the answers.
LEMMA TickKept ==
  ASSUME AllKeptInv, Tick
  PROVE  KeptInv'
<1>0. ClientInv /\ jar \in Cookies
  BY DEF AllKeptInv, EndInv, ClientInv, BrowserTypes
<1>1. /\ stray = {} /\ \A t \in Tabs : flight[t].pc # "sent"
      /\ Live(jar.s) => chain[jar.s].current = jar.n
      /\ UNCHANGED <<chain, jar, flight, lock, stray, lost, reused>>
  BY DEF Tick
<1>2. ASSUME NEW t \in Tabs PROVE FlightInv(t)'
  <2>0. FlightInv(t) /\ flight[t].sent.n \in Nat /\ flight[t].n \in Nat
    BY <1>0, AtTab DEF AllKeptInv, KeptInv
  <2>1. ~(Brings(t) /\ Live(flight[t].sent.s))
    <3> SUFFICES ASSUME Brings(t), Live(flight[t].sent.s) PROVE FALSE
      OBVIOUS
    <3>1. jar.s = flight[t].sent.s /\ jar.n = flight[t].sent.n
      BY <2>0 DEF FlightInv, Brings, Away
    <3>2. flight[t].n = chain[flight[t].sent.s].current /\ flight[t].sent.n < flight[t].n
      BY <2>0 DEF FlightInv
    <3> QED BY <1>1, <2>0, <3>1, <3>2
  <2> QED BY <1>1, <2>0, <2>1 DEF FlightInv, Away, Brings, Live
<1>3. Good(jar)'
  BY <1>1 DEF Good, Live, Current
<1> QED BY <1>1, <1>2, <1>3 DEF AllKeptInv, KeptInv

LEMMA OtherStepKept ==
  ASSUME AllKeptInv, OtherStep
  PROVE  KeptInv'
<1>0. ClientInv
  BY DEF AllKeptInv, EndInv
<1>1. CASE \E c \in stray : ServeStray(c)
  BY <1>1, StrayKept
<1>2. CASE \E s \in Sessions : EndElsewhere(s)
  <2> PICK s \in Sessions : EndElsewhere(s)
    BY <1>2
  <2>1. /\ chain' = [chain EXCEPT ![s] = Server!Ended]
        /\ UNCHANGED <<flight, lock, stray, now, lost, reused, jar>>
    BY DEF EndElsewhere
  <2>2. \A q \in Sessions : chain'[q] = chain[q] \/ chain'[q] = Server!Ended
    BY <1>0, <2>1, EndedTyped
  <2> QED BY <2>1, <2>2, EndKept
<1>3. CASE \E s \in Sessions : \E n \in 1 .. chain[s].current : Expire(s, n)
  <2>1. UNCHANGED <<chain, jar, flight, lock, stray, now, lost, reused>>
    BY <1>3 DEF Expire
  <2>2. \A s \in Sessions : chain'[s] = chain[s] \/ chain'[s] = Server!Ended
    BY <2>1
  <2> QED BY <2>1, <2>2, EndKept
<1>4. CASE Tick
  BY <1>4, TickKept
<1> QED BY <1>1, <1>2, <1>3, <1>4 DEF OtherStep

LEMMA AlwaysKeptInv ==
  HasLocks /\ ~LateStrays /\ ~Crossing /\ MaxLost <= 1 /\ Spec => []AllKeptInv
<1>1. Init => KeptInv
  <2> SUFFICES ASSUME Init PROVE KeptInv
    OBVIOUS
  <2>1. jar.s = 0 /\ stray = {} /\ ~reused /\ \A t \in Tabs : flight[t].pc = "idle"
    BY RecordsTyped DEF Init
  <2> QED BY <2>1 DEF KeptInv, Good, Live, FlightInv, Away, Brings
<1> DEFINE Calm == HasLocks /\ ~LateStrays /\ ~Crossing /\ MaxLost <= 1
<1>2. ASSUME AllKeptInv, Calm, [Next]_vars, EndInv'
      PROVE  AllKeptInv'
  <2>1. CASE \E t \in Tabs : TabStep(t)
    <3> PICK t \in Tabs : TabStep(t)
      BY <2>1
    <3> QED BY <1>2, CalmStepKept, GrantKept, FailKept, AnswerKept, ServeKept, LoginKept,
               LogoutKept DEF TabStep, AllKeptInv
  <2>2. CASE OtherStep
    BY <1>2, <2>2, OtherStepKept DEF AllKeptInv
  <2>3. CASE UNCHANGED vars
    <3>1. UNCHANGED <<chain, jar, flight, lock, stray, now, lost, reused>>
      BY <2>3 DEF vars
    <3>2. \A s \in Sessions : chain'[s] = chain[s] \/ chain'[s] = Server!Ended
      BY <3>1
    <3> QED BY <1>2, <3>1, <3>2, EndKept DEF AllKeptInv
  <2> QED BY <1>2, <2>1, <2>2, <2>3, NextCases
<1>3. CASE Calm
  <2>1. Init /\ EndInv => AllKeptInv
    BY <1>1 DEF AllKeptInv
  <2>2. AllKeptInv /\ [Next]_vars /\ EndInv' => AllKeptInv'
    BY <1>2, <1>3
  <2>3. Calm
    BY <1>3
  <2> HIDE DEF Calm
  <2> QED BY <2>1, <2>2, AlwaysEndInv, PTL DEF Spec
<1>4. CASE ~Calm
  BY <1>4
<1> QED BY <1>3, <1>4

\* sharedRefresh: where the tabs take turns with the lock, no refresh of a closed
\* tab comes late and one answer at most is lost, the backend takes no refresh of
\* the browser for the reuse of a token, whatever the tabs do.
THEOREM RefreshesAreNoReuse ==
  HasLocks /\ ~LateStrays /\ ~Crossing /\ MaxLost <= 1 /\ Spec => []SessionKept
<1>1. AllKeptInv => SessionKept
  BY DEF AllKeptInv, KeptInv, SessionKept
<1> QED BY <1>1, AlwaysKeptInv, PTL
=============================================================================
