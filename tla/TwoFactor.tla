------------------------------ MODULE TwoFactor ------------------------------
(***************************************************************************)
(* Two-factor authentication of ONE account (TwoFactorService): setting it *)
(* up, the second step of a login, turning it off.  The row of the user is *)
(* read and written in separate statements; the failed attempts are counted*)
(* in the memory of the process.  Time is counted in TOTP steps.           *)
(***************************************************************************)
EXTENDS Integers, FiniteSets, Sequences

CONSTANTS
  Requests,       \* requests in flight
  None,
  CodeCount,      \* RECOVERY_CODE_COUNT
  MaxFailed,      \* MAX_FAILED_ATTEMPTS
  LockTime,       \* LOCK_MS
  MaxSecrets,     \* bound: secrets generated, and sets of recovery codes
  MaxTime         \* bound of the exploration

ASSUME TwoFactorAssumption ==
  /\ {CodeCount, MaxFailed, LockTime} \subseteq Nat \ {0}
  /\ {MaxSecrets, MaxTime} \subseteq Nat
  /\ None \notin Nat

VARIABLES
  calm,       \* whether one request follows the other, in this behaviour
  now,
  user,       \* the columns twoFactor* of the row
  failures,   \* the entry of the account in the Map
  req,        \* requests in flight
  secrets, sets,   \* how many secrets and sets of recovery codes were generated
  accepted, again, \* history: the codes accepted, and whether one was twice,
  proven,          \*   the secrets that a code was confirmed with,
  guesses          \*   the times of the last wrong codes since a right one

vars == <<calm, now, user, failures, req, secrets, sets, accepted, again, proven, guesses>>

\* The code of an app for a step, a recovery code of a set, any other.
AppCode(secret, step) == <<"app", secret, step>>
RecoveryCodes(set) == {<<"recovery", set, i>> : i \in 1 .. CodeCount}
Wrong == <<"wrong", 0, 0>>

Off == [secret |-> 0, enabled |-> FALSE, lastStep |-> None, recovery |-> {}]
NoFailures == [count |-> 0, lockedUntil |-> 0]
Idle == [pc |-> "idle", op |-> None, code |-> Wrong, seen |-> Off]

Init ==
  /\ calm \in BOOLEAN
  /\ now = 0 /\ user = Off /\ failures = NoFailures
  /\ req = [q \in Requests |-> Idle]
  /\ secrets = 0 /\ sets = 0
  /\ accepted = {} /\ again = FALSE /\ proven = {} /\ guesses = <<>>

Goto(q, pc) == req' = [req EXCEPT ![q].pc = pc]
Finish(q) == req' = [req EXCEPT ![q] = Idle]

-----------------------------------------------------------------------------
(* The failed attempts, and the codes.                                     *)

Locked == failures.lockedUntil > now

\* registerFailure: the last of a row of failures locks, and the row starts anew.
FailedTooOften(f) ==                                        \* a mutant
  IF f.count >= MaxFailed THEN [count |-> 0, lockedUntil |-> now + LockTime]
  ELSE [f EXCEPT !.count = @ + 1]
Failed(f) ==
  IF f.count + 1 >= MaxFailed THEN [count |-> 0, lockedUntil |-> now + LockTime]
  ELSE [f EXCEPT !.count = @ + 1]

\* Of the times of wrong codes no more than the property compares are kept.
Guessed ==
  guesses' = LET g == Append(guesses, now) IN
             IF Len(g) > MaxFailed + 1 THEN Tail(g) ELSE g
Forgiven == failures' = NoFailures /\ guesses' = <<>>

\* verifyTotp: the step before, the current and the next one.
Window == {n \in now - 1 .. now + 1 : n >= 0}
Verifies(seen, code) ==
  code[1] = "app" /\ code[2] = seen.secret /\ code[3] \in Window

\* checkCode, up to its first write.
RightOnceMore(seen, code) ==                                \* a mutant
  \/ Verifies(seen, code) /\ (seen.lastStep = None \/ code[3] >= seen.lastStep)
  \/ code \in seen.recovery
Right(seen, code) ==
  \/ Verifies(seen, code) /\ (seen.lastStep = None \/ code[3] > seen.lastStep)
  \/ code \in seen.recovery

Accept(code) ==
  /\ accepted' = accepted \cup {code}
  /\ again' = (again \/ code \in accepted)

-----------------------------------------------------------------------------
(* The requests.                                                           *)

\* What can be typed: a code of the app, a recovery code of the last set, another
\* (as are those of earlier secrets and sets).
Typed == {Wrong} \cup {AppCode(secrets, n) : n \in Window} \cup RecoveryCodes(sets)
\* Bound: at most MaxSecrets setups are begun, and confirmed.
Count(op) == Cardinality({q \in Requests : req[q].op = op})
Begin(q) ==
  /\ req[q].pc = "idle"
  /\ calm => \A p \in Requests : req[p].pc = "idle"
  /\ \/ /\ secrets + Count("setup") < MaxSecrets
        /\ req' = [req EXCEPT ![q] = [Idle EXCEPT !.pc = "read", !.op = "setup"]]
     \/ \E op \in {"confirm", "login", "disable"}, code \in Typed :
          /\ op = "confirm" => sets + Count("confirm") < MaxSecrets
          /\ req' = [req EXCEPT ![q] = [Idle EXCEPT !.pc = "read", !.op = op, !.code = code]]
  /\ UNCHANGED <<now, user, failures, secrets, sets, accepted, again, proven, guesses>>

\* The row; setup is refused when it is on, a code when it is off.
Read(q) ==
  LET op == req[q].op IN
  /\ req[q].pc = "read"
  /\ IF \/ op \in {"setup", "confirm"} /\ user.enabled
        \/ op = "confirm" /\ user.secret = 0
        \/ op \in {"login", "disable"} /\ ~user.enabled
     THEN Finish(q)
     ELSE req' = [req EXCEPT ![q].seen = user,
                             ![q].pc = IF op = "setup" THEN "store" ELSE "check"]
  /\ UNCHANGED <<now, user, failures, secrets, sets, accepted, again, proven, guesses>>

\* beginSetup
StoreSecret(q) ==
  /\ req[q].pc = "store"
  /\ secrets' = secrets + 1
  /\ user' = [user EXCEPT !.secret = secrets + 1, !.lastStep = None]
  /\ Finish(q)
  /\ UNCHANGED <<now, failures, sets, accepted, again, proven, guesses>>

Check(q) ==
  LET r == req[q] IN
  /\ r.pc = "check"
  /\ CASE Locked -> Finish(q) /\ UNCHANGED <<failures, guesses>>
       [] ~Locked /\ r.op = "confirm" /\ Verifies(r.seen, r.code) ->
            Goto(q, "enable") /\ Forgiven
       [] ~Locked /\ r.op # "confirm" /\ Right(r.seen, r.code) ->
            Goto(q, "spend") /\ UNCHANGED <<failures, guesses>>
       [] OTHER -> Finish(q) /\ failures' = Failed(failures) /\ Guessed
  /\ UNCHANGED <<now, user, secrets, sets, accepted, again, proven>>

\* confirmSetup
EnableUnspent(q) ==                                         \* a mutant
  LET r == req[q] IN
  /\ r.pc = "enable"
  /\ sets' = sets + 1
  /\ user' = [user EXCEPT !.enabled = TRUE, !.recovery = RecoveryCodes(sets + 1)]
  /\ proven' = proven \cup {r.seen.secret} /\ Accept(r.code)
  /\ Finish(q)
  /\ UNCHANGED <<now, failures, secrets, guesses>>
Enable(q) ==
  LET r == req[q] IN
  /\ r.pc = "enable"
  /\ sets' = sets + 1
  /\ user' = [user EXCEPT !.enabled = TRUE, !.lastStep = r.code[3],
                          !.recovery = RecoveryCodes(sets + 1)]
  /\ proven' = proven \cup {r.seen.secret} /\ Accept(r.code)
  /\ Finish(q)
  /\ UNCHANGED <<now, failures, secrets, guesses>>

\* checkCode writes what it computed from the row it read: the step by id, the
\* recovery codes left where the code is still among them.
Granted(q) ==
  /\ Forgiven /\ Accept(req[q].code)
  /\ IF req[q].op = "disable" THEN Goto(q, "off") ELSE Finish(q)
Spend(q) ==
  LET r == req[q] IN
  /\ r.pc = "spend"
  /\ CASE r.code[1] = "app" -> user' = [user EXCEPT !.lastStep = r.code[3]] /\ Granted(q)
       [] r.code \in user.recovery ->
            user' = [user EXCEPT !.recovery = r.seen.recovery \ {r.code}] /\ Granted(q)
       [] OTHER -> /\ Finish(q) /\ failures' = Failed(failures)
                   /\ UNCHANGED <<user, accepted, again, guesses>>
  /\ UNCHANGED <<now, secrets, sets, proven>>

\* disable
TurnOff(q) ==
  /\ req[q].pc = "off" /\ user' = Off /\ Finish(q)
  /\ UNCHANGED <<now, failures, secrets, sets, accepted, again, proven, guesses>>

\* The statement a request waits for fails.
Break(q) ==
  /\ req[q].pc \notin {"idle", "check"} /\ Finish(q)
  /\ UNCHANGED <<now, user, failures, secrets, sets, accepted, again, proven, guesses>>

Restart ==
  /\ Forgiven /\ req' = [q \in Requests |-> Idle]
  /\ UNCHANGED <<now, user, secrets, sets, accepted, again, proven>>
Tick ==
  /\ now < MaxTime /\ now' = now + 1
  /\ UNCHANGED <<user, failures, req, secrets, sets, accepted, again, proven, guesses>>

Step ==
  \/ \E q \in Requests :
       \/ Begin(q) \/ Read(q) \/ StoreSecret(q) \/ Check(q) \/ Enable(q)
       \/ Spend(q) \/ TurnOff(q) \/ Break(q)
  \/ Restart \/ Tick
Next == Step /\ UNCHANGED calm

Spec == Init /\ [][Next]_vars

-----------------------------------------------------------------------------
(* Properties.                                                             *)

\* "Codigo da app (sem reutilizacao) ou de recuperacao (gasta-se)": no code is
\* accepted twice, the one that confirmed the setup included.
SpentOnce == ~again

\* "5 tentativas por janela de 5 min": of wrong codes since the last right one
\* (or since the process started), no MaxFailed + 1 fit in less than LockTime,
\* however many requests are under way.
GuessesBounded ==
  Len(guesses) = MaxFailed + 1 => guesses[MaxFailed + 1] - guesses[1] >= LockTime

\* "o user prova que a app gera codigos certos": while it is on, a code was
\* confirmed with the secret that is stored.
EnabledIsProven == user.enabled => user.secret \in proven

\* Both hold of requests that follow each other (of others: section 6 of the
\* README).
CodesSoundWhenCalm == calm => SpentOnce /\ EnabledIsProven
=============================================================================
