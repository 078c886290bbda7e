---------------------------- MODULE TwoFactorProofs ----------------------------
(***************************************************************************)
(* Wrong codes are limited for every number of requests, and whatever the  *)
(* limit and the length of the lock are.  The argument: the wrong codes    *)
(* that the count of the Map does not cover lie a lock before the time     *)
(* until which the account was last locked.                                *)
(*                                                                         *)
(* Where one request follows the other, no code is accepted twice and what *)
(* is on was confirmed.  The argument: accepted codes of the app are not   *)
(* later than the step that is stored, accepted recovery codes are not in  *)
(* the row, and a secret that replaces another is a new one.               *)
(***************************************************************************)
EXTENDS TwoFactor, TLAPS

USE TwoFactorAssumption

Failures == [count : Nat, lockedUntil : Nat]
GuessTypes == now \in Nat /\ failures \in Failures /\ guesses \in Seq(Nat)

\* registerFailure resets the count when it reaches the limit.
CountBelow == failures.count < MaxFailed

GuessesKept == Len(guesses) <= MaxFailed + 1
GuessesPast == \A i \in 1 .. Len(guesses) : guesses[i] <= now

\* Wrong codes before the last `count` ones are as old as the last lock.
OldBeforeLock(g, f) ==
  \A i \in 1 .. Len(g) : i + f.count <= Len(g) => g[i] + LockTime <= f.lockedUntil

GuessInv ==
  /\ GuessTypes /\ CountBelow /\ GuessesKept /\ GuessesPast
  /\ OldBeforeLock(guesses, failures)

-----------------------------------------------------------------------------
(* What the operators of the Map do.                                       *)

LEMMA LimitTypes ==
  /\ MaxFailed \in Nat /\ MaxFailed >= 1 /\ LockTime \in Nat /\ LockTime >= 1
  OBVIOUS

\* A failure is counted, or it locks from now on and the count starts anew.
LEMMA FailedType ==
  ASSUME GuessInv
  PROVE  Failed(failures) \in Failures /\ Failed(failures).count < MaxFailed
<1>1. failures \in Failures /\ now \in Nat /\ failures.count < MaxFailed
  BY DEF GuessInv, GuessTypes, CountBelow
<1>2. CASE failures.count + 1 >= MaxFailed
  BY <1>1, <1>2, LimitTypes DEF Failed, Failures
<1>3. CASE ~(failures.count + 1 >= MaxFailed)
  BY <1>1, <1>3, LimitTypes DEF Failed, Failures
<1> QED BY <1>2, <1>3

\* A failure that is no wrong code, as a recovery code spent meanwhile, only
\* makes the limit stricter.
LEMMA FailedKeepsOld ==
  ASSUME GuessInv
  PROVE  OldBeforeLock(guesses, Failed(failures))
<1>1. /\ failures \in Failures /\ now \in Nat /\ guesses \in Seq(Nat)
      /\ GuessesPast /\ OldBeforeLock(guesses, failures)
  BY DEF GuessInv, GuessTypes
<1> SUFFICES ASSUME NEW i \in 1 .. Len(guesses), i + Failed(failures).count <= Len(guesses)
             PROVE  guesses[i] + LockTime <= Failed(failures).lockedUntil
  BY DEF OldBeforeLock
<1>2. guesses[i] \in Nat /\ guesses[i] <= now
  BY <1>1 DEF GuessesPast
<1>3. CASE failures.count + 1 >= MaxFailed
  BY <1>1, <1>2, <1>3, LimitTypes DEF Failed
<1>4. CASE ~(failures.count + 1 >= MaxFailed)
  <2>1. /\ Failed(failures).count = failures.count + 1
        /\ Failed(failures).lockedUntil = failures.lockedUntil
    BY <1>1, <1>4 DEF Failed, Failures
  <2>2. i + failures.count <= Len(guesses)
    BY <1>1, <2>1, LimitTypes DEF Failures
  <2> QED BY <1>1, <2>1, <2>2 DEF OldBeforeLock
<1> QED BY <1>3, <1>4

-----------------------------------------------------------------------------
(* A wrong code.                                                           *)

\* The guesses that are kept after a wrong code, and where each one was.
LEMMA GuessedShape ==
  ASSUME GuessInv, Guessed
  PROVE  LET cut == IF Len(guesses) = MaxFailed + 1 THEN 1 ELSE 0 IN
         /\ guesses' \in Seq(Nat)
         /\ Len(guesses') = Len(guesses) + 1 - cut
         /\ guesses'[Len(guesses')] = now
         /\ \A i \in 1 .. Len(guesses') - 1 : guesses'[i] = guesses[i + cut]
<1> DEFINE g == Append(guesses, now)
<1>1. guesses \in Seq(Nat) /\ now \in Nat /\ Len(guesses) <= MaxFailed + 1
  BY DEF GuessInv, GuessTypes, GuessesKept
<1>2. /\ g \in Seq(Nat) /\ Len(g) = Len(guesses) + 1 /\ g[Len(guesses) + 1] = now
      /\ \A i \in 1 .. Len(guesses) : g[i] = guesses[i]
  BY <1>1
<1>3. guesses' = IF Len(g) > MaxFailed + 1 THEN Tail(g) ELSE g
  BY DEF Guessed
<1>4. Len(guesses) \in Nat BY <1>1
<1>5. /\ Tail(g) \in Seq(Nat) /\ Len(Tail(g)) = Len(guesses)
      /\ \A i \in 1 .. Len(guesses) : Tail(g)[i] = g[i + 1]
  BY <1>2, <1>4
<1> HIDE DEF g
<1>6. CASE Len(guesses) = MaxFailed + 1
  <2>1. guesses' = Tail(g) /\ Len(guesses') = Len(guesses) BY <1>2, <1>3, <1>5, <1>6, LimitTypes
  <2>2. guesses'[Len(guesses')] = now BY <1>2, <1>4, <1>5, <1>6, <2>1, LimitTypes
  <2>3. \A i \in 1 .. Len(guesses') - 1 : guesses'[i] = guesses[i + 1]
    <3> SUFFICES ASSUME NEW i \in 1 .. Len(guesses') - 1 PROVE guesses'[i] = guesses[i + 1]
      OBVIOUS
    <3>1. i \in 1 .. Len(guesses) /\ i + 1 \in 1 .. Len(guesses) BY <1>4, <2>1
    <3> QED BY <1>2, <1>5, <2>1, <3>1
  <2> QED BY <1>4, <1>5, <1>6, <2>1, <2>2, <2>3
<1>7. CASE Len(guesses) # MaxFailed + 1
  <2>1. guesses' = g BY <1>1, <1>2, <1>3, <1>4, <1>7, LimitTypes
  <2> QED BY <1>2, <1>4, <1>7, <2>1
<1> QED BY <1>6, <1>7

\* A wrong code is only looked at when the account is not locked: it lies a lock
\* after all those the count does not cover.
LEMMA WrongCode ==
  ASSUME GuessInv, Guessed, failures' = Failed(failures), now' = now
  PROVE  GuessInv'
<1> DEFINE cut == IF Len(guesses) = MaxFailed + 1 THEN 1 ELSE 0
           n == Len(guesses)
<1>1. /\ guesses \in Seq(Nat) /\ now \in Nat /\ n \in Nat /\ n <= MaxFailed + 1
      /\ failures \in Failures /\ failures.count \in Nat /\ failures.lockedUntil \in Nat
  BY DEF GuessInv, GuessTypes, GuessesKept, Failures
<1>2. /\ guesses' \in Seq(Nat) /\ Len(guesses') = n + 1 - cut
      /\ guesses'[Len(guesses')] = now
      /\ \A i \in 1 .. Len(guesses') - 1 : guesses'[i] = guesses[i + cut]
  BY GuessedShape
<1>3. cut \in {0, 1} /\ (cut = 0 => n # MaxFailed + 1) /\ (cut = 1 => n = MaxFailed + 1)
  OBVIOUS
<1> HIDE DEF cut, n
<1>4. GuessTypes' /\ CountBelow'
  BY <1>1, <1>2, FailedType DEF GuessTypes, CountBelow
<1>5. GuessesKept'
  BY <1>1, <1>2, <1>3, LimitTypes DEF GuessesKept
<1>6. \A i \in 1 .. Len(guesses') - 1 : i + cut \in 1 .. n
  BY <1>1, <1>2, <1>3
<1>7. GuessesPast'
  <2> SUFFICES ASSUME NEW i \in 1 .. Len(guesses') PROVE guesses'[i] <= now
    BY DEF GuessesPast
  <2>1. CASE i = Len(guesses') BY <1>1, <1>2, <2>1
  <2>2. CASE i # Len(guesses')
    <3>1. i \in 1 .. Len(guesses') - 1 BY <1>1, <1>2, <1>3, <2>2
    <3> QED BY <3>1, <1>2, <1>6 DEF GuessInv, GuessesPast, n
  <2> QED BY <2>1, <2>2
<1>8. OldBeforeLock(guesses, failures)'
  <2> SUFFICES ASSUME NEW i \in 1 .. Len(guesses'),
                      i + Failed(failures).count <= Len(guesses')
               PROVE  guesses'[i] + LockTime <= Failed(failures).lockedUntil
    BY DEF OldBeforeLock
  <2>1. guesses'[i] \in Nat /\ guesses'[i] <= now
    BY <1>1, <1>2, <1>7 DEF GuessesPast
  <2>2. CASE failures.count + 1 >= MaxFailed
    BY <1>1, <2>1, <2>2, LimitTypes DEF Failed
  <2>3. CASE ~(failures.count + 1 >= MaxFailed)
    <3>1. /\ Failed(failures).count = failures.count + 1
          /\ Failed(failures).lockedUntil = failures.lockedUntil
      BY <1>1, <2>3 DEF Failed, Failures
    <3>2. i \in 1 .. Len(guesses') - 1 /\ i + cut + failures.count <= n
      <4>1. i + (failures.count + 1) <= n + 1 - cut BY <1>2, <3>1
      <4>2. i \in Nat /\ 1 <= i BY <1>1, <1>2, <1>3
      <4>3. cut \in Nat BY <1>3
      <4>4. i + cut + failures.count <= n BY <1>1, <4>1, <4>2, <4>3
      <4>5. i + (failures.count + 1) <= Len(guesses') BY <3>1
      <4>6. \A j, c, m \in Nat : j + (c + 1) <= m => j + 1 <= m OBVIOUS
      <4>7. Len(guesses') \in Nat /\ failures.count \in Nat BY <1>1, <1>2
      <4>8. i + 1 <= Len(guesses') BY <4>2, <4>5, <4>6, <4>7
      <4> QED BY <4>2, <4>4, <4>7, <4>8
    <3>3. guesses'[i] = guesses[i + cut] /\ i + cut \in 1 .. n
      BY <1>2, <1>6, <3>2
    <3>4. guesses[i + cut] + LockTime <= failures.lockedUntil
      BY <1>3, <3>2, <3>3 DEF GuessInv, OldBeforeLock, n
    <3> QED BY <3>1, <3>3, <3>4
  <2> QED BY <2>2, <2>3
<1> QED BY <1>4, <1>5, <1>7, <1>8 DEF GuessInv

LEMMA WrongCodeBounded ==
  ASSUME GuessInv, Guessed, ~Locked
  PROVE  GuessesBounded'
<1> DEFINE cut == IF Len(guesses) = MaxFailed + 1 THEN 1 ELSE 0
           n == Len(guesses)
<1>1. /\ guesses \in Seq(Nat) /\ now \in Nat /\ n \in Nat /\ n <= MaxFailed + 1
      /\ failures.count \in Nat /\ failures.lockedUntil \in Nat /\ failures.count < MaxFailed
  BY DEF GuessInv, GuessTypes, GuessesKept, CountBelow, Failures
<1>2. /\ guesses' \in Seq(Nat) /\ Len(guesses') = n + 1 - cut
      /\ guesses'[Len(guesses')] = now
      /\ \A i \in 1 .. Len(guesses') - 1 : guesses'[i] = guesses[i + cut]
  BY GuessedShape
<1>3. cut \in {0, 1} /\ (cut = 0 => n # MaxFailed + 1) /\ (cut = 1 => n = MaxFailed + 1)
  OBVIOUS
<1> HIDE DEF cut, n
<1> SUFFICES ASSUME Len(guesses') = MaxFailed + 1
             PROVE  guesses'[MaxFailed + 1] - guesses'[1] >= LockTime
  BY DEF GuessesBounded
<1>4. n = MaxFailed + cut
  BY <1>1, <1>2, <1>3, LimitTypes
<1>5. 1 + cut \in 1 .. n /\ 1 + cut + failures.count <= n
  BY <1>1, <1>3, <1>4, LimitTypes
<1>6. guesses[1 + cut] + LockTime <= failures.lockedUntil /\ guesses[1 + cut] \in Nat
  <2>1. \A i \in 1 .. n : i + failures.count <= n => guesses[i] + LockTime <= failures.lockedUntil
    BY DEF GuessInv, OldBeforeLock, n
  <2>2. (1 + cut) + failures.count <= n BY <1>5
  <2>3. guesses[1 + cut] \in Nat BY <1>1, <1>5 DEF n
  <2> QED BY <1>5, <2>1, <2>2, <2>3
<1>7. guesses'[1] = guesses[1 + cut] /\ guesses'[MaxFailed + 1] = now
  BY <1>1, <1>2, <1>3, LimitTypes
<1>8. failures.lockedUntil <= now
  BY <1>1 DEF Locked
<1> QED BY <1>1, <1>6, <1>7, <1>8, LimitTypes

-----------------------------------------------------------------------------
(* The other steps.                                                        *)

\* A right code, or a restart, forgets the wrong ones.
LEMMA ForgivenStep ==
  ASSUME GuessInv, Forgiven, now' = now
  PROVE  GuessInv' /\ GuessesBounded'
<1>1. now \in Nat BY DEF GuessInv, GuessTypes
<1>2. failures' = [count |-> 0, lockedUntil |-> 0] /\ guesses' = <<>>
  BY DEF Forgiven, NoFailures
<1>3. Len(guesses') = 0 /\ guesses' \in Seq(Nat) BY <1>2
<1>4. failures' \in Failures /\ failures'.count = 0 BY <1>2 DEF Failures
<1>5. GuessInv'
  BY <1>1, <1>3, <1>4, LimitTypes
  DEF GuessInv, GuessTypes, CountBelow, GuessesKept, GuessesPast, OldBeforeLock
<1>6. GuessesBounded'
  BY <1>3, LimitTypes DEF GuessesBounded
<1> QED BY <1>5, <1>6

LEMMA UnrelatedStep ==
  ASSUME GuessInv, GuessesBounded, UNCHANGED <<failures, guesses>>,
         now' \in Nat, now' >= now
  PROVE  GuessInv' /\ GuessesBounded'
<1>1. GuessTypes' /\ CountBelow' /\ GuessesKept' /\ OldBeforeLock(guesses, failures)'
  BY DEF GuessInv, GuessTypes, CountBelow, GuessesKept, OldBeforeLock
<1>2. GuessesPast'
  <2> SUFFICES ASSUME NEW i \in 1 .. Len(guesses) PROVE guesses[i] <= now'
    BY DEF GuessesPast
  <2>1. guesses[i] \in Nat /\ guesses[i] <= now /\ now \in Nat
    BY DEF GuessInv, GuessTypes, GuessesPast
  <2> QED BY <2>1
<1>3. GuessesBounded' BY DEF GuessesBounded
<1> QED BY <1>1, <1>2, <1>3 DEF GuessInv

\* A recovery code that another request spent meanwhile.
LEMMA LostRace ==
  ASSUME GuessInv, GuessesBounded, failures' = Failed(failures), UNCHANGED <<now, guesses>>
  PROVE  GuessInv' /\ GuessesBounded'
<1>1. GuessTypes' /\ CountBelow'
  BY FailedType DEF GuessInv, GuessTypes, CountBelow
<1>2. GuessesKept' /\ GuessesPast'
  BY DEF GuessInv, GuessesKept, GuessesPast
<1>3. OldBeforeLock(guesses, failures)'
  BY FailedKeepsOld DEF OldBeforeLock
<1>4. GuessesBounded' BY DEF GuessesBounded
<1> QED BY <1>1, <1>2, <1>3, <1>4 DEF GuessInv

LEMMA CheckStep ==
  ASSUME GuessInv, GuessesBounded, NEW q \in Requests, Check(q)
  PROVE  GuessInv' /\ GuessesBounded'
<1>1. now' = now /\ now \in Nat BY DEF Check, GuessInv, GuessTypes
<1>2. \/ UNCHANGED <<failures, guesses>>
      \/ Forgiven
      \/ ~Locked /\ failures' = Failed(failures) /\ Guessed
  BY Zenon DEF Check
<1>3. CASE UNCHANGED <<failures, guesses>>
  BY <1>1, <1>3, UnrelatedStep
<1>4. CASE Forgiven BY <1>1, <1>4, ForgivenStep
<1>5. CASE ~Locked /\ failures' = Failed(failures) /\ Guessed
  BY <1>1, <1>5, WrongCode, WrongCodeBounded
<1> QED BY <1>2, <1>3, <1>4, <1>5

LEMMA SpendStep ==
  ASSUME GuessInv, GuessesBounded, NEW q \in Requests, Spend(q)
  PROVE  GuessInv' /\ GuessesBounded'
<1>1. now' = now BY DEF Spend
<1>2. \/ Forgiven
      \/ failures' = Failed(failures) /\ UNCHANGED guesses
  BY Zenon DEF Spend, Granted
<1> QED BY <1>1, <1>2, ForgivenStep, LostRace

LEMMA GuessInit == Init => GuessInv /\ GuessesBounded
<1> SUFFICES ASSUME Init PROVE GuessInv /\ GuessesBounded OBVIOUS
<1>1. now = 0 /\ guesses = <<>> /\ failures = [count |-> 0, lockedUntil |-> 0]
  BY DEF Init, NoFailures
<1>2. Len(guesses) = 0 /\ guesses \in Seq(Nat) BY <1>1
<1>3. failures \in Failures /\ failures.count = 0 BY <1>1 DEF Failures
<1> QED
  BY <1>1, <1>2, <1>3, LimitTypes
  DEF GuessInv, GuessTypes, CountBelow, GuessesKept, GuessesPast, OldBeforeLock, GuessesBounded

LEMMA GuessNext == GuessInv /\ GuessesBounded /\ [Next]_vars => GuessInv' /\ GuessesBounded'
<1> SUFFICES ASSUME GuessInv, GuessesBounded, [Next]_vars
             PROVE  GuessInv' /\ GuessesBounded'
  OBVIOUS
<1>0. now \in Nat BY DEF GuessInv, GuessTypes
<1>1. ASSUME UNCHANGED <<now, failures, guesses>> PROVE GuessInv' /\ GuessesBounded'
  BY <1>0, <1>1, UnrelatedStep
<1>2. CASE UNCHANGED vars BY <1>1, <1>2 DEF vars
<1>3. ASSUME NEW q \in Requests,
             Begin(q) \/ Read(q) \/ StoreSecret(q) \/ Enable(q) \/ TurnOff(q) \/ Break(q)
      PROVE  GuessInv' /\ GuessesBounded'
  BY <1>1, <1>3 DEF Begin, Read, StoreSecret, Enable, TurnOff, Break
<1>4. ASSUME Restart PROVE GuessInv' /\ GuessesBounded'
  BY <1>4, ForgivenStep DEF Restart
<1>5. ASSUME Tick PROVE GuessInv' /\ GuessesBounded'
  BY <1>0, <1>5, UnrelatedStep DEF Tick
<1> QED BY <1>2, <1>3, <1>4, <1>5, CheckStep, SpendStep DEF Next, Step

-----------------------------------------------------------------------------
(* The theorem.                                                            *)

\* registerFailure and isLocked: since the last right code, or since the process
\* started, no MaxFailed + 1 wrong codes fit in less than LockTime.
THEOREM GuessesLimited == Spec => []GuessesBounded
<1>1. Init => GuessInv /\ GuessesBounded BY GuessInit
<1>2. GuessInv /\ GuessesBounded /\ [Next]_vars => GuessInv' /\ GuessesBounded'
  BY GuessNext
<1> QED BY <1>1, <1>2, PTL DEF Spec
-----------------------------------------------------------------------------
(* Codes, where requests follow each other.                                *)

Codes == {"app", "recovery", "wrong"} \X Nat \X Nat
UserRow == [secret : Nat, enabled : BOOLEAN, lastStep : Nat \cup {None},
            recovery : SUBSET Codes]
Ops == {"setup", "confirm", "login", "disable"}
Slot == [pc : {"idle", "read", "store", "check", "enable", "spend", "off"},
         op : Ops \cup {None}, code : Codes, seen : UserRow]

CodeTypes ==
  /\ calm \in BOOLEAN /\ again \in BOOLEAN
  /\ now \in Nat /\ secrets \in Nat /\ sets \in Nat
  /\ user \in UserRow /\ req \in [Requests -> Slot]
  /\ accepted \in SUBSET Codes /\ proven \in SUBSET Nat

\* The codes accepted: those of the app are of secrets that were generated, and
\* of the present one no later than the last step; none is in the row.
SpentCodes(row) ==
  /\ \A c \in accepted :
       /\ c[1] = "app" => 1 <= c[2] /\ c[2] <= secrets
       /\ c[1] = "app" /\ c[2] = row.secret =>
            row.enabled /\ row.lastStep # None /\ c[3] <= row.lastStep
       /\ c[1] = "recovery" => c[2] <= sets
       /\ c \notin row.recovery
  /\ \A c \in row.recovery : c[1] = "recovery" /\ c[2] <= sets

\* What is on was confirmed, and not before a secret was generated.
Confirmed(row) ==
  /\ row.secret <= secrets
  /\ row.enabled => row.secret # 0 /\ row.secret \in proven

\* What a request has read and found is so until it writes.
StillSo(r, row) ==
  /\ r.pc = "read" => r.op \in Ops
  /\ r.pc \in {"store", "check", "enable", "spend"} => r.seen = row
  /\ r.pc = "store" => ~row.enabled
  /\ r.pc = "check" => IF r.op = "confirm" THEN ~row.enabled /\ row.secret # 0
                       ELSE row.enabled
  /\ r.pc = "enable" => /\ ~row.enabled /\ row.secret # 0
                        /\ r.code[1] = "app" /\ r.code[2] = row.secret
  /\ r.pc = "spend" =>
       /\ row.enabled
       /\ \/ r.code \in row.recovery
          \/ /\ r.code[1] = "app" /\ r.code[2] = row.secret
             /\ row.lastStep = None \/ r.code[3] > row.lastStep

Alone == \A p, q \in Requests : req[p].pc # "idle" /\ req[q].pc # "idle" => p = q

CalmInv ==
  /\ Alone /\ ~again /\ SpentCodes(user) /\ Confirmed(user)
  /\ \A q \in Requests : StillSo(req[q], user)
CodeInv == CodeTypes /\ (calm => CalmInv)
LEMMA CodeFacts ==
  /\ Wrong \in Codes
  /\ \A secret, step \in Nat :
       /\ AppCode(secret, step) \in Codes
       /\ AppCode(secret, step)[1] = "app"
  /\ \A set \in Nat : \A c \in RecoveryCodes(set) :
       c \in Codes /\ c[1] = "recovery" /\ c[2] = set
<1>1. CodeCount \in Nat OBVIOUS
<1> QED BY <1>1 DEF Codes, Wrong, AppCode, RecoveryCodes

LEMMA OffType == Off \in UserRow
  BY DEF Off, UserRow

LEMMA IdleType == Idle \in Slot /\ Idle.pc = "idle"
  BY CodeFacts, OffType DEF Idle, Slot

LEMMA IdleSo == \A row : StillSo(Idle, row)
  BY IdleType DEF StillSo

\* One request goes on, or begins or ends, and nothing else changes.
LEMMA SlotMoves ==
  ASSUME CodeInv, UNCHANGED <<calm, user, secrets, sets, accepted, again, proven>>,
         now' \in Nat, NEW q \in Requests, NEW s \in Slot, req' = [req EXCEPT ![q] = s],
         calm => /\ StillSo(s, user)
                 /\ s.pc # "idle" => \A p \in Requests : p # q => req[p].pc = "idle"
  PROVE  CodeInv'
<1>1. req \in [Requests -> Slot] BY DEF CodeInv, CodeTypes
<1>2. req' \in [Requests -> Slot] /\ req'[q] = s /\ \A p \in Requests : p # q => req'[p] = req[p]
    BY <1>1
<1>3. CodeTypes' BY <1>2 DEF CodeInv, CodeTypes
<1>4. ASSUME calm PROVE CalmInv'
  <2>1. CalmInv /\ StillSo(s, user) BY <1>4 DEF CodeInv
  <2>2. Alone'
    <3>1. CASE s.pc = "idle" BY <1>2, <2>1, <3>1 DEF CalmInv, Alone
    <3>2. CASE s.pc # "idle" BY <1>2, <1>4, <3>2 DEF Alone
    <3> QED BY <3>1, <3>2
  <2>3. ~again' /\ SpentCodes(user)' /\ Confirmed(user)'
    BY <2>1 DEF CalmInv, SpentCodes, Confirmed
  <2>4. \A p \in Requests : StillSo(req'[p], user) BY <1>2, <2>1 DEF CalmInv
  <2>5. \A p \in Requests : StillSo(req'[p], user') BY <2>4
  <2> QED BY <2>2, <2>3, <2>5 DEF CalmInv
<1> QED BY <1>3, <1>4 DEF CodeInv

\* One request writes the row and ends, or goes on to turn it off.
LEMMA SlotWrites ==
  ASSUME CodeInv, calm' = calm, CodeTypes', NEW q \in Requests, req[q].pc # "idle",
         NEW s \in Slot, s.pc \in {"idle", "off"}, req' = [req EXCEPT ![q] = s],
         calm => ~again' /\ SpentCodes(user)' /\ Confirmed(user)'
  PROVE  CodeInv'
<1>1. req \in [Requests -> Slot] BY DEF CodeInv, CodeTypes
<1>2. req'[q] = s /\ \A p \in Requests : p # q => req'[p] = req[p]
    BY <1>1
<1>3. ASSUME calm PROVE CalmInv'
  <2>1. CalmInv BY <1>3 DEF CodeInv
  <2>2. \A p \in Requests : p # q => req[p].pc = "idle" BY <2>1 DEF CalmInv, Alone
  <2>3. Alone' BY <1>2, <2>2 DEF Alone
  <2>4. \A p \in Requests : req'[p].pc \in {"idle", "off"} BY <1>2, <2>2
  <2>5. \A p \in Requests : StillSo(req[p], user)' BY <2>4 DEF StillSo
  <2> QED BY <1>3, <2>3, <2>5 DEF CalmInv
<1> QED BY <1>3 DEF CodeInv

\* What is typed is a code.
LEMMA TypedCodes == ASSUME CodeInv PROVE Typed \subseteq Codes
<1>1. now \in Nat /\ secrets \in Nat /\ sets \in Nat BY DEF CodeInv, CodeTypes
<1>2. \A n \in Window : n \in Nat BY <1>1 DEF Window
<1> QED BY <1>1, <1>2, CodeFacts DEF Typed

LEMMA BeginCodes == ASSUME CodeInv, UNCHANGED calm, NEW q \in Requests, Begin(q) PROVE CodeInv'
<1>1. /\ calm => \A p \in Requests : req[p].pc = "idle"
      /\ UNCHANGED <<now, user, secrets, sets, accepted, again, proven>>
    BY DEF Begin
<1>2. now' \in Nat BY <1>1 DEF CodeInv, CodeTypes
<1>3. PICK s \in Slot : s.pc = "read" /\ s.op \in Ops /\ req' = [req EXCEPT ![q] = s]
  <2>1. CASE req' = [req EXCEPT ![q] = [Idle EXCEPT !.pc = "read", !.op = "setup"]]
    <3>1. PICK s : s = [Idle EXCEPT !.pc = "read", !.op = "setup"] OBVIOUS
    <3>2. s \in Slot /\ s.pc = "read" /\ s.op \in Ops BY <3>1, IdleType DEF Slot, Ops
    <3> QED BY <2>1, <3>1, <3>2
  <2>2. ASSUME NEW op \in {"confirm", "login", "disable"}, NEW code \in Typed,
               req' = [req EXCEPT ![q] = [Idle EXCEPT !.pc = "read", !.op = op, !.code = code]]
        PROVE  \E s \in Slot : s.pc = "read" /\ s.op \in Ops /\ req' = [req EXCEPT ![q] = s]
    <3>1. PICK s : s = [Idle EXCEPT !.pc = "read", !.op = op, !.code = code] OBVIOUS
    <3>2. code \in Codes /\ op \in Ops BY TypedCodes DEF Ops
    <3>3. s \in Slot /\ s.pc = "read" /\ s.op = op BY <3>1, <3>2, IdleType DEF Slot
    <3> QED BY <2>2, <3>1, <3>2, <3>3
  <2> QED BY <2>1, <2>2 DEF Begin
<1>4. StillSo(s, user) BY <1>3 DEF StillSo
<1> QED BY <1>1, <1>2, <1>3, <1>4, SlotMoves

\* In a calm behaviour the request that acts is alone.
LEMMA OthersIdle ==
  ASSUME CodeInv, NEW q \in Requests, req[q].pc # "idle"
  PROVE  /\ req[q] \in Slot
         /\ calm => /\ CalmInv /\ StillSo(req[q], user)
                    /\ \A p \in Requests : p # q => req[p].pc = "idle"
<1>1. req[q] \in Slot BY DEF CodeInv, CodeTypes
<1>2. ASSUME calm PROVE CalmInv BY <1>2 DEF CodeInv
<1> QED BY <1>1, <1>2 DEF CalmInv, Alone

LEMMA EndCodes ==
  ASSUME CodeInv, UNCHANGED <<calm, user, secrets, sets, accepted, again, proven, now>>,
         NEW q \in Requests, Finish(q)
  PROVE  CodeInv'
<1>1. now' \in Nat BY DEF CodeInv, CodeTypes
<1>2. req' = [req EXCEPT ![q] = Idle] BY DEF Finish
<1> QED BY <1>1, <1>2, IdleType, IdleSo, SlotMoves

LEMMA ReadCodes == ASSUME CodeInv, UNCHANGED calm, NEW q \in Requests, Read(q) PROVE CodeInv'
<1>1. /\ req[q].pc = "read" /\ UNCHANGED <<now, user, secrets, sets, accepted, again, proven>>
      /\ now \in Nat /\ user \in UserRow
    BY DEF Read, CodeInv, CodeTypes
<1>2. PICK op : op = req[q].op OBVIOUS
<1>3. PICK refused : refused = (\/ op \in {"setup", "confirm"} /\ user.enabled
                                \/ op = "confirm" /\ user.secret = 0
                                \/ op \in {"login", "disable"} /\ ~user.enabled)
    OBVIOUS
<1>4. CASE refused
  <2>1. Finish(q) BY <1>2, <1>3, <1>4 DEF Read
  <2> QED BY <1>1, <2>1, EndCodes
<1>5. CASE ~refused
  <2>1. PICK pc : pc = IF op = "setup" THEN "store" ELSE "check" OBVIOUS
  <2>2. req' = [req EXCEPT ![q].seen = user, ![q].pc = pc]
      BY <1>2, <1>3, <1>5, <2>1 DEF Read
  <2>3. req[q] \in Slot /\ req \in [Requests -> Slot]
      BY DEF CodeInv, CodeTypes
  <2>4. PICK s : s = [req[q] EXCEPT !.seen = user, !.pc = pc] OBVIOUS
  <2>5. req' = [req EXCEPT ![q] = s] BY <2>2, <2>3, <2>4
  <2>6. pc \in {"store", "check"} BY <2>1
  <2>7. s \in Slot /\ s.seen = user /\ s.pc = pc /\ s.op = op
      BY <1>1, <1>2, <2>3, <2>4, <2>6 DEF Slot
  <2>8. calm => /\ op \in Ops /\ \A p \in Requests : p # q => req[p].pc = "idle"
      BY <1>1, <1>2, OthersIdle DEF StillSo
  <2>9. calm => StillSo(s, user)
    <3> SUFFICES ASSUME op \in Ops PROVE StillSo(s, user) BY <2>8
    <3>1. CASE op = "setup" BY <1>3, <1>5, <2>1, <2>7, <3>1 DEF StillSo
    <3>2. CASE op = "confirm" BY <1>3, <1>5, <2>1, <2>7, <3>2 DEF StillSo
    <3>3. CASE op \in {"login", "disable"} BY <1>3, <1>5, <2>1, <2>7, <3>3 DEF StillSo
    <3> QED BY <3>1, <3>2, <3>3 DEF Ops
  <2> QED BY <1>1, <2>5, <2>7, <2>8, <2>9, SlotMoves
<1> QED BY <1>3, <1>4, <1>5

\* A new secret is one no code was of.
LEMMA StoreCodes ==
  ASSUME CodeInv, UNCHANGED calm, NEW q \in Requests, StoreSecret(q) PROVE CodeInv'
<1>1. /\ req[q].pc = "store" /\ secrets' = secrets + 1
      /\ user' = [user EXCEPT !.secret = secrets + 1, !.lastStep = None]
      /\ req' = [req EXCEPT ![q] = Idle]
      /\ UNCHANGED <<now, sets, accepted, again, proven>>
    BY DEF StoreSecret, Finish
<1>2. secrets \in Nat /\ user \in UserRow /\ req \in [Requests -> Slot] /\ accepted \in SUBSET Codes
    BY DEF CodeInv, CodeTypes
<1>3. /\ user' \in UserRow /\ user'.secret = secrets + 1 /\ user'.enabled = user.enabled
      /\ user'.recovery = user.recovery
  <2>1. PICK n \in Nat : n = secrets + 1 BY <1>2
  <2>2. user' = [user EXCEPT !.secret = n, !.lastStep = None] BY <1>1, <2>1
  <2>3. user' \in UserRow BY <1>2, <2>2 DEF UserRow
  <2>4. user'.secret = n /\ user'.recovery = user.recovery BY <1>2, <2>2 DEF UserRow
  <2>5. user'.enabled = user.enabled BY <1>2, <2>2 DEF UserRow
  <2> QED BY <2>1, <2>3, <2>4, <2>5
<1>4. req' \in [Requests -> Slot] BY <1>1, <1>2, IdleType
<1>5. CodeTypes' BY <1>1, <1>3, <1>4 DEF CodeInv, CodeTypes
<1>6. ASSUME calm PROVE ~again' /\ SpentCodes(user)' /\ Confirmed(user)'
  <2>1. CalmInv /\ ~user.enabled BY <1>1, <1>6, OthersIdle DEF StillSo
  <2>2. \A c \in accepted : c[1] = "app" =>
          c[2] \in Nat /\ 1 <= c[2] /\ c[2] <= secrets' /\ c[2] # user'.secret
    <3> SUFFICES ASSUME NEW c \in accepted, c[1] = "app"
                 PROVE  c[2] \in Nat /\ 1 <= c[2] /\ c[2] <= secrets' /\ c[2] # user'.secret
        OBVIOUS
    <3>1. c[2] \in Nat BY <1>2 DEF Codes
    <3>2. 1 <= c[2] /\ c[2] <= secrets BY <2>1 DEF CalmInv, SpentCodes
    <3> QED BY <1>1, <1>2, <1>3, <3>1, <3>2
  <2>3. SpentCodes(user)' BY <1>1, <1>3, <2>1, <2>2 DEF CalmInv, SpentCodes
  <2>4. Confirmed(user)' BY <1>1, <1>2, <1>3, <2>1 DEF Confirmed
  <2> QED BY <1>1, <2>1, <2>3, <2>4 DEF CalmInv
<1> QED BY <1>1, <1>5, <1>6, IdleType, SlotWrites
\* The factor of a code is looked at before anything is written.
LEMMA CheckCodes == ASSUME CodeInv, UNCHANGED calm, NEW q \in Requests, Check(q) PROVE CodeInv'
<1>1. /\ req[q].pc = "check" /\ UNCHANGED <<now, user, secrets, sets, accepted, again, proven>>
      /\ now \in Nat /\ user \in UserRow
    BY DEF Check, CodeInv, CodeTypes
<1>2. \/ Finish(q)
      \/ req[q].op = "confirm" /\ Verifies(req[q].seen, req[q].code) /\ Goto(q, "enable")
      \/ req[q].op # "confirm" /\ Right(req[q].seen, req[q].code) /\ Goto(q, "spend")
    BY Zenon DEF Check
<1>3. CASE Finish(q) BY <1>1, <1>3, EndCodes
<1>4. ASSUME NEW pc \in {"enable", "spend"}, Goto(q, pc),
             calm => StillSo([req[q] EXCEPT !.pc = pc], user)
      PROVE  CodeInv'
  <2>1. req[q] \in Slot /\ req \in [Requests -> Slot] BY DEF CodeInv, CodeTypes
  <2>2. PICK s : s = [req[q] EXCEPT !.pc = pc] OBVIOUS
  <2>3. s \in Slot BY <2>1, <2>2 DEF Slot
  <2>4. req' = [req EXCEPT ![q] = s] BY <1>4, <2>1, <2>2 DEF Goto
  <2>5. calm => \A p \in Requests : p # q => req[p].pc = "idle" BY <1>1, OthersIdle
  <2> QED BY <1>1, <1>4, <2>2, <2>3, <2>4, <2>5, SlotMoves
<1>5. CASE req[q].op = "confirm" /\ Verifies(req[q].seen, req[q].code) /\ Goto(q, "enable")
  <2>1. PICK s : s = [req[q] EXCEPT !.pc = "enable"] OBVIOUS
  <2>2. /\ req[q] \in Slot /\ s.pc = "enable" /\ s.op = req[q].op /\ s.code = req[q].code
        /\ s.seen = req[q].seen
      BY <1>1, <2>1, OthersIdle DEF Slot
  <2>3. ASSUME calm PROVE StillSo(s, user)
    <3>1. req[q].seen = user /\ ~user.enabled /\ user.secret # 0
        BY <1>1, <1>5, <2>3, OthersIdle DEF StillSo
    <3>2. s.code[1] = "app" /\ s.code[2] = user.secret
        BY <1>5, <2>2, <3>1 DEF Verifies
    <3> QED BY <2>2, <3>1, <3>2 DEF StillSo
  <2> QED BY <1>4, <1>5, <2>1, <2>3
<1>6. CASE req[q].op # "confirm" /\ Right(req[q].seen, req[q].code) /\ Goto(q, "spend")
  <2>1. PICK s : s = [req[q] EXCEPT !.pc = "spend"] OBVIOUS
  <2>2. /\ req[q] \in Slot /\ s.pc = "spend" /\ s.op = req[q].op /\ s.code = req[q].code
        /\ s.seen = req[q].seen
      BY <1>1, <2>1, OthersIdle DEF Slot
  <2>3. ASSUME calm PROVE StillSo(s, user)
    <3>1. req[q].seen = user /\ user.enabled
        BY <1>1, <1>6, <2>3, OthersIdle DEF StillSo
    <3>2. Right(user, s.code) BY <1>6, <2>2, <3>1
    <3>3. \/ s.code \in user.recovery
          \/ /\ s.code[1] = "app" /\ s.code[2] = user.secret
             /\ user.lastStep = None \/ s.code[3] > user.lastStep
        BY <3>2 DEF Right, Verifies
    <3> QED BY <2>2, <3>1, <3>3 DEF StillSo
  <2> QED BY <1>4, <1>6, <2>1, <2>3
<1> QED BY <1>2, <1>3, <1>5, <1>6

\* What a request accepts: a code as it is, and whether it was accepted before.
LEMMA AcceptTypes ==
  ASSUME CodeInv, NEW code \in Codes, Accept(code)
  PROVE  accepted' \in SUBSET Codes /\ again' \in BOOLEAN
         /\ (~again /\ code \notin accepted => ~again')
<1>1. accepted \in SUBSET Codes /\ again \in BOOLEAN BY DEF CodeInv, CodeTypes
<1> QED BY <1>1 DEF Accept

LEMMA EnableCodes ==
  ASSUME CodeInv, UNCHANGED calm, NEW q \in Requests, Enable(q) PROVE CodeInv'
<1> DEFINE code == req[q].code
<1>1. /\ req[q].pc = "enable" /\ sets' = sets + 1
      /\ user' = [user EXCEPT !.enabled = TRUE, !.lastStep = code[3],
                              !.recovery = RecoveryCodes(sets + 1)]
      /\ proven' = proven \cup {req[q].seen.secret} /\ Accept(code)
      /\ req' = [req EXCEPT ![q] = Idle]
      /\ UNCHANGED <<now, secrets>>
    BY DEF Enable, Finish
<1>2. /\ secrets \in Nat /\ sets \in Nat /\ user \in UserRow /\ req \in [Requests -> Slot]
      /\ accepted \in SUBSET Codes /\ proven \in SUBSET Nat /\ req[q] \in Slot
    BY DEF CodeInv, CodeTypes
<1>3. code \in Codes /\ req[q].seen.secret \in Nat /\ code[3] \in Nat
    BY <1>2 DEF Slot, UserRow, Codes
<1>4. PICK n \in Nat : n = sets + 1 BY <1>2
<1>5. \A c \in RecoveryCodes(n) : c \in Codes /\ c[1] = "recovery" /\ c[2] = n
    BY CodeFacts
<1>6. user' = [user EXCEPT !.enabled = TRUE, !.lastStep = code[3], !.recovery = RecoveryCodes(n)]
    BY <1>1, <1>4
<1>7. /\ user' \in UserRow /\ user'.secret = user.secret /\ user'.enabled
      /\ user'.lastStep = code[3] /\ user'.recovery = RecoveryCodes(n)
  <2>1. user' \in UserRow /\ user'.secret = user.secret /\ user'.enabled = TRUE
      BY <1>2, <1>3, <1>5, <1>6 DEF UserRow
  <2>2. user'.lastStep = code[3] /\ user'.recovery = RecoveryCodes(n)
      BY <1>2, <1>6 DEF UserRow
  <2> QED BY <2>1, <2>2
<1> HIDE DEF code
<1>8. accepted' \in SUBSET Codes /\ again' \in BOOLEAN
      /\ (~again /\ code \notin accepted => ~again')
    BY <1>1, <1>3, AcceptTypes
<1>9. req' \in [Requests -> Slot] BY <1>1, <1>2, IdleType
<1>10. CodeTypes' BY <1>1, <1>2, <1>3, <1>4, <1>7, <1>8, <1>9 DEF CodeInv, CodeTypes
<1>11. ASSUME calm PROVE ~again' /\ SpentCodes(user)' /\ Confirmed(user)'
  <2>1. CalmInv /\ req[q].seen = user /\ ~user.enabled /\ user.secret # 0
        /\ code[1] = "app" /\ code[2] = user.secret
      BY <1>1, <1>11, OthersIdle DEF StillSo, code
  <2>2. user.secret \in Nat /\ user.secret <= secrets
      BY <1>2, <2>1 DEF UserRow, CalmInv, Confirmed
  <2>3. \A c \in accepted : ~(c[1] = "app" /\ c[2] = user.secret)
      BY <2>1 DEF CalmInv, SpentCodes
  <2>4. ~again' BY <1>8, <2>1, <2>3 DEF CalmInv
  <2>5. accepted' = accepted \cup {code} BY <1>1 DEF Accept
  <2>6. ASSUME NEW c \in accepted'
        PROVE  /\ c[1] = "app" => 1 <= c[2] /\ c[2] <= secrets
               /\ c[1] = "app" /\ c[2] = user.secret => c[3] <= code[3]
               /\ c[1] = "recovery" => c[2] <= sets
    <3>1. CASE c \in accepted BY <2>1, <2>3, <3>1 DEF CalmInv, SpentCodes
    <3>2. CASE c = code
      <4>1. 1 <= user.secret BY <2>1, <2>2
      <4> QED BY <1>3, <2>1, <2>2, <3>2, <4>1
    <3> QED BY <2>5, <2>6, <3>1, <3>2
  <2>7. ASSUME NEW c \in accepted'
        PROVE  /\ c[1] = "recovery" => c[2] <= sets'
               /\ c \notin user'.recovery
    <3>1. c \in Codes BY <1>8
    <3>2. c[1] = "recovery" => c[2] \in Nat /\ c[2] <= sets /\ c[2] < n
        BY <1>2, <1>4, <2>6, <3>1 DEF Codes
    <3>3. c \in RecoveryCodes(n) => c[1] = "recovery" /\ c[2] = n BY <1>5
    <3> QED BY <1>1, <1>2, <1>4, <1>7, <3>2, <3>3
  <2>8. code[3] # None BY <1>3
  <2>9. SpentCodes(user)'
    <3>1. \A c \in user'.recovery : c[1] = "recovery" /\ c[2] <= sets'
        BY <1>1, <1>4, <1>5, <1>7
    <3> QED BY <1>1, <1>7, <2>6, <2>7, <2>8, <3>1 DEF SpentCodes
  <2>10. Confirmed(user)' BY <1>1, <1>7, <2>1, <2>2 DEF Confirmed
  <2> QED BY <2>4, <2>9, <2>10
<1> QED BY <1>1, <1>10, <1>11, IdleType, SlotWrites
\* What is spent leaves the row, or is older than the last step.
LEMMA SpendCodes ==
  ASSUME CodeInv, UNCHANGED calm, NEW q \in Requests, Spend(q) PROVE CodeInv'
<1> DEFINE code == req[q].code
<1>1. req[q].pc = "spend" /\ UNCHANGED <<now, secrets, sets, proven>> BY DEF Spend
<1>2. /\ secrets \in Nat /\ sets \in Nat /\ user \in UserRow /\ req \in [Requests -> Slot]
      /\ accepted \in SUBSET Codes /\ req[q] \in Slot
      /\ code \in Codes /\ code[3] \in Nat /\ req[q].seen.recovery \in SUBSET Codes
    BY DEF CodeInv, CodeTypes, Slot, UserRow, Codes
<1>3. ASSUME NEW row \in UserRow, user' = row, Granted(q),
             calm => /\ code \notin accepted /\ row.secret = user.secret /\ row.enabled
                     /\ \A c \in row.recovery : c \in user.recovery /\ c # code
                     /\ code[1] = "recovery" => code[2] <= sets
                     /\ code[1] = "recovery" => row.lastStep = user.lastStep
                     /\ code[1] # "recovery" =>
                          /\ code[1] = "app" /\ code[2] = user.secret
                          /\ row.lastStep = code[3]
                          /\ user.lastStep = None \/ code[3] > user.lastStep
      PROVE  CodeInv'
  <2>1. Accept(code) /\ (Goto(q, "off") \/ Finish(q)) BY <1>3 DEF Granted
  <2>2. accepted' \in SUBSET Codes /\ again' \in BOOLEAN
        /\ (~again /\ code \notin accepted => ~again')
      BY <1>2, <2>1, AcceptTypes
  <2>3. PICK s \in Slot : s.pc \in {"idle", "off"} /\ req' = [req EXCEPT ![q] = s]
    <3>1. CASE Finish(q) BY <3>1, IdleType DEF Finish
    <3>2. CASE Goto(q, "off")
      <4>1. PICK s : s = [req[q] EXCEPT !.pc = "off"] OBVIOUS
      <4>2. s \in Slot /\ s.pc = "off" BY <1>2, <4>1 DEF Slot
      <4>3. req' = [req EXCEPT ![q] = s] BY <1>2, <3>2, <4>1 DEF Goto
      <4> QED BY <4>2, <4>3
    <3> QED BY <2>1, <3>1, <3>2
  <2>4. req' \in [Requests -> Slot] BY <1>2, <2>3
  <2>5. CodeTypes' BY <1>1, <1>3, <2>2, <2>4 DEF CodeInv, CodeTypes
  <2>6. ASSUME calm PROVE ~again' /\ SpentCodes(user)' /\ Confirmed(user)'
    <3>1. CalmInv /\ user.enabled BY <1>1, <2>6, OthersIdle DEF StillSo
    <3>2. ~again' BY <1>3, <2>2, <2>6, <3>1 DEF CalmInv
    <3>3. Confirmed(user)' BY <1>1, <1>3, <2>6, <3>1 DEF CalmInv, Confirmed
    <3>4. accepted' = accepted \cup {code} BY <2>1 DEF Accept
    <3>5. /\ row.secret = user.secret /\ row.enabled
          /\ user.secret \in Nat /\ 1 <= user.secret /\ user.secret <= secrets
      <4>1. user.secret \in Nat /\ user.secret # 0 /\ user.secret <= secrets
          BY <1>2, <3>1 DEF UserRow, CalmInv, Confirmed
      <4> QED BY <1>3, <2>6, <4>1
    <3>6. ASSUME NEW c \in accepted
          PROVE  /\ c[1] = "app" => 1 <= c[2] /\ c[2] <= secrets
                 /\ c[1] = "app" /\ c[2] = row.secret => row.lastStep # None /\ c[3] <= row.lastStep
                 /\ c[1] = "recovery" => c[2] <= sets
                 /\ c \notin row.recovery
      <4>1. /\ c[1] = "app" => 1 <= c[2] /\ c[2] <= secrets
            /\ c[1] = "app" /\ c[2] = user.secret => user.lastStep # None /\ c[3] <= user.lastStep
            /\ c[1] = "recovery" => c[2] <= sets
            /\ c \notin user.recovery
          BY <3>1 DEF CalmInv, SpentCodes
      <4>2. c \notin row.recovery BY <1>3, <2>6, <4>1
      <4>3. c[3] \in Nat BY <1>2 DEF Codes
      <4>4. ASSUME c[1] = "app", c[2] = row.secret
            PROVE  row.lastStep # None /\ c[3] <= row.lastStep
        <5>1. user.lastStep # None /\ c[3] <= user.lastStep BY <3>5, <4>1, <4>4
        <5>2. user.lastStep \in Nat BY <1>2, <5>1 DEF UserRow
        <5>3. CASE code[1] = "recovery" BY <1>3, <2>6, <5>1, <5>3
        <5>4. CASE code[1] # "recovery"
          <6>1. row.lastStep = code[3] /\ code[3] > user.lastStep
              BY <1>3, <2>6, <5>1, <5>4
          <6> QED BY <1>2, <4>3, <5>1, <5>2, <6>1
        <5> QED BY <5>3, <5>4
      <4> QED BY <4>1, <4>2, <4>4
    <3>7. /\ code[1] = "app" => 1 <= code[2] /\ code[2] <= secrets
          /\ code[1] = "app" /\ code[2] = row.secret => row.lastStep # None /\ code[3] <= row.lastStep
          /\ code[1] = "recovery" => code[2] <= sets
          /\ code \notin row.recovery
      <4>1. CASE code[1] = "recovery" BY <1>3, <2>6, <4>1
      <4>2. CASE code[1] # "recovery"
        <5>1. code[2] = user.secret /\ row.lastStep = code[3] BY <1>3, <2>6, <4>2
        <5>2. code[3] # None /\ code[3] <= code[3] BY <1>2
        <5> QED BY <1>3, <2>6, <3>5, <4>2, <5>1, <5>2
      <4> QED BY <4>1, <4>2
    <3>8. \A c \in row.recovery : c[1] = "recovery" /\ c[2] <= sets
        BY <1>3, <2>6, <3>1 DEF CalmInv, SpentCodes
    <3>9. SpentCodes(user)' BY <1>1, <1>3, <3>4, <3>5, <3>6, <3>7, <3>8 DEF SpentCodes
    <3> QED BY <3>2, <3>3, <3>9
  <2> QED BY <1>1, <2>3, <2>5, <2>6, SlotWrites
<1>4. calm => /\ CalmInv /\ req[q].seen = user /\ user.enabled
              /\ \/ code \in user.recovery
                 \/ /\ code[1] = "app" /\ code[2] = user.secret
                    /\ user.lastStep = None \/ code[3] > user.lastStep
    BY <1>1, OthersIdle DEF StillSo
<1>5. calm => \A c \in user.recovery : c \notin accepted /\ c[1] = "recovery" /\ c[2] <= sets
    BY <1>4 DEF CalmInv, SpentCodes
<1>6. CASE code[1] = "app" /\ Granted(q) /\ user' = [user EXCEPT !.lastStep = code[3]]
  <2>1. PICK row : row = [user EXCEPT !.lastStep = code[3]] OBVIOUS
  <2>2. row \in UserRow /\ row.secret = user.secret /\ row.enabled = user.enabled
        /\ row.recovery = user.recovery /\ row.lastStep = code[3]
      BY <1>2, <2>1 DEF UserRow
  <2>3. ASSUME calm PROVE code \notin accepted
    <3>1. code[2] = user.secret /\ (user.lastStep = None \/ code[3] > user.lastStep)
        BY <1>4, <1>5, <1>6, <2>3
    <3>2. code \in accepted => user.lastStep # None /\ code[3] <= user.lastStep
        BY <1>4, <1>6, <2>3, <3>1 DEF CalmInv, SpentCodes
    <3>3. user.lastStep # None => user.lastStep \in Nat BY <1>2 DEF UserRow
    <3> QED BY <1>2, <3>1, <3>2, <3>3
  <2>4. calm => \A c \in user.recovery : c # code BY <1>5, <1>6
  <2> HIDE DEF code
  <2> QED BY <1>3, <1>4, <1>5, <1>6, <2>1, <2>2, <2>3, <2>4
<1>7. CASE /\ code \in user.recovery /\ Granted(q)
           /\ user' = [user EXCEPT !.recovery = req[q].seen.recovery \ {code}]
  <2>1. PICK row : row = [user EXCEPT !.recovery = req[q].seen.recovery \ {code}] OBVIOUS
  <2>2. row \in UserRow /\ row.secret = user.secret /\ row.enabled = user.enabled
        /\ row.recovery = req[q].seen.recovery \ {code} /\ row.lastStep = user.lastStep
      BY <1>2, <2>1 DEF UserRow
  <2>3. calm => /\ code \notin accepted /\ code[1] = "recovery" /\ code[2] <= sets
                /\ row.recovery = user.recovery \ {code} /\ row.enabled
      BY <1>4, <1>5, <1>7, <2>2
  <2> HIDE DEF code
  <2> QED BY <1>3, <1>7, <2>1, <2>2, <2>3
<1>8. CASE Finish(q) /\ user' = user /\ accepted' = accepted /\ again' = again
    BY <1>1, <1>8, EndCodes
<1>9. \/ code[1] = "app" /\ Granted(q) /\ user' = [user EXCEPT !.lastStep = code[3]]
      \/ /\ code \in user.recovery /\ Granted(q)
         /\ user' = [user EXCEPT !.recovery = req[q].seen.recovery \ {code}]
      \/ Finish(q) /\ user' = user /\ accepted' = accepted /\ again' = again
    BY Zenon DEF Spend, code
<1> QED BY <1>6, <1>7, <1>8, <1>9

LEMMA TurnOffCodes ==
  ASSUME CodeInv, UNCHANGED calm, NEW q \in Requests, TurnOff(q) PROVE CodeInv'
<1>1. /\ req[q].pc = "off" /\ user' = Off /\ req' = [req EXCEPT ![q] = Idle]
      /\ UNCHANGED <<now, secrets, sets, accepted, again, proven>>
    BY DEF TurnOff, Finish
<1>2. req' \in [Requests -> Slot] BY <1>1, IdleType DEF CodeInv, CodeTypes
<1>3. CodeTypes' BY <1>1, <1>2, OffType DEF CodeInv, CodeTypes
<1>4. ASSUME calm PROVE ~again' /\ SpentCodes(user)' /\ Confirmed(user)'
  <2>1. CalmInv BY <1>4 DEF CodeInv
  <2>2. Off.secret = 0 /\ ~Off.enabled /\ Off.recovery = {} BY DEF Off
  <2>3. \A c \in accepted : c[1] = "app" => c[2] # 0
    <3>1. \A c \in accepted : c[1] = "app" => 1 <= c[2] BY <2>1 DEF CalmInv, SpentCodes
    <3> QED BY <3>1
  <2>4. SpentCodes(user)' BY <1>1, <2>1, <2>2, <2>3 DEF CalmInv, SpentCodes
  <2>5. secrets \in Nat BY DEF CodeInv, CodeTypes
  <2>6. Confirmed(user)' BY <1>1, <2>2, <2>5 DEF Confirmed
  <2> QED BY <1>1, <2>1, <2>4, <2>6 DEF CalmInv
<1> QED BY <1>1, <1>3, <1>4, IdleType, SlotWrites

LEMMA CodeInit == Init => CodeInv
<1> SUFFICES ASSUME Init PROVE CodeInv
    OBVIOUS
<1>1. CodeTypes
  <2>1. req \in [Requests -> Slot] BY IdleType DEF Init
  <2> QED BY <2>1, OffType DEF Init, CodeTypes
<1>2. \A q \in Requests : req[q] = Idle BY DEF Init
<1>3. Alone /\ \A q \in Requests : StillSo(req[q], user) BY <1>2, IdleType, IdleSo DEF Alone
<1>4. SpentCodes(user) /\ Confirmed(user) BY DEF Init, Off, SpentCodes, Confirmed
<1> QED BY <1>1, <1>3, <1>4 DEF Init, CodeInv, CalmInv

LEMMA CodeNext == CodeInv /\ [Next]_vars => CodeInv'
<1> SUFFICES ASSUME CodeInv, [Next]_vars PROVE CodeInv'
    OBVIOUS
<1>1. CASE UNCHANGED vars
    BY <1>1 DEF vars, CodeInv, CodeTypes, CalmInv, Alone, SpentCodes, Confirmed
<1>2. ASSUME NEW q \in Requests, UNCHANGED calm, Break(q) PROVE CodeInv'
    BY <1>2, EndCodes DEF Break
<1>3. ASSUME Restart, UNCHANGED calm PROVE CodeInv'
  <2>1. /\ req' = [q \in Requests |-> Idle]
        /\ UNCHANGED <<now, user, secrets, sets, accepted, again, proven>>
      BY <1>3 DEF Restart
  <2>2. req' \in [Requests -> Slot] /\ \A q \in Requests : req'[q] = Idle
      BY <2>1, IdleType
  <2>3. CodeTypes' BY <1>3, <2>1, <2>2 DEF CodeInv, CodeTypes
  <2>4. Alone' BY <2>2, IdleType DEF Alone
  <2>5. \A q \in Requests : StillSo(req[q], user)' BY <2>2, IdleType DEF StillSo
  <2>6. CalmInv => ~again' /\ SpentCodes(user)' /\ Confirmed(user)'
      BY <2>1 DEF CalmInv, SpentCodes, Confirmed
  <2> QED BY <1>3, <2>3, <2>4, <2>5, <2>6 DEF CodeInv, CalmInv
<1>4. ASSUME Tick, UNCHANGED calm PROVE CodeInv'
  <2>1. now' \in Nat /\ UNCHANGED <<user, req, secrets, sets, accepted, again, proven>>
      BY <1>4 DEF Tick, CodeInv, CodeTypes
  <2> QED BY <1>4, <2>1 DEF CodeInv, CodeTypes, CalmInv, Alone, SpentCodes, Confirmed
<1> QED BY <1>1, <1>2, <1>3, <1>4, BeginCodes, ReadCodes, StoreCodes, CheckCodes, EnableCodes,
           SpendCodes, TurnOffCodes DEF Next, Step

\* checkCode, confirmSetup and beginSetup: where requests follow each other no code
\* is accepted twice, not even one that confirmed the setup, and what is on was
\* confirmed with the secret that is stored, whatever fails or restarts.
THEOREM CodesAreSound == Spec => []CodesSoundWhenCalm
<1>1. CodeInv => CodesSoundWhenCalm
    BY DEF CodeInv, CalmInv, Confirmed, CodesSoundWhenCalm, SpentOnce, EnabledIsProven
<1> QED BY <1>1, CodeInit, CodeNext, PTL DEF Spec
=============================================================================
