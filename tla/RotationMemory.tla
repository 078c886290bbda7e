--------------------------- MODULE RotationMemory ---------------------------
(***************************************************************************)
(* UserSessionsService.lastRotations: per session, the hash that the last  *)
(* rotation replaced and when, kept to tolerate one lost response.  A      *)
(* JavaScript Map is a function from ids to entries together with the      *)
(* insertion order of its keys, which decides who is evicted.              *)
(* Tokens are numbered in the order they are minted for their session; an  *)
(* entry is identified (the code compares object identity) by the token    *)
(* its rotation installed.                                                 *)
(***************************************************************************)
EXTENDS SessionState

CONSTANTS
  GraceWindow,      \* GRACE_WINDOW_MS
  MaxGraceEntries   \* MAX_GRACE_ENTRIES

ASSUME MemoryAssumption == GraceWindow \in Nat /\ MaxGraceEntries \in Nat \ {0}

VARIABLES
  lastRotations,    \* [Sessions -> RotationEntry or None]
  rotationOrder     \* {<<a, b>> : key a was inserted before key b}

memoryVars == <<lastRotations, rotationOrder>>

RotationEntry ==
  [previousHash : Nat, rotatedAt : Nat, graceSpent : BOOLEAN,
   userId : Users, installed : Nat]

EmptyRotations == [s \in Sessions |-> None]

\* Is token t, which is not the current one, the one the last rotation
\* replaced, inside the window, and was that rotation not a tolerated one?
IsGraceRetryChained(s, t, at) ==                            \* a mutant
  LET m == lastRotations[s] IN
  /\ m # None
  /\ m.rotatedAt <= at
  /\ at - m.rotatedAt <= GraceWindow
  /\ m.previousHash = t
IsGraceRetry(s, t, at) ==
  LET m == lastRotations[s] IN
  /\ m # None
  /\ ~m.graceSpent
  /\ m.rotatedAt <= at
  /\ at - m.rotatedAt <= GraceWindow
  /\ m.previousHash = t

Remembered == {s \in Sessions : lastRotations[s] # None}

\* The order once the keys of S are gone, and once key s goes to the end.
Dropped(S) == {p \in rotationOrder : p[1] \notin S /\ p[2] \notin S}
MovedToEnd(s, S) ==
  Dropped(S \cup {s}) \cup ((Remembered \ (S \cup {s})) \X {s})

Forget(S) ==
  /\ lastRotations' = [s \in Sessions |->
                         IF s \in S THEN None ELSE lastRotations[s]]
  /\ rotationOrder' = Dropped(S)

\* The keys that leave for session s to be inserted: the oldest of the
\* others, as many as it takes for the Map to be below its limit.
Elders(k, others) == {x \in others : <<x, k>> \in rotationOrder}
EvictedTooFew(s) ==                                         \* a mutant
  LET others == Remembered \ {s}
  IN  {k \in others : Cardinality(Elders(k, others)) <
                        Cardinality(others) - MaxGraceEntries}
Evicted(s) ==
  LET others == Remembered \ {s}
  IN  {k \in others : Cardinality(Elders(k, others)) <
                        Cardinality(others) - MaxGraceEntries + 1}

RememberRotation(s, entry) ==
  /\ lastRotations' = [x \in Sessions |->
                         IF x = s THEN entry
                         ELSE IF x \in Evicted(s) THEN None
                         ELSE lastRotations[x]]
  /\ rotationOrder' = MovedToEnd(s, Evicted(s))

\* After a failed transaction the entry that was there before comes back,
\* unless the current entry is no longer the one this rotation wrote.
UndoRotation(s, installed, previous) ==
  IF lastRotations[s] # None /\ lastRotations[s].installed = installed
  THEN /\ lastRotations' = [lastRotations EXCEPT ![s] = previous]
       /\ rotationOrder' = IF previous = None THEN Dropped({s})
                           ELSE MovedToEnd(s, {})
  ELSE UNCHANGED memoryVars

\* The sessions forgetRotationsOfUser drops.
RotationsOfUser(u, keep) ==
  {s \in Sessions : /\ lastRotations[s] # None
                    /\ lastRotations[s].userId = u
                    /\ s # keep}
=============================================================================
