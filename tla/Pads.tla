--------------------------------- MODULE Pads ---------------------------------
(***************************************************************************)
(* One public pad (pads.service.ts; pads do not meet) and the tabs that    *)
(* edit it (useVersionedDoc.ts, used by usePad.ts).  A save is optimistic: *)
(* it is written only over the version that the tab loaded.  A step of the *)
(* server is one statement; requests of all tabs, answers on their way and *)
(* the reactions of the tabs interleave.                                   *)
(*                                                                         *)
(* A text is a number, each new one typed being the next; 0 is the empty   *)
(* text.  `life`, `blind` and the text in a base are known to nobody in    *)
(* the code; the properties compare them with what the code relies on, the *)
(* version.                                                                *)
(***************************************************************************)
EXTENDS Integers, FiniteSets

CONSTANTS
  Editors,            \* the tabs; each its own viewer
  Accounts,           \* those with an account that may lock the pad
  Leavers,            \* those that are left or put in the background, or lose
                      \* the connection, with something unsaved
  Visible,            \* those that are looked at, or woken by a push message,
                      \* which alone poll
  None,
  MaxText, MaxLife,   \* bounds: texts typed, times the pad is created,
  MaxVersion          \* and saves of one life

ASSUME PadsAssumption ==
  /\ Accounts \subseteq Editors /\ {Leavers, Visible} \subseteq SUBSET Editors
  /\ {MaxText, MaxLife, MaxVersion} \subseteq Nat
  /\ None \notin Editors

Empty == 0
Text == Nat

\* What a tab takes for the state of the pad: the version, the text it stands
\* for, in which life of the pad, and whether its text was never shown.
Snapshot == [version : Nat, text : Text, life : Nat, blind : BOOLEAN]
Pad == [version : Nat, text : Text, life : Nat, lockedBy : Accounts \cup {None}]
Statuses == {"closed", "loading", "saved", "dirty", "saving", "conflict", "error"}
Editor == [status : Statuses, doc : Text, loaded : BOOLEAN, base : Snapshot, remote : Snapshot]
\* A save is that of the tab, or one that the tab sent and forgot.
Slots == {"flush", "left"}
Results == {"none", "saved", "conflict", "refused"}
Save == [pc : {"idle", "write", "readBack", "readCurrent", "done"}, draft : Text,
         base : Snapshot, result : Results, answer : Snapshot]
Load == [pc : {"idle", "sent", "answered"}, answer : Snapshot]

VARIABLES
  pad,       \* the row, or None
  lives,     \* how often the row was created
  typed,     \* the last text typed
  editor,    \* the tabs
  save,      \* the PUT requests of each tab and slot
  load,      \* the GET request of each tab
  locking    \* how far the lock request of each account is

vars == <<pad, lives, typed, editor, save, load, locking>>
serverVars == <<pad, lives>>

NoPad == [version |-> 0, text |-> Empty, life |-> 0, blind |-> FALSE]
NoSave == [pc |-> "idle", draft |-> Empty, base |-> NoPad, result |-> "none", answer |-> NoPad]
NoLoad == [pc |-> "idle", answer |-> NoPad]
Closed == [status |-> "closed", doc |-> Empty, loaded |-> FALSE, base |-> NoPad, remote |-> NoPad]

TypeOK ==
  /\ pad \in Pad \cup {None}
  /\ lives \in Nat /\ typed \in Nat
  /\ editor \in [Editors -> Editor]
  /\ save \in [Editors -> [Slots -> Save]]
  /\ load \in [Editors -> Load]
  /\ locking \in [Accounts -> {"idle", "lock", "look", "create"}]
  /\ pad # None => pad.version > 0 /\ pad.life = lives

Init ==
  /\ pad = None
  /\ lives = 0 /\ typed = 0
  /\ editor = [e \in Editors |-> Closed]
  /\ save = [e \in Editors |-> [s \in Slots |-> NoSave]]
  /\ load = [e \in Editors |-> NoLoad]
  /\ locking = [a \in Accounts |-> "idle"]

-----------------------------------------------------------------------------
(* The server.                                                             *)

\* toView: a pad that does not exist reads as empty, at version 0.
View ==
  IF pad = None THEN NoPad
  ELSE [version |-> pad.version, text |-> pad.text, life |-> pad.life, blind |-> FALSE]
LockedFor(e) == pad # None /\ pad.lockedBy \notin {None, e}

\* prisma.pad.create, unless there is a row with this slug.
CreateRowUnnumbered(text, locker) ==                            \* a mutant
  /\ lives < MaxLife
  /\ lives' = lives + 1
  /\ pad' = [version |-> 0, text |-> text, life |-> lives + 1, lockedBy |-> locker]
CreateRow(text, locker) ==
  /\ lives < MaxLife
  /\ lives' = lives + 1
  /\ pad' = [version |-> 1, text |-> text, life |-> lives + 1, lockedBy |-> locker]

\* updateMany { slug, version } and not locked by another.
MatchesUnlocked(e, base) == pad # None /\ pad.version = base.version    \* a mutant
Matches(e, base) == pad # None /\ pad.version = base.version /\ ~LockedFor(e)

Goto(e, s, pc) == save' = [save EXCEPT ![e][s].pc = pc]

\* save: createFirst when the tab saw no pad, updateFrom otherwise.
CreateFirst(e, s) ==
  /\ save[e][s].pc = "write" /\ save[e][s].base.version = 0
  /\ IF pad = None
     THEN /\ CreateRow(save[e][s].draft, None)
          /\ save' = [save EXCEPT ![e][s].pc = "done", ![e][s].result = "saved",
                        ![e][s].answer = [version |-> 1, text |-> save[e][s].draft,
                                          life |-> lives + 1, blind |-> FALSE]]
     ELSE Goto(e, s, "readCurrent") /\ UNCHANGED serverVars
  /\ UNCHANGED <<typed, editor, load, locking>>
UpdateFrom(e, s) ==
  /\ save[e][s].pc = "write" /\ save[e][s].base.version > 0
  /\ IF Matches(e, save[e][s].base)
     THEN /\ pad.version < MaxVersion
          /\ pad' = [pad EXCEPT !.version = @ + 1, !.text = save[e][s].draft]
          /\ Goto(e, s, "readBack")
          /\ UNCHANGED lives
     ELSE Goto(e, s, "readCurrent") /\ UNCHANGED serverVars
  /\ UNCHANGED <<typed, editor, load, locking>>

\* The answer is what a later query finds.
Respond(e, s, result) ==
  /\ save' = [save EXCEPT ![e][s].pc = "done", ![e][s].result = result, ![e][s].answer = View]
  /\ UNCHANGED <<serverVars, typed, editor, load, locking>>
ReadBack(e, s) == save[e][s].pc = "readBack" /\ Respond(e, s, "saved")
ReadCurrent(e, s) ==
  /\ save[e][s].pc = "readCurrent"
  /\ Respond(e, s, IF LockedFor(e) THEN "refused" ELSE "conflict")

\* The request is refused (a blocked source, a text too long), or it or its
\* answer is lost, at any point; one that the connection is lost under may yet
\* be carried out (Disconnect).
SaveFails(e, s) ==
  /\ save[e][s].pc \in {"write", "readBack", "readCurrent"}
  /\ save' = [save EXCEPT ![e][s].pc = "done", ![e][s].result = "refused"]
  /\ UNCHANGED <<serverVars, typed, editor, load, locking>>

\* lock: update the row if nobody locked it; else look at it, and create it
\* locked if it is not there; when that fails start again.
BeginLock(a) ==
  /\ locking[a] = "idle"
  /\ locking' = [locking EXCEPT ![a] = "lock"]
  /\ UNCHANGED <<serverVars, typed, editor, save, load>>
LockRow(a) ==
  /\ locking[a] = "lock"
  /\ IF pad # None /\ pad.lockedBy = None
     THEN /\ pad' = [pad EXCEPT !.lockedBy = a]
          /\ locking' = [locking EXCEPT ![a] = "idle"]
     ELSE locking' = [locking EXCEPT ![a] = "look"] /\ UNCHANGED pad
  /\ UNCHANGED <<lives, typed, editor, save, load>>
LookAtLock(a) ==
  /\ locking[a] = "look"
  /\ locking' = [locking EXCEPT ![a] =
                   IF pad # None /\ pad.lockedBy # None THEN "idle" ELSE "create"]
  /\ UNCHANGED <<serverVars, typed, editor, save, load>>
CreateLocked(a) ==
  /\ locking[a] = "create"
  /\ IF pad = None
     THEN CreateRow(Empty, a) /\ locking' = [locking EXCEPT ![a] = "idle"]
     ELSE locking' = [locking EXCEPT ![a] = "lock"] /\ UNCHANGED serverVars
  /\ UNCHANGED <<typed, editor, save, load>>

\* By the account that locked the pad, or by an administrator; or that account
\* is deleted.
Unlock ==
  /\ pad # None /\ pad.lockedBy # None
  /\ pad' = [pad EXCEPT !.lockedBy = None]
  /\ UNCHANGED <<lives, typed, editor, save, load, locking>>

\* The cron, after ninety days without a save, and the administrator.
DeleteExpired ==
  /\ pad # None /\ pad.lockedBy = None
  /\ pad' = None
  /\ UNCHANGED <<lives, typed, editor, save, load, locking>>
RemoveAsAdmin ==
  /\ pad # None
  /\ pad' = None
  /\ UNCHANGED <<lives, typed, editor, save, load, locking>>

\* get
ReadPad(e) ==
  /\ load[e].pc = "sent"
  /\ load' = [load EXCEPT ![e] = [pc |-> "answered", answer |-> View]]
  /\ UNCHANGED <<serverVars, typed, editor, save, locking>>

-----------------------------------------------------------------------------
(* The tab.                                                                *)

\* A tab has one GET under way: a second one shares it (dedupeGets), also one
\* of before the tab was left.
Applied(snapshot) ==
  [status |-> "saved", doc |-> snapshot.text, loaded |-> TRUE,
   base |-> snapshot, remote |-> NoPad]

Open(e) ==
  /\ editor[e].status = "closed"
  /\ editor' = [editor EXCEPT ![e].status = "loading"]
  /\ load' = IF load[e].pc = "idle" THEN [load EXCEPT ![e].pc = "sent"] ELSE load
  /\ UNCHANGED <<serverVars, typed, save, locking>>
Opened(e) ==
  /\ editor[e].status = "loading" /\ load[e].pc = "answered"
  /\ editor' = [editor EXCEPT ![e] = Applied(load[e].answer)]
  /\ load' = [load EXCEPT ![e] = NoLoad]
  /\ UNCHANGED <<serverVars, typed, save, locking>>

\* refresh: while everything is saved, look for what others wrote.
Poll(e) ==
  /\ e \in Visible /\ editor[e].status = "saved" /\ load[e].pc = "idle"
  /\ load' = [load EXCEPT ![e].pc = "sent"]
  /\ UNCHANGED <<serverVars, typed, editor, save, locking>>
NewsAbove(e) ==                                                 \* a mutant
  editor[e].status = "saved" /\ load[e].answer.version > editor[e].base.version
News(e) == editor[e].status = "saved" /\ load[e].answer.version # editor[e].base.version
Polled(e) ==
  /\ editor[e].status # "loading" /\ load[e].pc = "answered"
  /\ editor' = IF News(e) THEN [editor EXCEPT ![e] = Applied(load[e].answer)] ELSE editor
  /\ load' = [load EXCEPT ![e] = NoLoad]
  /\ UNCHANGED <<serverVars, typed, save, locking>>
LoadFails(e) ==
  /\ load[e].pc # "idle"
  /\ editor' = IF editor[e].status = "loading"
               THEN [editor EXCEPT ![e].status = "error"] ELSE editor
  /\ load' = [load EXCEPT ![e] = NoLoad]
  /\ UNCHANGED <<serverVars, typed, save, locking>>

\* change.  The textarea is read-only while the last view said that another
\* account locked the pad; the server refuses such a save whatever was typed.
Type(e) ==
  /\ editor[e].loaded /\ typed < MaxText
  /\ typed' = typed + 1
  /\ editor' = [editor EXCEPT ![e].doc = typed + 1,
                  ![e].status = IF @ \in {"conflict", "saving"} THEN @ ELSE "dirty"]
  /\ UNCHANGED <<serverVars, save, load, locking>>

\* flush, over the version loaded or over that of a conflict.
Send(e, s, base) ==
  /\ save[e][s].pc = "idle"
  /\ save' = [save EXCEPT ![e][s] = [NoSave EXCEPT !.pc = "write", !.draft = editor[e].doc,
                                                   !.base = base]]
Flush(e) ==                \* the timer after a change, or retry
  /\ editor[e].status \in {"dirty", "error"} /\ editor[e].loaded
  /\ Send(e, "flush", editor[e].base)
  /\ editor' = [editor EXCEPT ![e].status = "saving"]
  /\ UNCHANGED <<serverVars, typed, load, locking>>
KeepMine(e) ==
  /\ editor[e].status = "conflict"
  /\ Send(e, "flush", editor[e].remote)
  /\ editor' = [editor EXCEPT ![e].status = "saving", ![e].remote = NoPad]
  /\ UNCHANGED <<serverVars, typed, load, locking>>
TakeRemote(e) ==
  /\ editor[e].status = "conflict"
  /\ editor' = [editor EXCEPT ![e] = Applied(editor[e].remote)]
  /\ UNCHANGED <<serverVars, typed, save, load, locking>>

\* The answer to flush.  Of a saved pad only the version is taken: its text is
\* the draft, unless another save came between the write and the read.
SavedBase(q) == [q.answer EXCEPT !.text = q.draft, !.blind = q.answer.text # q.draft]
AnsweredWithoutLook(e, q) ==                                    \* a mutant
  CASE q.result = "saved" -> [editor[e] EXCEPT !.base = SavedBase(q), !.status = "saved"]
    [] q.result = "conflict" -> [editor[e] EXCEPT !.remote = q.answer, !.status = "conflict"]
    [] OTHER -> [editor[e] EXCEPT !.status = "error"]
AnsweredWithBase(e, q) ==                                       \* a mutant
  CASE q.result = "saved" ->
         [editor[e] EXCEPT !.base = SavedBase(q),
                           !.status = IF editor[e].doc = q.draft THEN "saved" ELSE "dirty"]
    [] q.result = "conflict" ->
         [editor[e] EXCEPT !.base.version = q.answer.version, !.status = "dirty"]
    [] OTHER -> [editor[e] EXCEPT !.status = "error"]
Answered(e, q) ==
  CASE q.result = "saved" ->
         [editor[e] EXCEPT !.base = SavedBase(q),
                           !.status = IF editor[e].doc = q.draft THEN "saved" ELSE "dirty"]
    [] q.result = "conflict" -> [editor[e] EXCEPT !.remote = q.answer, !.status = "conflict"]
    [] OTHER -> [editor[e] EXCEPT !.status = "error"]
EndFlush(e) ==
  /\ save[e]["flush"].pc = "done"
  /\ editor' = [editor EXCEPT ![e] = Answered(e, save[e]["flush"])]
  /\ save' = [save EXCEPT ![e]["flush"] = NoSave]
  /\ UNCHANGED <<serverVars, typed, load, locking>>

Forget(e) == [save EXCEPT ![e] = [flush |-> NoSave, left |-> save[e]["flush"]]]
Disconnect(e) ==
  /\ e \in Leavers /\ save[e]["flush"].pc # "idle" /\ save[e]["left"].pc = "idle"
  /\ save' = Forget(e)
  /\ editor' = [editor EXCEPT ![e].status = "error"]
  /\ UNCHANGED <<serverVars, typed, load, locking>>

\* flushOnLeave: in the background, or when the tab is left.  What is being
\* saved meanwhile goes on without the tab.  A tab has one forgotten save at a
\* time (a bound).
Unsaved(e) == editor[e].loaded /\ editor[e].status \in {"dirty", "error"}
Hide(e) ==
  /\ e \in Leavers /\ Unsaved(e)
  /\ Send(e, "left", editor[e].base)
  /\ UNCHANGED <<serverVars, typed, editor, load, locking>>
Leave(e) ==
  /\ editor[e].status # "closed"
  /\ Unsaved(e) \/ save[e]["flush"].pc # "idle" => e \in Leavers
  /\ IF Unsaved(e) THEN Send(e, "left", editor[e].base)
     ELSE IF save[e]["flush"].pc # "idle"
     THEN save[e]["left"].pc = "idle" /\ save' = Forget(e)
     ELSE UNCHANGED save
  /\ editor' = [editor EXCEPT ![e] = Closed]
  /\ UNCHANGED <<serverVars, typed, load, locking>>
EndLeft(e) ==
  /\ save[e]["left"].pc = "done"
  /\ save' = [save EXCEPT ![e]["left"] = NoSave]
  /\ UNCHANGED <<serverVars, typed, editor, load, locking>>

-----------------------------------------------------------------------------

Next ==
  \/ \E e \in Editors, s \in Slots :
       CreateFirst(e, s) \/ UpdateFrom(e, s) \/ ReadBack(e, s) \/ ReadCurrent(e, s)
         \/ SaveFails(e, s)
  \/ \E a \in Accounts : BeginLock(a) \/ LockRow(a) \/ LookAtLock(a) \/ CreateLocked(a)
  \/ \E e \in Editors :
       \/ Open(e) \/ Opened(e) \/ ReadPad(e) \/ Poll(e) \/ Polled(e) \/ LoadFails(e)
       \/ Type(e) \/ Flush(e) \/ KeepMine(e) \/ TakeRemote(e) \/ EndFlush(e)
       \/ Disconnect(e) \/ Hide(e) \/ Leave(e) \/ EndLeft(e)
  \/ Unlock \/ DeleteExpired \/ RemoveAsAdmin

Spec == Init /\ [][Next]_vars

\* The page polls every three seconds while it is visible, and requests are
\* not lost for ever.
Fairness ==
  \A e \in Visible : WF_vars(Poll(e)) /\ SF_vars(ReadPad(e)) /\ SF_vars(Polled(e))
FairSpec == Spec /\ Fairness

-----------------------------------------------------------------------------
(* Properties.                                                             *)

\* "So grava se ninguem gravou desde baseVersion": a save replaces no text that
\* its author was not shown as the one it saves over.  Two ways in which the
\* code cannot tell are left out: the pad was deleted and created anew since
\* (another life), and the answer to the author's last save told the version of
\* a later save (blind).
Replaces(e, s) ==
  /\ save[e][s].pc = "write" /\ save'[e][s].pc \in {"readBack", "done"}
  /\ pad # None /\ pad' # pad
NothingOverwrittenUnseen ==
  [][\A e \in Editors, s \in Slots : Replaces(e, s) =>
       LET base == save[e][s].base IN
       base.text = pad.text \/ base.life # pad.life \/ base.blind]_vars

\* The same without the second exception.
NothingOverwrittenBlindly ==
  [][\A e \in Editors, s \in Slots : Replaces(e, s) =>
       LET base == save[e][s].base IN base.text = pad.text \/ base.life # pad.life]_vars

\* A tab that says "saved" shows the text that it saved or loaded last:
\* whatever was typed while a save or a poll was under way is not taken for
\* saved, nor replaced.
SavedIsStored ==
  \A e \in Editors : editor[e].status = "saved" => editor[e].doc = editor[e].base.text

\* "Todos continuam a ler, so esta conta edita": while the pad is locked only
\* its holder changes the text, also with saves that began before.
LockHolds ==
  [][pad # None /\ pad' # None /\ pad.lockedBy # None /\ pad'.text # pad.text
       => save'[pad.lockedBy] # save[pad.lockedBy]]_vars

\* The polling brings an open tab that has nothing to save to the text of the
\* pad, apart from the two exceptions above.
FollowsThePad ==
  \A e \in Visible :
    []<>(\/ editor[e].status # "saved"
         \/ editor[e].doc = View.text
         \/ editor[e].base.blind
         \/ editor[e].base.version = View.version /\ editor[e].base.life # View.life)

\* "Sair com texto por gravar: grava ja": a tab that is left keeps nothing that
\* was typed from being sent.
NothingLeftUnsent ==
  [][\A e \in Editors : editor[e].loaded /\ editor[e].status \in {"dirty", "saving", "error"}
       /\ editor'[e].status = "closed"
       => \E s \in Slots : save'[e][s].pc # "idle" /\ save'[e][s].draft = editor[e].doc]_vars
=============================================================================
