------------------------------ MODULE PadsProofs ------------------------------
(***************************************************************************)
(* What holds of the two places in which several edit one text: pads, and  *)
(* the tasks of a pack.  Of a pad, for every number of tabs and accounts,  *)
(* of texts, of saves and of lives of the pad: whatever a tab, a request   *)
(* or an answer takes for the state of the pad was true of its version     *)
(* when it was read, and a version of one life of the pad stands for one   *)
(* text.  Of an item of a pack, for every number of colleagues, fields and *)
(* values: nobody has two proposals to decide, and who follows the item    *)
(* has what was published, or a proposal of it.                            *)
(***************************************************************************)
EXTENDS Pads, TaskPacks, FiniteSetTheorems, TLAPS

USE PadsAssumption

\* What a snapshot says of the life it was taken in, with the row p, created l
\* times.
Truthful(x, p, l) ==
  /\ x.life <= l
  /\ p # None /\ x.life = p.life =>
       /\ x.version <= p.version
       /\ x.version = p.version /\ ~x.blind => x.text = p.text

SaveTruthful(q, p, l) ==
  Truthful(q.base, p, l) /\ Truthful(q.answer, p, l) /\ ~q.answer.blind
EditorTruthful(d, p, l) == Truthful(d.base, p, l) /\ Truthful(d.remote, p, l)

EditorsKnow == \A e \in Editors : EditorTruthful(editor[e], pad, lives)
SavesKnow == \A e \in Editors, s \in Slots : SaveTruthful(save[e][s], pad, lives)
LoadsKnow ==
  \A e \in Editors : Truthful(load[e].answer, pad, lives) /\ ~load[e].answer.blind

PadsInv == TypeOK /\ EditorsKnow /\ SavesKnow /\ LoadsKnow

-----------------------------------------------------------------------------
(* Types.                                                                  *)

LEMMA NoPadType == NoPad \in Snapshot /\ ~NoPad.blind
  BY DEF NoPad, Snapshot, Text, Empty

LEMMA ConstantTypes ==
  NoSave \in Save /\ NoLoad \in Load /\ Closed \in Editor
  BY NoPadType DEF NoSave, NoLoad, Closed, Save, Load, Editor, Statuses, Results, Text, Empty

LEMMA PadType ==
  ASSUME TypeOK, pad # None
  PROVE  /\ pad \in Pad /\ pad.version \in Nat /\ pad.text \in Text /\ pad.life \in Nat
         /\ pad.lockedBy \in Accounts \cup {None}
         /\ pad.version > 0 /\ pad.life = lives
  BY DEF TypeOK, Pad

LEMMA ViewType == ASSUME TypeOK PROVE View \in Snapshot /\ ~View.blind
<1>1. CASE pad = None BY <1>1, NoPadType DEF View
<1>2. CASE pad # None BY <1>2, PadType DEF View, Snapshot
<1> QED BY <1>1, <1>2

LEMMA AppliedType == ASSUME NEW x \in Snapshot PROVE Applied(x) \in Editor
  BY NoPadType DEF Applied, Editor, Statuses, Snapshot

LEMMA SavedBaseType ==
  ASSUME NEW q \in Save
  PROVE  SavedBase(q) \in Snapshot
  BY DEF SavedBase, Save, Snapshot

LEMMA AnsweredType ==
  ASSUME TypeOK, NEW e \in Editors, NEW q \in Save
  PROVE  Answered(e, q) \in Editor
<1>1. editor[e] \in Editor BY DEF TypeOK
<1>2. SavedBase(q) \in Snapshot /\ q.answer \in Snapshot BY SavedBaseType DEF Save
<1>3. CASE q.result = "saved" BY <1>1, <1>2, <1>3 DEF Answered, Editor, Statuses
<1>4. CASE q.result = "conflict" BY <1>1, <1>2, <1>4 DEF Answered, Editor, Statuses
<1>5. CASE q.result \notin {"saved", "conflict"}
  BY <1>1, <1>5 DEF Answered, Editor, Statuses
<1> QED BY <1>3, <1>4, <1>5

\* One request, one tab, one load changes.
LEMMA OneEditor ==
  ASSUME TypeOK, NEW e \in Editors, NEW d \in Editor, editor' = [editor EXCEPT ![e] = d]
  PROVE  /\ editor' \in [Editors -> Editor]
         /\ editor'[e] = d
         /\ \A f \in Editors : f # e => editor'[f] = editor[f]
  BY DEF TypeOK

LEMMA OneLoad ==
  ASSUME TypeOK, NEW e \in Editors, NEW r \in Load, load' = [load EXCEPT ![e] = r]
  PROVE  /\ load' \in [Editors -> Load]
         /\ load'[e] = r
         /\ \A f \in Editors : f # e => load'[f] = load[f]
  BY DEF TypeOK

-----------------------------------------------------------------------------
(* What the statements of the server do to the row.                        *)

Moves(p, l, p2, l2) ==
  \/ l2 = l /\ p2 \in {p, None}
  \/ l2 = l /\ p # None /\ p2.life = p.life /\ p2.version = p.version /\ p2.text = p.text
  \/ l2 = l /\ p # None /\ p2.life = p.life /\ p2.version = p.version + 1
  \/ l2 = l + 1 /\ p2.life = l2

ServerOK ==
  /\ lives' \in Nat /\ pad' \in Pad \cup {None}
  /\ pad' # None => pad'.version > 0 /\ pad'.life = lives'
  /\ Moves(pad, lives, pad', lives')

LEMMA NothingMoves ==
  ASSUME TypeOK, UNCHANGED serverVars
  PROVE  ServerOK
  BY DEF TypeOK, serverVars, ServerOK, Moves

LEMMA CreateMoves ==
  ASSUME TypeOK, NEW text \in Text, NEW locker \in Accounts \cup {None}, CreateRow(text, locker)
  PROVE  ServerOK
  BY DEF CreateRow, Pad, Moves, TypeOK, ServerOK

LEMMA UpdateMoves ==
  ASSUME TypeOK, pad # None, NEW text \in Text,
         pad' = [pad EXCEPT !.version = @ + 1, !.text = text], UNCHANGED lives
  PROVE  ServerOK
<1>0. pad \in Pad /\ pad.version + 1 \in Nat BY PadType
<1>1. pad' \in Pad /\ pad'.version = pad.version + 1 /\ pad'.life = pad.life
  <2>1. pad' \in Pad BY <1>0 DEF Pad
  <2>2. pad'.version = pad.version + 1 /\ pad'.life = pad.life BY <1>0 DEF Pad
  <2> QED BY <2>1, <2>2
<1>2. pad'.version > 0 /\ pad'.life = lives' BY <1>1, PadType
<1> QED BY <1>1, <1>2 DEF ServerOK, Moves, TypeOK

LEMMA LockMoves ==
  ASSUME TypeOK, pad # None, NEW locker \in Accounts \cup {None},
         pad' = [pad EXCEPT !.lockedBy = locker], UNCHANGED lives
  PROVE  ServerOK
<1>1. /\ pad' \in Pad /\ pad'.version = pad.version /\ pad'.life = pad.life
      /\ pad'.text = pad.text
  BY PadType DEF Pad
<1>2. pad'.version > 0 /\ pad'.life = lives' BY <1>1, PadType
<1> QED BY <1>1, <1>2 DEF ServerOK, Moves, TypeOK

LEMMA DeleteMoves ==
  ASSUME TypeOK, pad' = None, UNCHANGED lives
  PROVE  ServerOK
  BY DEF ServerOK, Moves, TypeOK

\* What a snapshot says of a life of the pad stays true of it.
LEMMA TruthStays ==
  ASSUME NEW x \in Snapshot, NEW p, NEW l \in Nat, NEW p2, NEW l2 \in Nat,
         p # None => p.version \in Nat /\ p.life = l,
         Moves(p, l, p2, l2), Truthful(x, p, l)
  PROVE  Truthful(x, p2, l2)
<1>1. x.version \in Nat /\ x.life \in Nat BY DEF Snapshot
<1>2. CASE l2 = l /\ p2 \in {p, None} BY <1>2 DEF Truthful
<1>3. CASE l2 = l /\ p # None /\ p2.life = p.life /\ p2.version = p.version /\ p2.text = p.text
  BY <1>3 DEF Truthful
<1>4. CASE l2 = l /\ p # None /\ p2.life = p.life /\ p2.version = p.version + 1
  BY <1>1, <1>4 DEF Truthful
<1>5. CASE l2 = l + 1 /\ p2.life = l2 BY <1>1, <1>5 DEF Truthful
<1> QED BY <1>2, <1>3, <1>4, <1>5 DEF Moves

LEMMA ViewTruthful ==
  ASSUME TypeOK
  PROVE  Truthful(View, pad, lives) /\ Truthful(NoPad, pad, lives)
<1>1. lives \in Nat BY DEF TypeOK
<1>2. Truthful(NoPad, pad, lives) BY <1>1, PadType DEF NoPad, Truthful
<1>3. CASE pad = None BY <1>2, <1>3 DEF View
<1>4. CASE pad # None BY <1>1, <1>2, <1>4, PadType DEF View, Truthful
<1> QED BY <1>2, <1>3, <1>4

-----------------------------------------------------------------------------
(* The parts of a step: what is unchanged, or true of the pad.             *)

SaveKnown(q) == SaveTruthful(q, pad, lives) \/ SaveTruthful(q, pad', lives')
EditorsOK ==
  /\ editor' \in [Editors -> Editor]
  /\ \A e \in Editors : editor'[e] = editor[e] \/ EditorTruthful(editor'[e], pad, lives)
SavesOK ==
  /\ save' \in [Editors -> [Slots -> Save]]
  /\ \A e \in Editors, s \in Slots :
       save'[e][s] = save[e][s] \/ SaveKnown(save'[e][s])
LoadsOK ==
  /\ load' \in [Editors -> Load]
  /\ \A e \in Editors : \/ load'[e] = load[e]
                        \/ Truthful(load'[e].answer, pad, lives) /\ ~load'[e].answer.blind
OthersOK ==
  typed' \in Nat /\ locking' \in [Accounts -> {"idle", "lock", "look", "create"}]

LEMMA SameEditors == ASSUME TypeOK, UNCHANGED editor PROVE EditorsOK
  BY DEF TypeOK, EditorsOK
LEMMA SameSaves == ASSUME TypeOK, UNCHANGED save PROVE SavesOK
  BY DEF TypeOK, SavesOK
LEMMA SameLoads == ASSUME TypeOK, UNCHANGED load PROVE LoadsOK
  BY DEF TypeOK, LoadsOK
LEMMA SameOthers == ASSUME TypeOK, UNCHANGED <<typed, locking>> PROVE OthersOK
  BY DEF TypeOK, OthersOK

LEMMA NewEditor ==
  ASSUME TypeOK, NEW e \in Editors, NEW d \in Editor, editor' = [editor EXCEPT ![e] = d],
         EditorTruthful(d, pad, lives)
  PROVE  EditorsOK
  BY OneEditor DEF EditorsOK

LEMMA NewLoad ==
  ASSUME TypeOK, NEW e \in Editors, NEW r \in Load, load' = [load EXCEPT ![e] = r],
         Truthful(r.answer, pad, lives), ~r.answer.blind
  PROVE  LoadsOK
  BY OneLoad DEF LoadsOK

LEMMA NewSave ==
  ASSUME TypeOK, NEW e \in Editors, NEW s \in Slots, NEW q \in Save,
         save' = [save EXCEPT ![e][s] = q],
         SaveKnown(q)
  PROVE  SavesOK
<1>1. /\ save' \in [Editors -> [Slots -> Save]] /\ save'[e][s] = q
      /\ \A d \in Editors, t \in Slots : d # e \/ t # s => save'[d][t] = save[d][t]
  BY DEF TypeOK
<1>2. ASSUME NEW d \in Editors, NEW t \in Slots
      PROVE  save'[d][t] = save[d][t] \/ SaveKnown(save'[d][t])
  <2>1. CASE d = e /\ t = s BY <1>1, <2>1
  <2>2. CASE d # e \/ t # s BY <1>1, <2>2
  <2> QED BY <2>1, <2>2
<1> QED BY <1>1, <1>2 DEF SavesOK

LEMMA TypeFacts ==
  ASSUME PadsInv
  PROVE  /\ lives \in Nat
         /\ \A e \in Editors :
              /\ editor[e] \in Editor /\ load[e] \in Load
              /\ editor[e].base \in Snapshot /\ editor[e].remote \in Snapshot
              /\ load[e].answer \in Snapshot
              /\ EditorTruthful(editor[e], pad, lives)
              /\ Truthful(load[e].answer, pad, lives) /\ ~load[e].answer.blind
         /\ \A e \in Editors, s \in Slots :
              /\ save[e][s] \in Save
              /\ save[e][s].base \in Snapshot /\ save[e][s].answer \in Snapshot
              /\ SaveTruthful(save[e][s], pad, lives)
  BY DEF PadsInv, TypeOK, Editor, Load, Save, EditorsKnow, SavesKnow, LoadsKnow

LEMMA InvFromParts ==
  ASSUME PadsInv, ServerOK, EditorsOK, SavesOK, LoadsOK, OthersOK
  PROVE  PadsInv'
<1>1. lives \in Nat /\ lives' \in Nat /\ Moves(pad, lives, pad', lives')
  BY DEF PadsInv, TypeOK, ServerOK
<1>2. pad # None => pad.version \in Nat /\ pad.life = lives BY PadType DEF PadsInv
<1>3. ASSUME NEW x \in Snapshot, Truthful(x, pad, lives) PROVE Truthful(x, pad', lives')
  BY <1>1, <1>2, <1>3, TruthStays
<1>4. TypeOK' BY DEF TypeOK, ServerOK, EditorsOK, SavesOK, LoadsOK, OthersOK
<1>5. ASSUME NEW e \in Editors PROVE EditorTruthful(editor'[e], pad', lives')
  <2>1. EditorTruthful(editor'[e], pad, lives) BY TypeFacts DEF EditorsOK
  <2>2. editor'[e].base \in Snapshot /\ editor'[e].remote \in Snapshot
    BY DEF EditorsOK, Editor
  <2> QED BY <1>3, <2>1, <2>2 DEF EditorTruthful
<1>6. ASSUME NEW e \in Editors, NEW s \in Slots
      PROVE  SaveTruthful(save'[e][s], pad', lives')
  <2>1. save'[e][s].base \in Snapshot /\ save'[e][s].answer \in Snapshot
    BY DEF SavesOK, Save
  <2>2. CASE SaveTruthful(save'[e][s], pad', lives') BY <2>2
  <2>3. CASE SaveTruthful(save'[e][s], pad, lives)
    BY <1>3, <2>1, <2>3 DEF SaveTruthful
  <2> QED BY <2>2, <2>3, TypeFacts DEF SavesOK, SaveKnown
<1>7. ASSUME NEW e \in Editors
      PROVE  Truthful(load'[e].answer, pad', lives') /\ ~load'[e].answer.blind
  <2>1. Truthful(load'[e].answer, pad, lives) /\ ~load'[e].answer.blind
    BY TypeFacts DEF LoadsOK
  <2>2. load'[e].answer \in Snapshot BY DEF LoadsOK, Load
  <2> QED BY <1>3, <2>1, <2>2
<1> QED BY <1>4, <1>5, <1>6, <1>7 DEF PadsInv, EditorsKnow, SavesKnow, LoadsKnow

-----------------------------------------------------------------------------
(* The steps of a save at the server.                                      *)

LEMMA SaveMoved ==
  ASSUME PadsInv, NEW e \in Editors, NEW s \in Slots, NEW pc \in {"readBack", "readCurrent"},
         Goto(e, s, pc)
  PROVE  SavesOK
<1> DEFINE q == [save[e][s] EXCEPT !.pc = pc]
<1>1. save[e][s] \in Save /\ SaveTruthful(save[e][s], pad, lives) BY TypeFacts
<1>2. q \in Save BY <1>1 DEF Save
<1>3. SaveTruthful(q, pad, lives) BY <1>1 DEF Save, SaveTruthful
<1>4. save' = [save EXCEPT ![e][s] = q] BY DEF Goto
<1> QED BY <1>2, <1>3, <1>4, NewSave DEF PadsInv, SaveKnown

LEMMA CreateFirstStep ==
  ASSUME PadsInv, NEW e \in Editors, NEW s \in Slots, CreateFirst(e, s)
  PROVE  PadsInv'
<1>1. EditorsOK /\ LoadsOK /\ OthersOK
  BY SameEditors, SameLoads, SameOthers DEF PadsInv, CreateFirst
<1>2. CASE pad = None
  <2> DEFINE x == [version |-> 1, text |-> save[e][s].draft, life |-> lives + 1, blind |-> FALSE]
             q == [save[e][s] EXCEPT !.pc = "done", !.result = "saved", !.answer = x]
  <2>1. /\ save[e][s] \in Save /\ save[e][s].draft \in Text
        /\ save[e][s].base \in Snapshot /\ SaveTruthful(save[e][s], pad, lives)
        /\ lives \in Nat
    BY TypeFacts DEF Save
  <2>2. CreateRow(save[e][s].draft, None) BY <1>2 DEF CreateFirst
  <2>3. ServerOK BY <2>1, <2>2, CreateMoves DEF PadsInv
  <2>4. x \in Snapshot BY <2>1 DEF Snapshot
  <2>5. q \in Save BY <2>1, <2>4 DEF Save, Results
  <2>6. save' = [save EXCEPT ![e][s] = q]
    <3>1. save' = [save EXCEPT ![e][s].pc = "done", ![e][s].result = "saved", ![e][s].answer = x]
      BY <1>2 DEF CreateFirst
    <3> HIDE DEF x
    <3> QED BY <3>1
  <2>7. Truthful(x, pad', lives') BY <2>1, <2>2 DEF CreateRow, Truthful
  <2>8. Truthful(save[e][s].base, pad', lives')
    BY <1>2, <2>1, <2>3, TruthStays DEF ServerOK, SaveTruthful
  <2>9. q.base = save[e][s].base /\ q.answer = x BY <2>1 DEF Save
  <2>10. SaveTruthful(q, pad', lives') BY <2>7, <2>8, <2>9 DEF SaveTruthful
  <2> QED BY <1>1, <2>3, <2>5, <2>6, <2>10, NewSave, InvFromParts DEF PadsInv, SaveKnown
<1>3. CASE pad # None
  <2>1. Goto(e, s, "readCurrent") /\ UNCHANGED serverVars BY <1>3 DEF CreateFirst
  <2> QED BY <1>1, <2>1, SaveMoved, NothingMoves, InvFromParts DEF PadsInv
<1> QED BY <1>2, <1>3

LEMMA UpdateFromStep ==
  ASSUME PadsInv, NEW e \in Editors, NEW s \in Slots, UpdateFrom(e, s)
  PROVE  PadsInv'
<1>1. EditorsOK /\ LoadsOK /\ OthersOK
  BY SameEditors, SameLoads, SameOthers DEF PadsInv, UpdateFrom
<1>2. CASE Matches(e, save[e][s].base)
  <2>1. save[e][s].draft \in Text BY TypeFacts DEF Save
  <2>2. pad # None BY <1>2 DEF Matches
  <2>3. ServerOK BY <1>2, <2>1, <2>2, UpdateMoves DEF UpdateFrom, PadsInv
  <2>4. SavesOK BY <1>2, SaveMoved DEF UpdateFrom
  <2> QED BY <1>1, <2>3, <2>4, InvFromParts
<1>3. CASE ~Matches(e, save[e][s].base)
  <2>1. Goto(e, s, "readCurrent") /\ UNCHANGED serverVars BY <1>3 DEF UpdateFrom
  <2> QED BY <1>1, <2>1, SaveMoved, NothingMoves, InvFromParts DEF PadsInv
<1> QED BY <1>2, <1>3

LEMMA RespondStep ==
  ASSUME PadsInv, NEW e \in Editors, NEW s \in Slots, NEW result \in Results,
         Respond(e, s, result)
  PROVE  PadsInv'
<1> DEFINE q == [save[e][s] EXCEPT !.pc = "done", !.result = result, !.answer = View]
<1>1. save[e][s] \in Save /\ SaveTruthful(save[e][s], pad, lives) BY TypeFacts
<1>2. View \in Snapshot /\ ~View.blind /\ Truthful(View, pad, lives)
  BY ViewType, ViewTruthful DEF PadsInv
<1>3. q \in Save BY <1>1, <1>2 DEF Save
<1>4. q.base = save[e][s].base /\ q.answer = View BY <1>1 DEF Save
<1>5. SaveTruthful(q, pad, lives) BY <1>1, <1>2, <1>4 DEF SaveTruthful
<1>6. save' = [save EXCEPT ![e][s] = q] BY DEF Respond
<1>7. SavesOK BY <1>3, <1>5, <1>6, NewSave DEF PadsInv, SaveKnown
<1>8. ServerOK /\ EditorsOK /\ LoadsOK /\ OthersOK
  BY NothingMoves, SameEditors, SameLoads, SameOthers DEF PadsInv, Respond
<1> QED BY <1>7, <1>8, InvFromParts

LEMMA SaveFailsStep ==
  ASSUME PadsInv, NEW e \in Editors, NEW s \in Slots, SaveFails(e, s)
  PROVE  PadsInv'
<1> DEFINE q == [save[e][s] EXCEPT !.pc = "done", !.result = "refused"]
<1>1. save[e][s] \in Save /\ SaveTruthful(save[e][s], pad, lives) BY TypeFacts
<1>2. q \in Save BY <1>1 DEF Save, Results
<1>3. q.base = save[e][s].base /\ q.answer = save[e][s].answer BY <1>1 DEF Save
<1>4. SaveTruthful(q, pad, lives) BY <1>1, <1>3 DEF SaveTruthful
<1>5. save' = [save EXCEPT ![e][s] = q] BY DEF SaveFails
<1>6. SavesOK BY <1>2, <1>4, <1>5, NewSave DEF PadsInv, SaveKnown
<1>7. ServerOK /\ EditorsOK /\ LoadsOK /\ OthersOK
  BY NothingMoves, SameEditors, SameLoads, SameOthers DEF PadsInv, SaveFails
<1> QED BY <1>6, <1>7, InvFromParts

LEMMA EndLeftStep ==
  ASSUME PadsInv, NEW e \in Editors, EndLeft(e)
  PROVE  PadsInv'
<1>1. NoSave \in Save /\ SaveTruthful(NoSave, pad, lives)
  BY ConstantTypes, ViewTruthful, NoPadType DEF PadsInv, NoSave, SaveTruthful
<1>2. SavesOK BY <1>1, NewSave DEF PadsInv, SaveKnown, EndLeft, Slots
<1>3. ServerOK /\ EditorsOK /\ LoadsOK /\ OthersOK
  BY NothingMoves, SameEditors, SameLoads, SameOthers DEF PadsInv, EndLeft
<1> QED BY <1>2, <1>3, InvFromParts

-----------------------------------------------------------------------------
(* Locks and deletions.                                                    *)

LEMMA LockStep ==
  ASSUME PadsInv, NEW a \in Accounts,
         BeginLock(a) \/ LockRow(a) \/ LookAtLock(a) \/ CreateLocked(a)
  PROVE  PadsInv'
<1>1. /\ TypeOK
      /\ locking \in [Accounts -> {"idle", "lock", "look", "create"}] /\ typed \in Nat
  BY DEF PadsInv, TypeOK
<1>2. EditorsOK /\ SavesOK /\ LoadsOK
  BY <1>1, SameEditors, SameSaves, SameLoads DEF BeginLock, LockRow, LookAtLock, CreateLocked
<1>3. OthersOK BY <1>1 DEF BeginLock, LockRow, LookAtLock, CreateLocked, OthersOK
<1>4. ServerOK
  <2>1. CASE BeginLock(a) \/ LookAtLock(a)
    BY <1>1, <2>1, NothingMoves DEF BeginLock, LookAtLock
  <2>2. CASE LockRow(a)
    <3>1. CASE pad # None /\ pad.lockedBy = None
      BY <1>1, <2>2, <3>1, LockMoves DEF LockRow
    <3>2. CASE ~(pad # None /\ pad.lockedBy = None)
      BY <1>1, <2>2, <3>2, NothingMoves DEF LockRow, serverVars
    <3> QED BY <3>1, <3>2
  <2>3. CASE CreateLocked(a)
    <3>1. CASE pad = None BY <1>1, <2>3, <3>1, CreateMoves DEF CreateLocked, Text, Empty
    <3>2. CASE pad # None BY <1>1, <2>3, <3>2, NothingMoves DEF CreateLocked
    <3> QED BY <3>1, <3>2
  <2> QED BY <2>1, <2>2, <2>3
<1> QED BY <1>2, <1>3, <1>4, InvFromParts

LEMMA RowStep ==
  ASSUME PadsInv, Unlock \/ DeleteExpired \/ RemoveAsAdmin
  PROVE  PadsInv'
<1>1. TypeOK BY DEF PadsInv
<1>2. EditorsOK /\ SavesOK /\ LoadsOK /\ OthersOK
  BY <1>1, SameEditors, SameSaves, SameLoads, SameOthers DEF Unlock, DeleteExpired, RemoveAsAdmin
<1>3. ServerOK
  BY <1>1, LockMoves, DeleteMoves DEF Unlock, DeleteExpired, RemoveAsAdmin
<1> QED BY <1>2, <1>3, InvFromParts

-----------------------------------------------------------------------------
(* The steps of a tab.                                                     *)

LEMMA LoadSentType ==
  ASSUME NEW r \in Load, NEW pc \in {"sent", "answered"}
  PROVE  [r EXCEPT !.pc = pc] \in Load /\ [r EXCEPT !.pc = pc].answer = r.answer
  BY DEF Load

LEMMA NoLoadKnown ==
  ASSUME TypeOK, NEW e \in Editors, load' = [load EXCEPT ![e] = NoLoad]
  PROVE  LoadsOK
<1>1. NoLoad \in Load /\ NoLoad.answer = NoPad BY ConstantTypes DEF NoLoad
<1> QED BY <1>1, NewLoad, ViewTruthful, NoPadType

LEMMA LoadSent ==
  ASSUME PadsInv, NEW e \in Editors, load' = [load EXCEPT ![e].pc = "sent"]
  PROVE  LoadsOK
<1> DEFINE r == [load[e] EXCEPT !.pc = "sent"]
<1>1. load[e] \in Load BY TypeFacts
<1>2. r \in Load /\ r.answer = load[e].answer BY <1>1, LoadSentType
<1>3. load' = [load EXCEPT ![e] = r] OBVIOUS
<1>4. Truthful(r.answer, pad, lives) /\ ~r.answer.blind BY <1>2, TypeFacts
<1> HIDE DEF r
<1> QED BY <1>2, <1>3, <1>4, NewLoad DEF PadsInv

\* A tab in another status, or with another text, knows what it knew.
LEMMA SameKnowledge ==
  ASSUME PadsInv, NEW e \in Editors, NEW d \in Editor, editor' = [editor EXCEPT ![e] = d],
         d.base = editor[e].base, d.remote \in {editor[e].remote, NoPad}
  PROVE  EditorsOK
<1>1. Truthful(d.base, pad, lives) BY TypeFacts DEF EditorTruthful
<1>2. Truthful(d.remote, pad, lives) BY TypeFacts, ViewTruthful DEF EditorTruthful, PadsInv
<1>3. EditorTruthful(d, pad, lives) BY <1>1, <1>2 DEF EditorTruthful
<1> QED BY <1>3, NewEditor DEF PadsInv

LEMMA NewStatus ==
  ASSUME PadsInv, NEW e \in Editors, NEW status \in Statuses,
         editor' = [editor EXCEPT ![e].status = status]
  PROVE  EditorsOK
<1> DEFINE d == [editor[e] EXCEPT !.status = status]
<1>1. editor[e] \in Editor BY TypeFacts
<1>2. d \in Editor /\ d.base = editor[e].base /\ d.remote = editor[e].remote
  BY <1>1 DEF Editor
<1>3. editor' = [editor EXCEPT ![e] = d] OBVIOUS
<1> HIDE DEF d
<1> QED BY <1>2, <1>3, SameKnowledge

LEMMA TabShows ==
  ASSUME PadsInv, NEW e \in Editors, NEW x \in Snapshot, Truthful(x, pad, lives),
         editor' = [editor EXCEPT ![e] = Applied(x)]
  PROVE  EditorsOK
<1>1. Applied(x) \in Editor BY AppliedType
<1>2. EditorTruthful(Applied(x), pad, lives)
  BY ViewTruthful DEF Applied, EditorTruthful, PadsInv
<1> QED BY <1>1, <1>2, NewEditor DEF PadsInv

LEMMA TabCloses ==
  ASSUME PadsInv, NEW e \in Editors, editor' = [editor EXCEPT ![e] = Closed]
  PROVE  EditorsOK
<1>1. EditorTruthful(Closed, pad, lives)
  BY ViewTruthful DEF Closed, EditorTruthful, PadsInv
<1> QED BY <1>1, ConstantTypes, NewEditor DEF PadsInv

LEMMA SendSaves ==
  ASSUME PadsInv, NEW e \in Editors, NEW s \in Slots, NEW base \in Snapshot,
         Truthful(base, pad, lives), Send(e, s, base)
  PROVE  SavesOK
<1> DEFINE q == [NoSave EXCEPT !.pc = "write", !.draft = editor[e].doc, !.base = base]
<1>1. editor[e].doc \in Text BY TypeFacts DEF Editor
<1>2. q \in Save /\ q.base = base /\ q.answer = NoPad
  BY <1>1, NoPadType DEF NoSave, Save, Results, Empty
<1>3. save' = [save EXCEPT ![e][s] = q] BY DEF Send
<1>4. SaveTruthful(q, pad, lives)
  BY <1>2, ViewTruthful, NoPadType DEF SaveTruthful, PadsInv
<1> HIDE DEF q
<1> QED BY <1>2, <1>3, <1>4, NewSave DEF PadsInv, SaveKnown

LEMMA ForgetSaves ==
  ASSUME PadsInv, NEW e \in Editors, save' = Forget(e)
  PROVE  SavesOK
<1> DEFINE f == [flush |-> NoSave, left |-> save[e]["flush"]]
<1>1. save[e]["flush"] \in Save /\ SaveTruthful(save[e]["flush"], pad, lives)
  BY TypeFacts DEF Slots
<1>2. NoSave \in Save /\ SaveTruthful(NoSave, pad, lives)
  BY ConstantTypes, ViewTruthful, NoPadType DEF PadsInv, NoSave, SaveTruthful
<1>3. f \in [Slots -> Save] /\ \A s \in Slots : SaveTruthful(f[s], pad, lives)
  BY <1>1, <1>2 DEF Slots
<1>4. save \in [Editors -> [Slots -> Save]] /\ save' = [save EXCEPT ![e] = f]
  BY DEF PadsInv, TypeOK, Forget
<1> HIDE DEF f
<1>5. save' \in [Editors -> [Slots -> Save]] BY <1>3, <1>4
<1>6. ASSUME NEW d \in Editors, NEW s \in Slots
      PROVE  save'[d][s] = save[d][s] \/ SaveKnown(save'[d][s])
  BY <1>3, <1>4 DEF SaveKnown
<1> QED BY <1>5, <1>6 DEF SavesOK

LEMMA LoadStep ==
  ASSUME PadsInv, NEW e \in Editors,
         Open(e) \/ Opened(e) \/ ReadPad(e) \/ Poll(e) \/ Polled(e) \/ LoadFails(e)
  PROVE  PadsInv'
<1>1. TypeOK BY DEF PadsInv
<1>2. ServerOK /\ SavesOK /\ OthersOK
  BY <1>1, NothingMoves, SameSaves, SameOthers
     DEF Open, Opened, ReadPad, Poll, Polled, LoadFails
<1>3. load[e].answer \in Snapshot /\ Truthful(load[e].answer, pad, lives) BY TypeFacts
<1>4. EditorsOK /\ LoadsOK
  <2>1. CASE Open(e)
    <3>1. EditorsOK BY <2>1, NewStatus DEF Open, Statuses
    <3>2. CASE load[e].pc = "idle" BY <2>1, <3>1, <3>2, LoadSent DEF Open
    <3>3. CASE load[e].pc # "idle" BY <1>1, <2>1, <3>1, <3>3, SameLoads DEF Open
    <3> QED BY <3>2, <3>3
  <2>2. CASE Opened(e) BY <1>1, <1>3, <2>2, TabShows, NoLoadKnown DEF Opened
  <2>3. CASE ReadPad(e)
    <3> DEFINE r == [pc |-> "answered", answer |-> View]
    <3>1. r \in Load /\ r.answer = View BY <1>1, ViewType DEF Load
    <3>2. load' = [load EXCEPT ![e] = r] BY <2>3 DEF ReadPad
    <3> HIDE DEF r
    <3>3. LoadsOK BY <1>1, <3>1, <3>2, ViewType, ViewTruthful, NewLoad
    <3> QED BY <1>1, <2>3, <3>3, SameEditors DEF ReadPad
  <2>4. CASE Poll(e) BY <1>1, <2>4, LoadSent, SameEditors DEF Poll
  <2>5. CASE Polled(e)
    <3>1. LoadsOK BY <1>1, <2>5, NoLoadKnown DEF Polled
    <3>2. CASE News(e) BY <1>3, <2>5, <3>1, <3>2, TabShows DEF Polled
    <3>3. CASE ~News(e) BY <1>1, <2>5, <3>1, <3>3, SameEditors DEF Polled
    <3> QED BY <3>2, <3>3
  <2>6. CASE LoadFails(e)
    <3>1. LoadsOK BY <1>1, <2>6, NoLoadKnown DEF LoadFails
    <3>2. CASE editor[e].status = "loading"
      BY <2>6, <3>1, <3>2, NewStatus DEF LoadFails, Statuses
    <3>3. CASE editor[e].status # "loading"
      BY <1>1, <2>6, <3>1, <3>3, SameEditors DEF LoadFails
    <3> QED BY <3>2, <3>3
  <2> QED BY <2>1, <2>2, <2>3, <2>4, <2>5, <2>6
<1> QED BY <1>2, <1>4, InvFromParts

LEMMA TypeStep ==
  ASSUME PadsInv, NEW e \in Editors, Type(e)
  PROVE  PadsInv'
<1> DEFINE status == IF editor[e].status \in {"conflict", "saving"}
                     THEN editor[e].status ELSE "dirty"
           d == [editor[e] EXCEPT !.doc = typed + 1, !.status = status]
<1>1. TypeOK /\ typed \in Nat /\ editor[e] \in Editor BY TypeFacts DEF PadsInv, TypeOK
<1>2. status \in Statuses BY DEF Statuses
<1>3. editor' = [editor EXCEPT ![e] = d] BY DEF Type
<1> HIDE DEF status
<1>4. d \in Editor /\ d.base = editor[e].base /\ d.remote = editor[e].remote
  <2> DEFINE text == typed + 1
  <2>1. text \in Text BY <1>1 DEF Text
  <2> HIDE DEF text
  <2>2. [editor[e] EXCEPT !.doc = text, !.status = status] \in Editor
    BY <1>1, <1>2, <2>1 DEF Editor
  <2>3. d \in Editor BY <2>2 DEF text
  <2>4. d.base = editor[e].base /\ d.remote = editor[e].remote BY <1>1 DEF Editor
  <2> QED BY <2>3, <2>4
<1> HIDE DEF d
<1>5. EditorsOK BY <1>3, <1>4, SameKnowledge
<1>6. ServerOK /\ SavesOK /\ LoadsOK
  BY <1>1, NothingMoves, SameSaves, SameLoads DEF Type
<1>7. OthersOK BY <1>1 DEF Type, OthersOK, TypeOK
<1> QED BY <1>5, <1>6, <1>7, InvFromParts

LEMMA FlushStep ==
  ASSUME PadsInv, NEW e \in Editors, Flush(e) \/ KeepMine(e) \/ TakeRemote(e)
  PROVE  PadsInv'
<1>1. TypeOK /\ editor[e] \in Editor BY TypeFacts DEF PadsInv
<1>2. /\ editor[e].base \in Snapshot /\ Truthful(editor[e].base, pad, lives)
      /\ editor[e].remote \in Snapshot /\ Truthful(editor[e].remote, pad, lives)
  BY TypeFacts DEF EditorTruthful
<1>3. ServerOK /\ LoadsOK /\ OthersOK
  BY <1>1, NothingMoves, SameLoads, SameOthers DEF Flush, KeepMine, TakeRemote
<1>4. EditorsOK /\ SavesOK
  <2>1. CASE Flush(e)
    BY <1>2, <2>1, NewStatus, SendSaves DEF Flush, Statuses, Slots
  <2>2. CASE KeepMine(e)
    <3> DEFINE d == [editor[e] EXCEPT !.status = "saving", !.remote = NoPad]
    <3>1. d \in Editor /\ d.base = editor[e].base /\ d.remote = NoPad
      BY <1>1, NoPadType DEF Editor, Statuses
    <3>2. editor' = [editor EXCEPT ![e] = d] BY <2>2 DEF KeepMine
    <3> HIDE DEF d
    <3>3. EditorsOK BY <3>1, <3>2, SameKnowledge
    <3> QED BY <1>2, <2>2, <3>3, SendSaves DEF KeepMine, Slots
  <2>3. CASE TakeRemote(e)
    BY <1>1, <1>2, <2>3, TabShows, SameSaves DEF TakeRemote
  <2> QED BY <2>1, <2>2, <2>3
<1> QED BY <1>3, <1>4, InvFromParts

LEMMA AnsweredTruthful ==
  ASSUME PadsInv, NEW e \in Editors, NEW q \in Save, SaveTruthful(q, pad, lives)
  PROVE  EditorTruthful(Answered(e, q), pad, lives)
<1>1. editor[e] \in Editor /\ EditorTruthful(editor[e], pad, lives) BY TypeFacts
<1>2. q.answer \in Snapshot /\ Truthful(q.answer, pad, lives) /\ ~q.answer.blind
  BY DEF Save, SaveTruthful
<1>3. Truthful(SavedBase(q), pad, lives)
  <2>1. /\ SavedBase(q).version = q.answer.version /\ SavedBase(q).life = q.answer.life
        /\ SavedBase(q).text = q.draft
        /\ SavedBase(q).blind = (q.answer.text # q.draft)
    BY <1>2 DEF SavedBase, Snapshot
  <2>2. CASE q.answer.text = q.draft BY <1>2, <2>1, <2>2 DEF Truthful
  <2>3. CASE q.answer.text # q.draft BY <1>2, <2>1, <2>3 DEF Truthful
  <2> QED BY <2>2, <2>3
<1>4. CASE q.result = "saved"
  <2>1. Answered(e, q).base = SavedBase(q) /\ Answered(e, q).remote = editor[e].remote
    BY <1>1, <1>4 DEF Answered, Editor
  <2> QED BY <1>1, <1>3, <2>1 DEF EditorTruthful
<1>5. CASE q.result = "conflict"
  <2>1. Answered(e, q).base = editor[e].base /\ Answered(e, q).remote = q.answer
    BY <1>1, <1>5 DEF Answered, Editor
  <2> QED BY <1>1, <1>2, <2>1 DEF EditorTruthful
<1>6. CASE q.result \notin {"saved", "conflict"}
  <2>1. Answered(e, q).base = editor[e].base /\ Answered(e, q).remote = editor[e].remote
    BY <1>1, <1>6 DEF Answered, Editor
  <2> QED BY <1>1, <2>1 DEF EditorTruthful
<1> QED BY <1>4, <1>5, <1>6

LEMMA EndFlushStep ==
  ASSUME PadsInv, NEW e \in Editors, EndFlush(e)
  PROVE  PadsInv'
<1> DEFINE q == save[e]["flush"]
<1>1. TypeOK BY DEF PadsInv
<1>2. q \in Save /\ SaveTruthful(q, pad, lives) BY TypeFacts DEF Slots
<1>3. Answered(e, q) \in Editor BY <1>1, <1>2, AnsweredType
<1>4. EditorTruthful(Answered(e, q), pad, lives) BY <1>2, AnsweredTruthful
<1>5. EditorsOK BY <1>1, <1>3, <1>4, NewEditor DEF EndFlush
<1>6. NoSave \in Save /\ SaveTruthful(NoSave, pad, lives)
  BY ConstantTypes, ViewTruthful, NoPadType DEF PadsInv, NoSave, SaveTruthful
<1>7. SavesOK BY <1>1, <1>6, NewSave DEF EndFlush, SaveKnown, Slots
<1>8. ServerOK /\ LoadsOK /\ OthersOK
  BY <1>1, NothingMoves, SameLoads, SameOthers DEF EndFlush
<1> QED BY <1>5, <1>7, <1>8, InvFromParts

LEMMA LeaveStep ==
  ASSUME PadsInv, NEW e \in Editors, Disconnect(e) \/ Hide(e) \/ Leave(e)
  PROVE  PadsInv'
<1>1. TypeOK BY DEF PadsInv
<1>2. editor[e].base \in Snapshot /\ Truthful(editor[e].base, pad, lives)
  BY TypeFacts DEF EditorTruthful
<1>3. ServerOK /\ LoadsOK /\ OthersOK
  BY <1>1, NothingMoves, SameLoads, SameOthers DEF Disconnect, Hide, Leave
<1>4. EditorsOK
  BY <1>1, NewStatus, SameEditors, TabCloses DEF Disconnect, Hide, Leave, Statuses
<1>5. SavesOK
  <2>1. CASE Disconnect(e) BY <2>1, ForgetSaves DEF Disconnect
  <2>2. CASE Hide(e) BY <1>2, <2>2, SendSaves DEF Hide, Slots
  <2>3. CASE Leave(e)
    <3>1. CASE Unsaved(e) BY <1>2, <2>3, <3>1, SendSaves DEF Leave, Slots
    <3>2. CASE ~Unsaved(e) /\ save[e]["flush"].pc # "idle"
      BY <2>3, <3>2, ForgetSaves DEF Leave
    <3>3. CASE ~Unsaved(e) /\ save[e]["flush"].pc = "idle"
      BY <1>1, <2>3, <3>3, SameSaves DEF Leave
    <3> QED BY <3>1, <3>2, <3>3
  <2> QED BY <2>1, <2>2, <2>3
<1> QED BY <1>3, <1>4, <1>5, InvFromParts

-----------------------------------------------------------------------------
(* The invariant.                                                          *)

LEMMA InitInv == Init => PadsInv
<1> SUFFICES ASSUME Init PROVE PadsInv
  OBVIOUS
<1>1. TypeOK BY ConstantTypes DEF Init, TypeOK
<1>2. Truthful(NoPad, pad, lives) BY <1>1, ViewTruthful
<1>3. /\ Closed.base = NoPad /\ Closed.remote = NoPad /\ NoLoad.answer = NoPad
      /\ NoSave.base = NoPad /\ NoSave.answer = NoPad
  BY DEF Closed, NoLoad, NoSave
<1>4. EditorsKnow BY <1>2, <1>3 DEF Init, EditorsKnow, EditorTruthful
<1>5. SavesKnow BY <1>2, <1>3, NoPadType DEF Init, SavesKnow, SaveTruthful
<1>6. LoadsKnow BY <1>2, <1>3, NoPadType DEF Init, LoadsKnow
<1> QED BY <1>1, <1>4, <1>5, <1>6 DEF PadsInv

LEMMA NextInv == PadsInv /\ [Next]_vars => PadsInv'
<1> SUFFICES ASSUME PadsInv, [Next]_vars PROVE PadsInv'
  OBVIOUS
<1>1. ASSUME NEW e \in Editors, NEW s \in Slots,
             CreateFirst(e, s) \/ UpdateFrom(e, s) \/ ReadBack(e, s) \/ ReadCurrent(e, s)
               \/ SaveFails(e, s)
      PROVE  PadsInv'
  <2>1. CASE CreateFirst(e, s) BY <2>1, CreateFirstStep
  <2>2. CASE UpdateFrom(e, s) BY <2>2, UpdateFromStep
  <2>3. CASE ReadBack(e, s) BY <2>3, RespondStep DEF ReadBack, Results
  <2>4. CASE ReadCurrent(e, s)
    <3>1. PICK result \in Results : Respond(e, s, result)
      BY <2>4 DEF ReadCurrent, Results
    <3> QED BY <3>1, RespondStep
  <2>5. CASE SaveFails(e, s) BY <2>5, SaveFailsStep
  <2> QED BY <1>1, <2>1, <2>2, <2>3, <2>4, <2>5
<1>2. ASSUME NEW a \in Accounts,
             BeginLock(a) \/ LockRow(a) \/ LookAtLock(a) \/ CreateLocked(a)
      PROVE  PadsInv'
  BY <1>2, LockStep
<1>3. ASSUME NEW e \in Editors,
             Open(e) \/ Opened(e) \/ ReadPad(e) \/ Poll(e) \/ Polled(e) \/ LoadFails(e)
      PROVE  PadsInv'
  BY <1>3, LoadStep
<1>4. ASSUME NEW e \in Editors,
             \/ Type(e) \/ Flush(e) \/ KeepMine(e) \/ TakeRemote(e) \/ EndFlush(e)
             \/ Disconnect(e) \/ Hide(e) \/ Leave(e) \/ EndLeft(e)
      PROVE  PadsInv'
  BY <1>4, TypeStep, FlushStep, EndFlushStep, LeaveStep, EndLeftStep
<1>5. CASE Unlock \/ DeleteExpired \/ RemoveAsAdmin BY <1>5, RowStep
<1>6. CASE UNCHANGED vars
  BY <1>6, NothingMoves, SameEditors, SameSaves, SameLoads, SameOthers, InvFromParts
     DEF vars, serverVars, PadsInv
<1> QED BY <1>1, <1>2, <1>3, <1>4, <1>5, <1>6 DEF Next

LEMMA InvAlways == Spec => []PadsInv
  BY InitInv, NextInv, PTL DEF Spec

-----------------------------------------------------------------------------
(* The theorems.                                                           *)

\* Type correctness: the row, its version and its life, what every tab takes
\* for the pad, and every request and answer on its way.
THEOREM PadsTypeCorrect == Spec => []TypeOK
  BY InvAlways, PTL DEF PadsInv

\* Which steps leave the row alone, and which the saves.
LEMMA AnswersKeepRow ==
  ASSUME NEW e \in Editors, NEW s \in Slots,
         ReadBack(e, s) \/ ReadCurrent(e, s) \/ SaveFails(e, s)
  PROVE  UNCHANGED serverVars
  BY DEF ReadBack, ReadCurrent, Respond, SaveFails, serverVars

LEMMA TabsKeepRow ==
  ASSUME NEW e \in Editors,
         \/ Open(e) \/ Opened(e) \/ ReadPad(e) \/ Poll(e) \/ Polled(e) \/ LoadFails(e)
         \/ Type(e) \/ Flush(e) \/ KeepMine(e) \/ TakeRemote(e) \/ EndFlush(e)
         \/ Disconnect(e) \/ Hide(e) \/ Leave(e) \/ EndLeft(e)
  PROVE  UNCHANGED serverVars
  BY DEF Open, Opened, ReadPad, Poll, Polled, LoadFails, Type, Flush, KeepMine, TakeRemote,
         EndFlush, Disconnect, Hide, Leave, EndLeft, serverVars

LEMMA LocksKeepSaves ==
  ASSUME NEW a \in Accounts,
         BeginLock(a) \/ LockRow(a) \/ LookAtLock(a) \/ CreateLocked(a)
  PROVE  UNCHANGED save
  BY DEF BeginLock, LockRow, LookAtLock, CreateLocked

LEMMA AdminKeepsSaves ==
  ASSUME Unlock \/ DeleteExpired \/ RemoveAsAdmin
  PROVE  UNCHANGED save
  BY DEF Unlock, DeleteExpired, RemoveAsAdmin

\* Only updateFrom replaces the text of a pad, and only for a save that waits
\* to be written.
LEMMA OnlyUpdates ==
  ASSUME TypeOK, Next, NEW e \in Editors, NEW s \in Slots, Replaces(e, s)
  PROVE  UpdateFrom(e, s) /\ Matches(e, save[e][s].base)
<1>1. /\ save[e][s].pc = "write" /\ save'[e][s].pc # "write"
      /\ save'[e][s] # save[e][s] /\ save' # save
      /\ pad # None /\ pad' # pad
  BY DEF Replaces
<1>2. ~UNCHANGED serverVars BY <1>1 DEF serverVars
<1>3. PICK d \in Editors, t \in Slots : CreateFirst(d, t) \/ UpdateFrom(d, t)
  BY <1>1, <1>2, AnswersKeepRow, TabsKeepRow, LocksKeepSaves, AdminKeepsSaves DEF Next
<1>4. UpdateFrom(d, t) /\ Matches(d, save[d][t].base)
  BY <1>1, <1>2, <1>3 DEF CreateFirst, UpdateFrom
<1>5. save' = [save EXCEPT ![d][t].pc = "readBack"] BY <1>4 DEF UpdateFrom, Goto
<1>6. d = e /\ t = s
  <2>1. save \in [Editors -> [Slots -> Save]] BY DEF TypeOK
  <2>2. CASE d # e BY <1>1, <1>5, <2>1, <2>2
  <2>3. CASE d = e /\ t # s BY <1>1, <1>5, <2>1, <2>3
  <2> QED BY <2>2, <2>3
<1> QED BY <1>4, <1>6

\* save (pads.service.ts): whatever tabs, saves, polls, answers, locks and
\* deletions interleave, no text is replaced that the author of the save was not
\* shown, but for the two cases that the version cannot tell.
THEOREM NoBlindReplacement == Spec => NothingOverwrittenUnseen
<1>1. ASSUME PadsInv, [Next]_vars, NEW e \in Editors, NEW s \in Slots, Replaces(e, s)
      PROVE  LET base == save[e][s].base IN
             base.text = pad.text \/ base.life # pad.life \/ base.blind
  <2>1. Next BY <1>1 DEF vars, Replaces
  <2>2. Matches(e, save[e][s].base) BY <1>1, <2>1, OnlyUpdates DEF PadsInv
  <2>3. pad # None /\ save[e][s].base.version = pad.version BY <2>2 DEF Matches
  <2>4. Truthful(save[e][s].base, pad, lives) BY <1>1, TypeFacts DEF SaveTruthful
  <2>5. pad.version \in Nat BY <1>1, <2>3, PadType DEF PadsInv
  <2> QED BY <2>3, <2>4, <2>5 DEF Truthful
<1>2. PadsInv /\ [Next]_vars =>
        [\A e \in Editors, s \in Slots : Replaces(e, s) =>
           LET base == save[e][s].base IN
           base.text = pad.text \/ base.life # pad.life \/ base.blind]_vars
  BY <1>1
<1> QED BY <1>2, InvAlways, PTL DEF Spec, NothingOverwrittenUnseen

\* lock and updateFrom: while an account holds the lock the text changes only
\* with a save of its own.
THEOREM LocksHold == Spec => LockHolds
<1>1. ASSUME PadsInv, Next, pad # None, pad' # None, pad.lockedBy # None,
             pad'.text # pad.text
      PROVE  save'[pad.lockedBy] # save[pad.lockedBy]
  <2>1. PICK e \in Editors, s \in Slots : UpdateFrom(e, s)
    <3>1. ~UNCHANGED serverVars BY <1>1 DEF serverVars
    <3>2. ASSUME NEW locker PROVE pad' # [pad EXCEPT !.lockedBy = locker]
      BY <1>1, PadType DEF PadsInv, Pad
    <3>3. \A a \in Accounts :
            ~(BeginLock(a) \/ LockRow(a) \/ LookAtLock(a) \/ CreateLocked(a))
      BY <1>1, <3>1, <3>2 DEF BeginLock, LockRow, LookAtLock, CreateLocked, serverVars
    <3>4. ~(Unlock \/ DeleteExpired \/ RemoveAsAdmin)
      BY <1>1, <3>2 DEF Unlock, DeleteExpired, RemoveAsAdmin
    <3>5. \A e \in Editors, s \in Slots : ~CreateFirst(e, s)
      BY <1>1, <3>1 DEF CreateFirst
    <3> QED BY <1>1, <3>1, <3>3, <3>4, <3>5, AnswersKeepRow, TabsKeepRow DEF Next
  <2>2. Matches(e, save[e][s].base) BY <1>1, <2>1 DEF UpdateFrom, serverVars
  <2>3. pad.lockedBy = e BY <1>1, <2>2 DEF Matches, LockedFor
  <2>4. save[e][s].pc = "write" /\ save' = [save EXCEPT ![e][s].pc = "readBack"]
    BY <2>1, <2>2 DEF UpdateFrom, Goto
  <2>5. save'[e][s].pc = "readBack" BY <1>1, <2>4, TypeFacts DEF PadsInv, TypeOK, Save
  <2> QED BY <2>3, <2>4, <2>5
<1>2. PadsInv /\ [Next]_vars =>
        [pad # None /\ pad' # None /\ pad.lockedBy # None /\ pad'.text # pad.text
           => save'[pad.lockedBy] # save[pad.lockedBy]]_vars
  BY <1>1
<1> QED BY <1>2, InvAlways, PTL DEF Spec, LockHolds

\* A tab whose text is the one its base stands for, if it says "saved".
Settled(d) == d.status = "saved" => d.doc = d.base.text

LEMMA NewSettled ==
  ASSUME PadsInv, SavedIsStored, NEW e \in Editors, NEW d, Settled(d),
         editor' = [editor EXCEPT ![e] = d]
  PROVE  SavedIsStored'
  BY DEF PadsInv, TypeOK, SavedIsStored, Settled

LEMMA StatusSettled ==
  ASSUME PadsInv, SavedIsStored, NEW e \in Editors, NEW status, status # "saved",
         editor' = [editor EXCEPT ![e].status = status]
  PROVE  SavedIsStored'
<1>1. editor[e] \in Editor BY TypeFacts
<1>2. Settled([editor[e] EXCEPT !.status = status]) BY <1>1 DEF Settled, Editor
<1> QED BY <1>2, NewSettled

LEMMA AppliedSettled == ASSUME NEW x PROVE Settled(Applied(x))
  BY DEF Settled, Applied

LEMMA AnsweredSettled ==
  ASSUME PadsInv, NEW e \in Editors, NEW q \in Save
  PROVE  Settled(Answered(e, q))
<1>1. editor[e] \in Editor BY TypeFacts
<1>2. SavedBase(q).text = q.draft BY DEF SavedBase, Save, Snapshot
<1>3. CASE q.result = "saved"
  <2>1. /\ Answered(e, q).base = SavedBase(q) /\ Answered(e, q).doc = editor[e].doc
        /\ Answered(e, q).status = IF editor[e].doc = q.draft THEN "saved" ELSE "dirty"
    BY <1>1, <1>3 DEF Answered, Editor
  <2> QED BY <1>2, <2>1 DEF Settled
<1>4. CASE q.result = "conflict"
  <2>1. Answered(e, q).status = "conflict" BY <1>1, <1>4 DEF Answered, Editor
  <2> QED BY <2>1 DEF Settled
<1>5. CASE q.result \notin {"saved", "conflict"}
  <2>1. Answered(e, q).status = "error" BY <1>1, <1>5 DEF Answered, Editor
  <2> QED BY <2>1 DEF Settled
<1> QED BY <1>3, <1>4, <1>5

\* flush and change: a tab never says "saved" of a text typed while its save, or
\* a poll, was under way.
THEOREM SavedMeansStored == Spec => []SavedIsStored
<1>1. Init => SavedIsStored BY DEF Init, SavedIsStored, Closed
<1>2. ASSUME PadsInv, SavedIsStored, [Next]_vars PROVE SavedIsStored'
  <2>1. CASE UNCHANGED editor BY <1>2, <2>1 DEF SavedIsStored
  <2>2. ASSUME NEW e \in Editors,
               \/ Open(e) \/ Opened(e) \/ Polled(e) \/ LoadFails(e) \/ Type(e) \/ Flush(e)
               \/ KeepMine(e) \/ TakeRemote(e) \/ EndFlush(e) \/ Disconnect(e) \/ Leave(e)
        PROVE  SavedIsStored'
    <3>1. editor[e] \in Editor BY <1>2, TypeFacts
    <3>2. CASE Open(e) \/ Flush(e) \/ Disconnect(e)
      BY <1>2, <3>2, StatusSettled DEF Open, Flush, Disconnect
    <3>3. CASE Opened(e) \/ TakeRemote(e)
      BY <1>2, <3>3, NewSettled, AppliedSettled DEF Opened, TakeRemote
    <3>4. CASE Polled(e)
      BY <1>2, <2>1, <3>4, NewSettled, AppliedSettled DEF Polled
    <3>5. CASE LoadFails(e) BY <1>2, <2>1, <3>5, StatusSettled DEF LoadFails
    <3>6. CASE Type(e)
      <4> DEFINE d == [editor[e] EXCEPT !.doc = typed + 1,
                         !.status = IF @ \in {"conflict", "saving"} THEN @ ELSE "dirty"]
      <4>1. d.status # "saved" BY <3>1 DEF Editor
      <4>2. editor' = [editor EXCEPT ![e] = d] BY <3>6 DEF Type
      <4> HIDE DEF d
      <4> QED BY <1>2, <4>1, <4>2, NewSettled DEF Settled
    <3>7. CASE KeepMine(e)
      <4> DEFINE d == [editor[e] EXCEPT !.status = "saving", !.remote = NoPad]
      <4>1. d.status # "saved" BY <3>1 DEF Editor
      <4>2. editor' = [editor EXCEPT ![e] = d] BY <3>7 DEF KeepMine
      <4> HIDE DEF d
      <4> QED BY <1>2, <4>1, <4>2, NewSettled DEF Settled
    <3>8. CASE EndFlush(e)
      <4>1. save[e]["flush"] \in Save BY <1>2, TypeFacts DEF Slots
      <4> QED BY <1>2, <3>8, <4>1, NewSettled, AnsweredSettled DEF EndFlush
    <3>9. CASE Leave(e)
      <4>1. Settled(Closed) BY DEF Settled, Closed
      <4> QED BY <1>2, <3>9, <4>1, NewSettled DEF Leave
    <3> QED BY <2>2, <3>2, <3>3, <3>4, <3>5, <3>6, <3>7, <3>8, <3>9
  <2>3. ASSUME NEW e \in Editors, NEW s \in Slots,
               CreateFirst(e, s) \/ UpdateFrom(e, s) \/ ReadBack(e, s) \/ ReadCurrent(e, s)
                 \/ SaveFails(e, s)
        PROVE  UNCHANGED editor
    BY <2>3 DEF CreateFirst, UpdateFrom, ReadBack, ReadCurrent, Respond, SaveFails
  <2>4. ASSUME NEW e \in Editors, ReadPad(e) \/ Poll(e) \/ Hide(e) \/ EndLeft(e)
        PROVE  UNCHANGED editor
    BY <2>4 DEF ReadPad, Poll, Hide, EndLeft
  <2>5. ASSUME NEW a \in Accounts,
               BeginLock(a) \/ LockRow(a) \/ LookAtLock(a) \/ CreateLocked(a)
        PROVE  UNCHANGED editor
    BY <2>5 DEF BeginLock, LockRow, LookAtLock, CreateLocked
  <2>6. CASE Unlock \/ DeleteExpired \/ RemoveAsAdmin \/ UNCHANGED vars
    BY <2>1, <2>6 DEF Unlock, DeleteExpired, RemoveAsAdmin, vars
  <2> QED BY <1>2, <2>1, <2>2, <2>3, <2>4, <2>5, <2>6 DEF Next
<1>3. PadsInv /\ SavedIsStored /\ [Next]_vars => SavedIsStored' BY <1>2
<1> QED BY <1>1, <1>3, InvAlways, PTL DEF Spec

-----------------------------------------------------------------------------
(***************************************************************************)
(* The items of a pack and the tasks that were made of them.               *)
(***************************************************************************)

HIDE PadsAssumption
USE TaskPacksAssumption, NothingAssumption

PackRequest ==
  [op : Operations \cup {"none"},
   pc : {"idle", "read", "legacy", "tasks", "write", "create", "link", "clear", "apply", "mark"},
   user : Users \cup {Nothing}, item : Item \cup {Nothing}, source : Shared \cup {Nothing},
   tasks : [Users -> Task \cup {Nothing}], seen : SUBSET Update, update : Update \cup {Nothing}]

\* What a request has read when it gets to a statement.
HasRead(q) ==
  /\ q.pc \in {"legacy", "tasks", "write", "create", "clear", "link"} => q.item \in Item
  /\ q.pc \in {"tasks", "write"} => q.source \in Shared
  /\ q.pc \in {"create", "clear", "link", "apply", "mark"} => q.user \in Users
  /\ q.pc \in {"apply", "mark"} => q.update \in Update
  /\ q.pc \in {"legacy", "read", "tasks", "write"} => q.op = "publish"
PackTyped ==
  /\ PackTypes /\ req \in [Requests -> PackRequest]
  /\ \A r \in Requests : HasRead(req[r])

\* One publication at a time: what it read of the proposals is all there can be
\* when it writes, as meanwhile they only become fewer.
Lone == calm \/ "publish" \notin Twice
Publishing ==
  Lone =>
    /\ \A r, s \in Requests : r # s => req[r].op # "publish" \/ req[s].op # "publish"
    /\ \A r \in Requests : req[r].pc = "write" => pending \subseteq req[r].seen
    /\ \A p, o \in pending : p.user = o.user => p = o

\* Requests one after another: what the only one under way has read is so.
StillSo(q) ==
  /\ q.pc \in {"legacy", "tasks", "write", "create", "clear", "link"} => item \in Item /\ q.item = item
  /\ q.pc \in {"tasks", "write"} => q.source = source
  /\ q.pc = "write" =>
       /\ q.seen = pending
       /\ q.tasks = [u \in Users |-> IF task[u] # Nothing /\ task[u].linked THEN task[u] ELSE Nothing]
  /\ q.pc \in {"apply", "mark"} => q.update \in pending /\ q.user = q.update.user
  /\ q.pc = "mark" /\ q.op # "reject" /\ item # Nothing /\ task[q.user] # Nothing
       /\ task[q.user].linked /\ ~task[q.user].own /\ ~task[q.user].taken
       => task[q.user].fields = item.fields
Follows(u) ==
  item # Nothing /\ task[u] # Nothing /\ task[u].linked /\ ~task[u].own /\ ~task[u].taken =>
    /\ \A p \in Of(u, pending) : item.fields = Override(task[u].fields, p.changes)
    /\ Of(u, pending) = {} => item.fields = task[u].fields
InStep ==
  calm =>
    /\ \A r, s \in Requests : r # s => req[r] = Idle \/ req[s] = Idle
    /\ \A r \in Requests : StillSo(req[r])
    /\ \A p \in pending : task[p.user] # Nothing /\ task[p.user].linked
    /\ \A u \in Users : Follows(u)
PacksInv == PackTyped /\ Publishing /\ InStep

-----------------------------------------------------------------------------
LEMMA NoPackRequest ==
  /\ Idle \in PackRequest /\ HasRead(Idle)
  /\ Idle.pc = "idle" /\ Idle.op = "none"
<1>1. /\ Idle.pc = "idle" /\ Idle.op = "none" /\ Idle.item = Nothing /\ Idle.source = Nothing
      /\ Idle.user = Nothing /\ Idle.seen = {} /\ Idle.update = Nothing
  BY DEF Idle
<1>2. [u \in Users |-> Nothing] \in [Users -> Task \cup {Nothing}]
  OBVIOUS
<1>3. Idle \in PackRequest
  BY <1>2 DEF Idle, PackRequest
<1> QED BY <1>1, <1>3 DEF HasRead

\* A request that starts, goes on or ends; the others stay as they are.
LEMMA PackGoesOn ==
  ASSUME PacksInv, NEW r \in Requests, NEW q \in PackRequest, HasRead(q),
         req' = [req EXCEPT ![r] = q], calm' = calm, PackTypes',
         Lone /\ q.op = "publish" => req[r].op = "publish" \/ \A s \in Requests : req[s].op # "publish",
         Lone /\ q.pc = "write" => pending' \subseteq q.seen,
         pending' \subseteq pending \/ req[r].op = "publish",
         Lone => \A p, o \in pending' : p.user = o.user => p = o,
         calm => \A s \in Requests : s # r => req[s] = Idle,
         calm => /\ StillSo(q)'
                 /\ (\A p \in pending : task[p.user] # Nothing /\ task[p.user].linked)'
                 /\ \A u \in Users : Follows(u)'
  PROVE  PacksInv'
<1>0. /\ req \in [Requests -> PackRequest] /\ \A s \in Requests : HasRead(req[s])
      /\ \A s \in Requests : req'[s] = IF s = r THEN q ELSE req[s]
  BY DEF PacksInv, PackTyped
<1>1. PackTyped'
  BY <1>0 DEF PackTyped, HasRead
<1>2. Publishing'
  <2> SUFFICES ASSUME Lone
               PROVE  /\ \A s, t \in Requests : s # t => req'[s].op # "publish" \/ req'[t].op # "publish"
                      /\ \A s \in Requests : req'[s].pc = "write" => pending' \subseteq req'[s].seen
    BY DEF Publishing, Lone
  <2>1. ASSUME NEW s \in Requests, NEW t \in Requests, s # t
        PROVE  req'[s].op # "publish" \/ req'[t].op # "publish"
    BY <1>0, <2>1 DEF PacksInv, Publishing
  <2>2. ASSUME NEW s \in Requests, req'[s].pc = "write"  PROVE pending' \subseteq req'[s].seen
    <3>1. CASE s = r
      BY <1>0, <2>2, <3>1
    <3>2. CASE s # r
      <4>1. req[s].op = "publish" /\ pending \subseteq req[s].seen
        BY <1>0, <2>2, <3>2 DEF PacksInv, Publishing, HasRead
      <4>2. pending' \subseteq pending
        BY <4>1, <3>2 DEF PacksInv, Publishing
      <4> QED BY <4>1, <4>2, <3>2, <1>0
    <3> QED BY <3>1, <3>2
  <2> QED BY <2>1, <2>2
<1>3. InStep'
  <2> SUFFICES ASSUME calm
               PROVE  /\ \A s, t \in Requests : s # t => req'[s] = Idle \/ req'[t] = Idle
                      /\ \A s \in Requests : StillSo(req[s])'
    BY DEF InStep
  <2>1. ASSUME NEW s \in Requests  PROVE StillSo(req[s])'
    <3>1. CASE s = r
      <4>1. req'[s] = q
        BY <1>0, <3>1
      <4> QED BY <4>1 DEF StillSo
    <3>2. CASE s # r
      <4>1. req'[s] = Idle
        BY <1>0, <3>2
      <4> QED BY <4>1, NoPackRequest DEF StillSo
    <3> QED BY <3>1, <3>2
  <2> QED BY <1>0, <2>1
<1> QED BY <1>1, <1>2, <1>3 DEF PacksInv

LEMMA PackBetween ==
  ASSUME PacksInv, Free, UNCHANGED <<req, calm>>, PackTypes', pending' \subseteq pending,
         calm => /\ (\A p \in pending : task[p.user] # Nothing /\ task[p.user].linked)'
                 /\ \A u \in Users : Follows(u)'
  PROVE  PacksInv'
<1>1. PackTyped'
  BY DEF PacksInv, PackTyped, HasRead
<1>2. Publishing'
  BY DEF PacksInv, Publishing, Lone
<1>3. InStep'
  <2> SUFFICES ASSUME calm  PROVE \A s \in Requests : StillSo(req[s])'
    BY DEF PacksInv, InStep
  <2>1. \A s \in Requests : req'[s] = Idle
    BY DEF Free, AllIdle
  <2> QED BY <2>1, NoPackRequest DEF StillSo
<1> QED BY <1>1, <1>2, <1>3 DEF PacksInv

\* Of the types of what there is.
LEMMA PackFacts ==
  ASSUME PacksInv
  PROVE  /\ source \in Shared \cup {Nothing} /\ item \in Item \cup {Nothing}
         /\ task \in [Users -> Task \cup {Nothing}] /\ pending \subseteq Update
         /\ made \in Nat /\ edits \in Nat /\ calm \in BOOLEAN
         /\ \A p \in pending : p.user \in Users /\ p.changes \in Changes
BY DEF PacksInv, PackTyped, PackTypes, Update

LEMMA PackByHand ==
  ASSUME PacksInv,
         EditSource \/ DeleteSource \/ RemovePack
           \/ \E u \in Users : EditTask(u) \/ CompleteTask(u) \/ DeleteTask(u)
  PROVE  PacksInv'
<1>0. /\ source \in Shared \cup {Nothing} /\ item \in Item \cup {Nothing}
      /\ task \in [Users -> Task \cup {Nothing}] /\ pending \subseteq Update
      /\ made \in Nat /\ edits \in Nat /\ calm \in BOOLEAN
      /\ \A p \in pending : p.user \in Users /\ p.changes \in Changes
  BY PackFacts
<1>1. CASE EditSource \/ DeleteSource
  <2>0. /\ UNCHANGED <<task, pending, made, calm, req>> /\ Free
        /\ source' \in Shared \cup {Nothing} /\ edits' \in Nat
    BY <1>0, <1>1 DEF EditSource, DeleteSource
  <2>2. /\ item' \in Item \cup {Nothing} /\ (item' = Nothing <=> item = Nothing)
        /\ item # Nothing => item'.fields = item.fields
    <3>1. CASE item' = item
      BY <1>0, <3>1
    <3>2. CASE item # Nothing /\ item' = [item EXCEPT !.linked = FALSE]
      BY <1>0, <3>2 DEF Item
    <3> QED BY <1>1, <3>1, <3>2 DEF EditSource, DeleteSource
  <2>1. PackTypes'
    BY <1>0, <2>0, <2>2 DEF PackTypes
  <2>3. calm => /\ (\A p \in pending : task[p.user] # Nothing /\ task[p.user].linked)'
                /\ \A u \in Users : Follows(u)'
    BY <2>0, <2>2 DEF PacksInv, InStep, Follows, Of
  <2> QED BY <2>0, <2>1, <2>3, PackBetween
<1>2. CASE RemovePack
  <2>1. PackTypes'
    <3>1. ASSUME NEW u \in Users  PROVE task'[u] \in Task \cup {Nothing}
      BY <1>0, <1>2 DEF RemovePack, Task
    <3> QED BY <1>0, <1>2, <3>1 DEF RemovePack, PackTypes
  <2> QED BY <1>2, <2>1, PackBetween DEF RemovePack, Follows
<1>3. ASSUME NEW u \in Users, EditTask(u)  PROVE PacksInv'
  <2>1. PICK v \in Shared : task' = [task EXCEPT ![u].fields = v, ![u].own = TRUE]
    BY <1>3 DEF EditTask
  <2>2. PICK t : t = [task[u] EXCEPT !.fields = v, !.own = TRUE]  OBVIOUS
  <2>3. t \in Task /\ t.own /\ t.linked = task[u].linked
    BY <1>0, <1>3, <2>2 DEF EditTask, Task
  <2>4. task' = [task EXCEPT ![u] = t]
    BY <1>0, <2>1, <2>2
  <2>5. PackTypes'
    BY <1>0, <1>3, <2>3, <2>4 DEF EditTask, PackTypes
  <2>6. calm => /\ (\A p \in pending : task[p.user] # Nothing /\ task[p.user].linked)'
                /\ \A w \in Users : Follows(w)'
    <3>1. UNCHANGED <<item, pending>> /\ task[u] # Nothing
      BY <1>3 DEF EditTask
    <3>2. /\ task'[u] = t /\ \A w \in Users : w # u => task'[w] = task[w]
          /\ t # Nothing
      BY <1>0, <2>3, <2>4
    <3>3. calm => (\A p \in pending : task[p.user] # Nothing /\ task[p.user].linked)'
      BY <1>0, <2>3, <3>1, <3>2 DEF PacksInv, InStep
    <3>4. ASSUME calm, NEW w \in Users  PROVE Follows(w)'
      BY <2>3, <3>1, <3>2, <3>4 DEF PacksInv, InStep, Follows, Of
    <3> QED BY <3>3, <3>4
  <2> QED BY <1>3, <2>5, <2>6, PackBetween DEF EditTask
<1>4. ASSUME NEW u \in Users, CompleteTask(u)  PROVE PacksInv'
  <2>2. PICK t : t = [task[u] EXCEPT !.done = TRUE]  OBVIOUS
  <2>3. /\ t \in Task /\ t.own = task[u].own /\ t.taken = task[u].taken
        /\ t.linked = task[u].linked /\ t.fields = task[u].fields
    BY <1>0, <1>4, <2>2 DEF CompleteTask, Task
  <2>4. task' = [task EXCEPT ![u] = t]
    BY <1>0, <1>4, <2>2 DEF CompleteTask
  <2>5. PackTypes'
    BY <1>0, <1>4, <2>3, <2>4 DEF CompleteTask, PackTypes
  <2>6. calm => /\ (\A p \in pending : task[p.user] # Nothing /\ task[p.user].linked)'
                /\ \A w \in Users : Follows(w)'
    <3>1. UNCHANGED <<item, pending>> /\ task[u] # Nothing
      BY <1>4 DEF CompleteTask
    <3>2. /\ task'[u] = t /\ \A w \in Users : w # u => task'[w] = task[w]
          /\ t # Nothing
      BY <1>0, <2>3, <2>4
    <3>3. calm => (\A p \in pending : task[p.user] # Nothing /\ task[p.user].linked)'
      BY <1>0, <2>3, <3>1, <3>2 DEF PacksInv, InStep
    <3>4. ASSUME calm, NEW w \in Users  PROVE Follows(w)'
      BY <2>3, <3>1, <3>2, <3>4 DEF PacksInv, InStep, Follows, Of
    <3> QED BY <3>3, <3>4
  <2> QED BY <1>4, <2>5, <2>6, PackBetween DEF CompleteTask
<1>5. ASSUME NEW u \in Users, DeleteTask(u)  PROVE PacksInv'
  <2>5. PackTypes'
    BY <1>0, <1>5 DEF DeleteTask, PackTypes
  <2>6. calm => /\ (\A p \in pending : task[p.user] # Nothing /\ task[p.user].linked)'
                /\ \A w \in Users : Follows(w)'
    BY <1>0, <1>5 DEF DeleteTask, PacksInv, InStep, Follows, Of
  <2> QED BY <1>5, <2>5, <2>6, PackBetween DEF DeleteTask
<1> QED BY <1>1, <1>2, <1>3, <1>4, <1>5

\* What is known of a request that is under way.
LEMMA PackRuns ==
  ASSUME PacksInv, NEW r \in Requests
  PROVE  /\ req \in [Requests -> PackRequest] /\ req[r] \in PackRequest /\ HasRead(req[r])
         /\ calm => /\ req[r].pc # "idle" => \A s \in Requests : s # r => req[s] = Idle
                    /\ StillSo(req[r])
                    /\ \A p \in pending : task[p.user] # Nothing /\ task[p.user].linked
                    /\ \A u \in Users : Follows(u)
         /\ Lone => \A p, o \in pending : p.user = o.user => p = o
<1>1. req[r].pc # "idle" => req[r] # Idle
  BY NoPackRequest
<1> QED BY <1>1 DEF PacksInv, PackTyped, Publishing, InStep

\* Nothing but the request changes.
LEMMA PackReads ==
  ASSUME PacksInv, NEW r \in Requests, NEW q \in PackRequest, HasRead(q),
         req' = [req EXCEPT ![r] = q], UNCHANGED <<source, item, task, pending, made, edits, calm>>,
         Lone /\ q.op = "publish" => req[r].op = "publish" \/ \A s \in Requests : req[s].op # "publish",
         Lone /\ q.pc = "write" => pending \subseteq q.seen,
         calm => (\A s \in Requests : s # r => req[s] = Idle) /\ StillSo(q)
  PROVE  PacksInv'
<1>1. PackTypes'
  BY DEF PacksInv, PackTyped, PackTypes
<1>2. calm => /\ StillSo(q)'
              /\ (\A p \in pending : task[p.user] # Nothing /\ task[p.user].linked)'
              /\ \A u \in Users : Follows(u)'
  BY DEF PacksInv, InStep, StillSo, Follows, Of
<1>3. Lone => \A p, o \in pending' : p.user = o.user => p = o
  BY DEF PacksInv, Publishing
<1> QED BY <1>1, <1>2, <1>3, PackGoesOn

LEMMA PackStarts ==
  ASSUME PacksInv, NEW r \in Requests, NEW op \in Operations, NEW p \in PackRequest,
         p.pc \notin {"tasks", "write"}, op # "publish" => p.pc \notin {"legacy", "read"},
         HasRead([p EXCEPT !.op = op]), Start(r, op, p),
         UNCHANGED <<source, item, task, pending, made, edits, calm>>,
         calm => StillSo([p EXCEPT !.op = op])
  PROVE  PacksInv'
<1>1. PICK q : q = [p EXCEPT !.op = op]  OBVIOUS
<1>2. q \in PackRequest /\ q.op = op /\ q.pc = p.pc
  BY <1>1 DEF PackRequest
<1>3. req' = [req EXCEPT ![r] = q] /\ req[r] = Idle
  BY <1>1 DEF Start
<1>4. calm => \A s \in Requests : req[s] = Idle
  BY DEF Start, AllIdle
<1>5. Lone /\ q.op = "publish" => \A s \in Requests : req[s].op # "publish"
  BY <1>2, <1>4, NoPackRequest DEF Start, Lone
<1> QED BY <1>1, <1>2, <1>3, <1>4, <1>5, PackReads

LEMMA PackAsked ==
  ASSUME PacksInv, NEW r \in Requests,
         \/ Publish(r)
         \/ \E u \in Users, replace \in BOOLEAN : Import(r, u, replace)
         \/ \E p \in pending : Accept(r, p) \/ Reject(r, p)
  PROVE  PacksInv'
<1>0. /\ item \in Item \cup {Nothing} /\ pending \subseteq Update
      /\ \A p \in pending : p.user \in Users
  BY PackFacts
<1>1. CASE Publish(r)
  <2>1. PICK p : p = [Idle EXCEPT !.pc = IF item.linked THEN "read" ELSE "legacy", !.item = item]
    OBVIOUS
  <2>2. p \in PackRequest /\ p.pc \in {"read", "legacy"} /\ p.item = item /\ item \in Item
    BY <1>0, <1>1, <2>1, NoPackRequest DEF Publish, PackRequest
  <2>3. Start(r, "publish", p)
    BY <1>1, <2>1 DEF Publish
  <2>4. PICK q : q = [p EXCEPT !.op = "publish"]  OBVIOUS
  <2>5. q.pc \in {"read", "legacy"} /\ q.item = item /\ q.op = "publish"
    BY <2>2, <2>4 DEF PackRequest
  <2>6. HasRead(q) /\ StillSo(q)
    BY <2>2, <2>5 DEF HasRead, StillSo
  <2> QED BY <1>1, <2>2, <2>3, <2>4, <2>6, PackStarts DEF Publish, Operations
<1>2. ASSUME NEW u \in Users, NEW replace \in BOOLEAN, Import(r, u, replace)  PROVE PacksInv'
  <2>1. PICK p : p = [Idle EXCEPT !.user = u, !.item = item,
       !.pc = CASE task[u] # Nothing /\ ~task[u].done -> "clear"
                [] task[u] # Nothing /\ task[u].fields[Title] = item.fields[Title] -> "link"
                [] OTHER -> "create"]
    OBVIOUS
  <2>2. /\ p \in PackRequest /\ p.pc \in {"create", "link", "clear"} /\ p.item = item /\ p.user = u
        /\ item \in Item
    BY <1>0, <1>2, <2>1, NoPackRequest DEF Import, PackRequest
  <2>3. Start(r, "import", p)
    BY <1>2, <2>1 DEF Import
  <2>4. PICK q : q = [p EXCEPT !.op = "import"]  OBVIOUS
  <2>5. q.pc \in {"create", "link", "clear"} /\ q.item = item /\ q.user = u
    BY <2>2, <2>4 DEF PackRequest
  <2>6. HasRead(q) /\ StillSo(q)
    BY <2>2, <2>5 DEF HasRead, StillSo
  <2> QED BY <1>2, <2>2, <2>3, <2>4, <2>6, PackStarts DEF Import, Operations
<1>3. ASSUME NEW o \in pending, Accept(r, o)  PROVE PacksInv'
  <2>1. PICK p : p = [Idle EXCEPT !.pc = "apply", !.user = o.user, !.update = o]  OBVIOUS
  <2>2. p \in PackRequest /\ p.pc = "apply" /\ p.user = o.user /\ p.update = o
    BY <1>0, <1>3, <2>1, NoPackRequest DEF PackRequest
  <2>3. Start(r, "accept", p)
    BY <1>3, <2>1 DEF Accept
  <2>4. PICK q : q = [p EXCEPT !.op = "accept"]  OBVIOUS
  <2>5. q.pc = "apply" /\ q.user = o.user /\ q.update = o
    BY <2>2, <2>4 DEF PackRequest
  <2>6. HasRead(q) /\ StillSo(q)
    BY <1>0, <1>3, <2>2, <2>5 DEF HasRead, StillSo
  <2> QED BY <1>3, <2>2, <2>3, <2>4, <2>6, PackStarts DEF Accept, Operations
<1>4. ASSUME NEW o \in pending, Reject(r, o)  PROVE PacksInv'
  <2>1. PICK p : p = [Idle EXCEPT !.pc = "mark", !.user = o.user, !.update = o]  OBVIOUS
  <2>2. p \in PackRequest /\ p.pc = "mark" /\ p.user = o.user /\ p.update = o
    BY <1>0, <1>4, <2>1, NoPackRequest DEF PackRequest
  <2>3. Start(r, "reject", p)
    BY <1>4, <2>1 DEF Reject
  <2>4. PICK q : q = [p EXCEPT !.op = "reject"]  OBVIOUS
  <2>5. q.pc = "mark" /\ q.user = o.user /\ q.update = o /\ q.op = "reject"
    BY <2>2, <2>4 DEF PackRequest
  <2>6. HasRead(q) /\ StillSo(q)
    BY <1>0, <1>4, <2>2, <2>5 DEF HasRead, StillSo
  <2> QED BY <1>4, <2>2, <2>3, <2>4, <2>6, PackStarts DEF Reject, Operations
<1> QED BY <1>1, <1>2, <1>3, <1>4

\* What is imported.
LEMMA PackImports ==
  ASSUME PacksInv, NEW r \in Requests, Clear(r) \/ CreateTask(r) \/ LinkTask(r) \/ BreakOff(r)
  PROVE  PacksInv'
<1>0. /\ source \in Shared \cup {Nothing} /\ item \in Item \cup {Nothing}
      /\ task \in [Users -> Task \cup {Nothing}] /\ pending \subseteq Update
      /\ made \in Nat /\ edits \in Nat /\ calm \in BOOLEAN
      /\ \A p \in pending : p.user \in Users /\ p.changes \in Changes
  BY PackFacts
<1>a. /\ req[r] \in PackRequest /\ HasRead(req[r]) /\ req[r].pc # "idle"
      /\ calm => /\ \A s \in Requests : s # r => req[s] = Idle
                 /\ StillSo(req[r])
                 /\ \A p \in pending : task[p.user] # Nothing /\ task[p.user].linked
                 /\ \A w \in Users : Follows(w)
      /\ Lone => \A p, o \in pending : p.user = o.user => p = o
  BY PackRuns DEF Clear, CreateTask, LinkTask, BreakOff, At
<1>1. CASE BreakOff(r)
  <2>1. StillSo(Idle)
    BY NoPackRequest DEF StillSo
  <2> QED BY <1>1, <1>a, <2>1, NoPackRequest, PackReads DEF BreakOff, End, Go
<1>2. CASE Clear(r)
  <2>1. PICK u \in Users : u = req[r].user
    BY <1>2, <1>a DEF Clear, At, HasRead
  <2>2. PICK q : q = [req[r] EXCEPT !.pc = "create"]  OBVIOUS
  <2>3. /\ q \in PackRequest /\ q.pc = "create" /\ q.item = req[r].item /\ q.user = u
        /\ q.op = req[r].op /\ HasRead(q)
    BY <1>2, <1>a, <2>1, <2>2 DEF Clear, At, HasRead, PackRequest
  <2>4. /\ req' = [req EXCEPT ![r] = q] /\ UNCHANGED <<source, item, made, edits, calm>>
        /\ task' = [task EXCEPT ![u] = Nothing] /\ pending' = pending \ Of(u, pending)
    BY <1>2, <2>1, <2>2 DEF Clear, Go
  <2>5. PackTypes'
    BY <1>0, <2>4 DEF PackTypes
  <2>6. ASSUME calm
        PROVE  /\ StillSo(q)'
               /\ (\A p \in pending : task[p.user] # Nothing /\ task[p.user].linked)'
               /\ \A w \in Users : Follows(w)'
    <3>1. StillSo(q)'
      BY <1>2, <1>a, <2>3, <2>4, <2>6 DEF StillSo, Clear, At
    <3>2. (\A p \in pending : task[p.user] # Nothing /\ task[p.user].linked)'
      BY <1>0, <1>a, <2>4, <2>6 DEF Of
    <3>3. \A w \in Users : Follows(w)'
      BY <1>0, <1>a, <2>4, <2>6 DEF Of, Follows
    <3> QED BY <3>1, <3>2, <3>3
  <2> QED BY <1>a, <2>3, <2>4, <2>5, <2>6, PackGoesOn
<1>3. CASE CreateTask(r)
  <2>1. PICK u \in Users : u = req[r].user
    BY <1>3, <1>a DEF CreateTask, At, HasRead
  <2>2. CASE UNCHANGED task /\ End(r)
    <3>1. StillSo(Idle)
      BY NoPackRequest DEF StillSo
    <3> QED BY <1>3, <2>2, <1>a, <3>1, NoPackRequest, PackReads DEF CreateTask, End, Go
  <2>3. CASE /\ task[u] = Nothing
             /\ task' = [task EXCEPT ![u] = [fields |-> req[r].item.fields, linked |-> FALSE,
                                             done |-> FALSE, own |-> FALSE, taken |-> FALSE]]
             /\ Go(r, [req[r] EXCEPT !.pc = "link"])
    <3>1. PICK q : q = [req[r] EXCEPT !.pc = "link"]  OBVIOUS
    <3>2. /\ q \in PackRequest /\ q.pc = "link" /\ q.item = req[r].item /\ q.user = u
          /\ q.op = req[r].op /\ HasRead(q)
      BY <1>3, <1>a, <2>1, <3>1 DEF CreateTask, At, HasRead, PackRequest
    <3>3. PICK t : t = [fields |-> req[r].item.fields, linked |-> FALSE,
                         done |-> FALSE, own |-> FALSE, taken |-> FALSE]
      OBVIOUS
    <3>4. t \in Task /\ ~t.linked
      BY <1>3, <1>a, <3>3 DEF CreateTask, At, HasRead, Item, Task
    <3>5. /\ req' = [req EXCEPT ![r] = q] /\ UNCHANGED <<source, item, pending, made, edits, calm>>
          /\ task' = [task EXCEPT ![u] = t]
      BY <1>3, <2>3, <3>1, <3>3 DEF CreateTask, Go
    <3>6. PackTypes'
      BY <1>0, <3>4, <3>5 DEF PackTypes
    <3>7. ASSUME calm
          PROVE  /\ StillSo(q)'
                 /\ (\A p \in pending : task[p.user] # Nothing /\ task[p.user].linked)'
                 /\ \A w \in Users : Follows(w)'
      <4>1. StillSo(q)'
        BY <1>3, <1>a, <3>2, <3>5, <3>7 DEF StillSo, CreateTask, At
      <4>2. (\A p \in pending : task[p.user] # Nothing /\ task[p.user].linked)'
        BY <1>0, <1>a, <2>3, <3>5, <3>7
      <4>3. \A w \in Users : Follows(w)'
        BY <1>0, <1>a, <3>4, <3>5, <3>7 DEF Of, Follows
      <4> QED BY <4>1, <4>2, <4>3
    <3> QED BY <1>a, <3>2, <3>5, <3>6, <3>7, PackGoesOn
  <2> QED BY <1>3, <2>1, <2>2, <2>3 DEF CreateTask
<1>4. CASE LinkTask(r)
  <2>1. PICK u \in Users : u = req[r].user
    BY <1>4, <1>a DEF LinkTask, At, HasRead
  <2>2. StillSo(Idle) /\ req' = [req EXCEPT ![r] = Idle]
    BY <1>4, NoPackRequest DEF StillSo, LinkTask, End, Go
  <2>3. CASE task[u] = Nothing \/ item = Nothing
    <3>1. UNCHANGED task
      BY <1>4, <2>1, <2>3 DEF LinkTask
    <3> QED BY <1>4, <2>2, <1>a, <3>1, NoPackRequest, PackReads DEF LinkTask
  <2>4. CASE task[u] # Nothing /\ item # Nothing
    <3>2. PICK t : t = [task[u] EXCEPT !.linked = TRUE,
                         !.taken = IF task[u].linked THEN task[u].taken
                                   ELSE task[u].fields # req[r].item.fields]
      OBVIOUS
    <3>3. /\ t \in Task /\ t.linked /\ t.fields = task[u].fields /\ t.own = task[u].own
          /\ t.taken = IF task[u].linked THEN task[u].taken
                       ELSE task[u].fields # req[r].item.fields
      BY <1>0, <2>4, <3>2 DEF Task
    <3>4. UNCHANGED <<source, item, pending, made, edits, calm>> /\ task' = [task EXCEPT ![u] = t]
      BY <1>0, <1>4, <2>1, <2>4, <3>2 DEF LinkTask
    <3>6. PackTypes'
      BY <1>0, <3>3, <3>4 DEF PackTypes
    <3>7. ASSUME calm
          PROVE  /\ StillSo(Idle)'
                 /\ (\A p \in pending : task[p.user] # Nothing /\ task[p.user].linked)'
                 /\ \A w \in Users : Follows(w)'
      <4>1. StillSo(Idle)'
        BY NoPackRequest DEF StillSo
      <4>2. (\A p \in pending : task[p.user] # Nothing /\ task[p.user].linked)'
        BY <1>0, <1>a, <3>3, <3>4, <3>7
      <4>3. req[r].item = item
        BY <1>4, <1>a, <3>7 DEF LinkTask, At, StillSo
      <4>4. ~task[u].linked => Of(u, pending) = {}
        BY <1>a, <3>7 DEF Of
      <4>5. ASSUME NEW w \in Users  PROVE Follows(w)'
        <5>1. CASE w # u
          BY <1>0, <1>a, <3>4, <3>7, <5>1 DEF Of, Follows
        <5>2. CASE w = u
          <6>1. task'[u] = t
            BY <1>0, <3>4
          <6>2. CASE task[u].linked
            BY <1>a, <2>4, <3>3, <3>4, <3>7, <5>2, <6>1, <6>2 DEF Of, Follows
          <6>3. CASE ~task[u].linked
            BY <3>3, <3>4, <4>3, <4>4, <5>2, <6>1, <6>3 DEF Of, Follows
          <6> QED BY <6>2, <6>3
        <5> QED BY <5>1, <5>2
      <4> QED BY <4>1, <4>2, <4>5
    <3> QED BY <1>a, <2>2, <3>4, <3>6, <3>7, NoPackRequest, PackGoesOn
  <2> QED BY <2>3, <2>4
<1> QED BY <1>1, <1>2, <1>3, <1>4

-----------------------------------------------------------------------------
(* What changed, and what is proposed.                                     *)

LEMMA DiffOverride ==
  /\ \A a, b \in Shared : /\ Diff(a, b) \in Changes
                          /\ Override(a, Diff(a, b)) = b
                          /\ Diff(a, b) = NoChanges => a = b
  /\ \A a \in Shared, c \in Changes : /\ Override(a, c) \in Shared
                                      /\ Override(Override(a, c), c) = Override(a, c)
<1>1. ASSUME NEW a \in Shared, NEW b \in Shared
      PROVE  Diff(a, b) \in Changes /\ Override(a, Diff(a, b)) = b /\ (Diff(a, b) = NoChanges => a = b)
  <2>1. \A f \in Fields : a[f] \in Values /\ b[f] \in Values /\ b[f] # Nothing
    BY DEF Shared
  <2>2. \A f \in Fields : Diff(a, b)[f] = IF a[f] = b[f] THEN Nothing ELSE b[f]
    BY DEF Diff
  <2>3. Diff(a, b) \in Changes
    BY <2>1 DEF Diff, Changes
  <2>4. Override(a, Diff(a, b)) = [f \in Fields |-> b[f]]
    BY <2>1, <2>2 DEF Override
  <2>5. b = [f \in Fields |-> b[f]]
    BY DEF Shared
  <2>6. ASSUME Diff(a, b) = NoChanges  PROVE a = b
    <3>1. \A f \in Fields : a[f] = b[f]
      BY <2>1, <2>2, <2>6 DEF NoChanges
    <3> QED BY <3>1 DEF Shared
  <2> QED BY <2>3, <2>4, <2>5, <2>6
<1>2. ASSUME NEW a \in Shared, NEW c \in Changes
      PROVE  Override(a, c) \in Shared /\ Override(Override(a, c), c) = Override(a, c)
  <2>1. \A f \in Fields : Override(a, c)[f] = IF c[f] = Nothing THEN a[f] ELSE c[f]
    BY DEF Override
  <2>2. Override(a, c) \in Shared
    BY DEF Override, Shared, Changes
  <2>3. Override(Override(a, c), c) = [f \in Fields |-> Override(a, c)[f]]
    BY <2>1 DEF Override
  <2>4. Override(a, c) = [f \in Fields |-> Override(a, c)[f]]
    BY <2>2 DEF Shared
  <2> QED BY <2>2, <2>3, <2>4
<1> QED BY <1>1, <1>2

\* What a task becomes that takes over what is proposed to it: of each field what
\* changed now, or else what was proposed before.
LEMMA ProposedSound ==
  ASSUME NEW q, q.item \in Item, q.source \in Shared, NEW u, q.tasks[u] \in Task, q.seen \subseteq Update
  PROVE  /\ Proposed(q, u) \in Changes
         /\ (\/ Of(u, q.seen) = {} /\ q.item.fields = q.tasks[u].fields
             \/ \E p \in q.seen : /\ Of(u, q.seen) = {p}
                                  /\ q.item.fields = Override(q.tasks[u].fields, p.changes))
            => /\ q.source = Override(q.tasks[u].fields, Proposed(q, u))
               /\ Proposed(q, u) = NoChanges => q.source = q.tasks[u].fields
<1> DEFINE was == q.item.fields
           mine == q.tasks[u].fields
           changed == Diff(was, q.source)
           Old(f) == {p \in Of(u, q.seen) : p.changes[f] # Nothing}
           proposed == [f \in Fields |-> IF changed[f] # Nothing THEN changed[f]
                          ELSE IF Old(f) = {} THEN Nothing ELSE (CHOOSE p \in Old(f) : TRUE).changes[f]]
<1>1. was \in Shared /\ mine \in Shared /\ changed \in Changes
  BY DiffOverride DEF Item, Task
<1>2. \A f \in Fields : Old(f) # {} => (CHOOSE p \in Old(f) : TRUE) \in Old(f)
  OBVIOUS
<1>3. ASSUME NEW f \in Fields  PROVE proposed[f] \in Values \cup {Nothing}
  <2>1. CASE changed[f] # Nothing
    BY <1>1, <2>1 DEF Changes
  <2>2. CASE changed[f] = Nothing /\ Old(f) = {}
    BY <2>2
  <2>3. CASE changed[f] = Nothing /\ Old(f) # {}
    <3>1. PICK p \in Update : p = (CHOOSE o \in Old(f) : TRUE)
      BY <1>2, <2>3 DEF Of
    <3>2. p.changes[f] \in Values \cup {Nothing}
      BY <3>1 DEF Update, Changes
    <3> QED BY <2>3, <3>1, <3>2
  <2> QED BY <2>1, <2>2, <2>3
<1>4. proposed \in Changes
  BY <1>3 DEF Changes
<1>5. Proposed(q, u) = Diff(mine, Override(mine, proposed))
  BY DEF Proposed
<1>6. Override(mine, proposed) \in Shared
  BY <1>1, <1>4, DiffOverride
<1>a. PICK goal \in Shared : goal = Override(mine, proposed)
  BY <1>6
<1>b. PICK m \in Shared : m = mine
  BY <1>1
<1>c. /\ Diff(m, goal) \in Changes /\ Override(m, Diff(m, goal)) = goal
      /\ Diff(m, goal) = NoChanges => m = goal
  BY DiffOverride
<1>d. Proposed(q, u) = Diff(m, goal)
  BY <1>5, <1>a, <1>b
<1>7. Proposed(q, u) \in Changes /\ Override(mine, Proposed(q, u)) = Override(mine, proposed)
  BY <1>a, <1>b, <1>c, <1>d
<1>8. Proposed(q, u) = NoChanges => mine = Override(mine, proposed)
  BY <1>a, <1>b, <1>c, <1>d
<1>9. ASSUME \/ Of(u, q.seen) = {} /\ was = mine
             \/ \E p \in q.seen : Of(u, q.seen) = {p} /\ was = Override(mine, p.changes)
      PROVE  Override(mine, proposed) = q.source
  <2>1. ASSUME NEW f \in Fields  PROVE Override(mine, proposed)[f] = q.source[f]
    <3>0. /\ Override(mine, proposed)[f] = IF proposed[f] = Nothing THEN mine[f] ELSE proposed[f]
          /\ changed[f] = IF was[f] = q.source[f] THEN Nothing ELSE q.source[f]
          /\ q.source[f] \in Values /\ was[f] \in Values /\ mine[f] \in Values
          /\ Nothing \notin Values
      BY <1>1 DEF Override, Diff, Shared
    <3>1. CASE was[f] # q.source[f]
      BY <3>0, <3>1
    <3>2. CASE was[f] = q.source[f] /\ Old(f) = {}
      <4>1. mine[f] = was[f]
        <5>1. CASE was = mine
          BY <5>1
        <5>2. CASE \E p \in q.seen : Of(u, q.seen) = {p} /\ was = Override(mine, p.changes)
          <6>1. PICK p \in q.seen : Of(u, q.seen) = {p} /\ was = Override(mine, p.changes)
            BY <5>2
          <6>2. p.changes[f] = Nothing
            BY <3>2, <6>1
          <6> QED BY <6>1, <6>2 DEF Override
        <5> QED BY <1>9, <5>1, <5>2
      <4> QED BY <3>0, <3>2, <4>1
    <3>3. CASE was[f] = q.source[f] /\ Old(f) # {}
      <4>1. PICK p \in q.seen : Of(u, q.seen) = {p} /\ was = Override(mine, p.changes)
        BY <1>9, <3>3
      <4>2. Old(f) = {p} /\ p.changes[f] # Nothing
        BY <3>3, <4>1
      <4>3. (CHOOSE o \in Old(f) : TRUE) = p
        BY <1>2, <4>2
      <4>4. proposed[f] = p.changes[f]
        BY <3>0, <3>3, <4>2, <4>3
      <4>5. was[f] = p.changes[f]
        BY <4>1, <4>2 DEF Override
      <4> QED BY <3>0, <3>3, <4>2, <4>4, <4>5
    <3> QED BY <3>1, <3>2, <3>3
  <2> QED BY <2>1, <1>6 DEF Shared
<1> QED BY <1>7, <1>8, <1>9

\* What is read before it is published.
LEMMA PackLooksUp ==
  ASSUME PacksInv, NEW r \in Requests, LinkLegacy(r) \/ ReadPack(r) \/ ReadTasks(r)
  PROVE  PacksInv'
<1>0. /\ source \in Shared \cup {Nothing} /\ item \in Item \cup {Nothing}
      /\ task \in [Users -> Task \cup {Nothing}] /\ pending \subseteq Update
      /\ made \in Nat /\ edits \in Nat /\ calm \in BOOLEAN
      /\ \A p \in pending : p.user \in Users /\ p.changes \in Changes
  BY PackFacts
<1>a. /\ req[r] \in PackRequest /\ HasRead(req[r]) /\ req[r].pc # "idle"
      /\ calm => /\ \A s \in Requests : s # r => req[s] = Idle
                 /\ StillSo(req[r])
                 /\ \A p \in pending : task[p.user] # Nothing /\ task[p.user].linked
                 /\ \A w \in Users : Follows(w)
      /\ Lone => \A p, o \in pending : p.user = o.user => p = o
      /\ req[r].op = "publish"
  BY PackRuns DEF LinkLegacy, ReadPack, ReadTasks, At, HasRead
<1>b. StillSo(Idle)
  BY NoPackRequest DEF StillSo
<1>1. CASE LinkLegacy(r)
  <2>1. CASE item = Nothing
    <3>1. req' = [req EXCEPT ![r] = Idle]
          /\ UNCHANGED <<source, item, task, pending, made, edits, calm>>
      BY <1>1, <2>1 DEF LinkLegacy, End, Go
    <3> QED BY <1>a, <1>b, <3>1, NoPackRequest, PackReads
  <2>2. CASE item # Nothing
    <3> DEFINE seen == req[r].item.fields
               Same(u) == /\ task[u] # Nothing /\ ~task[u].linked
                          /\ \A f \in Exact : task[u].fields[f] = seen[f]
    <3>1. PICK q : q = [req[r] EXCEPT !.pc = "read"]  OBVIOUS
    <3>2. q \in PackRequest /\ q.pc = "read" /\ q.op = "publish"
      BY <1>a, <3>1 DEF PackRequest
    <3>3. HasRead(q) /\ StillSo(q)'
      BY <3>2 DEF HasRead, StillSo
    <3>4. /\ req' = [req EXCEPT ![r] = q] /\ UNCHANGED <<source, pending, made, edits, calm>>
          /\ item' = [item EXCEPT !.linked = source # Nothing /\ source[Title] = seen[Title]]
          /\ task' = [u \in Users |-> IF Same(u)
                        THEN [task[u] EXCEPT !.linked = TRUE,
                                             !.taken = task[u].fields # item.fields]
                        ELSE task[u]]
      BY <1>1, <2>2, <3>1 DEF LinkLegacy, Go
    <3>5. item' \in Item /\ item'.fields = item.fields
      BY <1>0, <2>2, <3>4 DEF Item
    <3>6. ASSUME NEW u \in Users
          PROVE  \/ ~Same(u) /\ task'[u] = task[u]
                 \/ /\ Same(u) /\ task'[u] \in Task /\ task'[u].linked
                    /\ task'[u].fields = task[u].fields
                    /\ task'[u].taken <=> task[u].fields # item.fields
      <4>1. CASE ~Same(u)
        BY <3>4, <4>1
      <4>2. CASE Same(u)
        <5>1. PICK b \in BOOLEAN : b <=> task[u].fields # item.fields
          OBVIOUS
        <5>2. task'[u] = [task[u] EXCEPT !.linked = TRUE, !.taken = b]
          BY <3>4, <4>2, <5>1
        <5>3. task[u] \in Task
          BY <1>0, <4>2
        <5>4. task'[u] \in Task /\ task'[u].linked /\ task'[u].fields = task[u].fields
              /\ task'[u].taken = b
          BY <5>2, <5>3 DEF Task
        <5> QED BY <4>2, <5>1, <5>4
      <4> QED BY <4>1, <4>2
    <3>7. PackTypes'
      <4>1. task' \in [Users -> Task \cup {Nothing}]
        BY <1>0, <3>4, <3>6
      <4> QED BY <1>0, <3>4, <3>5, <4>1 DEF PackTypes
    <3>8. ASSUME calm
          PROVE  /\ (\A p \in pending : task[p.user] # Nothing /\ task[p.user].linked)'
                 /\ \A w \in Users : Follows(w)'
      <4>1. (\A p \in pending : task[p.user] # Nothing /\ task[p.user].linked)'
        BY <1>0, <1>a, <3>4, <3>6, <3>8
      <4>2. ASSUME NEW w \in Users  PROVE Follows(w)'
        <5>1. CASE ~Same(w)
          <6>1. task'[w] = task[w]
            BY <3>6, <5>1
          <6> QED BY <1>a, <2>2, <3>4, <3>5, <3>8, <6>1 DEF Follows, Of
        <5>2. CASE Same(w)
          <6>1. Of(w, pending) = {}
            BY <1>a, <3>8, <5>2 DEF Of
          <6>2. ~task'[w].taken => task'[w].fields = item'.fields
            BY <3>5, <3>6, <5>2
          <6> QED BY <3>4, <6>1, <6>2 DEF Follows, Of
        <5> QED BY <5>1, <5>2
      <4> QED BY <4>1, <4>2
    <3> HIDE DEF seen, Same
    <3> QED BY <1>a, <3>2, <3>3, <3>4, <3>7, <3>8, PackGoesOn
  <2> QED BY <2>1, <2>2
<1>2. CASE ReadPack(r)
  <2>0. UNCHANGED <<source, item, task, pending, made, edits, calm>>
    BY <1>2 DEF ReadPack
  <2>1. CASE item # Nothing /\ source # Nothing /\ item.linked /\ source # item.fields
    <3>1. PICK q : q = [req[r] EXCEPT !.pc = "tasks", !.item = item, !.source = source]  OBVIOUS
    <3>2. /\ q \in PackRequest /\ q.pc = "tasks" /\ q.op = "publish" /\ q.item = item
          /\ q.source = source
      BY <1>0, <1>a, <3>1 DEF PackRequest
    <3>3. HasRead(q) /\ StillSo(q)
      BY <1>0, <2>1, <3>2 DEF HasRead, StillSo
    <3>4. req' = [req EXCEPT ![r] = q]
      BY <1>2, <2>1, <3>1 DEF ReadPack, Go
    <3> QED BY <1>a, <2>0, <3>2, <3>3, <3>4, PackReads
  <2>2. CASE ~(item # Nothing /\ source # Nothing /\ item.linked /\ source # item.fields)
    <3>1. req' = [req EXCEPT ![r] = Idle]
      BY <1>2, <2>2 DEF ReadPack, End, Go
    <3> QED BY <1>a, <1>b, <2>0, <3>1, NoPackRequest, PackReads
  <2> QED BY <2>1, <2>2
<1>3. CASE ReadTasks(r)
  <2>0. UNCHANGED <<source, item, task, pending, made, edits, calm>>
    BY <1>3 DEF ReadTasks
  <2>1. PICK found : found = [u \in Users |-> IF task[u] # Nothing /\ task[u].linked
                                              THEN task[u] ELSE Nothing]
    OBVIOUS
  <2>2. found \in [Users -> Task \cup {Nothing}]
    BY <1>0, <2>1
  <2>3. PICK q : q = [req[r] EXCEPT !.pc = "write", !.seen = pending, !.tasks = found]  OBVIOUS
  <2>4. /\ q \in PackRequest /\ q.pc = "write" /\ q.op = "publish" /\ q.item = req[r].item
        /\ q.source = req[r].source /\ q.seen = pending /\ q.tasks = found
    BY <1>0, <1>a, <2>2, <2>3 DEF PackRequest
  <2>5. HasRead(q)
    BY <1>3, <1>a, <2>4 DEF ReadTasks, At, HasRead
  <2>6. calm => StillSo(q)
    BY <1>3, <1>a, <2>1, <2>4 DEF ReadTasks, At, StillSo
  <2>7. req' = [req EXCEPT ![r] = q]
    BY <1>3, <2>1, <2>3 DEF ReadTasks, Go
  <2> QED BY <1>a, <2>0, <2>4, <2>5, <2>6, <2>7, PackReads
<1> QED BY <1>1, <1>2, <1>3

\* What is published: when one publication is under way at a time it replaces all
\* that waits, and proposes to each user at most once.
LEMMA PackWrites ==
  ASSUME PacksInv, NEW r \in Requests, WriteItem(r)
  PROVE  PacksInv'
<1>0. /\ source \in Shared \cup {Nothing} /\ item \in Item \cup {Nothing}
      /\ task \in [Users -> Task \cup {Nothing}] /\ pending \subseteq Update
      /\ made \in Nat /\ edits \in Nat /\ calm \in BOOLEAN
      /\ \A p \in pending : p.user \in Users /\ p.changes \in Changes
  BY PackFacts
<1>1. PICK q : q = req[r]  OBVIOUS
<1>a. /\ q \in PackRequest /\ HasRead(q) /\ q.pc = "write"
      /\ calm => /\ \A s \in Requests : s # r => req[s] = Idle
                 /\ StillSo(q)
                 /\ \A p \in pending : task[p.user] # Nothing /\ task[p.user].linked
                 /\ \A w \in Users : Follows(w)
      /\ Lone => \A p, o \in pending : p.user = o.user => p = o
      /\ q.op = "publish"
  BY <1>1, PackRuns DEF WriteItem, At, HasRead
<1>b. /\ q.item \in Item /\ q.source \in Shared /\ q.tasks \in [Users -> Task \cup {Nothing}]
      /\ q.seen \subseteq Update
  BY <1>a DEF HasRead, PackRequest
<1>c. Lone => pending \subseteq q.seen
  BY <1>1, <1>a DEF PacksInv, Publishing
<1>d. StillSo(Idle) /\ StillSo(Idle)' /\ req' = [req EXCEPT ![r] = Idle]
  BY NoPackRequest DEF StillSo, WriteItem, End, Go
<1> DEFINE asked == {u \in Users : q.tasks[u] # Nothing /\ Proposed(q, u) # NoChanges}
<1>2. CASE UNCHANGED <<item, pending, made>>
  <2>1. UNCHANGED <<source, item, task, pending, made, edits, calm>>
    BY <1>2 DEF WriteItem
  <2> QED BY <1>1, <1>a, <1>d, <2>1, NoPackRequest, PackReads
<1>3. CASE /\ item # Nothing /\ \A u \in asked : task[u] # Nothing
           /\ item' = [item EXCEPT !.fields = q.source, !.version = q.item.version + 1]
           /\ \E number \in [asked -> made + 1 .. made + Cardinality(asked)] :
               /\ \A u, v \in asked : u # v => number[u] # number[v]
               /\ pending' = Keeps(q) \cup
                    {[id |-> number[u], user |-> u, changes |-> Proposed(q, u)] : u \in asked}
           /\ made' = made + Cardinality(asked)
  <2>0. UNCHANGED <<source, task, edits, calm>>
    BY DEF WriteItem
  <2>1. Cardinality(asked) \in Nat
    <3>1. asked \subseteq Users /\ IsFiniteSet(Users)
      OBVIOUS
    <3>2. IsFiniteSet(asked)
      BY <3>1, FS_Subset
    <3> QED BY <3>2, FS_CardinalityType
  <2>2. PICK number \in [asked -> made + 1 .. made + Cardinality(asked)] :
          pending' = Keeps(q) \cup
            {[id |-> number[u], user |-> u, changes |-> Proposed(q, u)] : u \in asked}
    BY <1>3
  <2>3. item' \in Item /\ item'.fields = q.source
    <3>1. PICK v \in Nat : v = q.item.version + 1
      BY <1>b DEF Item
    <3>2. item' = [item EXCEPT !.fields = q.source, !.version = v] /\ item \in Item
      BY <1>0, <1>3, <3>1
    <3> QED BY <1>b, <3>2 DEF Item
  <2>4. \A u \in asked : q.tasks[u] \in Task /\ Proposed(q, u) # NoChanges /\ u \in Users
    BY <1>b
  <2>5. \A u \in asked : Proposed(q, u) \in Changes
    BY <1>b, <2>4, ProposedSound
  <2>6. \A u \in asked : number[u] \in Nat
    <3>1. \A n \in made + 1 .. made + Cardinality(asked) : n \in Nat
      BY <1>0, <2>1
    <3> QED BY <2>2, <3>1
  <2>7. \A u \in asked : [id |-> number[u], user |-> u, changes |-> Proposed(q, u)] \in Update
    BY <2>4, <2>5, <2>6 DEF Update
  <2>8. PackTypes'
    <3>1. pending' \subseteq Update
      BY <1>0, <2>2, <2>7 DEF Keeps
    <3>2. made' \in Nat
      BY <1>0, <1>3, <2>1
    <3> QED BY <1>0, <2>0, <2>3, <3>1, <3>2 DEF PackTypes
  <2>9. ASSUME Lone  PROVE Keeps(q) = {}
    BY <1>c, <2>9 DEF Keeps, Of
  <2>10. ASSUME Lone, NEW p \in pending'
         PROVE  p.user \in asked /\ p = [id |-> number[p.user], user |-> p.user,
                                         changes |-> Proposed(q, p.user)]
    <3>1. PICK u \in asked : p = [id |-> number[u], user |-> u, changes |-> Proposed(q, u)]
      BY <2>2, <2>9, <2>10
    <3>2. p.user = u
      BY <3>1
    <3> QED BY <3>1, <3>2
  <2>11. Lone => \A p, o \in pending' : p.user = o.user => p = o
    BY <2>10
  <2>12. ASSUME calm
         PROVE  /\ (\A p \in pending : task[p.user] # Nothing /\ task[p.user].linked)'
                /\ \A w \in Users : Follows(w)'
    <3>0. /\ Lone /\ q.seen = pending /\ q.item = item
          /\ q.tasks = [u \in Users |-> IF task[u] # Nothing /\ task[u].linked THEN task[u] ELSE Nothing]
      BY <1>a, <2>12 DEF StillSo, Lone
    <3>1. ASSUME NEW p \in pending'  PROVE task'[p.user] # Nothing /\ task'[p.user].linked
      <4>1. p.user \in asked
        BY <2>10, <3>0
      <4> QED BY <2>0, <2>4, <3>0, <4>1
    <3>2. ASSUME NEW w \in Users  PROVE Follows(w)'
      <4> SUFFICES ASSUME task[w] # Nothing, task[w].linked, ~task[w].own, ~task[w].taken
                   PROVE  /\ \A p \in Of(w, pending') : q.source = Override(task[w].fields, p.changes)
                          /\ Of(w, pending') = {} => q.source = task[w].fields
        BY <2>0, <2>3 DEF Follows
      <4>1. q.tasks[w] = task[w] /\ task[w] \in Task
        BY <1>0, <3>0
      <4>2. \/ Of(w, q.seen) = {} /\ q.item.fields = q.tasks[w].fields
            \/ \E p \in q.seen : /\ Of(w, q.seen) = {p}
                                 /\ q.item.fields = Override(q.tasks[w].fields, p.changes)
        <5>1. CASE Of(w, pending) = {}
          BY <1>3, <1>a, <2>12, <3>0, <4>1, <5>1 DEF Follows
        <5>2. CASE Of(w, pending) # {}
          <6>1. PICK p \in pending : p.user = w
            BY <5>2 DEF Of
          <6>2. Of(w, pending) = {p}
            BY <1>a, <3>0, <6>1 DEF Of
          <6>3. item.fields = Override(task[w].fields, p.changes)
            BY <1>3, <1>a, <2>12, <6>2 DEF Follows
          <6> QED BY <3>0, <4>1, <6>2, <6>3
        <5> QED BY <5>1, <5>2
      <4>3. /\ q.source = Override(task[w].fields, Proposed(q, w))
            /\ Proposed(q, w) = NoChanges => q.source = task[w].fields
        BY <1>b, <4>1, <4>2, ProposedSound
      <4>4. ASSUME NEW p \in Of(w, pending')  PROVE p.changes = Proposed(q, w)
        <5>1. p \in pending' /\ p.user = w
          BY DEF Of
        <5>2. p = [id |-> number[p.user], user |-> p.user, changes |-> Proposed(q, p.user)]
          BY <2>10, <3>0, <5>1
        <5>3. p.changes = Proposed(q, p.user)
          BY <5>2
        <5> QED BY <5>1, <5>3
      <4>5. ASSUME Of(w, pending') = {}  PROVE Proposed(q, w) = NoChanges
        <5>1. CASE w \in asked
          <6>1. PICK p : p = [id |-> number[w], user |-> w, changes |-> Proposed(q, w)]  OBVIOUS
          <6>2. p \in pending' /\ p.user = w
            BY <2>2, <5>1, <6>1
          <6> QED BY <4>5, <6>2 DEF Of
        <5>2. CASE w \notin asked
          BY <4>1, <5>2
        <5> QED BY <5>1, <5>2
      <4> QED BY <4>3, <4>4, <4>5
    <3> QED BY <3>1, <3>2
  <2> HIDE DEF asked
  <2> QED BY <1>1, <1>a, <1>d, <2>0, <2>8, <2>11, <2>12, NoPackRequest, PackGoesOn
<1> QED BY <1>1, <1>2, <1>3 DEF WriteItem

\* What is decided.
LEMMA PackDecides ==
  ASSUME PacksInv, NEW r \in Requests, Apply(r) \/ Mark(r)
  PROVE  PacksInv'
<1>0. /\ source \in Shared \cup {Nothing} /\ item \in Item \cup {Nothing}
      /\ task \in [Users -> Task \cup {Nothing}] /\ pending \subseteq Update
      /\ made \in Nat /\ edits \in Nat /\ calm \in BOOLEAN
      /\ \A p \in pending : p.user \in Users /\ p.changes \in Changes
  BY PackFacts
<1>1. PICK q : q = req[r]  OBVIOUS
<1>a. /\ q \in PackRequest /\ HasRead(q) /\ q.pc \in {"apply", "mark"}
      /\ calm => /\ \A s \in Requests : s # r => req[s] = Idle
                 /\ StillSo(q)
                 /\ \A p \in pending : task[p.user] # Nothing /\ task[p.user].linked
                 /\ \A w \in Users : Follows(w)
      /\ Lone => \A p, o \in pending : p.user = o.user => p = o
  BY <1>1, PackRuns DEF Apply, Mark, At
<1>b. /\ q.user \in Users /\ q.update \in Update /\ q.update.changes \in Changes
  BY <1>a DEF HasRead, Update
<1>c. StillSo(Idle) /\ StillSo(Idle)'
  BY NoPackRequest DEF StillSo
<1>d. PICK u \in Users : u = q.user
  BY <1>b
<1>2. CASE Apply(r)
  <2>1. CASE End(r) /\ UNCHANGED task
    <3>1. req' = [req EXCEPT ![r] = Idle]
          /\ UNCHANGED <<source, item, task, pending, made, edits, calm>>
      BY <1>2, <2>1 DEF Apply, End, Go
    <3> QED BY <1>1, <1>a, <1>c, <3>1, NoPackRequest, PackReads
  <2>2. CASE /\ task[u] # Nothing
             /\ \E v \in Accepted(task[u].fields, q.update.changes) :
                  task' = [task EXCEPT ![u].fields = v]
             /\ Go(r, [q EXCEPT !.pc = "mark"])
    <3>1. PICK n : n = [q EXCEPT !.pc = "mark"]  OBVIOUS
    <3>2. /\ n \in PackRequest /\ n.pc = "mark" /\ n.op = q.op /\ n.user = u /\ n.update = q.update
      BY <1>a, <1>d, <3>1 DEF PackRequest
    <3>3. HasRead(n)
      BY <1>b, <1>d, <3>2 DEF HasRead
    <3>a. PICK v \in Accepted(task[u].fields, q.update.changes) :
               task' = [task EXCEPT ![u].fields = v]
      BY <2>2
    <3>4. PICK t : t = [task[u] EXCEPT !.fields = v]
      OBVIOUS
    <3>5. /\ task[u] \in Task /\ task[u].fields \in Shared
          /\ Override(task[u].fields, q.update.changes) \in Shared
      BY <1>0, <1>b, <2>2, DiffOverride DEF Task
    <3>b. /\ v \in Shared
          /\ item # Nothing /\ item.fields = Override(task[u].fields, q.update.changes) =>
               v = item.fields
      BY <3>5 DEF Accepted
    <3>6. /\ t \in Task /\ t.fields = v
          /\ t.linked = task[u].linked /\ t.own = task[u].own /\ t.taken = task[u].taken
      BY <3>4, <3>5, <3>b DEF Task
    <3>7. /\ req' = [req EXCEPT ![r] = n] /\ UNCHANGED <<source, item, pending, made, edits, calm>>
          /\ task' = [task EXCEPT ![u] = t]
      BY <1>0, <1>2, <2>2, <3>1, <3>4, <3>a DEF Apply, Go
    <3>8. PackTypes'
      BY <1>0, <3>6, <3>7 DEF PackTypes
    <3>9. task'[u] = t /\ \A w \in Users : w # u => task'[w] = task[w]
      BY <1>0, <3>7
    <3>10. ASSUME calm
           PROVE  /\ StillSo(n)'
                  /\ (\A p \in pending : task[p.user] # Nothing /\ task[p.user].linked)'
                  /\ \A w \in Users : Follows(w)'
      <4>0. q.update \in pending /\ u = q.update.user /\ Lone
        BY <1>a, <1>d, <3>10 DEF StillSo, Lone
      <4>1. q.update \in Of(u, pending) /\ \A p \in Of(u, pending) : p = q.update
        BY <1>a, <4>0 DEF Of
      <4>2. ASSUME item # Nothing, task[u].linked, ~task[u].own, ~task[u].taken
            PROVE  /\ item.fields = t.fields
                   /\ t.fields = Override(task[u].fields, q.update.changes)
        BY <1>a, <2>2, <3>6, <3>b, <3>10, <4>1, <4>2 DEF Follows
      <4>3. StillSo(n)'
        BY <3>2, <3>6, <3>7, <3>9, <4>0, <4>2 DEF StillSo
      <4>4. (\A p \in pending : task[p.user] # Nothing /\ task[p.user].linked)'
        BY <1>0, <1>a, <3>6, <3>7, <3>9, <3>10
      <4>5. ASSUME NEW w \in Users  PROVE Follows(w)'
        <5>1. CASE w # u
          BY <1>a, <3>7, <3>9, <3>10, <5>1 DEF Of, Follows
        <5>2. CASE w = u
          <6>1. ASSUME t.fields = Override(task[u].fields, q.update.changes)
                PROVE  Override(t.fields, q.update.changes) = t.fields
            <7>1. PICK a \in Shared : a = task[u].fields
              BY <3>5
            <7>2. PICK c \in Changes : c = q.update.changes
              BY <1>b
            <7>3. Override(Override(a, c), c) = Override(a, c)
              BY DiffOverride
            <7> QED BY <6>1, <7>1, <7>2, <7>3
          <6> QED BY <3>6, <3>7, <3>9, <4>1, <4>2, <5>2, <6>1 DEF Of, Follows
        <5> QED BY <5>1, <5>2
      <4> QED BY <4>3, <4>4, <4>5
    <3> QED BY <1>1, <1>a, <3>2, <3>3, <3>7, <3>8, <3>10, PackGoesOn
  <2> QED BY <1>1, <1>2, <1>d, <2>1, <2>2 DEF Apply
<1>3. CASE Mark(r)
  <2>1. /\ req' = [req EXCEPT ![r] = Idle] /\ UNCHANGED <<source, item, made, edits, calm>>
        /\ pending' = pending \ {q.update} /\ q.pc = "mark"
        /\ task' = IF q.op = "reject" /\ task[u] # Nothing
                   THEN [task EXCEPT ![u].own = TRUE] ELSE task
    BY <1>1, <1>3, <1>d DEF Mark, End, Go, At
  <2>2. \/ task' = task /\ (q.op # "reject" \/ task[u] = Nothing)
        \/ \E t \in Task : /\ task[u] # Nothing /\ task' = [task EXCEPT ![u] = t] /\ t.own
                           /\ t.linked = task[u].linked
    <3>1. CASE q.op = "reject" /\ task[u] # Nothing
      <4>1. PICK t : t = [task[u] EXCEPT !.own = TRUE]  OBVIOUS
      <4>2. t \in Task /\ t.own /\ t.linked = task[u].linked
        BY <1>0, <3>1, <4>1 DEF Task
      <4>3. task' = [task EXCEPT ![u] = t]
        BY <1>0, <2>1, <3>1, <4>1
      <4> QED BY <3>1, <4>2, <4>3
    <3> QED BY <2>1, <3>1
  <2>3. PackTypes'
    <3>1. task' \in [Users -> Task \cup {Nothing}]
      BY <1>0, <2>2
    <3> QED BY <1>0, <2>1, <3>1 DEF PackTypes
  <2>4. ASSUME calm
        PROVE  /\ (\A p \in pending : task[p.user] # Nothing /\ task[p.user].linked)'
               /\ \A w \in Users : Follows(w)'
    <3>0. q.update \in pending /\ u = q.update.user /\ Lone
      BY <1>a, <1>d, <2>4 DEF StillSo, Lone
    <3>1. (\A p \in pending : task[p.user] # Nothing /\ task[p.user].linked)'
      <4>1. \A w \in Users : task[w] # Nothing /\ task[w].linked
                              => task'[w] # Nothing /\ task'[w].linked
        <5>1. CASE task' = task
          BY <5>1
        <5>2. ASSUME NEW t \in Task, task' = [task EXCEPT ![u] = t], t.linked = task[u].linked
              PROVE  \A w \in Users : task[w] # Nothing /\ task[w].linked
                                       => task'[w] # Nothing /\ task'[w].linked
          BY <1>0, <5>2
        <5> QED BY <2>2, <5>1, <5>2
      <4> QED BY <1>0, <1>a, <2>1, <2>4, <4>1
    <3>2. \A w \in Users : w # u => task'[w] = task[w]
      BY <1>0, <2>2
    <3>3. ASSUME NEW w \in Users  PROVE Follows(w)'
      <4>1. CASE w # u
        <5>1. \A p : p \in pending' /\ p.user = w <=> p \in pending /\ p.user = w
          BY <2>1, <3>0, <4>1
        <5>2. UNCHANGED item /\ task'[w] = task[w] /\ Follows(w)
          BY <1>a, <2>1, <2>4, <3>2, <4>1
        <5> QED BY <5>1, <5>2 DEF Follows, Of
      <4>2. CASE w = u
        <5>1. Of(w, pending') = {}
          BY <1>a, <2>1, <3>0, <4>2 DEF Of
        <5>2. CASE task' = task /\ (q.op # "reject" \/ task[u] = Nothing)
          <6>1. ASSUME item # Nothing, task[u] # Nothing, task[u].linked, ~task[u].own,
                       ~task[u].taken
                PROVE  task[u].fields = item.fields
            BY <1>a, <1>d, <2>1, <2>4, <5>2, <6>1 DEF StillSo
          <6> QED BY <2>1, <4>2, <5>1, <5>2, <6>1 DEF Follows
        <5>3. CASE \E t \in Task : task[u] # Nothing /\ task' = [task EXCEPT ![u] = t] /\ t.own
          <6>1. task'[u].own
            BY <1>0, <5>3
          <6> QED BY <4>2, <6>1 DEF Follows
        <5> QED BY <2>2, <5>2, <5>3
      <4> QED BY <4>1, <4>2
    <3> QED BY <3>1, <3>3
  <2>5. Lone => \A p, o \in pending' : p.user = o.user => p = o
    BY <1>a, <2>1
  <2> QED BY <1>a, <1>c, <2>1, <2>3, <2>4, <2>5, NoPackRequest, PackGoesOn
<1> QED BY <1>2, <1>3

-----------------------------------------------------------------------------
LEMMA PacksInvInit == PacksInit => PacksInv
<1> SUFFICES ASSUME PacksInit  PROVE PacksInv
  OBVIOUS
<1>1. /\ source \in Shared /\ pending = {} /\ made = 0 /\ edits = 0 /\ calm \in BOOLEAN
      /\ req = [r \in Requests |-> Idle] /\ item.fields = source
  BY DEF PacksInit
<1>2. item \in Item
  BY DEF PacksInit, Item
<1>3. ASSUME NEW u \in Users
      PROVE  task[u] = Nothing \/ (task[u] \in Task /\ ~task[u].linked)
  <2>1. PICK known \in BOOLEAN :
           task \in [Users -> {Nothing} \cup
                     (IF known THEN {} ELSE {[fields |-> source, linked |-> FALSE,
                                              done |-> FALSE, own |-> FALSE, taken |-> FALSE]})]
    BY DEF PacksInit
  <2>2. task[u] = Nothing \/ task[u] = [fields |-> source, linked |-> FALSE,
                                       done |-> FALSE, own |-> FALSE, taken |-> FALSE]
    BY <2>1
  <2>3. CASE task[u] # Nothing
    <3>1. PICK v \in Shared : v = source
      BY <1>1
    <3>2. PICK t : t = [fields |-> v, linked |-> FALSE, done |-> FALSE, own |-> FALSE,
                         taken |-> FALSE]
      OBVIOUS
    <3>3. t \in Task /\ ~t.linked
      BY <3>2 DEF Task
    <3> QED BY <2>2, <2>3, <3>1, <3>2, <3>3
  <2> QED BY <2>3
<1>4. task \in [Users -> Task \cup {Nothing}]
  <2>1. PICK S : task \in [Users -> S]
    BY DEF PacksInit
  <2> QED BY <1>3, <2>1
<1>5. PackTyped
  BY <1>1, <1>2, <1>4, NoPackRequest DEF PackTyped, PackTypes
<1>6. Publishing
  BY <1>1, NoPackRequest DEF Publishing
<1>7. InStep
  BY <1>1, <1>3, NoPackRequest DEF InStep, StillSo, Follows, Of
<1> QED BY <1>5, <1>6, <1>7 DEF PacksInv

LEMMA PacksInvStep == PacksInv /\ [PacksNext]_packs => PacksInv'
<1> SUFFICES ASSUME PacksInv, [PacksNext]_packs  PROVE PacksInv'
  OBVIOUS
<1>1. CASE UNCHANGED packs
  <2>1. PackTyped'
    BY <1>1 DEF packs, PacksInv, PackTyped, PackTypes, HasRead
  <2>2. Publishing'
    BY <1>1 DEF packs, PacksInv, Publishing, Lone
  <2>3. InStep'
    BY <1>1 DEF packs, PacksInv, InStep, StillSo, Follows, Of
  <2> QED BY <2>1, <2>2, <2>3 DEF PacksInv
<1>2. CASE PacksNext
  <2>1. CASE EditSource \/ DeleteSource \/ RemovePack
               \/ \E u \in Users : EditTask(u) \/ CompleteTask(u) \/ DeleteTask(u)
    BY <2>1, PackByHand
  <2>2. CASE \E r \in Requests :
               \/ Publish(r)
               \/ \E u \in Users, replace \in BOOLEAN : Import(r, u, replace)
               \/ \E p \in pending : Accept(r, p) \/ Reject(r, p)
    BY <2>2, PackAsked
  <2>3. CASE \E r \in Requests : LinkLegacy(r) \/ ReadPack(r) \/ ReadTasks(r)
    BY <2>3, PackLooksUp
  <2>4. CASE \E r \in Requests : WriteItem(r)
    BY <2>4, PackWrites
  <2>5. CASE \E r \in Requests : Clear(r) \/ CreateTask(r) \/ LinkTask(r) \/ BreakOff(r)
    BY <2>5, PackImports
  <2>6. CASE \E r \in Requests : Apply(r) \/ Mark(r)
    BY <2>6, PackDecides
  <2> QED BY <1>2, <2>1, <2>2, <2>3, <2>4, <2>5, <2>6 DEF PacksNext
<1> QED BY <1>1, <1>2

\* The inductive invariant of a pack and of what was imported from it.
THEOREM PacksAlways == PacksSpec => []PacksInv
BY PacksInvInit, PacksInvStep, PTL DEF PacksSpec

\* Whatever overlaps, what is stored of a pack, of the tasks made from it and of
\* the proposals is of its type.
THEOREM PacksTyped == PacksSpec => []PackTypes
<1>1. PacksInv => PackTypes
  BY DEF PacksInv, PackTyped
<1> QED BY <1>1, PacksAlways, PTL

\* A colleague has at most one proposal to decide on, whatever overlaps, unless
\* the owner publishes twice at once (publishUpdates reads what waits before the
\* transaction that replaces it).
THEOREM OnePendingAlways == PacksSpec => [](Lone => OnePending)
<1>1. PacksInv => (Lone => OnePending)
  <2> SUFFICES ASSUME PacksInv, Lone, NEW u \in Users  PROVE Cardinality(Of(u, pending)) <= 1
    BY DEF OnePending
  <2>1. \A p, o \in Of(u, pending) : p = o
    BY DEF PacksInv, Publishing, Of
  <2>2. CASE Of(u, pending) = {}
    <3>1. Cardinality({}) = 0
      BY FS_EmptySet
    <3> QED BY <2>2, <3>1
  <2>3. CASE Of(u, pending) # {}
    <3>1. PICK p : p \in Of(u, pending)
      BY <2>3
    <3>2. Of(u, pending) = {p}
      BY <2>1, <3>1
    <3>3. Cardinality({p}) = 1
      BY FS_Singleton
    <3> QED BY <3>2, <3>3
  <2> QED BY <2>2, <2>3
<1> QED BY <1>1, PacksAlways, PTL

\* A task that follows the pack is what the owner published, once the proposal
\* that waits is accepted: publishing reaches every colleague whose task was a
\* copy of the item when it began to follow it, and who neither edited it nor
\* refused a change; also after the source was deleted or steps failed half way.
THEOREM InSyncProved == PacksSpec => []InSync
<1>1. PacksInv => InSync
  <2> SUFFICES ASSUME PacksInv, calm, item # Nothing, NEW u \in Users,
                      task[u] # Nothing, task[u].linked, ~task[u].own, ~task[u].taken
               PROVE  item.fields = IF Of(u, pending) = {} THEN task[u].fields
                        ELSE Override(task[u].fields, (CHOOSE p \in Of(u, pending) : TRUE).changes)
    BY DEF InSync, Reached
  <2>1. Follows(u)
    BY DEF PacksInv, InStep
  <2>2. Of(u, pending) # {} => (CHOOSE p \in Of(u, pending) : TRUE) \in Of(u, pending)
    OBVIOUS
  <2> QED BY <2>1, <2>2 DEF Follows
<1> QED BY <1>1, PacksAlways, PTL
=============================================================================
