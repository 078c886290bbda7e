--------------------------- MODULE NotebookSharing ---------------------------
(***************************************************************************)
(* ONE note of its Owner and the people it is shared with: the link and    *)
(* who may do what through it (notebook.service.ts, notebook-invite,       *)
(* share-role.util.ts), edits and proposals (notebook-collab), and leave   *)
(* to read all notes (notebook-view-grant).  Composed with Friendships,    *)
(* which the handlers ask and never change.  A step is one statement.      *)
(***************************************************************************)
EXTENDS Friendships, Sequences

CONSTANTS
  Owner,
  Requests,
  MaxPeople,      \* MAX_PEOPLE_PER_ENTRY
  MaxText,        \* bounds: texts ever written,
  MaxOffers       \* proposals

ASSUME NotebookAssumption ==
  Owner \in People /\ {MaxPeople, MaxText, MaxOffers} \subseteq Nat

VARIABLES
  share,          \* "none", or the visibility of the link
  access,         \* of each guest the row of the share that gives it a role, or None
  offers,         \* the proposals
  entry,          \* the text of the note
  grant,          \* of each guest the status of its leave to read, or None
  req,            \* the requests under way
  texts, written, \* history: texts ever typed, those that were in the note,
  met             \*   of each request what was true at some moment of it

notes == <<share, access, offers, entry, grant, texts, written>>
vars == <<friends, notes, req, met>>

Guests == People \ {Owner}
Roles == {"VIEWER", "EDITOR", "CO_OWNER"}
Idle == [op |-> None, pc |-> "idle", by |-> None, holds |-> None, seen |-> None,
         role |-> "VIEWER", yes |-> FALSE, text |-> 0, base |-> 0, offer |-> 0]

Init ==
  /\ FriendsInit
  /\ share = "none" /\ access = [g \in Guests |-> None]
  /\ offers = <<>> /\ entry = 0 /\ grant = [g \in Guests |-> None]
  /\ req = [q \in Requests |-> Idle]
  /\ texts = 0 /\ written = {0} /\ met = [q \in Requests |-> {}]

\* Rows of access; `recent`: decided within REINVITE_COOLDOWN_MS.  The last two
\* are history: who made it pending, and the last the guest said of it.
Row(role, invited) ==
  [status |-> "PENDING", role |-> role, invited |-> invited, recent |-> FALSE,
   asker |-> IF invited THEN "owner" ELSE "guest", willing |-> ~invited]

AccessRow == [status : {"PENDING", "APPROVED", "DENIED"}, role : Roles, invited : BOOLEAN,
              recent : BOOLEAN, asker : {"owner", "guest"}, willing : BOOLEAN]
ASSUME NoAccessAssumption == None \notin AccessRow

Goto(q, pc) == req' = [req EXCEPT ![q].pc = pc]
Finish(q) == req' = [req EXCEPT ![q] = Idle]
\* Finish, and the rows in `lost` are deleted under the requests that hold them.
Lose(lost) ==
  req' = [q \in Requests |-> IF req[q].holds \in lost THEN [req[q] EXCEPT !.holds = Gone]
                             ELSE req[q]]
At(q, ops, pc) == req[q].op \in ops /\ req[q].pc = pc

-----------------------------------------------------------------------------
(* Requests: of a guest `by`, or of the owner about that guest.            *)

\* The first thing each request reads.
First(op) == CASE op \in {"invite", "askGrant"} -> "friends"
               [] op \in {"askAccess", "open"} -> "share"
               [] OTHER -> "row"
Begin(q) ==
  /\ req[q] = Idle
  /\ \E g \in Guests :
       LET R == [Idle EXCEPT !.by = g]
           Start(r, op) == req' = [req EXCEPT ![q] = [r EXCEPT !.op = op, !.pc = First(op)]] IN
       \/ \E op \in {"askAccess", "open", "askGrant", "readNotes"} : Start(R, op)
       \/ \E role \in Roles : Start([R EXCEPT !.role = role], "invite")
       \/ \E yes \in BOOLEAN, op \in {"respond", "decideGrant"} : Start([R EXCEPT !.yes = yes], op)
       \/ \E yes \in BOOLEAN, role \in Roles :
            Start([R EXCEPT !.yes = yes, !.role = role], "decide")
       \/ \E yes \in BOOLEAN, i \in 1 .. Len(offers) :
            offers[i].by = g /\ Start([R EXCEPT !.yes = yes, !.offer = i], "decideOffer")
  /\ UNCHANGED <<friends, notes>>

\* A text that is new; `base` is the note as the form shows it, or not sent.
BeginEdit(q) ==
  /\ req[q] = Idle /\ texts < MaxText /\ texts' = texts + 1
  /\ \E g \in Guests, base \in {entry, None} :
       req' = [req EXCEPT ![q] = [Idle EXCEPT !.by = g, !.op = "edit", !.pc = "share",
                                   !.text = texts + 1, !.base = base]]
  /\ UNCHANGED <<friends, share, access, offers, entry, grant, written>>

\* areFriends, of an owner and a guest.
ReadFriends(q) ==
  LET r == req[q] IN
  /\ r.pc = "friends"
  /\ IF ~AreFriends(Owner, r.by) THEN Finish(q)
     ELSE Goto(q, CASE r.op = "invite" -> "share"
                    [] r.op = "askGrant" -> "row"
                    [] r.op = "respond" -> "write"
                    [] r.op = "readNotes" -> "deliver"
                    [] OTHER -> "enter")
  /\ UNCHANGED <<friends, notes>>

\* The share, by its token or its note.  A public link shows the note to anybody;
\* there is nothing to ask for, nor to change, through it.  An invitation needs an
\* authorized one.
ReadShare(q) ==
  LET r == req[q] IN
  /\ r.pc = "share"
  /\ CASE share = "AUTHORIZED" ->
            req' = [req EXCEPT ![q].pc = "row", ![q].holds = <<"share">>]
       [] share = "none" /\ r.op = "invite" -> Goto(q, "create")
       [] OTHER -> Finish(q)
  /\ UNCHANGED <<friends, notes>>

\* resolveShareAccess: an invitation is good for friends.
AnybodyMayUse(a) == FALSE                                   \* a mutant
OnlyForFriends(a) == a.invited

\* The row of a guest (and for an invitation, the number of rows), and what each
\* request makes of it.
ReadAccess(q) ==
  LET r == req[q]
      a == access[r.by]
      is(status) == a # None /\ a.status = status
      Take(pc) == req' = [req EXCEPT ![q].pc = pc, ![q].seen = a,
                           ![q].holds = IF r.op \in {"decide", "respond"} THEN <<"access", r.by>>
                                        ELSE IF r.op \in {"edit", "open"} THEN None ELSE @]
      people == Cardinality({g \in Guests : access[g] # None}) IN
  /\ At(q, {"askAccess", "decide", "invite", "respond", "edit", "open"}, "row")
  /\ IF r.holds = Gone THEN Finish(q) ELSE
     CASE r.op = "askAccess" /\ (a = None \/ is("DENIED")) -> Take("write")
       [] r.op = "decide" /\ a # None /\ ~(is("PENDING") /\ a.invited) -> Take("write")
       [] r.op = "respond" /\ is("PENDING") /\ a.invited ->
            Take(IF r.yes THEN "friends" ELSE "write")
       [] r.op = "invite" /\ (IF a = None THEN people < MaxPeople
                              ELSE ~(is("DENIED") /\ a.invited /\ a.recent)) -> Take("write")
       [] r.op \in {"edit", "open"} /\ is("APPROVED") ->
            Take(IF OnlyForFriends(a) THEN "friends" ELSE "enter")
       [] OTHER -> Finish(q)
  /\ UNCHANGED <<friends, notes>>

-----------------------------------------------------------------------------
(* The link and who has access through it.                                 *)

\* createShare; updateShareVisibility; revokeShare, which takes all access along.
Publish == share = "none" /\ share' = "PUBLIC" /\ UNCHANGED <<access, req>>
SetVisibility(v) == share \notin {"none", v} /\ share' = v /\ UNCHANGED <<access, req>>
Revoke ==
  /\ share # "none" /\ share' = "none"
  /\ access' = [g \in Guests |-> None]
  /\ Lose({<<"share">>} \cup {<<"access", g>> : g \in Guests})
\* removeAccess
RemoveAccess(g) ==
  /\ access[g] # None /\ access' = [access EXCEPT ![g] = None]
  /\ Lose({<<"access", g>>}) /\ UNCHANGED share
\* The cooldown of an invitation ends.
Later(g) ==
  /\ access[g] # None /\ access[g].recent
  /\ access' = [access EXCEPT ![g].recent = FALSE] /\ UNCHANGED <<share, req>>

\* invite creates the share; it is unique for a note.
CreateShare(q) ==
  /\ At(q, {"invite"}, "create")
  /\ IF share # "none" THEN Finish(q) /\ UNCHANGED share
     ELSE /\ share' = "AUTHORIZED"
          /\ req' = [req EXCEPT ![q].pc = "row", ![q].holds = <<"share">>]
  /\ UNCHANGED <<friends, access, offers, entry, grant, texts, written>>

Decided(a, yes) ==
  [a EXCEPT !.status = IF yes THEN "APPROVED" ELSE "DENIED", !.recent = TRUE]

\* upsert of requestAccess and invite: on the row as it is now.
AskedAgain(a) == IF a = None THEN Row("VIEWER", FALSE)
                 ELSE [a EXCEPT !.status = "PENDING", !.recent = FALSE, !.asker = "guest",
                                !.willing = TRUE]
Invited(a, role) == IF a = None THEN Row(role, TRUE)
                    ELSE [a EXCEPT !.status = "PENDING", !.recent = FALSE, !.role = role,
                                   !.invited = TRUE, !.asker = "owner"]
\* What each request makes of the row: None where the statement fails.
Outcome(r) ==
  LET a == access[r.by] IN
  IF r.holds = Gone THEN None ELSE
  CASE r.op = "askAccess" -> AskedAgain(a)
    [] r.op = "decide" ->
         LET d == Decided(a, r.yes) IN IF r.yes THEN [d EXCEPT !.role = r.role] ELSE d
    [] r.op = "respond" -> [Decided(a, r.yes) EXCEPT !.willing = r.yes]
    \* invite: more than the role changes where it is not approved yet, and where
    \* the guest asked for it, that is the decision.
    [] r.op = "invite" ->
         IF r.seen = None \/ r.seen.status = "DENIED" THEN Invited(a, r.role)
         ELSE IF a = None THEN None
         ELSE IF r.seen.status = "PENDING" /\ ~r.seen.invited
              THEN [Decided(a, TRUE) EXCEPT !.role = r.role]
         ELSE [a EXCEPT !.role = r.role]
    [] OTHER -> None
WriteAccess(q) ==
  /\ At(q, {"askAccess", "decide", "respond", "invite"}, "write")
  /\ access' = IF Outcome(req[q]) = None THEN access
               ELSE [access EXCEPT ![req[q].by] = Outcome(req[q])]
  /\ Finish(q)
  /\ UNCHANGED <<friends, share, offers, entry, grant, texts, written>>

-----------------------------------------------------------------------------
(* Edits and proposals.                                                    *)

\* resolveShareAccess has let the guest in, with the role of the row it read.
Enter(q) ==
  LET r == req[q] IN
  /\ r.pc = "enter"
  /\ CASE r.op = "open" -> Goto(q, "deliver")
       [] r.op = "edit" /\ r.seen.role = "CO_OWNER" -> Goto(q, "apply")
       [] r.op = "edit" /\ r.seen.role = "EDITOR" -> Goto(q, "pending")
       [] OTHER -> Finish(q)
  /\ UNCHANGED <<friends, notes>>

Put(text) == entry' = text /\ written' = written \cup {text}
Deliver(q) == req[q].pc = "deliver" /\ Finish(q) /\ UNCHANGED <<friends, notes>>

\* A co-owner's edit is applied if nobody changed the note since it was opened.
Apply(q) ==
  LET r == req[q] IN
  /\ r.pc = "apply"
  /\ IF r.base \in {None, entry} THEN Put(r.text) ELSE UNCHANGED <<entry, written>>
  /\ Finish(q)
  /\ UNCHANGED <<friends, share, access, offers, grant, texts>>
\* The owner writes in the notebook.
Write == texts < MaxText /\ texts' = texts + 1 /\ Put(texts + 1)

\* editShared of an EDITOR: its pending proposal, or a new one.
Pending(g) == {i \in 1 .. Len(offers) : offers[i].by = g /\ offers[i].status = "PENDING"}
FindPending(q) ==
  LET r == req[q] IN
  /\ r.pc = "pending"
  /\ \/ Pending(r.by) = {} /\ Len(offers) < MaxOffers /\ Goto(q, "store")
     \/ Pending(r.by) = {} /\ Len(offers) >= MaxOffers /\ Finish(q)         \* the bound
     \/ \E i \in Pending(r.by) : req' = [req EXCEPT ![q].pc = "store", ![q].offer = i]
  /\ UNCHANGED <<friends, notes>>
StoreOffer(q) ==
  LET r == req[q] IN
  /\ r.pc = "store"
  /\ offers' = IF r.offer # 0 THEN [offers EXCEPT ![r.offer].text = r.text]
               ELSE Append(offers, [by |-> r.by, text |-> r.text, status |-> "PENDING"])
  /\ Finish(q)
  /\ UNCHANGED <<friends, share, access, entry, grant, texts, written>>

\* decideProposal: what was read of a pending one is applied.
ReadOffer(q) ==
  LET r == req[q] IN
  /\ At(q, {"decideOffer"}, "row")
  /\ IF offers[r.offer].status # "PENDING" THEN Finish(q)
     ELSE req' = [req EXCEPT ![q].pc = "write", ![q].text = offers[r.offer].text]
  /\ UNCHANGED <<friends, notes>>
DecideOffer(q) ==
  LET r == req[q] IN
  /\ At(q, {"decideOffer"}, "write")
  /\ IF r.yes THEN Put(r.text) ELSE UNCHANGED <<entry, written>>
  /\ offers' = [offers EXCEPT ![r.offer].status = IF r.yes THEN "APPROVED" ELSE "REJECTED"]
  /\ Finish(q)
  /\ UNCHANGED <<friends, share, access, grant, texts>>

-----------------------------------------------------------------------------
(* Leave to read the owner's notes.                                        *)

ReadGrant(q) ==
  LET r == req[q] IN
  /\ At(q, {"askGrant", "decideGrant", "readNotes"}, "row")
  /\ CASE r.op = "askGrant" /\ grant[r.by] = None -> Goto(q, "write")
       [] r.op = "decideGrant" /\ grant[r.by] # None ->
            req' = [req EXCEPT ![q].pc = "write", ![q].holds = <<"grant", r.by>>]
       [] r.op = "readNotes" /\ grant[r.by] = "APPROVED" -> Goto(q, "friends")
       [] OTHER -> Finish(q)
  /\ UNCHANGED <<friends, notes>>
WriteGrant(q) ==
  LET r == req[q] IN
  /\ At(q, {"askGrant", "decideGrant"}, "write")
  /\ grant' = CASE r.op = "askGrant" /\ grant[r.by] = None -> [grant EXCEPT ![r.by] = "PENDING"]
                [] r.op = "decideGrant" /\ r.holds # Gone ->
                     [grant EXCEPT ![r.by] = IF r.yes THEN "APPROVED" ELSE "DENIED"]
                [] OTHER -> grant
  /\ Finish(q)
  /\ UNCHANGED <<friends, share, access, offers, entry, texts, written>>
\* remove: by the owner, or by the guest while it is not denied.
RemoveGrant(g, u) ==
  /\ grant[g] # None /\ u \in {g, Owner} /\ (u = g => grant[g] # "DENIED")
  /\ grant' = [grant EXCEPT ![g] = None] /\ Lose({<<"grant", g>>})

-----------------------------------------------------------------------------
\* The statement a request waits for fails.
Break(q) ==
  req[q].pc \notin {"idle", "deliver"} /\ Finish(q) /\ UNCHANGED <<friends, notes>>

\* What the handlers of Friendships do, and those of the notebook.
Step ==
  \/ FriendsNext /\ UNCHANGED <<notes, req>>
  \/ \E q \in Requests :
       \/ Begin(q) \/ BeginEdit(q) \/ ReadFriends(q) \/ ReadShare(q) \/ ReadAccess(q) \/ CreateShare(q)
       \/ WriteAccess(q) \/ Enter(q) \/ Deliver(q) \/ Apply(q) \/ FindPending(q)
       \/ StoreOffer(q) \/ ReadOffer(q) \/ DecideOffer(q) \/ ReadGrant(q) \/ WriteGrant(q)
       \/ Break(q)
  \/ /\ \/ Publish \/ Revoke
        \/ \E v \in {"PUBLIC", "AUTHORIZED"} : SetVisibility(v)
        \/ \E g \in Guests : RemoveAccess(g) \/ Later(g)
     /\ UNCHANGED <<friends, offers, entry, grant, texts, written>>
  \/ Write /\ UNCHANGED <<friends, share, access, offers, grant, req>>
  \/ /\ \E g \in Guests : RemoveGrant(g, g) \/ RemoveGrant(g, Owner)
     /\ UNCHANGED <<friends, share, access, offers, entry, texts, written>>

\* What is true of a guest at a moment.
Truths ==
  [g \in Guests |->
     (IF AreFriends(Owner, g) THEN {"friends"} ELSE {})
       \cup (IF grant[g] = "APPROVED" THEN {"granted"} ELSE {})
       \cup (IF access[g] # None /\ access[g].status = "APPROVED" THEN {access[g].role} ELSE {})]
Watch ==
  met' = [q \in Requests |->
            IF req'[q] = Idle THEN {}
            ELSE Truths'[req'[q].by] \cup (IF req[q] = Idle THEN {} ELSE met[q])]

RequestsInTurn == \A q \in Requests : req[q].pc # "idle" => req'[q].pc # req[q].pc
Next == Step /\ Watch /\ (calm => AsksInTurn /\ RequestsInTurn)
Spec == Init /\ [][Next]_vars

-----------------------------------------------------------------------------
(* Properties.                                                             *)

\* "remover/bloquear corta o acesso de imediato", "convites do dono so valem
\* enquanto forem amigos": what an invited guest gets to see or to write, and
\* what anybody reads by leave, it had the right to at some moment of the very
\* request, however the friendship, the share, the row and the leave change.
CutAtOnce ==
  \A q \in Requests :
    LET r == req[q] IN
    /\ r.pc \in {"deliver", "apply", "pending", "store"} /\ r.op \in {"edit", "open"} =>
         r.seen.role \in met[q] /\ (r.seen.invited => "friends" \in met[q])
    /\ r.pc = "deliver" /\ r.op = "readNotes" => {"friends", "granted"} \subseteq met[q]

\* decideProposal: of a proposal that is approved the text that was proposed last
\* was put into the note, of another it was not; and a guest has one that waits.
OffersKept ==
  /\ \A i \in 1 .. Len(offers) : offers[i].status = "APPROVED" <=> offers[i].text \in written
  /\ \A g \in Guests : Cardinality(Pending(g)) <= 1

\* Friends agreed to it in any case; of requests that follow each other nothing
\* else is left wrong (of others: section 6 of the README).
SharingSound == FriendsAgreed /\ (calm => OneTie /\ BlockCuts /\ OffersKept)

\* "true = convite do DONO": what a guest asked for waits for the owner, not for
\* the guest (schema.prisma).
AskedIsTheOwners ==
  \A g \in Guests :
    access[g] # None /\ access[g].status = "PENDING" => access[g].invited = (access[g].asker = "owner")

\* "ninguem recebe acesso sem querer" (invite): a guest that has access asked for
\* it or accepted it, and did not decline since.
WantedAccess ==
  \A g \in Guests : access[g] # None /\ access[g].status = "APPROVED" => access[g].willing

\* "Maximo de pessoas com acesso (convites + pedidos) por nota".
PeopleWithinLimit == Cardinality({g \in Guests : access[g] # None}) <= MaxPeople
=============================================================================
