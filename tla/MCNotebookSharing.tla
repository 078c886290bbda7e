-------------------------- MODULE MCNotebookSharing --------------------------
(* An instance of NotebookSharing for TLC.                                 *)
EXTENDS NotebookSharing, TLC

CONSTANTS
  Topics,                 \* what behaviours may be about
  Modes,                  \* of requests one after the other, or meeting (TRUE, FALSE)
  Changing                \* how many requests that change something may meet

VARIABLE about            \* what the requests of this behaviour are about

Symmetry == Permutations(Asks) \cup Permutations(Requests)

Operations ==
  [ties |-> {}, roles |-> {"askAccess", "decide", "invite", "respond", "open"},
   edits |-> {"invite", "respond", "edit", "decideOffer"},
   reading |-> {"askGrant", "decideGrant", "readNotes"}]

Busy == {q \in Requests : req[q] # Idle}
Asking == {q \in Asks : ask[q] # NoAsk}

\* Bound: requests to become friends overlap where they are what it is about;
\* elsewhere they are those of a guest by code, at a time when nothing else is,
\* and nobody blocks.  Where requests meet, one of them looks or edits, and the
\* owner gives one role, or two.
Looking == {"open", "edit", "readNotes"}
MixedInit == Init /\ about \in Topics /\ calm \in Modes
MixedNext ==
  /\ Next /\ UNCHANGED about
  /\ \A q \in Busy' : req'[q].op \in Operations[about]
  /\ share' # "none" => about \in {"roles", "edits"}
  /\ texts' > 0 => about = "edits"
  /\ about # "ties" =>
       /\ blocked' = {} /\ Cardinality(Asking') <= 1
       /\ \A q \in Asking' : ask'[q].op = "code" /\ ask'[q].pair[2] = Owner
       /\ Asking # {} => UNCHANGED <<notes, req>>
       /\ Asking' # {} => Busy' = {}
  /\ ~calm =>
       /\ texts' <= 1
       /\ Cardinality({q \in Busy' : req'[q].op \notin Looking}) <= Changing
       /\ Cardinality({q \in Busy' : req'[q].op = "open"}) <= 1
       /\ \A q \in Busy' : req'[q].op \in {"invite", "decide"} =>
            req'[q].role \in IF about = "edits" THEN {"EDITOR", "CO_OWNER"} ELSE {"CO_OWNER"}
MixedSpec == MixedInit /\ [][MixedNext]_<<vars, about>>
=============================================================================
