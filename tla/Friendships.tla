----------------------------- MODULE Friendships -----------------------------
(***************************************************************************)
(* Who is whose friend (social.service.ts, friend-links.service.ts): the   *)
(* tables Friendship, one row for whoever asked, and UserBlock.  A request *)
(* to become friends takes several statements; what is one statement or    *)
(* transaction is one action.  Codes of friends, banned accounts and the   *)
(* membership of a class only refuse and are left out.                     *)
(***************************************************************************)
EXTENDS Integers, FiniteSets

CONSTANTS
  People, Asks,   \* requests to become friends that are under way
  None,
  MaxFriends,     \* MAX_FRIENDS
  MaxPending      \* MAX_PENDING_OUTGOING

ASSUME FriendshipsAssumption == {MaxFriends, MaxPending} \subseteq Nat

VARIABLES
  calm,           \* whether one request follows the other, in this behaviour
  tie,            \* of each pair <<requester, addressee>> the status of its row, or None
  blocked,        \* pairs <<blocker, blocked>>
  ask,
  agreed          \* history: <<u, v>>: u did something for a friendship with v
                  \* since they last had no row
friends == <<calm, tie, blocked, ask, agreed>>

Pairs == {x \in People \X People : x[1] # x[2]}
Back(x) == <<x[2], x[1]>>
Both(x) == {x, Back(x)}

Gone == <<>>      \* the row that was read has been deleted

\* No row, nobody: neither a status nor a row nor a deleted one.
ASSUME NoRowAssumption ==
  None \notin People /\ None \notin Pairs /\ None # Gone /\ None \notin {"PENDING", "ACCEPTED"}

NoAsk == [op |-> None, pc |-> "idle", pair |-> None, holds |-> None]

FriendsInit ==
  /\ calm \in BOOLEAN
  /\ tie = [x \in Pairs |-> None] /\ blocked = {} /\ agreed = {}
  /\ ask = [q \in Asks |-> NoAsk]

\* areFriends
AreFriends(u, v) == \E x \in Both(<<u, v>>) : tie[x] = "ACCEPTED"
FriendsOf(u) == Cardinality({x \in Pairs : u \in {x[1], x[2]} /\ tie[x] = "ACCEPTED"})
PendingOf(u) == Cardinality({x \in Pairs : u = x[1] /\ tie[x] = "PENDING"})

\* assertCanSendRequests: two counts at once.
AtLimit(u) == PendingOf(u) >= MaxPending \/ FriendsOf(u) >= MaxFriends

AskTo(q, pc) == ask' = [ask EXCEPT ![q].pc = pc]
AskEnds(q) == ask' = [ask EXCEPT ![q] = NoAsk]

\* Rows are deleted; what refers to one by its id misses it from now on.
Drop(rows) ==
  /\ tie' = [x \in Pairs |-> IF x \in rows THEN None ELSE tie[x]]
  /\ agreed' = {x \in agreed : \E y \in Both(x) \ rows : tie[y] # None}
  /\ ask' = [q \in Asks |-> IF ask[q].holds \in rows THEN [ask[q] EXCEPT !.holds = Gone]
                            ELSE ask[q]]

-----------------------------------------------------------------------------
(* A request to become friends: by code or to a classmate, by e-mail, by   *)
(* the signed link of the other.                                           *)

BeginAsk(q) ==
  /\ ask[q] = NoAsk
  /\ \E x \in Pairs, op \in {"code", "email", "link"} :
       ask' = [ask EXCEPT ![q] = [NoAsk EXCEPT !.op = op, !.pair = x,
                                   !.pc = IF op = "email" THEN "own" ELSE "blocks"]]
  /\ UNCHANGED <<tie, blocked, agreed>>

\* requestByEmail asks for the limits of the sender first.
ReadOwnLimits(q) ==
  /\ ask[q].pc = "own"
  /\ IF AtLimit(ask[q].pair[1]) THEN AskEnds(q) ELSE AskTo(q, "blocks")
  /\ UNCHANGED <<tie, blocked, agreed>>

ReadBlocks(q) ==
  /\ ask[q].pc = "blocks"
  /\ IF Both(ask[q].pair) \cap blocked # {} THEN AskEnds(q) ELSE AskTo(q, "ties")
  /\ UNCHANGED <<tie, blocked, agreed>>

\* The row between the two, whoever asked (one of them, should there be two).
\* Of one's own request to the other there is no more to do; the other's is
\* accepted.  A link accepts either.
ReadTies(q) ==
  LET a == ask[q]
      rows == {x \in Both(a.pair) : tie[x] # None} IN
  /\ a.pc = "ties"
  /\ \/ rows = {} /\ AskTo(q, "limits")
     \/ \E x \in rows :
          IF tie[x] = "ACCEPTED" \/ (a.op # "link" /\ x = a.pair) THEN AskEnds(q)
          ELSE ask' = [ask EXCEPT ![q].holds = x,
                                  ![q].pc = IF a.op = "link" THEN "limits" ELSE "accept"]
  /\ UNCHANGED <<tie, blocked, agreed>>

\* The limits of the sender, or of both ends of a link.
ReadLimits(q) ==
  LET a == ask[q] IN
  /\ a.pc = "limits"
  /\ IF \/ a.op # "link" /\ AtLimit(a.pair[1])
        \/ a.op = "link" /\ \E u \in {a.pair[1], a.pair[2]} : FriendsOf(u) >= MaxFriends
     THEN AskEnds(q) ELSE AskTo(q, "write")
  /\ UNCHANGED <<tie, blocked, agreed>>

\* The row of a request, or (accepted) of the owner of the link.  It fails if
\* there is one already, or if the one to accept was deleted.
WriteTie(q) ==
  LET a == ask[q]
      x == CASE a.op # "link" -> a.pair
             [] a.op = "link" /\ a.holds = None -> Back(a.pair)
             [] OTHER -> a.holds
      fails == x = Gone \/ (a.holds = None /\ tie[x] # None) IN
  /\ a.pc = "write"
  /\ IF fails THEN UNCHANGED <<tie, agreed>>
     ELSE /\ tie' = [tie EXCEPT ![x] = IF a.op = "link" THEN "ACCEPTED" ELSE "PENDING"]
          /\ agreed' = agreed \cup (IF a.op = "link" THEN Both(x) ELSE {x})
  /\ AskEnds(q)
  /\ UNCHANGED blocked

\* Asking back accepts, by the id that was read, if it is still pending.
AskBack(q) ==
  LET a == ask[q] IN
  /\ a.pc = "accept"
  /\ IF a.holds # Gone /\ tie[a.holds] = "PENDING"
     THEN tie' = [tie EXCEPT ![a.holds] = "ACCEPTED"] /\ agreed' = agreed \cup {a.pair}
     ELSE UNCHANGED <<tie, agreed>>
  /\ AskEnds(q)
  /\ UNCHANGED blocked

BreakAsk(q) ==
  ask[q] # NoAsk /\ AskEnds(q) /\ UNCHANGED <<tie, blocked, agreed>>

-----------------------------------------------------------------------------
(* What takes one statement or transaction.                                *)

\* accept: u, to whom the row is addressed.
Accept(x, u) ==
  /\ tie[x] = "PENDING" /\ u = x[2]
  /\ tie' = [tie EXCEPT ![x] = "ACCEPTED"] /\ agreed' = agreed \cup {y \in Both(x) : y[1] = u}
  /\ UNCHANGED <<blocked, ask>>

\* remove: refused, cancelled, or friends no more.
Remove(x) == tie[x] # None /\ Drop({x}) /\ UNCHANGED blocked

BlockOneWay(x) ==                                           \* a mutant
  Drop({x}) /\ blocked' = blocked \cup {x}
\* block
Block(x) == Drop(Both(x)) /\ blocked' = blocked \cup {x}
Unblock(x) == x \in blocked /\ blocked' = blocked \ {x} /\ UNCHANGED <<tie, ask, agreed>>

FriendsStep ==
  \/ \E q \in Asks :
       \/ BeginAsk(q) \/ ReadOwnLimits(q) \/ ReadBlocks(q) \/ ReadTies(q) \/ ReadLimits(q)
       \/ WriteTie(q) \/ AskBack(q) \/ BreakAsk(q)
  \/ \E x \in Pairs :
       Accept(x, x[1]) \/ Accept(x, x[2]) \/ Remove(x) \/ Block(x) \/ Unblock(x)

\* The step is that of the request under way, if there is one.
AsksInTurn == \A q \in Asks : ask[q].pc # "idle" => ask'[q].pc # ask[q].pc
FriendsNext == FriendsStep /\ UNCHANGED calm /\ (calm => AsksInTurn)
FriendsSpec == FriendsInit /\ [][FriendsNext]_friends

-----------------------------------------------------------------------------
(* Properties.                                                             *)

\* accept, sendRequest: of two friends each did something for it since they last
\* had nothing to do with each other: asked, asked back, accepted, opened or made
\* a link.
FriendsAgreed == \A x \in Pairs : tie[x] = "ACCEPTED" => Both(x) \subseteq agreed

\* requestTo looks for a row of either direction: there is one between two people,
\* so that removing it ends the friendship.
OneTie == \A x \in Pairs : tie[x] # None => tie[Back(x)] = None

\* block: nothing is left between two people of whom one blocked the other.
BlockCuts == \A x \in blocked : \A y \in Both(x) : tie[y] = None

\* "Limite de amigos dos dois lados, como num pedido aceite" (accept of a link).
FriendsWithinLimit == \A u \in People : FriendsOf(u) <= MaxFriends
=============================================================================
