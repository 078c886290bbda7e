----------------------------- MODULE SharingProofs -----------------------------
(***************************************************************************)
(* What the notebook and the class groups promise, proved for any number   *)
(* of people and of requests.  Of requests that meet: friends both agreed  *)
(* to it, and who is shown a note or changes it through a link had the     *)
(* right to at some moment of that very request.  Of requests that follow  *)
(* one another: two people have one row at most, none beside a block, and  *)
(* a note holds the texts that were approved and no other proposal's; a    *)
(* class has one delegado, and nothing is left of classes and people that  *)
(* are gone.  Friends and notes come first, classes after them.            *)
(***************************************************************************)
EXTENDS NotebookSharing, Turmas, FiniteSetTheorems, TLAPS

USE FriendshipsAssumption, NoRowAssumption, NoAccessAssumption

-----------------------------------------------------------------------------
(* Friends.                                                                *)

AskPcs == {"idle", "own", "blocks", "ties", "limits", "write", "accept"}
AskRecord == [op : {None, "code", "email", "link"}, pc : AskPcs,
              pair : Pairs \cup {None}, holds : Pairs \cup {None, Gone}]

TieTypes ==
  /\ tie \in [Pairs -> {None, "PENDING", "ACCEPTED"}]
  /\ agreed \subseteq Pairs
  /\ ask \in [Asks -> AskRecord]

\* What a request under way is about, and what it is going to accept: the row of
\* the other to the one who asks.
AskSound(a) ==
  /\ a.pc # "idle" => a.pair \in Pairs
  /\ a.pc = "accept" => a.holds \in {Gone, Back(a.pair)}

\* Whoever asked did something for it, and so did both of two friends.
RowAgreed(x) ==
  /\ tie[x] = "PENDING" => x \in agreed
  /\ tie[x] = "ACCEPTED" => Both(x) \subseteq agreed

FriendsInv ==
  /\ TieTypes
  /\ \A q \in Asks : AskSound(ask[q])
  /\ \A x \in Pairs : RowAgreed(x)

LEMMA PairsBack ==
  ASSUME NEW x \in Pairs
  PROVE  /\ Back(x) \in Pairs /\ Back(Back(x)) = x /\ Both(x) \subseteq Pairs
         /\ x = <<x[1], x[2]>> /\ x # Back(x) /\ x # Gone
  BY DEF Pairs, Back, Both, Gone

LEMMA InitFriendsInv == FriendsInit => FriendsInv
<1> SUFFICES ASSUME FriendsInit PROVE FriendsInv
  OBVIOUS
<1>1. NoAsk \in AskRecord /\ NoAsk.pc = "idle"
  BY DEF NoAsk, AskRecord, AskPcs
<1>2. TieTypes
  BY <1>1 DEF FriendsInit, TieTypes
<1>3. \A q \in Asks : AskSound(ask[q])
  BY <1>1 DEF FriendsInit, AskSound
<1>4. \A x \in Pairs : RowAgreed(x)
  BY DEF FriendsInit, RowAgreed
<1> QED BY <1>2, <1>3, <1>4 DEF FriendsInv

\* A request goes on to a next step: where it is not the one that accepts, what
\* it holds does not matter.
LEMMA AskGoesOn ==
  ASSUME FriendsInv, NEW q \in Asks, NEW a \in AskRecord, AskSound(a),
         ask' = [ask EXCEPT ![q] = a], UNCHANGED <<tie, agreed>>
  PROVE  FriendsInv'
<1>1. TieTypes'
  BY DEF FriendsInv, TieTypes
<1>2. \A p \in Asks : AskSound(ask[p])'
  <2> TAKE p \in Asks
  <2>1. ask'[p] = IF p = q THEN a ELSE ask[p]
    BY DEF FriendsInv, TieTypes
  <2> QED BY <2>1 DEF FriendsInv, AskSound
<1>3. \A x \in Pairs : RowAgreed(x)'
  BY DEF FriendsInv, RowAgreed
<1> QED BY <1>1, <1>2, <1>3 DEF FriendsInv

\* ... or ends, after it wrote one row for which somebody just did something.
LEMMA AskWrites ==
  ASSUME FriendsInv, NEW q \in Asks, AskEnds(q),
         NEW x \in Pairs, NEW status \in {"PENDING", "ACCEPTED"},
         tie' = [tie EXCEPT ![x] = status],
         agreed \subseteq agreed', agreed' \subseteq Pairs, RowAgreed(x)'
  PROVE  FriendsInv'
<1>1. NoAsk \in AskRecord /\ NoAsk.pc = "idle"
  BY DEF NoAsk, AskRecord, AskPcs
<1>2. TieTypes'
  BY <1>1 DEF FriendsInv, TieTypes, AskEnds
<1>3. \A p \in Asks : AskSound(ask[p])'
  <2> TAKE p \in Asks
  <2>1. ask'[p] = IF p = q THEN NoAsk ELSE ask[p]
    BY DEF FriendsInv, TieTypes, AskEnds
  <2> QED BY <1>1, <2>1 DEF FriendsInv, AskSound
<1>4. \A y \in Pairs : RowAgreed(y)'
  <2> TAKE y \in Pairs
  <2>1. CASE y = x
    BY <2>1
  <2>2. CASE y # x
    <3>1. tie'[y] = tie[y] /\ RowAgreed(y)
      BY <2>2 DEF FriendsInv, TieTypes
    <3> QED BY <3>1 DEF RowAgreed
  <2> QED BY <2>1, <2>2
<1> QED BY <1>2, <1>3, <1>4 DEF FriendsInv

LEMMA AskStops ==
  ASSUME FriendsInv, NEW q \in Asks, AskEnds(q), UNCHANGED <<tie, agreed>>
  PROVE  FriendsInv'
<1>1. NoAsk \in AskRecord /\ AskSound(NoAsk)
  BY DEF NoAsk, AskRecord, AskPcs, AskSound
<1> QED BY <1>1, AskGoesOn DEF AskEnds

\* A request that only moves on to another step than the last.
LEMMA AskMoves ==
  ASSUME FriendsInv, NEW q \in Asks, NEW pc \in AskPcs \ {"idle", "accept"},
         ask[q].pc # "idle", AskTo(q, pc), UNCHANGED <<tie, agreed>>
  PROVE  FriendsInv'
<1> DEFINE a == [ask[q] EXCEPT !.pc = pc]
<1>1. ask[q] \in AskRecord /\ AskSound(ask[q])
  BY DEF FriendsInv, TieTypes
<1>2. a \in AskRecord /\ a.pc = pc /\ a.pair = ask[q].pair
  BY <1>1 DEF AskRecord
<1>3. AskSound(a)
  BY <1>1, <1>2 DEF AskSound
<1>4. ask' = [ask EXCEPT ![q] = a]
  BY DEF AskTo
<1> HIDE DEF a
<1> QED BY <1>2, <1>3, <1>4, AskGoesOn

\* Rows that are deleted take along what was agreed, of these pairs only.
LEMMA DropKeeps ==
  ASSUME FriendsInv, NEW rows \in SUBSET Pairs, Drop(rows)
  PROVE  FriendsInv'
<1>1. \A q \in Asks : /\ ask[q] \in AskRecord /\ AskSound(ask[q])
                      /\ ask'[q] = IF ask[q].holds \in rows THEN [ask[q] EXCEPT !.holds = Gone]
                                   ELSE ask[q]
  BY DEF FriendsInv, TieTypes, Drop
<1>2. \A q \in Asks : ask'[q] \in AskRecord /\ AskSound(ask'[q])
  <2> TAKE q \in Asks
  <2>1. CASE ask[q].holds \in rows
    <3>1. ask'[q] = [ask[q] EXCEPT !.holds = Gone]
      BY <1>1, <2>1
    <3>2. /\ ask'[q] \in AskRecord /\ ask'[q].holds = Gone
          /\ ask'[q].pc = ask[q].pc /\ ask'[q].pair = ask[q].pair
      BY <1>1, <3>1 DEF AskRecord
    <3> QED BY <1>1, <3>2 DEF AskSound
  <2>2. CASE ask[q].holds \notin rows
    BY <1>1, <2>2
  <2> QED BY <2>1, <2>2
<1>3. TieTypes'
  <2>1. tie' \in [Pairs -> {None, "PENDING", "ACCEPTED"}] /\ agreed' \subseteq Pairs
    BY DEF FriendsInv, TieTypes, Drop
  <2>2. ask' \in [Asks -> AskRecord]
    BY <1>2 DEF Drop
  <2> QED BY <2>1, <2>2 DEF TieTypes
<1>4. \A x \in Pairs : RowAgreed(x)'
  <2> TAKE x \in Pairs
  <2>1. CASE x \in rows
    <3>1. tie'[x] = None
      BY <2>1 DEF Drop
    <3> QED BY <3>1 DEF RowAgreed
  <2>2. CASE x \notin rows
    <3>1. tie'[x] = tie[x] /\ RowAgreed(x)
      BY <2>2 DEF Drop, FriendsInv
    <3>2. \A y \in Both(x) : x \in Both(y) \ rows
      BY <2>2, PairsBack DEF Both
    <3>3. tie[x] # None => \A y \in Both(x) \cap agreed : y \in agreed'
      BY <3>2 DEF Drop
    <3> QED BY <3>1, <3>3 DEF RowAgreed, Both
  <2> QED BY <2>1, <2>2
<1> QED BY <1>2, <1>3, <1>4 DEF FriendsInv

-----------------------------------------------------------------------------
(* The steps of Friendships.                                               *)

\* What each step of a request to become friends does to FriendsInv.
LEMMA AskSteps ==
  ASSUME FriendsInv, NEW q \in Asks,
         \/ BeginAsk(q) \/ ReadOwnLimits(q) \/ ReadBlocks(q) \/ ReadTies(q)
         \/ ReadLimits(q) \/ BreakAsk(q)
  PROVE  FriendsInv'
<1>0. ask[q] \in AskRecord /\ AskSound(ask[q])
  BY DEF FriendsInv, TieTypes
<1>1. CASE BeginAsk(q)
  <2> PICK x \in Pairs, op \in {"code", "email", "link"} :
        ask' = [ask EXCEPT ![q] = [NoAsk EXCEPT !.op = op, !.pair = x,
                                    !.pc = IF op = "email" THEN "own" ELSE "blocks"]]
    BY <1>1 DEF BeginAsk
  <2> DEFINE a == [NoAsk EXCEPT !.op = op, !.pair = x,
                     !.pc = IF op = "email" THEN "own" ELSE "blocks"]
  <2>1. a \in AskRecord /\ a.pair = x /\ a.pc \in {"own", "blocks"}
    BY DEF NoAsk, AskRecord, AskPcs
  <2>2. AskSound(a)
    BY <2>1 DEF AskSound
  <2>3. UNCHANGED <<tie, agreed>> /\ ask' = [ask EXCEPT ![q] = a]
    BY <1>1 DEF BeginAsk
  <2> HIDE DEF a
  <2> QED BY <2>1, <2>2, <2>3, AskGoesOn
<1>2. CASE ReadOwnLimits(q)
  BY <1>2, AskStops, AskMoves DEF ReadOwnLimits, AskPcs
<1>3. CASE ReadBlocks(q)
  BY <1>3, AskStops, AskMoves DEF ReadBlocks, AskPcs
<1>4. CASE ReadTies(q)
  <2>1. UNCHANGED <<tie, agreed>> /\ ask[q].pc = "ties"
    BY <1>4 DEF ReadTies
  <2>2. CASE AskTo(q, "limits")
    BY <2>1, <2>2, AskMoves DEF AskPcs
  <2>3. CASE AskEnds(q)
    BY <2>1, <2>3, AskStops
  <2>4. CASE ~AskTo(q, "limits") /\ ~AskEnds(q)
    <3> PICK x \in Both(ask[q].pair) :
          /\ ~(ask[q].op # "link" /\ x = ask[q].pair)
          /\ ask' = [ask EXCEPT ![q].holds = x,
                                ![q].pc = IF ask[q].op = "link" THEN "limits" ELSE "accept"]
      BY <1>4, <2>4 DEF ReadTies
    <3> DEFINE a == [ask[q] EXCEPT !.holds = x,
                       !.pc = IF ask[q].op = "link" THEN "limits" ELSE "accept"]
    <3>1. ask[q].pair \in Pairs /\ x \in Pairs
      BY <1>0, <2>1, PairsBack DEF AskSound
    <3>2. a \in AskRecord /\ a.holds = x /\ a.pair = ask[q].pair
          /\ a.pc = IF ask[q].op = "link" THEN "limits" ELSE "accept"
      BY <1>0, <3>1 DEF AskRecord, AskPcs
    <3>3. a.pc = "accept" => x = Back(a.pair)
      BY <3>2 DEF Both
    <3>4. AskSound(a)
      BY <3>1, <3>2, <3>3 DEF AskSound
    <3>5. ask' = [ask EXCEPT ![q] = a]
      OBVIOUS
    <3> HIDE DEF a
    <3> QED BY <2>1, <3>2, <3>4, <3>5, AskGoesOn
  <2> QED BY <2>2, <2>3, <2>4
<1>5. CASE ReadLimits(q)
  BY <1>5, AskStops, AskMoves DEF ReadLimits, AskPcs
<1>6. CASE BreakAsk(q)
  BY <1>6, AskStops DEF BreakAsk
<1> QED BY <1>1, <1>2, <1>3, <1>4, <1>5, <1>6

\* The request is written, or the link opened: by the one who asks.
LEMMA WriteTieKeeps ==
  ASSUME FriendsInv, NEW q \in Asks, WriteTie(q)
  PROVE  FriendsInv'
<1> DEFINE a == ask[q]
           x == CASE a.op # "link" -> a.pair
                  [] a.op = "link" /\ a.holds = None -> Back(a.pair)
                  [] OTHER -> a.holds
<1>1. a \in AskRecord /\ a.pair \in Pairs /\ AskEnds(q)
  BY DEF FriendsInv, TieTypes, AskSound, WriteTie
<1>2. CASE UNCHANGED <<tie, agreed>>
  BY <1>1, <1>2, AskStops
<1>3. CASE ~UNCHANGED <<tie, agreed>>
  <2>1. /\ x # Gone
        /\ tie' = [tie EXCEPT ![x] = IF a.op = "link" THEN "ACCEPTED" ELSE "PENDING"]
        /\ agreed' = agreed \cup (IF a.op = "link" THEN Both(x) ELSE {x})
    BY <1>3 DEF WriteTie
  <2>2. x \in Pairs
    <3>1. a.holds \in Pairs \cup {None, Gone}
      BY <1>1 DEF AskRecord
    <3>2. CASE a.op # "link"
      BY <1>1, <3>2
    <3>3. CASE a.op = "link" /\ a.holds = None
      BY <1>1, <3>3, PairsBack
    <3>4. CASE a.op = "link" /\ a.holds # None
      <4>1. x = a.holds
        BY <3>4
      <4> QED BY <2>1, <3>1, <3>4, <4>1
    <3> QED BY <3>2, <3>3, <3>4
  <2> PICK y \in Pairs : y = x
    BY <2>2
  <2>3. /\ Both(y) \subseteq Pairs /\ y \in Both(y)
        /\ tie' = [tie EXCEPT ![y] = IF a.op = "link" THEN "ACCEPTED" ELSE "PENDING"]
        /\ agreed' = agreed \cup (IF a.op = "link" THEN Both(y) ELSE {y})
    BY <2>1, PairsBack DEF Both
  <2> HIDE DEF x
  <2>4. RowAgreed(y)'
    BY <2>3 DEF RowAgreed, FriendsInv, TieTypes
  <2>5. agreed \subseteq agreed' /\ agreed' \subseteq Pairs
    BY <2>3 DEF FriendsInv, TieTypes
  <2> QED BY <1>1, <2>3, <2>4, <2>5, AskWrites
<1> QED BY <1>2, <1>3

\* Who asks back accepts the row of the other, who asked.
LEMMA AskBackKeeps ==
  ASSUME FriendsInv, NEW q \in Asks, AskBack(q)
  PROVE  FriendsInv'
<1> DEFINE x == ask[q].holds
<1>1. AskEnds(q) /\ ask[q].pair \in Pairs /\ x \in {Gone, Back(ask[q].pair)}
  BY DEF FriendsInv, TieTypes, AskSound, AskBack
<1>2. CASE UNCHANGED <<tie, agreed>>
  BY <1>1, <1>2, AskStops
<1>3. CASE ~UNCHANGED <<tie, agreed>>
  <2>1. /\ x # Gone /\ tie[x] = "PENDING"
        /\ tie' = [tie EXCEPT ![x] = "ACCEPTED"] /\ agreed' = agreed \cup {ask[q].pair}
    BY <1>3 DEF AskBack
  <2>2. x \in Pairs /\ Both(x) = {x, ask[q].pair}
    BY <1>1, <2>1, PairsBack DEF Both
  <2>3. x \in agreed
    BY <2>1, <2>2 DEF FriendsInv, RowAgreed
  <2> PICK y \in Pairs : y = x
    BY <2>2
  <2>4. tie' = [tie EXCEPT ![y] = "ACCEPTED"] /\ Both(y) \subseteq agreed'
    BY <2>1, <2>2, <2>3
  <2>5. RowAgreed(y)'
    BY <2>4 DEF RowAgreed, FriendsInv, TieTypes
  <2>6. agreed \subseteq agreed' /\ agreed' \subseteq Pairs
    BY <1>1, <2>1 DEF FriendsInv, TieTypes
  <2> HIDE DEF x
  <2> QED BY <1>1, <2>4, <2>5, <2>6, AskWrites
<1> QED BY <1>2, <1>3

\* Only the one to whom the row is addressed accepts it.
LEMMA AcceptKeeps ==
  ASSUME FriendsInv, NEW x \in Pairs, NEW u, Accept(x, u)
  PROVE  FriendsInv'
<1>1. /\ tie[x] = "PENDING" /\ u = x[2] /\ UNCHANGED ask
      /\ tie' = [tie EXCEPT ![x] = "ACCEPTED"]
      /\ agreed' = agreed \cup {y \in Both(x) : y[1] = u}
  BY DEF Accept
<1>2. Both(x) \subseteq agreed' /\ agreed' \subseteq Pairs
  <2>1. x \in agreed /\ Back(x)[1] = u
    BY <1>1 DEF FriendsInv, RowAgreed, Back
  <2> QED BY <1>1, <2>1, PairsBack DEF Both, FriendsInv, TieTypes
<1>3. TieTypes'
  BY <1>1, <1>2 DEF FriendsInv, TieTypes
<1>4. \A q \in Asks : AskSound(ask[q])'
  BY <1>1 DEF FriendsInv, AskSound
<1>5. \A y \in Pairs : RowAgreed(y)'
  <2> TAKE y \in Pairs
  <2>1. CASE y = x
    BY <1>2, <2>1, <1>1 DEF RowAgreed, FriendsInv, TieTypes
  <2>2. CASE y # x
    <3>1. tie'[y] = tie[y] /\ RowAgreed(y) /\ agreed \subseteq agreed'
      BY <1>1, <2>2 DEF FriendsInv, TieTypes
    <3> QED BY <3>1 DEF RowAgreed
  <2> QED BY <2>1, <2>2
<1> QED BY <1>3, <1>4, <1>5 DEF FriendsInv

LEMMA NextFriendsInv == FriendsInv /\ [FriendsNext]_friends => FriendsInv'
<1> SUFFICES ASSUME FriendsInv, [FriendsNext]_friends PROVE FriendsInv'
  OBVIOUS
<1>1. CASE UNCHANGED friends
  BY <1>1 DEF friends, FriendsInv, TieTypes, AskSound, RowAgreed
<1>2. CASE \E q \in Asks :
             \/ BeginAsk(q) \/ ReadOwnLimits(q) \/ ReadBlocks(q) \/ ReadTies(q)
             \/ ReadLimits(q) \/ WriteTie(q) \/ AskBack(q) \/ BreakAsk(q)
  BY <1>2, AskSteps, WriteTieKeeps, AskBackKeeps
<1>3. CASE \E x \in Pairs : Accept(x, x[1]) \/ Accept(x, x[2])
  BY <1>3, AcceptKeeps
<1>4. CASE \E x \in Pairs : Remove(x) \/ Block(x)
  <2> PICK x \in Pairs : Remove(x) \/ Block(x)
    BY <1>4
  <2>1. {x} \in SUBSET Pairs /\ Both(x) \in SUBSET Pairs
    BY PairsBack
  <2> QED BY <2>1, DropKeeps DEF Remove, Block
<1>5. CASE \E x \in Pairs : Unblock(x)
  BY <1>5 DEF Unblock, FriendsInv, TieTypes, AskSound, RowAgreed
<1> QED BY <1>1, <1>2, <1>3, <1>4, <1>5 DEF FriendsNext, FriendsStep

LEMMA AgreedFromInv == FriendsInv => FriendsAgreed
  BY DEF FriendsInv, RowAgreed, FriendsAgreed

\* accept, sendRequest: whatever requests, links, refusals and blocks meet, of two
\* friends each did something for it since they last had no row.
THEOREM FriendsBothAgreed == FriendsSpec => []FriendsAgreed
<1>1. FriendsSpec => []FriendsInv
  BY InitFriendsInv, NextFriendsInv, PTL DEF FriendsSpec
<1> QED BY <1>1, AgreedFromInv, PTL

-----------------------------------------------------------------------------
(* Friends of whom one request follows the other.                          *)

\* What a request has read is so until it writes: nothing between the two is
\* blocked, and of rows there is none, or the one it holds, which waits.
AskStill(a) ==
  /\ a.pc \in {"own", "blocks", "ties"} => a.holds = None
  /\ a.pc \in {"ties", "limits", "write", "accept"} => Both(a.pair) \cap blocked = {}
  /\ a.pc \in {"limits", "write"} /\ a.holds = None => \A y \in Both(a.pair) : tie[y] = None
  /\ a.pc \in {"limits", "write"} /\ a.holds # None => a.op = "link"
  /\ a.pc \in {"limits", "write", "accept"} /\ a.holds # None =>
       a.holds \in Both(a.pair) /\ tie[a.holds] = "PENDING"
TiesApart == OneTie /\ BlockCuts /\ \A q \in Asks : AskStill(ask[q])
TiesInv == FriendsInv /\ blocked \subseteq Pairs /\ (calm => TiesApart)

LEMMA NoAskStill ==
  ASSUME NEW a, a.pc = "idle" PROVE AskStill(a) /\ AskStill(a)'
  BY DEF AskStill

LEMMA NoAskIdle == NoAsk \in AskRecord /\ NoAsk.pc = "idle"
  BY DEF NoAsk, AskRecord, AskPcs

\* In turn, the other requests are idle where one takes a step.
LEMMA AskTakesTurn ==
  ASSUME FriendsInv, AsksInTurn, NEW q \in Asks, NEW a, ask' = [ask EXCEPT ![q] = a],
         OneTie', BlockCuts', AskStill(a)'
  PROVE  TiesApart'
<1>1. \A p \in Asks : ask'[p] = IF p = q THEN a ELSE ask[p]
  BY DEF FriendsInv, TieTypes
<1>2. \A p \in Asks \ {q} : ask'[p].pc = "idle"
  BY <1>1 DEF AsksInTurn
<1>3. \A p \in Asks \ {q} : AskStill(ask[p])'
  BY <1>2 DEF AskStill
<1>4. AskStill(ask[q])'
  BY <1>1 DEF AskStill
<1> QED BY <1>3, <1>4 DEF TiesApart

LEMMA AskStopsInTurn ==
  ASSUME FriendsInv, AsksInTurn, NEW q \in Asks, AskEnds(q), OneTie', BlockCuts'
  PROVE  TiesApart'
<1> PICK a : a = NoAsk
  OBVIOUS
<1>1. AskStill(a)' /\ ask' = [ask EXCEPT ![q] = a]
  BY NoAskIdle, NoAskStill DEF AskEnds
<1> QED BY <1>1, AskTakesTurn

LEMMA TiesAsBefore ==
  ASSUME OneTie, BlockCuts, UNCHANGED <<tie, blocked>>
  PROVE  OneTie' /\ BlockCuts'
  BY DEF OneTie, BlockCuts

\* The row between two people of whom none blocks the other.
LEMMA TieSet ==
  ASSUME FriendsInv, OneTie, BlockCuts, blocked \subseteq Pairs, NEW x \in Pairs,
         NEW status \in {"PENDING", "ACCEPTED"},
         tie' = [tie EXCEPT ![x] = status], UNCHANGED blocked,
         tie[Back(x)] = None, Both(x) \cap blocked = {}
  PROVE  OneTie' /\ BlockCuts'
<1>1. \A y \in Pairs : tie'[y] = IF y = x THEN status ELSE tie[y]
  BY DEF FriendsInv, TieTypes
<1>2. OneTie'
  <2> SUFFICES ASSUME NEW y \in Pairs, tie'[y] # None PROVE tie'[Back(y)] = None
    BY DEF OneTie
  <2>1. Back(y) \in Pairs /\ Back(Back(y)) = y
    BY PairsBack
  <2>2. CASE y = x
    BY <1>1, <2>1, <2>2, PairsBack
  <2>3. CASE y # x
    <3>1. tie[y] # None /\ tie[Back(y)] = None
      BY <1>1, <2>3 DEF OneTie
    <3>2. Back(y) # x
      BY <2>1, <3>1
    <3> QED BY <1>1, <2>1, <3>1, <3>2
  <2> QED BY <2>2, <2>3
<1>3. BlockCuts'
  <2> SUFFICES ASSUME NEW z \in blocked, NEW y \in Both(z) PROVE tie'[y] = None
    BY DEF BlockCuts
  <2>1. y \in Pairs /\ tie[y] = None /\ z \in Both(y)
    BY PairsBack DEF BlockCuts, Both
  <2> QED BY <1>1, <2>1
<1> QED BY <1>2, <1>3

\* The steps that read.
LEMMA AskReadsInTurn ==
  ASSUME FriendsInv, blocked \subseteq Pairs, TiesApart, AsksInTurn, NEW q \in Asks,
         \/ BeginAsk(q) \/ ReadOwnLimits(q) \/ ReadBlocks(q) \/ ReadTies(q)
         \/ ReadLimits(q) \/ BreakAsk(q)
  PROVE  TiesApart' /\ UNCHANGED blocked
<1>0. ask[q] \in AskRecord /\ AskSound(ask[q]) /\ AskStill(ask[q])
  BY DEF FriendsInv, TieTypes, TiesApart
<1>1. UNCHANGED <<tie, blocked>>
  BY DEF BeginAsk, ReadOwnLimits, ReadBlocks, ReadTies, ReadLimits, BreakAsk
<1>2. OneTie' /\ BlockCuts'
  BY <1>1, TiesAsBefore DEF TiesApart
<1>3. CASE AskEnds(q)
  BY <1>1, <1>2, <1>3, AskStopsInTurn
<1>4. ASSUME NEW pc \in AskPcs, AskTo(q, pc),
             \A a \in AskRecord :
               /\ a.pc = pc /\ a.op = ask[q].op /\ a.pair = ask[q].pair /\ a.holds = ask[q].holds
               => AskStill(a)
      PROVE  TiesApart' /\ UNCHANGED blocked
  <2> DEFINE b == [ask[q] EXCEPT !.pc = pc]
  <2>1. /\ b \in AskRecord /\ b.pc = pc /\ b.op = ask[q].op /\ b.pair = ask[q].pair
        /\ b.holds = ask[q].holds
    BY <1>0 DEF AskRecord
  <2>2. ask' = [ask EXCEPT ![q] = b]
    BY <1>4 DEF AskTo
  <2> HIDE DEF b
  <2> PICK a \in AskRecord : a = b
    BY <2>1
  <2>3. AskStill(a)'
    BY <1>1, <1>4, <2>1 DEF AskStill
  <2> QED BY <1>1, <1>2, <2>2, <2>3, AskTakesTurn
<1>5. CASE BeginAsk(q)
  <2> PICK x \in Pairs, op \in {"code", "email", "link"} :
        ask' = [ask EXCEPT ![q] = [NoAsk EXCEPT !.op = op, !.pair = x,
                                    !.pc = IF op = "email" THEN "own" ELSE "blocks"]]
    BY <1>5 DEF BeginAsk
  <2> PICK a : a = [NoAsk EXCEPT !.op = op, !.pair = x,
                     !.pc = IF op = "email" THEN "own" ELSE "blocks"]
    OBVIOUS
  <2>1. a.pc \in {"own", "blocks"} /\ a.holds = None
    BY DEF NoAsk
  <2>2. AskStill(a)' /\ ask' = [ask EXCEPT ![q] = a]
    BY <2>1 DEF AskStill
  <2> QED BY <1>1, <1>2, <2>2, AskTakesTurn
<1>6. CASE ReadOwnLimits(q) /\ ~AskEnds(q)
  <2>1. ask[q].pc = "own" /\ AskTo(q, "blocks") /\ "blocks" \in AskPcs
    BY <1>6 DEF ReadOwnLimits, AskPcs
  <2>2. \A a \in AskRecord : a.pc = "blocks" /\ a.holds = ask[q].holds => AskStill(a)
    BY <1>0, <2>1 DEF AskStill
  <2> QED BY <1>4, <2>1, <2>2
<1>7. CASE ReadBlocks(q) /\ ~AskEnds(q)
  <2>1. /\ ask[q].pc = "blocks" /\ AskTo(q, "ties") /\ "ties" \in AskPcs
        /\ Both(ask[q].pair) \cap blocked = {}
    BY <1>7 DEF ReadBlocks, AskPcs
  <2>2. \A a \in AskRecord :
          a.pc = "ties" /\ a.pair = ask[q].pair /\ a.holds = ask[q].holds => AskStill(a)
    BY <1>0, <2>1 DEF AskStill
  <2> QED BY <1>4, <2>1, <2>2
<1>8. CASE ReadTies(q) /\ ~AskEnds(q)
  <2>0. ask[q].pc = "ties" /\ "limits" \in AskPcs /\ ask[q].pair \in Pairs /\ ask[q].holds = None
        /\ Both(ask[q].pair) \cap blocked = {}
    BY <1>0, <1>8 DEF ReadTies, AskPcs, AskSound, AskStill
  <2>1. CASE AskTo(q, "limits") /\ {x \in Both(ask[q].pair) : tie[x] # None} = {}
    <3>1. \A a \in AskRecord :
            a.pc = "limits" /\ a.pair = ask[q].pair /\ a.holds = ask[q].holds => AskStill(a)
      BY <1>0, <2>0, <2>1 DEF AskStill
    <3> QED BY <1>4, <2>0, <2>1, <3>1
  <2>2. CASE ~(AskTo(q, "limits") /\ {x \in Both(ask[q].pair) : tie[x] # None} = {})
    <3> PICK x \in Both(ask[q].pair) :
          /\ tie[x] # None /\ tie[x] # "ACCEPTED"
          /\ ask' = [ask EXCEPT ![q].holds = x,
                                ![q].pc = IF ask[q].op = "link" THEN "limits" ELSE "accept"]
      BY <1>8, <2>2 DEF ReadTies
    <3> DEFINE b == [ask[q] EXCEPT !.holds = x,
                       !.pc = IF ask[q].op = "link" THEN "limits" ELSE "accept"]
    <3>1. x \in Pairs /\ tie[x] = "PENDING" /\ x # None
      BY <2>0, PairsBack DEF FriendsInv, TieTypes
    <3>2. b.holds = x /\ b.pair = ask[q].pair /\ b.op = ask[q].op
          /\ b.pc = IF ask[q].op = "link" THEN "limits" ELSE "accept"
      BY <1>0 DEF AskRecord
    <3>3. ask' = [ask EXCEPT ![q] = b]
      OBVIOUS
    <3> HIDE DEF b
    <3> PICK a : a = b
      OBVIOUS
    <3>4. AskStill(a)'
      BY <1>1, <2>0, <3>1, <3>2 DEF AskStill
    <3> QED BY <1>1, <1>2, <3>3, <3>4, AskTakesTurn
  <2> QED BY <2>1, <2>2
<1>9. CASE ReadLimits(q) /\ ~AskEnds(q)
  <2>1. ask[q].pc = "limits" /\ AskTo(q, "write") /\ "write" \in AskPcs
    BY <1>9 DEF ReadLimits, AskPcs
  <2>2. \A a \in AskRecord :
          a.pc = "write" /\ a.op = ask[q].op /\ a.pair = ask[q].pair /\ a.holds = ask[q].holds
            => AskStill(a)
    BY <1>0, <2>1 DEF AskStill
  <2> QED BY <1>4, <2>1, <2>2
<1>10. CASE BreakAsk(q)
  BY <1>3, <1>10 DEF BreakAsk
<1> QED BY <1>3, <1>5, <1>6, <1>7, <1>8, <1>9, <1>10

\* The steps that write a row.
LEMMA AskWritesInTurn ==
  ASSUME FriendsInv, blocked \subseteq Pairs, TiesApart, AsksInTurn, NEW q \in Asks,
         WriteTie(q) \/ AskBack(q)
  PROVE  TiesApart' /\ UNCHANGED blocked
<1> DEFINE a == ask[q]
<1>0. a \in AskRecord /\ AskSound(a) /\ AskStill(a) /\ OneTie /\ BlockCuts
  BY DEF FriendsInv, TieTypes, TiesApart
<1>1. UNCHANGED blocked /\ AskEnds(q) /\ a.pc \in {"write", "accept"}
  BY DEF WriteTie, AskBack
<1>2. a.pair \in Pairs /\ Both(a.pair) \cap blocked = {}
  BY <1>0, <1>1 DEF AskSound, AskStill
<1>3. CASE UNCHANGED tie
  BY <1>0, <1>1, <1>3, TiesAsBefore, AskStopsInTurn
<1>4. ASSUME NEW y \in Both(a.pair), tie[Back(y)] = None,
             NEW status \in {"PENDING", "ACCEPTED"}, tie' = [tie EXCEPT ![y] = status]
      PROVE  TiesApart' /\ UNCHANGED blocked
  <2>1. y \in Pairs /\ Both(y) = Both(a.pair)
    BY <1>2, PairsBack DEF Both
  <2>2. OneTie' /\ BlockCuts'
    BY <1>0, <1>1, <1>2, <1>4, <2>1, TieSet
  <2> QED BY <1>1, <2>2, AskStopsInTurn
<1>5. \A y \in Both(a.pair) : /\ Back(y) \in Both(a.pair) /\ y \in Pairs
                              /\ tie[y] # None => tie[Back(y)] = None
  BY <1>0, <1>2, PairsBack DEF Both, OneTie
<1>6. CASE WriteTie(q) /\ ~UNCHANGED tie
  <2> DEFINE x == CASE a.op # "link" -> a.pair
                    [] a.op = "link" /\ a.holds = None -> Back(a.pair)
                    [] OTHER -> a.holds
  <2>1. a.pc = "write" /\ tie' = [tie EXCEPT ![x] = IF a.op = "link" THEN "ACCEPTED" ELSE "PENDING"]
    BY <1>6 DEF WriteTie
  <2>2. CASE a.holds = None
    <3>1. x \in Both(a.pair)
      BY <2>2 DEF Both
    <3>2. tie[Back(x)] = None
      BY <1>0, <1>5, <2>1, <2>2, <3>1 DEF AskStill
    <3> HIDE DEF x
    <3> QED BY <1>4, <2>1, <3>1, <3>2
  <2>3. CASE a.holds # None
    <3>1. a.op = "link" /\ a.holds \in Both(a.pair) /\ tie[a.holds] = "PENDING"
      BY <1>0, <2>1, <2>3 DEF AskStill
    <3>2. x = a.holds
      BY <2>3, <3>1
    <3>3. tie[Back(x)] = None
      BY <1>5, <3>1, <3>2
    <3> HIDE DEF x
    <3> QED BY <1>4, <2>1, <3>1, <3>2, <3>3
  <2> QED BY <2>2, <2>3
<1>7. CASE AskBack(q) /\ ~UNCHANGED tie
  <2>1. /\ a.holds # Gone /\ tie[a.holds] = "PENDING" /\ a.pc = "accept"
        /\ tie' = [tie EXCEPT ![a.holds] = "ACCEPTED"]
    BY <1>7 DEF AskBack
  <2>2. a.holds = Back(a.pair)
    BY <1>0, <2>1 DEF AskSound
  <2>3. a.holds \in Both(a.pair)
    BY <2>2 DEF Both
  <2> HIDE DEF a
  <2> QED BY <1>4, <1>5, <2>1, <2>3
<1> QED BY <1>3, <1>6, <1>7

\* Rows go: nobody asks meanwhile.
LEMMA DropInTurn ==
  ASSUME FriendsInv, blocked \subseteq Pairs, TiesApart, AsksInTurn,
         NEW rows \in SUBSET Pairs, Drop(rows), blocked' \subseteq Pairs,
         \A x \in blocked' \ blocked : Both(x) \subseteq rows
  PROVE  TiesApart'
<1>1. \A q \in Asks : ask[q] \in AskRecord /\ ask'[q].pc = ask[q].pc
  BY DEF FriendsInv, TieTypes, Drop, AskRecord
<1>2. \A q \in Asks : AskStill(ask[q])'
  BY <1>1 DEF AsksInTurn, AskStill
<1>3. \A y \in Pairs : tie'[y] \in {None, tie[y]} /\ (y \in rows => tie'[y] = None)
  BY DEF Drop
<1>4. OneTie'
  BY <1>3, PairsBack DEF OneTie, TiesApart
<1>5. BlockCuts'
  <2> SUFFICES ASSUME NEW x \in blocked', NEW y \in Both(x) PROVE tie'[y] = None
    BY DEF BlockCuts
  <2>1. y \in Pairs
    BY PairsBack
  <2>2. x \in blocked => tie[y] = None
    BY DEF TiesApart, BlockCuts
  <2> QED BY <1>3, <2>1, <2>2
<1> QED BY <1>2, <1>4, <1>5 DEF TiesApart

LEMMA AcceptInTurn ==
  ASSUME FriendsInv, blocked \subseteq Pairs, TiesApart, AsksInTurn, NEW x \in Pairs, NEW u, Accept(x, u)
  PROVE  TiesApart'
<1>1. tie[x] = "PENDING" /\ tie' = [tie EXCEPT ![x] = "ACCEPTED"] /\ UNCHANGED <<blocked, ask>>
  BY DEF Accept
<1>2. tie[Back(x)] = None /\ Both(x) \cap blocked = {}
  BY <1>1, PairsBack DEF TiesApart, OneTie, BlockCuts, Both
<1>3. OneTie' /\ BlockCuts'
  BY <1>1, <1>2, TieSet DEF TiesApart
<1>4. \A q \in Asks : AskStill(ask[q])'
  BY <1>1 DEF AsksInTurn, AskStill
<1> QED BY <1>3, <1>4 DEF TiesApart

LEMMA NextTiesInv == TiesInv /\ [FriendsNext]_friends => TiesInv'
<1> SUFFICES ASSUME TiesInv, [FriendsNext]_friends PROVE TiesInv'
  OBVIOUS
<1>1. FriendsInv /\ FriendsInv' /\ blocked \subseteq Pairs
  BY NextFriendsInv DEF TiesInv
<1>2. CASE UNCHANGED friends
  BY <1>1, <1>2 DEF friends, TiesInv, TiesApart, OneTie, BlockCuts, AskStill
<1>3. CASE FriendsNext
  <2>1. calm' = calm
    BY <1>3 DEF FriendsNext
  <2>2. blocked' \subseteq Pairs
    BY <1>1, <1>3 DEF FriendsNext, FriendsStep, BeginAsk, ReadOwnLimits, ReadBlocks, ReadTies,
       ReadLimits, WriteTie, AskBack, BreakAsk, Accept, Remove, Block, Unblock
  <2>3. ASSUME calm PROVE TiesApart'
    <3>1. TiesApart /\ AsksInTurn
      BY <1>3, <2>3 DEF TiesInv, FriendsNext
    <3>2. CASE \E q \in Asks :
                 \/ BeginAsk(q) \/ ReadOwnLimits(q) \/ ReadBlocks(q) \/ ReadTies(q)
                 \/ ReadLimits(q) \/ WriteTie(q) \/ AskBack(q) \/ BreakAsk(q)
      BY <1>1, <3>1, <3>2, AskReadsInTurn, AskWritesInTurn
    <3>3. CASE \E x \in Pairs : Accept(x, x[1]) \/ Accept(x, x[2])
      BY <1>1, <3>1, <3>3, AcceptInTurn
    <3>4. ASSUME NEW x \in Pairs, Remove(x) PROVE TiesApart'
      BY <1>1, <2>2, <3>1, <3>4, DropInTurn DEF Remove
    <3>5. ASSUME NEW x \in Pairs, Block(x) PROVE TiesApart'
      <4>1. Both(x) \in SUBSET Pairs /\ \A z \in blocked' \ blocked : Both(z) \subseteq Both(x)
        BY <3>5, PairsBack DEF Block
      <4> QED BY <1>1, <2>2, <3>1, <3>5, <4>1, DropInTurn DEF Block
    <3>6. ASSUME NEW x \in Pairs, Unblock(x) PROVE TiesApart'
      <4>1. UNCHANGED <<tie, ask>> /\ blocked' \subseteq blocked
        BY <3>6 DEF Unblock
      <4> QED BY <3>1, <4>1 DEF TiesApart, OneTie, BlockCuts, AsksInTurn, AskStill
    <3> QED BY <1>3, <3>2, <3>3, <3>4, <3>5, <3>6 DEF FriendsNext, FriendsStep
  <2> QED BY <1>1, <2>1, <2>2, <2>3 DEF TiesInv
<1> QED BY <1>2, <1>3

LEMMA InitTiesInv == FriendsInit => TiesInv
<1> SUFFICES ASSUME FriendsInit PROVE TiesInv
  OBVIOUS
<1>1. \A q \in Asks : AskStill(ask[q])
  BY NoAskIdle DEF FriendsInit, AskStill
<1>2. OneTie /\ BlockCuts /\ blocked \subseteq Pairs
  BY PairsBack DEF FriendsInit, OneTie, BlockCuts
<1> QED BY <1>1, <1>2, InitFriendsInv DEF TiesInv, TiesApart

\* requestTo, accept, block: where one request follows the other there is one row
\* between two people at most, and none where one of them blocked the other.
THEOREM TiesInTurn == FriendsSpec => [](calm => OneTie /\ BlockCuts)
<1>1. FriendsSpec => []TiesInv
  BY InitTiesInv, NextTiesInv, PTL DEF FriendsSpec
<1>2. TiesInv => (calm => OneTie /\ BlockCuts)
  BY DEF TiesInv, TiesApart
<1> QED BY <1>1, <1>2, PTL

-----------------------------------------------------------------------------
(* Requests of the notebook.                                               *)

Held == {None, Gone, <<"share">>} \cup {<<"access", g>> : g \in Guests}
          \cup {<<"grant", g>> : g \in Guests}
Ops == {"askAccess", "open", "askGrant", "readNotes", "invite", "respond", "decideGrant",
        "decide", "decideOffer", "edit"}
Pcs == {"idle", "friends", "share", "row", "write", "create", "enter", "deliver", "apply",
        "pending", "store"}
Request == [op : Ops \cup {None}, pc : Pcs, by : Guests \cup {None}, holds : Held,
            seen : AccessRow \cup {None}, role : Roles, yes : BOOLEAN, text : Nat,
            base : Nat \cup {None}, offer : Nat]
Offer == [by : Guests, text : Nat, status : {"PENDING", "APPROVED", "REJECTED"}]

NotesTyped ==
  /\ share \in {"none", "PUBLIC", "AUTHORIZED"}
  /\ access \in [Guests -> AccessRow \cup {None}]
  /\ offers \in Seq(Offer) /\ entry \in Nat /\ texts \in Nat
  /\ grant \in [Guests -> {None, "PENDING", "APPROVED", "DENIED"}]
NoteTypes == NotesTyped /\ req \in [Requests -> Request]

\* Who a request is of, which proposal it decides, and which row: one that is
\* there, unless the request knows that it is not.
RowIsThere(r) ==
  r.op \in {"decide", "respond"} /\ r.pc \in {"friends", "write"} =>
    r.holds = Gone \/ (r.holds = <<"access", r.by>> /\ access[r.by] # None)
RequestSound(r) ==
  /\ r.pc # "idle" => r.by \in Guests
  /\ r.pc # "idle" /\ r.op = "decideOffer" => r.offer \in 1 .. Len(offers)
  /\ r.pc # "idle" => RowIsThere(r)

\* Rows of access stay; or what holds one that does not is told.
RowsStay == \A g \in Guests : access[g] # None => access'[g] # None
LostRowsGone ==
  \A g \in Guests, p \in Requests :
    access[g] # None /\ access'[g] = None /\ req[p].holds = <<"access", g>>
      => req'[p].holds = Gone

\* What a request has read was true of its guest, as far as it has come.
Past(r, m) ==
  /\ r.op \in {"edit", "open"} /\ r.pc \in {"friends", "enter", "deliver", "apply", "pending", "store"} =>
       /\ r.seen.role \in m
       /\ r.seen.invited /\ r.pc # "friends" => "friends" \in m
  /\ r.op = "readNotes" /\ r.pc \in {"friends", "deliver"} => "granted" \in m
  /\ r.op = "readNotes" /\ r.pc = "deliver" => "friends" \in m

CutInv ==
  /\ NoteTypes
  /\ \A q \in Requests : RequestSound(req[q]) /\ Past(req[q], met[q])

LEMMA CutFromInv == CutInv => CutAtOnce
  BY DEF CutInv, Past, CutAtOnce

LEMMA InitCutInv == Init => CutInv
<1> SUFFICES ASSUME Init PROVE CutInv
  OBVIOUS
<1>1. Idle \in Request /\ Idle.pc = "idle"
  BY DEF Idle, Request, Pcs, Held, Roles
<1>2. NoteTypes
  BY <1>1, NotebookAssumption DEF Init, NoteTypes, NotesTyped
<1>3. \A q \in Requests : RequestSound(req[q]) /\ Past(req[q], met[q])
  BY <1>1 DEF Init, RequestSound, RowIsThere, Past
<1> QED BY <1>2, <1>3 DEF CutInv

\* A request that goes on remembers what was true before, and now.
LEMMA Remembers ==
  ASSUME Watch, NEW q \in Requests, req'[q].pc # "idle", req'[q].by \in Guests
  PROVE  /\ Truths'[req'[q].by] \subseteq met'[q]
         /\ req[q] # Idle => met[q] \subseteq met'[q]
<1>1. req'[q] # Idle
  BY DEF Idle
<1> QED BY <1>1 DEF Watch

\* What is true of a guest in the next state.
LEMMA TrueNow ==
  ASSUME NEW g \in Guests
  PROVE  /\ AreFriends(Owner, g)' => "friends" \in Truths'[g]
         /\ grant'[g] = "APPROVED" => "granted" \in Truths'[g]
         /\ access'[g] # None /\ access'[g].status = "APPROVED" => access'[g].role \in Truths'[g]
  BY DEF Truths

\* What a step may do to the requests: q goes on as r, the others stay as they
\* are, but that a row they hold may be gone.
OthersWait(q) ==
  \A p \in Requests \ {q} : req'[p] = req[p] \/ req'[p] = [req[p] EXCEPT !.holds = Gone]

\* A request that is not the step's own is as sound as before.
LEMMA WaitingKept ==
  ASSUME CutInv, Watch, NEW p \in Requests, Len(offers) <= Len(offers'), offers' \in Seq(Offer),
         LostRowsGone,
         req'[p] = req[p] \/ req'[p] = [req[p] EXCEPT !.holds = Gone]
  PROVE  req'[p] \in Request /\ RequestSound(req[p])' /\ Past(req[p], met[p])'
<1>1. req[p] \in Request /\ RequestSound(req[p]) /\ Past(req[p], met[p])
  BY DEF CutInv, NoteTypes
<1>2. /\ req'[p] \in Request
      /\ req'[p].pc = req[p].pc /\ req'[p].op = req[p].op /\ req'[p].by = req[p].by
      /\ req'[p].seen = req[p].seen /\ req'[p].offer = req[p].offer
  BY <1>1 DEF Request, Held
<1>3. offers \in Seq(Offer)
  BY DEF CutInv, NoteTypes, NotesTyped
<1>4. RequestSound(req[p])'
  <2>1. req[p].holds = Gone => req'[p].holds = Gone
    BY <1>1 DEF Request
  <2>2. req'[p].holds \in {req[p].holds, Gone}
    BY <1>1 DEF Request
  <2>3. req[p].pc # "idle" => RowIsThere(req[p])'
    BY <1>1, <1>2, <2>1, <2>2 DEF RequestSound, RowIsThere, LostRowsGone
  <2> QED BY <1>1, <1>2, <1>3, <2>3 DEF RequestSound
<1>5. CASE req[p].pc = "idle"
  BY <1>2, <1>4, <1>5 DEF Past
<1>6. CASE req[p].pc # "idle"
  <2>1. met[p] \subseteq met'[p]
    BY <1>1, <1>2, <1>6, Remembers DEF RequestSound, Idle
  <2> QED BY <1>1, <1>2, <1>4, <2>1 DEF Past
<1> QED BY <1>2, <1>4, <1>5, <1>6

-----------------------------------------------------------------------------
(* The steps of one request.                                               *)

\* q goes on as r.
LEMMA RequestGoesOn ==
  ASSUME CutInv, Watch, NEW q \in Requests, NEW r \in Request,
         req' = [req EXCEPT ![q] = r], RequestSound(r)', Past(r, met'[q]),
         NotesTyped', Len(offers) <= Len(offers'), RowsStay
  PROVE  CutInv'
<1>1. req \in [Requests -> Request] /\ offers' \in Seq(Offer)
  BY DEF CutInv, NoteTypes, NotesTyped
<1>2. \A p \in Requests : req'[p] = IF p = q THEN r ELSE req[p]
  BY <1>1
<1>3. \A p \in Requests \ {q} : RequestSound(req[p])' /\ Past(req[p], met[p])'
  BY <1>1, <1>2, WaitingKept DEF RowsStay, LostRowsGone
<1>4. RequestSound(req[q])' /\ Past(req[q], met[q])'
  BY <1>2 DEF RequestSound, RowIsThere, Past
<1>5. req' \in [Requests -> Request]
  BY <1>1
<1> QED BY <1>3, <1>4, <1>5 DEF CutInv, NoteTypes

\* q ends.
LEMMA RequestEnds ==
  ASSUME CutInv, Watch, NEW q \in Requests, Finish(q), NotesTyped', Len(offers) <= Len(offers'),
         RowsStay
  PROVE  CutInv'
<1>1. Idle \in Request /\ Idle.pc = "idle"
  BY DEF Idle, Request, Pcs, Held, Roles
<1>2. RequestSound(Idle)' /\ Past(Idle, met'[q])
  BY <1>1 DEF RequestSound, RowIsThere, Past
<1> QED BY <1>1, <1>2, RequestGoesOn DEF Finish

\* No request moves; rows that they hold may be gone.
LEMMA RequestsWait ==
  ASSUME CutInv, Watch, req' \in [Requests -> Request],
         \A p \in Requests : req'[p] = req[p] \/ req'[p] = [req[p] EXCEPT !.holds = Gone],
         NotesTyped', Len(offers) <= Len(offers'), LostRowsGone
  PROVE  CutInv'
<1>1. offers' \in Seq(Offer)
  BY DEF NotesTyped
<1> QED BY <1>1, WaitingKept DEF CutInv, NoteTypes

\* Nothing of the note changes.
LEMMA NotesStay ==
  ASSUME CutInv, UNCHANGED notes
  PROVE  NotesTyped' /\ Len(offers) <= Len(offers') /\ Len(offers) \in Nat /\ RowsStay
  BY DEF CutInv, NoteTypes, NotesTyped, notes, RowsStay

\* What is known of the request that takes a step.
LEMMA Moving ==
  ASSUME CutInv, NEW q \in Requests, req[q].pc # "idle"
  PROVE  /\ req[q] \in Request /\ RequestSound(req[q]) /\ Past(req[q], met[q])
         /\ req[q].by \in Guests /\ req[q] # Idle
         /\ Watch => \A r \in Request :
              req'[q] = r /\ r.pc # "idle" /\ r.by = req[q].by
                => met[q] \cup Truths'[req[q].by] \subseteq met'[q]
<1>1. req[q] \in Request /\ RequestSound(req[q]) /\ Past(req[q], met[q])
  BY DEF CutInv, NoteTypes
<1>2. req[q].by \in Guests /\ req[q] # Idle
  BY <1>1 DEF RequestSound, Idle
<1> QED BY <1>1, <1>2, Remembers

\* A step of q to another place, with nothing else to remember of what it read.
LEMMA GoesTo ==
  ASSUME CutInv, Watch, NEW q \in Requests, NEW pc \in Pcs \ {"idle"},
         req[q].pc # "idle", Goto(q, pc), UNCHANGED notes,
         pc \in {"friends", "write"} /\ req[q].op \in {"decide", "respond"} => req[q].pc = "friends",
         Past([req[q] EXCEPT !.pc = pc], met[q] \cup Truths'[req[q].by])
  PROVE  CutInv'
<1> DEFINE r == [req[q] EXCEPT !.pc = pc]
<1>1. req[q] \in Request /\ RequestSound(req[q])
  BY Moving
<1>2. /\ r \in Request /\ r.pc = pc /\ r.by = req[q].by /\ r.op = req[q].op
      /\ r.offer = req[q].offer /\ r.holds = req[q].holds
  BY <1>1 DEF Request
<1>3. req' = [req EXCEPT ![q] = r] /\ req'[q] = r
  BY DEF Goto, CutInv, NoteTypes
<1>4. Past(r, met[q] \cup Truths'[req[q].by])
  OBVIOUS
<1> HIDE DEF r
<1>5. met[q] \cup Truths'[req[q].by] \subseteq met'[q]
  BY <1>2, <1>3, Moving
<1>6. Past(r, met'[q])
  BY <1>4, <1>5 DEF Past
<1> PICK k \in Request : k = r
  BY <1>2
<1>7. RequestSound(k)'
  BY <1>1, <1>2 DEF RequestSound, RowIsThere, notes
<1> QED BY <1>3, <1>6, <1>7, NotesStay, RequestGoesOn

-----------------------------------------------------------------------------
(* What each request reads.                                                *)

LEMMA PcOnly ==
  ASSUME NEW r \in Request, NEW pc \in Pcs
  PROVE  LET s == [r EXCEPT !.pc = pc] IN
         /\ s \in Request /\ s.pc = pc /\ s.op = r.op /\ s.by = r.by /\ s.seen = r.seen
         /\ s.offer = r.offer
  BY DEF Request

\* What a request that begins is, but for the edits.
LEMMA BeginsAs ==
  ASSUME CutInv, NEW q \in Requests, Begin(q)
  PROVE  \E g \in Guests, r \in Request :
           /\ req' = [req EXCEPT ![q] = r] /\ r.by = g /\ r.pc \in {"friends", "share", "row"}
           /\ r.pc = "friends" => r.op \in {"invite", "askGrant"}
           /\ r.op = "decideOffer" => r.offer \in 1 .. Len(offers)
           /\ r.op # "edit"
<1>0. \A i \in 1 .. Len(offers) : i \in Nat
  BY DEF CutInv, NoteTypes, NotesTyped
<1> PICK g \in Guests :
      LET R == [Idle EXCEPT !.by = g]
          Becomes(r, op) == req' = [req EXCEPT ![q] = [r EXCEPT !.op = op, !.pc = First(op)]] IN
      \/ \E op \in {"askAccess", "open", "askGrant", "readNotes"} : Becomes(R, op)
      \/ \E role \in Roles : Becomes([R EXCEPT !.role = role], "invite")
      \/ \E yes \in BOOLEAN, op \in {"respond", "decideGrant"} : Becomes([R EXCEPT !.yes = yes], op)
      \/ \E yes \in BOOLEAN, role \in Roles :
           Becomes([R EXCEPT !.yes = yes, !.role = role], "decide")
      \/ \E yes \in BOOLEAN, i \in 1 .. Len(offers) :
           offers[i].by = g /\ Becomes([R EXCEPT !.yes = yes, !.offer = i], "decideOffer")
  BY DEF Begin
<1> DEFINE R == [Idle EXCEPT !.by = g]
           Started(r, op) == [r EXCEPT !.op = op, !.pc = First(op)]
<1>1. \A op \in Ops : /\ First(op) \in {"friends", "share", "row"}
                      /\ First(op) = "friends" => op \in {"invite", "askGrant"}
  BY DEF First, Ops
<1>2. R \in Request /\ R.by = g
  BY DEF Idle, Request, Pcs, Held, Roles
<1>3. ASSUME NEW r \in Request, r.by = g, NEW op \in Ops \ {"edit"},
             op = "decideOffer" => r.offer \in 1 .. Len(offers)
      PROVE  LET s == Started(r, op) IN
             /\ s \in Request /\ s.by = g /\ s.pc \in {"friends", "share", "row"}
             /\ s.pc = "friends" => s.op \in {"invite", "askGrant"}
             /\ s.op # "edit" /\ (s.op = "decideOffer" => s.offer \in 1 .. Len(offers))
  <2>1. Started(r, op) = [r EXCEPT !.op = op, !.pc = First(op)] /\ First(op) \in Pcs
    BY <1>1 DEF Pcs
  <2> QED BY <1>1, <1>3, <2>1 DEF Request
<1>4. /\ \A role \in Roles : LET r == [R EXCEPT !.role = role] IN r \in Request /\ r.by = g
      /\ \A yes \in BOOLEAN : LET r == [R EXCEPT !.yes = yes] IN r \in Request /\ r.by = g
  BY <1>2 DEF Request
<1>5. \A yes \in BOOLEAN, role \in Roles :
        LET r == [R EXCEPT !.yes = yes, !.role = role] IN r \in Request /\ r.by = g
  BY <1>2 DEF Request
<1>6. \A yes \in BOOLEAN, i \in Nat :
        LET r == [R EXCEPT !.yes = yes, !.offer = i] IN r \in Request /\ r.by = g /\ r.offer = i
  BY <1>2 DEF Request
<1>7. \E r \in Request, op \in Ops \ {"edit"} :
        /\ r.by = g /\ (op = "decideOffer" => r.offer \in 1 .. Len(offers))
        /\ req' = [req EXCEPT ![q] = Started(r, op)]
  <2> HIDE DEF R, Started
  <2>1. CASE \E op \in {"askAccess", "open", "askGrant", "readNotes"} :
               req' = [req EXCEPT ![q] = Started(R, op)]
    BY <1>2, <2>1 DEF Ops
  <2>2. CASE \E role \in Roles :
               req' = [req EXCEPT ![q] = Started([R EXCEPT !.role = role], "invite")]
    BY <1>4, <2>2 DEF Ops
  <2>3. CASE \E yes \in BOOLEAN, op \in {"respond", "decideGrant"} :
               req' = [req EXCEPT ![q] = Started([R EXCEPT !.yes = yes], op)]
    BY <1>4, <2>3 DEF Ops
  <2>4. CASE \E yes \in BOOLEAN, role \in Roles :
               req' = [req EXCEPT ![q] =
                         Started([R EXCEPT !.yes = yes, !.role = role], "decide")]
    <3> PICK yes \in BOOLEAN, role \in Roles :
          req' = [req EXCEPT ![q] = Started([R EXCEPT !.yes = yes, !.role = role], "decide")]
      BY <2>4
    <3> DEFINE r == [R EXCEPT !.yes = yes, !.role = role]
    <3>1. r \in Request /\ r.by = g /\ "decide" \in Ops
      BY <1>5 DEF Ops
    <3> HIDE DEF r
    <3>2. req' = [req EXCEPT ![q] = Started(r, "decide")]
      BY DEF r
    <3> QED BY <3>1, <3>2
  <2>5. CASE \E yes \in BOOLEAN, i \in 1 .. Len(offers) :
               req' = [req EXCEPT ![q] =
                         Started([R EXCEPT !.yes = yes, !.offer = i], "decideOffer")]
    <3> PICK yes \in BOOLEAN, i \in 1 .. Len(offers) :
          req' = [req EXCEPT ![q] = Started([R EXCEPT !.yes = yes, !.offer = i], "decideOffer")]
      BY <2>5
    <3> DEFINE r == [R EXCEPT !.yes = yes, !.offer = i]
    <3>0. i \in Nat
      BY <1>0
    <3>1. r \in Request /\ r.by = g /\ r.offer = i /\ "decideOffer" \in Ops
      BY <1>6, <3>0 DEF Ops
    <3> HIDE DEF r
    <3>2. req' = [req EXCEPT ![q] = Started(r, "decideOffer")]
      BY DEF r
    <3> QED BY <3>1, <3>2
  <2> QED BY <2>1, <2>2, <2>3, <2>4, <2>5 DEF R, Started
<1> HIDE DEF R, Started
<1> QED BY <1>3, <1>7

LEMMA BeginKeeps ==
  ASSUME CutInv, Watch, NEW q \in Requests, Begin(q)
  PROVE  CutInv'
<1> PICK g \in Guests, r \in Request :
      /\ req' = [req EXCEPT ![q] = r] /\ r.by = g /\ r.pc \in {"friends", "share", "row"}
      /\ r.pc = "friends" => r.op \in {"invite", "askGrant"}
      /\ r.op = "decideOffer" => r.offer \in 1 .. Len(offers)
  BY BeginsAs
<1>1. UNCHANGED notes
  BY DEF Begin
<1>2. RequestSound(r)' /\ Past(r, met'[q])
  BY <1>1 DEF RequestSound, RowIsThere, Past, notes
<1> QED BY <1>1, <1>2, NotesStay, RequestGoesOn

LEMMA BeginEditKeeps ==
  ASSUME CutInv, Watch, NEW q \in Requests, BeginEdit(q)
  PROVE  CutInv'
<1> PICK g \in Guests, base \in {entry, None} :
      req' = [req EXCEPT ![q] = [Idle EXCEPT !.by = g, !.op = "edit", !.pc = "share",
                                  !.text = texts + 1, !.base = base]]
  BY DEF BeginEdit
<1> DEFINE r == [Idle EXCEPT !.by = g, !.op = "edit", !.pc = "share",
                  !.text = texts + 1, !.base = base]
<1>1. NotesTyped /\ texts \in Nat /\ entry \in Nat /\ Len(offers) \in Nat
  BY DEF CutInv, NoteTypes, NotesTyped
<1>2. NotesTyped' /\ Len(offers) <= Len(offers') /\ RowsStay
  BY <1>1 DEF BeginEdit, NotesTyped, RowsStay
<1>3. r \in Request /\ r.pc = "share" /\ r.by = g /\ r.op = "edit"
  <2>1. Idle \in Request
    BY DEF Idle, Request, Pcs, Held, Roles
  <2>2. base \in Nat \cup {None} /\ texts + 1 \in Nat /\ "share" \in Pcs /\ "edit" \in Ops
    BY <1>1 DEF Pcs, Ops
  <2> QED BY <2>1, <2>2 DEF Request
<1> HIDE DEF r
<1> PICK k \in Request : k = r
  BY <1>3
<1>4. RequestSound(k)' /\ Past(k, met'[q])
  BY <1>3 DEF RequestSound, RowIsThere, Past
<1>5. req' = [req EXCEPT ![q] = k]
  BY DEF r
<1> QED BY <1>2, <1>4, <1>5, RequestGoesOn

\* The friendship is asked for last: it is true now.
LEMMA ReadFriendsKeeps ==
  ASSUME CutInv, Watch, NEW q \in Requests, ReadFriends(q)
  PROVE  CutInv'
<1> DEFINE r == req[q]
           next == CASE r.op = "invite" -> "share"
                     [] r.op = "askGrant" -> "row"
                     [] r.op = "respond" -> "write"
                     [] r.op = "readNotes" -> "deliver"
                     [] OTHER -> "enter"
<1>1. UNCHANGED <<friends, notes>> /\ r.pc = "friends"
  BY DEF ReadFriends
<1>2. r \in Request /\ RequestSound(r) /\ Past(r, met[q]) /\ r.by \in Guests
  BY <1>1, Moving
<1>3. CASE ~AreFriends(Owner, r.by)
  BY <1>1, <1>3, NotesStay, RequestEnds DEF ReadFriends
<1>4. CASE AreFriends(Owner, r.by)
  <2>1. "friends" \in Truths'[r.by]
    <3> PICK g \in Guests : g = r.by
      BY <1>2
    <3>1. AreFriends(Owner, g)'
      BY <1>1, <1>4 DEF AreFriends, friends
    <3> QED BY <3>1, TrueNow
  <2>2. next \in Pcs \ {"idle"}
    BY DEF Pcs
  <2>3. Goto(q, next)
    BY <1>4 DEF ReadFriends
  <2>4. /\ r.op \in {"edit", "open"} => next = "enter"
        /\ r.op = "readNotes" => next = "deliver"
    OBVIOUS
  <2> HIDE DEF next
  <2>5. Past([req[q] EXCEPT !.pc = next], met[q] \cup Truths'[req[q].by])
    BY <1>1, <1>2, <2>1, <2>2, <2>4, PcOnly DEF Past
  <2> PICK pc \in Pcs \ {"idle"} : pc = next
    BY <2>2
  <2> QED BY <1>1, <2>3, <2>5, GoesTo
<1> QED BY <1>3, <1>4

LEMMA ReadShareKeeps ==
  ASSUME CutInv, Watch, NEW q \in Requests, ReadShare(q)
  PROVE  CutInv'
<1>1. UNCHANGED <<friends, notes>> /\ req[q].pc = "share"
  BY DEF ReadShare
<1>2. req[q] \in Request /\ RequestSound(req[q]) /\ req[q].by \in Guests
  BY <1>1, Moving
<1>3. CASE req' = [req EXCEPT ![q].pc = "row", ![q].holds = <<"share">>]
  <2> DEFINE r == [req[q] EXCEPT !.pc = "row", !.holds = <<"share">>]
  <2>1. /\ r \in Request /\ r.pc = "row" /\ r.by = req[q].by /\ r.op = req[q].op
        /\ r.offer = req[q].offer
    BY <1>2 DEF Request, Pcs, Held
  <2>2. req' = [req EXCEPT ![q] = r]
    BY <1>3
  <2> HIDE DEF r
  <2> PICK k \in Request : k = r
    BY <2>1
  <2>3. RequestSound(k)' /\ Past(k, met'[q])
    BY <1>1, <1>2, <2>1 DEF RequestSound, RowIsThere, Past, notes
  <2> QED BY <1>1, <2>2, <2>3, NotesStay, RequestGoesOn
<1>4. CASE req[q].op = "invite" /\ Goto(q, "create")
  <2>1. Past([req[q] EXCEPT !.pc = "create"], met[q] \cup Truths'[req[q].by])
    BY <1>2, PcOnly DEF Past, Pcs
  <2> QED BY <1>1, <1>4, <2>1, GoesTo DEF Pcs
<1>5. CASE Finish(q)
  BY <1>1, <1>5, NotesStay, RequestEnds
<1>6. Finish(q) \/ (req[q].op = "invite" /\ Goto(q, "create"))
        \/ req' = [req EXCEPT ![q].pc = "row", ![q].holds = <<"share">>]
  BY DEF ReadShare
<1> QED BY <1>3, <1>4, <1>5, <1>6

-----------------------------------------------------------------------------
\* The row of an edit or a look is approved now, and its role is the one the
\* request goes on with.
LEMMA ReadAccessKeeps ==
  ASSUME CutInv, Watch, NEW q \in Requests, ReadAccess(q)
  PROVE  CutInv'
<1> DEFINE r == req[q]
           a == access[r.by]
           held == IF r.op \in {"decide", "respond"} THEN <<"access", r.by>>
                   ELSE IF r.op \in {"edit", "open"} THEN None ELSE r.holds
           Taken(pc) == [r EXCEPT !.pc = pc, !.seen = a, !.holds = held]
<1>1. UNCHANGED notes /\ r.pc = "row" /\ r.op # "readNotes"
      /\ r.op \in {"askAccess", "decide", "invite", "respond", "edit", "open"}
  BY DEF ReadAccess, At
<1>2. r \in Request /\ RequestSound(r) /\ r.by \in Guests
  BY <1>1, Moving
<1>3. a \in AccessRow \cup {None} /\ held \in Held
  <2>1. access \in [Guests -> AccessRow \cup {None}]
    BY DEF CutInv, NoteTypes, NotesTyped
  <2>2. <<"access", r.by>> \in Held /\ None \in Held
    BY <1>2 DEF Held
  <2>3. r.holds \in Held
    BY <1>2 DEF Request
  <2> QED BY <1>2, <2>1, <2>2, <2>3
<1>4. CASE Finish(q)
  BY <1>1, <1>4, NotesStay, RequestEnds
<1>5. CASE ~Finish(q)
  <2>1. \E pc \in {"write", "friends", "enter"} :
          /\ req' = [req EXCEPT ![q] = Taken(pc)]
          /\ r.op \in {"edit", "open"} =>
               /\ a # None /\ a.status = "APPROVED"
               /\ pc = IF a.invited THEN "friends" ELSE "enter"
          /\ r.op \in {"decide", "respond"} => a # None
    <3> DEFINE Took(pc) == req' = [req EXCEPT ![q].pc = pc, ![q].seen = a,
                                    ![q].holds = IF r.op \in {"decide", "respond"}
                                                 THEN <<"access", r.by>>
                                                 ELSE IF r.op \in {"edit", "open"} THEN None ELSE @]
    <3>1. \/ /\ r.op \in {"askAccess", "decide", "respond", "invite"}
             /\ Took("write") \/ Took("friends")
             /\ r.op \in {"decide", "respond"} => a # None
          \/ /\ r.op \in {"edit", "open"} /\ a # None /\ a.status = "APPROVED"
             /\ Took(IF a.invited THEN "friends" ELSE "enter")
      BY <1>5 DEF ReadAccess, OnlyForFriends
    <3>2. \A pc \in {"write", "friends", "enter"} :
            Took(pc) => req' = [req EXCEPT ![q] = Taken(pc)]
      OBVIOUS
    <3> HIDE DEF Took, Taken
    <3> QED BY <3>1, <3>2
  <2> PICK pc \in {"write", "friends", "enter"} :
        /\ req' = [req EXCEPT ![q] = Taken(pc)]
        /\ r.op \in {"edit", "open"} =>
             /\ a # None /\ a.status = "APPROVED"
             /\ pc = IF a.invited THEN "friends" ELSE "enter"
        /\ r.op \in {"decide", "respond"} => a # None
    BY <2>1
  <2>2. /\ Taken(pc) \in Request /\ Taken(pc).pc = pc /\ Taken(pc).op = r.op
        /\ Taken(pc).by = r.by /\ Taken(pc).offer = r.offer /\ Taken(pc).seen = a
        /\ Taken(pc).holds = held
    <3>1. pc \in Pcs
      BY DEF Pcs
    <3> HIDE DEF a, held
    <3> QED BY <1>2, <1>3, <3>1 DEF Request
  <2> HIDE DEF Taken
  <2> PICK k \in Request : k = Taken(pc)
    BY <2>2
  <2>3. req' = [req EXCEPT ![q] = k] /\ req'[q] = k
    BY DEF CutInv, NoteTypes
  <2>4. Truths'[r.by] \subseteq met'[q]
    BY <1>2, <2>2, <2>3, Remembers
  <2>5. a # None /\ a.status = "APPROVED" => a.role \in met'[q]
    <3> PICK g \in Guests : g = r.by
      BY <1>2
    <3>1. access'[g] = a
      BY <1>1 DEF notes
    <3> HIDE DEF a
    <3> QED BY <2>4, <3>1, TrueNow
  <2>6. RequestSound(k)' /\ Past(k, met'[q])
    BY <1>1, <1>2, <2>2, <2>5 DEF RequestSound, RowIsThere, Past, notes
  <2> QED BY <1>1, <2>3, <2>6, NotesStay, RequestGoesOn
<1> QED BY <1>4, <1>5

\* The leave is given now.
LEMMA ReadGrantKeeps ==
  ASSUME CutInv, Watch, NEW q \in Requests, ReadGrant(q)
  PROVE  CutInv'
<1> DEFINE r == req[q]
<1>1. UNCHANGED notes /\ r.pc = "row" /\ r.op \in {"askGrant", "decideGrant", "readNotes"}
  BY DEF ReadGrant, At
<1>2. r \in Request /\ RequestSound(r) /\ r.by \in Guests
  BY <1>1, Moving
<1>3. CASE Finish(q)
  BY <1>1, <1>3, NotesStay, RequestEnds
<1>4. CASE r.op = "askGrant" /\ Goto(q, "write")
  <2>1. Past([req[q] EXCEPT !.pc = "write"], met[q] \cup Truths'[req[q].by])
    BY <1>2, <1>4, PcOnly DEF Past, Pcs
  <2> QED BY <1>1, <1>4, <2>1, GoesTo DEF Pcs
<1>5. CASE r.op = "decideGrant" /\ req' = [req EXCEPT ![q].pc = "write", ![q].holds = <<"grant", r.by>>]
  <2> DEFINE s == [req[q] EXCEPT !.pc = "write", !.holds = <<"grant", r.by>>]
  <2>0. "write" \in Pcs /\ <<"grant", r.by>> \in Held
    BY <1>2 DEF Pcs, Held
  <2>1. s \in Request /\ s.pc = "write" /\ s.by = r.by /\ s.op = r.op /\ s.offer = r.offer
    BY <1>2, <2>0 DEF Request
  <2>2. req' = [req EXCEPT ![q] = s]
    BY <1>5
  <2> HIDE DEF s
  <2> PICK k \in Request : k = s
    BY <2>1
  <2>3. RequestSound(k)' /\ Past(k, met'[q])
    BY <1>1, <1>2, <1>5, <2>1 DEF RequestSound, RowIsThere, Past, notes
  <2> QED BY <1>1, <2>2, <2>3, NotesStay, RequestGoesOn
<1>6. CASE r.op = "readNotes" /\ grant[r.by] = "APPROVED" /\ Goto(q, "friends")
  <2> PICK g \in Guests : g = r.by
    BY <1>2
  <2>1. grant'[g] = "APPROVED"
    BY <1>1, <1>6 DEF notes
  <2>2. "granted" \in Truths'[r.by]
    BY <2>1, TrueNow
  <2>3. Past([req[q] EXCEPT !.pc = "friends"], met[q] \cup Truths'[req[q].by])
    BY <1>2, <1>6, <2>2, PcOnly DEF Past, Pcs
  <2> QED BY <1>1, <1>6, <2>3, GoesTo DEF Pcs
<1> QED BY <1>1, <1>3, <1>4, <1>5, <1>6 DEF ReadGrant

\* It is let in: what it read and that they are friends has been true.
LEMMA EnterKeeps ==
  ASSUME CutInv, Watch, NEW q \in Requests, Enter(q)
  PROVE  CutInv'
<1>1. UNCHANGED notes /\ req[q].pc = "enter"
  BY DEF Enter
<1>2. req[q] \in Request /\ Past(req[q], met[q])
  BY <1>1, Moving
<1>3. CASE Finish(q)
  BY <1>1, <1>3, NotesStay, RequestEnds
<1>4. CASE ~Finish(q)
  <2> PICK pc \in {"deliver", "apply", "pending"} :
        Goto(q, pc) /\ req[q].op \in {"open", "edit"}
    BY <1>4 DEF Enter
  <2>1. Past([req[q] EXCEPT !.pc = pc], met[q] \cup Truths'[req[q].by])
    BY <1>1, <1>2, PcOnly DEF Past, Pcs
  <2> QED BY <1>1, <2>1, GoesTo DEF Pcs
<1> QED BY <1>3, <1>4

-----------------------------------------------------------------------------
(* What each request writes.                                               *)

\* A proposal gets another text, or another status.
LEMMA OffersReplaced ==
  ASSUME NEW s \in Seq(Offer), NEW i, NEW t \in Nat
  PROVE  [s EXCEPT ![i].text = t] \in Seq(Offer) /\ Len([s EXCEPT ![i].text = t]) = Len(s)
<1>1. \A o \in Offer : [o EXCEPT !.text = t] \in Offer
  BY DEF Offer
<1>2. s \in [1 .. Len(s) -> Offer] /\ Len(s) \in Nat
  OBVIOUS
<1>3. [s EXCEPT ![i].text = t] \in [1 .. Len(s) -> Offer]
  BY <1>1, <1>2
<1>4. \A z \in [1 .. Len(s) -> Offer] : z \in Seq(Offer) /\ Len(z) = Len(s)
  BY <1>2
<1> QED BY <1>3, <1>4

LEMMA OffersDecided ==
  ASSUME NEW s \in Seq(Offer), NEW i, NEW status \in {"APPROVED", "REJECTED"}
  PROVE  /\ [s EXCEPT ![i].status = status] \in Seq(Offer)
         /\ Len([s EXCEPT ![i].status = status]) = Len(s)
<1>1. \A o \in Offer : [o EXCEPT !.status = status] \in Offer
  BY DEF Offer
<1>2. s \in [1 .. Len(s) -> Offer] /\ Len(s) \in Nat
  OBVIOUS
<1>3. [s EXCEPT ![i].status = status] \in [1 .. Len(s) -> Offer]
  BY <1>1, <1>2
<1>4. \A z \in [1 .. Len(s) -> Offer] : z \in Seq(Offer) /\ Len(z) = Len(s)
  BY <1>2
<1> QED BY <1>3, <1>4

LEMMA OutcomeTyped ==
  ASSUME NotesTyped, NEW r \in Request, r.by \in Guests, RowIsThere(r), r.pc = "write"
  PROVE  Outcome(r) \in AccessRow \cup {None}
<1> DEFINE a == access[r.by]
<1>1. a \in AccessRow \cup {None}
  BY DEF NotesTyped
<1>2. r.role \in Roles /\ r.yes \in BOOLEAN
  BY DEF Request
<1>3. \A invited \in BOOLEAN, role \in Roles : Row(role, invited) \in AccessRow
  BY DEF Row, AccessRow
<1>4. \A b \in AccessRow, yes \in BOOLEAN : Decided(b, yes) \in AccessRow
  BY DEF Decided, AccessRow
<1>5. \A b \in AccessRow, role \in Roles, yes \in BOOLEAN :
        /\ [b EXCEPT !.role = role] \in AccessRow /\ [b EXCEPT !.willing = yes] \in AccessRow
  BY DEF AccessRow
<1>6. "VIEWER" \in Roles
  BY DEF Roles
<1>7. \A b \in AccessRow \cup {None}, role \in Roles :
        AskedAgain(b) \in AccessRow /\ Invited(b, role) \in AccessRow
  <2> TAKE b \in AccessRow \cup {None}, role \in Roles
  <2>1. CASE b = None
    BY <1>3, <1>6, <2>1 DEF AskedAgain, Invited
  <2>2. CASE b # None
    BY <2>2 DEF AskedAgain, Invited, AccessRow
  <2> QED BY <2>1, <2>2
<1>8. r.op \in {"decide", "respond"} /\ r.holds # Gone => a \in AccessRow
  BY <1>1 DEF RowIsThere
<1> HIDE DEF a
<1>9. CASE r.holds = Gone
  BY <1>9 DEF Outcome
<1>10. CASE r.holds # Gone
  <2>1. CASE r.op = "askAccess"
    BY <1>1, <1>2, <1>7, <1>10, <2>1 DEF Outcome, a
  <2>2. CASE r.op = "decide"
    <3>1. a \in AccessRow /\ Decided(a, r.yes) \in AccessRow
      BY <1>2, <1>4, <1>8, <1>10, <2>2
    <3> QED BY <1>2, <1>5, <1>10, <2>2, <3>1 DEF Outcome, a
  <2>3. CASE r.op = "respond"
    <3>1. a \in AccessRow /\ Decided(a, r.yes) \in AccessRow
      BY <1>2, <1>4, <1>8, <1>10, <2>3
    <3> QED BY <1>2, <1>5, <1>10, <2>3, <3>1 DEF Outcome, a
  <2>4. CASE r.op = "invite"
    <3>1. CASE r.seen = None \/ r.seen.status = "DENIED"
      BY <1>1, <1>2, <1>7, <1>10, <2>4, <3>1 DEF Outcome, a
    <3>2. CASE ~(r.seen = None \/ r.seen.status = "DENIED") /\ a # None
      <4>1. /\ a \in AccessRow /\ Decided(a, TRUE) \in AccessRow
            /\ [a EXCEPT !.role = r.role] \in AccessRow
            /\ [Decided(a, TRUE) EXCEPT !.role = r.role] \in AccessRow
        BY <1>1, <1>2, <1>4, <1>5, <3>2
      <4>2. Outcome(r) \in {[a EXCEPT !.role = r.role], [Decided(a, TRUE) EXCEPT !.role = r.role]}
        BY <1>10, <2>4, <3>2 DEF Outcome, a
      <4> QED BY <4>1, <4>2
    <3>3. CASE ~(r.seen = None \/ r.seen.status = "DENIED") /\ a = None
      BY <1>10, <2>4, <3>3 DEF Outcome, a
    <3> QED BY <3>1, <3>2, <3>3
  <2>5. CASE r.op \notin {"askAccess", "decide", "respond", "invite"}
    BY <1>10, <2>5 DEF Outcome
  <2> QED BY <2>1, <2>2, <2>3, <2>4, <2>5
<1> QED BY <1>9, <1>10

LEMMA WriteAccessKeeps ==
  ASSUME CutInv, Watch, NEW q \in Requests, WriteAccess(q)
  PROVE  CutInv'
<1>1. /\ UNCHANGED <<friends, share, offers, entry, grant, texts, written>> /\ Finish(q)
      /\ req[q].pc = "write"
      /\ access' = IF Outcome(req[q]) = None THEN access
                   ELSE [access EXCEPT ![req[q].by] = Outcome(req[q])]
  BY DEF WriteAccess, At
<1>2. /\ NotesTyped /\ req[q] \in Request /\ req[q].by \in Guests /\ RowIsThere(req[q])
  BY <1>1, Moving DEF CutInv, NoteTypes, RequestSound
<1>3. Outcome(req[q]) \in AccessRow \cup {None}
  BY <1>1, <1>2, OutcomeTyped
<1>4. access' \in [Guests -> AccessRow \cup {None}] /\ RowsStay
  BY <1>1, <1>2, <1>3 DEF NotesTyped, RowsStay
<1>5. NotesTyped' /\ Len(offers) <= Len(offers')
  BY <1>1, <1>2, <1>4 DEF NotesTyped
<1> QED BY <1>1, <1>4, <1>5, RequestEnds

LEMMA CreateShareKeeps ==
  ASSUME CutInv, Watch, NEW q \in Requests, CreateShare(q)
  PROVE  CutInv'
<1>1. /\ UNCHANGED <<friends, access, offers, entry, grant, texts, written>>
      /\ req[q].pc = "create" /\ req[q].op = "invite"
  BY DEF CreateShare, At
<1>2. req[q] \in Request /\ RequestSound(req[q]) /\ req[q].by \in Guests
  BY <1>1, Moving
<1>3. NotesTyped' /\ Len(offers) <= Len(offers') /\ RowsStay
  <2>1. share' \in {"none", "PUBLIC", "AUTHORIZED"}
    BY DEF CreateShare, CutInv, NoteTypes, NotesTyped
  <2> QED BY <1>1, <2>1 DEF CutInv, NoteTypes, NotesTyped, RowsStay
<1>4. CASE Finish(q)
  BY <1>3, <1>4, RequestEnds
<1>5. CASE req' = [req EXCEPT ![q].pc = "row", ![q].holds = <<"share">>]
  <2> DEFINE r == [req[q] EXCEPT !.pc = "row", !.holds = <<"share">>]
  <2>1. r \in Request /\ r.pc = "row" /\ r.by = req[q].by /\ r.op = "invite"
    BY <1>1, <1>2 DEF Request, Pcs, Held
  <2>2. req' = [req EXCEPT ![q] = r]
    BY <1>5
  <2> HIDE DEF r
  <2> PICK k \in Request : k = r
    BY <2>1
  <2>3. RequestSound(k)' /\ Past(k, met'[q])
    BY <1>2, <2>1 DEF RequestSound, RowIsThere, Past
  <2> QED BY <1>3, <2>2, <2>3, RequestGoesOn
<1> QED BY <1>4, <1>5 DEF CreateShare

LEMMA ApplyKeeps ==
  ASSUME CutInv, Watch, NEW q \in Requests, Apply(q)
  PROVE  CutInv'
<1>1. NotesTyped /\ req[q].text \in Nat
  <2>1. req[q] \in Request
    BY DEF CutInv, NoteTypes
  <2> QED BY <2>1 DEF CutInv, NoteTypes, Request
<1>2. NotesTyped' /\ Len(offers) <= Len(offers') /\ RowsStay
  BY <1>1 DEF Apply, Put, NotesTyped, RowsStay
<1> QED BY <1>2, RequestEnds DEF Apply

LEMMA FindPendingKeeps ==
  ASSUME CutInv, Watch, NEW q \in Requests, FindPending(q)
  PROVE  CutInv'
<1>1. UNCHANGED notes /\ req[q].pc = "pending"
  BY DEF FindPending
<1>2. /\ req[q] \in Request /\ RequestSound(req[q]) /\ Past(req[q], met[q])
      /\ req[q].by \in Guests /\ \A i \in Pending(req[q].by) : i \in Nat
  <2>1. \A i \in Pending(req[q].by) : i \in Nat
    BY DEF CutInv, NoteTypes, NotesTyped, Pending
  <2> QED BY <1>1, <2>1, Moving
<1>3. CASE Finish(q)
  BY <1>1, <1>3, NotesStay, RequestEnds
<1>4. CASE ~Finish(q)
  <2>1. "store" \in Pcs \ {"idle"}
    BY DEF Pcs
  <2>2. CASE Goto(q, "store")
    <3>1. Past([req[q] EXCEPT !.pc = "store"], met[q] \cup Truths'[req[q].by])
      BY <1>1, <1>2, <2>1, PcOnly DEF Past
    <3> QED BY <1>1, <2>1, <2>2, <3>1, GoesTo
  <2>3. CASE \E i \in Pending(req[q].by) : req' = [req EXCEPT ![q].pc = "store", ![q].offer = i]
    <3> PICK i \in Pending(req[q].by) : req' = [req EXCEPT ![q].pc = "store", ![q].offer = i]
      BY <2>3
    <3> DEFINE r == [req[q] EXCEPT !.pc = "store", !.offer = i]
    <3>1. /\ r \in Request /\ r.pc = "store" /\ r.by = req[q].by /\ r.op = req[q].op
          /\ r.seen = req[q].seen /\ r.offer = i
      BY <1>2, <2>1 DEF Request
    <3>2. req' = [req EXCEPT ![q] = r] /\ req'[q] = r
      BY DEF CutInv, NoteTypes
    <3>3. i \in 1 .. Len(offers)
      BY DEF Pending
    <3> HIDE DEF r
    <3> PICK k \in Request : k = r
      BY <3>1
    <3>4. met[q] \subseteq met'[q]
      BY <1>1, <3>1, <3>2, Moving
    <3>5. RequestSound(k)' /\ Past(k, met'[q])
      BY <1>1, <1>2, <3>1, <3>3, <3>4 DEF RequestSound, RowIsThere, Past, notes
    <3> QED BY <1>1, <3>2, <3>5, NotesStay, RequestGoesOn
  <2> QED BY <1>4, <2>2, <2>3 DEF FindPending
<1> QED BY <1>3, <1>4
LEMMA StoreOfferKeeps ==
  ASSUME CutInv, Watch, NEW q \in Requests, StoreOffer(q)
  PROVE  CutInv'
<1>1. /\ NotesTyped /\ offers \in Seq(Offer) /\ req[q] \in Request /\ req[q].pc = "store"
      /\ UNCHANGED <<friends, share, access, entry, grant, texts, written>> /\ Finish(q)
  BY DEF CutInv, NoteTypes, NotesTyped, StoreOffer
<1>2. req[q].by \in Guests /\ req[q].text \in Nat
  BY <1>1, Moving DEF Request
<1>3. offers' \in Seq(Offer) /\ Len(offers) <= Len(offers')
  <2>1. CASE req[q].offer # 0
    <3>1. offers' = [offers EXCEPT ![req[q].offer].text = req[q].text]
      BY <2>1 DEF StoreOffer
    <3> QED BY <1>1, <1>2, <3>1, OffersReplaced
  <2>2. CASE req[q].offer = 0
    <3> DEFINE o == [by |-> req[q].by, text |-> req[q].text, status |-> "PENDING"]
    <3>1. offers' = Append(offers, o)
      BY <2>2 DEF StoreOffer
    <3>2. o \in Offer
      BY <1>2 DEF Offer
    <3> HIDE DEF o
    <3> QED BY <1>1, <3>1, <3>2
  <2> QED BY <2>1, <2>2
<1>4. NotesTyped' /\ RowsStay
  BY <1>1, <1>3 DEF NotesTyped, RowsStay
<1> QED BY <1>1, <1>3, <1>4, RequestEnds

LEMMA ReadOfferKeeps ==
  ASSUME CutInv, Watch, NEW q \in Requests, ReadOffer(q)
  PROVE  CutInv'
<1>1. UNCHANGED notes /\ req[q].pc = "row" /\ req[q].op = "decideOffer"
  BY DEF ReadOffer, At
<1>2. req[q] \in Request /\ RequestSound(req[q]) /\ req[q].by \in Guests
  BY <1>1, Moving
<1>3. CASE Finish(q)
  BY <1>1, <1>3, NotesStay, RequestEnds
<1>4. CASE ~Finish(q)
  <2> DEFINE t == offers[req[q].offer].text
             r == [req[q] EXCEPT !.pc = "write", !.text = t]
  <2>1. t \in Nat
    <3>1. offers \in Seq(Offer) /\ req[q].offer \in 1 .. Len(offers)
      BY <1>1, <1>2 DEF CutInv, NoteTypes, NotesTyped, RequestSound
    <3>2. offers[req[q].offer] \in Offer
      BY <3>1
    <3> QED BY <3>2 DEF Offer
  <2>2. req' = [req EXCEPT ![q] = r]
    BY <1>4 DEF ReadOffer
  <2>3. "write" \in Pcs
    BY DEF Pcs
  <2> HIDE DEF t
  <2>4. /\ r \in Request /\ r.pc = "write" /\ r.by = req[q].by /\ r.op = "decideOffer"
        /\ r.offer = req[q].offer
    BY <1>1, <1>2, <2>1, <2>3 DEF Request
  <2> HIDE DEF r
  <2> PICK k \in Request : k = r
    BY <2>4
  <2>5. RequestSound(k)' /\ Past(k, met'[q])
    BY <1>1, <1>2, <2>4 DEF RequestSound, RowIsThere, Past, notes
  <2> QED BY <1>1, <2>2, <2>5, NotesStay, RequestGoesOn
<1> QED BY <1>3, <1>4

LEMMA DecideOfferKeeps ==
  ASSUME CutInv, Watch, NEW q \in Requests, DecideOffer(q)
  PROVE  CutInv'
<1>1. NotesTyped /\ offers \in Seq(Offer) /\ req[q].text \in Nat /\ req[q].offer \in Nat
  <2>1. req[q] \in Request
    BY DEF CutInv, NoteTypes
  <2> QED BY <2>1 DEF CutInv, NoteTypes, NotesTyped, Request
<1>2. PICK status \in {"APPROVED", "REJECTED"} :
        offers' = [offers EXCEPT ![req[q].offer].status = status]
  BY DEF DecideOffer
<1>3. offers' \in Seq(Offer) /\ Len(offers') = Len(offers)
  BY <1>1, <1>2, OffersDecided
<1>4. entry' \in Nat
  BY <1>1 DEF DecideOffer, Put, NotesTyped
<1>5. NotesTyped' /\ Len(offers) <= Len(offers') /\ RowsStay
  BY <1>1, <1>3, <1>4 DEF DecideOffer, NotesTyped, RowsStay
<1> QED BY <1>5, RequestEnds DEF DecideOffer

LEMMA WriteGrantKeeps ==
  ASSUME CutInv, Watch, NEW q \in Requests, WriteGrant(q)
  PROVE  CutInv'
<1>1. NotesTyped /\ Finish(q) /\ UNCHANGED <<friends, share, access, offers, entry, texts, written>>
  BY DEF CutInv, NoteTypes, WriteGrant
<1>2. grant' \in [Guests -> {None, "PENDING", "APPROVED", "DENIED"}]
  <2>1. grant \in [Guests -> {None, "PENDING", "APPROVED", "DENIED"}]
    BY <1>1 DEF NotesTyped
  <2> QED BY <2>1 DEF WriteGrant
<1>3. NotesTyped' /\ Len(offers) <= Len(offers') /\ RowsStay
  BY <1>1, <1>2 DEF NotesTyped, RowsStay
<1> QED BY <1>1, <1>3, RequestEnds

\* What is one statement: rows that are deleted are gone for who holds them.
LEMMA LosesRows ==
  ASSUME CutInv, Watch, NEW lost, Lose(lost), NotesTyped', UNCHANGED offers,
         \A g \in Guests : access[g] # None /\ access'[g] = None => <<"access", g>> \in lost
  PROVE  CutInv'
<1>1. \A p \in Requests : /\ req[p] \in Request
                          /\ req'[p] = IF req[p].holds \in lost THEN [req[p] EXCEPT !.holds = Gone]
                                       ELSE req[p]
  BY DEF CutInv, NoteTypes, Lose
<1>2. \A p \in Requests : [req[p] EXCEPT !.holds = Gone] \in Request
                          /\ [req[p] EXCEPT !.holds = Gone].holds = Gone
  BY <1>1 DEF Request, Held
<1>3. req' \in [Requests -> Request]
  BY <1>1, <1>2 DEF Lose
<1>4. LostRowsGone
  BY <1>1, <1>2 DEF LostRowsGone
<1>5. Len(offers) <= Len(offers')
  BY DEF CutInv, NoteTypes, NotesTyped
<1> QED BY <1>1, <1>3, <1>4, <1>5, RequestsWait

LEMMA LinkKeeps ==
  ASSUME CutInv, Watch, UNCHANGED <<friends, offers, entry, grant, texts, written>>,
         \/ Publish \/ Revoke
         \/ \E v \in {"PUBLIC", "AUTHORIZED"} : SetVisibility(v)
         \/ \E g \in Guests : RemoveAccess(g) \/ Later(g)
  PROVE  CutInv'
<1>1. NotesTyped
  BY DEF CutInv, NoteTypes
<1>2. UNCHANGED req => Lose({})
  BY DEF CutInv, NoteTypes, Lose
<1>3. CASE Publish \/ \E v \in {"PUBLIC", "AUTHORIZED"} : SetVisibility(v)
  <2>1. NotesTyped' /\ UNCHANGED <<access, req>>
    BY <1>1, <1>3 DEF Publish, SetVisibility, NotesTyped
  <2> QED BY <1>2, <2>1, LosesRows
<1>4. CASE Revoke
  <2>1. NotesTyped'
    BY <1>1, <1>4 DEF Revoke, NotesTyped
  <2> QED BY <1>4, <2>1, LosesRows DEF Revoke
<1>5. ASSUME NEW g \in Guests, RemoveAccess(g) PROVE CutInv'
  <2>1. NotesTyped' /\ \A h \in Guests \ {g} : access'[h] = access[h]
    BY <1>1, <1>5 DEF RemoveAccess, NotesTyped
  <2> QED BY <1>5, <2>1, LosesRows DEF RemoveAccess
<1>6. ASSUME NEW g \in Guests, Later(g) PROVE CutInv'
  <2>1. access[g] \in AccessRow
    BY <1>1, <1>6 DEF Later, NotesTyped
  <2>2. [access[g] EXCEPT !.recent = FALSE] \in AccessRow
    BY <2>1 DEF AccessRow
  <2>3. UNCHANGED <<share, req>>
        /\ access' = [access EXCEPT ![g] = [access[g] EXCEPT !.recent = FALSE]]
    BY <1>6 DEF Later
  <2>4. NotesTyped'
    BY <1>1, <2>2, <2>3 DEF NotesTyped
  <2>5. \A h \in Guests : access[h] # None => access'[h] # None
    BY <1>1, <2>2, <2>3 DEF NotesTyped
  <2> QED BY <1>2, <2>3, <2>4, <2>5, LosesRows
<1> QED BY <1>3, <1>4, <1>5, <1>6

\* Every step.
LEMMA NextCutInv ==
  ASSUME CutInv, [Next]_vars
  PROVE  CutInv'
<1>1. CASE UNCHANGED vars
  <2>1. UNCHANGED <<notes, req, met>>
    BY <1>1 DEF vars
  <2> QED BY <2>1 DEF notes, CutInv, NoteTypes, NotesTyped, RequestSound, RowIsThere, Past
<1>2. CASE Step /\ Watch
  <2>1. CASE FriendsNext /\ UNCHANGED <<notes, req>>
    <3>1. Lose({})
      BY <2>1 DEF CutInv, NoteTypes, Lose
    <3>2. NotesTyped' /\ UNCHANGED <<offers, access>>
      BY <2>1, NotesStay DEF notes
    <3> QED BY <1>2, <3>1, <3>2, LosesRows
  <2>2. ASSUME NEW q \in Requests,
               \/ Begin(q) \/ BeginEdit(q) \/ ReadFriends(q) \/ ReadShare(q) \/ ReadAccess(q)
               \/ CreateShare(q) \/ WriteAccess(q) \/ Enter(q) \/ Deliver(q) \/ Apply(q)
               \/ FindPending(q) \/ StoreOffer(q) \/ ReadOffer(q) \/ DecideOffer(q)
               \/ ReadGrant(q) \/ WriteGrant(q) \/ Break(q)
        PROVE  CutInv'
    <3>1. CASE Deliver(q) \/ Break(q)
      BY <1>2, <3>1, NotesStay, RequestEnds DEF Deliver, Break
    <3>2. CASE Begin(q) \/ BeginEdit(q) \/ ReadFriends(q) \/ ReadShare(q) \/ ReadAccess(q)
                 \/ ReadGrant(q) \/ Enter(q)
      BY <1>2, <3>2, BeginKeeps, BeginEditKeeps, ReadFriendsKeeps, ReadShareKeeps,
         ReadAccessKeeps, ReadGrantKeeps, EnterKeeps
    <3>3. CASE CreateShare(q) \/ WriteAccess(q) \/ Apply(q) \/ FindPending(q) \/ StoreOffer(q)
                 \/ ReadOffer(q) \/ DecideOffer(q) \/ WriteGrant(q)
      BY <1>2, <3>3, CreateShareKeeps, WriteAccessKeeps, ApplyKeeps, FindPendingKeeps,
         StoreOfferKeeps, ReadOfferKeeps, DecideOfferKeeps, WriteGrantKeeps
    <3> QED BY <2>2, <3>1, <3>2, <3>3
  <2>3. CASE /\ \/ Publish \/ Revoke
                \/ \E v \in {"PUBLIC", "AUTHORIZED"} : SetVisibility(v)
                \/ \E g \in Guests : RemoveAccess(g) \/ Later(g)
             /\ UNCHANGED <<friends, offers, entry, grant, texts, written>>
    BY <1>2, <2>3, LinkKeeps
  <2>4. CASE Write /\ UNCHANGED <<friends, share, access, offers, grant, req>>
    <3>1. Lose({})
      BY <2>4 DEF CutInv, NoteTypes, Lose
    <3>2. NotesTyped'
      BY <2>4 DEF Write, Put, CutInv, NoteTypes, NotesTyped
    <3> QED BY <1>2, <2>4, <3>1, <3>2, LosesRows
  <2>5. CASE /\ \E g \in Guests : RemoveGrant(g, g) \/ RemoveGrant(g, Owner)
             /\ UNCHANGED <<friends, share, access, offers, entry, texts, written>>
    <3> PICK g \in Guests : Lose({<<"grant", g>>}) /\ grant' = [grant EXCEPT ![g] = None]
      BY <2>5 DEF RemoveGrant
    <3>1. NotesTyped'
      BY <2>5 DEF CutInv, NoteTypes, NotesTyped
    <3> QED BY <1>2, <2>5, <3>1, LosesRows
  <2> QED BY <1>2, <2>1, <2>2, <2>3, <2>4, <2>5 DEF Step
<1> QED BY <1>1, <1>2 DEF Next

\* "cortam o acesso de imediato": whatever requests, decisions, removals,
\* friendships and visibilities meet, nobody is shown the note or writes in it
\* through a role that was not in force, or as a guest of the owner's without
\* being a friend, at some moment of the very request; nor reads without leave.
THEOREM CutForEverybody == Spec => []CutAtOnce
<1>1. CutInv /\ [Next]_vars => CutInv'
  BY NextCutInv
<1>2. Spec => []CutInv
  BY InitCutInv, <1>1, PTL DEF Spec
<1> QED BY <1>2, CutFromInv, PTL

LEMMA FriendsSteps == Step => FriendsNext \/ UNCHANGED friends
<1>1. ASSUME NEW q \in Requests,
             \/ Begin(q) \/ BeginEdit(q) \/ ReadFriends(q) \/ ReadShare(q) \/ ReadAccess(q)
             \/ CreateShare(q) \/ WriteAccess(q) \/ Enter(q) \/ Deliver(q)
      PROVE  UNCHANGED friends
  BY <1>1 DEF Begin, BeginEdit, ReadFriends, ReadShare, ReadAccess, CreateShare, WriteAccess,
     Enter, Deliver
<1>2. ASSUME NEW q \in Requests,
             \/ Apply(q) \/ FindPending(q) \/ StoreOffer(q) \/ ReadOffer(q) \/ DecideOffer(q)
             \/ ReadGrant(q) \/ WriteGrant(q) \/ Break(q)
      PROVE  UNCHANGED friends
  BY <1>2 DEF Apply, FindPending, StoreOffer, ReadOffer, DecideOffer, ReadGrant, WriteGrant, Break
<1> QED BY <1>1, <1>2 DEF Step

\* The notebook asks who are friends and never changes it: its friendships are
\* those of Friendships, and what holds of these holds of them.
THEOREM NotebookLeavesFriends == Spec => FriendsSpec /\ []FriendsAgreed
<1>1. Init => FriendsInit
  BY DEF Init
<1>2. [Next]_vars => [FriendsNext]_friends
  BY FriendsSteps DEF Next, vars
<1>3. Spec => FriendsSpec
  BY <1>1, <1>2, PTL DEF Spec, FriendsSpec
<1> QED BY <1>3, FriendsBothAgreed, PTL

-----------------------------------------------------------------------------
(* Proposals that are decided one request after the other.                 *)

\* A text that is neither in the note nor proposed.
Fresh(t) == t \in 0 .. texts /\ t \notin written /\ \A i \in 1 .. Len(offers) : offers[i].text # t

\* What a request has read, and the text it brings, is so until it writes.
OfferStill(r) ==
  /\ r.pc \in {"apply", "pending", "store"} => r.op = "edit"
  /\ r.op = "edit" /\ r.pc # "idle" => Fresh(r.text)
  /\ r.op = "edit" /\ r.pc \notin {"idle", "store"} => r.offer = 0
  /\ r.op = "edit" /\ r.pc = "store" =>
       IF r.offer = 0 THEN Pending(r.by) = {} ELSE r.offer \in Pending(r.by)
  /\ r.op = "decideOffer" /\ r.pc = "write" =>
       offers[r.offer].status = "PENDING" /\ r.text = offers[r.offer].text

\* No text is proposed twice, and a guest has one proposal that waits.
OffersApart ==
  \A i, j \in 1 .. Len(offers) : i # j =>
    /\ offers[i].text # offers[j].text
    /\ offers[i].by = offers[j].by /\ offers[i].status = "PENDING" => offers[j].status # "PENDING"
TextsKnown ==
  /\ written \subseteq 0 .. texts
  /\ \A i \in 1 .. Len(offers) : offers[i].text <= texts
OffersDone ==
  \A i \in 1 .. Len(offers) : offers[i].status = "APPROVED" <=> offers[i].text \in written
OffersSound == OffersApart /\ TextsKnown /\ OffersDone

OffersInTurn == OffersSound /\ \A q \in Requests : OfferStill(req[q])

LEMMA OffersFromInv == CutInv /\ OffersSound => OffersKept
<1> SUFFICES ASSUME CutInv, OffersSound, NEW g \in Guests PROVE Cardinality(Pending(g)) <= 1
  BY DEF OffersKept, OffersSound, OffersDone
<1>1. \A i, j \in Pending(g) : i = j
  BY DEF OffersSound, OffersApart, Pending
<1>2. CASE Pending(g) = {}
  BY <1>2, FS_EmptySet
<1>3. ASSUME NEW i \in Pending(g) PROVE Cardinality(Pending(g)) <= 1
  <2>1. Pending(g) = {i}
    BY <1>1, <1>3
  <2> QED BY <2>1, FS_Singleton
<1> QED BY <1>2, <1>3

LEMMA OfferTypes ==
  ASSUME CutInv
  PROVE  /\ offers \in Seq(Offer) /\ Len(offers) \in Nat /\ texts \in Nat
         /\ req \in [Requests -> Request]
         /\ \A i \in 1 .. Len(offers) : i \in Nat /\ offers[i] \in Offer /\ offers[i].text \in Nat
<1>1. offers \in Seq(Offer) /\ texts \in Nat /\ req \in [Requests -> Request]
  BY DEF CutInv, NoteTypes, NotesTyped
<1>2. Len(offers) \in Nat /\ \A i \in 1 .. Len(offers) : i \in Nat /\ offers[i] \in Offer
  BY <1>1
<1> QED BY <1>1, <1>2 DEF Offer

\* What the steps make of the proposals.
LEMMA OffersStay ==
  ASSUME OffersSound, UNCHANGED <<offers, texts, written>>
  PROVE  OffersSound'
  BY DEF OffersSound, OffersApart, TextsKnown, OffersDone

LEMMA FreshIsWritten ==
  ASSUME CutInv, OffersSound, NEW t, t \in 0 .. texts',
         \A i \in 1 .. Len(offers) : offers[i].text # t,
         UNCHANGED offers, written' = written \cup {t}, texts' \in Nat, texts <= texts'
  PROVE  OffersSound'
<1>1. OffersApart'
  BY DEF OffersSound, OffersApart
<1>2. TextsKnown'
  <2>1. texts \in Nat /\ texts' \in Nat /\ written \subseteq 0 .. texts
        /\ \A i \in 1 .. Len(offers) : offers[i].text \in Nat /\ offers[i].text <= texts
    BY OfferTypes DEF OffersSound, TextsKnown
  <2>2. 0 .. texts \subseteq 0 .. texts'
    BY <2>1
  <2>3. \A n \in Nat : n <= texts => n <= texts'
    BY <2>1
  <2> QED BY <2>1, <2>2, <2>3 DEF TextsKnown
<1>3. OffersDone'
  BY DEF OffersSound, OffersDone
<1> QED BY <1>1, <1>2, <1>3 DEF OffersSound

LEMMA OfferReplaced ==
  ASSUME CutInv, OffersSound, NEW k \in 1 .. Len(offers), offers[k].status = "PENDING",
         NEW t \in Nat, Fresh(t), offers' = [offers EXCEPT ![k].text = t],
         UNCHANGED <<texts, written>>
  PROVE  OffersSound'
<1>1. Len(offers') = Len(offers)
  BY OfferTypes, OffersReplaced
<1>2. \A i \in 1 .. Len(offers) :
        /\ offers'[i].text = IF i = k THEN t ELSE offers[i].text
        /\ offers'[i].by = offers[i].by /\ offers'[i].status = offers[i].status
  BY OfferTypes DEF Offer
<1>3. OffersApart'
  BY <1>1, <1>2 DEF OffersSound, OffersApart, Fresh
<1>4. TextsKnown'
  BY <1>1, <1>2, OfferTypes DEF OffersSound, TextsKnown, Fresh
<1>5. OffersDone'
  BY <1>1, <1>2 DEF OffersSound, OffersDone, Fresh
<1> QED BY <1>3, <1>4, <1>5 DEF OffersSound

LEMMA OfferAdded ==
  ASSUME CutInv, OffersSound, NEW g \in Guests, Pending(g) = {}, NEW t \in Nat, Fresh(t),
         offers' = Append(offers, [by |-> g, text |-> t, status |-> "PENDING"]),
         UNCHANGED <<texts, written>>
  PROVE  OffersSound'
<1> PICK n \in Nat : n = Len(offers)
  BY OfferTypes
<1>1. /\ Len(offers') = n + 1
      /\ \A i \in 1 .. n : offers'[i] = offers[i]
      /\ offers'[n + 1] = [by |-> g, text |-> t, status |-> "PENDING"]
  BY OfferTypes
<1>2. \A i \in 1 .. n + 1 : i \in 1 .. n \/ i = n + 1
  OBVIOUS
<1>3. \A i \in 1 .. n : ~(offers[i].by = g /\ offers[i].status = "PENDING")
  BY DEF Pending
<1>4. OffersApart'
  BY <1>1, <1>2, <1>3 DEF OffersSound, OffersApart, Fresh
<1>5. TextsKnown'
  BY <1>1, <1>2, OfferTypes DEF OffersSound, TextsKnown, Fresh
<1>6. OffersDone'
  BY <1>1, <1>2 DEF OffersSound, OffersDone, Fresh
<1> QED BY <1>4, <1>5, <1>6 DEF OffersSound

LEMMA OfferIsDecided ==
  ASSUME CutInv, OffersSound, NEW k \in 1 .. Len(offers), offers[k].status = "PENDING",
         NEW yes \in BOOLEAN, UNCHANGED texts,
         offers' = [offers EXCEPT ![k].status = IF yes THEN "APPROVED" ELSE "REJECTED"],
         written' = IF yes THEN written \cup {offers[k].text} ELSE written
  PROVE  OffersSound'
<1> PICK status \in {"APPROVED", "REJECTED"} : status = IF yes THEN "APPROVED" ELSE "REJECTED"
  OBVIOUS
<1>1. Len(offers') = Len(offers)
  BY OfferTypes, OffersDecided
<1>2. \A i \in 1 .. Len(offers) :
        /\ offers'[i].text = offers[i].text /\ offers'[i].by = offers[i].by
        /\ offers'[i].status = IF i = k THEN status ELSE offers[i].status
  BY OfferTypes DEF Offer
<1>3. OffersApart'
  BY <1>1, <1>2 DEF OffersSound, OffersApart
<1>4. TextsKnown'
  BY <1>1, <1>2, OfferTypes DEF OffersSound, TextsKnown
<1>5. OffersDone'
  <2> SUFFICES ASSUME NEW i \in 1 .. Len(offers)
               PROVE  offers'[i].status = "APPROVED" <=> offers'[i].text \in written'
    BY <1>1 DEF OffersDone
  <2>1. offers[i].status = "APPROVED" <=> offers[i].text \in written
    BY DEF OffersSound, OffersDone
  <2>2. i # k => offers[i].text # offers[k].text
    BY DEF OffersSound, OffersApart
  <2> QED BY <1>2, <2>1, <2>2
<1> QED BY <1>3, <1>4, <1>5 DEF OffersSound

\* In turn, the other requests are idle where one takes a step.
LEMMA RequestTakesTurn ==
  ASSUME CutInv, RequestsInTurn, NEW q \in Requests, NEW r, req' = [req EXCEPT ![q] = r],
         OffersSound', OfferStill(r)'
  PROVE  OffersInTurn'
<1>1. \A p \in Requests : req'[p] = IF p = q THEN r ELSE req[p]
  BY OfferTypes
<1>2. \A p \in Requests \ {q} : req'[p].pc = "idle"
  BY <1>1 DEF RequestsInTurn
<1>3. \A p \in Requests \ {q} : OfferStill(req[p])'
  BY <1>2 DEF OfferStill
<1>4. OfferStill(req[q])'
  BY <1>1 DEF OfferStill, Fresh, Pending
<1> QED BY <1>3, <1>4 DEF OffersInTurn

LEMMA RequestStopsInTurn ==
  ASSUME CutInv, RequestsInTurn, NEW q \in Requests, Finish(q), OffersSound'
  PROVE  OffersInTurn'
<1> PICK r : r = Idle
  OBVIOUS
<1>1. r.pc = "idle" /\ req' = [req EXCEPT ![q] = r]
  BY DEF Idle, Finish
<1>2. OfferStill(r)'
  BY <1>1 DEF OfferStill
<1> QED BY <1>1, <1>2, RequestTakesTurn

\* q goes on with the same text, proposal and guest, not to where it writes.
LEMMA RequestMovesInTurn ==
  ASSUME CutInv, OffersInTurn, RequestsInTurn, NEW q \in Requests, NEW r,
         req[q].pc \notin {"idle", "store"}, req' = [req EXCEPT ![q] = r],
         r.op = req[q].op, r.text = req[q].text, r.offer = req[q].offer, r.by = req[q].by,
         r.pc # "store" \/ Pending(r.by) = {},
         r.pc \in {"apply", "pending", "store"} => r.op = "edit",
         r.op = "decideOffer" => r.pc # "write",
         UNCHANGED <<offers, texts, written>>
  PROVE  OffersInTurn'
<1>1. OffersSound'
  BY OffersStay DEF OffersInTurn
<1>2. OfferStill(req[q])
  BY DEF OffersInTurn
<1>3. r.op = "edit" => Fresh(r.text) /\ r.offer = 0
  BY <1>2 DEF OfferStill
<1>4. OfferStill(r)'
  BY <1>3 DEF OfferStill, Fresh, Pending
<1> QED BY <1>1, <1>4, RequestTakesTurn

LEMMA GoesInTurn ==
  ASSUME CutInv, OffersInTurn, RequestsInTurn, NEW q \in Requests, NEW pc \in Pcs,
         req[q].pc \notin {"idle", "store"}, Goto(q, pc),
         pc # "store" \/ Pending(req[q].by) = {},
         pc \in {"apply", "pending", "store"} => req[q].op = "edit",
         req[q].op = "decideOffer" => pc # "write",
         UNCHANGED <<offers, texts, written>>
  PROVE  OffersInTurn'
<1>1. req[q] \in Request
  BY OfferTypes
<1> PICK r : r = [req[q] EXCEPT !.pc = pc]
  OBVIOUS
<1>2. /\ r.pc = pc /\ r.op = req[q].op /\ r.text = req[q].text
      /\ r.offer = req[q].offer /\ r.by = req[q].by
  BY <1>1 DEF Request
<1>3. req' = [req EXCEPT ![q] = r]
  BY DEF Goto
<1> QED BY <1>2, <1>3, RequestMovesInTurn

\* Nobody has a request under way.
LEMMA NobodyInTurn ==
  ASSUME CutInv, RequestsInTurn, \A p \in Requests : req'[p].pc = req[p].pc, OffersSound'
  PROVE  OffersInTurn'
<1>1. \A p \in Requests : req'[p].pc = "idle"
  BY DEF RequestsInTurn
<1>2. \A p \in Requests : OfferStill(req[p])'
  BY <1>1 DEF OfferStill
<1> QED BY <1>2 DEF OffersInTurn

LEMMA LoseKeepsPlaces ==
  ASSUME CutInv, NEW lost, Lose(lost)
  PROVE  \A p \in Requests : req'[p].pc = req[p].pc
<1>1. \A p \in Requests : /\ req[p] \in Request
                          /\ req'[p] = IF req[p].holds \in lost THEN [req[p] EXCEPT !.holds = Gone]
                                       ELSE req[p]
  BY OfferTypes DEF Lose
<1> QED BY <1>1 DEF Request

-----------------------------------------------------------------------------
(* The steps, one request after the other.                                 *)

\* Those that change no proposal and no text.
LEMMA ReadsInTurn ==
  ASSUME CutInv, OffersInTurn, RequestsInTurn, NEW q \in Requests,
         \/ Begin(q) \/ ReadFriends(q) \/ ReadShare(q) \/ ReadAccess(q) \/ CreateShare(q)
         \/ WriteAccess(q) \/ Enter(q) \/ Deliver(q) \/ ReadGrant(q) \/ WriteGrant(q) \/ Break(q)
  PROVE  OffersInTurn'
<1>1. UNCHANGED <<offers, texts, written>>
  BY DEF Begin, ReadFriends, ReadShare, ReadAccess, CreateShare, WriteAccess, Enter, Deliver,
     ReadGrant, WriteGrant, Break, notes
<1>2. OffersSound'
  BY <1>1, OffersStay DEF OffersInTurn
<1>3. CASE Finish(q)
  BY <1>2, <1>3, RequestStopsInTurn
<1>4. req[q] \in Request
  BY OfferTypes
<1>5. ASSUME req[q].pc \in {"share", "create"},
             req' = [req EXCEPT ![q].pc = "row", ![q].holds = <<"share">>]
      PROVE  OffersInTurn'
  <2> PICK r : r = [req[q] EXCEPT !.pc = "row", !.holds = <<"share">>]
    OBVIOUS
  <2>1. /\ r.pc = "row" /\ r.op = req[q].op /\ r.text = req[q].text
        /\ r.offer = req[q].offer /\ r.by = req[q].by /\ req' = [req EXCEPT ![q] = r]
    BY <1>4, <1>5 DEF Request
  <2> QED BY <1>1, <1>5, <2>1, RequestMovesInTurn
<1>6. CASE Begin(q)
  <2> PICK r \in Request : /\ req' = [req EXCEPT ![q] = r] /\ r.op # "edit"
                           /\ r.pc \in {"friends", "share", "row"}
    BY <1>6, BeginsAs
  <2>1. OfferStill(r)'
    BY DEF OfferStill
  <2> QED BY <1>2, <2>1, RequestTakesTurn
<1>7. CASE ReadFriends(q) /\ ~Finish(q)
  <2> DEFINE next == CASE req[q].op = "invite" -> "share"
                       [] req[q].op = "askGrant" -> "row"
                       [] req[q].op = "respond" -> "write"
                       [] req[q].op = "readNotes" -> "deliver"
                       [] OTHER -> "enter"
  <2>1. req[q].pc = "friends" /\ Goto(q, next)
    BY <1>7 DEF ReadFriends
  <2>2. /\ next \in {"share", "row", "write", "deliver", "enter"}
        /\ req[q].op = "decideOffer" => next # "write"
    OBVIOUS
  <2> HIDE DEF next
  <2> PICK pc \in {"share", "row", "write", "deliver", "enter"} : pc = next
    BY <2>2
  <2>3. pc \in Pcs
    BY DEF Pcs
  <2> QED BY <1>1, <2>1, <2>2, <2>3, GoesInTurn
<1>8. CASE ReadShare(q) /\ ~Finish(q)
  <2>1. req[q].pc = "share" /\ "create" \in Pcs
    BY <1>8 DEF ReadShare, Pcs
  <2>2. CASE Goto(q, "create")
    BY <1>1, <2>1, <2>2, GoesInTurn
  <2>3. CASE req' = [req EXCEPT ![q].pc = "row", ![q].holds = <<"share">>]
    BY <1>5, <2>1, <2>3
  <2>4. \/ Finish(q) \/ Goto(q, "create")
        \/ req' = [req EXCEPT ![q].pc = "row", ![q].holds = <<"share">>]
    BY <1>8 DEF ReadShare
  <2> QED BY <1>8, <2>2, <2>3, <2>4
<1>9. CASE ReadAccess(q) /\ ~Finish(q)
  <2>1. req[q].pc = "row" /\ req[q].op # "decideOffer"
    BY <1>9 DEF ReadAccess, At
  <2>2. \E r : /\ req' = [req EXCEPT ![q] = r] /\ r.pc \in {"write", "friends", "enter"}
               /\ r.op = req[q].op /\ r.text = req[q].text
               /\ r.offer = req[q].offer /\ r.by = req[q].by
    <3> DEFINE a == access[req[q].by]
               held == IF req[q].op \in {"decide", "respond"} THEN <<"access", req[q].by>>
                       ELSE IF req[q].op \in {"edit", "open"} THEN None ELSE req[q].holds
               Taken(pc) == [req[q] EXCEPT !.pc = pc, !.seen = a, !.holds = held]
               Took(pc) == req' = [req EXCEPT ![q].pc = pc, ![q].seen = a,
                                    ![q].holds = IF req[q].op \in {"decide", "respond"}
                                                 THEN <<"access", req[q].by>>
                                                 ELSE IF req[q].op \in {"edit", "open"} THEN None
                                                 ELSE @]
    <3>1. Took("write") \/ Took("friends") \/ Took("enter")
      BY <1>9 DEF ReadAccess
    <3>2. \A pc \in {"write", "friends", "enter"} :
            Took(pc) => req' = [req EXCEPT ![q] = Taken(pc)]
      OBVIOUS
    <3>3. \A pc \in {"write", "friends", "enter"} :
            /\ Taken(pc).pc = pc /\ Taken(pc).op = req[q].op /\ Taken(pc).text = req[q].text
            /\ Taken(pc).offer = req[q].offer /\ Taken(pc).by = req[q].by
      BY <1>4 DEF Request
    <3> HIDE DEF Took, Taken
    <3> QED BY <3>1, <3>2, <3>3
  <2> PICK r : /\ req' = [req EXCEPT ![q] = r] /\ r.pc \in {"write", "friends", "enter"}
               /\ r.op = req[q].op /\ r.text = req[q].text
               /\ r.offer = req[q].offer /\ r.by = req[q].by
    BY <2>2
  <2> QED BY <1>1, <2>1, RequestMovesInTurn
<1>10. CASE CreateShare(q) /\ ~Finish(q)
  <2>1. req[q].pc = "create" /\ req' = [req EXCEPT ![q].pc = "row", ![q].holds = <<"share">>]
    BY <1>10 DEF CreateShare, At
  <2> QED BY <1>5, <2>1
<1>11. CASE Enter(q) /\ ~Finish(q)
  <2>1. req[q].pc = "enter" /\ {"deliver", "apply", "pending"} \subseteq Pcs
    BY <1>11 DEF Enter, Pcs
  <2> PICK pc \in {"deliver", "apply", "pending"} :
        Goto(q, pc) /\ (pc # "deliver" => req[q].op = "edit")
    BY <1>11 DEF Enter
  <2> QED BY <1>1, <2>1, GoesInTurn
<1>12. CASE ReadGrant(q) /\ ~Finish(q)
  <2>1. req[q].pc = "row" /\ {"write", "friends"} \subseteq Pcs
    BY <1>12 DEF ReadGrant, At, Pcs
  <2>2. CASE req[q].op = "askGrant" /\ Goto(q, "write")
    BY <1>1, <2>1, <2>2, GoesInTurn
  <2>3. CASE req[q].op = "readNotes" /\ Goto(q, "friends")
    BY <1>1, <2>1, <2>3, GoesInTurn
  <2>4. CASE /\ req[q].op = "decideGrant"
             /\ req' = [req EXCEPT ![q].pc = "write", ![q].holds = <<"grant", req[q].by>>]
    <3> PICK r : r = [req[q] EXCEPT !.pc = "write", !.holds = <<"grant", req[q].by>>]
      OBVIOUS
    <3>1. /\ r.pc = "write" /\ r.op = req[q].op /\ r.text = req[q].text
          /\ r.offer = req[q].offer /\ r.by = req[q].by /\ req' = [req EXCEPT ![q] = r]
      BY <1>4, <2>4 DEF Request
    <3> QED BY <1>1, <2>1, <2>4, <3>1, RequestMovesInTurn
  <2> QED BY <1>12, <2>2, <2>3, <2>4 DEF ReadGrant, At
<1>13. CASE WriteAccess(q) \/ Deliver(q) \/ WriteGrant(q) \/ Break(q)
  BY <1>3, <1>13 DEF WriteAccess, Deliver, WriteGrant, Break
<1> QED BY <1>3, <1>6, <1>7, <1>8, <1>9, <1>10, <1>11, <1>12, <1>13

\* Edits: from the form to the note, or to a proposal.
LEMMA EditsInTurn ==
  ASSUME CutInv, OffersInTurn, RequestsInTurn, NEW q \in Requests,
         BeginEdit(q) \/ Apply(q) \/ FindPending(q) \/ StoreOffer(q)
  PROVE  OffersInTurn'
<1>1. OffersSound /\ OfferStill(req[q]) /\ req[q] \in Request /\ req[q].text \in Nat
  <2>1. req[q] \in Request
    BY OfferTypes
  <2> QED BY <2>1 DEF OffersInTurn, Request
<1>2. CASE BeginEdit(q)
  <2> PICK g \in Guests, base \in {entry, None} :
        req' = [req EXCEPT ![q] = [Idle EXCEPT !.by = g, !.op = "edit", !.pc = "share",
                                    !.text = texts + 1, !.base = base]]
    BY <1>2 DEF BeginEdit
  <2> PICK r : r = [Idle EXCEPT !.by = g, !.op = "edit", !.pc = "share",
                      !.text = texts + 1, !.base = base]
    OBVIOUS
  <2>1. r.op = "edit" /\ r.pc = "share" /\ r.text = texts + 1 /\ r.offer = 0
    BY DEF Idle
  <2>2. UNCHANGED <<offers, written>> /\ texts' = texts + 1
    BY <1>2 DEF BeginEdit
  <2>3. OffersSound'
    BY <1>1, <2>2, OfferTypes DEF OffersSound, OffersApart, TextsKnown, OffersDone
  <2>4. Fresh(r.text)'
    <3>1. \A i \in 1 .. Len(offers) : offers[i].text # texts + 1
      BY <1>1, OfferTypes DEF OffersSound, TextsKnown
    <3>2. texts + 1 \notin written /\ texts + 1 \in 0 .. texts'
      BY <1>1, <2>2, OfferTypes DEF OffersSound, TextsKnown
    <3> QED BY <2>1, <2>2, <3>1, <3>2 DEF Fresh
  <2>5. OfferStill(r)'
    BY <2>1, <2>4 DEF OfferStill
  <2> QED BY <2>3, <2>5, RequestTakesTurn
<1>3. CASE Apply(q)
  <2>1. Finish(q) /\ req[q].pc = "apply" /\ UNCHANGED <<offers, texts>>
    BY <1>3 DEF Apply
  <2>2. Fresh(req[q].text)
    BY <1>1, <2>1 DEF OfferStill
  <2>3. CASE UNCHANGED written
    BY <1>1, <2>1, <2>3, OffersStay, RequestStopsInTurn
  <2>4. CASE written' = written \cup {req[q].text}
    <3> PICK t : t = req[q].text
      OBVIOUS
    <3>1. t \in 0 .. texts' /\ \A i \in 1 .. Len(offers) : offers[i].text # t
      BY <2>1, <2>2 DEF Fresh
    <3>2. texts' \in Nat /\ texts <= texts'
      BY <2>1, OfferTypes
    <3>3. OffersSound'
      BY <1>1, <2>1, <2>4, <3>1, <3>2, FreshIsWritten
    <3> QED BY <2>1, <3>3, RequestStopsInTurn
  <2> QED BY <1>3, <2>3, <2>4 DEF Apply, Put
<1>4. CASE FindPending(q)
  <2>1. req[q].pc = "pending" /\ UNCHANGED <<offers, texts, written>> /\ "store" \in Pcs
    BY <1>4 DEF FindPending, notes, Pcs
  <2>2. OffersSound' /\ req[q].op = "edit" /\ Fresh(req[q].text)
    BY <1>1, <2>1, OffersStay DEF OfferStill
  <2>3. CASE Finish(q)
    BY <2>2, <2>3, RequestStopsInTurn
  <2>4. CASE Pending(req[q].by) = {} /\ Goto(q, "store")
    BY <2>1, <2>2, <2>4, GoesInTurn
  <2>5. ASSUME NEW i \in Pending(req[q].by), req' = [req EXCEPT ![q].pc = "store", ![q].offer = i]
        PROVE  OffersInTurn'
    <3> PICK r : r = [req[q] EXCEPT !.pc = "store", !.offer = i]
      OBVIOUS
    <3>1. /\ r.pc = "store" /\ r.op = "edit" /\ r.text = req[q].text /\ r.offer = i
          /\ r.by = req[q].by /\ req' = [req EXCEPT ![q] = r]
      BY <1>1, <2>2, <2>5 DEF Request
    <3>2. i # 0 /\ i \in Pending(r.by)
      BY <3>1, OfferTypes DEF Pending
    <3>3. OfferStill(r)'
      BY <2>1, <2>2, <3>1, <3>2 DEF OfferStill, Fresh, Pending
    <3> QED BY <2>2, <3>1, <3>3, RequestTakesTurn
  <2> QED BY <1>4, <2>3, <2>4, <2>5 DEF FindPending
<1>5. CASE StoreOffer(q)
  <2>1. req[q].pc = "store" /\ Finish(q) /\ UNCHANGED <<texts, written>>
    BY <1>5 DEF StoreOffer
  <2>2. Fresh(req[q].text) /\ req[q].by \in Guests
        /\ IF req[q].offer = 0 THEN Pending(req[q].by) = {} ELSE req[q].offer \in Pending(req[q].by)
    BY <1>1, <2>1, Moving DEF OfferStill
  <2> PICK t \in Nat, g \in Guests : t = req[q].text /\ g = req[q].by
    BY <1>1, <2>2
  <2>3. CASE req[q].offer = 0
    <3>1. offers' = Append(offers, [by |-> g, text |-> t, status |-> "PENDING"])
      BY <1>5, <2>3 DEF StoreOffer
    <3>2. OffersSound'
      BY <1>1, <2>1, <2>2, <2>3, <3>1, OfferAdded
    <3> QED BY <2>1, <3>2, RequestStopsInTurn
  <2>4. CASE req[q].offer # 0
    <3> PICK k \in 1 .. Len(offers) : k = req[q].offer /\ offers[k].status = "PENDING"
      BY <2>2, <2>4 DEF Pending
    <3>1. offers' = [offers EXCEPT ![k].text = t]
      BY <1>5, <2>4 DEF StoreOffer
    <3>2. OffersSound'
      BY <1>1, <2>1, <2>2, <3>1, OfferReplaced
    <3> QED BY <2>1, <3>2, RequestStopsInTurn
  <2> QED BY <2>3, <2>4
<1> QED BY <1>2, <1>3, <1>4, <1>5

\* Decisions of the owner.
LEMMA DecisionsInTurn ==
  ASSUME CutInv, OffersInTurn, RequestsInTurn, NEW q \in Requests, ReadOffer(q) \/ DecideOffer(q)
  PROVE  OffersInTurn'
<1>1. /\ OffersSound /\ OfferStill(req[q]) /\ req[q] \in Request /\ RequestSound(req[q])
      /\ req[q].op = "decideOffer" /\ req[q].pc \in {"row", "write"}
  BY OfferTypes DEF OffersInTurn, CutInv, ReadOffer, DecideOffer, At
<1>2. req[q].offer \in 1 .. Len(offers) /\ req[q].yes \in BOOLEAN
  BY <1>1 DEF RequestSound, Request
<1> PICK k \in 1 .. Len(offers) : k = req[q].offer
  BY <1>2
<1>3. CASE ReadOffer(q)
  <2>1. UNCHANGED <<offers, texts, written>>
    BY <1>3 DEF ReadOffer, notes
  <2>2. OffersSound'
    BY <1>1, <2>1, OffersStay
  <2>3. CASE Finish(q)
    BY <2>2, <2>3, RequestStopsInTurn
  <2>4. CASE ~Finish(q)
    <3>1. /\ offers[k].status = "PENDING"
          /\ req' = [req EXCEPT ![q].pc = "write", ![q].text = offers[k].text]
      BY <1>3, <2>4 DEF ReadOffer
    <3> PICK r : r = [req[q] EXCEPT !.pc = "write", !.text = offers[k].text]
      OBVIOUS
    <3>2. /\ r.pc = "write" /\ r.op = "decideOffer" /\ r.text = offers[k].text /\ r.offer = k
          /\ req' = [req EXCEPT ![q] = r]
      BY <1>1, <3>1 DEF Request
    <3>3. OfferStill(r)'
      BY <2>1, <3>1, <3>2 DEF OfferStill
    <3> QED BY <2>2, <3>2, <3>3, RequestTakesTurn
  <2> QED BY <2>3, <2>4
<1>4. CASE DecideOffer(q)
  <2>1. Finish(q) /\ UNCHANGED texts /\ req[q].pc = "write"
    BY <1>4 DEF DecideOffer, At
  <2>2. offers[k].status = "PENDING" /\ req[q].text = offers[k].text
    BY <1>1, <2>1 DEF OfferStill
  <2> PICK yes \in BOOLEAN : yes = req[q].yes
    BY <1>2
  <2>3. /\ offers' = [offers EXCEPT ![k].status = IF yes THEN "APPROVED" ELSE "REJECTED"]
        /\ written' = IF yes THEN written \cup {offers[k].text} ELSE written
    BY <1>4, <2>2 DEF DecideOffer, Put
  <2>4. OffersSound'
    BY <1>1, <2>1, <2>2, <2>3, OfferIsDecided
  <2> QED BY <2>1, <2>4, RequestStopsInTurn
<1> QED BY <1>3, <1>4

\* What is no request of a guest: no request is under way.
LEMMA OthersInTurn ==
  ASSUME CutInv, OffersInTurn, RequestsInTurn,
         \/ FriendsNext /\ UNCHANGED <<notes, req>>
         \/ /\ \/ Publish \/ Revoke
               \/ \E v \in {"PUBLIC", "AUTHORIZED"} : SetVisibility(v)
               \/ \E g \in Guests : RemoveAccess(g) \/ Later(g)
            /\ UNCHANGED <<friends, offers, entry, grant, texts, written>>
         \/ Write /\ UNCHANGED <<friends, share, access, offers, grant, req>>
         \/ /\ \E g \in Guests : RemoveGrant(g, g) \/ RemoveGrant(g, Owner)
            /\ UNCHANGED <<friends, share, access, offers, entry, texts, written>>
  PROVE  OffersInTurn'
<1>1. UNCHANGED req \/ \E lost : Lose(lost)
  BY DEF Publish, Revoke, SetVisibility, RemoveAccess, Later, RemoveGrant
<1>2. \A p \in Requests : req'[p].pc = req[p].pc
  BY <1>1, LoseKeepsPlaces
<1>3. CASE UNCHANGED <<offers, texts, written>>
  BY <1>2, <1>3, OffersStay, NobodyInTurn DEF OffersInTurn
<1>4. CASE Write /\ UNCHANGED offers
  <2> PICK t : t = texts + 1
    OBVIOUS
  <2>1. texts' = t /\ written' = written \cup {t} /\ t \in 0 .. texts' /\ texts' \in Nat
        /\ texts <= texts' /\ OffersSound
    BY <1>4, OfferTypes DEF Write, Put, OffersInTurn
  <2>2. \A i \in 1 .. Len(offers) : offers[i].text # t
    BY <2>1, OfferTypes DEF OffersSound, TextsKnown
  <2>3. OffersSound'
    BY <1>4, <2>1, <2>2, FreshIsWritten
  <2> QED BY <1>2, <2>3, NobodyInTurn
<1> QED BY <1>3, <1>4 DEF notes

LEMMA NextOffers ==
  ASSUME CutInv, calm => OffersInTurn, [Next]_vars
  PROVE  (calm => OffersInTurn)'
<1>1. CASE UNCHANGED vars
  <2>1. UNCHANGED <<calm, offers, texts, written, req>>
    BY <1>1 DEF vars, notes, friends
  <2>2. OffersSound => OffersSound'
    BY <2>1, OffersStay
  <2>3. ASSUME NEW q \in Requests, OfferStill(req[q]) PROVE OfferStill(req[q])'
    <3>1. /\ req'[q] = req[q] /\ \A t : Fresh(t) => Fresh(t)'
          /\ \A g \in Guests \cup {req[q].by} : Pending(g)' = Pending(g)
      BY <2>1 DEF Fresh, Pending
    <3> QED BY <2>1, <2>3, <3>1 DEF OfferStill
  <2> QED BY <2>1, <2>2, <2>3 DEF OffersInTurn
<1>2. CASE Next
  <2>1. calm' = calm
    BY <1>2, FriendsSteps DEF Next, FriendsNext, friends
  <2>2. calm => OffersInTurn'
    <3> SUFFICES ASSUME calm PROVE OffersInTurn'
      OBVIOUS
    <3>1. OffersInTurn /\ RequestsInTurn /\ Step
      BY <1>2 DEF Next
    <3>2. ASSUME NEW q \in Requests,
                 \/ Begin(q) \/ BeginEdit(q) \/ ReadFriends(q) \/ ReadShare(q) \/ ReadAccess(q)
                 \/ CreateShare(q) \/ WriteAccess(q) \/ Enter(q) \/ Deliver(q) \/ Apply(q)
                 \/ FindPending(q) \/ StoreOffer(q) \/ ReadOffer(q) \/ DecideOffer(q)
                 \/ ReadGrant(q) \/ WriteGrant(q) \/ Break(q)
          PROVE  OffersInTurn'
      BY <3>1, <3>2, ReadsInTurn, EditsInTurn, DecisionsInTurn
    <3> QED BY <3>1, <3>2, OthersInTurn DEF Step
  <2> QED BY <2>1, <2>2
<1> QED BY <1>1, <1>2

LEMMA InitOffers == Init => OffersInTurn
<1> SUFFICES ASSUME Init PROVE OffersInTurn
  OBVIOUS
<1>1. offers = <<>> /\ texts = 0 /\ written = {0} /\ \A q \in Requests : req[q].pc = "idle"
  BY DEF Init, Idle
<1>2. \A q \in Requests : OfferStill(req[q])
  BY <1>1 DEF OfferStill
<1>3. OffersSound
  BY <1>1 DEF OffersSound, OffersApart, TextsKnown, OffersDone
<1> QED BY <1>2, <1>3 DEF OffersInTurn

\* "decideProposal", "requestTo", "block": of two friends each did something for
\* it in any behaviour; and where one request follows the other, there is one row
\* between two people, none beside a block, and the text of a proposal is in the
\* note if and only if it was approved, of which each guest has one that waits.
THEOREM SharingIsSound == Spec => []SharingSound
<1>1. Spec => []CutInv
  <2>1. CutInv /\ [Next]_vars => CutInv'
    BY NextCutInv
  <2> QED BY InitCutInv, <2>1, PTL DEF Spec
<1>2. Spec => [](calm => OffersInTurn)
  <2>1. CutInv /\ (calm => OffersInTurn) /\ [Next]_vars => (calm => OffersInTurn)'
    BY NextOffers
  <2> QED BY <1>1, <2>1, InitOffers, PTL DEF Spec
<1>3. Spec => []FriendsAgreed /\ [](calm => OneTie /\ BlockCuts)
  BY NotebookLeavesFriends, TiesInTurn, PTL
<1>4. /\ CutInv /\ (calm => OffersInTurn) /\ FriendsAgreed /\ (calm => OneTie /\ BlockCuts)
      => SharingSound
  BY OffersFromInv DEF SharingSound, OffersInTurn
<1> QED BY <1>1, <1>2, <1>3, <1>4, PTL

-----------------------------------------------------------------------------
(***************************************************************************)
(* The class groups, which share nothing with the notebook but the people. *)
(***************************************************************************)

HIDE FriendshipsAssumption
HIDE NoRowAssumption
HIDE NoAccessAssumption
USE TurmasAssumption

\* What a request carries when it gets to a statement.
CarriesWhom(q) ==
  /\ q.pc # "idle" => q.user \in Users
  /\ q.pc \in {"putInvite", "remove", "handover", "promote"} => q.target \in Users
  /\ q.pc \in {"handover", "promote"} => q.seen > 0

\* Members have an account, and there are none without a class.
ClassTypes ==
  /\ TypeOK
  /\ Members \subseteq accounts
  /\ Members # {} => state = "there"
  /\ \A r \in TurmaRequests : CarriesWhom(going[r])

\* The class while q is the only request under way, or NoRequest if none is.
\* Who runs it, as long as no deletion of an account broke off:
Run(q) ==
  ~aborted /\ state = "there" =>
    IF q.pc = "erase" THEN \E d \in Users : d # q.user /\ delegates \ {q.user} = {d}
    ELSE \E d \in Users : delegates = {d}
Charged(q) ==
  /\ q.pc \in {"count", "handover"} => q.op # "close"
  /\ q.pc = "successor" => q.op = "close"
  /\ q.pc = "erase" => q.op = "close" /\ (q.led \/ q.user \notin delegates)
  /\ q.pc \in {"others", "successor"} => (q.led <=> q.user \in delegates)
  /\ q.pc = "remove" => aborted \/ q.target \notin delegates
  /\ q.pc = "handover" => q.user \in delegates /\ q.target # q.user
  /\ q.pc = "promote" =>
       /\ q.target \in Members /\ q.seen = row[q.target]
       /\ IF q.op = "close" THEN q.led /\ q.target # q.user /\ (aborted \/ delegates = {q.user})
          ELSE delegates = {}
\* what is shared, and the files in the storage:
Kept(q) ==
  /\ \A c \in content : c.kind = "owned" => c.by \in Members /\ c.path = Nobody
  /\ q.pc \in {"upload", "put"} => q.user \in Members
  /\ q.pc = "upload" => q.kind = "file"
  /\ q.pc = "put" /\ q.kind = "owned" => q.path = Nobody
  /\ \A f \in stored \cap listed : \E c \in content : c.path = f
  /\ q.pc = "delete" => stored \cap listed = {}
Orderly(q) == Run(q) /\ Charged(q) /\ Kept(q)

OneRequest == \A r, s \in TurmaRequests : r # s => going[r] = NoRequest \/ going[s] = NoRequest
Serial ==
  serial =>
    /\ OneRequest
    /\ AllIdle => Orderly(NoRequest)
    /\ \A r \in TurmaRequests : going[r] # NoRequest => Orderly(going[r])
TurmaInv == ClassTypes /\ Serial

-----------------------------------------------------------------------------
LEMMA NoTurmaRequest ==
  /\ NoRequest \in TurmaRequest /\ CarriesWhom(NoRequest)
  /\ NoRequest.pc = "idle" /\ NoRequest.op = "none"
BY DEF NoRequest, TurmaRequest, CarriesWhom, Kinds

\* A request that starts, goes on or ends leaves the others alone.
LEMMA TurmaGoes ==
  ASSUME ClassTypes, NEW r \in TurmaRequests, NEW q \in TurmaRequest, CarriesWhom(q),
         going' = [going EXCEPT ![r] = q]
  PROVE  /\ going' \in [TurmaRequests -> TurmaRequest]
         /\ \A s \in TurmaRequests : CarriesWhom(going'[s])
BY DEF ClassTypes, TypeOK

\* So does one that starts when none is under way: the class is as it was.
LEMMA TurmaBegins ==
  ASSUME TurmaInv, NEW r \in TurmaRequests, NEW q \in TurmaRequest, CarriesWhom(q),
         going[r] = NoRequest, serial => AllIdle,
         serial /\ Orderly(NoRequest) => Orderly(q),
         going' = [going EXCEPT ![r] = q],
         UNCHANGED <<state, row, joins, delegates, invites, content, stored, listed,
                     accounts, aborted, serial>>
  PROVE  TurmaInv'
<1>1. /\ going' \in [TurmaRequests -> TurmaRequest]
      /\ \A s \in TurmaRequests : CarriesWhom(going'[s])
  BY TurmaGoes DEF TurmaInv
<1>2. ClassTypes'
  BY <1>1 DEF TurmaInv, ClassTypes, TypeOK, Members, CarriesWhom
<1>3. Orderly(q)' <=> Orderly(q)
  BY DEF Orderly, Run, Charged, Kept, Members
<1>4. Orderly(NoRequest)' <=> Orderly(NoRequest)
  BY DEF Orderly, Run, Charged, Kept, Members
<1>5. ASSUME serial  PROVE Orderly(NoRequest) /\ \A s \in TurmaRequests : going[s] = NoRequest
  BY <1>5 DEF TurmaInv, Serial, AllIdle
<1>6. ASSUME serial  PROVE \A s \in TurmaRequests : going'[s] = IF s = r THEN q ELSE NoRequest
  BY <1>5, <1>6 DEF TurmaInv, ClassTypes, TypeOK
<1>7. Serial'
  <2> SUFFICES ASSUME serial  PROVE OneRequest' /\ Orderly(NoRequest)' /\ Orderly(q)' /\
                                   \A s \in TurmaRequests : (going[s] # NoRequest => Orderly(going[s]))'
    BY DEF Serial, AllIdle
  <2>1. OneRequest'
    BY <1>6 DEF OneRequest
  <2>2. Orderly(NoRequest)' /\ Orderly(q)'
    BY <1>3, <1>4, <1>5
  <2>3. ASSUME NEW s \in TurmaRequests, going'[s] # NoRequest  PROVE Orderly(going[s])'
    <3>1. going'[s] = q
      BY <2>3, <1>6
    <3>2. Orderly(going[s])' <=> Orderly(q)'
      BY <3>1 DEF Orderly, Run, Charged, Kept, Members
    <3> QED BY <2>2, <3>2
  <2> QED BY <2>1, <2>2, <2>3
<1> QED BY <1>2, <1>7 DEF TurmaInv

\* What a request has taken down when it starts.
LEMMA TurmaTo ==
  ASSUME NEW pc \in {"enter", "dropInvite", "putInvite", "others", "storage", "remove", "handover",
                     "count", "upload", "put", "successor", "erase"}
  PROVE  To(pc) \in TurmaRequest /\ To(pc).pc = pc /\ To(pc).path = Nobody
BY DEF To, NoRequest, TurmaRequest, Kinds

TurmaStarted(r, u, op, p, q) ==
  /\ going' = [going EXCEPT ![r] = q]
  /\ q.op = op /\ q.user = u /\ q.pc = p.pc /\ q.target = p.target /\ q.led = p.led
  /\ q.seen = p.seen /\ q.kind = p.kind /\ q.path = p.path
  /\ CarriesWhom(q) /\ (serial /\ Orderly(NoRequest) => Orderly(q)) => TurmaInv'
LEMMA TurmaStarts ==
  ASSUME TurmaInv, NEW r \in TurmaRequests, NEW u \in Users, NEW op \in Operations,
         NEW p \in TurmaRequest, p.pc # "idle", Start(r, u, op, p)
  PROVE  \E q \in TurmaRequest : TurmaStarted(r, u, op, p, q)
<1>1. PICK q : q = [p EXCEPT !.op = op, !.user = u]  OBVIOUS
<1>2. /\ q \in TurmaRequest
      /\ q.op = op /\ q.user = u /\ q.pc = p.pc /\ q.target = p.target /\ q.led = p.led
      /\ q.seen = p.seen /\ q.kind = p.kind /\ q.path = p.path
  BY <1>1 DEF TurmaRequest
<1>3. going' = [going EXCEPT ![r] = q]
  BY <1>1 DEF Start
<1>4. /\ going[r] = NoRequest /\ (serial => AllIdle)
      /\ UNCHANGED <<state, row, joins, delegates, invites, content, stored, listed,
                     accounts, aborted, serial>>
  BY DEF Start, shared, files
<1>5. ASSUME CarriesWhom(q), serial /\ Orderly(NoRequest) => Orderly(q)  PROVE TurmaInv'
  BY <1>2, <1>3, <1>4, <1>5, TurmaBegins
<1> QED BY <1>2, <1>3, <1>5 DEF TurmaStarted

LEMMA TurmaAsked ==
  ASSUME TurmaInv, NEW r \in TurmaRequests, NEW u \in Users, Ask(r, u)
  PROVE  TurmaInv'
<1> USE DEF Operations
<1>0. /\ delegates \subseteq Members /\ Members \subseteq Users
      /\ \A t \in Users : row[t] \in Nat
      /\ Members # {} => state = "there"
  BY DEF TurmaInv, ClassTypes, TypeOK, Members
<1>00. Orderly(NoRequest) => Run(NoRequest) /\ Kept(NoRequest)
  BY DEF Orderly
<1>1. CASE Join(r, u)
  <2>1. PICK p : p = To("enter")  OBVIOUS
  <2>2. p \in TurmaRequest /\ p.pc = "enter" /\ Start(r, u, "join", p)
    BY <2>1, <1>1, TurmaTo DEF Join
  <2>3. PICK q \in TurmaRequest : TurmaStarted(r, u, "join", p, q)
    BY <2>2, TurmaStarts
  <2>4. CarriesWhom(q)
    BY <2>2, <2>3 DEF CarriesWhom, TurmaStarted
  <2>5. ASSUME Orderly(NoRequest)  PROVE Orderly(q)
    BY <2>2, <2>3, <2>5, NoTurmaRequest DEF Orderly, Run, Charged, Kept, TurmaStarted
  <2> QED BY <2>3, <2>4, <2>5 DEF TurmaStarted
<1>2. CASE AcceptInvite(r, u)
  <2>1. PICK p : p = To(IF u \in Members THEN "dropInvite" ELSE "enter")  OBVIOUS
  <2>2. p \in TurmaRequest /\ p.pc \in {"dropInvite", "enter"} /\ Start(r, u, "accept", p)
    BY <2>1, <1>2, TurmaTo DEF AcceptInvite
  <2>3. PICK q \in TurmaRequest : TurmaStarted(r, u, "accept", p, q)
    BY <2>2, TurmaStarts
  <2>4. CarriesWhom(q)
    BY <2>2, <2>3 DEF CarriesWhom, TurmaStarted
  <2>5. ASSUME Orderly(NoRequest)  PROVE Orderly(q)
    BY <2>2, <2>3, <2>5, NoTurmaRequest DEF Orderly, Run, Charged, Kept, TurmaStarted
  <2> QED BY <2>3, <2>4, <2>5 DEF TurmaStarted
<1>3. CASE Leave(r, u)
  <2>1. PICK b \in BOOLEAN : b = (u \in delegates)
    <3>1. (u \in delegates) \in BOOLEAN  OBVIOUS
    <3> QED BY <3>1, Zenon
  <2>2. PICK x : x = To("others")  OBVIOUS
  <2>3. PICK p : p = [x EXCEPT !.led = b]  OBVIOUS
  <2>4. p \in TurmaRequest /\ p.pc = "others" /\ p.led = b
    BY <2>2, <2>3, TurmaTo DEF TurmaRequest
  <2>5. Start(r, u, "leave", p)
    BY <2>1, <2>2, <2>3, <1>3 DEF Leave
  <2>6. PICK q \in TurmaRequest : TurmaStarted(r, u, "leave", p, q)
    BY <2>4, <2>5, TurmaStarts
  <2>7. CarriesWhom(q)
    BY <2>4, <2>6, <1>3 DEF CarriesWhom, TurmaStarted, Leave
  <2>8. ASSUME Orderly(NoRequest)  PROVE Orderly(q)
    <3>1. Run(q)
      BY <2>1, <2>4, <2>6, <2>8, <1>0, <1>3, NoTurmaRequest DEF Orderly, Run, TurmaStarted, Leave
    <3>2. Charged(q)
      BY <2>1, <2>4, <2>6, <2>8, <1>0, <1>3, NoTurmaRequest DEF Orderly, Run, Charged,
         TurmaStarted, Leave
    <3>3. Kept(q)
      BY <2>1, <2>4, <2>6, <2>8, <1>0, <1>3, NoTurmaRequest DEF Orderly, Kept, TurmaStarted,
         Leave, Kinds
    <3> QED BY <3>1, <3>2, <3>3 DEF Orderly
  <2> QED BY <2>6, <2>7, <2>8 DEF TurmaStarted
<1>4. CASE Delete(r, u)
  <2>1. PICK p : p = To("storage")  OBVIOUS
  <2>2. p \in TurmaRequest /\ p.pc = "storage" /\ Start(r, u, "delete", p)
    BY <2>1, <1>4, TurmaTo DEF Delete
  <2>3. PICK q \in TurmaRequest : TurmaStarted(r, u, "delete", p, q)
    BY <2>2, TurmaStarts
  <2>4. CarriesWhom(q)
    BY <2>2, <2>3 DEF CarriesWhom, TurmaStarted
  <2>5. ASSUME Orderly(NoRequest)  PROVE Orderly(q)
    BY <2>2, <2>3, <2>5, NoTurmaRequest DEF Orderly, Run, Charged, Kept, TurmaStarted
  <2> QED BY <2>3, <2>4, <2>5 DEF TurmaStarted
<1>5. CASE Get(r, u)
  <2>1. PICK p : p = To("count")  OBVIOUS
  <2>2. p \in TurmaRequest /\ p.pc = "count" /\ Start(r, u, "get", p)
    BY <2>1, <1>5, TurmaTo DEF Get
  <2>3. PICK q \in TurmaRequest : TurmaStarted(r, u, "get", p, q)
    BY <2>2, TurmaStarts
  <2>4. CarriesWhom(q)
    BY <2>2, <2>3 DEF CarriesWhom, TurmaStarted
  <2>5. ASSUME Orderly(NoRequest)  PROVE Orderly(q)
    BY <2>2, <2>3, <2>5, NoTurmaRequest DEF Orderly, Run, Charged, Kept, TurmaStarted
  <2> QED BY <2>3, <2>4, <2>5 DEF TurmaStarted
<1>6. CASE Close(r, u)
  <2>1. PICK b \in BOOLEAN : b = (u \in delegates)
    <3>1. (u \in delegates) \in BOOLEAN  OBVIOUS
    <3> QED BY <3>1, Zenon
  <2>2. PICK x : x = To(IF u \in Members THEN "successor" ELSE "erase")  OBVIOUS
  <2>3. PICK p : p = [x EXCEPT !.led = b]  OBVIOUS
  <2>4. p \in TurmaRequest /\ p.pc = (IF u \in Members THEN "successor" ELSE "erase") /\ p.led = b
    BY <2>2, <2>3, TurmaTo DEF TurmaRequest
  <2>5. Start(r, u, "close", p)
    BY <2>1, <2>2, <2>3, <1>6 DEF Close
  <2>6. PICK q \in TurmaRequest : TurmaStarted(r, u, "close", p, q)
    BY <2>4, <2>5, TurmaStarts
  <2>7. CarriesWhom(q)
    BY <2>4, <2>6, <1>6 DEF CarriesWhom, TurmaStarted, Close
  <2>8. ASSUME Orderly(NoRequest)  PROVE Orderly(q)
    <3>1. Run(q)
      BY <2>1, <2>4, <2>6, <2>8, <1>0, <1>6, NoTurmaRequest DEF Orderly, Run, TurmaStarted, Close
    <3>2. Charged(q)
      BY <2>1, <2>4, <2>6, <2>8, <1>0, <1>6, NoTurmaRequest DEF Orderly, Run, Charged,
         TurmaStarted, Close
    <3>3. Kept(q)
      BY <2>1, <2>4, <2>6, <2>8, <1>0, <1>6, NoTurmaRequest DEF Orderly, Kept, TurmaStarted,
         Close, Kinds
    <3> QED BY <3>1, <3>2, <3>3 DEF Orderly
  <2> QED BY <2>6, <2>7, <2>8 DEF TurmaStarted
<1>7. ASSUME NEW t \in Users, Invite(r, u, t)  PROVE TurmaInv'
  <2>2. PICK x : x = To("putInvite")  OBVIOUS
  <2>3. PICK p : p = [x EXCEPT !.target = t]  OBVIOUS
  <2>4. p \in TurmaRequest /\ p.pc = "putInvite" /\ p.target = t
    BY <2>2, <2>3, <1>7, TurmaTo DEF TurmaRequest
  <2>5. Start(r, u, "invite", p)
    BY <2>2, <2>3, <1>7 DEF Invite
  <2>6. PICK q \in TurmaRequest : TurmaStarted(r, u, "invite", p, q)
    BY <2>4, <2>5, TurmaStarts
  <2>7. CarriesWhom(q)
    BY <2>4, <2>6, <1>7, <1>7 DEF CarriesWhom, TurmaStarted, Invite
  <2>8. ASSUME Orderly(NoRequest)  PROVE Orderly(q)
    <3>1. Run(q)
      BY <2>4, <2>6, <2>8, <1>0, <1>7, NoTurmaRequest DEF Orderly, Run, TurmaStarted, Invite
    <3>2. Charged(q)
      BY <2>4, <2>6, <2>8, <1>0, <1>7, NoTurmaRequest DEF Orderly, Run, Charged, TurmaStarted,
         Invite
    <3>3. Kept(q)
      BY <2>4, <2>6, <2>8, <1>0, <1>7, NoTurmaRequest DEF Orderly, Kept, TurmaStarted, Invite, Kinds
    <3> QED BY <3>1, <3>2, <3>3 DEF Orderly
  <2> QED BY <2>6, <2>7, <2>8 DEF TurmaStarted
<1>8. ASSUME NEW t \in Users, Kick(r, u, t)  PROVE TurmaInv'
  <2>2. PICK x : x = To("remove")  OBVIOUS
  <2>3. PICK p : p = [x EXCEPT !.target = t]  OBVIOUS
  <2>4. p \in TurmaRequest /\ p.pc = "remove" /\ p.target = t
    BY <2>2, <2>3, <1>8, TurmaTo DEF TurmaRequest
  <2>5. Start(r, u, "kick", p)
    BY <2>2, <2>3, <1>8 DEF Kick
  <2>6. PICK q \in TurmaRequest : TurmaStarted(r, u, "kick", p, q)
    BY <2>4, <2>5, TurmaStarts
  <2>7. CarriesWhom(q)
    BY <2>4, <2>6, <1>8, <1>8 DEF CarriesWhom, TurmaStarted, Kick
  <2>8. ASSUME Orderly(NoRequest)  PROVE Orderly(q)
    <3>1. Run(q)
      BY <2>4, <2>6, <2>8, <1>0, <1>8, NoTurmaRequest DEF Orderly, Run, TurmaStarted, Kick
    <3>2. Charged(q)
      BY <2>4, <2>6, <2>8, <1>0, <1>8, NoTurmaRequest DEF Orderly, Run, Charged, TurmaStarted, Kick
    <3>3. Kept(q)
      BY <2>4, <2>6, <2>8, <1>0, <1>8, NoTurmaRequest DEF Orderly, Kept, TurmaStarted, Kick, Kinds
    <3> QED BY <3>1, <3>2, <3>3 DEF Orderly
  <2> QED BY <2>6, <2>7, <2>8 DEF TurmaStarted
<1>9. ASSUME NEW t \in Users, Transfer(r, u, t)  PROVE TurmaInv'
  <2>1. PICK n \in Nat : n = row[t] /\ n > 0
    BY <1>0, <1>9 DEF Transfer, Members
  <2>2. PICK x : x = To("handover")  OBVIOUS
  <2>3. PICK p : p = [x EXCEPT !.target = t, !.seen = n]  OBVIOUS
  <2>4. p \in TurmaRequest /\ p.pc = "handover" /\ p.target = t /\ p.seen = row[t]
    <3>1. x \in TurmaRequest /\ x.pc = "handover"
      BY <2>2, TurmaTo
    <3>2. p \in TurmaRequest
      BY <2>1, <2>3, <3>1 DEF TurmaRequest
    <3>3. p.pc = "handover" /\ p.target = t /\ p.seen = row[t]
      BY <2>1, <2>3, <3>1 DEF TurmaRequest
    <3> QED BY <3>2, <3>3
  <2>5. Start(r, u, "transfer", p)
    BY <2>1, <2>2, <2>3, <1>9 DEF Transfer
  <2>6. PICK q \in TurmaRequest : TurmaStarted(r, u, "transfer", p, q)
    BY <2>4, <2>5, TurmaStarts
  <2>7. CarriesWhom(q)
    BY <2>4, <2>6, <2>1, <1>9 DEF CarriesWhom, TurmaStarted, Transfer
  <2>8. ASSUME Orderly(NoRequest)  PROVE Orderly(q)
    <3>1. Run(q)
      BY <2>1, <2>4, <2>6, <2>8, <1>0, <1>9, NoTurmaRequest DEF Orderly, Run, TurmaStarted, Transfer
    <3>2. Charged(q)
      BY <2>1, <2>4, <2>6, <2>8, <1>0, <1>9, NoTurmaRequest DEF Orderly, Run, Charged,
         TurmaStarted, Transfer
    <3>3. Kept(q)
      BY <2>1, <2>4, <2>6, <2>8, <1>0, <1>9, NoTurmaRequest DEF Orderly, Kept, TurmaStarted,
         Transfer, Kinds
    <3> QED BY <3>1, <3>2, <3>3 DEF Orderly
  <2> QED BY <2>6, <2>7, <2>8 DEF TurmaStarted
<1>10. ASSUME NEW k \in Kinds, Share(r, u, k)  PROVE TurmaInv'
  <2>2. PICK x : x = To(IF k = "file" THEN "upload" ELSE "put")  OBVIOUS
  <2>3. PICK p : p = [x EXCEPT !.kind = k]  OBVIOUS
  <2>4. p \in TurmaRequest /\ p.pc = (IF k = "file" THEN "upload" ELSE "put") /\ p.kind = k
        /\ p.path = Nobody
    BY <2>2, <2>3, <1>10, TurmaTo DEF TurmaRequest
  <2>5. Start(r, u, "share", p)
    BY <2>2, <2>3, <1>10 DEF Share
  <2>6. PICK q \in TurmaRequest : TurmaStarted(r, u, "share", p, q)
    BY <2>4, <2>5, TurmaStarts
  <2>7. CarriesWhom(q)
    BY <2>4, <2>6, <1>10, <1>10 DEF CarriesWhom, TurmaStarted, Share
  <2>8. ASSUME Orderly(NoRequest)  PROVE Orderly(q)
    <3>1. Run(q)
      BY <2>4, <2>6, <2>8, <1>0, <1>10, NoTurmaRequest DEF Orderly, Run, TurmaStarted, Share
    <3>2. Charged(q)
      BY <2>4, <2>6, <2>8, <1>0, <1>10, NoTurmaRequest DEF Orderly, Run, Charged, TurmaStarted,
         Share
    <3>3. Kept(q)
      BY <2>4, <2>6, <2>8, <1>0, <1>10, NoTurmaRequest DEF Orderly, Kept, TurmaStarted, Share, Kinds
    <3> QED BY <3>1, <3>2, <3>3 DEF Orderly
  <2> QED BY <2>6, <2>7, <2>8 DEF TurmaStarted
<1> QED BY <1>1, <1>2, <1>3, <1>4, <1>5, <1>6, <1>7, <1>8, <1>9, <1>10 DEF Ask

-----------------------------------------------------------------------------
(* Going on.                                                               *)

\* The rows of a class, without the requests.
ClassSound ==
  /\ state \in {"none", "there", "deleted"}
  /\ row \in [Users -> Nat] /\ joins \in Nat
  /\ delegates \subseteq Members /\ invites \subseteq Users
  /\ content \subseteq Content /\ stored \subseteq Paths /\ listed \subseteq Paths
  /\ accounts \subseteq Users /\ aborted \in BOOLEAN /\ serial \in BOOLEAN
  /\ Members \subseteq accounts
  /\ Members # {} => state = "there"

LEMMA ClassTypesSplit ==
  ClassTypes <=> /\ ClassSound
                 /\ going \in [TurmaRequests -> TurmaRequest]
                 /\ \A r \in TurmaRequests : CarriesWhom(going[r])
BY DEF ClassTypes, ClassSound, TypeOK

LEMMA TurmaGoesOn ==
  ASSUME TurmaInv, NEW r \in TurmaRequests, NEW q \in TurmaRequest, CarriesWhom(q),
         going[r].pc # "idle", going' = [going EXCEPT ![r] = q], serial' = serial, ClassSound',
         serial /\ Orderly(going[r]) => Orderly(q)'
  PROVE  TurmaInv'
<1>1. going \in [TurmaRequests -> TurmaRequest]
  BY DEF TurmaInv, ClassTypes, TypeOK
<1>2. ClassTypes'
  <2>1. /\ going' \in [TurmaRequests -> TurmaRequest]
        /\ \A s \in TurmaRequests : CarriesWhom(going'[s])
    BY TurmaGoes DEF TurmaInv
  <2> QED BY <2>1 DEF ClassTypes, ClassSound, TypeOK, Members
<1>3. going[r] # NoRequest
  BY NoTurmaRequest
<1>4. ASSUME serial  PROVE \A s \in TurmaRequests : going'[s] = IF s = r THEN q ELSE NoRequest
  BY <1>1, <1>3, <1>4 DEF TurmaInv, Serial, OneRequest
<1>5. Serial'
  <2> SUFFICES ASSUME serial
               PROVE  /\ OneRequest' /\ (AllIdle => Orderly(NoRequest))'
                      /\ \A s \in TurmaRequests : (going[s] # NoRequest => Orderly(going[s]))'
    BY DEF Serial
  <2>0. Orderly(q)'
    BY <1>3 DEF TurmaInv, Serial
  <2>1. OneRequest'
    BY <1>4 DEF OneRequest
  <2>2. ASSUME AllIdle'  PROVE Orderly(NoRequest)'
    <3>1. q = NoRequest
      BY <2>2, <1>4 DEF AllIdle
    <3> QED BY <2>0, <3>1
  <2>3. ASSUME NEW s \in TurmaRequests, going'[s] # NoRequest  PROVE Orderly(going[s])'
    <3>1. going'[s] = q
      BY <2>3, <1>4
    <3>2. Orderly(going[s])' <=> Orderly(q)'
      BY <3>1 DEF Orderly, Run, Charged, Kept, Members
    <3> QED BY <2>0, <3>2
  <2> QED BY <2>1, <2>2, <2>3
<1> QED BY <1>2, <1>5 DEF TurmaInv

LEMMA TurmaBetween ==
  ASSUME TurmaInv, Free, UNCHANGED <<going, serial>>, ClassSound',
         serial /\ Orderly(NoRequest) => Orderly(NoRequest)'
  PROVE  TurmaInv'
<1>1. ClassTypes'
  <2>1. going' \in [TurmaRequests -> TurmaRequest]
        /\ \A s \in TurmaRequests : CarriesWhom(going'[s])
    BY DEF TurmaInv, ClassTypes, TypeOK
  <2> QED BY <2>1 DEF ClassTypes, ClassSound, TypeOK, Members
<1>2. Serial'
  BY DEF TurmaInv, Serial, Free, AllIdle, OneRequest
<1> QED BY <1>1, <1>2 DEF TurmaInv

\* What is known of a request when its step comes.
LEMMA TurmaRuns ==
  ASSUME TurmaInv, NEW r \in TurmaRequests, going[r].pc # "idle"
  PROVE  /\ ClassSound /\ going[r] \in TurmaRequest /\ CarriesWhom(going[r])
         /\ going[r].user \in Users /\ going[r].seen \in Nat
         /\ serial => Orderly(going[r])
<1>1. going[r] # NoRequest
  BY NoTurmaRequest
<1> QED BY <1>1, ClassTypesSplit DEF TurmaInv, Serial, CarriesWhom, TurmaRequest

LEMMA TurmaClassSame ==
  ASSUME NEW q,
         UNCHANGED <<state, row, joins, delegates, invites, content, stored, listed,
                     accounts, aborted, serial>>
  PROVE  Orderly(q)' <=> Orderly(q)
BY DEF Orderly, Run, Charged, Kept, Members

LEMMA TurmaContinued ==
  ASSUME TurmaInv, NEW r \in TurmaRequests, Continue(r)
  PROVE  TurmaInv'
<1>1. CASE EnterTurma(r)
  <2>0. /\ ClassSound /\ going[r] \in TurmaRequest /\ CarriesWhom(going[r])
        /\ going[r].user \in Users /\ going[r].seen \in Nat /\ going[r].pc # "idle"
        /\ serial => Orderly(going[r])
    BY <1>1, TurmaRuns DEF EnterTurma, Stands
  <2>1. ClassSound' /\ serial' = serial
    BY <2>0, <1>1 DEF EnterTurma, ClassSound, Members, Go, End, shared, files, Stands, CarriesWhom
  <2>2. CASE going' = [going EXCEPT ![r] = NoRequest]
    <3>1. PICK q : q = NoRequest  OBVIOUS
    <3>2. q \in TurmaRequest /\ CarriesWhom(q) /\ q.pc = "idle"
      BY <2>0, <3>1, <1>1, NoTurmaRequest DEF TurmaRequest, CarriesWhom, EnterTurma, Stands
    <3>3. ASSUME serial, Orderly(going[r])  PROVE Orderly(q)'
      <4>1. Run(q)'
        BY <2>0, <2>1, <3>2, <3>3, <1>1, <2>2 DEF Orderly, Run, Charged, Kept, ClassSound,
           Members, EnterTurma, Stands, shared, files
      <4>2. Charged(q)'
        BY <2>0, <2>1, <3>2, <3>3, <1>1, <2>2 DEF Orderly, Run, Charged, ClassSound, Members,
           EnterTurma, Stands, shared, files
      <4>3. Kept(q)'
        BY <2>0, <2>1, <3>2, <3>3, <1>1, <2>2 DEF Orderly, Kept, ClassSound, Members, EnterTurma,
           Stands, shared, files, Content, Kinds
      <4> QED BY <4>1, <4>2, <4>3 DEF Orderly
    <3> QED BY <2>0, <2>1, <2>2, <3>1, <3>2, <3>3, TurmaGoesOn
  <2>3. CASE going' = [going EXCEPT ![r] = [going[r] EXCEPT !.pc = "dropInvite"]]
    <3>1. PICK q : q = [going[r] EXCEPT !.pc = "dropInvite"]  OBVIOUS
    <3>2. q \in TurmaRequest /\ CarriesWhom(q) /\ q.pc = "dropInvite" /\ q.user = going[r].user
          /\ q.op = going[r].op /\ q.kind = going[r].kind /\ q.led = going[r].led
      BY <2>0, <3>1, <1>1, NoTurmaRequest DEF TurmaRequest, CarriesWhom, EnterTurma, Stands
    <3>3. ASSUME serial, Orderly(going[r])  PROVE Orderly(q)'
      <4>1. Run(q)'
        BY <2>0, <2>1, <3>2, <3>3, <1>1, <2>3 DEF Orderly, Run, Charged, Kept, ClassSound,
           Members, EnterTurma, Stands, shared, files
      <4>2. Charged(q)'
        BY <2>0, <2>1, <3>2, <3>3, <1>1, <2>3 DEF Orderly, Run, Charged, ClassSound, Members,
           EnterTurma, Stands, shared, files
      <4>3. Kept(q)'
        BY <2>0, <2>1, <3>2, <3>3, <1>1, <2>3 DEF Orderly, Kept, ClassSound, Members, EnterTurma,
           Stands, shared, files, Content, Kinds
      <4> QED BY <4>1, <4>2, <4>3 DEF Orderly
    <3> QED BY <2>0, <2>1, <2>3, <3>1, <3>2, <3>3, TurmaGoesOn
  <2> QED BY <2>2, <2>3, <1>1 DEF EnterTurma, Go, End
<1>2. CASE DropInvite(r)
  <2>0. /\ ClassSound /\ going[r] \in TurmaRequest /\ CarriesWhom(going[r])
        /\ going[r].user \in Users /\ going[r].seen \in Nat /\ going[r].pc # "idle"
        /\ serial => Orderly(going[r])
    BY <1>2, TurmaRuns DEF DropInvite, Stands
  <2>1. ClassSound' /\ serial' = serial
    BY <2>0, <1>2 DEF DropInvite, ClassSound, Members, Go, End, shared, files, Stands, CarriesWhom
  <2>2. CASE going' = [going EXCEPT ![r] = NoRequest]
    <3>1. PICK q : q = NoRequest  OBVIOUS
    <3>2. q \in TurmaRequest /\ CarriesWhom(q) /\ q.pc = "idle"
      BY <2>0, <3>1, <1>2, NoTurmaRequest DEF TurmaRequest, CarriesWhom, DropInvite, Stands
    <3>3. ASSUME serial, Orderly(going[r])  PROVE Orderly(q)'
      <4>1. Run(q)'
        BY <2>0, <2>1, <3>2, <3>3, <1>2, <2>2 DEF Orderly, Run, Charged, Kept, ClassSound,
           Members, DropInvite, Stands, shared, files
      <4>2. Charged(q)'
        BY <2>0, <2>1, <3>2, <3>3, <1>2, <2>2 DEF Orderly, Run, Charged, ClassSound, Members,
           DropInvite, Stands, shared, files
      <4>3. Kept(q)'
        BY <2>0, <2>1, <3>2, <3>3, <1>2, <2>2 DEF Orderly, Kept, ClassSound, Members, DropInvite,
           Stands, shared, files, Content, Kinds
      <4> QED BY <4>1, <4>2, <4>3 DEF Orderly
    <3> QED BY <2>0, <2>1, <2>2, <3>1, <3>2, <3>3, TurmaGoesOn
  <2> QED BY <2>2, <1>2 DEF DropInvite, Go, End
<1>3. CASE PutInvite(r)
  <2>0. /\ ClassSound /\ going[r] \in TurmaRequest /\ CarriesWhom(going[r])
        /\ going[r].user \in Users /\ going[r].seen \in Nat /\ going[r].pc # "idle"
        /\ serial => Orderly(going[r])
    BY <1>3, TurmaRuns DEF PutInvite, Stands
  <2>1. ClassSound' /\ serial' = serial
    BY <2>0, <1>3 DEF PutInvite, ClassSound, Members, Go, End, shared, files, Stands, CarriesWhom
  <2>2. CASE going' = [going EXCEPT ![r] = NoRequest]
    <3>1. PICK q : q = NoRequest  OBVIOUS
    <3>2. q \in TurmaRequest /\ CarriesWhom(q) /\ q.pc = "idle"
      BY <2>0, <3>1, <1>3, NoTurmaRequest DEF TurmaRequest, CarriesWhom, PutInvite, Stands
    <3>3. ASSUME serial, Orderly(going[r])  PROVE Orderly(q)'
      <4>1. Run(q)'
        BY <2>0, <2>1, <3>2, <3>3, <1>3, <2>2 DEF Orderly, Run, Charged, Kept, ClassSound,
           Members, PutInvite, Stands, shared, files
      <4>2. Charged(q)'
        BY <2>0, <2>1, <3>2, <3>3, <1>3, <2>2 DEF Orderly, Run, Charged, ClassSound, Members,
           PutInvite, Stands, shared, files
      <4>3. Kept(q)'
        BY <2>0, <2>1, <3>2, <3>3, <1>3, <2>2 DEF Orderly, Kept, ClassSound, Members, PutInvite,
           Stands, shared, files, Content, Kinds
      <4> QED BY <4>1, <4>2, <4>3 DEF Orderly
    <3> QED BY <2>0, <2>1, <2>2, <3>1, <3>2, <3>3, TurmaGoesOn
  <2> QED BY <2>2, <1>3 DEF PutInvite, Go, End
<1>4. CASE CountOthers(r)
  <2>0. /\ ClassSound /\ going[r] \in TurmaRequest /\ CarriesWhom(going[r])
        /\ going[r].user \in Users /\ going[r].seen \in Nat /\ going[r].pc # "idle"
        /\ serial => Orderly(going[r])
    BY <1>4, TurmaRuns DEF CountOthers, Stands
  <2>1. ClassSound' /\ serial' = serial
    BY <2>0, <1>4 DEF CountOthers, ClassSound, Members, Go, End, shared, files, Stands, CarriesWhom
  <2>2. CASE going' = [going EXCEPT ![r] = NoRequest]
    <3>1. PICK q : q = NoRequest  OBVIOUS
    <3>2. q \in TurmaRequest /\ CarriesWhom(q) /\ q.pc = "idle"
      BY <2>0, <3>1, <1>4, NoTurmaRequest DEF TurmaRequest, CarriesWhom, CountOthers, Stands
    <3>3. ASSUME serial, Orderly(going[r])  PROVE Orderly(q)'
      <4>1. Run(q)'
        BY <2>0, <2>1, <3>2, <3>3, <1>4, <2>2 DEF Orderly, Run, Charged, Kept, ClassSound,
           Members, CountOthers, Stands, shared, files
      <4>2. Charged(q)'
        BY <2>0, <2>1, <3>2, <3>3, <1>4, <2>2 DEF Orderly, Run, Charged, ClassSound, Members,
           CountOthers, Stands, shared, files
      <4>3. Kept(q)'
        BY <2>0, <2>1, <3>2, <3>3, <1>4, <2>2 DEF Orderly, Kept, ClassSound, Members, CountOthers,
           Stands, shared, files, Content, Kinds
      <4> QED BY <4>1, <4>2, <4>3 DEF Orderly
    <3> QED BY <2>0, <2>1, <2>2, <3>1, <3>2, <3>3, TurmaGoesOn
  <2>3. CASE going' = [going EXCEPT ![r] = [going[r] EXCEPT !.pc = "storage"]]
    <3>1. PICK q : q = [going[r] EXCEPT !.pc = "storage"]  OBVIOUS
    <3>2. q \in TurmaRequest /\ CarriesWhom(q) /\ q.pc = "storage" /\ q.user = going[r].user
          /\ q.op = going[r].op /\ q.kind = going[r].kind /\ q.led = going[r].led
      BY <2>0, <3>1, <1>4, NoTurmaRequest DEF TurmaRequest, CarriesWhom, CountOthers, Stands
    <3>3. ASSUME serial, Orderly(going[r])  PROVE Orderly(q)'
      <4>1. Run(q)'
        BY <2>0, <2>1, <3>2, <3>3, <1>4, <2>3 DEF Orderly, Run, Charged, Kept, ClassSound,
           Members, CountOthers, Stands, shared, files
      <4>2. Charged(q)'
        BY <2>0, <2>1, <3>2, <3>3, <1>4, <2>3 DEF Orderly, Run, Charged, ClassSound, Members,
           CountOthers, Stands, shared, files
      <4>3. Kept(q)'
        BY <2>0, <2>1, <3>2, <3>3, <1>4, <2>3 DEF Orderly, Kept, ClassSound, Members, CountOthers,
           Stands, shared, files, Content, Kinds
      <4> QED BY <4>1, <4>2, <4>3 DEF Orderly
    <3> QED BY <2>0, <2>1, <2>3, <3>1, <3>2, <3>3, TurmaGoesOn
  <2>4. CASE /\ ~going[r].led
             /\ going' = [going EXCEPT ![r] = [going[r] EXCEPT !.pc = "remove", !.target = going[r].user]]
    <3>1. PICK q : q = [going[r] EXCEPT !.pc = "remove", !.target = going[r].user]  OBVIOUS
    <3>2. q \in TurmaRequest /\ CarriesWhom(q) /\ q.pc = "remove" /\ q.target = going[r].user
      BY <2>0, <3>1, <1>4, NoTurmaRequest DEF TurmaRequest, CarriesWhom, CountOthers, Stands
    <3>3. ASSUME serial, Orderly(going[r])  PROVE Orderly(q)'
      <4>1. Run(q)'
        BY <2>0, <2>1, <3>2, <3>3, <1>4, <2>4 DEF Orderly, Run, Charged, Kept, ClassSound,
           Members, CountOthers, Stands, shared, files
      <4>2. Charged(q)'
        BY <2>0, <2>1, <3>2, <3>3, <1>4, <2>4 DEF Orderly, Run, Charged, ClassSound, Members,
           CountOthers, Stands, shared, files
      <4>3. Kept(q)'
        BY <2>0, <2>1, <3>2, <3>3, <1>4, <2>4 DEF Orderly, Kept, ClassSound, Members, CountOthers,
           Stands, shared, files, Content, Kinds
      <4> QED BY <4>1, <4>2, <4>3 DEF Orderly
    <3> QED BY <2>0, <2>1, <2>4, <3>1, <3>2, <3>3, TurmaGoesOn
  <2> QED BY <2>2, <2>3, <2>4, <1>4 DEF CountOthers, Go, End
<1>5. CASE RemoveMember(r)
  <2>0. /\ ClassSound /\ going[r] \in TurmaRequest /\ CarriesWhom(going[r])
        /\ going[r].user \in Users /\ going[r].seen \in Nat /\ going[r].pc # "idle"
        /\ serial => Orderly(going[r])
    BY <1>5, TurmaRuns DEF RemoveMember, Stands
  <2>1. ClassSound' /\ serial' = serial
    BY <2>0, <1>5 DEF RemoveMember, ClassSound, Members, Go, End, shared, files, Stands, CarriesWhom
  <2>2. CASE going' = [going EXCEPT ![r] = NoRequest]
    <3>1. PICK q : q = NoRequest  OBVIOUS
    <3>2. q \in TurmaRequest /\ CarriesWhom(q) /\ q.pc = "idle"
      BY <2>0, <3>1, <1>5, NoTurmaRequest DEF TurmaRequest, CarriesWhom, RemoveMember, Stands
    <3>3. ASSUME serial, Orderly(going[r])  PROVE Orderly(q)'
      <4>1. Run(q)'
        BY <2>0, <2>1, <3>2, <3>3, <1>5, <2>2 DEF Orderly, Run, Charged, Kept, ClassSound,
           Members, RemoveMember, Stands, shared, files
      <4>2. Charged(q)'
        BY <2>0, <2>1, <3>2, <3>3, <1>5, <2>2 DEF Orderly, Run, Charged, ClassSound, Members,
           RemoveMember, Stands, shared, files
      <4>3. Kept(q)'
        BY <2>0, <2>1, <3>2, <3>3, <1>5, <2>2 DEF Orderly, Kept, ClassSound, Members,
           RemoveMember, Stands, shared, files, Content, Kinds
      <4> QED BY <4>1, <4>2, <4>3 DEF Orderly
    <3> QED BY <2>0, <2>1, <2>2, <3>1, <3>2, <3>3, TurmaGoesOn
  <2> QED BY <2>2, <1>5 DEF RemoveMember, Go, End
<1>6. CASE ClearStorage(r)
  <2>0. /\ ClassSound /\ going[r] \in TurmaRequest /\ CarriesWhom(going[r])
        /\ going[r].user \in Users /\ going[r].seen \in Nat /\ going[r].pc # "idle"
        /\ serial => Orderly(going[r])
    BY <1>6, TurmaRuns DEF ClearStorage, Stands
  <2>1. ClassSound' /\ serial' = serial
    BY <2>0, <1>6 DEF ClearStorage, ClassSound, Members, Go, End, shared, files, Stands, CarriesWhom
  <2>3. CASE /\ stored' = stored \ {c.path : c \in content}
             /\ going' = [going EXCEPT ![r] = [going[r] EXCEPT !.pc = "delete"]]
    <3>1. PICK q : q = [going[r] EXCEPT !.pc = "delete"]  OBVIOUS
    <3>2. q \in TurmaRequest /\ CarriesWhom(q) /\ q.pc = "delete" /\ q.user = going[r].user
          /\ q.op = going[r].op /\ q.kind = going[r].kind /\ q.led = going[r].led
      BY <2>0, <3>1, <1>6, NoTurmaRequest DEF TurmaRequest, CarriesWhom, ClearStorage, Stands
    <3>3. ASSUME serial, Orderly(going[r])  PROVE Orderly(q)'
      <4>1. Run(q)'
        BY <2>0, <2>1, <3>2, <3>3, <1>6, <2>3 DEF Orderly, Run, Charged, Kept, ClassSound,
           Members, ClearStorage, Stands, shared, files
      <4>2. Charged(q)'
        BY <2>0, <2>1, <3>2, <3>3, <1>6, <2>3 DEF Orderly, Run, Charged, ClassSound, Members,
           ClearStorage, Stands, shared, files
      <4>3. Kept(q)'
        <5>1. \A f \in stored \cap listed : \E c \in content : c.path = f
          BY <3>3 DEF Orderly, Kept
        <5>4. stored' \cap listed' = {}
          BY <5>1, <2>3, <1>6 DEF ClearStorage
        <5>3. /\ \A c \in content : c.kind = "owned" => c.by \in Members /\ c.path = Nobody
              /\ UNCHANGED <<content, row, listed>>
          BY <3>3, <1>6 DEF Orderly, Kept, ClearStorage, Stands
        <5> QED BY <5>4, <5>3, <3>2 DEF Kept, Members
      <4> QED BY <4>1, <4>2, <4>3 DEF Orderly
    <3> QED BY <2>0, <2>1, <2>3, <3>1, <3>2, <3>3, TurmaGoesOn
  <2> QED BY <2>3, <1>6 DEF ClearStorage, Go, End
<1>7. CASE DeleteClass(r)
  <2>0. /\ ClassSound /\ going[r] \in TurmaRequest /\ CarriesWhom(going[r])
        /\ going[r].user \in Users /\ going[r].seen \in Nat /\ going[r].pc # "idle"
        /\ serial => Orderly(going[r])
    BY <1>7, TurmaRuns DEF DeleteClass, Stands
  <2>1. ClassSound' /\ serial' = serial
    BY <2>0, <1>7 DEF DeleteClass, ClassSound, Members, Go, End, shared, files, Stands, CarriesWhom
  <2>2. CASE going' = [going EXCEPT ![r] = NoRequest]
    <3>1. PICK q : q = NoRequest  OBVIOUS
    <3>2. q \in TurmaRequest /\ CarriesWhom(q) /\ q.pc = "idle"
      BY <2>0, <3>1, <1>7, NoTurmaRequest DEF TurmaRequest, CarriesWhom, DeleteClass, Stands
    <3>3. ASSUME serial, Orderly(going[r])  PROVE Orderly(q)'
      <4>1. Run(q)'
        BY <2>0, <2>1, <3>2, <3>3, <1>7, <2>2 DEF Orderly, Run, Charged, Kept, ClassSound,
           Members, DeleteClass, Stands, shared, files
      <4>2. Charged(q)'
        BY <2>0, <2>1, <3>2, <3>3, <1>7, <2>2 DEF Orderly, Run, Charged, ClassSound, Members,
           DeleteClass, Stands, shared, files
      <4>3. Kept(q)'
        BY <2>0, <2>1, <3>2, <3>3, <1>7, <2>2 DEF Orderly, Kept, ClassSound, Members, DeleteClass,
           Stands, shared, files, Content, Kinds
      <4> QED BY <4>1, <4>2, <4>3 DEF Orderly
    <3> QED BY <2>0, <2>1, <2>2, <3>1, <3>2, <3>3, TurmaGoesOn
  <2>3. CASE going[r].op = "close" /\ going' = [going EXCEPT ![r] = [going[r] EXCEPT !.pc = "erase"]]
    <3>1. PICK q : q = [going[r] EXCEPT !.pc = "erase"]  OBVIOUS
    <3>2. q \in TurmaRequest /\ CarriesWhom(q) /\ q.pc = "erase" /\ q.user = going[r].user
          /\ q.op = going[r].op /\ q.kind = going[r].kind /\ q.led = going[r].led
      BY <2>0, <3>1, <1>7, NoTurmaRequest DEF TurmaRequest, CarriesWhom, DeleteClass, Stands
    <3>3. ASSUME serial, Orderly(going[r])  PROVE Orderly(q)'
      <4>1. Run(q)'
        BY <2>0, <2>1, <3>2, <3>3, <1>7, <2>3 DEF Orderly, Run, Charged, Kept, ClassSound,
           Members, DeleteClass, Stands, shared, files
      <4>2. Charged(q)'
        BY <2>0, <2>1, <3>2, <3>3, <1>7, <2>3 DEF Orderly, Run, Charged, ClassSound, Members,
           DeleteClass, Stands, shared, files
      <4>3. Kept(q)'
        BY <2>0, <2>1, <3>2, <3>3, <1>7, <2>3 DEF Orderly, Kept, ClassSound, Members, DeleteClass,
           Stands, shared, files, Content, Kinds
      <4> QED BY <4>1, <4>2, <4>3 DEF Orderly
    <3> QED BY <2>0, <2>1, <2>3, <3>1, <3>2, <3>3, TurmaGoesOn
  <2> QED BY <2>2, <2>3, <1>7 DEF DeleteClass, Go, End
<1>8. CASE Handover(r)
  <2>0. /\ ClassSound /\ going[r] \in TurmaRequest /\ CarriesWhom(going[r])
        /\ going[r].user \in Users /\ going[r].seen \in Nat /\ going[r].pc # "idle"
        /\ serial => Orderly(going[r])
    BY <1>8, TurmaRuns DEF Handover, Stands
  <2>1. ClassSound' /\ serial' = serial
    BY <2>0, <1>8 DEF Handover, ClassSound, Members, Go, End, shared, files, Stands, CarriesWhom
  <2>2. CASE delegates' = delegates /\ going' = [going EXCEPT ![r] = NoRequest]
    <3>1. PICK q : q = NoRequest  OBVIOUS
    <3>2. q \in TurmaRequest /\ CarriesWhom(q) /\ q.pc = "idle"
      BY <2>0, <3>1, <1>8, NoTurmaRequest DEF TurmaRequest, CarriesWhom, Handover, Stands
    <3>3. ASSUME serial, Orderly(going[r])  PROVE Orderly(q)'
      <4>1. Run(q)'
        BY <2>0, <2>1, <3>2, <3>3, <1>8, <2>2 DEF Orderly, Run, Charged, Kept, ClassSound,
           Members, Handover, Stands, shared, files
      <4>2. Charged(q)'
        BY <2>0, <2>1, <3>2, <3>3, <1>8, <2>2 DEF Orderly, Run, Charged, ClassSound, Members,
           Handover, Stands, shared, files
      <4>3. Kept(q)'
        BY <2>0, <2>1, <3>2, <3>3, <1>8, <2>2 DEF Orderly, Kept, ClassSound, Members, Handover,
           Stands, shared, files, Content, Kinds
      <4> QED BY <4>1, <4>2, <4>3 DEF Orderly
    <3> QED BY <2>0, <2>1, <2>2, <3>1, <3>2, <3>3, TurmaGoesOn
  <2>3. CASE /\ going[r].user \in Members
             /\ delegates' = (delegates \cup {going[r].target}) \ {going[r].user}
             /\ going' = [going EXCEPT ![r] = [going[r] EXCEPT !.pc = "count"]]
    <3>1. PICK q : q = [going[r] EXCEPT !.pc = "count"]  OBVIOUS
    <3>2. q \in TurmaRequest /\ CarriesWhom(q) /\ q.pc = "count" /\ q.user = going[r].user
          /\ q.op = going[r].op /\ q.kind = going[r].kind /\ q.led = going[r].led
      BY <2>0, <3>1, <1>8, NoTurmaRequest DEF TurmaRequest, CarriesWhom, Handover, Stands
    <3>3. ASSUME serial, Orderly(going[r])  PROVE Orderly(q)'
      <4>1. Run(q)'
        BY <2>0, <2>1, <3>2, <3>3, <1>8, <2>3 DEF Orderly, Run, Charged, Kept, ClassSound,
           Members, Handover, Stands, shared, files
      <4>2. Charged(q)'
        BY <2>0, <2>1, <3>2, <3>3, <1>8, <2>3 DEF Orderly, Run, Charged, ClassSound, Members,
           Handover, Stands, shared, files
      <4>3. Kept(q)'
        BY <2>0, <2>1, <3>2, <3>3, <1>8, <2>3 DEF Orderly, Kept, ClassSound, Members, Handover,
           Stands, shared, files, Content, Kinds
      <4> QED BY <4>1, <4>2, <4>3 DEF Orderly
    <3> QED BY <2>0, <2>1, <2>3, <3>1, <3>2, <3>3, TurmaGoesOn
  <2> QED BY <2>2, <2>3, <1>8 DEF Handover, Go, End
<1>10. CASE Promote(r)
  <2>0. /\ ClassSound /\ going[r] \in TurmaRequest /\ CarriesWhom(going[r])
        /\ going[r].user \in Users /\ going[r].seen \in Nat /\ going[r].pc # "idle"
        /\ serial => Orderly(going[r])
    BY <1>10, TurmaRuns DEF Promote, Stands
  <2>1. ClassSound' /\ serial' = serial
    BY <2>0, <1>10 DEF Promote, ClassSound, Members, Go, End, shared, files, Stands, CarriesWhom
  <2>2. CASE /\ ~(going[r].op = "close" /\ row[going[r].target] = going[r].seen)
             /\ going' = [going EXCEPT ![r] = NoRequest]
    <3>1. PICK q : q = NoRequest  OBVIOUS
    <3>2. q \in TurmaRequest /\ CarriesWhom(q) /\ q.pc = "idle"
      BY <2>0, <3>1, <1>10, NoTurmaRequest DEF TurmaRequest, CarriesWhom, Promote, Stands
    <3>3. ASSUME serial, Orderly(going[r])  PROVE Orderly(q)'
      <4>1. Run(q)'
        BY <2>0, <2>1, <3>2, <3>3, <1>10, <2>2 DEF Orderly, Run, Charged, Kept, ClassSound,
           Members, Promote, Stands, shared, files
      <4>2. Charged(q)'
        BY <2>0, <2>1, <3>2, <3>3, <1>10, <2>2 DEF Orderly, Run, Charged, ClassSound, Members,
           Promote, Stands, shared, files
      <4>3. Kept(q)'
        BY <2>0, <2>1, <3>2, <3>3, <1>10, <2>2 DEF Orderly, Kept, ClassSound, Members, Promote,
           Stands, shared, files, Content, Kinds
      <4> QED BY <4>1, <4>2, <4>3 DEF Orderly
    <3> QED BY <2>0, <2>1, <2>2, <3>1, <3>2, <3>3, TurmaGoesOn
  <2>3. CASE /\ going[r].op = "close" /\ row[going[r].target] = going[r].seen
             /\ going' = [going EXCEPT ![r] = [going[r] EXCEPT !.pc = "erase"]]
    <3>1. PICK q : q = [going[r] EXCEPT !.pc = "erase"]  OBVIOUS
    <3>2. q \in TurmaRequest /\ CarriesWhom(q) /\ q.pc = "erase" /\ q.user = going[r].user
          /\ q.op = going[r].op /\ q.kind = going[r].kind /\ q.led = going[r].led
      BY <2>0, <3>1, <1>10, NoTurmaRequest DEF TurmaRequest, CarriesWhom, Promote, Stands
    <3>3. ASSUME serial, Orderly(going[r])  PROVE Orderly(q)'
      <4>1. Run(q)'
        BY <2>0, <2>1, <3>2, <3>3, <1>10, <2>3 DEF Orderly, Run, Charged, Kept, ClassSound,
           Members, Promote, Stands, shared, files
      <4>2. Charged(q)'
        BY <2>0, <2>1, <3>2, <3>3, <1>10, <2>3 DEF Orderly, Run, Charged, ClassSound, Members,
           Promote, Stands, shared, files
      <4>3. Kept(q)'
        BY <2>0, <2>1, <3>2, <3>3, <1>10, <2>3 DEF Orderly, Kept, ClassSound, Members, Promote,
           Stands, shared, files, Content, Kinds
      <4> QED BY <4>1, <4>2, <4>3 DEF Orderly
    <3> QED BY <2>0, <2>1, <2>3, <3>1, <3>2, <3>3, TurmaGoesOn
  <2> QED BY <2>2, <2>3, <1>10 DEF Promote, Go, End
<1>11. CASE Upload(r)
  <2>0. /\ ClassSound /\ going[r] \in TurmaRequest /\ CarriesWhom(going[r])
        /\ going[r].user \in Users /\ going[r].seen \in Nat /\ going[r].pc # "idle"
        /\ serial => Orderly(going[r])
    BY <1>11, TurmaRuns DEF Upload, Stands
  <2>1. ClassSound' /\ serial' = serial
    BY <2>0, <1>11 DEF Upload, ClassSound, Members, Go, End, shared, files, Stands, CarriesWhom
  <2>2. PICK f \in Paths \ (stored \cup listed) :
           /\ stored' = stored \cup {f}
           /\ going' = [going EXCEPT ![r].pc = "put", ![r].path = f]
    BY <1>11 DEF Upload
  <2>3. PICK q : q = [going[r] EXCEPT !.pc = "put", !.path = f]  OBVIOUS
  <2>4. /\ q \in TurmaRequest /\ CarriesWhom(q) /\ q.pc = "put" /\ q.user = going[r].user
        /\ q.kind = going[r].kind
    BY <2>0, <2>3 DEF TurmaRequest, CarriesWhom
  <2>5. going' = [going EXCEPT ![r] = q]
    BY <2>2, <2>3
  <2>6. ASSUME serial, Orderly(going[r])  PROVE Orderly(q)'
    <3>0. UNCHANGED <<state, row, delegates, content, listed, aborted>> /\ going[r].pc = "upload"
      BY <1>11 DEF Upload, Stands
    <3>1. Run(q)' /\ Charged(q)'
      BY <2>4, <2>6, <3>0 DEF Orderly, Run, Charged, Members
    <3>2. Kept(q)'
      BY <2>2, <2>4, <2>6, <3>0 DEF Orderly, Kept, Members
    <3> QED BY <3>1, <3>2 DEF Orderly
  <2> QED BY <2>0, <2>1, <2>4, <2>5, <2>6, TurmaGoesOn
<1>12. CASE PutContent(r)
  <2>0. /\ ClassSound /\ going[r] \in TurmaRequest /\ CarriesWhom(going[r])
        /\ going[r].user \in Users /\ going[r].seen \in Nat /\ going[r].pc # "idle"
        /\ serial => Orderly(going[r])
    BY <1>12, TurmaRuns DEF PutContent, Stands
  <2>1. ClassSound' /\ serial' = serial
    BY <2>0, <1>12 DEF PutContent, ClassSound, Members, Go, End, shared, files, Stands, CarriesWhom,
       Content, TurmaRequest
  <2>2. CASE going' = [going EXCEPT ![r] = NoRequest]
    <3>1. PICK q : q = NoRequest  OBVIOUS
    <3>2. q \in TurmaRequest /\ CarriesWhom(q) /\ q.pc = "idle"
      BY <2>0, <3>1, <1>12, NoTurmaRequest DEF TurmaRequest, CarriesWhom, PutContent, Stands
    <3>3. ASSUME serial, Orderly(going[r])  PROVE Orderly(q)'
      <4>1. Run(q)'
        BY <2>0, <2>1, <3>2, <3>3, <1>12, <2>2 DEF Orderly, Run, Charged, Kept, ClassSound,
           Members, PutContent, Stands, shared, files
      <4>2. Charged(q)'
        BY <2>0, <2>1, <3>2, <3>3, <1>12, <2>2 DEF Orderly, Run, Charged, ClassSound, Members,
           PutContent, Stands, shared, files
      <4>3. Kept(q)'
        <5>0. UNCHANGED <<row, stored>> /\ Kept(going[r]) /\ going[r].pc = "put"
          BY <3>3, <1>12 DEF PutContent, Orderly, Stands
        <5>1. CASE UNCHANGED <<content, listed>>
          BY <3>2, <5>0, <5>1 DEF Kept, Members
        <5>2. CASE \E c : /\ content' = content \cup {c} /\ c.kind = going[r].kind
                          /\ c.by = going[r].user /\ c.path = going[r].path
                          /\ listed' = listed \cup ({going[r].path} \ {Nobody})
          BY <3>2, <5>0, <5>2 DEF Kept, Members
        <5>3. CASE /\ listed' = listed \cup ({going[r].path} \ {Nobody})
                   /\ content' = content \cup {[kind |-> going[r].kind, by |-> going[r].user,
                                               path |-> going[r].path]}
          <6>1. PICK c : c = [kind |-> going[r].kind, by |-> going[r].user, path |-> going[r].path]
            OBVIOUS
          <6>2. /\ c.kind = going[r].kind /\ c.by = going[r].user /\ c.path = going[r].path
                /\ content' = content \cup {c}
            BY <5>3, <6>1
          <6> QED BY <5>2, <5>3, <6>2
        <5> QED BY <1>12, <5>1, <5>3 DEF PutContent
      <4> QED BY <4>1, <4>2, <4>3 DEF Orderly
    <3> QED BY <2>0, <2>1, <2>2, <3>1, <3>2, <3>3, TurmaGoesOn
  <2> QED BY <2>2, <1>12 DEF PutContent, Go, End
<1>14. CASE Erase(r)
  <2>0. /\ ClassSound /\ going[r] \in TurmaRequest /\ CarriesWhom(going[r])
        /\ going[r].user \in Users /\ going[r].seen \in Nat /\ going[r].pc # "idle"
        /\ serial => Orderly(going[r])
    BY <1>14, TurmaRuns DEF Erase, Stands
  <2>1. ClassSound' /\ serial' = serial
    BY <2>0, <1>14 DEF Erase, ClassSound, Members, End, files
  <2>2. CASE going' = [going EXCEPT ![r] = NoRequest]
    <3>1. PICK q : q = NoRequest  OBVIOUS
    <3>2. q \in TurmaRequest /\ CarriesWhom(q) /\ q.pc = "idle"
      BY <2>0, <3>1, <1>14, NoTurmaRequest DEF TurmaRequest, CarriesWhom, Erase, Stands
    <3>3. ASSUME serial, Orderly(going[r])  PROVE Orderly(q)'
      <4>1. Run(q)'
        BY <2>0, <2>1, <3>2, <3>3, <1>14, <2>2 DEF Orderly, Run, Charged, Kept, ClassSound,
           Members, Erase, Stands, shared, files
      <4>2. Charged(q)'
        BY <2>0, <2>1, <3>2, <3>3, <1>14, <2>2 DEF Orderly, Run, Charged, ClassSound, Members,
           Erase, Stands, shared, files
      <4>3. Kept(q)'
        BY <2>0, <2>1, <3>2, <3>3, <1>14, <2>2 DEF Orderly, Kept, ClassSound, Members, Erase,
           Stands, shared, files, Content, Kinds
      <4> QED BY <4>1, <4>2, <4>3 DEF Orderly
    <3> QED BY <2>0, <2>1, <2>2, <3>1, <3>2, <3>3, TurmaGoesOn
  <2> QED BY <2>2, <1>14 DEF Erase, Go, End
<1>9. CASE CountDelegates(r)
  <2>0. /\ ClassSound /\ going[r] \in TurmaRequest /\ CarriesWhom(going[r])
        /\ going[r].user \in Users /\ going[r].seen \in Nat /\ going[r].pc # "idle"
        /\ serial => Orderly(going[r])
    BY <1>9, TurmaRuns DEF CountDelegates, Stands
  <2>1. /\ UNCHANGED <<state, row, joins, delegates, invites, content, stored, listed,
                     accounts, aborted, serial>>
        /\ ClassSound'
    BY <2>0, <1>9 DEF CountDelegates, ClassSound, Members, Go, End, shared, files, Stands
  <2>2. CASE going' = [going EXCEPT ![r] = NoRequest]
    <3>1. PICK q : q = NoRequest  OBVIOUS
    <3>2. q \in TurmaRequest /\ CarriesWhom(q) /\ q.pc = "idle"
      BY <2>0, <3>1, NoTurmaRequest DEF TurmaRequest, CarriesWhom
    <3>3. ASSUME serial, Orderly(going[r])  PROVE Orderly(q)'
      <4>1. Run(q)
        BY <2>0, <3>2, <3>3, <1>9, <2>2 DEF Orderly, Run, Charged, ClassSound, CountDelegates,
           Stands
      <4>2. Charged(q)
        BY <3>2, <3>3, <1>9 DEF Orderly, Charged, CountDelegates, Stands
      <4>3. Kept(q)
        BY <3>2, <3>3, <1>9 DEF Orderly, Charged, Kept, CountDelegates, Stands
      <4> QED BY <2>1, <4>1, <4>2, <4>3, TurmaClassSame DEF Orderly
    <3> QED BY <2>0, <2>1, <2>2, <3>1, <3>2, <3>3, TurmaGoesOn
  <2>3. ASSUME NEW t \in Users, t \in Members, delegates = {},
               going' = [going EXCEPT ![r].pc = "promote", ![r].target = t, ![r].seen = row[t]]
        PROVE  TurmaInv'
    <3>1. row[t] \in Nat /\ row[t] > 0
      BY <2>0, <2>3 DEF ClassSound, Members
    <3>2. PICK n \in Nat : n = row[t] /\ n > 0
      BY <3>1
    <3>3. PICK q : q = [going[r] EXCEPT !.pc = "promote", !.target = t, !.seen = n]  OBVIOUS
    <3>4. /\ q \in TurmaRequest /\ CarriesWhom(q) /\ q.pc = "promote" /\ q.target = t
          /\ q.seen = row[t] /\ q.user = going[r].user /\ q.op = going[r].op
      BY <2>0, <3>2, <3>3 DEF TurmaRequest, CarriesWhom
    <3>5. going' = [going EXCEPT ![r] = q]
      <4>1. going \in [TurmaRequests -> TurmaRequest]
        BY DEF TurmaInv, ClassTypes, TypeOK
      <4> QED BY <4>1, <2>3, <3>2, <3>3 DEF TurmaRequest
    <3>6. ASSUME serial, Orderly(going[r])  PROVE Orderly(q)'
      <4>1. Run(q)
        BY <3>4, <3>6, <1>9 DEF Orderly, Run, CountDelegates, Stands
      <4>2. Charged(q)
        BY <2>0, <2>3, <3>4, <3>6, <1>9 DEF Orderly, Run, Charged, ClassSound, CountDelegates,
           Stands
      <4>3. Kept(q)
        BY <3>4, <3>6, <1>9 DEF Orderly, Kept, CountDelegates, Stands
      <4> QED BY <2>1, <4>1, <4>2, <4>3, TurmaClassSame DEF Orderly
    <3> QED BY <2>0, <2>1, <3>4, <3>5, <3>6, TurmaGoesOn
  <2> QED BY <2>2, <2>3, <1>9 DEF CountDelegates, Go, End, Oldest, Members
<1>13. CASE Successor(r)
  <2>0. /\ ClassSound /\ going[r] \in TurmaRequest /\ CarriesWhom(going[r])
        /\ going[r].user \in Users /\ going[r].seen \in Nat /\ going[r].pc # "idle"
        /\ serial => Orderly(going[r])
    BY <1>13, TurmaRuns DEF Successor, Stands
  <2>1. /\ UNCHANGED <<state, row, joins, delegates, invites, content, stored, listed,
                     accounts, aborted, serial>>
        /\ ClassSound'
    BY <2>0, <1>13 DEF Successor, ClassSound, Members, Go, End, shared, files, Stands
  <2>2. CASE going' = [going EXCEPT ![r] = [going[r] EXCEPT !.pc = "storage"]]
    <3>1. PICK q : q = [going[r] EXCEPT !.pc = "storage"]  OBVIOUS
    <3>2. q \in TurmaRequest /\ CarriesWhom(q) /\ q.pc = "storage" /\ q.user = going[r].user
          /\ q.op = going[r].op /\ q.kind = going[r].kind /\ q.led = going[r].led
      BY <2>0, <3>1, NoTurmaRequest DEF TurmaRequest, CarriesWhom
    <3>3. ASSUME serial, Orderly(going[r])  PROVE Orderly(q)'
      <4>1. Run(q)
        BY <2>0, <3>2, <3>3, <1>13, <2>2 DEF Orderly, Run, Charged, ClassSound, Successor, Stands
      <4>2. Charged(q)
        BY <3>2, <3>3, <1>13 DEF Orderly, Charged, Successor, Stands
      <4>3. Kept(q)
        BY <3>2, <3>3, <1>13 DEF Orderly, Charged, Kept, Successor, Stands
      <4> QED BY <2>1, <4>1, <4>2, <4>3, TurmaClassSame DEF Orderly
    <3> QED BY <2>0, <2>1, <2>2, <3>1, <3>2, <3>3, TurmaGoesOn
  <2>3. CASE ~going[r].led /\ going' = [going EXCEPT ![r] = [going[r] EXCEPT !.pc = "erase"]]
    <3>1. PICK q : q = [going[r] EXCEPT !.pc = "erase"]  OBVIOUS
    <3>2. q \in TurmaRequest /\ CarriesWhom(q) /\ q.pc = "erase" /\ q.user = going[r].user
          /\ q.op = going[r].op /\ q.kind = going[r].kind /\ q.led = going[r].led
      BY <2>0, <3>1, NoTurmaRequest DEF TurmaRequest, CarriesWhom
    <3>3. ASSUME serial, Orderly(going[r])  PROVE Orderly(q)'
      <4>1. Run(q)
        BY <2>0, <3>2, <3>3, <1>13, <2>3 DEF Orderly, Run, Charged, ClassSound, Successor, Stands
      <4>2. Charged(q)
        BY <3>2, <3>3, <1>13 DEF Orderly, Charged, Successor, Stands
      <4>3. Kept(q)
        BY <3>2, <3>3, <1>13 DEF Orderly, Charged, Kept, Successor, Stands
      <4> QED BY <2>1, <4>1, <4>2, <4>3, TurmaClassSame DEF Orderly
    <3> QED BY <2>0, <2>1, <2>3, <3>1, <3>2, <3>3, TurmaGoesOn
  <2>4. ASSUME NEW t \in Users, t \in Members, going[r].led /\ t # going[r].user,
               going' = [going EXCEPT ![r].pc = "promote", ![r].target = t, ![r].seen = row[t]]
        PROVE  TurmaInv'
    <3>1. row[t] \in Nat /\ row[t] > 0
      BY <2>0, <2>4 DEF ClassSound, Members
    <3>2. PICK n \in Nat : n = row[t] /\ n > 0
      BY <3>1
    <3>3. PICK q : q = [going[r] EXCEPT !.pc = "promote", !.target = t, !.seen = n]  OBVIOUS
    <3>4. /\ q \in TurmaRequest /\ CarriesWhom(q) /\ q.pc = "promote" /\ q.target = t
          /\ q.seen = row[t] /\ q.user = going[r].user /\ q.op = going[r].op
          /\ q.led = going[r].led
      BY <2>0, <3>2, <3>3 DEF TurmaRequest, CarriesWhom
    <3>5. going' = [going EXCEPT ![r] = q]
      <4>1. going \in [TurmaRequests -> TurmaRequest]
        BY DEF TurmaInv, ClassTypes, TypeOK
      <4> QED BY <4>1, <2>4, <3>2, <3>3 DEF TurmaRequest
    <3>6. ASSUME serial, Orderly(going[r])  PROVE Orderly(q)'
      <4>1. Run(q)
        BY <3>4, <3>6, <1>13 DEF Orderly, Run, Successor, Stands
      <4>2. Charged(q)
        BY <2>0, <2>4, <3>4, <3>6, <1>13 DEF Orderly, Run, Charged, ClassSound, Successor, Stands
      <4>3. Kept(q)
        BY <3>4, <3>6, <1>13 DEF Orderly, Kept, Successor, Stands
      <4> QED BY <2>1, <4>1, <4>2, <4>3, TurmaClassSame DEF Orderly
    <3> QED BY <2>0, <2>1, <3>4, <3>5, <3>6, TurmaGoesOn
  <2> QED BY <2>2, <2>3, <2>4, <1>13 DEF Successor, Go, End, Oldest, Members
<1> QED BY <1>1, <1>2, <1>3, <1>4, <1>5, <1>6, <1>7, <1>8, <1>9, <1>10, <1>11, <1>12, <1>13, <1>14
         DEF Continue

\* One that breaks off leaves the class as it was: if the delegado has been
\* replaced and the account is still there, that is marked.
LEMMA TurmaBroken ==
  ASSUME TurmaInv, NEW r \in TurmaRequests, BreakOff(r)
  PROVE  TurmaInv'
<1>1. going[r].pc # "idle"
  BY DEF BreakOff, Stands
<1>2. TurmaInv'
  <2>0. ClassSound /\ (serial => Orderly(going[r]))
    BY <1>1, TurmaRuns
  <2>1. /\ UNCHANGED <<state, row, joins, delegates, invites, content, stored, listed, accounts,
                       serial>>
        /\ aborted' = (aborted \/ (going[r].op = "close" /\ going[r].pc = "erase" /\ going[r].led))
        /\ going' = [going EXCEPT ![r] = NoRequest]
    BY DEF BreakOff, End, shared, files
  <2>2. ClassSound'
    <3>1. aborted' \in BOOLEAN
      BY <2>1
    <3> QED BY <2>0, <2>1, <3>1 DEF ClassSound, Members
  <2>3. ASSUME serial, Orderly(going[r])  PROVE Orderly(NoRequest)'
    <3>1. Run(NoRequest)'
      BY <2>1, <2>3, NoTurmaRequest DEF Orderly, Run, Charged
    <3>2. Charged(NoRequest)' /\ Kept(NoRequest)'
      BY <2>1, <2>3, NoTurmaRequest DEF Orderly, Charged, Kept, Members
    <3> QED BY <3>1, <3>2 DEF Orderly
  <2> QED BY <1>1, <2>1, <2>2, <2>3, NoTurmaRequest, TurmaGoesOn
<1> QED BY <1>2

-----------------------------------------------------------------------------
(* One statement, and what it comes to.                                    *)

LEMMA TurmaStatement ==
  ASSUME TurmaInv, NEW u \in Users,
         Create(u) \/ Decline(u) \/ \E c \in content : Unshare(u, c)
  PROVE  TurmaInv'
<1>0. ClassSound /\ (serial /\ AllIdle => Orderly(NoRequest))
  BY ClassTypesSplit DEF TurmaInv, Serial
<1>1. CASE Create(u)
  <2>1. Members = {}
    BY <1>0, <1>1 DEF Create, ClassSound
  <2>2. ClassSound'
    BY <1>0, <1>1, <2>1 DEF Create, ClassSound, Members, shared, files
  <2>3. ASSUME serial, Orderly(NoRequest)  PROVE Orderly(NoRequest)'
    BY <1>0, <1>1, <2>1, <2>3, NoTurmaRequest
    DEF Create, ClassSound, Members, shared, files, Orderly, Run, Charged, Kept
  <2> QED BY <1>1, <2>2, <2>3, TurmaBetween DEF Create
<1>2. CASE Decline(u)
  <2>1. ClassSound'
    BY <1>0, <1>2 DEF Decline, ClassSound, Members, files
  <2>2. ASSUME serial, Orderly(NoRequest)  PROVE Orderly(NoRequest)'
    BY <1>2, <2>2 DEF Decline, Orderly, Run, Charged, Kept, Members, files
  <2> QED BY <1>2, <2>1, <2>2, TurmaBetween DEF Decline
<1>3. ASSUME NEW c \in content, Unshare(u, c)  PROVE TurmaInv'
  <2>1. ClassSound'
    BY <1>0, <1>3 DEF Unshare, ClassSound, Members
  <2>2. ASSUME serial, Orderly(NoRequest)  PROVE Orderly(NoRequest)'
    <3>1. Run(NoRequest)' /\ Charged(NoRequest)'
      BY <1>3, <2>2, NoTurmaRequest DEF Unshare, Orderly, Run, Charged, Members
    <3>2. /\ \A d \in content : d.kind = "owned" => d.by \in Members /\ d.path = Nobody
          /\ \A f \in stored \cap listed : \E d \in content : d.path = f
      BY <2>2 DEF Orderly, Kept
    <3>3. /\ stored' = stored \ {c.path} /\ UNCHANGED <<row, listed>>
          /\ content \ {c} \subseteq content' /\ content' \subseteq content
      BY <1>3 DEF Unshare
    <3>4. Kept(NoRequest)'
      BY <3>2, <3>3, NoTurmaRequest DEF Kept, Members
    <3> QED BY <3>1, <3>4 DEF Orderly
  <2> QED BY <1>3, <2>1, <2>2, TurmaBetween DEF Unshare
<1> QED BY <1>1, <1>2, <1>3

LEMMA TurmaInvInit == TurmasInit => TurmaInv
<1> SUFFICES ASSUME TurmasInit  PROVE TurmaInv
  OBVIOUS
<1>1. Members = {}
  BY DEF TurmasInit, Members
<1>2. ClassTypes
  BY <1>1, NoTurmaRequest DEF TurmasInit, ClassTypes, TypeOK
<1>3. Orderly(NoRequest)
  BY <1>1, NoTurmaRequest DEF TurmasInit, Orderly, Run, Charged, Kept
<1> QED BY <1>2, <1>3 DEF TurmaInv, Serial, OneRequest, TurmasInit

LEMMA TurmaInvStep == TurmaInv /\ [TurmasNext]_turmas => TurmaInv'
<1> SUFFICES ASSUME TurmaInv, [TurmasNext]_turmas  PROVE TurmaInv'
  OBVIOUS
<1>1. ASSUME NEW u \in Users, Create(u) \/ Decline(u) \/ \E c \in content : Unshare(u, c)
      PROVE  TurmaInv'
  BY <1>1, TurmaStatement
<1>2. ASSUME NEW r \in TurmaRequests, Continue(r)  PROVE TurmaInv'
  BY <1>2, TurmaContinued
<1>3. ASSUME NEW r \in TurmaRequests, NEW u \in Users, Ask(r, u)  PROVE TurmaInv'
  BY <1>3, TurmaAsked
<1>5. ASSUME NEW r \in TurmaRequests, BreakOff(r)  PROVE TurmaInv'
  BY <1>5, TurmaBroken
<1>4. ASSUME UNCHANGED turmas  PROVE TurmaInv'
  <2>1. ClassTypes'
    BY <1>4 DEF turmas, TurmaInv, ClassTypes, TypeOK, Members, CarriesWhom
  <2>2. Serial'
    BY <1>4 DEF turmas, TurmaInv, Serial, OneRequest, AllIdle, Orderly, Run, Charged, Kept, Members
  <2> QED BY <2>1, <2>2 DEF TurmaInv
<1> QED BY <1>1, <1>2, <1>3, <1>4, <1>5 DEF TurmasNext

\* The inductive invariant of a class: types, and while requests follow one another
\* what the one under way has read, and who runs the class meanwhile.
THEOREM TurmaAlways == TurmasSpec => []TurmaInv
BY TurmaInvInit, TurmaInvStep, PTL DEF TurmasSpec

\* The rows of a class are of their types and go together: who runs it is a
\* member (TypeOK).
THEOREM TurmaTyped == TurmasSpec => []TypeOK
<1>1. TurmaInv => TypeOK
  BY DEF TurmaInv, ClassTypes
<1> QED BY <1>1, TurmaAlways, PTL

\* Whatever is asked of a class, by however many, one request after the other:
\* it has exactly one delegado (transferDelegado, leave, the succession of a
\* deleted account).
THEOREM OneDelegateAlways == TurmasSpec => []OneDelegate
<1>1. TurmaInv => OneDelegate
  <2> SUFFICES ASSUME TurmaInv, serial, ~aborted, AllIdle, Members # {}
               PROVE  \E d \in Users : delegates = {d}
    BY DEF OneDelegate
  <2>1. state = "there" /\ Run(NoRequest)
    BY DEF TurmaInv, ClassTypes, Serial, Orderly
  <2> QED BY <2>1, NoTurmaRequest DEF Run
<1> QED BY <1>1, TurmaAlways, PTL

\* What members published goes with them, and the files that a class showed with
\* their rows and so with the class, one request after the other, wherever each
\* may break off (removeMembership, deleteTurma, releaseTurmasOfDeletedUser,
\* upload and remove of files).
THEOREM NothingLeftBehindAlways == TurmasSpec => []NothingLeftBehind
<1>1. TurmaInv => NothingLeftBehind
  BY DEF TurmaInv, Serial, Orderly, Kept, NothingLeftBehind
<1> QED BY <1>1, TurmaAlways, PTL
=============================================================================
