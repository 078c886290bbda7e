------------------------- MODULE BlockingAgentProofs -------------------------
(***************************************************************************)
(* What the agent leaves in the hosts file, for every set of               *)
(* configurations and of lines of other programs, and whatever disturbs    *)
(* it.  First what its edits make of a file that is whole; then the        *)
(* invariant that the file is whole, with all that may be written to it.   *)
(***************************************************************************)
EXTENDS BlockingAgent, FiniteSetTheorems, SequenceTheorems, TLAPS

-----------------------------------------------------------------------------
(* Files.                                                                  *)

\* A whole file has no markers and no redirected names, or one start marker,
\* then redirected names, then one end marker.
Clean(f) == \A i \in DOMAIN f : f[i].kind = "other"
HasBlock(f, s, e) ==
  /\ s < e /\ f[s].kind = "start" /\ f[e].kind = "end"
  /\ \A i \in DOMAIN f : s < i /\ i < e => f[i].kind = "name"
  /\ \A i \in DOMAIN f : i < s \/ e < i => f[i].kind = "other"
Whole(f) == Clean(f) \/ \E s, e \in DOMAIN f : HasBlock(f, s, e)

\* The lines of the other programs.
Has(f, l) == \E i \in DOMAIN f : f[i] = l
SameOthers(f, g) == \A l \in Line : l.kind = "other" => (Has(f, l) <=> Has(g, l))

LEMMA LineFacts ==
  /\ Start \in Line /\ EndMark \in Line
  /\ \A t \in STRING : Name(t) \in Line /\ Other(t) \in Line
  BY DEF Line, Name, Other

LEMMA FileDomain ==
  ASSUME NEW f \in Seq(Line)
  PROVE  /\ Len(f) \in Nat /\ DOMAIN f = 1 .. Len(f)
         /\ \A i \in DOMAIN f : f[i] \in Line /\ i \in Nat
         /\ KeptIndices(f) \subseteq 1 .. Len(f)
  BY DEF KeptIndices

\* Lines are numbered by the number of lines kept before them.
LEMMA Ranks ==
  ASSUME NEW f \in Seq(Line)
  PROVE  /\ IsFiniteSet(KeptIndices(f)) /\ Cardinality(KeptIndices(f)) \in Nat
         /\ \A i \in KeptIndices(f) : KeptBefore(f, i) \in 0 .. Cardinality(KeptIndices(f)) - 1
         /\ \A i, j \in KeptIndices(f) : i < j => KeptBefore(f, i) < KeptBefore(f, j)
         /\ \A i \in DOMAIN f : KeptBefore(f, i) \in 0 .. Cardinality(KeptIndices(f))
<1> DEFINE K == KeptIndices(f)
           B(i) == {k \in K : k < i}
<1>1. K \subseteq 1 .. Len(f) /\ Len(f) \in Nat BY FileDomain
<1>2. IsFiniteSet(1 .. Len(f)) BY <1>1, FS_Interval
<1>3. IsFiniteSet(K) /\ Cardinality(K) \in Nat BY <1>1, <1>2, FS_Subset, FS_CardinalityType
<1>4. \A i : IsFiniteSet(B(i)) /\ Cardinality(B(i)) \in Nat /\ Cardinality(B(i)) <= Cardinality(K)
  <2> SUFFICES ASSUME NEW i
               PROVE  /\ IsFiniteSet(B(i)) /\ Cardinality(B(i)) \in Nat
                      /\ Cardinality(B(i)) <= Cardinality(K)
      OBVIOUS
  <2>1. B(i) \in SUBSET K OBVIOUS
  <2> HIDE DEF B, K
  <2> QED BY <1>3, <2>1, FS_Subset, FS_CardinalityType
<1>5. \A i : KeptBefore(f, i) = Cardinality(B(i)) BY DEF KeptBefore
<1>6. ASSUME NEW i \in K PROVE Cardinality(B(i)) < Cardinality(K)
  <2>1. B(i) \in SUBSET (K \ {i}) BY <1>1
  <2> HIDE DEF B, K
  <2>2. IsFiniteSet(K \ {i}) /\ Cardinality(K \ {i}) = Cardinality(K) - 1
      BY <1>3, <1>6, FS_RemoveElement
  <2>3. Cardinality(B(i)) <= Cardinality(K \ {i}) BY <2>1, <2>2, FS_Subset
  <2> QED BY <1>3, <1>4, <2>2, <2>3
<1>7. ASSUME NEW i \in K, NEW j \in K, i < j PROVE Cardinality(B(i)) < Cardinality(B(j))
  <2>1. B(i) \in SUBSET (B(j) \ {i}) /\ i \in B(j)
    <3>1. i \in Nat /\ j \in Nat /\ \A k \in K : k \in Nat BY <1>1
    <3>2. \A k \in B(i) : k < j /\ k # i BY <1>7, <3>1
    <3> QED BY <1>7, <3>2
  <2> HIDE DEF B, K
  <2>2. IsFiniteSet(B(j) \ {i}) /\ Cardinality(B(j) \ {i}) = Cardinality(B(j)) - 1
      BY <1>4, <2>1, FS_RemoveElement
  <2>3. Cardinality(B(i)) <= Cardinality(B(j) \ {i}) BY <2>1, <2>2, FS_Subset
  <2> QED BY <1>4, <2>2, <2>3
<1> HIDE DEF B
<1> QED BY <1>3, <1>4, <1>5, <1>6, <1>7

\* Lines keeps each line that is to be kept, and no other.
LEMMA LinesFacts ==
  ASSUME NEW f \in Seq(Line)
  PROVE  /\ Lines(f) \in Seq(Line) /\ Len(Lines(f)) = Cardinality(KeptIndices(f))
         /\ \A n \in DOMAIN Lines(f) : \E i \in KeptIndices(f) : Lines(f)[n] = f[i]
         /\ \A i \in KeptIndices(f) : \E n \in DOMAIN Lines(f) : Lines(f)[n] = f[i]
<1> DEFINE K == KeptIndices(f)
           m == Cardinality(K)
           rank == [i \in K |-> KeptBefore(f, i) + 1]
<1>1. IsFiniteSet(K) /\ m \in Nat /\ K \subseteq 1 .. Len(f) /\ Len(f) \in Nat
    BY Ranks, FileDomain
<1>2. rank \in [K -> 1 .. m] BY Ranks
<1>3. \A i, j \in K : i # j => rank[i] # rank[j]
  <2> SUFFICES ASSUME NEW i \in K, NEW j \in K, i # j PROVE rank[i] # rank[j]
      OBVIOUS
  <2>1. i \in Nat /\ j \in Nat BY <1>1
  <2>2. KeptBefore(f, i) \in Nat /\ KeptBefore(f, j) \in Nat BY Ranks
  <2>3. i < j \/ j < i BY <2>1
  <2> QED BY <2>2, <2>3, Ranks
<1>4. IsFiniteSet(1 .. m) /\ Cardinality(1 .. m) = m BY <1>1, FS_Interval
<1>5. \A n \in 1 .. m : \E i \in K : rank[i] = n
  <2> HIDE DEF rank, K
  <2>1. rank \in Injection(K, 1 .. m) BY <1>2, <1>3 DEF Injection, IsInjective
  <2>2. rank \in Surjection(K, 1 .. m) BY <1>4, <2>1, FS_Injection
  <2> QED BY <2>2 DEF Surjection
<1> DEFINE pick(n) == CHOOSE i \in K : KeptBefore(f, i) = n - 1
<1>6. \A n \in 1 .. m : pick(n) \in K /\ KeptBefore(f, pick(n)) = n - 1
  <2> SUFFICES ASSUME NEW n \in 1 .. m PROVE \E i \in K : KeptBefore(f, i) = n - 1
      OBVIOUS
  <2>1. PICK i \in K : KeptBefore(f, i) + 1 = n BY <1>5
  <2>2. KeptBefore(f, i) \in Nat BY Ranks
  <2> QED BY <2>1, <2>2
<1>7. Lines(f) = [n \in 1 .. m |-> f[pick(n)]] BY DEF Lines
<1>8. \A i \in K : f[i] \in Line BY <1>1
<1>9. \A i \in K : pick(KeptBefore(f, i) + 1) = i /\ KeptBefore(f, i) + 1 \in 1 .. m
  <2> SUFFICES ASSUME NEW i \in K
               PROVE  pick(KeptBefore(f, i) + 1) = i /\ KeptBefore(f, i) + 1 \in 1 .. m
      OBVIOUS
  <2>1. KeptBefore(f, i) + 1 \in 1 .. m /\ KeptBefore(f, i) \in Nat BY Ranks
  <2>2. PICK n \in 1 .. m : n = KeptBefore(f, i) + 1 BY <2>1
  <2>3. pick(n) \in K /\ KeptBefore(f, pick(n)) = KeptBefore(f, i)
      BY <1>6, <2>1, <2>2
  <2> HIDE DEF pick
  <2>4. rank[pick(n)] = rank[i] BY <2>3
  <2>5. pick(n) = i BY <1>3, <2>3, <2>4
  <2> QED BY <2>1, <2>2, <2>5
<1> HIDE DEF pick, rank
<1>10. Lines(f) \in Seq(Line) /\ Len(Lines(f)) = m
    BY <1>1, <1>6, <1>7, <1>8, IsASeq
<1>11. DOMAIN Lines(f) = 1 .. m BY <1>7
<1> QED BY <1>6, <1>7, <1>9, <1>10, <1>11
\* What an edit writes around the lines it keeps.
Splice(lines, block, c) ==
  SubSeq(lines, 1, c) \o block \o SubSeq(lines, c + 1, Len(lines))

IsSplice(g, lines, block, c) ==
  /\ g \in Seq(Line) /\ DOMAIN g = 1 .. Len(lines) + Len(block)
  /\ \A n \in 1 .. c : g[n] = lines[n]
  /\ \A n \in 1 .. Len(block) : g[c + n] = block[n]
  /\ \A n \in c + 1 .. Len(lines) : g[Len(block) + n] = lines[n]

LEMMA Spliced ==
  ASSUME NEW lines \in Seq(Line), NEW block \in Seq(Line), NEW c \in 0 .. Len(lines)
  PROVE  IsSplice(Splice(lines, block, c), lines, block, c)
<1> DEFINE g == Splice(lines, block, c)
<1> DEFINE before == SubSeq(lines, 1, c)
           after == SubSeq(lines, c + 1, Len(lines))
<1>0. Len(lines) \in Nat /\ Len(block) \in Nat /\ c \in Nat /\ c <= Len(lines)
    BY LenProperties
<1>1. \A n \in 1 .. Len(lines) : lines[n] \in Line BY ElementOfSeq
<1>2. /\ before \in Seq(Line) /\ Len(before) = c
      /\ \A n \in 1 .. c : before[n] = lines[n]
  <2>1. \A n \in 1 .. c : lines[n] \in Line BY <1>0, <1>1
  <2>2. /\ before \in Seq(Line) /\ Len(before) = IF 1 <= c THEN c - 1 + 1 ELSE 0
        /\ \A n \in 1 .. c - 1 + 1 : before[n] = lines[1 + n - 1]
      BY <1>0, <2>1, SubSeqProperties
  <2> HIDE DEF before
  <2>3. \A n \in 1 .. c : n \in 1 .. c - 1 + 1 /\ 1 + n - 1 = n BY <1>0
  <2>4. Len(before) = c BY <1>0, <2>2
  <2> QED BY <2>2, <2>3, <2>4
<1>3. /\ after \in Seq(Line) /\ Len(after) = Len(lines) - c
      /\ \A n \in c + 1 .. Len(lines) : after[n - c] = lines[n]
  <2>1. \A n \in c + 1 .. Len(lines) : lines[n] \in Line BY <1>0, <1>1
  <2>2. /\ after \in Seq(Line)
        /\ Len(after) = IF c + 1 <= Len(lines) THEN Len(lines) - (c + 1) + 1 ELSE 0
        /\ \A n \in 1 .. Len(lines) - (c + 1) + 1 : after[n] = lines[(c + 1) + n - 1]
      BY <1>0, <2>1, SubSeqProperties
  <2> HIDE DEF after
  <2>3. \A n \in c + 1 .. Len(lines) : /\ n - c \in 1 .. Len(lines) - (c + 1) + 1
                                       /\ (c + 1) + (n - c) - 1 = n
      BY <1>0
  <2>4. Len(after) = Len(lines) - c BY <1>0, <2>2
  <2> QED BY <2>2, <2>3, <2>4
<1> HIDE DEF before, after
<1> DEFINE front == before \o block
<1>4. /\ front \in Seq(Line) /\ Len(front) = c + Len(block)
      /\ \A n \in 1 .. c : front[n] = before[n]
      /\ \A n \in 1 .. Len(block) : front[c + n] = block[n]
  <2>1. /\ front \in Seq(Line) /\ Len(front) = c + Len(block)
        /\ \A n \in 1 .. c + Len(block) :
             front[n] = IF n <= c THEN before[n] ELSE block[n - c]
      BY <1>2, ConcatProperties
  <2> HIDE DEF front
  <2>2. \A n \in 1 .. c : n \in 1 .. c + Len(block) /\ n <= c BY <1>0
  <2>3. \A n \in 1 .. Len(block) : c + n \in 1 .. c + Len(block) /\ ~(c + n <= c)
                                   /\ c + n - c = n
      BY <1>0
  <2> QED BY <2>1, <2>2, <2>3
<1>5. g = front \o after BY DEF before, after, Splice
<1> HIDE DEF front, g
<1>6. /\ g \in Seq(Line) /\ Len(g) = Len(lines) + Len(block)
      /\ \A n \in 1 .. c + Len(block) : g[n] = front[n]
      /\ \A n \in 1 .. Len(lines) - c : g[c + Len(block) + n] = after[n]
  <2>0. /\ g \in Seq(Line) /\ Len(g) = Len(front) + Len(after)
        /\ \A n \in 1 .. Len(front) + Len(after) :
             g[n] = IF n <= Len(front) THEN front[n] ELSE after[n - Len(front)]
    <3>1. front \in Seq(Line) /\ after \in Seq(Line) BY <1>3, <1>4
    <3>2. /\ front \o after \in Seq(Line)
          /\ Len(front \o after) = Len(front) + Len(after)
          /\ \A n \in 1 .. Len(front) + Len(after) :
               (front \o after)[n] = IF n <= Len(front) THEN front[n] ELSE after[n - Len(front)]
        BY <3>1, ConcatProperties
    <3> QED BY <1>5, <3>2
  <2>1. /\ g \in Seq(Line) /\ Len(g) = c + Len(block) + (Len(lines) - c)
        /\ \A n \in 1 .. c + Len(block) + (Len(lines) - c) :
             g[n] = IF n <= c + Len(block) THEN front[n] ELSE after[n - (c + Len(block))]
      BY <1>3, <1>4, <2>0
  <2>2. \A n \in 1 .. c + Len(block) : n \in 1 .. c + Len(block) + (Len(lines) - c)
                                       /\ n <= c + Len(block)
      BY <1>0
  <2>3. \A n \in 1 .. Len(lines) - c :
          /\ c + Len(block) + n \in 1 .. c + Len(block) + (Len(lines) - c)
          /\ ~(c + Len(block) + n <= c + Len(block))
          /\ c + Len(block) + n - (c + Len(block)) = n
      BY <1>0
  <2>4. c + Len(block) + (Len(lines) - c) = Len(lines) + Len(block) BY <1>0
  <2>5. \A n \in 1 .. c + Len(block) : g[n] = front[n] BY <2>1, <2>2
  <2>6. \A n \in 1 .. Len(lines) - c : g[c + Len(block) + n] = after[n]
    <3> TAKE n \in 1 .. Len(lines) - c
    <3>1. PICK k \in Nat : k = c + Len(block) + n BY <1>0
    <3>2. k \in 1 .. c + Len(block) + (Len(lines) - c) BY <2>3, <3>1
    <3>3. ~(k <= c + Len(block)) /\ k - (c + Len(block)) = n BY <2>3, <3>1
    <3>4. g[k] = after[n] BY <2>1, <3>2, <3>3
    <3> QED BY <3>1, <3>4
  <2> QED BY <2>1, <2>4, <2>5, <2>6
<1>7. DOMAIN g = 1 .. Len(lines) + Len(block) BY <1>6, LenProperties
<1>8. \A n \in 1 .. c : g[n] = lines[n]
  <2>1. \A n \in 1 .. c : n \in 1 .. c + Len(block) BY <1>0
  <2> QED BY <1>2, <1>4, <1>6, <2>1
<1>9. \A n \in 1 .. Len(block) : g[c + n] = block[n]
  <2>1. \A n \in 1 .. Len(block) : c + n \in 1 .. c + Len(block) BY <1>0
  <2> QED BY <1>4, <1>6, <2>1
<1>10. \A n \in c + 1 .. Len(lines) : g[Len(block) + n] = lines[n]
  <2>1. \A n \in c + 1 .. Len(lines) : /\ n - c \in 1 .. Len(lines) - c
                                       /\ c + Len(block) + (n - c) = Len(block) + n
      BY <1>0
  <2> QED BY <1>3, <1>6, <2>1
<1> QED BY <1>6, <1>7, <1>8, <1>9, <1>10 DEF IsSplice, g

LEMMA MaxOfOne == \A s \in Int : Max({s}) = s
  BY DEF Max

\* Of a whole file the lines that are kept are those of the other programs, and
\* the two markers stand at the same place among them.
LEMMA WholeKept ==
  ASSUME NEW f \in Seq(Line), Whole(f)
  PROVE  /\ \A i \in DOMAIN f : i \in KeptIndices(f) <=> f[i].kind = "other"
         /\ \A block : \E c \in 0 .. Len(Lines(f)) :
              Around(f, block) = Splice(Lines(f), block, c)
         /\ ~Found(f) <=> Clean(f)
<1> DEFINE m == Cardinality(KeptIndices(f))
<1>0. m \in Nat /\ Len(Lines(f)) = m BY Ranks, LinesFacts
<1>a. DOMAIN f = 1 .. Len(f) /\ Len(f) \in Nat /\ \A i \in DOMAIN f : i \in Nat
    BY FileDomain
<1>1. CASE Clean(f)
  <2>1. Starts(f) = {} /\ Ends(f) = {} BY <1>1 DEF Clean, Starts, Ends
  <2>2. \A i \in DOMAIN f : i \in KeptIndices(f) /\ f[i].kind = "other"
      BY <1>1, <2>1 DEF Clean, KeptIndices, InBlock
  <2>3. ~Found(f) BY <2>1 DEF Found
  <2>4. \A block : Around(f, block) = Splice(Lines(f), block, m)
      BY <1>0, <2>3 DEF Around, Splice
  <2>5. m \in 0 .. Len(Lines(f)) BY <1>0
  <2>6. \A block : \E c \in 0 .. Len(Lines(f)) :
          Around(f, block) = Splice(Lines(f), block, c)
    <3> TAKE block
    <3> WITNESS m \in 0 .. Len(Lines(f))
    <3> QED BY <2>4
  <2> QED BY <1>1, <2>2, <2>3, <2>6
<1>2. ASSUME NEW s \in DOMAIN f, NEW e \in DOMAIN f, HasBlock(f, s, e)
      PROVE  /\ \A i \in DOMAIN f : i \in KeptIndices(f) <=> f[i].kind = "other"
             /\ \A block : \E c \in 0 .. Len(Lines(f)) :
                  Around(f, block) = Splice(Lines(f), block, c)
             /\ Found(f) /\ ~Clean(f)
  <2>1. /\ s < e /\ f[s].kind = "start" /\ f[e].kind = "end"
        /\ \A i \in DOMAIN f : s < i /\ i < e => f[i].kind = "name"
        /\ \A i \in DOMAIN f : i < s \/ e < i => f[i].kind = "other"
      BY <1>2 DEF HasBlock
  <2>2. \A i \in DOMAIN f : i < s \/ i = s \/ (s < i /\ i < e) \/ i = e \/ e < i
      BY <1>a, <2>1
  <2>3. Starts(f) = {s} /\ Ends(f) = {e}
    <3>1. \A i \in Starts(f) : i = s BY <2>1, <2>2 DEF Starts
    <3>2. \A i \in Ends(f) : i = e BY <2>1, <2>2 DEF Ends
    <3>3. s \in Starts(f) /\ e \in Ends(f) BY <2>1 DEF Starts, Ends
    <3> QED BY <3>1, <3>2, <3>3
  <2>4. \A i \in DOMAIN f : InBlock(f, i) <=> s < i /\ ~(e < i)
      BY <1>a, <2>1, <2>3 DEF InBlock
  <2>5. \A i \in DOMAIN f : i \in KeptIndices(f) <=> i < s \/ e < i
    <3>1. ASSUME NEW i \in DOMAIN f, i < s \/ e < i PROVE i \in KeptIndices(f)
      <4>1. f[i].kind = "other" BY <2>1, <3>1
      <4>2. ~InBlock(f, i) BY <1>a, <2>1, <2>4, <3>1
      <4> QED BY <4>1, <4>2 DEF KeptIndices
    <3>2. ASSUME NEW i \in DOMAIN f, i \in KeptIndices(f) PROVE i < s \/ e < i
      <4>1. f[i].kind \in {"name", "other"} /\ ~InBlock(f, i) BY <3>2 DEF KeptIndices
      <4>2. i # s /\ i # e BY <2>1, <4>1
      <4> QED BY <1>a, <2>1, <2>2, <2>4, <4>1, <4>2
    <3> QED BY <3>1, <3>2
  <2>6. \A i \in DOMAIN f : i \in KeptIndices(f) <=> f[i].kind = "other"
    <3>1. ASSUME NEW i \in DOMAIN f, f[i].kind = "other" PROVE i < s \/ e < i
        BY <2>1, <2>2, <3>1
    <3> QED BY <2>1, <2>5, <3>1
  <2>7. KeptBefore(f, s) = KeptBefore(f, e)
    <3>1. {k \in KeptIndices(f) : k < s} = {k \in KeptIndices(f) : k < e}
      <4>1. \A k \in KeptIndices(f) : k \in DOMAIN f BY DEF KeptIndices
      <4> QED BY <1>a, <2>1, <2>5, <4>1
    <3> QED BY <3>1 DEF KeptBefore
  <2>8. KeptBefore(f, s) \in 0 .. m BY Ranks
  <2>9. Max(Starts(f)) = s /\ Max(Ends(f)) = e
      BY <1>a, <2>3, MaxOfOne
  <2>10. Found(f) /\ Starts(f) # {} /\ Ends(f) # {} BY <2>3 DEF Found
  <2>11. \A block : Around(f, block) = Splice(Lines(f), block, KeptBefore(f, s))
      BY <2>7, <2>9, <2>10 DEF Around, BlockAt, Splice
  <2>12. ~Clean(f) BY <2>1 DEF Clean
  <2> QED BY <1>0, <2>6, <2>8, <2>10, <2>11, <2>12
<1>3. CASE \E s, e \in DOMAIN f : HasBlock(f, s, e)
    BY <1>2, <1>3
<1> QED BY <1>1, <1>3 DEF Whole
\* The block of at least one domain: two markers and redirected names between.
LEMMA BlockShape ==
  ASSUME NEW domains \in SUBSET STRING, IsFiniteSet(domains), domains # {}
  PROVE  LET b == ManagedBlock(domains) IN
         /\ b \in Seq(Line) /\ Len(b) \in Nat /\ Len(b) > 2
         /\ b[1] = Start /\ b[Len(b)] = EndMark
         /\ \A n \in 2 .. Len(b) - 1 : b[n].kind = "name"
<1> DEFINE S == {Name(d) : d \in domains}
           k == Cardinality(S)
           q == SetToSeq(S)
<1>1. IsFiniteSet(S) /\ S # {}
  <2> DEFINE name == [d \in domains |-> Name(d)]
  <2>1. name \in Surjection(domains, S)
    <3>1. name \in [domains -> S] /\ \A l \in S : \E d \in domains : name[d] = l OBVIOUS
    <3> HIDE DEF name, S
    <3> QED BY <3>1 DEF Surjection
  <2>2. S # {} OBVIOUS
  <2> HIDE DEF name, S
  <2> QED BY <2>1, <2>2, FS_Surjection
<1>2. k \in Nat /\ k # 0 /\ ExistsBijection(1 .. k, S)
  <2> HIDE DEF S
  <2> QED BY <1>1, FS_CardinalityType, FS_EmptySet
<1>3. q \in [1 .. k -> S]
  <2> HIDE DEF S
  <2>1. PICK h : h \in Bijection(1 .. k, S) BY <1>2 DEF ExistsBijection
  <2>2. h \in [1 .. k -> S] /\ \A a, b \in 1 .. k : h[a] = h[b] => a = b
      BY <2>1 DEF Bijection, Injection, IsInjective
  <2>3. IsInjective(h) BY <2>2 DEF IsInjective
  <2>4. \E f \in [1 .. Cardinality(S) -> S] : IsInjective(f) BY <2>2, <2>3
  <2> QED BY <2>4 DEF SetToSeq
<1>4. \A l \in S : l \in Line /\ l.kind = "name" BY LineFacts DEF Name
<1> HIDE DEF S, q, k
<1>5. /\ q \in Seq(Line) /\ Len(q) = k
      /\ \A n \in 1 .. k : q[n].kind = "name"
  <2>1. \A n \in 1 .. k : q[n] \in Line /\ q[n].kind = "name" BY <1>3, <1>4
  <2>2. q \in [1 .. k -> Line] BY <1>3, <2>1
  <2> QED BY <1>2, <2>1, <2>2
<1>6. /\ <<Start>> \in Seq(Line) /\ <<EndMark>> \in Seq(Line)
      /\ Len(<<Start>>) = 1 /\ Len(<<EndMark>>) = 1
      /\ <<Start>>[1] = Start /\ <<EndMark>>[1] = EndMark
    BY LineFacts
<1> DEFINE front == <<Start>> \o q
<1>7. /\ front \in Seq(Line) /\ Len(front) = 1 + k /\ front[1] = Start
      /\ \A n \in 2 .. 1 + k : front[n].kind = "name"
  <2>1. /\ front \in Seq(Line) /\ Len(front) = Len(<<Start>>) + Len(q)
        /\ \A n \in 1 .. Len(<<Start>>) + Len(q) :
             front[n] = IF n <= Len(<<Start>>) THEN <<Start>>[n] ELSE q[n - Len(<<Start>>)]
      BY <1>5, <1>6, ConcatProperties
  <2> HIDE DEF front
  <2>2. /\ Len(front) = 1 + k
        /\ \A n \in 1 .. 1 + k : front[n] = IF n <= 1 THEN <<Start>>[n] ELSE q[n - 1]
      BY <1>5, <1>6, <2>1
  <2>3. 1 \in 1 .. 1 + k /\ \A n \in 2 .. 1 + k : n \in 1 .. 1 + k /\ ~(n <= 1) /\ n - 1 \in 1 .. k
      BY <1>2
  <2> QED BY <1>5, <1>6, <2>1, <2>2, <2>3
<1> DEFINE b == front \o <<EndMark>>
<1> HIDE DEF front
<1>8. /\ b \in Seq(Line) /\ Len(b) = k + 2 /\ b[1] = Start /\ b[k + 2] = EndMark
      /\ \A n \in 2 .. k + 1 : b[n].kind = "name"
  <2>1. /\ b \in Seq(Line) /\ Len(b) = Len(front) + Len(<<EndMark>>)
        /\ \A n \in 1 .. Len(front) + Len(<<EndMark>>) :
             b[n] = IF n <= Len(front) THEN front[n] ELSE <<EndMark>>[n - Len(front)]
      BY <1>6, <1>7, ConcatProperties
  <2> HIDE DEF b
  <2>2. /\ Len(b) = k + 2
        /\ \A n \in 1 .. k + 2 : b[n] = IF n <= 1 + k THEN front[n] ELSE <<EndMark>>[n - (1 + k)]
      BY <1>2, <1>6, <1>7, <2>1
  <2>3. /\ 1 \in 1 .. k + 2 /\ 1 <= 1 + k /\ k + 2 \in 1 .. k + 2 /\ ~(k + 2 <= 1 + k)
        /\ k + 2 - (1 + k) = 1
        /\ \A n \in 2 .. k + 1 : n \in 1 .. k + 2 /\ n <= 1 + k /\ n \in 2 .. 1 + k
      BY <1>2
  <2>4. b[k + 2] = <<EndMark>>[1]
    <3>1. PICK n \in 1 .. k + 2 : n = k + 2 BY <2>3
    <3>2. ~(n <= 1 + k) /\ n - (1 + k) = 1 BY <1>2, <3>1
    <3> QED BY <2>2, <3>1, <3>2
  <2> QED BY <1>6, <1>7, <2>1, <2>2, <2>3, <2>4
<1>9. ManagedBlock(domains) = b BY DEF ManagedBlock, front, q, S
<1> HIDE DEF b
<1> QED BY <1>2, <1>8, <1>9

\* What remains of a whole file when its block is removed.
LEMMA RemovedFacts ==
  ASSUME NEW f \in Seq(Line), Whole(f)
  PROVE  Removed(f) \in Seq(Line) /\ Clean(Removed(f)) /\ SameOthers(f, Removed(f))
<1> DEFINE lines == Lines(f)
           g == Removed(f)
<1>1. <<>> \in Seq(Line) /\ Len(<<>>) = 0 OBVIOUS
<1>2. /\ lines \in Seq(Line) /\ DOMAIN lines = 1 .. Len(lines) /\ Len(lines) \in Nat
      /\ \A n \in DOMAIN lines : \E i \in KeptIndices(f) : lines[n] = f[i]
      /\ \A i \in KeptIndices(f) : \E n \in DOMAIN lines : lines[n] = f[i]
    BY LinesFacts, LenProperties
<1>3. PICK c \in 0 .. Len(lines) :
        g = Splice(lines, <<>>, c)
    BY WholeKept DEF Removed
<1>4. \A i \in DOMAIN f : i \in KeptIndices(f) <=> f[i].kind = "other" BY WholeKept
<1> HIDE DEF g, lines
<1>5. /\ g \in Seq(Line) /\ DOMAIN g = 1 .. Len(lines) + Len(<<>>)
      /\ \A n \in 1 .. c : g[n] = lines[n]
      /\ \A n \in c + 1 .. Len(lines) : g[Len(<<>>) + n] = lines[n]
  <2>1. IsSplice(g, lines, <<>>, c) BY <1>1, <1>2, <1>3, Spliced
  <2> QED BY <2>1 DEF IsSplice
<1>6. DOMAIN g = DOMAIN lines /\ \A n \in DOMAIN lines : g[n] = lines[n]
    BY <1>1, <1>2, <1>5
<1>7. KeptIndices(f) \subseteq DOMAIN f BY DEF KeptIndices
<1>8. Clean(g) BY <1>2, <1>4, <1>6, <1>7 DEF Clean
<1>9. ASSUME NEW l \in Line, l.kind = "other" PROVE Has(f, l) <=> Has(g, l)
    BY <1>2, <1>4, <1>6, <1>7, <1>9 DEF Has
<1>10. SameOthers(f, g) BY <1>9 DEF SameOthers
<1> QED BY <1>5, <1>8, <1>10 DEF g

\* A whole file with a block for domains in the place of the one it had.
LEMMA AppliedFacts ==
  ASSUME NEW f \in Seq(Line), Whole(f),
         NEW domains \in SUBSET STRING, IsFiniteSet(domains), domains # {}
  PROVE  LET g == Applied(f, domains) IN
         /\ g \in Seq(Line) /\ Whole(g) /\ SameOthers(f, g)
         /\ \E i \in DOMAIN g : g[i].kind = "name"
<1> DEFINE lines == Lines(f)
           b == ManagedBlock(domains)
           g == Applied(f, domains)
           k == Len(b)
<1>1. /\ b \in Seq(Line) /\ k \in Nat /\ k > 2 /\ b[1] = Start /\ b[k] = EndMark
      /\ \A n \in 2 .. k - 1 : b[n].kind = "name"
    BY BlockShape
<1>2. /\ lines \in Seq(Line) /\ DOMAIN lines = 1 .. Len(lines) /\ Len(lines) \in Nat
      /\ \A n \in DOMAIN lines : \E i \in KeptIndices(f) : lines[n] = f[i]
      /\ \A i \in KeptIndices(f) : \E n \in DOMAIN lines : lines[n] = f[i]
    BY LinesFacts, LenProperties
<1>3. PICK c \in 0 .. Len(lines) :
        g = Splice(lines, b, c)
    BY WholeKept DEF Applied
<1>4. \A i \in DOMAIN f : i \in KeptIndices(f) <=> f[i].kind = "other" BY WholeKept
<1> HIDE DEF g, lines, b
<1>5. /\ g \in Seq(Line) /\ DOMAIN g = 1 .. Len(lines) + k
      /\ \A n \in 1 .. c : g[n] = lines[n]
      /\ \A n \in 1 .. k : g[c + n] = b[n]
      /\ \A n \in c + 1 .. Len(lines) : g[k + n] = lines[n]
  <2>1. IsSplice(g, lines, b, c) BY <1>1, <1>2, <1>3, Spliced
  <2> QED BY <2>1 DEF IsSplice
<1> HIDE DEF k
<1>6. KeptIndices(f) \subseteq DOMAIN f BY DEF KeptIndices
<1>7. \A n \in 1 .. Len(lines) : lines[n].kind = "other"
  <2> TAKE n \in 1 .. Len(lines)
  <2>1. PICK i \in KeptIndices(f) : lines[n] = f[i] BY <1>2
  <2> QED BY <1>4, <1>6, <2>1
<1> DEFINE s == c + 1
           e == c + k
<1>8. s \in DOMAIN g /\ e \in DOMAIN g /\ s + 1 \in DOMAIN g /\ s < s + 1 /\ s + 1 < e
    BY <1>1, <1>2, <1>5
<1>9. g[s].kind = "start" /\ g[e].kind = "end"
  <2>1. 1 \in 1 .. k /\ k \in 1 .. k BY <1>1
  <2>2. g[s] = Start /\ g[e] = EndMark BY <1>1, <1>5, <2>1
  <2>3. Start.kind = "start" /\ EndMark.kind = "end" BY DEF Start, EndMark
  <2> QED BY <2>2, <2>3
<1>10. \A i \in DOMAIN g : s < i /\ i < e => g[i].kind = "name"
  <2> SUFFICES ASSUME NEW i \in DOMAIN g, s < i, i < e PROVE g[i].kind = "name"
      OBVIOUS
  <2>1. PICK n \in 2 .. k - 1 : i = c + n
    <3>1. i - c \in 2 .. k - 1 /\ i = c + (i - c) BY <1>1, <1>2, <1>5
    <3> QED BY <3>1
  <2>2. n \in 1 .. k BY <1>1
  <2> QED BY <1>1, <1>5, <2>1, <2>2
<1>11. \A i \in DOMAIN g : i < s \/ e < i =>
         \E n \in 1 .. Len(lines) : g[i] = lines[n]
  <2>1. ASSUME NEW i \in DOMAIN g, i < s PROVE \E n \in 1 .. Len(lines) : g[i] = lines[n]
    <3>1. i \in 1 .. c /\ i \in 1 .. Len(lines) BY <1>2, <1>5, <2>1
    <3> QED BY <1>5, <3>1
  <2>2. ASSUME NEW i \in DOMAIN g, e < i PROVE \E n \in 1 .. Len(lines) : g[i] = lines[n]
    <3>1. PICK n \in c + 1 .. Len(lines) : i = k + n
      <4>1. i - k \in c + 1 .. Len(lines) /\ i = k + (i - k) BY <1>1, <1>2, <1>5, <2>2
      <4> QED BY <4>1
    <3>2. n \in 1 .. Len(lines) BY <1>2
    <3> QED BY <1>5, <3>1, <3>2
  <2> QED BY <2>1, <2>2
<1>12. HasBlock(g, s, e)
  <2> HIDE DEF s, e
  <2>1. s < e BY <1>1, <1>2 DEF s, e
  <2> QED BY <1>7, <1>9, <1>10, <1>11, <2>1 DEF HasBlock
<1>13. \A n \in 1 .. Len(lines) : \E i \in DOMAIN g : g[i] = lines[n]
  <2> SUFFICES ASSUME NEW n \in 1 .. Len(lines) PROVE \E i \in DOMAIN g : g[i] = lines[n]
      OBVIOUS
  <2>1. CASE n <= c
    <3>1. n \in 1 .. c /\ n \in DOMAIN g BY <1>1, <1>2, <1>5, <2>1
    <3> QED BY <1>5, <3>1
  <2>2. CASE ~(n <= c)
    <3>1. n \in c + 1 .. Len(lines) /\ k + n \in DOMAIN g BY <1>1, <1>2, <1>5, <2>2
    <3> QED BY <1>5, <3>1
  <2> QED BY <2>1, <2>2
<1>14. SameOthers(f, g)
  <2> SUFFICES ASSUME NEW l \in Line, l.kind = "other" PROVE Has(f, l) <=> Has(g, l)
      BY DEF SameOthers
  <2>1. ASSUME Has(f, l) PROVE Has(g, l)
      BY <1>2, <1>4, <1>13, <2>1 DEF Has
  <2>2. ASSUME NEW i \in DOMAIN g, g[i] = l PROVE Has(f, l)
    <3>1. i < s \/ e < i
      <4>1. i # s /\ i # e BY <1>9, <2>2
      <4>2. ~(s < i /\ i < e) BY <1>10, <2>2
      <4>3. i \in Nat /\ s \in Nat /\ e \in Nat BY <1>1, <1>2, <1>5
      <4> HIDE DEF s, e
      <4> QED BY <4>1, <4>2, <4>3
    <3>2. PICK n \in 1 .. Len(lines) : g[i] = lines[n] BY <1>11, <3>1
    <3>3. PICK j \in KeptIndices(f) : lines[n] = f[j] BY <1>2
    <3> QED BY <1>6, <2>2, <3>2, <3>3 DEF Has
  <2> QED BY <2>1, <2>2 DEF Has
<1>15. \E i \in DOMAIN g : g[i].kind = "name" BY <1>8, <1>10
<1> HIDE DEF s, e
<1> QED BY <1>5, <1>8, <1>12, <1>14, <1>15 DEF Whole, g
LEMMA AppendFacts ==
  ASSUME NEW f \in Seq(Line), NEW l \in Line, l.kind = "other"
  PROVE  /\ Append(f, l) \in Seq(Line)
         /\ Whole(f) => Whole(Append(f, l))
         /\ Clean(f) => Clean(Append(f, l))
         /\ \A k : Has(f, k) => Has(Append(f, l), k)
<1> DEFINE g == Append(f, l)
<1>1. /\ g \in Seq(Line) /\ Len(g) = Len(f) + 1 /\ Len(f) \in Nat
      /\ DOMAIN f = 1 .. Len(f) /\ DOMAIN g = 1 .. Len(f) + 1
      /\ \A i \in 1 .. Len(f) : g[i] = f[i]
      /\ g[Len(f) + 1] = l
  <2>1. Len(f) \in Nat /\ DOMAIN f = 1 .. Len(f) BY LenProperties
  <2>2. /\ g \in Seq(Line) /\ Len(g) = Len(f) + 1
        /\ \A i \in 1 .. Len(f) : g[i] = f[i]
        /\ g[Len(f) + 1] = l
      BY AppendProperties
  <2> HIDE DEF g
  <2>3. DOMAIN g = 1 .. Len(g) BY <2>2, LenProperties
  <2> QED BY <2>1, <2>2, <2>3
<1> HIDE DEF g
<1>2. \A i \in DOMAIN g : (i \in DOMAIN f /\ g[i] = f[i]) \/ (i = Len(f) + 1 /\ g[i] = l)
    BY <1>1
<1>3. \A i \in DOMAIN f : i \in DOMAIN g /\ g[i] = f[i] BY <1>1
<1>4. Clean(f) => Clean(g) BY <1>2 DEF Clean
<1>5. ASSUME NEW s \in DOMAIN f, NEW e \in DOMAIN f, HasBlock(f, s, e)
      PROVE  s \in DOMAIN g /\ e \in DOMAIN g /\ HasBlock(g, s, e)
  <2>1. /\ s < e /\ f[s].kind = "start" /\ f[e].kind = "end"
        /\ \A i \in DOMAIN f : s < i /\ i < e => f[i].kind = "name"
        /\ \A i \in DOMAIN f : i < s \/ e < i => f[i].kind = "other"
      BY <1>5 DEF HasBlock
  <2>2. e < Len(f) + 1 BY <1>1
  <2>3. \A i \in DOMAIN g : s < i /\ i < e => g[i].kind = "name"
    <3> TAKE i \in DOMAIN g
    <3> HAVE s < i /\ i < e
    <3>1. i # Len(f) + 1 BY <1>1, <2>2
    <3> QED BY <1>2, <2>1, <3>1
  <2>4. \A i \in DOMAIN g : i < s \/ e < i => g[i].kind = "other" BY <1>2, <2>1
  <2> QED BY <1>3, <2>1, <2>3, <2>4 DEF HasBlock
<1>6. Whole(f) => Whole(g) BY <1>4, <1>5 DEF Whole
<1>7. \A k : Has(f, k) => Has(g, k) BY <1>3 DEF Has
<1> QED BY <1>1, <1>4, <1>6, <1>7 DEF g

\* A whole file never makes the agent fail, and has its names in its block.
LEMMA WholeFacts ==
  ASSUME NEW f \in Seq(Line), Whole(f)
  PROVE  /\ ~Panics(f)
         /\ Cardinality(Starts(f)) = Cardinality(Ends(f))
         /\ Cardinality(Starts(f)) <= 1
         /\ \A i \in DOMAIN f : f[i].kind = "name" => InBlock(f, i)
<1>a. DOMAIN f = 1 .. Len(f) /\ \A i \in DOMAIN f : i \in Nat BY FileDomain
<1>1. CASE Clean(f)
  <2>1. Starts(f) = {} /\ Ends(f) = {} BY <1>1 DEF Clean, Starts, Ends
  <2>2. Cardinality({}) = 0 BY FS_EmptySet
  <2>3. Cardinality(Starts(f)) = 0 /\ Cardinality(Ends(f)) = 0 BY <2>1, <2>2
  <2> QED BY <1>1, <2>1, <2>3 DEF Panics, Found, Clean
<1>2. ASSUME NEW s \in DOMAIN f, NEW e \in DOMAIN f, HasBlock(f, s, e)
      PROVE  /\ ~Panics(f)
             /\ Cardinality(Starts(f)) = Cardinality(Ends(f))
             /\ Cardinality(Starts(f)) <= 1
             /\ \A i \in DOMAIN f : f[i].kind = "name" => InBlock(f, i)
  <2>1. /\ s < e /\ f[s].kind = "start" /\ f[e].kind = "end"
        /\ \A i \in DOMAIN f : s < i /\ i < e => f[i].kind = "name"
        /\ \A i \in DOMAIN f : i < s \/ e < i => f[i].kind = "other"
      BY <1>2 DEF HasBlock
  <2>2. \A i \in DOMAIN f : i < s \/ i = s \/ (s < i /\ i < e) \/ i = e \/ e < i
      BY <1>a, <2>1
  <2>3. Starts(f) = {s} /\ Ends(f) = {e}
    <3>1. \A i \in Starts(f) : i = s BY <2>1, <2>2 DEF Starts
    <3>2. \A i \in Ends(f) : i = e BY <2>1, <2>2 DEF Ends
    <3>3. s \in Starts(f) /\ e \in Ends(f) BY <2>1 DEF Starts, Ends
    <3> QED BY <3>1, <3>2, <3>3
  <2>4. Cardinality({s}) = 1 /\ Cardinality({e}) = 1 BY FS_Singleton
  <2>5. Cardinality(Starts(f)) = 1 /\ Cardinality(Ends(f)) = 1 BY <2>3, <2>4
  <2>6. ASSUME NEW i \in DOMAIN f, f[i].kind = "name" PROVE InBlock(f, i)
    <3>1. s < i /\ i < e BY <2>1, <2>2, <2>6
    <3>2. ~(e < i) BY <1>a, <3>1
    <3> QED BY <2>3, <3>1, <3>2 DEF InBlock
  <2> QED BY <2>3, <2>5, <2>6 DEF Panics, Found
<1> QED BY <1>1, <1>2 DEF Whole

LEMMA SameOthersFacts ==
  /\ \A f : SameOthers(f, f)
  /\ \A f, g, h : SameOthers(f, g) /\ SameOthers(f, h) => SameOthers(h, g)
  BY DEF SameOthers

LEMMA OthersChain ==
  \A f, g, h : SameOthers(f, g) /\ SameOthers(g, h) => SameOthers(f, h)
  BY DEF SameOthers

-----------------------------------------------------------------------------
(* Type correctness.                                                       *)

USE AgentAssumption

LEMMA ConfigFacts ==
  /\ NoConfig.domains = {}
  /\ \A c \in Configs \cup {NoConfig} :
       /\ c.domains \in SUBSET STRING /\ IsFiniteSet(c.domains)
       /\ c.rules \in SUBSET Conditions
<1>1. IsFiniteSet({}) BY FS_EmptySet
<1> QED BY <1>1 DEF NoConfig

LEMMA MinOfFour ==
  ASSUME NEW S \in SUBSET (1 .. 4), S # {}
  PROVE  Min(S) \in S
<1>1. \E x \in S : \A y \in S : x <= y
  <2>1. CASE 1 \in S BY <2>1
  <2>2. CASE 1 \notin S /\ 2 \in S
    <3>1. \A y \in S : 2 <= y BY <2>2
    <3> QED BY <2>2, <3>1
  <2>3. CASE 1 \notin S /\ 2 \notin S /\ 3 \in S
    <3>1. \A y \in S : 3 <= y BY <2>3
    <3> QED BY <2>3, <3>1
  <2>4. CASE 1 \notin S /\ 2 \notin S /\ 3 \notin S
    <3>1. \A y \in S : y = 4 BY <2>4
    <3>2. 4 \in S BY <3>1
    <3> QED BY <3>1, <3>2
  <2> QED BY <2>1, <2>2, <2>3, <2>4
<1> QED BY <1>1 DEF Min

\* What decide has asked is part of what the configuration needs.
Asking ==
  agent.pc = "decide" => /\ agent.cfg \in Configs
                         /\ agent.asked \subseteq NeedsRead(agent.cfg.rules)

LEMMA NeedsType == ASSUME NEW rules \in SUBSET Conditions
                   PROVE  NeedsRead(rules) \in SUBSET Conditions
  BY DEF NeedsRead, Conditions

LEMMA NextAskedType ==
  ASSUME TypeOK, Asking, agent.pc = "decide", agent.asked # NeedsRead(agent.cfg.rules)
  PROVE  NextAsked \in NeedsRead(agent.cfg.rules) /\ NextAsked \in Conditions
<1> DEFINE needs == NeedsRead(agent.cfg.rules)
           S == {n \in 1 .. 4 : Order[n] \in needs \ agent.asked}
<1>1. needs \in SUBSET Conditions BY ConfigFacts, NeedsType DEF Asking
<1>2. PICK x \in needs : x \notin agent.asked BY DEF Asking
<1>3. Order[1] = "today" /\ Order[2] = "checkins" /\ Order[3] = "overdue" /\ Order[4] = "focus"
    BY DEF Order
<1>4. \E n \in 1 .. 4 : Order[n] = x
  <2>1. x \in {"today", "checkins", "overdue", "focus"} BY <1>1 DEF Conditions
  <2>2. 1 \in 1 .. 4 /\ 2 \in 1 .. 4 /\ 3 \in 1 .. 4 /\ 4 \in 1 .. 4 OBVIOUS
  <2> QED BY <1>3, <2>1, <2>2
<1> HIDE DEF needs
<1>5. S \in SUBSET (1 .. 4) /\ S # {} BY <1>2, <1>4
<1>6. Min(S) \in S BY <1>5, MinOfFour
<1>7. Order[Min(S)] \in needs BY <1>6
<1> QED BY <1>1, <1>7 DEF NextAsked, needs

LEMMA AgentInit == Init => TypeOK /\ Asking
<1> SUFFICES ASSUME Init PROVE TypeOK /\ Asking
    OBVIOUS
<1>1. hosts \in Seq(Line)
  <2>1. CASE hosts = <<>> BY <2>1
  <2>2. CASE \E c \in Configs : c.domains # {} /\ hosts = ManagedBlock(c.domains)
      BY <2>2, ConfigFacts, BlockShape
  <2> QED BY <2>1, <2>2 DEF Init
<1>2. server \in [reachable : BOOLEAN, keyValid : BOOLEAN, config : Configs \cup {None},
                  facts : SUBSET Conditions]
    BY DEF Init
<1>3. agent \in Process /\ agent.pc = "off"
    BY DEF Init, Off, Process, Decision, NoDecision
<1>4. exit \in Exiting BY DEF Init, NotExiting, Exiting
<1> QED BY <1>1, <1>2, <1>3, <1>4 DEF Init, TypeOK, Asking
-----------------------------------------------------------------------------
(* The inductive invariant.                                                *)

\* The file, and what will be edited and written back, are whole; while nobody
\* else edits, what will be written back has their lines.
Files ==
  /\ Whole(hosts)
  /\ agent.pc = "write" => /\ Whole(agent.file)
                           /\ ~EditsRace => SameOthers(agent.file, hosts)
  /\ exit.pc = "write" => /\ Whole(exit.file)
                          /\ ~EditsRace => SameOthers(exit.file, hosts)

\* Once the poll loop has returned it writes no more.
Quiet ==
  exit.quiet => /\ agent.pc \in {"returned", "off"}
                /\ exit.pc = "cleaned" => Clean(hosts)

\* The last genuine decision is what the tasks said last, and a kept decision
\* repeats it.
Heard ==
  /\ agent.last.from = "tasks" => said = agent.last.block
  /\ agent.pc \in {"apply", "write"} /\ agent.decision.from = "kept"
       => agent.decision.block = agent.last.block

AgentInv == TypeOK /\ Asking /\ Files /\ Quiet /\ Heard

LEMMA AgentInvInit == Init => AgentInv
<1> SUFFICES ASSUME Init PROVE AgentInv
    OBVIOUS
<1>1. TypeOK /\ Asking BY AgentInit
<1>2. /\ agent.pc = "off" /\ agent.last.from = "none"
      /\ exit.pc = "no" /\ exit.quiet = FALSE
    BY DEF Init, Off, NoDecision, NotExiting
<1>3. Whole(hosts)
  <2>1. CASE hosts = <<>> BY <2>1 DEF Whole, Clean
  <2>2. ASSUME NEW c \in Configs, c.domains # {}, hosts = ManagedBlock(c.domains)
        PROVE  Whole(hosts)
    <3> DEFINE k == Len(hosts)
    <3>1. /\ hosts \in Seq(Line) /\ k \in Nat /\ k > 2
          /\ hosts[1] = Start /\ hosts[k] = EndMark
          /\ \A n \in 2 .. k - 1 : hosts[n].kind = "name"
        BY <2>2, ConfigFacts, BlockShape
    <3>2. DOMAIN hosts = 1 .. k BY <3>1, LenProperties
    <3> HIDE DEF k
    <3>3. 1 \in DOMAIN hosts /\ k \in DOMAIN hosts /\ 1 < k BY <3>1, <3>2
    <3>4. hosts[1].kind = "start" /\ hosts[k].kind = "end"
      <4>1. Start.kind = "start" /\ EndMark.kind = "end" BY DEF Start, EndMark
      <4> QED BY <3>1, <4>1
    <3>5. \A i \in DOMAIN hosts : 1 < i /\ i < k => hosts[i].kind = "name"
      <4> TAKE i \in DOMAIN hosts
      <4> HAVE 1 < i /\ i < k
      <4>1. i \in 2 .. k - 1 BY <3>1, <3>2
      <4> QED BY <3>1, <4>1
    <3>6. \A i \in DOMAIN hosts : ~(i < 1) /\ ~(k < i) BY <3>1, <3>2
    <3>7. HasBlock(hosts, 1, k) BY <3>3, <3>4, <3>5, <3>6 DEF HasBlock
    <3> QED BY <3>3, <3>7 DEF Whole
  <2> QED BY <2>1, <2>2 DEF Init
<1> QED BY <1>1, <1>2, <1>3 DEF AgentInv, Files, Quiet, Heard

\* A step of the poll loop that ends neither it nor in a write.
LEMMA LoopGoesOn ==
  ASSUME AgentInv, UNCHANGED <<server, hosts, exit>>, agent' \in Process,
         said' \in BOOLEAN, agent.pc \notin {"off", "returned"}, agent'.pc # "write",
         Asking', Heard'
  PROVE  AgentInv'
<1>1. TypeOK' BY DEF AgentInv, TypeOK
<1>2. exit.quiet = FALSE
  <2>1. exit.quiet \in BOOLEAN BY DEF AgentInv, TypeOK, Exiting
  <2> QED BY <2>1 DEF AgentInv, Quiet
<1>3. Quiet' BY <1>2 DEF Quiet
<1>4. Files' BY DEF AgentInv, Files
<1> QED BY <1>1, <1>3, <1>4 DEF AgentInv

LEMMA Applies ==
  ASSUME AgentInv, NEW cfg \in Configs \cup {NoConfig}, NEW d \in Decision, Apply(cfg, d),
         UNCHANGED <<server, hosts, exit>>, said' \in BOOLEAN,
         agent.pc \notin {"off", "returned"},
         d.from = "kept" => d.block = agent.last.block,
         IF d.from = "tasks" THEN said' = d.block ELSE said' = said
  PROVE  AgentInv'
<1>1. agent \in Process BY DEF AgentInv, TypeOK
<1>2. PICK last : last = (IF d.from = "kept" THEN agent.last ELSE d) OBVIOUS
<1>3. last \in {e \in Decision : e.from # "kept"} BY <1>1, <1>2 DEF Process
<1>4. agent' = [agent EXCEPT !.pc = "apply", !.cfg = cfg, !.decision = d, !.last = last]
    BY <1>1, <1>2 DEF Apply, Process
<1>5. agent' \in Process BY <1>1, <1>3, <1>4 DEF Process
<1>6. agent'.pc = "apply" /\ agent'.decision = d /\ agent'.last = last
    BY <1>1, <1>4 DEF Process
<1>7. Asking' BY <1>6 DEF Asking
<1>8. Heard'
  <2>1. CASE d.from = "kept" BY <1>2, <1>6, <2>1 DEF AgentInv, Heard
  <2>2. CASE d.from # "kept" BY <1>2, <1>6, <2>2 DEF Heard
  <2> QED BY <2>1, <2>2
<1> QED BY <1>5, <1>6, <1>7, <1>8, LoopGoesOn

LEMMA RevokedApplies ==
  ASSUME AgentInv, NEW cfg \in Configs \cup {NoConfig}, KeyRevoked(cfg),
         UNCHANGED <<server, hosts, exit, said>>, agent.pc \notin {"off", "returned"}
  PROVE  AgentInv'
<1> DEFINE d == [block |-> FALSE, from |-> "revoked"]
<1>1. d \in Decision /\ d.from = "revoked" BY DEF Decision
<1>2. Apply(cfg, d) /\ said' = said /\ said' \in BOOLEAN
    BY DEF KeyRevoked, Revoked, AgentInv, TypeOK
<1> HIDE DEF d
<1> QED BY <1>1, <1>2, Applies

\* The loop that goes to another place without deciding anything.
LEMMA Waits ==
  ASSUME AgentInv, UNCHANGED <<server, hosts, exit, said>>,
         agent.pc \notin {"off", "returned"}, NEW pc \in {"wait", "fetch"},
         agent' \in Process, agent'.pc = pc, agent'.last = agent.last
  PROVE  AgentInv'
<1>1. Asking' BY DEF Asking
<1>2. Heard' BY DEF AgentInv, Heard
<1> QED BY <1>1, <1>2, LoopGoesOn DEF AgentInv, TypeOK

LEMMA Dies ==
  ASSUME AgentInv, Die, UNCHANGED <<server, hosts, said>>
  PROVE  AgentInv'
<1>1. agent' \in Process /\ agent'.pc = "off" /\ agent'.last.from = "none"
    BY DEF Die, Off, Process, Decision, NoDecision
<1>2. exit' \in Exiting /\ exit'.pc = "no" /\ exit'.quiet = FALSE
    BY DEF Die, NotExiting, Exiting
<1>3. TypeOK' BY <1>1, <1>2 DEF AgentInv, TypeOK
<1> QED BY <1>1, <1>2, <1>3 DEF AgentInv, Asking, Files, Quiet, Heard
\* The other steps of the poll loop that leave the file alone.
LEMMA PollKeeps == ASSUME AgentInv, Poll PROVE AgentInv'
<1>1. agent \in Process /\ agent.pc = "wait" BY DEF AgentInv, TypeOK, Poll
<1>2. agent' \in Process /\ agent'.pc = "fetch" /\ agent'.last = agent.last
    BY <1>1 DEF Poll, Go, Process
<1> QED BY <1>1, <1>2, Waits DEF Poll

LEMMA UseKeeps ==
  ASSUME AgentInv, NEW remote \in Configs \cup {None}, agent.pc = "fetch", Use(remote),
         UNCHANGED <<server, hosts, exit, said>>
  PROVE  AgentInv'
<1>1. agent \in Process BY DEF AgentInv, TypeOK
<1>2. CASE remote = None
  <2>1. agent' = [agent EXCEPT !.pc = "wait", !.remote = remote] BY <1>2 DEF Use
  <2>2. agent' \in Process /\ agent'.pc = "wait" /\ agent'.last = agent.last
      BY <1>1, <2>1 DEF Process
  <2> QED BY <2>2, Waits
<1>3. CASE remote # None
  <2>1. agent' = [agent EXCEPT !.pc = "decide", !.remote = remote, !.cfg = remote,
                               !.seen = {}, !.asked = {}]
      BY <1>3 DEF Use
  <2>2. remote \in Configs BY <1>3
  <2>3. /\ agent' \in Process /\ agent'.pc = "decide" /\ agent'.last = agent.last
        /\ agent'.cfg = remote /\ agent'.asked = {}
      BY <1>1, <2>1, <2>2 DEF Process
  <2>4. Asking' BY <2>2, <2>3 DEF Asking
  <2>5. Heard' BY <2>3 DEF AgentInv, Heard
  <2> QED BY <2>3, <2>4, <2>5, LoopGoesOn DEF AgentInv, TypeOK
<1> QED BY <1>2, <1>3

LEMMA FetchKeeps == ASSUME AgentInv, Fetch PROVE AgentInv'
<1>1. agent \in Process /\ agent.pc = "fetch" /\ UNCHANGED <<server, hosts, exit, said>>
    BY DEF AgentInv, TypeOK, Fetch
<1>2. agent.remote \in Configs \cup {None} /\ server.config \in Configs \cup {None}
    BY <1>1 DEF Process, AgentInv, TypeOK
<1>3. ASSUME KeyRevoked(IF agent.remote = None THEN NoConfig ELSE agent.remote)
      PROVE  AgentInv'
  <2>1. PICK cfg \in Configs \cup {NoConfig} :
          cfg = IF agent.remote = None THEN NoConfig ELSE agent.remote
      BY <1>2
  <2>2. KeyRevoked(cfg) BY <1>3, <2>1
  <2> QED BY <1>1, <2>2, RevokedApplies
<1>4. \/ Use(server.config) \/ Use(agent.remote)
      \/ KeyRevoked(IF agent.remote = None THEN NoConfig ELSE agent.remote)
    BY DEF Fetch
<1> QED BY <1>1, <1>2, <1>3, <1>4, UseKeeps

LEMMA AskKeeps == ASSUME AgentInv, Ask PROVE AgentInv'
<1>1. /\ agent \in Process /\ agent.pc = "decide" /\ agent.cfg \in Configs
      /\ UNCHANGED <<server, hosts, exit, said>>
    BY DEF AgentInv, TypeOK, Asking, Ask
<1>2. ASSUME agent' = [agent EXCEPT !.asked = @ \cup {NextAsked},
                                    !.seen = @ \cup (server.facts \cap {NextAsked})]
      PROVE  AgentInv'
  <2>1. NextAsked \in NeedsRead(agent.cfg.rules) /\ NextAsked \in Conditions
      BY <1>1, NextAskedType DEF AgentInv, Ask
  <2>2. agent.asked \in SUBSET NeedsRead(agent.cfg.rules) BY <1>1 DEF AgentInv, Asking
  <2>3. PICK asked : asked = agent.asked \cup {NextAsked} OBVIOUS
  <2>4. PICK seen : seen = agent.seen \cup (server.facts \cap {NextAsked}) OBVIOUS
  <2>5. agent' = [agent EXCEPT !.asked = asked, !.seen = seen]
      BY <1>1, <1>2, <2>3, <2>4 DEF Process
  <2>6. /\ asked \in SUBSET Conditions /\ seen \in SUBSET Conditions
        /\ asked \in SUBSET NeedsRead(agent.cfg.rules)
      BY <1>1, <2>1, <2>2, <2>3, <2>4 DEF Process
  <2>7. /\ agent' \in Process /\ agent'.pc = "decide" /\ agent'.last = agent.last
        /\ agent'.cfg = agent.cfg /\ agent'.asked = asked
      BY <1>1, <2>5, <2>6 DEF Process
  <2>8. Asking' BY <1>1, <2>6, <2>7 DEF Asking
  <2>9. Heard' BY <1>1, <2>7 DEF AgentInv, Heard
  <2> QED BY <1>1, <2>7, <2>8, <2>9, LoopGoesOn DEF AgentInv, TypeOK
<1>3. ASSUME KeyRevoked(agent.cfg) PROVE AgentInv'
    BY <1>1, <1>3, RevokedApplies
<1>4. ASSUME Apply(agent.cfg, Unreachable(agent.cfg)) PROVE AgentInv'
  <2>1. PICK d : d = Unreachable(agent.cfg) OBVIOUS
  <2>2. agent.last \in Decision BY <1>1 DEF Process
  <2>3. /\ d \in Decision /\ d.from # "tasks"
        /\ d.from = "kept" => d.block = agent.last.block
      BY <2>1, <2>2 DEF Unreachable, Decision
  <2>4. Apply(agent.cfg, d) BY <1>4, <2>1
  <2>5. said' \in BOOLEAN BY <1>1 DEF AgentInv, TypeOK
  <2> QED BY <1>1, <2>3, <2>4, <2>5, Applies
<1> QED BY <1>2, <1>3, <1>4 DEF Ask

LEMMA DecideKeeps == ASSUME AgentInv, Decide PROVE AgentInv'
<1>1. /\ agent \in Process /\ agent.pc = "decide" /\ agent.cfg \in Configs
      /\ UNCHANGED <<server, hosts, exit>>
    BY DEF AgentInv, TypeOK, Asking, Decide
<1>2. PICK block : block = Evaluate(agent.cfg, agent.seen) OBVIOUS
<1>3. block \in BOOLEAN BY <1>2 DEF Evaluate
<1>4. PICK d : d = [block |-> block, from |-> "tasks"] OBVIOUS
<1>5. d \in Decision /\ d.from = "tasks" /\ d.block = block BY <1>3, <1>4 DEF Decision
<1>6. Apply(agent.cfg, d) /\ said' = block BY <1>2, <1>4 DEF Decide
<1>7. said' \in BOOLEAN BY <1>3, <1>6
<1> QED BY <1>1, <1>5, <1>6, <1>7, Applies

LEMMA ReadHostsKeeps == ASSUME AgentInv, ReadHosts PROVE AgentInv'
<1>1. /\ agent \in Process /\ agent.pc = "apply" /\ hosts \in Seq(Line) /\ Whole(hosts)
      /\ UNCHANGED <<server, hosts, said>>
    BY DEF AgentInv, TypeOK, Files, ReadHosts
<1>2. ~Panics(hosts) BY <1>1, WholeFacts
<1>3. UNCHANGED exit
      /\ (Go("wait") \/ agent' = [agent EXCEPT !.pc = "write", !.file = hosts])
  <2>1. CASE ~Editing BY <2>1 DEF ReadHosts
  <2>2. CASE Editing BY <1>2, <2>2 DEF ReadHosts
  <2> QED BY <2>1, <2>2
<1>4. ASSUME Go("wait") PROVE AgentInv'
  <2>1. agent' \in Process /\ agent'.pc = "wait" /\ agent'.last = agent.last
      BY <1>1, <1>4 DEF Go, Process
  <2> QED BY <1>1, <1>3, <2>1, Waits
<1>5. ASSUME agent' = [agent EXCEPT !.pc = "write", !.file = hosts] PROVE AgentInv'
  <2>1. /\ agent' \in Process /\ agent'.pc = "write" /\ agent'.file = hosts
        /\ agent'.last = agent.last /\ agent'.decision = agent.decision
      BY <1>1, <1>5 DEF Process
  <2>2. TypeOK' BY <1>1, <1>3, <2>1 DEF AgentInv, TypeOK
  <2>3. Asking' BY <2>1 DEF Asking
  <2>4. Files' BY <1>1, <1>3, <2>1, SameOthersFacts DEF AgentInv, Files
  <2>5. exit.quiet = FALSE
    <3>1. exit.quiet \in BOOLEAN BY DEF AgentInv, TypeOK, Exiting
    <3> QED BY <1>1, <3>1 DEF AgentInv, Quiet
  <2>6. Quiet' BY <1>3, <2>5 DEF Quiet
  <2>7. Heard' BY <1>1, <2>1 DEF AgentInv, Heard
  <2> QED BY <2>2, <2>3, <2>4, <2>6, <2>7 DEF AgentInv
<1> QED BY <1>3, <1>4, <1>5

\* What the poll loop writes.
LEMMA EditedFacts ==
  ASSUME AgentInv, agent.pc = "write"
  PROVE  /\ Edited \in Seq(Line) /\ Whole(Edited) /\ SameOthers(agent.file, Edited)
         /\ Blocks => \E i \in DOMAIN Edited : Edited[i].kind = "name"
<1>1. agent \in Process /\ agent.file \in Seq(Line) /\ Whole(agent.file)
    BY DEF AgentInv, TypeOK, Files, Process
<1>2. agent.cfg \in Configs \cup {NoConfig} BY <1>1 DEF Process
<1>3. CASE Blocks
  <2>1. PICK domains : domains = agent.cfg.domains OBVIOUS
  <2>2. domains \in SUBSET STRING /\ IsFiniteSet(domains) /\ domains # {}
      BY <1>2, <1>3, <2>1, ConfigFacts DEF Blocks
  <2>3. Edited = Applied(agent.file, domains) BY <1>3, <2>1 DEF Edited
  <2>4. /\ Applied(agent.file, domains) \in Seq(Line) /\ Whole(Applied(agent.file, domains))
        /\ SameOthers(agent.file, Applied(agent.file, domains))
        /\ \E i \in DOMAIN Applied(agent.file, domains) :
             Applied(agent.file, domains)[i].kind = "name"
      BY <1>1, <2>2, AppliedFacts
  <2> QED BY <2>3, <2>4
<1>4. CASE ~Blocks
  <2>1. Edited = Removed(agent.file) BY <1>4 DEF Edited
  <2> QED BY <1>1, <1>4, <2>1, RemovedFacts DEF Whole
<1> QED BY <1>3, <1>4

LEMMA WriteHostsKeeps == ASSUME AgentInv, WriteHosts PROVE AgentInv'
<1>1. /\ agent \in Process /\ agent.pc = "write" /\ hosts \in Seq(Line) /\ Whole(hosts)
      /\ UNCHANGED <<server, exit, said>>
    BY DEF AgentInv, TypeOK, Files, WriteHosts
<1>2. hosts' = Edited \/ hosts' = hosts BY DEF WriteHosts, Replace
<1>3. /\ hosts' \in Seq(Line) /\ Whole(hosts')
      /\ ~EditsRace => SameOthers(hosts, hosts')
  <2>1. CASE hosts' = hosts BY <1>1, <2>1, SameOthersFacts
  <2>2. CASE hosts' = Edited
    <3>1. /\ Edited \in Seq(Line) /\ Whole(Edited) /\ SameOthers(agent.file, Edited)
        BY <1>1, EditedFacts
    <3>2. ~EditsRace => SameOthers(agent.file, hosts) BY <1>1 DEF AgentInv, Files
    <3> QED BY <2>2, <3>1, <3>2, SameOthersFacts
  <2> QED BY <1>2, <2>1, <2>2
<1>4. agent' = [agent EXCEPT !.pc = "wait", !.file = <<>>] BY DEF WriteHosts
<1>5. <<>> \in Seq(Line) OBVIOUS
<1>6. /\ agent' \in Process /\ agent'.pc = "wait" /\ agent'.last = agent.last
    BY <1>1, <1>4, <1>5 DEF Process
<1>7. TypeOK' BY <1>1, <1>3, <1>6 DEF AgentInv, TypeOK
<1>8. Asking' BY <1>6 DEF Asking
<1>9. Files'
  <2>1. Whole(hosts') /\ agent'.pc # "write" BY <1>3, <1>6
  <2>2. ASSUME exit.pc = "write"
        PROVE  Whole(exit.file) /\ (~EditsRace => SameOthers(exit.file, hosts'))
    <3>1. Whole(exit.file) /\ (~EditsRace => SameOthers(exit.file, hosts))
        BY <2>2 DEF AgentInv, Files
    <3> QED BY <1>3, <3>1, OthersChain
  <2> QED BY <1>1, <2>1, <2>2 DEF Files
<1>10. exit.quiet = FALSE
  <2>1. exit.quiet \in BOOLEAN BY DEF AgentInv, TypeOK, Exiting
  <2> QED BY <1>1, <2>1 DEF AgentInv, Quiet
<1>11. Quiet' BY <1>1, <1>10 DEF Quiet
<1>12. Heard' BY <1>1, <1>6 DEF AgentInv, Heard
<1> QED BY <1>7, <1>8, <1>9, <1>11, <1>12 DEF AgentInv
-----------------------------------------------------------------------------
(* The end of the process, the signals and everybody else.                 *)

LEMMA StartKeeps == ASSUME AgentInv, StartAgent PROVE AgentInv'
<1>1. PICK elevated \in BOOLEAN :
        agent' = [Off EXCEPT !.pc = "fetch", !.elevated = elevated]
  <2>1. WritesFail \in BOOLEAN OBVIOUS
  <2> QED BY <2>1 DEF StartAgent
<1>2. Off \in Process /\ Off.last.from = "none" BY DEF Off, Process, Decision, NoDecision
<1>3. agent' \in Process /\ agent'.pc = "fetch" /\ agent'.last.from = "none"
    BY <1>1, <1>2 DEF Process
<1>4. exit' \in Exiting /\ exit'.pc = "no" /\ exit'.quiet = FALSE
    BY DEF StartAgent, NotExiting, Exiting
<1>5. UNCHANGED <<server, hosts, said>> BY DEF StartAgent
<1>6. TypeOK' BY <1>3, <1>4, <1>5 DEF AgentInv, TypeOK
<1> QED BY <1>3, <1>4, <1>5, <1>6 DEF AgentInv, Asking, Files, Quiet, Heard

LEMMA ReturnKeeps == ASSUME AgentInv, Return PROVE AgentInv'
<1>1. /\ agent \in Process /\ exit \in Exiting /\ agent.pc = "wait"
      /\ UNCHANGED <<server, hosts, said>>
    BY DEF AgentInv, TypeOK, Return
<1>2. /\ agent' \in Process /\ agent'.pc = "returned" /\ agent'.last = agent.last
    BY <1>1 DEF Return, Go, Process
<1>3. exit.quiet = FALSE
  <2>1. exit.quiet \in BOOLEAN BY <1>1 DEF Exiting
  <2> QED BY <1>1, <2>1 DEF AgentInv, Quiet
<1>4. /\ exit' \in Exiting /\ (exit'.pc = "write" => exit' = exit)
      /\ (exit'.pc = "cleaned" => exit'.quiet = FALSE)
  <2>1. CASE exit.pc = "no"
    <3>1. exit' = [pc |-> "remove", file |-> <<>>, quiet |-> TRUE]
        BY <2>1 DEF Return, NotExiting
    <3>2. <<>> \in Seq(Line) OBVIOUS
    <3> QED BY <3>1, <3>2 DEF Exiting
  <2>2. CASE exit.pc # "no"
    <3>1. exit' = exit BY <2>2 DEF Return
    <3> QED BY <1>1, <1>3, <3>1
  <2> QED BY <2>1, <2>2
<1>5. TypeOK' BY <1>1, <1>2, <1>4 DEF AgentInv, TypeOK
<1>6. Files' BY <1>1, <1>2, <1>4 DEF AgentInv, Files
<1>7. Asking' /\ Heard' BY <1>1, <1>2 DEF Asking, AgentInv, Heard
<1>8. Quiet' BY <1>2, <1>4 DEF Quiet
<1> QED BY <1>5, <1>6, <1>7, <1>8 DEF AgentInv

LEMMA SignalKeeps == ASSUME AgentInv, Signal PROVE AgentInv'
<1>1. /\ agent \in Process /\ agent' = [agent EXCEPT !.stopping = TRUE]
      /\ UNCHANGED <<server, hosts, exit, said>>
    BY DEF AgentInv, TypeOK, Signal
<1>2. /\ agent' \in Process /\ agent'.pc = agent.pc /\ agent'.last = agent.last
      /\ agent'.decision = agent.decision /\ agent'.file = agent.file
      /\ agent'.cfg = agent.cfg /\ agent'.asked = agent.asked
    BY <1>1 DEF Process
<1>3. TypeOK' BY <1>1, <1>2 DEF AgentInv, TypeOK
<1>4. Asking' BY <1>2 DEF AgentInv, Asking
<1>5. Files' BY <1>1, <1>2 DEF AgentInv, Files
<1>6. Quiet' BY <1>1, <1>2 DEF AgentInv, Quiet
<1>7. Heard' BY <1>1, <1>2 DEF AgentInv, Heard
<1> QED BY <1>3, <1>4, <1>5, <1>6, <1>7 DEF AgentInv

\* The poll loop goes on as it was: what is left to show is about the exit.
LEMMA ExitGoesOn ==
  ASSUME AgentInv, UNCHANGED <<server, agent, said>>,
         exit' \in Exiting, hosts' \in Seq(Line), Whole(hosts'),
         ~EditsRace => SameOthers(hosts, hosts'),
         exit'.pc = "write" => Whole(exit'.file) /\ (~EditsRace => SameOthers(exit'.file, hosts')),
         exit'.quiet => exit.quiet,
         exit'.quiet /\ exit'.pc = "cleaned" => Clean(hosts')
  PROVE  AgentInv'
<1>1. TypeOK' BY DEF AgentInv, TypeOK
<1>2. Asking' BY DEF AgentInv, Asking
<1>3. Heard' BY DEF AgentInv, Heard
<1>4. Quiet' BY DEF AgentInv, Quiet
<1>5. agent.pc = "write" => Whole(agent.file)
                            /\ (~EditsRace => SameOthers(agent.file, hosts'))
    BY OthersChain DEF AgentInv, Files
<1>6. Files'
  <2>1. agent'.pc = "write" => Whole(agent'.file)
                               /\ (~EditsRace => SameOthers(agent'.file, hosts'))
      BY <1>5
  <2> QED BY <2>1 DEF Files
<1> QED BY <1>1, <1>2, <1>3, <1>4, <1>6 DEF AgentInv

LEMMA ExitMenuKeeps == ASSUME AgentInv, ExitMenu PROVE AgentInv'
<1>1. exit' \in Exiting /\ exit'.pc = "remove" /\ exit'.quiet = FALSE
  <2>1. exit' = [pc |-> "remove", file |-> <<>>, quiet |-> FALSE]
      BY DEF ExitMenu, NotExiting
  <2>2. <<>> \in Seq(Line) OBVIOUS
  <2> QED BY <2>1, <2>2 DEF Exiting
<1>2. UNCHANGED <<server, agent, said, hosts>> BY DEF ExitMenu
<1>3. hosts' \in Seq(Line) /\ Whole(hosts') /\ SameOthers(hosts, hosts')
    BY <1>2, SameOthersFacts DEF AgentInv, TypeOK, Files
<1> QED BY <1>1, <1>2, <1>3, ExitGoesOn

LEMMA OnExitKeeps == ASSUME AgentInv, OnExit PROVE AgentInv'
<1>1. /\ exit \in Exiting /\ hosts \in Seq(Line) /\ Whole(hosts)
      /\ UNCHANGED <<server, hosts, said>>
    BY DEF AgentInv, TypeOK, Files, OnExit
<1>2. ~Panics(hosts) BY <1>1, WholeFacts
<1>3. /\ exit' = IF Found(hosts) THEN [exit EXCEPT !.pc = "write", !.file = hosts]
                 ELSE [exit EXCEPT !.pc = "cleaned"]
      /\ UNCHANGED agent
    BY <1>2 DEF OnExit
<1>4. hosts' \in Seq(Line) /\ Whole(hosts') /\ SameOthers(hosts, hosts')
    BY <1>1, SameOthersFacts
<1>5. CASE Found(hosts)
  <2>1. exit' = [exit EXCEPT !.pc = "write", !.file = hosts] BY <1>3, <1>5
  <2>2. /\ exit' \in Exiting /\ exit'.pc = "write" /\ exit'.file = hosts
        /\ exit'.quiet = exit.quiet
      BY <1>1, <2>1 DEF Exiting
  <2>3. Whole(exit'.file) /\ SameOthers(exit'.file, hosts') BY <1>1, <1>4, <2>2
  <2> QED BY <1>1, <1>3, <1>4, <2>2, <2>3, ExitGoesOn
<1>6. CASE ~Found(hosts)
  <2>1. exit' = [exit EXCEPT !.pc = "cleaned"] BY <1>3, <1>6
  <2>2. exit' \in Exiting /\ exit'.pc = "cleaned" /\ exit'.quiet = exit.quiet
      BY <1>1, <2>1 DEF Exiting
  <2>3. Clean(hosts') BY <1>1, <1>6, WholeKept
  <2> QED BY <1>1, <1>3, <1>4, <2>2, <2>3, ExitGoesOn
<1> QED BY <1>5, <1>6

LEMMA CleanUpKeeps == ASSUME AgentInv, CleanUp PROVE AgentInv'
<1>1. /\ exit \in Exiting /\ exit.pc = "write" /\ exit.file \in Seq(Line)
      /\ hosts \in Seq(Line) /\ Whole(hosts) /\ Whole(exit.file)
      /\ ~EditsRace => SameOthers(exit.file, hosts)
      /\ UNCHANGED <<server, agent, said>>
    BY DEF AgentInv, TypeOK, Files, CleanUp, Exiting
<1>2. PICK g : g = Removed(exit.file) OBVIOUS
<1>3. g \in Seq(Line) /\ Clean(g) /\ Whole(g) /\ SameOthers(exit.file, g)
    BY <1>1, <1>2, RemovedFacts DEF Whole
<1>4. hosts' = g \/ hosts' = hosts BY <1>2 DEF CleanUp, Replace
<1>5. hosts' \in Seq(Line) /\ Whole(hosts') BY <1>1, <1>3, <1>4
<1>6. ~EditsRace => SameOthers(hosts, hosts')
    BY <1>1, <1>3, <1>4, SameOthersFacts
<1>7. exit' = [exit EXCEPT !.pc = IF hosts' = g THEN "cleaned" ELSE "failed", !.file = <<>>]
    BY <1>2 DEF CleanUp
<1>8. /\ exit' \in Exiting /\ exit'.pc # "write" /\ exit'.quiet = exit.quiet
      /\ exit'.pc = "cleaned" => hosts' = g
  <2>1. <<>> \in Seq(Line) OBVIOUS
  <2>2. PICK pc : pc = (IF hosts' = g THEN "cleaned" ELSE "failed") OBVIOUS
  <2>3. exit' = [exit EXCEPT !.pc = pc, !.file = <<>>] BY <1>7, <2>2
  <2>4. pc \in {"cleaned", "failed"} BY <2>2
  <2>5. exit' \in Exiting /\ exit'.pc = pc /\ exit'.quiet = exit.quiet
      BY <1>1, <2>1, <2>3, <2>4 DEF Exiting
  <2> QED BY <2>2, <2>4, <2>5
<1> QED BY <1>1, <1>3, <1>5, <1>6, <1>8, ExitGoesOn

LEMMA EndKeeps == ASSUME AgentInv, End PROVE AgentInv'
<1>1. agent' \in Process /\ agent'.pc = "off" /\ agent'.last.from = "none"
    BY DEF End, Off, Process, Decision, NoDecision
<1>2. UNCHANGED <<server, hosts, exit, said>> BY DEF End
<1>3. TypeOK' BY <1>1, <1>2 DEF AgentInv, TypeOK
<1>4. Files' BY <1>1, <1>2 DEF AgentInv, Files
<1>5. Quiet' BY <1>1, <1>2 DEF AgentInv, Quiet
<1> QED BY <1>1, <1>3, <1>4, <1>5 DEF AgentInv, Asking, Heard

LEMMA ServerKeeps == ASSUME AgentInv, ServerChanges PROVE AgentInv'
<1> DEFINE S == [reachable : BOOLEAN, keyValid : BOOLEAN, config : Configs \cup {None},
                 facts : SUBSET Conditions]
<1>1. server \in S BY DEF AgentInv, TypeOK
<1>2. server' \in S
  <2>1. Asked \subseteq Conditions BY ConfigFacts DEF Asked
  <2>2. CASE server' = [server EXCEPT !.reachable = ~@] BY <1>1, <2>2
  <2>3. CASE \E c \in Configs : server' = [server EXCEPT !.config = c] BY <1>1, <2>3
  <2>4. CASE \E facts \in SUBSET Asked : server' = [server EXCEPT !.facts = facts]
      BY <1>1, <2>1, <2>4
  <2>5. CASE server' = [server EXCEPT !.keyValid = FALSE] BY <1>1, <2>5
  <2>6. CASE server' = [server EXCEPT !.keyValid = TRUE] BY <1>1, <2>6
  <2> QED BY <2>2, <2>3, <2>4, <2>5, <2>6 DEF ServerChanges
<1>3. UNCHANGED <<hosts, agent, exit, said>> BY DEF ServerChanges
<1>4. TypeOK' BY <1>2, <1>3 DEF AgentInv, TypeOK
<1> QED BY <1>3, <1>4 DEF AgentInv, Asking, Files, Quiet, Heard

LEMMA OthersEditKeeps == ASSUME AgentInv, OthersEdit PROVE AgentInv'
<1>1. hosts \in Seq(Line) /\ Whole(hosts) /\ UNCHANGED <<server, agent, exit, said>>
    BY DEF AgentInv, TypeOK, Files, OthersEdit
<1>2. PICK t \in Others : hosts' = Append(hosts, Other(t)) BY DEF OthersEdit
<1>3. Other(t) \in Line /\ Other(t).kind = "other" BY LineFacts DEF Other
<1>4. hosts' \in Seq(Line) /\ Whole(hosts') /\ (Clean(hosts) => Clean(hosts'))
    BY <1>1, <1>2, <1>3, AppendFacts
<1>5. EditsRace \/ (agent.pc # "write" /\ exit.pc # "write")
    BY DEF OthersEdit, BeingEdited
<1>6. TypeOK' BY <1>1, <1>4 DEF AgentInv, TypeOK
<1>7. Files' BY <1>1, <1>4, <1>5 DEF AgentInv, Files
<1>8. Quiet' BY <1>1, <1>4 DEF AgentInv, Quiet
<1> QED BY <1>1, <1>6, <1>7, <1>8 DEF AgentInv, Asking, Heard

LEMMA AgentInvStep == AgentInv /\ [Next]_vars => AgentInv'
<1> SUFFICES ASSUME AgentInv, [Next]_vars PROVE AgentInv'
    OBVIOUS
<1>1. CASE UNCHANGED vars
    BY <1>1 DEF vars, AgentInv, TypeOK, Asking, Files, Quiet, Heard
<1>2. CASE Crash BY <1>2, Dies DEF Crash
<1>3. CASE StartAgent \/ Poll \/ Return \/ Fetch \/ Ask \/ Decide \/ ReadHosts \/ WriteHosts
    BY <1>3, StartKeeps, PollKeeps, ReturnKeeps, FetchKeeps, AskKeeps, DecideKeeps,
       ReadHostsKeeps, WriteHostsKeeps
<1>4. CASE Signal \/ ExitMenu \/ OnExit \/ CleanUp \/ End \/ ServerChanges \/ OthersEdit
    BY <1>4, SignalKeeps, ExitMenuKeeps, OnExitKeeps, CleanUpKeeps, EndKeeps, ServerKeeps,
       OthersEditKeeps
<1> QED BY <1>1, <1>2, <1>3, <1>4 DEF Next
LEMMA AgentInvAlways == Spec => []AgentInv
  BY AgentInvInit, AgentInvStep, PTL DEF Spec

-----------------------------------------------------------------------------
(* The theorems.                                                           *)

\* The variables keep their types: what the edits write back is a file again.
THEOREM AgentTypeCorrect == Spec => []TypeOK
<1>1. AgentInv => TypeOK BY DEF AgentInv
<1> QED BY <1>1, AgentInvAlways, PTL

\* However often the process is killed, locked out of the file or interleaved
\* with its own exit and with other programs (`hosts.Apply`, `hosts.Remove`), the
\* file holds at most one block, with both markers around the redirected names.
THEOREM OneBlockOnly == Spec => []OneBlock
<1>1. AgentInv => OneBlock
  <2> SUFFICES ASSUME AgentInv PROVE OneBlock
      OBVIOUS
  <2>1. hosts \in Seq(Line) /\ Whole(hosts) BY DEF AgentInv, TypeOK, Files
  <2> QED BY <2>1, WholeFacts DEF OneBlock
<1> QED BY <1>1, AgentInvAlways, PTL

\* A process whose poll loop had returned when OnExit ran, and whose OnExit wrote
\* the file, leaves nothing blocked behind (`run` returns before the tray quits).
THEOREM CleansUpOnExit == Spec => []CleanExit
<1>1. AgentInv => CleanExit BY DEF AgentInv, Quiet, CleanExit, Blocked, Clean
<1> QED BY <1>1, AgentInvAlways, PTL

\* Unless somebody edits the file while the agent rewrites it, no step takes a
\* line of another program away ("Nunca tocamos em nenhuma linha fora deste
\* bloco").
THEOREM OthersLinesKept ==
  ASSUME EditsRace = FALSE
  PROVE  Spec => OthersKept
<1>1. AgentInv /\ [Next]_vars =>
        [\A t \in Others : Other(t) \in Range(hosts) => Other(t) \in Range(hosts')]_vars
  <2> SUFFICES ASSUME AgentInv, Next, NEW t \in Others, Other(t) \in Range(hosts)
               PROVE  Other(t) \in Range(hosts')
      BY DEF vars, Range
  <2> DEFINE l == Other(t)
  <2>1. l \in Line /\ l.kind = "other" BY LineFacts DEF Other
  <2>2. hosts \in Seq(Line) /\ Whole(hosts) BY DEF AgentInv, TypeOK, Files
  <2>3. SameOthers(hosts, hosts') \/ Has(hosts', l)
    <3>1. CASE UNCHANGED hosts BY <3>1, SameOthersFacts
    <3>2. CASE WriteHosts
      <4>1. agent.pc = "write" BY <3>2 DEF WriteHosts
      <4>2. SameOthers(agent.file, Edited) BY <4>1, EditedFacts
      <4>3. SameOthers(agent.file, hosts) BY <4>1 DEF AgentInv, Files
      <4>4. hosts' = Edited \/ hosts' = hosts BY <3>2 DEF WriteHosts, Replace
      <4> QED BY <4>2, <4>3, <4>4, SameOthersFacts
    <3>3. CASE CleanUp
      <4>1. exit.pc = "write" /\ exit.file \in Seq(Line) /\ Whole(exit.file)
          BY <3>3 DEF CleanUp, AgentInv, TypeOK, Exiting, Files
      <4>2. SameOthers(exit.file, Removed(exit.file)) BY <4>1, RemovedFacts
      <4>3. SameOthers(exit.file, hosts) BY <4>1 DEF AgentInv, Files
      <4>4. hosts' = Removed(exit.file) \/ hosts' = hosts BY <3>3 DEF CleanUp, Replace
      <4> QED BY <4>2, <4>3, <4>4, SameOthersFacts
    <3>4. CASE OthersEdit
      <4>1. PICK u \in Others : hosts' = Append(hosts, Other(u)) BY <3>4 DEF OthersEdit
      <4>2. Other(u) \in Line /\ Other(u).kind = "other" BY LineFacts DEF Other
      <4>3. Has(hosts, l) BY DEF Has, Range
      <4> QED BY <2>2, <4>1, <4>2, <4>3, AppendFacts
    <3> QED BY <3>1, <3>2, <3>3, <3>4
        DEF Next, StartAgent, Poll, Return, Fetch, Ask, Decide, ReadHosts, Signal,
            ExitMenu, OnExit, End, Crash, ServerChanges
  <2>4. Has(hosts, l) BY DEF Has, Range
  <2>5. Has(hosts', l) BY <2>1, <2>3, <2>4 DEF SameOthers
  <2> QED BY <2>5 DEF Has, Range
<1> QED BY <1>1, AgentInvAlways, PTL DEF Spec, OthersKept

\* In failMode CLOSED an agent that cannot read the tasks keeps what they told
\* it: the write that follows a decision kept (buildKeptDecision) leaves the names
\* of a file that had some and was last told to block.
THEOREM FailClosedHolds == Spec => FailClosedKeeps
<1>1. AgentInv /\ [Next]_vars =>
        [EditsUnheard /\ agent.last.from = "tasks" => (Blocked /\ said => Blocked')]_vars
  <2> SUFFICES ASSUME AgentInv, Next, EditsUnheard, agent.last.from = "tasks",
                      Blocked, said
               PROVE  Blocked'
      BY DEF vars, Blocked
  <2>1. /\ agent.pc = "write" /\ agent.decision.from = "kept" /\ agent.cfg.domains # {}
        /\ agent' # agent
      BY DEF EditsUnheard
  <2>2. agent.decision.block = agent.last.block /\ said = agent.last.block
      BY <2>1 DEF AgentInv, Heard
  <2>3. Blocks BY <2>1, <2>2 DEF Blocks
  <2>4. \E i \in DOMAIN Edited : Edited[i].kind = "name"
      BY <2>1, <2>3, EditedFacts
  <2>5. CASE WriteHosts
    <3>1. hosts' = Edited \/ hosts' = hosts BY <2>5 DEF WriteHosts, Replace
    <3> QED BY <2>4, <3>1 DEF Blocked
  <2>6. CASE UNCHANGED hosts BY <2>6 DEF Blocked
  <2>7. CASE CleanUp \/ OthersEdit BY <2>1, <2>7 DEF CleanUp, OthersEdit
  <2> QED BY <2>5, <2>6, <2>7
      DEF Next, StartAgent, Poll, Return, Fetch, Ask, Decide, ReadHosts, Signal,
          ExitMenu, OnExit, End, Crash, ServerChanges
<1> QED BY <1>1, AgentInvAlways, PTL DEF Spec, FailClosedKeeps
=============================================================================
