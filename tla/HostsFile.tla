------------------------------ MODULE HostsFile ------------------------------
(***************************************************************************)
(* How the Windows agent edits the hosts file (internal/blocker/hosts.go): *)
(* it owns the lines between two markers and rewrites the file around      *)
(* them.  A line is what the scanner tells apart: a start marker (current  *)
(* or legacy), an end marker, a redirected name, or a line of somebody     *)
(* else.  One line stands for the four that a blocked domain gets.         *)
(***************************************************************************)
EXTENDS Integers, SequencesExt

Start == [kind |-> "start", text |-> ""]
EndMark == [kind |-> "end", text |-> ""]
Name(d) == [kind |-> "name", text |-> d]
Other(t) == [kind |-> "other", text |-> t]
Line == {Start, EndMark} \cup [kind : {"name", "other"}, text : STRING]

Starts(f) == {i \in DOMAIN f : f[i].kind = "start"}
Ends(f) == {i \in DOMAIN f : f[i].kind = "end"}

\* Line i comes after a start marker with no end marker in between.
InBlock(f, i) ==
  \E j \in Starts(f) : j < i /\ \A k \in Ends(f) : ~(j < k /\ k < i)

\* `lines` of readWithoutManagedBlock: neither markers nor what they enclose.
KeptIndices(f) == {i \in DOMAIN f : f[i].kind \in {"name", "other"} /\ ~InBlock(f, i)}
KeptBefore(f, i) == Cardinality({k \in KeptIndices(f) : k < i})
Lines(f) ==
  [n \in 1 .. Cardinality(KeptIndices(f)) |->
     f[CHOOSE i \in KeptIndices(f) : KeptBefore(f, i) = n - 1]]

\* blockStart and blockEnd: the last marker of each kind wins; -1 for none.
BlockAt(f, markers) == IF markers = {} THEN -1 ELSE KeptBefore(f, Max(markers))
Found(f) == Starts(f) # {}
Panics(f) == Found(f) /\ Ends(f) = {}         \* lines[-1:]

Around(f, block) ==
  LET lines == Lines(f)
      from == IF Found(f) THEN BlockAt(f, Starts(f)) ELSE Len(lines)
      to == IF Found(f) THEN BlockAt(f, Ends(f)) ELSE Len(lines)
  IN SubSeq(lines, 1, from) \o block \o SubSeq(lines, to + 1, Len(lines))

\* buildManagedBlock, of at least one domain.
ManagedBlock(domains) == <<Start>> \o SetToSeq({Name(d) : d \in domains}) \o <<EndMark>>

AppliedAtTheEnd(f, domains) == f \o ManagedBlock(domains)        \* a mutant
Applied(f, domains) == Around(f, ManagedBlock(domains))

RemovedWithNext(f) ==                                            \* a mutant
  SubSeq(Lines(f), 1, BlockAt(f, Starts(f)))
    \o SubSeq(Lines(f), BlockAt(f, Ends(f)) + 2, Len(Lines(f)))
Removed(f) == Around(f, <<>>)
=============================================================================
