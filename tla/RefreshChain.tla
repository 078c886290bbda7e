---------------------------- MODULE RefreshChain ----------------------------
(***************************************************************************)
(* What the backend promises about the refresh tokens of a device session  *)
(* (class comment of UserSessionsService), with no transactions, memory,   *)
(* or requests: a session opens once, its tokens form one chain without    *)
(* forks, a token is exchanged while it is the current one or, once and    *)
(* within the window, while it is the one just replaced, and a session     *)
(* that ended never has another token.                                     *)
(***************************************************************************)
EXTENDS Integers

CONSTANTS Sessions, None, GraceWindow

VARIABLE chain

\* current replaced `replaced` at instant `at`, in exchange for `presented`.
Link(life, current, presented, replaced, at) ==
  [life |-> life, current |-> current, presented |-> presented,
   replaced |-> replaced, at |-> at]

Fresh == Link("fresh", 0, None, None, 0)
Ended == Link("ended", 0, None, None, 0)

Tolerated(c) == c.presented # c.replaced

Open(s) ==
  /\ chain[s] = Fresh
  /\ chain'[s] = Link("live", chain'[s].current, None, None, 0)

MayExchange(c, token, at) ==
  \/ token = c.current
  \/ /\ token = c.replaced
     /\ ~Tolerated(c)
     /\ c.at <= at
     /\ at - c.at <= GraceWindow

Rotate(s) ==
  LET c == chain[s]
      d == chain'[s]
  IN
  /\ c.life = "live" /\ d.life = "live"
  /\ d.replaced = c.current
  /\ d.current > c.current
  /\ MayExchange(c, d.presented, d.at)

\* Revoked, expired and cleaned up, or cut by the global switch.
End(s) == chain[s].life = "live" /\ chain'[s] = Ended

Init == chain = [s \in Sessions |-> Fresh]

\* One step may end many sessions.
Next == \A s \in Sessions :
          Open(s) \/ Rotate(s) \/ End(s) \/ chain'[s] = chain[s]

Spec == Init /\ [][Next]_chain
=============================================================================
