--------------------------- MODULE MCBlockingAgent ---------------------------
(* An instance of BlockingAgent for TLC.                                   *)
EXTENDS BlockingAgent

VARIABLE about        \* what disturbs the agent in this behaviour

Sites == {"video"}
Config(domains, failMode, mode, rules) ==
  [domains |-> domains, failMode |-> failMode, mode |-> mode, rules |-> rules]
Strict == Config(Sites, "CLOSED", "ANY", {"focus"})
Several == {Config(Sites, "CLOSED", mode, {"focus", "overdue"}) : mode \in {"ANY", "ALL"}}
             \cup {Config(Sites, "OPEN", "ALL", {})}
MCConfigs == {Strict} \cup Several
MCOthers == {"vpn"}

\* Bounds: with signals, exits, crashes, failing writes and other programs, one
\* configuration comes and goes; among several ones the agent is not disturbed,
\* but for a signal.
Undisturbed ==
  /\ agent'.pc = "off" => ~Running \/ exit.quiet
  /\ agent'.pc # "off" => agent'.elevated
  /\ exit'.pc # "no" => exit'.quiet
  /\ agent.pc = "write" /\ agent'.pc = "wait" => hosts' = Edited
  /\ \A t \in Others : Other(t) \notin Range(hosts')

MixedInit ==
  /\ Init /\ about \in {"faults", "changes"}
  /\ server.config \in {None} \cup (IF about = "faults" THEN {Strict} ELSE Several)
MixedNext ==
  /\ Next /\ UNCHANGED about
  /\ IF about = "faults" THEN server'.config \in {None, Strict} /\ server'.facts \subseteq {"focus"}
     ELSE server'.config \in {None} \cup Several /\ Undisturbed
MixedSpec == MixedInit /\ [][MixedNext]_<<vars, about>> /\ Fairness
=============================================================================
