---------------------------- MODULE BlockingAgent ----------------------------
(***************************************************************************)
(* The Windows agent (src/agent): one process that polls the backend,      *)
(* decides whether sites are to be blocked, and edits the hosts file,      *)
(* which other programs edit too.  The poll loop (`agent`) and the end of  *)
(* the process (`exit`: hosts.Remove in OnExit) run concurrently when the  *)
(* user chooses Exit in the tray.  The backend and the account behind it   *)
(* (`server`) and the hosts file outlive the process.                      *)
(***************************************************************************)
EXTENDS HostsFile, FiniteSets

CONSTANTS
  Configs,       \* configurations the user may save on the /agent page
  Others,        \* lines other programs add to the hosts file
  None,
  ExitByMenu,    \* disturbances of the instance: Exit in the tray,
  Crashes,       \*   the process is killed,
  WritesFail,    \*   the hosts file is locked or the agent is not elevated,
  EditsRace      \*   others edit the file while the agent is editing it

\* The conditions of TriggerRules, by the endpoint each is read from; the
\* account is followed in those that some configuration asks about.
Conditions == {"today", "checkins", "overdue", "focus"}
Asked == UNION {c.rules : c \in Configs}

ASSUME AgentAssumption ==
  /\ Configs \subseteq [domains : SUBSET STRING, failMode : {"OPEN", "CLOSED"},
                        mode : {"ANY", "ALL"}, rules : SUBSET Conditions]
  /\ \A c \in Configs : IsFiniteSet(c.domains)
  /\ Others \subseteq STRING
  /\ {ExitByMenu, Crashes, WritesFail, EditsRace} \subseteq BOOLEAN
  /\ None \notin Configs

VARIABLES
  server,   \* [reachable, keyValid, config or None, facts: conditions that hold]
  hosts,    \* the hosts file
  agent,    \* the process and its poll loop
  exit,     \* OnExit: [pc, file, quiet: whether the poll loop had returned before]
  said      \* the last verdict about the tasks this computer heard, for the
            \* properties: it outlives the process

vars == <<server, hosts, agent, exit, said>>

Decision == [block : BOOLEAN, from : {"none", "tasks", "failOpen", "kept", "revoked"}]
NoDecision == [block |-> FALSE, from |-> "none"]
NoConfig == [domains |-> {}, failMode |-> "CLOSED", mode |-> "ANY", rules |-> {}]

Off == [pc |-> "off", stopping |-> FALSE, elevated |-> FALSE, remote |-> None,
        last |-> NoDecision, cfg |-> NoConfig, decision |-> NoDecision,
        seen |-> {}, asked |-> {}, file |-> <<>>]
NotExiting == [pc |-> "no", file |-> <<>>, quiet |-> FALSE]

Process ==
  [pc : {"off", "wait", "fetch", "decide", "apply", "write", "returned"},
   stopping : BOOLEAN, elevated : BOOLEAN,
   remote : Configs \cup {None}, cfg : Configs \cup {NoConfig},
   last : {d \in Decision : d.from # "kept"},        \* never an annotated one
   decision : Decision, seen : SUBSET Conditions, asked : SUBSET Conditions,
   file : Seq(Line)]
Exiting == [pc : {"no", "remove", "write", "cleaned", "failed"}, file : Seq(Line),
            quiet : BOOLEAN]

TypeOK ==
  /\ server \in [reachable : BOOLEAN, keyValid : BOOLEAN, config : Configs \cup {None},
                 facts : SUBSET Conditions]
  /\ hosts \in Seq(Line)
  /\ agent \in Process
  /\ exit \in Exiting
  /\ said \in BOOLEAN

Init ==
  /\ server \in [reachable : {TRUE}, keyValid : {TRUE}, config : Configs \cup {None},
                 facts : {{}}]
  /\ hosts \in {<<>>} \cup {ManagedBlock(c.domains) : c \in {d \in Configs : d.domains # {}}}
  /\ agent = Off
  /\ exit = NotExiting
  /\ said = FALSE

-----------------------------------------------------------------------------
(* The poll loop.                                                          *)

Running == agent.pc # "off"
Go(pc) == agent' = [agent EXCEPT !.pc = pc]

\* main: one instance (a second one exits before it touches the hosts file).
\* A downloaded agent carries a valid key; the first tick is immediate.
StartAgent ==
  /\ agent.pc = "off" /\ exit.pc \in {"no", "cleaned", "failed"}
  /\ \E elevated \in {TRUE} \cup (IF WritesFail THEN {FALSE} ELSE {}) :
       agent' = [Off EXCEPT !.pc = "fetch", !.elevated = elevated]
  /\ exit' = NotExiting
  /\ UNCHANGED <<server, hosts, said>>

Poll ==
  /\ agent.pc = "wait" /\ ~agent.stopping
  /\ Go("fetch")
  /\ UNCHANGED <<server, hosts, exit, said>>

\* run returns when its context ended, between two ticks; the tray then quits.
ReturnMidTick ==                                            \* a mutant
  /\ Running /\ agent.stopping /\ exit.pc = "no"
  /\ exit' = [NotExiting EXCEPT !.pc = "remove", !.quiet = TRUE]
  /\ UNCHANGED <<server, hosts, agent, said>>
Return ==
  /\ agent.pc = "wait" /\ agent.stopping
  /\ Go("returned")
  /\ exit' = IF exit.pc = "no" THEN [NotExiting EXCEPT !.pc = "remove", !.quiet = TRUE] ELSE exit
  /\ UNCHANGED <<server, hosts, said>>

Answers == server.reachable /\ ~agent.stopping
Refused == Answers /\ ~server.keyValid

\* The tick goes on to applyDecision with the decision it made; a kept one is
\* not stored, so that the next failure starts from the last genuine one.
ApplyAnnotated(cfg, decision) ==                            \* a mutant
  agent' = [agent EXCEPT !.pc = "apply", !.cfg = cfg, !.decision = decision, !.last = decision]
Apply(cfg, decision) ==
  agent' = [agent EXCEPT !.pc = "apply", !.cfg = cfg, !.decision = decision,
                         !.last = IF decision.from = "kept" THEN @ ELSE decision]

\* stopForRevokedKey: unblocks, whatever was decided before.
Revoked(cfg) == Apply(cfg, [block |-> FALSE, from |-> "revoked"])
RevokedAsUnreachable(cfg) ==                                \* a mutant
  Apply(cfg, [block |-> agent.last.block, from |-> "kept"])
KeyRevoked(cfg) == Revoked(cfg)

NeedsTasksOnly(rules) == {"today", "checkins"}              \* a mutant
NeedsRead(rules) == {"today", "checkins"} \cup (rules \cap {"overdue", "focus"})

\* The tick decides from a configuration, or ends without one.
Use(remote) ==
  agent' = IF remote = None
           THEN [agent EXCEPT !.pc = "wait", !.remote = remote]
           ELSE [agent EXCEPT !.pc = "decide", !.remote = remote, !.cfg = remote,
                              !.seen = {}, !.asked = {}]

\* FetchAgentConfig; on a failure the last configuration known is used.
Fetch ==
  /\ agent.pc = "fetch"
  /\ \/ Answers /\ server.keyValid /\ Use(server.config)
     \/ Refused /\ KeyRevoked(IF agent.remote = None THEN NoConfig ELSE agent.remote)
     \/ ~Answers /\ Use(agent.remote)
  /\ UNCHANGED <<server, hosts, exit, said>>

\* buildKeptDecision, and failMode OPEN.
UnreachableBlindly(cfg) ==                                  \* a mutant
  [block |-> FALSE, from |-> IF cfg.failMode = "OPEN" THEN "failOpen" ELSE "kept"]
Unreachable(cfg) ==
  IF cfg.failMode = "OPEN" THEN [block |-> FALSE, from |-> "failOpen"]
  ELSE [block |-> agent.last.block, from |-> "kept"]

\* decide asks one endpoint after the other, each at a time of its own.
Order == <<"today", "checkins", "overdue", "focus">>
NextAsked == Order[Min({n \in 1 .. 4 : Order[n] \in NeedsRead(agent.cfg.rules) \ agent.asked})]
Ask ==
  /\ agent.pc = "decide"
  /\ agent.asked # NeedsRead(agent.cfg.rules)
  /\ \/ /\ Answers /\ server.keyValid
        /\ agent' = [agent EXCEPT !.asked = @ \cup {NextAsked},
                                  !.seen = @ \cup (server.facts \cap {NextAsked})]
     \/ Refused /\ KeyRevoked(agent.cfg)
     \/ ~Answers /\ Apply(agent.cfg, Unreachable(agent.cfg))
  /\ UNCHANGED <<server, hosts, exit, said>>

\* rules.Evaluate, over the conditions found to hold.
Evaluate(cfg, seen) ==
  /\ cfg.rules # {}
  /\ IF cfg.mode = "ALL" THEN cfg.rules \subseteq seen ELSE cfg.rules \cap seen # {}

Decide ==
  /\ agent.pc = "decide"
  /\ agent.asked = NeedsRead(agent.cfg.rules)
  /\ LET block == Evaluate(agent.cfg, agent.seen) IN
     /\ Apply(agent.cfg, [block |-> block, from |-> "tasks"])
     /\ said' = block
  /\ UNCHANGED <<server, hosts, exit>>

\* applyDecision reads the file (and, when not elevated, edits nothing).
Editing == agent.cfg.domains = {} \/ agent.elevated
Blocks == agent.cfg.domains # {} /\ agent.decision.block

Die == /\ agent' = Off
       /\ exit' = NotExiting

ReadHosts ==
  /\ agent.pc = "apply"
  /\ CASE ~Editing -> Go("wait") /\ UNCHANGED exit
       [] Editing /\ Panics(hosts) -> Die
       [] Editing /\ ~Panics(hosts) /\ ~Blocks /\ ~Found(hosts) -> Go("wait") /\ UNCHANGED exit
       [] OTHER -> /\ agent' = [agent EXCEPT !.pc = "write", !.file = hosts]
                   /\ UNCHANGED exit
  /\ UNCHANGED <<server, hosts, said>>

\* writeAtomic: a temporary file renamed over the hosts file, or an error.
Replace(new) ==
  \/ agent.elevated /\ hosts' = new
  \/ (WritesFail \/ ~agent.elevated) /\ UNCHANGED hosts

Edited == IF Blocks THEN Applied(agent.file, agent.cfg.domains) ELSE Removed(agent.file)
WriteHosts ==
  /\ agent.pc = "write"
  /\ Replace(Edited)
  /\ agent' = [agent EXCEPT !.pc = "wait", !.file = <<>>]
  /\ UNCHANGED <<server, exit, said>>

-----------------------------------------------------------------------------
(* The end of the process.                                                 *)

\* Ctrl+C, SIGTERM, logoff: the context of the poll loop is cancelled.
Signal ==
  /\ Running /\ ~agent.stopping
  /\ agent' = [agent EXCEPT !.stopping = TRUE]
  /\ UNCHANGED <<server, hosts, exit, said>>

\* Exit in the tray: OnExit runs, and the poll loop is not told.
ExitMenu ==
  /\ ExitByMenu
  /\ Running /\ exit.pc = "no"
  /\ exit' = [NotExiting EXCEPT !.pc = "remove"]
  /\ UNCHANGED <<server, hosts, agent, said>>

OnExit ==
  /\ Running
  /\ exit.pc = "remove"
  /\ IF Panics(hosts) THEN Die
     ELSE /\ exit' = IF Found(hosts) THEN [exit EXCEPT !.pc = "write", !.file = hosts]
                     ELSE [exit EXCEPT !.pc = "cleaned"]
          /\ UNCHANGED agent
  /\ UNCHANGED <<server, hosts, said>>

CleanUp ==
  /\ Running
  /\ exit.pc = "write"
  /\ Replace(Removed(exit.file))
  /\ exit' = [exit EXCEPT !.pc = IF hosts' = Removed(exit.file) THEN "cleaned" ELSE "failed", !.file = <<>>]
  /\ UNCHANGED <<server, agent, said>>

\* main returns, and the process ends with whatever the poll loop was doing.
End ==
  /\ Running
  /\ exit.pc \in {"cleaned", "failed"}
  /\ agent' = Off
  /\ UNCHANGED <<server, hosts, exit, said>>

Crash ==
  /\ Crashes
  /\ Running
  /\ Die
  /\ UNCHANGED <<server, hosts, said>>

-----------------------------------------------------------------------------
(* The account, the network and the other programs.                        *)

ServerChanges ==
  /\ \/ server' = [server EXCEPT !.reachable = ~@]
     \/ \E c \in Configs : server' = [server EXCEPT !.config = c]
     \/ \E facts \in SUBSET Asked : server' = [server EXCEPT !.facts = facts]
     \/ server' = [server EXCEPT !.keyValid = FALSE]
     \/ ~Running /\ server' = [server EXCEPT !.keyValid = TRUE]   \* downloaded again
  /\ UNCHANGED <<hosts, agent, exit, said>>

\* Another program adds a line at the end of the file.
BeingEdited == agent.pc = "write" \/ exit.pc = "write"
OthersEdit ==
  /\ EditsRace \/ ~BeingEdited
  /\ \E t \in Others :
       /\ Other(t) \notin Range(hosts)
       /\ hosts' = Append(hosts, Other(t))
  /\ UNCHANGED <<server, agent, exit, said>>

Work == Poll \/ Return \/ Fetch \/ Ask \/ Decide \/ ReadHosts \/ WriteHosts
Shutdown == OnExit \/ CleanUp \/ End

Next ==
  \/ StartAgent \/ Poll \/ Return \/ Fetch \/ Ask \/ Decide \/ ReadHosts \/ WriteHosts
  \/ Signal \/ ExitMenu \/ OnExit \/ CleanUp \/ End \/ Crash
  \/ ServerChanges \/ OthersEdit

Spec == Init /\ [][Next]_vars
\* The ticker fires again and again, and a tick that began goes on: its
\* requests have a timeout.  Whoever has the hosts file open lets go of it.
Fairness ==
  /\ WF_vars(Work) /\ WF_vars(Shutdown)
  /\ SF_vars(WriteHosts /\ hosts' = Edited)
FairSpec == Spec /\ Fairness

-----------------------------------------------------------------------------
(* Properties.                                                             *)

Blocked == \E i \in DOMAIN hosts : hosts[i].kind = "name"

\* "Nunca tocamos em nenhuma linha fora deste bloco": a line another program
\* added never disappears.
OthersKept ==
  [][\A t \in Others : Other(t) \in Range(hosts) => Other(t) \in Range(hosts')]_vars

\* However the process dies and whatever it blocked before, the file holds at
\* most one block, with both its markers around all the redirected names.
OneBlock ==
  /\ Cardinality(Starts(hosts)) = Cardinality(Ends(hosts))
  /\ Cardinality(Starts(hosts)) <= 1
  /\ \A i \in DOMAIN hosts : hosts[i].kind = "name" => InBlock(hosts, i)

\* "para nunca deixar o hosts file bloqueado se o agente for fechado de
\* proposito": after the poll loop returned, OnExit cleaned up and the process
\* ended, nothing is blocked, whatever the tick that was cut short had read.
CleanExit == ~Running /\ exit.pc = "cleaned" /\ exit.quiet => ~Blocked

\* The same of every exit, Exit in the tray too.
CleanExitAlways == ~Running /\ exit.pc = "cleaned" => ~Blocked

\* failMode CLOSED "mantem o ultimo estado de bloqueio conhecido, em vez de
\* desbloquear as cegas": while the tasks cannot be read, a process that last
\* heard from the tasks opens nothing that they told it to block.
EditsUnheard ==
  /\ agent.pc = "write" /\ agent.decision.from = "kept" /\ agent.cfg.domains # {}
  /\ agent' # agent
FailClosedKeeps ==
  [][EditsUnheard /\ agent.last.from = "tasks" => (Blocked /\ said => Blocked')]_vars

\* The same of a process that heard nothing yet: what the computer last heard.
FailClosedSurvivesRestart == [][EditsUnheard => (Blocked /\ said => Blocked')]_vars

Steady == Running /\ agent.elevated /\ ~agent.stopping /\ exit.pc = "no" /\ server.reachable

\* A revoked key "nao passa sozinho": an agent that keeps running with it
\* ends up blocking nothing, instead of what it blocked last.  So does one whose
\* tasks ask for nothing, whatever it did and failed to read before.
Configured == server.keyValid /\ server.config # None
OpensInTheEnd ==
  /\ <>[](Steady /\ ~server.keyValid) => <>[]~Blocked
  /\ <>[](Steady /\ Configured /\ server.facts = {}) => <>[]~Blocked

\* While the same tasks ask for a block it is there.  (They have to be the same:
\* decide reads one endpoint after another and can miss conditions that take
\* turns.)
Due == Configured /\ server.config.domains # {} /\ Evaluate(server.config, server.facts)
BlockedWhileDue ==
  \A facts \in SUBSET Asked :
    <>[](Steady /\ Due /\ server.facts = facts) => <>[]Blocked
=============================================================================
