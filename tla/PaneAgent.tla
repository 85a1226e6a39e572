-------------------------------- MODULE PaneAgent -------------------------------
(***************************************************************************)
(* The agent of one pane: the processes that run in its foreground one     *)
(* after the other, the hook reports they send, the detection task that    *)
(* probes the foreground (src/src/pane.rs), and the terminal that believes *)
(* both (TerminalAgent), on the main loop (src/src/app/actions.rs).        *)
(*                                                                         *)
(* A report is a request on a connection of its own with one retry         *)
(* (src/src/integration/assets/pi/herdr-agent-state.ts): it may be late,   *)
(* even later than its process, arrive twice, or never.  A process has at  *)
(* most MaxFlight of them under way.                                       *)
(***************************************************************************)
EXTENDS TerminalAgent, Sequences

CONSTANTS
  MaxProcesses,  \* bound on the processes that run
  MaxReports,    \* bound on the reports and clears sent
  MaxFlight,     \* reports of one process under way at a time
  MaxResults,    \* bound on the detection results not yet handled
  MaxClears      \* bound on pane.clear_agent_authority requests

ASSUME PaneAssumption ==
  /\ {MaxProcesses, MaxReports, MaxFlight, MaxResults, MaxClears} \subseteq Nat
  /\ MaxResults # 0

VARIABLES
  process,    \* the agent in the foreground, or None: the shell
  started,    \* processes started so far
  clock,      \* reports and clears sent so far: reports are numbered by time
  clears,
  flight,     \* reports under way
  presence,   \* the agent the detection task last saw
  reported,   \* it has reported that agent's exit
  results,    \* detection results on their way to the main loop
  term,       \* the terminal's record
  gone,       \* history: the terminal was told that the processes of agent a
              \* up to gone[a] have exited, and knows it, see Misleading
  unsure      \* history: agents whose reports the terminal may take in a wrong
              \* order, see Doubt

procVars == <<process, started>>
hookVars == <<clock, clears, flight>>
taskVars == <<presence, reported>>
history == <<gone, unsure>>
vars == <<procVars, hookVars, taskVars, results, term, history>>

Process(a, s) == [agent |-> a, session |-> s, id |-> started + 1, owes |-> "startup"]

(* What detection publishes; told is the history of what it has seen. *)
Result(a, exited, told) == [agent |-> a, exited |-> exited, told |-> told]

----------------------------------------------------------------------------
(* The foreground: the shell, or an agent started from it, in a session of *)
(* its own or one resumed. *)
Launch(a, s) ==
  /\ process = None /\ started < MaxProcesses
  /\ process' = Process(a, s) /\ started' = started + 1
  /\ UNCHANGED <<hookVars, taskVars, results, term, history>>

(* It quits or is killed, whatever it has sent: its hook does not wait for *)
(* an answer longer than for the two attempts of a request. *)
Quit ==
  /\ process # None
  /\ process' = None
  /\ UNCHANGED <<started, hookVars, taskVars, results, term, history>>

(* The agent changes its session (pi: new, resume, fork). *)
Change(s) ==
  /\ process # None /\ process.owes = "nothing" /\ s # process.session
  /\ process' = [process EXCEPT !.session = s, !.owes = "new"]
  /\ UNCHANGED <<started, hookVars, taskVars, results, term, history>>

(* session_start: the session is reported first; then agent_start and the  *)
(* state changes. *)
Kinds(p) == IF p.owes = "nothing" THEN {"state", "session"} ELSE {p.owes}

Send(kind) ==
  /\ process # None /\ kind \in Kinds(process)
  /\ clock < MaxReports
  /\ Cardinality({m \in flight : m.process = process.id}) < MaxFlight
  /\ flight' = flight \cup {Report(kind, process.agent, process.session, clock + 1, process.id)}
  /\ clock' = clock + 1
  /\ process' = [process EXCEPT !.owes = "nothing"]
  /\ UNCHANGED <<started, clears, taskVars, results, term, history>>

Lose(m) ==
  /\ flight' = flight \ {m}
  /\ UNCHANGED <<procVars, clock, clears, taskVars, results, term, history>>

----------------------------------------------------------------------------
(* What the history takes from a step of the main loop.  The code drops    *)
(* the number of an agent's last report, or does not compare it, once a    *)
(* session of the agent is stale, and when it finds the agent after        *)
(* another one while a session of it still stands.  An exit it is told of  *)
(* makes an end of that.                                                   *)
FoundAgain(a) == term.detected # a /\ term'.detected = a /\ Anchor(term, a) # None
Doubt(exited) ==
  unsure' = {a \in Agents : term'.stale[a] # {} \/ (a # exited /\ (a \in unsure \/ FoundAgain(a)))}

(* The main loop handles AgentSessionReported and HookStateReported; the   *)
(* request may be tried again. *)
Handled(m) ==
  IF m.kind = "state" THEN StateReport(term, m, Len(results)) ELSE SessionReport(term, m, Len(results))

(* A process that is known to be gone may still announce its session: the   *)
(* code cannot tell its start from that of the next process, and what it   *)
(* was told of the agent's exits is worth nothing until the next one. *)
Misleading(m) == m.kind \in Recognized /\ m.process <= gone[m.agent] /\ term' # term

Deliver(m) ==
  /\ term' = Handled(m)
  /\ flight' \in {flight, flight \ {m}}
  /\ Doubt(None)
  /\ gone' = IF Misleading(m) THEN [gone EXCEPT ![m.agent] = 0] ELSE gone
  /\ UNCHANGED <<procVars, clock, clears, taskVars, results>>

(* HookAuthorityCleared, from an API client *)
Clear ==
  /\ clears < MaxClears /\ clock < MaxReports
  /\ clears' = clears + 1 /\ clock' = clock + 1
  /\ term' = ClearHook(term, clock + 1, Len(results))
  /\ Doubt(None)
  /\ UNCHANGED <<procVars, flight, taskVars, results, gone>>

----------------------------------------------------------------------------
(* The detection task. *)
Publish(a, exited) ==
  /\ Len(results) < MaxResults
  /\ results' = Append(results, Result(a, exited, IF exited THEN started ELSE 0))

Detects(a, exited) ==
  /\ Publish(a, exited)
  /\ presence' = a /\ reported' = exited
  /\ UNCHANGED <<procVars, hookVars, term, history>>

(* foreground_shell_agent_action and apply_foreground_shell_agent_action *)
ObserveProbe == process # None /\ process.agent # presence /\ Detects(process.agent, FALSE)
ReportReplacementProcess ==
  process # None /\ process.agent = presence /\ reported /\ Detects(presence, FALSE)

(* Mutant: no exit is looked for while a hook speaks for the agent. *)
ReportProcessExit_HookFirst ==
  process = None /\ presence # None /\ ~reported /\ ~Effective(term) /\ Detects(presence, TRUE)

ReportProcessExit == process = None /\ presence # None /\ ~reported /\ Detects(presence, TRUE)

(* While a hook has the authority the loop ends here, and nothing is told. *)
ClearAgent ==
  /\ process = None /\ presence # None /\ reported
  /\ IF ~Effective(term) THEN Detects(None, FALSE)
     ELSE /\ presence' = None /\ reported' = FALSE
          /\ UNCHANGED <<procVars, hookVars, results, term, history>>

(* The screen of an agent that no hook speaks for has changed. *)
ReadScreen ==
  /\ presence # None /\ ~reported /\ ~Effective(term)
  /\ Publish(presence, FALSE)
  /\ UNCHANGED <<procVars, hookVars, taskVars, term, history>>

Probe == ObserveProbe \/ ReportReplacementProcess \/ ReportProcessExit \/ ClearAgent

(* AppEvent::StateChanged *)
Apply ==
  /\ results # <<>>
  /\ term' = DetectionResult(term, Head(results), Len(results))
  /\ gone' = IF Head(results).exited THEN [gone EXCEPT ![Head(results).agent] = Head(results).told] ELSE gone
  /\ Doubt(IF Head(results).exited THEN Head(results).agent ELSE None)
  /\ results' = Tail(results)
  /\ UNCHANGED <<procVars, hookVars, taskVars>>

----------------------------------------------------------------------------
Init ==
  /\ process = None /\ started = 0
  /\ clock = 0 /\ clears = 0 /\ flight = {}
  /\ presence = None /\ reported = FALSE /\ results = <<>>
  /\ term = Blank /\ gone = [a \in Agents |-> 0] /\ unsure = {}

Foreground ==
  \/ \E a \in Agents, s \in Sessions : Launch(a, s)
  \/ Quit
  \/ \E s \in Sessions : Change(s)
  \/ \E kind \in {"startup", "new", "session", "state"} : Send(kind)
  \/ \E m \in flight : Lose(m)

MainLoop == Apply \/ Clear \/ \E m \in flight : Deliver(m)

Next == Foreground \/ Probe \/ ReadScreen \/ MainLoop

(* The detection task ticks and the main loop handles events. *)
Fairness == WF_vars(Probe) /\ WF_vars(Apply)

Spec == Init /\ [][Next]_vars /\ Fairness

----------------------------------------------------------------------------
Ids == 1 .. MaxProcesses
Numbers == 0 .. MaxProcesses
Clocks == 0 .. MaxReports
Counts == 0 .. MaxResults
Maybe(S) == S \cup {None}
Authorities ==
  [agent : Agents, session : Sessions, seq : Clocks, process : Ids, older : Counts]
Entries ==
  [session : Maybe(Sessions), reason : {"HookClear", "ProcessExit"},
   replacement : Maybe(Sessions), pending : Maybe(Authorities), older : Counts]

Reports ==
  [kind : {"startup", "new", "session", "state"}, agent : Agents, session : Sessions,
   seq : Clocks, process : Ids]
Processes ==
  [agent : Agents, session : Sessions, id : Ids, owes : {"startup", "new", "nothing"}]
SavedSessions == [agent : Agents, session : Sessions]
Terms ==
  [detected : Maybe(Agents), exit : Maybe(Agents), hook : Maybe(Authorities),
   saved : Maybe(SavedSessions), last : [Agents -> Clocks],
   suppressed : [Agents -> Maybe(Entries)], stale : [Agents -> SUBSET Sessions]]
Results == [agent : Maybe(Agents), exited : BOOLEAN, told : Numbers]

ASSUME RecordAssumption == None \notin Processes \cup SavedSessions \cup Authorities \cup Entries

(* Every variable has its type, and nothing is suppressed as cleared        *)
(* without the session that was. *)
PaneTypeOK ==
  /\ process \in Maybe(Processes)
  /\ started \in Numbers /\ clock \in Clocks /\ clears \in 0 .. MaxClears
  /\ gone \in [Agents -> Numbers] /\ unsure \subseteq Agents
  /\ flight \subseteq Reports
  /\ presence \in Maybe(Agents) /\ reported \in BOOLEAN
  /\ results \in Seq(Results) /\ Len(results) <= MaxResults
  /\ term \in Terms
  /\ \A a \in Agents :
       LET entry == term.suppressed[a]
       IN entry # None /\ entry.reason = "HookClear" => entry.session # None

(* Once the terminal was told that a process has exited, no state report   *)
(* of that process that is late is the state of the pane: not when the     *)
(* next process has started, nor when it resumes the session.  Two         *)
(* exceptions are the code's own: agents the terminal is unsure about      *)
(* (Doubt), and agents of which the start report of a dead process was     *)
(* late too and taken for that of the next one, until the next exit        *)
(* (Misleading): the report held for its session is then promoted.         *)
LateReportsStayOut ==
  Effective(term) /\ term.hook.agent \notin unsure =>
    term.hook.process > gone[term.hook.agent]

(* The state shown never goes back to a report sent earlier, by whichever  *)
(* process, but for agents the terminal is unsure about.                   *)
ReportsInOrder ==
  [][term.hook # None /\ term'.hook # None /\ term'.hook.agent = term.hook.agent
     /\ term.hook.agent \notin unsure
       => term'.hook.seq >= term.hook.seq]_vars

(* When the agent has left the foreground, its hook loses the authority    *)
(* unless another one comes. *)
HookEndsWithProcess == process = None ~> ~Effective(term) \/ process # None

(* socket-api.mdx: "reports with a sequence number less than or equal to   *)
(* the last accepted sequence are accepted by the API but ignored by the   *)
(* pane state": in one session the state shown never goes back. *)
OlderReportsIgnored ==
  [][Effective(term) /\ Effective(term)' /\ Current(term)' = Current(term)
       => term'.hook.seq >= term.hook.seq]_vars
=============================================================================
