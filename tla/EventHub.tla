-------------------------------- MODULE EventHub --------------------------------
(***************************************************************************)
(* One pane as the API sees it, and the hub its events go through.         *)
(*                                                                         *)
(* The main loop changes the pane's agent and state (src/src/app/          *)
(* actions.rs update_terminal_state), and pushes the events of a change    *)
(* one by one (src/src/app/api.rs emit_pane_state_update) into the hub, a  *)
(* numbered log that keeps the last MaxEvents (src/src/api/event_hub.rs).  *)
(* Threads of API connections read the log at any moment, also between two *)
(* events of one change.  Requests are answered by the main loop, hence    *)
(* between changes (outbox = <<>>).                                        *)
(***************************************************************************)
EXTENDS Integers, Sequences, FiniteSets

CONSTANTS
  Agents,       \* agent labels
  None,
  States,       \* the states of an agent that occur
  MaxEvents,    \* capacity of the hub (512 in the code)
  MaxSequence   \* bound on the events pushed

ASSUME HubAssumption ==
  /\ None \notin Agents /\ None \notin {"Idle", "Working", "Blocked", "Unknown", "Done"}
  /\ {"Idle", "Unknown"} \subseteq States
  /\ States \subseteq {"Idle", "Working", "Blocked", "Unknown"}
  /\ MaxEvents \in Nat \ {0} /\ MaxSequence \in Nat

Labels == Agents \cup {None}
Statuses == States \cup {"Done"}

VARIABLES
  there,      \* the pane exists
  agent,      \* its effective agent label
  name,       \* the agent that the pane's agent name was given to, or None
  state,      \* its effective state
  seen,       \* its tab was looked at since it became idle
  changeSeq,  \* number of its last state change
  changes,    \* state changes so far
  outbox,     \* events of the current change, to be pushed
  log,        \* the events the hub keeps
  next        \* sequence number of the last event pushed

paneVars == <<there, agent, name, state, seen, changeSeq, changes>>
hubVars == <<paneVars, outbox, log, next>>

(* The events a watcher of the pane tells apart; "other" is any else. *)
Event(kind, a, released, status) == [kind |-> kind, agent |-> a, released |-> released, status |-> status]
Updated == Event("updated", None, FALSE, None)
Exited == Event("exited", None, FALSE, None)
Other == Event("other", None, FALSE, None)

HubEvents ==
  [kind : {"updated", "detected", "status", "exited", "other"},
   agent : Labels, released : BOOLEAN, status : Statuses \cup {None}]

----------------------------------------------------------------------------
(* pane_agent_status *)
StatusOf(s, v) == IF s = "Idle" /\ ~v THEN "Done" ELSE s
Status == StatusOf(state, seen)

(* is_agent_terminal, for the pane: agent_info has an answer. *)
IsAgent == there /\ (name # None \/ agent # None)

(* is_completion_transition *)
Completes(a, s) ==
  /\ s = "Idle"
  /\ state \in {"Working", "Blocked"} \/ (state = "Unknown" /\ agent # None /\ agent = a)

(* apply_pane_state_change: whether the result counts as seen; a completion is *)
(* seen if the user is looking at its tab.                                     *)
SeenAfter(a, s) ==
  IF s # "Idle" THEN {TRUE} ELSE IF Completes(a, s) THEN BOOLEAN ELSE {seen}

(* emit_pane_state_update, for a change to label a, state s, seen v and name n.  A *)
(* release tells the label that was.                                               *)
EventsOf(a, s, v, n, released) ==
  LET shown == IF released THEN agent ELSE a IN
  (IF n # name THEN <<Updated>> ELSE <<>>)
  \o (IF shown # agent \/ released
      THEN <<Event("detected", shown, released, IF released THEN StatusOf(s, v) ELSE None)>> ELSE <<>>)
  \o (IF StatusOf(s, v) # Status THEN <<Event("status", shown, FALSE, StatusOf(s, v))>> ELSE <<>>)

(* update_terminal_state; the events in rest follow those of the change. *)
Change(a, s, n, released, rest) ==
  /\ outbox = <<>> /\ there
  /\ agent' = a /\ state' = s /\ name' = n
  /\ seen' \in SeenAfter(a, s)
  /\ outbox' = EventsOf(a, s, seen', n, released) \o rest
  /\ IF s # state THEN changes' = changes + 1 /\ changeSeq' = changes' ELSE UNCHANGED <<changes, changeSeq>>
  /\ UNCHANGED <<log, next>>

(* reconcile_agent_name_owner: the name goes when another agent is found, or another *)
(* session of its own.                                                               *)
NameUnder(a) ==
  IF a = None \/ name = None THEN {name} ELSE IF a # name THEN {None} ELSE {name, None}

(* Detection results and hook reports; without an agent nothing is known of a state. *)
Reported(a, s) ==
  /\ a = None => s = "Unknown"
  /\ \E n \in NameUnder(a) : <<a, s, n>> # <<agent, state, name>> /\ Change(a, s, n, FALSE, <<>>)
  /\ UNCHANGED there

(* The agent's process exits, which leaves it idle, or a hook releases an agent that *)
(* has no process of its own.                                                        *)
Released(s) ==
  /\ agent # None \/ name # None
  /\ s \in {"Idle", "Unknown"}
  /\ Change(None, s, None, TRUE, <<>>)
  /\ UNCHANGED there

(* handle_agent_rename *)
Rename ==
  /\ outbox = <<>> /\ there /\ agent # None
  /\ name' \in {agent, None} /\ outbox' = <<Updated>>
  /\ UNCHANGED <<there, agent, state, seen, changeSeq, changes, log, next>>

(* The pane's tab is shown (mark_active_tab_seen, switch_tab).  What is pushed is a *)
(* change of focus, if the focus changed, and nothing about the pane's status.      *)
LookAt ==
  /\ outbox = <<>> /\ there /\ ~seen
  /\ seen' = TRUE /\ outbox' \in {<<>>, <<Other>>}
  /\ UNCHANGED <<there, agent, name, state, changeSeq, changes, log, next>>

(* PaneDied: the agent is released, and the pane removed. *)
PaneDies ==
  /\ agent # None /\ Change(None, "Idle", None, TRUE, <<Exited>>)
  /\ there' = FALSE

(* The pane is closed, or it dies without an agent. *)
PaneCloses ==
  /\ outbox = <<>> /\ there
  /\ there' = FALSE /\ outbox' = <<Exited>>
  /\ UNCHANGED <<agent, name, state, seen, changeSeq, changes, log, next>>

(* PaneDied of a pane whose shell is started again (respawn_shell_for_launch_pane): the *)
(* agent is released, then all that was known of it cleared without another event.      *)
Respawns ==
  /\ outbox = <<>> /\ there /\ agent # None
  /\ seen' \in SeenAfter(None, "Idle")
  /\ outbox' = EventsOf(None, "Idle", seen', None, TRUE)
  /\ agent' = None /\ name' = None /\ state' = "Unknown" /\ changeSeq' = 0
  /\ changes' = IF state # "Idle" THEN changes + 1 ELSE changes
  /\ UNCHANGED <<there, log, next>>

(* Something else in the session is reported. *)
OtherChange ==
  /\ outbox = <<>> /\ outbox' = <<Other>>
  /\ UNCHANGED <<paneVars, log, next>>

----------------------------------------------------------------------------
Last(q, n) == SubSeq(q, Len(q) - n + 1, Len(q))

(* Mutant: what is over the capacity stays. *)
Pushed_Unbounded(e) == Append(log, e)

(* EventHub::push *)
Pushed(e) == IF Len(log) < MaxEvents THEN Append(log, e) ELSE Append(Tail(log), e)

Push ==
  /\ outbox # <<>>
  /\ log' = Pushed(Head(outbox)) /\ next' = next + 1
  /\ outbox' = Tail(outbox)
  /\ UNCHANGED paneVars

(* EventHub::events_after, current_sequence: the retained events with a number above c. *)
Unread(c) == IF next - c < Len(log) THEN Last(log, next - c) ELSE log
(* Events above c were dropped. *)
Missed(c) == next - c > Len(log)

----------------------------------------------------------------------------
HubInit ==
  /\ there = TRUE /\ agent \in Labels /\ name \in {None, agent}
  /\ state \in States /\ (agent = None) = (state = "Unknown")
  /\ seen \in BOOLEAN /\ (state # "Idle" => seen)
  /\ changeSeq = 0 /\ changes = 0
  /\ outbox = <<>> /\ log = <<>> /\ next = 0

(* A change, within the bound on events (no change has more than four). *)
PaneStep ==
  /\ next < MaxSequence
  /\ \/ \E a \in Labels, s \in States : Reported(a, s)
     \/ \E s \in {"Idle", "Unknown"} : Released(s)
     \/ Rename \/ LookAt \/ PaneDies \/ PaneCloses \/ Respawns \/ OtherChange

HubStep == PaneStep \/ Push

HubTypeOK ==
  /\ there \in BOOLEAN /\ agent \in Labels /\ name \in Labels
  /\ state \in States /\ seen \in BOOLEAN
  /\ changes \in Nat /\ changeSeq \in 0..changes
  /\ outbox \in Seq(HubEvents) /\ log \in Seq(HubEvents) /\ next \in Nat
  /\ Len(log) <= MaxEvents /\ Len(log) <= next

(* The main loop ends what it has begun. *)
HubFairness == WF_hubVars(Push)
=============================================================================
