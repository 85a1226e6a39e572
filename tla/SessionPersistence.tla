--------------------------- MODULE SessionPersistence ---------------------------
(***************************************************************************)
(* The agent sessions of a server's panes, their snapshot on disk, and     *)
(* servers that stop, crash and restore it (src/src/app/session.rs,        *)
(* src/src/persist/, src/src/app/agent_resume.rs).                         *)
(*                                                                         *)
(* The main loop notes that something has changed; some seconds later it   *)
(* captures all panes, and a thread writes the snapshot, by a rename.      *)
(* After a restart a pane whose agent had a session gets no shell yet but  *)
(* a plan: once a client's theme is known, or has been waited for, a shell *)
(* is started and told to resume the session.  Until then the pane's       *)
(* session is known from the snapshot alone.                               *)
(*                                                                         *)
(* A session is reported as its agent starts and is over as its process    *)
(* exits; PaneAgent has the steps between.  Agents end with their server.  *)
(***************************************************************************)
EXTENDS Integers

CONSTANTS
  Panes,       \* pane numbers, in the order of the layout
  Sessions,    \* agent sessions
  None,
  MaxChanges,  \* bound on the panes opened and agents started
  MaxStarts    \* bound on the servers started

ASSUME PersistenceAssumption ==
  /\ Panes \subseteq Nat /\ None \notin Sessions /\ "absent" \notin Sessions \cup {None}
  /\ MaxChanges \in Nat /\ MaxStarts \in Nat

VARIABLES
  up,        \* the server runs
  starts,    \* servers started
  changes,   \* panes opened and agents started
  open,      \* its panes
  runtime,   \* panes with a shell
  session,   \* a pane's session: its agent's, or the one it was restored with
  plan,      \* panes whose session is to be resumed
  agent,     \* the session of the agent that runs in a pane
  saveDue,   \* session_dirty, session_save_deadline
  saver,     \* the snapshot that the thread writes, or None
  disk,      \* the snapshot on disk
  resumed,   \* history: the panes in which this server has resumed each session
  owed,      \* history: sessions that were on disk and are not over since
  failed     \* history: a write, or the start of a shell to resume in, has failed

paneVars == <<open, runtime, session, plan, agent>>
saveVars == <<saveDue, saver, disk>>
history == <<resumed, owed, failed>>
vars == <<up, starts, changes, paneVars, saveVars, history>>

Snapshots == [Panes -> Sessions \cup {None, "absent"}]
Saved(d) == {d[p] : p \in Panes} \cap Sessions
Known == {session[p] : p \in open} \ {None}

----------------------------------------------------------------------------
(* Mutant: only agents that run have a session. *)
Capture_Running == [p \in Panes |-> IF p \in open THEN agent[p] ELSE "absent"]

(* capture; a session without panes is cleared. *)
Capture == [p \in Panes |-> IF p \in open THEN session[p] ELSE "absent"]

(* A pane's session changes: update_terminal_state marks the session dirty. *)
SessionBecomes(p, s) ==
  /\ session' = [session EXCEPT ![p] = s]
  /\ saveDue' = (saveDue \/ s # session[p])

(* A pane is opened. *)
PaneOpens(p) ==
  /\ up /\ p \notin open /\ changes < MaxChanges
  /\ changes' = changes + 1
  /\ open' = open \cup {p} /\ runtime' = runtime \cup {p} /\ saveDue' = TRUE
  /\ UNCHANGED <<up, starts, session, plan, agent, saver, disk, history>>

(* History: the session of p is over, unless another pane has it. *)
Without(p) == owed \ ({session[p]} \ {session[q] : q \in open \ {p}})

(* An agent starts and reports its session, or changes it. *)
AgentStarts(p, s) ==
  /\ up /\ p \in runtime /\ agent[p] # s /\ changes < MaxChanges
  /\ changes' = changes + 1
  /\ agent' = [agent EXCEPT ![p] = s]
  /\ SessionBecomes(p, s)
  /\ owed' = Without(p)
  /\ UNCHANGED <<up, starts, open, runtime, plan, saver, disk, resumed, failed>>

AgentExits(p) ==
  /\ up /\ agent[p] # None
  /\ agent' = [agent EXCEPT ![p] = None]
  /\ SessionBecomes(p, None)
  /\ owed' = Without(p)
  /\ UNCHANGED <<up, starts, changes, open, runtime, plan, saver, disk, resumed, failed>>

(* Mutant: the plan stays. *)
PaneCloses_KeepsPlan(p) ==
  /\ up /\ p \in open
  /\ open' = open \ {p} /\ runtime' = runtime \ {p}
  /\ session' = [session EXCEPT ![p] = None] /\ agent' = [agent EXCEPT ![p] = None]
  /\ saveDue' = TRUE /\ owed' = Without(p)
  /\ UNCHANGED <<up, starts, changes, plan, saver, disk, resumed, failed>>

(* The pane is closed, or its shell exits (handle_pane_died). *)
PaneCloses(p) ==
  /\ up /\ p \in open
  /\ open' = open \ {p} /\ runtime' = runtime \ {p} /\ plan' = plan \ {p}
  /\ session' = [session EXCEPT ![p] = None] /\ agent' = [agent EXCEPT ![p] = None]
  /\ saveDue' = TRUE /\ owed' = Without(p)
  /\ UNCHANGED <<up, starts, changes, saver, disk, resumed, failed>>

----------------------------------------------------------------------------
(* Mutant: while the thread is busy the save is dropped. *)
BeginSave_Dropped ==
  /\ up /\ saveDue /\ saveDue' = FALSE
  /\ saver' = IF saver = None THEN Capture ELSE saver
  /\ UNCHANGED <<up, starts, changes, paneVars, disk, history>>

(* start_background_session_save; while the thread is busy the save is put off. *)
BeginSave ==
  /\ up /\ saveDue /\ saver = None
  /\ saver' = Capture /\ saveDue' = FALSE
  /\ UNCHANGED <<up, starts, changes, paneVars, disk, history>>

(* The thread ends: written and renamed, or logged as failed, once at most. *)
SaverWrites ==
  /\ saver # None /\ saver' = None
  /\ \/ disk' = saver /\ owed' = owed \cup (Saved(saver) \cap Known) /\ UNCHANGED failed
     \/ ~failed /\ failed' = TRUE /\ UNCHANGED <<disk, owed>>
  /\ UNCHANGED <<up, starts, changes, paneVars, saveDue, resumed>>

(* save_session_now, as the server ends: it waits for the thread first. *)
Stop ==
  /\ up /\ saver = None /\ up' = FALSE
  /\ saveDue' = FALSE
  /\ \/ disk' = Capture /\ UNCHANGED failed
     \/ ~failed /\ failed' = TRUE /\ UNCHANGED disk
  /\ owed' = Saved(disk')
  /\ UNCHANGED <<starts, changes, paneVars, saver, resumed>>

(* What was not on disk is lost. *)
Crash ==
  /\ up /\ up' = FALSE
  /\ saveDue' = FALSE /\ saver' = None /\ owed' = Saved(disk)
  /\ UNCHANGED <<starts, changes, paneVars, disk, resumed, failed>>

----------------------------------------------------------------------------
(* Mutant: every pane with a session gets a plan. *)
Planned_All == {p \in Panes : disk[p] \in Sessions}

(* pane_restore_startup: the first pane of a session gets a plan. *)
Planned == {p \in Panes : disk[p] \in Sessions /\ \A q \in Panes : q < p => disk[q] # disk[p]}

(* A further pane of a session gets a shell and forgets the session. *)
Duplicates == {p \in Panes : disk[p] \in Sessions} \ Planned

(* restore: the user has resume_agents_on_restore set, or every pane gets a shell and *)
(* its session.  A pane whose shell does not start is left out.                       *)
Start(resume) ==
  LET waiting == IF resume THEN Planned ELSE {}
      forgotten == IF resume THEN Duplicates ELSE {}
  IN /\ ~up /\ starts < MaxStarts
     /\ up' = TRUE /\ starts' = starts + 1
     /\ \E failing \in SUBSET ({p \in Panes : disk[p] # "absent"} \ waiting) :
          /\ open' = {p \in Panes : disk[p] # "absent"} \ failing
          /\ session' = [p \in Panes |-> IF p \in open' \ forgotten THEN disk[p] ELSE None]
          /\ owed' = owed \ ({disk[p] : p \in failing} \ {session'[p] : p \in open'})
     /\ plan' = waiting /\ runtime' = open' \ waiting
     /\ agent' = [p \in Panes |-> None]
     /\ resumed' = [s \in Sessions |-> {}]
     /\ UNCHANGED <<changes, saveVars, failed>>

(* start_pending_agent_resume: the shell starts and is told to resume the session. *)
Resume(p) ==
  /\ up /\ p \in plan
  /\ plan' = plan \ {p} /\ runtime' = runtime \cup {p} /\ saveDue' = TRUE
  /\ resumed' = [resumed EXCEPT ![session[p]] = @ \cup {p}]
  /\ UNCHANGED <<up, starts, changes, open, session, agent, saver, disk, owed, failed>>

(* The shell does not start: clear_agent_runtime_identity_after_respawn; nothing is *)
(* marked dirty. *)
ResumeFails(p) ==
  /\ up /\ p \in plan
  /\ plan' = plan \ {p} /\ session' = [session EXCEPT ![p] = None]
  /\ owed' = Without(p) /\ failed' = TRUE
  /\ UNCHANGED <<up, starts, changes, open, runtime, agent, saveVars, resumed>>

----------------------------------------------------------------------------
Init ==
  /\ up = FALSE /\ starts = 0 /\ changes = 0
  /\ open = {} /\ runtime = {} /\ plan = {}
  /\ session = [p \in Panes |-> None] /\ agent = [p \in Panes |-> None]
  /\ saveDue = FALSE /\ saver = None /\ disk = [p \in Panes |-> "absent"]
  /\ resumed = [s \in Sessions |-> {}] /\ owed = {} /\ failed = FALSE

Next ==
  \/ \E p \in Panes :
       \/ PaneOpens(p) \/ AgentExits(p) \/ PaneCloses(p) \/ Resume(p) \/ ResumeFails(p)
       \/ \E s \in Sessions : AgentStarts(p, s)
  \/ BeginSave \/ SaverWrites \/ Stop \/ Crash
  \/ \E resume \in BOOLEAN : Start(resume)

(* The deadline passes, and the thread runs. *)
Fairness == WF_vars(BeginSave) /\ WF_vars(SaverWrites)

Spec == Init /\ [][Next]_vars /\ Fairness

----------------------------------------------------------------------------
PersistenceTypeOK ==
  /\ up \in BOOLEAN /\ starts \in 0 .. MaxStarts /\ changes \in 0 .. MaxChanges
  /\ plan \subseteq open \ runtime /\ runtime \subseteq open /\ open \subseteq Panes
  /\ session \in [Panes -> Sessions \cup {None}] /\ agent \in [Panes -> Sessions \cup {None}]
  /\ saveDue \in BOOLEAN /\ saver \in Snapshots \cup {None} /\ disk \in Snapshots
  /\ resumed \in [Sessions -> SUBSET Panes] /\ owed \subseteq Sessions /\ failed \in BOOLEAN

(* A session that was on disk stays there until it is over, through any     *)
(* number of restarts and of saves, also one made while its plan waits or   *)
(* before its agent is back.                                                *)
SavedSessionSurvives == owed \subseteq Saved(disk)

(* No server resumes a session in two panes: two agents would write to one  *)
(* conversation. *)
ResumedOnce == \A s \in Sessions : \A p, q \in resumed[s] : p = q

(* What a save is due for reaches the disk, once there are no more changes, *)
(* unless the server ends or something has failed, which is not tried again.*)
ChangesReachDisk == (up /\ saveDue) ~> (disk = Capture \/ ~up \/ failed)
=============================================================================
