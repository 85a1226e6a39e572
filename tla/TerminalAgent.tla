----------------------------- MODULE TerminalAgent ------------------------------
(***************************************************************************)
(* What a terminal believes about the agent in its pane: pure operators on *)
(* one record t (src/src/terminal/state.rs).                               *)
(*                                                                         *)
(* Two sources speak: detection, which sees the foreground process, and    *)
(* the hooks of the agent's own integration, which report its session and  *)
(* its state with a sequence number.  While the reported agent is present  *)
(* its hook has the authority.  After an exit, a clear or a change of      *)
(* agent the reports of the old session must stay out, while those of the  *)
(* next process must be let in: t keeps what is suppressed and what is     *)
(* stale for it.                                                           *)
(*                                                                         *)
(* An agent stands for the full-lifecycle integration of its name          *)
(* ("herdr:pi" for pi): its reports carry a session id and a sequence      *)
(* number.  The states reported, names, metadata and presentation are left *)
(* out.  Instants are compared only with those of detection results that   *)
(* wait in the queue: an entry keeps how many of them are older than it.   *)
(***************************************************************************)
EXTENDS Integers, FiniteSets

CONSTANTS
  Agents,    \* agents with a full-lifecycle integration
  Sessions,  \* session ids
  None

ASSUME TerminalAssumption == None \notin Agents /\ None \notin Sessions

----------------------------------------------------------------------------
(* A report of a hook, HookAuthority, PersistedAgentSession and            *)
(* SuppressedFullLifecycleHookReport.  process numbers the process that    *)
(* reported: the code does not know it.                                    *)
Report(kind, a, s, seq, process) ==
  [kind |-> kind, agent |-> a, session |-> s, seq |-> seq, process |-> process]

HookAuthority(m, older) ==
  [agent |-> m.agent, session |-> m.session, seq |-> m.seq, process |-> m.process, older |-> older]

AgentSession(a, s) == [agent |-> a, session |-> s]

Suppression(s, reason, older) ==
  [session |-> s, reason |-> reason, replacement |-> None, pending |-> None, older |-> older]

Blank ==
  [detected |-> None, exit |-> None, hook |-> None, saved |-> None,
   last |-> [a \in Agents |-> 0],
   suppressed |-> [a \in Agents |-> None],
   stale |-> [a \in Agents |-> {}]]

(* hook_authority_is_effective, live_full_lifecycle_hook_authority *)
Present(t, a) == t.detected = a /\ t.exit = None
Effective(t) == t.hook # None /\ Present(t, t.hook.agent)

(* current_session_identity_for_persistence *)
Current(t) == IF t.hook # None THEN AgentSession(t.hook.agent, t.hook.session) ELSE t.saved

(* The session reports of a are anchored to. *)
Anchor(t, a) ==
  IF t.hook # None /\ t.hook.agent = a THEN t.hook.session
  ELSE IF t.saved # None /\ t.saved.agent = a THEN t.saved.session
  ELSE None

Owned(t, a) == Current(t) = None \/ Current(t).agent = a

(* remember_, forget_stale_full_lifecycle_hook_session *)
Remember(t, a, s) == IF s = None THEN t ELSE [t EXCEPT !.stale[a] = @ \cup {s}]
Forget(t, a, s) == [t EXCEPT !.stale[a] = @ \ {s}]

(* suppress_full_lifecycle_hook_report_with_session_ref *)
Suppress(t, a, s, reason, older) == [t EXCEPT !.suppressed[a] = Suppression(s, reason, older)]

(* Mutant: the suppression forgets which session it is about. *)
SuppressHook_NoSession(t, n) ==
  IF t.hook = None THEN t ELSE Suppress(t, t.hook.agent, None, "HookClear", n)

(* suppress_current_full_lifecycle_hook_authority *)
SuppressHook(t, n) ==
  IF t.hook = None THEN t ELSE Suppress(t, t.hook.agent, t.hook.session, "HookClear", n)

(* accept_hook_report *)
Newer(t, m) == m.seq > t.last[m.agent]
Accepted(t, m) == [t EXCEPT !.last[m.agent] = m.seq]

----------------------------------------------------------------------------
(* State reports.  n detection results wait in the queue. *)

(* The report becomes the state: it speaks in the session that is current, *)
(* an agent that was before yields, and what was suppressed becomes stale. *)
Taken(t, m, n) ==
  LET a == m.agent
      s == IF Current(t) # None /\ Owned(t, a) THEN Current(t).session ELSE m.session
      yielded == IF Owned(t, a) THEN t ELSE SuppressHook(t, n)
      outdated == IF t.suppressed[a] = None THEN None ELSE t.suppressed[a].session
  IN [Remember(yielded, a, outdated) EXCEPT
        !.suppressed[a] = None, !.saved = None, !.last[a] = m.seq,
        !.hook = HookAuthority([m EXCEPT !.session = s], n)]

(* The agent in the foreground, if one is known, confirms the report. *)
Confirmed(t, a) == t.detected \in {None, a} /\ (Owned(t, a) \/ t.detected = a)

(* Mutant: the sequence number is not compared. *)
Take_AnyOrder(t, m, reanchor, n) == IF Confirmed(t, m.agent) THEN Taken(t, m, n) ELSE t

(* set_hook_authority_at, once the report is routed: reanchor drops the    *)
(* source's sequence before it is compared. *)
Take(t, m, reanchor, n) ==
  IF Confirmed(t, m.agent) /\ (reanchor \/ Newer(t, m)) THEN Taken(t, m, n) ELSE t

(* The end of route_full_lifecycle_hook_report: the report waits for a     *)
(* process that owns it. *)
Hold(t, m, n) ==
  LET a == m.agent
      saved == IF t.saved # None /\ t.saved.agent = a THEN t.saved.session ELSE None
      entry == IF t.suppressed[a] = None THEN Suppression(saved, "ProcessExit", n) ELSE t.suppressed[a]
  IN CASE ~Newer(t, m) -> t
       [] Newer(t, m) /\ entry.pending # None /\ m.seq <= entry.pending.seq ->
            [t EXCEPT !.suppressed[a] = entry]
       [] OTHER -> [t EXCEPT !.suppressed[a] = [entry EXCEPT !.pending = HookAuthority(m, n)]]

(* set_hook_authority_at with route_full_lifecycle_hook_report *)
StateReport(t, m, n) ==
  LET a == m.agent
      entry == t.suppressed[a]
  IN CASE m.session \in t.stale[a] -> t
       [] m.session \notin t.stale[a] /\ entry # None /\ entry.reason = "HookClear" ->
            IF entry.session # m.session THEN Take(t, m, TRUE, n) ELSE t
       [] m.session \notin t.stale[a] /\ entry = None /\ Present(t, a) /\ Anchor(t, a) = m.session ->
            Take(t, m, t.stale[a] # {}, n)
       [] OTHER -> Hold(t, m, n)

----------------------------------------------------------------------------
(* clear_full_lifecycle_hook_suppression_for_detected_agent: a process of  *)
(* agent a shows up. *)
Validate(t, a) ==
  LET entry == t.suppressed[a]
      next == entry.replacement
      held == entry.pending
      saved == Forget(Remember([t EXCEPT !.suppressed[a] = None], a, entry.session), a, next)
  IN CASE entry = None -> [t EXCEPT !.last[a] = 0]
       [] entry # None /\ entry.reason = "HookClear" ->
            [Remember(t, a, entry.session) EXCEPT !.suppressed[a] = None, !.last[a] = 0]
       [] entry # None /\ entry.reason = "ProcessExit" /\ next = None -> [t EXCEPT !.last[a] = 0]
       [] OTHER ->
            IF held # None /\ held.session = next /\ held.seq > t.last[a]
            THEN [saved EXCEPT !.saved = AgentSession(a, next), !.hook = held, !.last[a] = held.seq]
            ELSE [saved EXCEPT !.saved = AgentSession(a, next)]

(* set_agent_session_ref_for_session_start *)
Replacing == {"new"}                 \* session_report_allows_session_replacement
Recognized == Replacing \cup {"startup"}   \* session_start_source_is_recognized

(* ... of an agent that is not present, not anchored, or suppressed: the   *)
(* session waits to be validated by its process. *)
Announce(t, m, n) ==
  LET a == m.agent
      entry == IF t.suppressed[a] = None THEN Suppression(None, "ProcessExit", n) ELSE t.suppressed[a]
      held == IF /\ entry.replacement # m.session
                 /\ entry.pending # None /\ entry.pending.session # m.session
              THEN None ELSE entry.pending
      announced == [Accepted(t, m) EXCEPT
                      !.suppressed[a] = [entry EXCEPT !.replacement = m.session, !.pending = held]]
  IN CASE m.kind \notin Recognized \/ ~Newer(t, m) -> t
       [] m.kind \in Recognized /\ Newer(t, m) /\ Present(t, a) -> Validate(announced, a)
       [] OTHER -> announced

(* ... of an anchored agent. *)
Replace(t, m, n) ==
  LET a == m.agent
      fresh == IF m.kind \in Replacing \/ ~Owned(t, a) THEN Forget(Accepted(t, m), a, m.session)
               ELSE Accepted(t, m)
      left == CASE ~Owned(t, a) -> [SuppressHook(fresh, n) EXCEPT !.hook = None]
                [] Owned(t, a) /\ t.hook # None /\ t.hook.session # m.session ->
                     [Remember(fresh, a, t.hook.session) EXCEPT !.hook = None]
                [] OTHER -> fresh
  IN CASE ~Newer(t, m) -> t
       [] Newer(t, m) /\ ~Owned(t, a) /\ m.kind \notin Recognized -> Accepted(t, m)
       [] Newer(t, m) /\ Owned(t, a) /\ Current(t).session # m.session /\ m.kind \notin Replacing ->
            Accepted(t, m)
       [] OTHER -> [left EXCEPT !.saved = AgentSession(a, m.session)]

SessionReport(t, m, n) ==
  LET a == m.agent
      gated == t.suppressed[a] # None /\ t.suppressed[a].reason # "HookClear"
  IN IF Present(t, a) /\ ~gated /\ Anchor(t, a) # None THEN Replace(t, m, n) ELSE Announce(t, m, n)

(* clear_hook_authority_with_mutation *)
ClearHook(t, seq, n) ==
  IF t.hook = None \/ seq <= t.last[t.hook.agent] THEN t
  ELSE [SuppressHook(t, n) EXCEPT !.last[t.hook.agent] = seq, !.hook = None, !.saved = None]

----------------------------------------------------------------------------
(* set_detected_state_with_screen_signals_at.  The result r is the first   *)
(* of the n in the queue. *)

(* detected_state_observed_before_release_suppression *)
Predates(t, r) ==
  ~r.exited /\ r.agent # None /\ t.suppressed[r.agent] # None /\ t.suppressed[r.agent].older > 0

(* should_ignore_detected_state_under_full_lifecycle_hook *)
Overruled(t, r) == ~r.exited /\ Effective(t) /\ r.agent \in {None, t.hook.agent}

(* What was announced or held for the exited process is suppressed with it. *)
EntryExited(t, a) ==
  LET entry == t.suppressed[a]
      gone == CASE entry.replacement # None -> entry.replacement
                [] entry.replacement = None /\ entry.pending # None -> entry.pending.session
                [] OTHER -> entry.session
  IN IF entry = None \/ entry.reason = "HookClear" THEN t
     ELSE [Remember(t, a, IF entry.session # gone THEN entry.session ELSE None) EXCEPT
             !.suppressed[a] = Suppression(gone, "ProcessExit", 0), !.last[a] = 0]

(* And so is its session; then the agent has no hook and no session. *)
SessionExited(t, a) ==
  LET was == Anchor(t, a)
      suppressed == IF was = None THEN t
                    ELSE [Suppress(t, a, was, "ProcessExit", 0) EXCEPT !.last[a] = 0]
  IN [suppressed EXCEPT !.exit = a,
        !.hook = IF @ # None /\ @.agent = a THEN None ELSE @,
        !.saved = IF @ # None /\ @.agent = a THEN None ELSE @]

(* Mutant: what was announced or held outlives the process. *)
Exited_EntryKept(t, a) == SessionExited(t, a)

(* The process of agent a has exited. *)
Exited(t, a) == SessionExited(EntryExited(t, a), a)

(* Detection contradicts the hook: the hook yields, its session is kept. *)
Contradicted(t, r, previous, n) ==
  IF /\ t.hook # None /\ t.hook.older = 0
     /\ \/ r.agent # None /\ t.hook.agent # r.agent
        \/ previous # None /\ r.agent # previous /\ t.hook.agent = previous
  THEN [SuppressHook(t, n) EXCEPT !.hook = None, !.saved = AgentSession(t.hook.agent, t.hook.session)]
  ELSE t

Aged(older) == IF older = 0 THEN 0 ELSE older - 1
AgedHook(h) == IF h = None THEN None ELSE [h EXCEPT !.older = Aged(@)]
AgedEntry(e) ==
  IF e = None THEN None ELSE [e EXCEPT !.older = Aged(@), !.pending = AgedHook(@)]
Popped(t) ==
  [t EXCEPT !.hook = AgedHook(@), !.suppressed = [a \in Agents |-> AgedEntry(@[a])]]

DetectionResult(t, r, n) ==
  LET fromExit == t.exit # None /\ t.exit = r.agent
      seen == [t EXCEPT !.detected = r.agent]
      known == CASE r.exited -> Exited(seen, r.agent)
                 [] ~r.exited /\ r.agent # None /\ (fromExit \/ t.detected # r.agent) ->
                      [Validate(seen, r.agent) EXCEPT !.exit = None]
                 [] ~r.exited /\ r.agent # None /\ ~fromExit /\ t.detected = r.agent ->
                      [seen EXCEPT !.exit = None]
                 [] OTHER -> seen
  IN Popped(IF Overruled(t, r) \/ Predates(t, r) THEN t
            ELSE Contradicted(known, r, t.detected, n))
=============================================================================
