------------------------------- MODULE AgentWait --------------------------------
(***************************************************************************)
(* One API connection that waits for an agent: agent.wait, and             *)
(* agent.prompt with a wait (src/src/api/wait.rs).  Its thread notes the   *)
(* hub's sequence number, asks the main loop for the agent, and then       *)
(* follows events; an event is no more than a reason to ask again, but     *)
(* for those that say that the agent is gone, and for a state that         *)
(* agent.wait would otherwise miss because it did not last.                *)
(*                                                                         *)
(* agent.prompt sends text to the agent once it has seen it, waits at most *)
(* five seconds for any change (the gate), and then for a state the caller *)
(* asked for (the settle phase), in which it reads the events of the gate  *)
(* again from the beginning.                                               *)
(***************************************************************************)
EXTENDS EventHub

CONSTANTS
  Requests    \* the requests: [kind, by, until, timeout]

ASSUME WaitAssumption ==
  /\ Requests # {}
  /\ Requests \subseteq
       [kind : {"wait", "prompt"}, by : {"pane", "name"}, until : (SUBSET Statuses) \ {{}},
        timeout : {"none", "short", "long"}]

VARIABLES
  request,    \* the request
  pc,         \* where the thread is
  origin,     \* the hub's sequence number when it began
  cursor,     \* the last event it has looked at
  phase,      \* "wait", or the phase of a prompt
  expected,   \* the agent's label and whether it bore the name, when last resolved
  after,      \* the state change that the answer must be later than, or -1
  matched,    \* an event's status that was asked for, or None
  expired,    \* the deadline of the phase has passed
  answer,     \* the answer
  seenSince,  \* history: statuses of the pane since the request
  endedSince, \* history: the pane's agent ended, or its name, since the request
  missed,     \* history: events were dropped before the thread had looked at them
  unheard,    \* history: the pane has got its status without an event, and the thread has
              \*   not asked for the agent since
  moved       \* history: the agent has worked, changed or gone since the prompt was submitted,
              \*   or the release of its predecessor was in the hub then and not yet read

waitVars == <<request, pc, origin, cursor, phase, expected, after, matched, expired, answer>>
waitHistory == <<seenSince, endedSince, missed, unheard, moved>>

NoAnswer == [code |-> "none", status |-> None]
Nobody == [agent |-> None, named |-> FALSE]
Finished == pc \in {"answered", "left"}

----------------------------------------------------------------------------
(* agent_get, which the main loop answers between two changes. *)
Served == outbox = <<>>
Resolves == IsAgent /\ (request.by = "name" => name # None)
Identity == [agent |-> agent, named |-> request.by = "name"]

(* agent_wait_identity_matches: the pane's agent is the one that was resolved; an agent *)
(* that is out of sight counts as itself as long as the pane has a name.                *)
SameAgent ==
  /\ expected.named => name # None
  /\ expected.agent # None => agent = expected.agent \/ (agent = None /\ name # None)

Wanted == IF phase = "gate" THEN Statuses ELSE request.until

(* agent_wait_matches *)
Matches == Status \in Wanted /\ changeSeq > after

Answer(code, status) ==
  /\ pc' = "answered" /\ answer' = [code |-> code, status |-> status]
  /\ UNCHANGED <<request, origin, cursor, phase, expected, after, matched, expired>>

NotRunning == Answer("agent_not_running", None)

----------------------------------------------------------------------------
(* Mutant: everything the hub still keeps counts as unread. *)
Begin_FromZero ==
  /\ pc = "request" /\ pc' = "resolve"
  /\ origin' = 0 /\ cursor' = 0
  /\ UNCHANGED <<request, phase, expected, after, matched, expired, answer>>

(* The hub's sequence number is noted before the agent is asked for. *)
Begin ==
  /\ pc = "request" /\ pc' = "resolve"
  /\ origin' = next /\ cursor' = next
  /\ UNCHANGED <<request, phase, expected, after, matched, expired, answer>>

(* The first agent_get. *)
Resolve ==
  /\ pc = "resolve" /\ Served
  /\ IF ~Resolves THEN Answer("agent_not_found", None)
     ELSE IF request.kind = "wait" /\ Status \in request.until THEN Answer("matched", Status)
     ELSE /\ pc' = IF request.kind = "wait" THEN "scan" ELSE "submit"
          /\ expected' = Identity
          /\ UNCHANGED <<request, origin, cursor, phase, after, matched, expired, answer>>

(* AgentPrompt: refused unless there is an agent that takes input; else the answer is *)
(* what the agent is at the submission.                                               *)
Submit ==
  /\ pc = "submit" /\ Served
  /\ \/ Answer("agent_not_ready", None)
     \/ /\ Resolves /\ agent # None
        /\ IF ~SameAgent THEN NotRunning
           ELSE /\ pc' = "scan" /\ expected' = Identity
                /\ phase' = IF state = "Working" THEN "settle" ELSE "gate"
                /\ after' = changeSeq
                /\ UNCHANGED <<request, origin, cursor, matched, expired, answer>>

(* A wait is over with the status of an agent: the answer, or the end of the gate.  The *)
(* settle phase has what is left of the caller's time, and reads from the origin again. *)
Outcome(status, identity) ==
  IF phase # "gate" \/ status \in request.until THEN Answer("matched", status)
  ELSE /\ pc' = "scan" /\ phase' = "settle" /\ after' = -1 /\ matched' = None
       /\ cursor' = origin /\ expected' = identity
       /\ expired' = (expired /\ request.timeout = "short")
       /\ UNCHANGED <<request, origin, answer>>

----------------------------------------------------------------------------
(* One look at the events that are new: *)
News == Unread(cursor)

(* events that end the wait, *)
Ends(e) ==
  \/ e.kind = "exited"
  \/ e.kind = "detected" /\ (e.released \/ (e.agent # None /\ expected.agent # None /\ e.agent # expected.agent))

HasEnd == \E i \in DOMAIN News : Ends(News[i])
FirstEnd == CHOOSE i \in DOMAIN News : Ends(News[i]) /\ \A j \in 1..(i - 1) : ~Ends(News[j])

(* those before the first of them, *)
Followed == {i \in DOMAIN News : \A j \in 1..i : ~Ends(News[j])}

(* Mutant: only a new agent is a reason to ask. *)
AskAgain_Detections == \E i \in Followed : News[i].kind \in {"detected", "updated"}

(* whether they are a reason to ask for the agent, *)
AskAgain == \E i \in Followed : News[i].kind \in {"detected", "updated", "status"}

(* and the last status among them that was asked for, which only agent.wait takes. *)
Fleeting ==
  LET hits == {i \in Followed : News[i].kind = "status" /\ News[i].status \in Wanted}
  IN  IF phase # "wait" \/ hits = {} THEN None
      ELSE News[CHOOSE i \in hits : \A j \in hits : j <= i].status

(* The loop of wait_for_resolved_agent, from its top to a probe or its deadline.  A *)
(* release answers with the status that the agent was left with, if it was asked for. *)
Scan ==
  /\ pc = "scan"
  /\ IF HasEnd THEN
       LET e == News[FirstEnd]
           left == IF e.released /\ e.status \in Wanted THEN e.status ELSE Fleeting
       IN  IF e.kind = "detected" /\ e.released /\ left # None
           THEN Outcome(left, expected) ELSE NotRunning
     ELSE /\ cursor' = next /\ matched' = Fleeting
          /\ pc' = IF AskAgain THEN "probe" ELSE "deadline"
          /\ UNCHANGED <<request, origin, phase, expected, after, expired, answer>>

(* agent_get after news. *)
Probe ==
  /\ pc = "probe" /\ Served
  /\ IF ~Resolves \/ ~SameAgent THEN NotRunning
     ELSE IF matched # None THEN Outcome(matched, Identity)
     ELSE IF Matches THEN Outcome(Status, Identity)
     ELSE pc' = "deadline" /\ UNCHANGED <<request, origin, cursor, phase, expected, after, matched, expired, answer>>

(* The end of an iteration. *)
Deadline ==
  /\ pc = "deadline"
  /\ pc' = IF expired THEN "late" ELSE "scan"
  /\ UNCHANGED <<request, origin, cursor, phase, expected, after, matched, expired, answer>>

(* agent_get at the deadline. *)
Late ==
  /\ pc = "late" /\ Served
  /\ IF ~Resolves \/ ~SameAgent THEN NotRunning
     ELSE IF Matches THEN Outcome(Status, Identity)
     ELSE Answer(IF phase = "gate" /\ request.timeout # "short" THEN "agent_prompt_stalled" ELSE "timeout", None)

(* The main loop does not answer a probe in time. *)
ProbeDies ==
  /\ pc \in {"resolve", "probe", "late"}
  /\ Answer("error", None)

(* The clock: a gate always has a deadline. *)
Expire ==
  /\ pc \in {"scan", "probe", "deadline"} /\ ~expired
  /\ request.timeout # "none" \/ phase = "gate"
  /\ expired' = TRUE
  /\ UNCHANGED <<request, pc, origin, cursor, phase, expected, after, matched, answer>>

(* should_stop_connection: the client has closed its end. *)
Leave ==
  /\ pc = "scan" /\ pc' = "left"
  /\ UNCHANGED <<request, origin, cursor, phase, expected, after, matched, expired, answer>>

----------------------------------------------------------------------------
(* What the histories take from a step of the thread; a change whose events are still *)
(* being pushed belongs to the request.                                               *)
Told(q) == {q[i].status : i \in DOMAIN q} \ {None}
Ending == {"detected", "exited"}

LateRelease == \E i \in DOMAIN News : News[i].released

WaitHistory ==
  /\ seenSince' = IF pc = "request" THEN {Status} \cup Told(outbox) ELSE seenSince
  /\ endedSince' = IF pc = "request" THEN \E i \in DOMAIN outbox : outbox[i].kind \in Ending ELSE endedSince
  /\ missed' = (missed \/ (pc = "scan" /\ Missed(cursor)))
  /\ unheard' = (unheard /\ pc \notin {"resolve", "submit", "probe", "late"})
  /\ moved' = IF pc = "submit" THEN state = "Working" \/ LateRelease ELSE moved

(* And from one of the main loop, while there is a request. *)
HubHistory ==
  /\ seenSince' = seenSince \cup {StatusOf(state', seen')} \cup Told(outbox')
  /\ endedSince' = (endedSince \/ there' # there \/ agent' # agent \/ (name # None /\ name' # name))
  /\ unheard' = IF StatusOf(state', seen') = Status THEN unheard
                ELSE StatusOf(state', seen') \notin Told(outbox')
  /\ moved' = (moved \/ state' # state \/ agent' # agent)
  /\ UNCHANGED missed

Idling == pc = "request" \/ Finished
HubObserved == IF Idling THEN UNCHANGED waitHistory ELSE HubHistory

WaitIdle(p) ==
  /\ pc = p /\ origin = 0 /\ cursor = 0
  /\ phase = IF request.kind = "wait" THEN "wait" ELSE "gate"
  /\ expected = Nobody /\ after = -1 /\ matched = None
  /\ expired = FALSE /\ answer = NoAnswer
  /\ seenSince = {} /\ endedSince = FALSE /\ missed = FALSE
  /\ unheard = FALSE /\ moved = FALSE

WaitInit == request \in Requests /\ WaitIdle("request")

WaitStep == Begin \/ Resolve \/ Submit \/ Scan \/ Probe \/ Deadline \/ Late \/ ProbeDies \/ Expire \/ Leave

(* The thread runs, the main loop answers requests in order of arrival, time passes. *)
WaitFairness ==
  /\ WF_waitVars(Begin \/ Scan \/ Deadline)
  /\ SF_waitVars(Resolve \/ Submit \/ Probe \/ Late)
  /\ WF_waitVars(Expire)

----------------------------------------------------------------------------
WaitTypeOK ==
  /\ request \in Requests
  /\ pc \in {"request", "resolve", "submit", "scan", "probe", "deadline", "late", "answered", "left"}
  /\ origin \in 0..next /\ cursor \in origin..next
  /\ phase \in {"wait", "gate", "settle"}
  /\ expected \in [agent : Labels, named : BOOLEAN]
  /\ after \in Nat \cup {-1} /\ matched \in Statuses \cup {None} /\ expired \in BOOLEAN
  /\ answer.code \in {"none", "matched", "agent_not_found", "agent_not_ready", "agent_not_running",
                     "agent_prompt_stalled", "timeout", "error"}
  /\ (answer.code = "none") = (pc # "answered")

(* A status that is answered is one that was asked for and that the pane has had since  *)
(* the request; and it is not said that the agent no longer runs unless, since the      *)
(* request, it was released, replaced, lost or renamed, or the pane went.  A prompt is  *)
(* not answered with success before the agent has moved: it was at work when the text   *)
(* was submitted, or has since changed its state or gone; not so if the release of its  *)
(* predecessor was still unread at the submission, which is taken for its own.          *)
AnswerIsTrue ==
  /\ answer.code = "matched" => answer.status \in request.until \cap seenSince
  /\ answer.code = "agent_not_running" => endedSince
  /\ request.kind = "prompt" /\ answer.code = "matched" => moved

(* A wait ends: by its deadline if it has one, else once the pane keeps a status that   *)
(* was asked for, whatever happened in between.  Two exceptions are the code's own: the *)
(* hub dropped events before the thread had looked at them, and the status came without *)
(* an event after the thread last asked.  So a wait for no more than "idle" does not    *)
(* end when an agent that is done is looked at (mark_active_tab_seen): what was done is *)
(* idle then, and nothing wakes the thread.                                             *)
Lasting ==
  /\ Status \in request.until /\ ~unheard
  /\ pc \in {"submit", "scan", "probe", "deadline", "late"} => changeSeq > after
WaitEnds ==
  (request.timeout = "none" => <>[]Lasting /\ []~missed) => <>Finished
=============================================================================
