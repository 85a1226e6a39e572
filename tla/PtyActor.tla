-------------------------------- MODULE PtyActor --------------------------------
(***************************************************************************)
(* The thread that owns one pane's PTY (src/src/pty/actor/unix.rs) and the *)
(* handle the server holds on it: user input on its way to the pane, and   *)
(* the calls by which a live handoff quiesces the thread, takes a duplicate *)
(* of its descriptor, and rolls back or releases it.                       *)
(*                                                                         *)
(* The handle's calls wait for an answer for a limited time; the thread    *)
(* may answer after that, so a timeout may happen at any moment.  An input *)
(* is its number in the order of acceptance, and is written when its last  *)
(* byte is.  Resizes, redraw nudges and terminal responses are left out,   *)
(* as is the wake pipe: a command is always followed by a wake.            *)
(***************************************************************************)
EXTENDS Naturals, Sequences, FiniteSets

CONSTANTS
  Tasks,       \* asynchronous writers (write_user_input)
  BufferSize,  \* ACTOR_COMMAND_BUFFER
  MaxInputs,   \* bound on the inputs accepted
  MaxHandoffs  \* bound on the handoffs begun

ASSUME PtyActorAssumption ==
  /\ BufferSize \in Nat \ {0} /\ MaxInputs \in Nat /\ MaxHandoffs \in Nat

VARIABLES
  accepting,       \* UserWriteGate.accepting
  task,            \* how far each asynchronous writer is
  data,            \* data channel
  ctl,             \* control channel: commands, and whether anybody waits
  role,            \* what the handle's owner uses it for
  call, reply,     \* the call under way and the answer it has got
  begun,           \* handoffs begun
  state,           \* ActorState
  thread, waited,  \* the actor's thread; whether begin_handoff is waited for
  pending,         \* pending_writes
  accepted,        \* inputs accepted so far
  written,         \* inputs the pane's process has been sent
  ptyUp            \* the other side of the PTY is open

inputVars  == <<accepting, task, data, accepted>>
handleVars == <<role, call, reply, begun>>
actorVars  == <<state, thread, waited, pending>>
vars == <<inputVars, ctl, handleVars, actorVars, written, ptyUp>>

----------------------------------------------------------------------------
(* PtyIoActor::spawn: for a new pane, or for one imported by a handoff     *)
(* (initially_quiesced).                                                   *)
Init ==
  /\ \/ role = "serving" /\ accepting = TRUE /\ state = "Running"
     \/ role = "imported" /\ accepting = FALSE /\ state = "Quiesced"
  /\ task = [t \in Tasks |-> "idle"] /\ data = <<>> /\ ctl = <<>>
  /\ call = "none" /\ reply = "none" /\ begun = 0
  /\ thread = "loop" /\ waited = FALSE /\ pending = <<>>
  /\ accepted = 0 /\ written = <<>> /\ ptyUp = TRUE

----------------------------------------------------------------------------
(* User input.                                                             *)

Permits == {t \in Tasks : task[t] = "permitted"}

(* Mutant: a slot that is reserved but not yet filled counts as free. *)
HasRoom_ForgetsPermits == Len(data) < BufferSize
HasRoom == Len(data) + Cardinality(Permits) < BufferSize

Accept ==
  /\ accepted' = accepted + 1
  /\ data' = IF thread = "exited" THEN data ELSE Append(data, accepted + 1)

(* try_write_user_input, when it answers Ok. *)
TryWriteUserInput ==
  /\ accepting /\ thread # "exited" /\ HasRoom /\ accepted < MaxInputs
  /\ Accept
  /\ UNCHANGED <<accepting, task, ctl, handleVars, actorVars, written, ptyUp>>

(* write_user_input: the gate is looked at, ... *)
TaskStarts(t) ==
  /\ task[t] = "idle" /\ accepting /\ accepted < MaxInputs
  /\ task' = [task EXCEPT ![t] = "reserving"]
  /\ UNCHANGED <<accepting, data, accepted, ctl, handleVars, actorVars, written, ptyUp>>

(* ... room in the channel is awaited, or the channel is closed, ... *)
TaskReserves(t) ==
  /\ task[t] = "reserving"
  /\ \/ thread # "exited" /\ HasRoom /\ task' = [task EXCEPT ![t] = "permitted"]
     \/ thread = "exited" /\ task' = [task EXCEPT ![t] = "idle"]
  /\ UNCHANGED <<accepting, data, accepted, ctl, handleVars, actorVars, written, ptyUp>>

(* Mutant: the gate is not looked at again after the wait. *)
TaskSends_NoRecheck(t) ==
  /\ task[t] = "permitted"
  /\ task' = [task EXCEPT ![t] = "idle"]
  /\ IF accepted < MaxInputs THEN Accept ELSE UNCHANGED <<data, accepted>>
  /\ UNCHANGED <<accepting, ctl, handleVars, actorVars, written, ptyUp>>

(* ... and the gate is looked at again before the input is sent. *)
TaskSends(t) ==
  /\ task[t] = "permitted"
  /\ task' = [task EXCEPT ![t] = "idle"]
  /\ IF accepting /\ accepted < MaxInputs THEN Accept ELSE UNCHANGED <<data, accepted>>
  /\ UNCHANGED <<accepting, ctl, handleVars, actorVars, written, ptyUp>>

----------------------------------------------------------------------------
(* The handle's calls.                                                     *)

(* A command is sent and its answer awaited; FALSE if the thread is gone. *)
Send(op, kind) ==
  /\ thread # "exited"
  /\ ctl' = Append(ctl, [op |-> op, waited |-> TRUE])
  /\ call' = kind /\ reply' = "none"
Closed == thread = "exited"

(* Nobody waits for what was sent before any longer. *)
Abandoned == [i \in 1 .. Len(ctl) |-> [ctl[i] EXCEPT !.waited = FALSE]]

(* begin_handoff: the gate closes and the command is queued under one lock. *)
BeginHandoff ==
  /\ role = "serving" /\ call = "none" /\ begun < MaxHandoffs
  /\ begun' = begun + 1
  /\ \/ Send("begin", "begin") /\ accepting' = FALSE /\ UNCHANGED role
     \/ Closed /\ accepting' = TRUE /\ UNCHANGED <<ctl, call, reply, role>>
  /\ UNCHANGED <<task, data, accepted, actorVars, written, ptyUp>>

(* The answer to a call is missing: too late, or the thread is gone. *)
NoAnswer == reply = "none"

BeginAnswered ==
  /\ call = "begin" /\ reply = "ok"
  /\ call' = "none" /\ reply' = "none" /\ role' = "paused"
  /\ UNCHANGED <<begun, inputVars, ctl, actorVars, written, ptyUp>>

(* begin_handoff rolls itself back when it fails or is not answered. *)
BeginFails ==
  /\ call = "begin" /\ reply # "ok"
  /\ waited' = FALSE
  /\ IF Closed
     THEN call' = "none" /\ reply' = "none" /\ UNCHANGED ctl
     ELSE /\ ctl' = Append(Abandoned, [op |-> "rollback", waited |-> TRUE])
          /\ call' = "rollback" /\ reply' = "none"
  /\ UNCHANGED <<role, begun, inputVars, state, thread, pending, written, ptyUp>>

(* rollback_handoff, from a handoff that fails elsewhere, whether or not a *)
(* duplicate was taken, or in the import server once it is committed.      *)
RollbackHandoff ==
  /\ role \in {"paused", "failing", "duplicated", "imported"} /\ call = "none"
  /\ role' = "serving"
  /\ Send("rollback", "rollback") \/ (Closed /\ UNCHANGED <<ctl, call, reply>>)
  /\ UNCHANGED <<begun, inputVars, actorVars, written, ptyUp>>

RollbackEnds ==
  /\ call = "rollback"
  /\ accepting' = (accepting \/ reply = "ok")
  /\ ctl' = Abandoned /\ call' = "none" /\ reply' = "none"
  /\ UNCHANGED <<role, begun, task, data, accepted, actorVars, written, ptyUp>>

(* duplicate_for_handoff. *)
DuplicateForHandoff ==
  /\ role = "paused" /\ call = "none"
  /\ Send("duplicate", "duplicate")
  /\ UNCHANGED <<role, begun, inputVars, actorVars, written, ptyUp>>

(* With the duplicate the owner goes on; without it, it will roll back. *)
DuplicateEnds ==
  /\ call = "duplicate"
  /\ role' = IF reply = "ok" THEN "duplicated" ELSE "failing"
  /\ ctl' = Abandoned /\ call' = "none" /\ reply' = "none"
  /\ UNCHANGED <<begun, inputVars, actorVars, written, ptyUp>>

(* release_after_commit, after which the handle is dropped. *)
ReleaseAfterCommit ==
  /\ role = "duplicated" /\ call = "none"
  /\ accepting' = FALSE /\ role' = "released"
  /\ Send("release", "release") \/ (Closed /\ UNCHANGED <<ctl, call, reply>>)
  /\ UNCHANGED <<begun, task, data, accepted, actorVars, written, ptyUp>>

ReleaseEnds ==
  /\ call = "release"
  /\ ctl' = Abandoned /\ call' = "none" /\ reply' = "none"
  /\ UNCHANGED <<role, begun, inputVars, actorVars, written, ptyUp>>

(* shutdown: the pane is closed, or an import given up. *)
Shutdown ==
  /\ role \in {"serving", "imported"} /\ call = "none"
  /\ accepting' = FALSE /\ role' = "released"
  /\ ctl' = IF Closed THEN ctl ELSE Append(ctl, [op |-> "shutdown", waited |-> FALSE])
  /\ UNCHANGED <<call, reply, begun, task, data, accepted, actorVars, written, ptyUp>>

Handle ==
  \/ BeginHandoff \/ BeginAnswered \/ BeginFails \/ RollbackHandoff \/ RollbackEnds
  \/ DuplicateForHandoff \/ DuplicateEnds
  \/ ReleaseAfterCommit \/ ReleaseEnds \/ Shutdown

----------------------------------------------------------------------------
(* The actor's thread.                                                     *)

(* Mutant: an answer reaches whichever call is waiting. *)
Answer_AnyCall(w, a) == reply' = IF call # "none" /\ reply = "none" THEN a ELSE reply

(* An answer reaches the call it belongs to, if that still waits. *)
Answer(w, a) == reply' = IF w THEN a ELSE reply

(* Mutant: input already queued is left where it is. *)
BeginDrain_QueueOnly(w) ==
  /\ thread' = "draining" /\ waited' = w
  /\ UNCHANGED <<pending, data, state, reply>>

(* begin_handoff starts: what is queued is taken first. *)
BeginDrain(w) ==
  /\ thread' = "draining" /\ waited' = w
  /\ pending' = pending \o data /\ data' = <<>>
  /\ UNCHANGED <<state, reply>>

(* handle_control_command. *)
ActorTakesControl ==
  /\ thread = "loop" /\ ctl # <<>>
  /\ ctl' = Tail(ctl)
  /\ LET op == Head(ctl).op
         w  == Head(ctl).waited
     IN \/ op = "begin" /\ BeginDrain(w)
        \/ /\ op = "duplicate"
           /\ Answer(w, IF state = "Quiesced" THEN "ok" ELSE "err")
           /\ UNCHANGED <<state, thread, waited, pending, data>>
        \/ /\ op = "rollback"
           /\ state' = "Running" /\ Answer(w, "ok")
           /\ UNCHANGED <<thread, waited, pending, data>>
        \/ /\ op = "release"
           /\ state' = "Released" /\ pending' = <<>> /\ Answer(w, "ok")
           /\ thread' = "exited" /\ data' = <<>>
           /\ UNCHANGED waited
        \/ /\ op = "shutdown"
           /\ thread' = "exited" /\ pending' = <<>> /\ data' = <<>>
           /\ UNCHANGED <<state, waited, reply>>
  /\ UNCHANGED <<accepting, task, accepted, role, call, begun, written, ptyUp>>

(* handle_data_command: input is dropped unless the actor runs. *)
ActorTakesData ==
  /\ thread = "loop" /\ data # <<>>
  /\ data' = Tail(data)
  /\ pending' = IF state = "Running" THEN Append(pending, Head(data)) ELSE pending
  /\ UNCHANGED <<accepting, task, accepted, ctl, handleVars, state, thread, waited, written,
                 ptyUp>>

(* flush_pending_writes_once, as far as one input goes; a write error      *)
(* empties the list.                                                       *)
ActorWrites ==
  /\ thread # "exited" /\ pending # <<>>
  /\ IF ptyUp THEN written' = Append(written, Head(pending)) /\ pending' = Tail(pending)
              ELSE pending' = <<>> /\ UNCHANGED written
  /\ UNCHANGED <<inputVars, ctl, handleVars, state, thread, waited, ptyUp>>

(* begin_handoff ends: everything is written, ... *)
ActorQuiesces ==
  /\ thread = "draining" /\ pending = <<>>
  /\ state' = "Quiesced" /\ thread' = "loop" /\ Answer(waited, "ok") /\ waited' = FALSE
  /\ UNCHANGED <<inputVars, ctl, role, call, begun, pending, written, ptyUp>>

(* ... or HANDOFF_DRAIN_TIMEOUT has passed, or the PTY is closed. *)
ActorFailsToQuiesce ==
  /\ thread = "draining" /\ pending # <<>>
  /\ thread' = "loop" /\ Answer(waited, "err") /\ waited' = FALSE
  /\ UNCHANGED <<inputVars, ctl, role, call, begun, state, pending, written, ptyUp>>

(* The loop ends: end of file, which only a running actor reads, or every  *)
(* handle dropped.                                                         *)
ActorExits ==
  /\ thread = "loop"
  /\ \/ state = "Running" /\ ~ptyUp
     \/ role = "released" /\ call = "none" /\ ctl = <<>> /\ \A t \in Tasks : task[t] = "idle"
  /\ thread' = "exited" /\ pending' = <<>> /\ data' = <<>> /\ ctl' = <<>>
  /\ UNCHANGED <<accepting, task, accepted, handleVars, state, waited, written, ptyUp>>

(* The pane's process ends. *)
PtyCloses ==
  /\ ptyUp /\ ptyUp' = FALSE
  /\ UNCHANGED <<inputVars, ctl, handleVars, actorVars, written>>

Actor ==
  \/ ActorTakesControl \/ ActorTakesData \/ ActorWrites
  \/ ActorQuiesces \/ ActorFailsToQuiesce \/ ActorExits

----------------------------------------------------------------------------
Next ==
  \/ TryWriteUserInput
  \/ \E t \in Tasks : TaskStarts(t) \/ TaskReserves(t) \/ TaskSends(t)
  \/ Handle \/ Actor \/ PtyCloses

(* The thread runs, and the pane's process reads its input. *)
Fairness ==
  /\ WF_vars(ActorTakesControl) /\ WF_vars(ActorTakesData) /\ WF_vars(ActorWrites)
  /\ WF_vars(ActorQuiesces)

Spec == Init /\ [][Next]_vars
FairSpec == Spec /\ Fairness
----------------------------------------------------------------------------
(* Properties.                                                             *)

Command == [op : {"begin", "duplicate", "rollback", "release", "shutdown"}, waited : BOOLEAN]

TypeOK ==
  /\ accepting \in BOOLEAN /\ ptyUp \in BOOLEAN /\ waited \in BOOLEAN
  /\ task \in [Tasks -> {"idle", "reserving", "permitted"}]
  /\ accepted \in 0 .. MaxInputs
  /\ data \in Seq(1 .. MaxInputs) /\ pending \in Seq(1 .. MaxInputs)
  /\ written \in Seq(1 .. MaxInputs)
  /\ Len(data) + Cardinality(Permits) <= BufferSize
  /\ ctl \in Seq(Command)
  /\ role \in {"serving", "imported", "paused", "failing", "duplicated", "released"}
  /\ call \in {"none", "begin", "duplicate", "rollback", "release"}
  /\ reply \in {"none", "ok", "err"} /\ begun \in 0 .. MaxHandoffs
  /\ state \in {"Running", "Quiesced", "Released"}
  /\ thread \in {"loop", "draining", "exited"}

Upto(n) == [i \in 1 .. n |-> i]

(* Every input the server was told is accepted reaches the pane, once and  *)
(* in order, through any number of handoffs begun, timed out and rolled    *)
(* back, as long as the pane's process lives and the thread is not ended.  *)
AcceptedInputSurvives ==
  thread # "exited" /\ ptyUp => written \o pending \o data = Upto(accepted)

(* While the handoff counts on the PTY being quiet (it captures the screen *)
(* and hands over a duplicate) the thread neither reads nor has anything   *)
(* left to write, and no input can be accepted.                            *)
PausedMeansQuiet ==
  role \in {"paused", "duplicated"} /\ thread # "exited" =>
    /\ ~accepting /\ thread = "loop" /\ state = "Quiesced"
    /\ pending = <<>> /\ data = <<>>

(* The gate is open only on a thread that runs and that no late command    *)
(* will quiesce.                                                           *)
OpenGateRuns ==
  accepting /\ thread # "exited" =>
    /\ thread = "loop" /\ state = "Running"
    /\ \A i \in 1 .. Len(ctl) : ctl[i].op \notin {"begin", "release", "shutdown"}

(* Both: gate and thread never disagree about who owns the PTY, however    *)
(* late the thread answers the handle's calls.                             *)
GateMatchesActor == PausedMeansQuiet /\ OpenGateRuns

(* Accepted input is not left behind: it is written unless the pane ends.  *)
InputIsWritten ==
  \A n \in 1 .. MaxInputs :
    (accepted >= n) ~> (Len(written) >= n \/ ~ptyUp \/ thread = "exited")
================================================================================
