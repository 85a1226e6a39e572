--------------------------- MODULE ClientWriterQueue ---------------------------
(***************************************************************************)
(* The queue between the server's main loop and the writer thread of one   *)
(* client (src/src/server/client_transport.rs, ClientWriterQueue): a       *)
(* reliable control lane, an ordered lane that holds at most one file      *)
(* command and the render it overtook, and a one-slot render lane.  Every  *)
(* operation runs under the queue's mutex, so each is one action.          *)
(*                                                                         *)
(* The operators below change the queue variables only.  They are the      *)
(* vocabulary of ClientStream, which adds the threads that call them.      *)
(***************************************************************************)
EXTENDS Naturals, Sequences

VARIABLES
  control,      \* control lane: shutdown, cleanup and other control messages
  ordered,      \* ordered lane: <<>>, <<file>> or <<older render, file>>
  render,       \* render slot: <<>> or <<message>>
  senders,      \* live ClientControlWriter / ClientRenderWriter handles
  writerAlive   \* FALSE once the writer thread has closed the queue

queueVars == <<control, ordered, render, senders, writerAlive>>

(* ClientWriterQueue::new, followed by the two handles the handshake takes. *)
QueueInit ==
  /\ control = <<>>
  /\ ordered = <<>>
  /\ render = <<>>
  /\ senders = 2
  /\ writerAlive = TRUE

----------------------------------------------------------------------------
(* Mutant: a slot that is overwritten. *)
RenderReady_Overwrites == writerAlive

(* Outcomes the senders branch on: TrySendError::Disconnected, Full or Ok.  *)

RenderFull  == writerAlive /\ render # <<>>
RenderReady == writerAlive /\ render = <<>>
OrderedReady == writerAlive /\ ordered = <<>>

(* ClientWriterQueue::send_control, when it answers Ok. *)
PushControl(m) ==
  /\ control' = Append(control, m)
  /\ UNCHANGED <<ordered, render, senders, writerAlive>>

(* ClientWriterQueue::try_send_render, when it answers Ok. *)
PutRender(m) ==
  /\ RenderReady
  /\ render' = <<m>>
  /\ UNCHANGED <<control, ordered, senders, writerAlive>>

(* ClientWriterQueue::send_ordered, when it answers Ok: the render waiting *)
(* in the slot is older than the file, so it moves ahead of it.            *)
PushOrdered(m) ==
  /\ OrderedReady
  /\ ordered' = Append(render, m)
  /\ render' = <<>>
  /\ UNCHANGED <<control, senders, writerAlive>>

(* Mutant: one of the two handles outlives the connection. *)
CleanupAndDrop_KeepsHandle(cleanup) ==
  /\ render' = IF cleanup THEN <<>> ELSE render
  /\ ordered' = IF cleanup THEN <<>> ELSE ordered
  /\ control' = IF cleanup /\ writerAlive THEN Append(control, "cleanup")
                                          ELSE control
  /\ senders' = IF senders = 0 THEN 0 ELSE 1
  /\ UNCHANGED writerAlive

(* ClientWriterQueue::replace_with_cleanup then the drop of both handles:  *)
(* how a connection with host graphics is given up.                        *)
CleanupAndDrop(cleanup) ==
  /\ render' = IF cleanup THEN <<>> ELSE render
  /\ ordered' = IF cleanup THEN <<>> ELSE ordered
  /\ control' = IF cleanup /\ writerAlive THEN Append(control, "cleanup")
                                          ELSE control
  /\ senders' = 0
  /\ UNCHANGED writerAlive

(* replace_with_cleanup, then send_control(shutdown), then both handles    *)
(* dropped: the detach keybinding.  Only a live writer takes the shutdown. *)
CleanupAndShutdown(writer, cleanup) ==
  /\ render' = IF writer /\ cleanup THEN <<>> ELSE render
  /\ ordered' = IF writer /\ cleanup THEN <<>> ELSE ordered
  /\ control' = IF ~writer THEN control
                ELSE control \o IF cleanup THEN <<"cleanup", "shutdown">>
                                           ELSE <<"shutdown">>
  /\ senders' = 0
  /\ UNCHANGED writerAlive

----------------------------------------------------------------------------
(* ClientWriterQueue::recv: control first, then ordered, then the slot.    *)

RecvControl ==
  /\ control # <<>>
  /\ control' = Tail(control)
  /\ UNCHANGED <<ordered, render, senders, writerAlive>>

RecvOrdered ==
  /\ control = <<>> /\ ordered # <<>>
  /\ ordered' = Tail(ordered)
  /\ UNCHANGED <<control, render, senders, writerAlive>>

RecvRender ==
  /\ control = <<>> /\ ordered = <<>> /\ render # <<>>
  /\ render' = <<>>
  /\ UNCHANGED <<control, ordered, senders, writerAlive>>

(* recv answers None: nothing left and every handle dropped. *)
RecvNone == control = <<>> /\ ordered = <<>> /\ render = <<>> /\ senders = 0

(* ClientWriterQueue::close_writer: control messages stay queued, unread. *)
CloseWriter ==
  /\ writerAlive' = FALSE
  /\ render' = <<>>
  /\ ordered' = <<>>
  /\ UNCHANGED <<control, senders>>
================================================================================
