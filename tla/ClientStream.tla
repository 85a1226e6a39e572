------------------------------ MODULE ClientStream ------------------------------
(***************************************************************************)
(* One app client of the headless server, from the moment its handshake is *)
(* done: the server's main loop, the client's writer and reader threads,   *)
(* the channel they report on, and the terminal the client draws on.       *)
(*                                                                         *)
(* Frames are model values; a TerminalAnsi render is a difference against  *)
(* the frame sent before it, so a render lost or overtaken corrupts the    *)
(* screen, which the model shows as Garbled.  Graphics transactions are    *)
(* numbered in the order the app asked for them; the host terminal takes   *)
(* one only after its predecessor.  Serialization failures and oversized   *)
(* frames are left out.                                                    *)
(***************************************************************************)
EXTENDS ClientWriterQueue, FiniteSets

CONSTANTS
  Frames,       \* what the app may show
  NoFrame,      \* nothing drawn / no baseline
  Garbled,      \* a screen that matches no frame
  MaxControl,   \* bound on the control lane for messages the app volunteers
  MaxEvents,    \* capacity of the server event channel
  MaxGraphics,  \* bound on the graphics transactions asked for
  Sends         \* what the client's reader may forward

ASSUME StreamAssumption ==
  /\ NoFrame \notin Frames /\ Garbled \notin Frames /\ NoFrame # Garbled
  /\ Sends \subseteq {"input", "focus", "detachKey"}
  /\ MaxControl \in Nat /\ MaxEvents \in Nat \ {0} /\ MaxGraphics \in Nat

VARIABLES
  wpc, item,       \* writer thread: where it is, the item in its hand
  rpc,             \* reader thread: "reading" or "done"
  events,          \* server_event channel, shared by all clients
  present,         \* the client is in HeadlessServer.clients
  hasWriter,       \* ClientConnection.writer is Some
  pending,         \* ClientConnection.render_pending
  last, repaint,   \* ClientRenderState: last sent frame, repaint_pending
  gfxSent,         \* ClientConnection.graphics_cache: transactions committed
  encoding,        \* negotiated RenderEncoding
  screen,          \* what the app shows now
  gfxWanted,       \* graphics transactions the app has asked for
  need,            \* needs_render, needs_full_render, needs_graphics_render
                   \* and the dirty-PTY flag of the main loop
  view,            \* what the client's terminal shows
  connUp,          \* the client still holds its end of the socket
  told             \* the client has read ServerShutdown

threadVars == <<wpc, item, rpc, events>>
clientVars == <<present, hasWriter, pending, last, repaint, gfxSent, encoding>>
appVars    == <<screen, gfxWanted, need>>
hostVars   == <<view, connUp, told>>
vars == <<queueVars, threadVars, clientVars, appVars, hostVars>>

----------------------------------------------------------------------------
(* Messages.  base is what the sender believes the client shows.           *)

Shown == Frames \cup {NoFrame, Garbled}
RenderMessage ==
  [kind : {"frame", "graphics", "file"}, full : BOOLEAN,
   base : Frames \cup {NoFrame}, frame : Frames \cup {NoFrame},
   gfx : 0 .. MaxGraphics]
ControlMessage == {"notify", "shutdown", "cleanup"}
Event == {"drained", "disconnected", "input", "focus", "detachKey", "other"}

(* What a client's terminal shows after it draws render message m. *)
Draw(v, m) ==
  [frame |-> IF m.kind # "frame" THEN v.frame
             ELSE IF m.full \/ m.base = v.frame THEN m.frame ELSE Garbled,
   gfx |-> IF m.gfx = v.gfx + 1 THEN m.gfx ELSE v.gfx]

----------------------------------------------------------------------------
Init ==
  /\ QueueInit
  /\ wpc = "recv" /\ item = <<>> /\ rpc = "reading" /\ events = <<>>
  /\ present = TRUE /\ hasWriter = TRUE /\ pending = FALSE
  /\ last = [frame |-> NoFrame, gfx |-> 0] /\ repaint = FALSE /\ gfxSent = 0
  /\ encoding \in {"SemanticFrame", "TerminalAnsi"}
  /\ screen \in Frames /\ gfxWanted = 0 /\ need = {"render", "full"}
  /\ view = [frame |-> NoFrame, gfx |-> 0] /\ connUp = TRUE /\ told = FALSE

(* RenderImpact::Full and RenderImpact::Graphics as the main loop merges   *)
(* them, and a dirty PTY raised by render_dirty / render_notify.           *)
NeedFull(n)     == (n \ {"graphics"}) \cup {"render", "full"}
NeedGraphics(n) == n \cup {"render", "graphics"}
NeedPty(n)      == n \cup {"render", "pty"}

----------------------------------------------------------------------------
(* The main loop: removing the client.                                     *)

NoBaseline == [frame |-> NoFrame, gfx |-> 0]

(* remove_client: cleanup of host graphics, if any, replaces what is       *)
(* queued; the ClientConnection is dropped, and with it both writer        *)
(* handles and its render state.                                           *)
RemoveClient ==
  /\ present' = FALSE /\ hasWriter' = FALSE
  /\ IF hasWriter THEN CleanupAndDrop(gfxSent > 0) ELSE UNCHANGED queueVars
  /\ pending' = FALSE /\ last' = NoBaseline /\ repaint' = FALSE /\ gfxSent' = 0
  /\ UNCHANGED encoding

----------------------------------------------------------------------------
(* The main loop: rendering.                                               *)

NextGfx    == IF gfxWanted > gfxSent THEN gfxSent + 1 ELSE 0
Incomplete == gfxWanted > gfxSent + 1
Prepared   == [frame |-> screen, gfx |-> NextGfx]

(* ClientRenderState::prepare_frame answers None. *)
Identical == ~repaint /\ last = Prepared

FrameMessage ==
  [kind |-> "frame",
   full |-> encoding = "SemanticFrame" \/ repaint \/ last.frame = NoFrame,
   base |-> last.frame, frame |-> screen, gfx |-> NextGfx]

(* The next graphics transaction, inline or as a file command. *)
Transaction(kind) ==
  [kind |-> kind, full |-> FALSE, base |-> NoFrame, frame |-> NoFrame,
   gfx |-> gfxSent + 1]

DeferFullRender ==
  /\ pending' = TRUE
  /\ UNCHANGED <<queueVars, present, hasWriter, last, repaint, gfxSent, encoding>>

(* render_and_stream for this client. *)
RenderAndStream ==
  IF ~present \/ ~hasWriter THEN UNCHANGED <<queueVars, clientVars>>
  ELSE \/ /\ Identical
          /\ pending' = Incomplete
          /\ gfxSent' = IF NextGfx = 0 THEN gfxSent ELSE NextGfx
          /\ UNCHANGED <<queueVars, present, hasWriter, last, repaint, encoding>>
       \/ /\ ~Identical
          /\ PutRender(FrameMessage)
          /\ last' = Prepared /\ repaint' = FALSE
          /\ gfxSent' = IF NextGfx = 0 THEN gfxSent ELSE NextGfx
          /\ pending' = Incomplete
          /\ UNCHANGED <<present, hasWriter, encoding>>
       \/ ~Identical /\ RenderFull /\ DeferFullRender
       \/ ~Identical /\ ~writerAlive /\ RemoveClient

(* Plans Full and Pty of retained_render_plan.  A retained PTY update      *)
(* sends the same frame under stricter conditions and otherwise falls back *)
(* to the full render, so both plans have this one effect.                 *)
RenderFrame ==
  /\ "render" \in need /\ (need \cap {"full", "pty"} # {} \/ "graphics" \notin need)
  /\ RenderAndStream
  /\ need' = {}
  /\ UNCHANGED <<threadVars, screen, gfxWanted, hostVars>>

(* Plan Graphics: render_retained_graphics_update_and_stream.  A client    *)
(* with a deferred render is skipped; a client without a baseline takes    *)
(* the full render instead.                                                *)
SendGraphics ==
  IF NextGfx = 0 THEN UNCHANGED <<queueVars, clientVars>>
  ELSE \/ /\ PutRender(Transaction("graphics"))
          /\ gfxSent' = NextGfx /\ pending' = Incomplete
          /\ UNCHANGED <<present, hasWriter, last, repaint, encoding>>
       \/ RenderFull /\ DeferFullRender
       \/ ~writerAlive /\ RemoveClient

RenderGraphics ==
  /\ {"render", "graphics"} \subseteq need /\ need \cap {"full", "pty"} = {}
  /\ IF ~present \/ ~hasWriter \/ pending
     THEN UNCHANGED <<queueVars, clientVars>>
     ELSE IF last.frame = NoFrame THEN RenderAndStream ELSE SendGraphics
  \* Deferred leaves needs_graphics_render set; any other outcome clears it.
  /\ need' = IF present /\ hasWriter
                  /\ (pending \/ (pending' /\ last.frame # NoFrame))
             THEN {"graphics"} ELSE {}
  /\ UNCHANGED <<threadVars, screen, gfxWanted, hostVars>>

----------------------------------------------------------------------------
(* The main loop: what the app asks for.                                   *)

(* Pane output (plan Pty) or any change that asks for a full render. *)
AppChanges(f) ==
  /\ screen' = f
  /\ need' \in {NeedPty(need), NeedFull(need)}
  /\ UNCHANGED <<queueVars, threadVars, clientVars, gfxWanted, hostVars>>

(* pane.graphics API request: one more transaction for the host terminal. *)
AppDrawsGraphics ==
  /\ gfxWanted < MaxGraphics
  /\ gfxWanted' = gfxWanted + 1
  /\ need' = NeedGraphics(need)
  /\ UNCHANGED <<queueVars, threadVars, clientVars, screen, hostVars>>

(* handle_graphics_api_request, the direct file branch: the file goes out  *)
(* on the ordered lane; a refusal falls back to inline graphics.           *)
AppSendsFile ==
  /\ present /\ gfxWanted > gfxSent
  /\ IF hasWriter /\ OrderedReady
     THEN /\ PushOrdered(Transaction("file"))
          /\ gfxSent' = gfxSent + 1
          /\ UNCHANGED need
     ELSE /\ need' = NeedGraphics(need)
          /\ UNCHANGED <<queueVars, gfxSent>>
  /\ UNCHANGED <<threadVars, present, hasWriter, pending, last, repaint, encoding,
                 screen, gfxWanted, hostVars>>

(* send_to_client / send_to_all_clients with a control message. *)
AppNotifies ==
  /\ present /\ hasWriter
  /\ IF writerAlive
     THEN Len(control) < MaxControl /\ PushControl("notify") /\ UNCHANGED clientVars
     ELSE RemoveClient
  /\ UNCHANGED <<threadVars, appVars, hostVars>>

----------------------------------------------------------------------------
(* The main loop: events from the client's threads.                        *)

(* request_repaint: a semantic client forgets its baseline, an ANSI client *)
(* keeps it and draws the next frame whole.                                *)
RequestRepaint ==
  /\ last' = IF encoding = "SemanticFrame" THEN NoBaseline ELSE last
  /\ repaint' = (encoding = "TerminalAnsi")

(* Mutant: the deferral is taken and no render asked for. *)
OnDrained_NoRender ==
  /\ pending' = FALSE
  /\ UNCHANGED <<need, queueVars, present, hasWriter, last, repaint, gfxSent, encoding>>

OnDrained ==
  /\ pending' = FALSE
  /\ need' = IF pending THEN NeedFull(need) ELSE need
  /\ UNCHANGED <<queueVars, present, hasWriter, last, repaint, gfxSent, encoding>>

OnDisconnected == RemoveClient /\ need' = NeedFull(need)

(* Input: reset_semantic_input_baseline, then a full render. *)
OnInput ==
  /\ last' = IF encoding = "SemanticFrame" THEN NoBaseline ELSE last
  /\ need' = NeedFull(need)
  /\ UNCHANGED <<queueVars, present, hasWriter, pending, repaint, gfxSent, encoding>>

(* Focus gained with redraw_on_focus_gained: repaint and defer_full_render. *)
OnFocus ==
  /\ RequestRepaint
  /\ pending' = TRUE
  /\ need' = NeedFull(need)
  /\ UNCHANGED <<queueVars, present, hasWriter, gfxSent, encoding>>

(* The detach keybinding: graphics cleanup, ServerShutdown, writer = None; *)
(* the client stays in the table until its disconnection is reported.      *)
OnDetachKey ==
  IF writerAlive \/ ~hasWriter
  THEN /\ hasWriter' = FALSE
       /\ last' = IF encoding = "SemanticFrame" THEN NoBaseline ELSE last
       /\ gfxSent' = 0
       /\ CleanupAndShutdown(hasWriter, gfxSent > 0)
       /\ UNCHANGED <<present, pending, repaint, encoding, need>>
  ELSE RemoveClient /\ UNCHANGED need

HandleEvent ==
  /\ events # <<>>
  /\ events' = Tail(events)
  /\ IF ~present THEN UNCHANGED <<queueVars, clientVars, need>>
     ELSE CASE Head(events) = "drained"      -> OnDrained
            [] Head(events) = "disconnected" -> OnDisconnected
            [] Head(events) = "input"        -> OnInput
            [] Head(events) = "focus"        -> OnFocus
            [] Head(events) = "detachKey"    -> OnDetachKey
            [] Head(events) = "other"        -> UNCHANGED <<queueVars, clientVars, need>>
  /\ UNCHANGED <<wpc, item, rpc, screen, gfxWanted, hostVars>>

----------------------------------------------------------------------------
(* The writer thread: client_writer_loop.                                  *)

(* Mutant: a channel without a bound. *)
Report_Unbounded(e) == events' = Append(events, e)

(* server_event_tx.blocking_send: there is room in the channel. *)
Report(e) == Len(events) < MaxEvents /\ events' = Append(events, e)
writerFrame == <<rpc, clientVars, appVars>>

WriterTakesControl ==
  /\ wpc = "recv" /\ RecvControl
  /\ item' = <<Head(control)>> /\ wpc' = "writeControl"
  /\ UNCHANGED <<events, writerFrame, hostVars>>

WriterTakesRender ==
  /\ wpc = "recv"
  /\ \/ RecvOrdered /\ item' = <<Head(ordered)>>
     \/ RecvRender /\ item' = <<Head(render)>>
  /\ wpc' = "notify"
  /\ UNCHANGED <<events, writerFrame, hostVars>>

(* Mutant: try_send in place of blocking_send loses the report when the    *)
(* channel is full.                                                        *)
WriterReportsDrained_TrySend ==
  /\ wpc = "notify" /\ wpc' = "writeRender"
  /\ events' = IF Len(events) < MaxEvents THEN Append(events, "drained") ELSE events
  /\ UNCHANGED <<queueVars, item, writerFrame, hostVars>>

(* ClientWriterDrained is posted before the bytes are written. *)
WriterReportsDrained ==
  /\ wpc = "notify" /\ Report("drained") /\ wpc' = "writeRender"
  /\ UNCHANGED <<queueVars, item, writerFrame, hostVars>>

WriterWritesControl ==
  /\ wpc = "writeControl" /\ connUp
  /\ told' = (told \/ item[1] = "shutdown")
  /\ wpc' = "recv" /\ item' = <<>>
  /\ UNCHANGED <<queueVars, events, writerFrame, view, connUp>>

WriterWritesRender ==
  /\ wpc = "writeRender" /\ connUp
  /\ view' = IF told THEN view ELSE Draw(view, item[1])
  /\ wpc' = "recv" /\ item' = <<>>
  /\ UNCHANGED <<queueVars, events, writerFrame, connUp, told>>

WriterFails ==
  /\ wpc \in {"writeControl", "writeRender"} /\ ~connUp
  /\ wpc' = "failed" /\ item' = <<>>
  /\ UNCHANGED <<queueVars, events, writerFrame, hostVars>>

WriterReportsFailure ==
  /\ wpc = "failed" /\ Report("disconnected") /\ wpc' = "closing"
  /\ UNCHANGED <<queueVars, item, writerFrame, hostVars>>

WriterOutOfSenders ==
  /\ wpc = "recv" /\ RecvNone /\ wpc' = "closing"
  /\ UNCHANGED <<queueVars, item, events, writerFrame, hostVars>>

WriterCloses ==
  /\ wpc = "closing" /\ CloseWriter /\ wpc' = "done"
  /\ UNCHANGED <<item, events, writerFrame, hostVars>>

Writer ==
  \/ WriterTakesControl \/ WriterTakesRender \/ WriterReportsDrained
  \/ WriterWritesControl \/ WriterWritesRender \/ WriterFails
  \/ WriterReportsFailure \/ WriterOutOfSenders \/ WriterCloses

----------------------------------------------------------------------------
(* The reader thread (client_read_loop) and the client process.            *)

ReaderForwards(e) ==
  /\ rpc = "reading" /\ connUp /\ Report(e)
  /\ UNCHANGED <<queueVars, wpc, item, rpc, clientVars, appVars, hostVars>>

ReaderReportsEof ==
  /\ rpc = "reading" /\ ~connUp /\ Report("disconnected") /\ rpc' = "done"
  /\ UNCHANGED <<queueVars, wpc, item, clientVars, appVars, hostVars>>

(* The channel is shared: another client's thread reports. *)
OthersReport ==
  /\ Report("other")
  /\ UNCHANGED <<queueVars, wpc, item, rpc, clientVars, appVars, hostVars>>

(* The client exits on its own, or its terminal is lost. *)
ClientHangsUp ==
  /\ connUp /\ connUp' = FALSE
  /\ UNCHANGED <<queueVars, threadVars, clientVars, appVars, view, told>>

----------------------------------------------------------------------------
Server ==
  \/ RenderFrame \/ RenderGraphics \/ HandleEvent
  \/ AppDrawsGraphics \/ AppSendsFile \/ AppNotifies
  \/ \E f \in Frames : AppChanges(f)

Next ==
  \/ Server \/ Writer \/ ReaderReportsEof \/ OthersReport \/ ClientHangsUp
  \/ \E e \in Sends : ReaderForwards(e)

(* The main loop drains its channels and renders on every iteration, and   *)
(* both threads run.  A thread blocked on a full event channel is served   *)
(* in arrival order (the bounded tokio channel queues its senders), hence  *)
(* strong fairness.  A write either completes or fails, and a client told  *)
(* to shut down closes its end.                                            *)
Fairness ==
  /\ WF_vars(RenderFrame) /\ WF_vars(RenderGraphics) /\ WF_vars(HandleEvent)
  /\ WF_vars(Writer)
  /\ SF_vars(WriterReportsDrained) /\ SF_vars(WriterReportsFailure)
  /\ SF_vars(ReaderReportsEof)
  /\ WF_vars(told /\ ClientHangsUp)

Spec == Init /\ [][Next]_vars
FairSpec == Spec /\ Fairness
----------------------------------------------------------------------------
(* Properties.                                                             *)

QueueTypeOK ==
  /\ control \in Seq(ControlMessage)
  /\ ordered \in Seq(RenderMessage) /\ Len(ordered) <= 2
  /\ render \in Seq(RenderMessage) /\ Len(render) <= 1
  /\ senders \in {0, 2} /\ writerAlive \in BOOLEAN

ThreadTypeOK ==
  /\ wpc \in {"recv", "writeControl", "notify", "writeRender", "failed",
              "closing", "done"}
  /\ wpc = "writeControl" => Len(item) = 1 /\ item[1] \in ControlMessage
  /\ wpc \in {"notify", "writeRender"} => Len(item) = 1 /\ item \in Seq(RenderMessage)
  /\ wpc \notin {"writeControl", "notify", "writeRender"} => item = <<>>
  /\ rpc \in {"reading", "done"}
  /\ events \in Seq(Event) /\ Len(events) <= MaxEvents

ClientTypeOK ==
  /\ present \in BOOLEAN /\ hasWriter \in BOOLEAN /\ pending \in BOOLEAN
  /\ last \in [frame : Frames \cup {NoFrame}, gfx : 0 .. MaxGraphics]
  /\ repaint \in BOOLEAN
  /\ encoding \in {"SemanticFrame", "TerminalAnsi"}
  /\ gfxSent \in 0 .. MaxGraphics

AppTypeOK ==
  /\ screen \in Frames
  /\ gfxWanted \in 0 .. MaxGraphics /\ gfxSent <= gfxWanted
  /\ need \subseteq {"render", "full", "graphics", "pty"}

HostTypeOK ==
  /\ view \in [frame : Shown, gfx : 0 .. MaxGraphics]
  /\ connUp \in BOOLEAN /\ told \in BOOLEAN

(* The last frame sent carried no transaction the cache does not know. *)
CacheCoversFrame == hasWriter => last.gfx <= gfxSent

TypeOK ==
  /\ QueueTypeOK /\ ThreadTypeOK /\ ClientTypeOK /\ AppTypeOK /\ HostTypeOK
  /\ CacheCoversFrame

(* The client is served and its writer thread has not given up. *)
WriterUp == wpc \notin {"failed", "closing", "done"}
Serving  == present /\ hasWriter /\ WriterUp

(* Renders accepted by the queue and not yet written, oldest first. *)
InHand   == IF wpc \in {"notify", "writeRender"} THEN item ELSE <<>>
Pipeline == InHand \o ordered \o render

(* A deferred render (render_pending) is never forgotten: something still  *)
(* under way will ask for the full render that repays it, be it a queued   *)
(* render whose departure posts ClientWriterDrained, the event itself, or  *)
(* a full render already due.                                              *)
DrainedQueued == \E i \in 1 .. Len(events) : events[i] = "drained"
Repaying ==
  \/ ordered # <<>> \/ render # <<>> \/ wpc = "notify" \/ DrainedQueued
  \/ {"render", "full"} \subseteq need

DeferralIsRepaid == Serving /\ pending => Repaying

(* Whatever the app shows and the client has not been sent is either       *)
(* deferred or due on the next pass of the main loop: a changed screen on  *)
(* a frame render, graphics not yet sent on any render.                    *)
UnsentIsOwed ==
  Serving =>
    /\ last.frame # screen =>
         pending \/ ("render" \in need /\ need \cap {"full", "pty"} # {})
    /\ gfxSent < gfxWanted => pending \/ "render" \in need

(* Both: what the client lacks is owed, and what is owed will be repaid.   *)
NothingOwedIsForgotten == DeferralIsRepaid /\ UnsentIsOwed

(* The two lanes and the thread implement FrameChannel.                    *)

Fits(v, m) ==
  /\ m.kind = "frame" /\ ~m.full => m.base = v.frame
  /\ m.gfx \in {0, v.gfx + 1}

Channel == INSTANCE FrameChannel WITH
  Message <- RenderMessage,
  Blank <- [frame |-> NoFrame, gfx |-> 0],
  Draw <- Draw,
  Fits <- Fits,
  Lag <- 4,
  open <- WriterUp,
  pipe <- IF WriterUp THEN Pipeline ELSE <<>>,
  view <- view

(* The baseline a difference is encoded against, and the graphics cache,   *)
(* are exactly what the client will show once the renders already accepted *)
(* are drawn: commit_sent_frame never runs ahead of the queue.             *)
BaselineIsWhatClientShows ==
  Serving => LET v == Channel!Eventually(view, Pipeline)
             IN v.gfx = gfxSent /\ (last.frame # NoFrame => v.frame = last.frame)

(* A client that stays connected ends up showing what the app shows, once  *)
(* the app stops changing and control messages stop overtaking renders.    *)
LatestFrameShown ==
  \A f \in Frames :
    (<>[](screen = f /\ present /\ hasWriter /\ connUp /\ control = <<>>))
      => <>[](view.frame = f)

(* Every graphics transaction asked for reaches a client that stays.       *)
GraphicsDelivered ==
  (<>[](present /\ hasWriter /\ connUp /\ control = <<>>))
    => <>[](view.gfx = gfxWanted)

(* Both: a slow client may miss frames, but never the last one.            *)
ClientCatchesUp == LatestFrameShown /\ GraphicsDelivered

(* A client taken out of the table, or detached, does not leave its writer *)
(* thread behind.                                                          *)
WriterThreadEnds == (~present \/ ~hasWriter) ~> (wpc = "done")

(* A client whose connection is gone leaves the table.                     *)
DisconnectedIsRemoved == ~connUp ~> ~present

(* Both: table entry and thread of a client end with each other.           *)
NothingStaysBehind == WriterThreadEnds /\ DisconnectedIsRemoved

ImplementsFrameChannel == Channel!Spec

================================================================================
