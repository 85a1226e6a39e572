-------------------------- MODULE ClientStream_proofs --------------------------
(***************************************************************************)
(* Proofs about ClientStream for every set of frames and every bound:      *)
(* type correctness, the two invariants that keep a deferred render from   *)
(* being forgotten, that the baseline never runs ahead of what the client  *)
(* will show, and that the stream implements FrameChannel.                 *)
(***************************************************************************)
EXTENDS ClientStream, TLAPS, SequenceTheorems, WellFoundedInduction

USE StreamAssumption DEF StreamAssumption

----------------------------------------------------------------------------
(* The messages the server builds are render messages.                     *)

LEMMA MessagesOK ==
  ASSUME ClientTypeOK, AppTypeOK
  PROVE  /\ FrameMessage \in RenderMessage
         /\ NextGfx \in 0 .. gfxWanted /\ (NextGfx # 0 => NextGfx = gfxSent + 1)
         /\ gfxWanted > gfxSent =>
              /\ Transaction("graphics") \in RenderMessage
              /\ Transaction("file") \in RenderMessage
<1>1. NextGfx \in 0 .. gfxWanted /\ (NextGfx # 0 => NextGfx = gfxSent + 1)
  BY DEF ClientTypeOK, AppTypeOK, NextGfx
<1>2. FrameMessage \in RenderMessage
  BY <1>1 DEF ClientTypeOK, AppTypeOK, FrameMessage, RenderMessage
<1>3. ASSUME gfxWanted > gfxSent
      PROVE  /\ Transaction("graphics") \in RenderMessage
             /\ Transaction("file") \in RenderMessage
  BY <1>3 DEF ClientTypeOK, AppTypeOK, Transaction, RenderMessage
<1> QED BY <1>1, <1>2, <1>3

LEMMA NoBaselineOK ==
  NoBaseline \in [frame : Frames \cup {NoFrame}, gfx : 0 .. MaxGraphics]
  BY DEF NoBaseline

(* Giving up a client leaves a well-formed queue and an empty table entry. *)
LEMMA RemoveClientOK ==
  ASSUME QueueTypeOK, ClientTypeOK, RemoveClient
  PROVE  QueueTypeOK' /\ ClientTypeOK' /\ CacheCoversFrame' /\ gfxSent' = 0
<1>1. QueueTypeOK'
  <2>1. CASE UNCHANGED queueVars
    BY <2>1 DEF queueVars, QueueTypeOK
  <2>2. ASSUME NEW b \in BOOLEAN, CleanupAndDrop(b)
        PROVE  QueueTypeOK'
    <3>1. control' \in Seq(ControlMessage)
      BY <2>2 DEF CleanupAndDrop, QueueTypeOK, ControlMessage
    <3>2. ordered' \in Seq(RenderMessage) /\ Len(ordered') <= 2
      BY <2>2 DEF CleanupAndDrop, QueueTypeOK
    <3>3. render' \in Seq(RenderMessage) /\ Len(render') <= 1
      BY <2>2 DEF CleanupAndDrop, QueueTypeOK
    <3>4. senders' \in {0, 2} /\ writerAlive' \in BOOLEAN
      BY <2>2 DEF CleanupAndDrop, QueueTypeOK
    <3> QED BY <3>1, <3>2, <3>3, <3>4 DEF QueueTypeOK
  <2>3. (gfxSent > 0) \in BOOLEAN
    OBVIOUS
  <2> QED BY <2>1, <2>2, <2>3 DEF RemoveClient
<1>2. /\ present' = FALSE /\ hasWriter' = FALSE /\ pending' = FALSE
      /\ repaint' = FALSE /\ encoding' = encoding
  BY DEF RemoveClient
<1>3. last' = NoBaseline /\ gfxSent' = 0
  BY DEF RemoveClient
<1>4. gfxSent' \in 0 .. MaxGraphics
  BY <1>3
<1>5. ClientTypeOK'
  BY <1>2, <1>3, <1>4, NoBaselineOK, Zenon DEF ClientTypeOK
<1> QED BY <1>1, <1>2, <1>3, <1>5 DEF CacheCoversFrame

(* A step that leaves the queue and the client's entry alone, but for the  *)
(* deferral flag, keeps them well formed.                                  *)
LEMMA DeferOK ==
  ASSUME QueueTypeOK, ClientTypeOK, CacheCoversFrame, pending' \in BOOLEAN,
         UNCHANGED <<queueVars, present, hasWriter, last, repaint, gfxSent, encoding>>
  PROVE  QueueTypeOK' /\ ClientTypeOK' /\ CacheCoversFrame' /\ gfxSent' = gfxSent
<1>1. QueueTypeOK'
  BY DEF queueVars, QueueTypeOK
<1>2. ClientTypeOK' /\ gfxSent' = gfxSent
  BY DEF ClientTypeOK
<1>3. CacheCoversFrame'
  BY DEF CacheCoversFrame
<1> QED BY <1>1, <1>2, <1>3

LEMMA PutRenderOK ==
  ASSUME QueueTypeOK, NEW m \in RenderMessage, PutRender(m)
  PROVE  QueueTypeOK'
  BY DEF PutRender, QueueTypeOK

(* After sending or skipping the prepared frame the cache has moved on to  *)
(* the transaction it carries.                                             *)
LEMMA CommitOK ==
  ASSUME ClientTypeOK, AppTypeOK,
         gfxSent' = IF NextGfx = 0 THEN gfxSent ELSE NextGfx
  PROVE  /\ gfxSent' \in 0 .. gfxWanted /\ gfxSent' \in 0 .. MaxGraphics
         /\ gfxSent <= gfxSent' /\ NextGfx <= gfxSent'
         /\ Prepared \in [frame : Frames \cup {NoFrame}, gfx : 0 .. MaxGraphics]
         /\ Prepared.gfx <= gfxSent' /\ Incomplete \in BOOLEAN
<1>1. NextGfx \in 0 .. gfxWanted /\ (NextGfx # 0 => NextGfx = gfxSent + 1)
  BY MessagesOK
<1>2. gfxSent \in Nat /\ gfxWanted \in Nat /\ gfxWanted <= MaxGraphics /\ gfxSent <= gfxWanted
  BY DEF ClientTypeOK, AppTypeOK
<1>3. Prepared \in [frame : Frames \cup {NoFrame}, gfx : 0 .. MaxGraphics]
  BY <1>1, <1>2 DEF AppTypeOK, Prepared
<1> QED BY <1>1, <1>2, <1>3 DEF Prepared, Incomplete

(* A render step keeps the queue and the client's table entry well formed. *)
LEMMA RenderAndStreamOK ==
  ASSUME QueueTypeOK, ClientTypeOK, AppTypeOK, CacheCoversFrame, RenderAndStream
  PROVE  QueueTypeOK' /\ ClientTypeOK' /\ CacheCoversFrame' /\ gfxSent' \in 0 .. gfxWanted
<1>0. gfxSent \in 0 .. gfxWanted /\ pending \in BOOLEAN
  BY DEF ClientTypeOK, AppTypeOK
<1>1. CASE UNCHANGED <<queueVars, clientVars>>
  BY <1>0, <1>1, DeferOK DEF clientVars
<1>2. CASE /\ Identical
           /\ pending' = Incomplete
           /\ gfxSent' = IF NextGfx = 0 THEN gfxSent ELSE NextGfx
           /\ UNCHANGED <<queueVars, present, hasWriter, last, repaint, encoding>>
  <2>1. QueueTypeOK'
    BY <1>2 DEF queueVars, QueueTypeOK
  <2>2. gfxSent' \in 0 .. gfxWanted /\ gfxSent' \in 0 .. MaxGraphics
        /\ Prepared.gfx <= gfxSent' /\ Incomplete \in BOOLEAN
    BY <1>2, CommitOK
  <2>3. ClientTypeOK'
    BY <1>2, <2>2, Zenon DEF ClientTypeOK
  <2>4. CacheCoversFrame'
    BY <1>2, <2>2 DEF Identical, CacheCoversFrame
  <2> QED BY <2>1, <2>2, <2>3, <2>4
<1>3. CASE /\ PutRender(FrameMessage)
           /\ last' = Prepared /\ repaint' = FALSE
           /\ gfxSent' = IF NextGfx = 0 THEN gfxSent ELSE NextGfx
           /\ pending' = Incomplete
           /\ UNCHANGED <<present, hasWriter, encoding>>
  <2>1. QueueTypeOK'
    BY <1>3, MessagesOK, PutRenderOK
  <2>2. gfxSent' \in 0 .. gfxWanted /\ gfxSent' \in 0 .. MaxGraphics
        /\ Prepared.gfx <= gfxSent' /\ Incomplete \in BOOLEAN
        /\ Prepared \in [frame : Frames \cup {NoFrame}, gfx : 0 .. MaxGraphics]
    BY <1>3, CommitOK
  <2>3. ClientTypeOK'
    BY <1>3, <2>2, Zenon DEF ClientTypeOK
  <2>4. CacheCoversFrame'
    BY <1>3, <2>2 DEF CacheCoversFrame
  <2> QED BY <2>1, <2>2, <2>3, <2>4
<1>4. CASE DeferFullRender
  <2>1. pending' \in BOOLEAN
        /\ UNCHANGED <<queueVars, present, hasWriter, last, repaint, gfxSent, encoding>>
    BY <1>4 DEF DeferFullRender
  <2> QED BY <1>0, <2>1, DeferOK
<1>5. CASE RemoveClient
  <2>1. QueueTypeOK' /\ ClientTypeOK' /\ CacheCoversFrame' /\ gfxSent' = 0
    BY <1>5, RemoveClientOK
  <2>2. 0 \in 0 .. gfxWanted
    BY DEF AppTypeOK
  <2> QED BY <2>1, <2>2
<1> QED BY <1>1, <1>2, <1>3, <1>4, <1>5 DEF RenderAndStream

LEMMA SendGraphicsOK ==
  ASSUME QueueTypeOK, ClientTypeOK, AppTypeOK, CacheCoversFrame, SendGraphics
  PROVE  QueueTypeOK' /\ ClientTypeOK' /\ CacheCoversFrame' /\ gfxSent' \in 0 .. gfxWanted
<1>0. gfxSent \in 0 .. gfxWanted /\ pending \in BOOLEAN
  BY DEF ClientTypeOK, AppTypeOK
<1>1. CASE UNCHANGED <<queueVars, clientVars>>
  BY <1>0, <1>1, DeferOK DEF clientVars
<1>2. CASE /\ NextGfx # 0 /\ PutRender(Transaction("graphics"))
           /\ gfxSent' = NextGfx /\ pending' = Incomplete
           /\ UNCHANGED <<present, hasWriter, last, repaint, encoding>>
  <2>1. gfxWanted > gfxSent
    BY <1>2 DEF NextGfx
  <2>2. QueueTypeOK'
    BY <1>2, <2>1, MessagesOK, PutRenderOK
  <2>3. gfxSent' = IF NextGfx = 0 THEN gfxSent ELSE NextGfx
    BY <1>2
  <2>4. gfxSent' \in 0 .. gfxWanted /\ gfxSent' \in 0 .. MaxGraphics
        /\ gfxSent <= gfxSent' /\ Incomplete \in BOOLEAN
    BY <2>3, CommitOK
  <2>5. ClientTypeOK'
    BY <1>2, <2>4, Zenon DEF ClientTypeOK
  <2>6. last.gfx \in Nat /\ gfxSent \in Nat
    BY <1>0 DEF ClientTypeOK
  <2>7. CacheCoversFrame'
    BY <1>2, <2>4, <2>6 DEF CacheCoversFrame
  <2> QED BY <2>2, <2>4, <2>5, <2>7
<1>3. CASE DeferFullRender
  <2>1. pending' \in BOOLEAN
        /\ UNCHANGED <<queueVars, present, hasWriter, last, repaint, gfxSent, encoding>>
    BY <1>3 DEF DeferFullRender
  <2> QED BY <1>0, <2>1, DeferOK
<1>4. CASE RemoveClient
  <2>1. QueueTypeOK' /\ ClientTypeOK' /\ CacheCoversFrame' /\ gfxSent' = 0
    BY <1>4, RemoveClientOK
  <2>2. 0 \in 0 .. gfxWanted
    BY DEF AppTypeOK
  <2> QED BY <2>1, <2>2
<1> QED BY <1>1, <1>2, <1>3, <1>4 DEF SendGraphics
----------------------------------------------------------------------------
(* Type correctness.  Each lemma is one group of actions.                  *)

LEMMA TypeInit == Init => TypeOK
<1> SUFFICES ASSUME Init PROVE TypeOK
  OBVIOUS
<1>1. QueueTypeOK
  BY DEF Init, QueueInit, QueueTypeOK
<1>2. ThreadTypeOK
  BY DEF Init, ThreadTypeOK
<1>0. 0 \in 0 .. MaxGraphics
  OBVIOUS
<1>3. ClientTypeOK /\ CacheCoversFrame
  <2>1. last = NoBaseline /\ gfxSent = 0
    BY DEF Init, NoBaseline
  <2>2. CacheCoversFrame
    BY <2>1 DEF NoBaseline, CacheCoversFrame
  <2>3. ClientTypeOK
    BY <1>0, <2>1, NoBaselineOK, Zenon DEF Init, ClientTypeOK
  <2> QED BY <2>2, <2>3
<1>4. AppTypeOK
  BY DEF Init, AppTypeOK
<1>5. HostTypeOK
  <2>1. view \in [frame : Shown, gfx : 0 .. MaxGraphics]
    BY <1>0 DEF Init, Shown
  <2> QED BY <2>1, Zenon DEF Init, HostTypeOK
<1> QED BY <1>1, <1>2, <1>3, <1>4, <1>5 DEF TypeOK

LEMMA ThreadTypeStutter ==
  ASSUME ThreadTypeOK, UNCHANGED threadVars PROVE ThreadTypeOK'
  BY Zenon DEF threadVars, ThreadTypeOK

LEMMA HostTypeStutter ==
  ASSUME HostTypeOK, UNCHANGED hostVars PROVE HostTypeOK'
  BY Zenon DEF hostVars, HostTypeOK

LEMMA ClientTypeStutter ==
  ASSUME ClientTypeOK, CacheCoversFrame, UNCHANGED clientVars
  PROVE  ClientTypeOK' /\ CacheCoversFrame'
  BY DEF clientVars, ClientTypeOK, CacheCoversFrame

LEMMA AppTypeStep ==
  ASSUME AppTypeOK, screen' \in Frames, gfxWanted' \in gfxWanted .. MaxGraphics,
         gfxSent' \in 0 .. gfxWanted', need' \subseteq {"render", "full", "graphics", "pty"}
  PROVE  AppTypeOK'
  BY DEF AppTypeOK

LEMMA NeedsOK ==
  ASSUME AppTypeOK
  PROVE  /\ NeedFull(need) \subseteq {"render", "full", "graphics", "pty"}
         /\ NeedGraphics(need) \subseteq {"render", "full", "graphics", "pty"}
         /\ NeedPty(need) \subseteq {"render", "full", "graphics", "pty"}
         /\ gfxWanted \in gfxWanted .. MaxGraphics
         /\ screen \in Frames
<1>1. need \subseteq {"render", "full", "graphics", "pty"} /\ screen \in Frames
  BY DEF AppTypeOK
<1>2. gfxWanted \in gfxWanted .. MaxGraphics
  BY DEF AppTypeOK
<1> QED BY <1>1, <1>2 DEF NeedFull, NeedGraphics, NeedPty

LEMMA TypeRender ==
  ASSUME TypeOK, RenderFrame \/ RenderGraphics PROVE TypeOK'
<1>1. QueueTypeOK' /\ ClientTypeOK' /\ CacheCoversFrame' /\ gfxSent' \in 0 .. gfxWanted
  <2>1. CASE RenderAndStream
    BY <2>1, RenderAndStreamOK DEF TypeOK
  <2>2. CASE SendGraphics
    BY <2>2, SendGraphicsOK DEF TypeOK
  <2>3. CASE UNCHANGED <<queueVars, clientVars>>
    <3>1. QueueTypeOK'
      BY <2>3 DEF TypeOK, queueVars, QueueTypeOK
    <3>2. ClientTypeOK' /\ CacheCoversFrame'
      BY <2>3, ClientTypeStutter DEF TypeOK
    <3>3. gfxSent' \in 0 .. gfxWanted
      BY <2>3 DEF TypeOK, clientVars, ClientTypeOK, AppTypeOK
    <3> QED BY <3>1, <3>2, <3>3
  <2> QED BY <2>1, <2>2, <2>3 DEF RenderFrame, RenderGraphics
<1>2. ThreadTypeOK' /\ HostTypeOK'
  BY ThreadTypeStutter, HostTypeStutter DEF TypeOK, RenderFrame, RenderGraphics
<1>3. need' \subseteq {"render", "full", "graphics", "pty"}
      /\ screen' = screen /\ gfxWanted' = gfxWanted
  BY DEF RenderFrame, RenderGraphics
<1>4. AppTypeOK'
  BY <1>1, <1>3, NeedsOK, AppTypeStep DEF TypeOK
<1> QED BY <1>1, <1>2, <1>4 DEF TypeOK
LEMMA QueueTypeStutter ==
  ASSUME QueueTypeOK, UNCHANGED queueVars PROVE QueueTypeOK'
  BY DEF queueVars, QueueTypeOK

LEMMA AppTypeStutter ==
  ASSUME ClientTypeOK, AppTypeOK, UNCHANGED <<clientVars, appVars>> PROVE AppTypeOK'
  BY DEF clientVars, appVars, AppTypeOK

LEMMA TypeApp ==
  ASSUME TypeOK,
         AppDrawsGraphics \/ AppSendsFile \/ AppNotifies \/ \E f \in Frames : AppChanges(f)
  PROVE  TypeOK'
<1>0. /\ QueueTypeOK /\ ThreadTypeOK /\ ClientTypeOK /\ AppTypeOK /\ HostTypeOK
      /\ CacheCoversFrame
  BY DEF TypeOK
<1>1. ThreadTypeOK' /\ HostTypeOK'
  BY <1>0, ThreadTypeStutter, HostTypeStutter
  DEF AppDrawsGraphics, AppSendsFile, AppNotifies, AppChanges
<1>2. gfxSent \in 0 .. gfxWanted /\ gfxWanted \in 0 .. MaxGraphics
  BY <1>0 DEF ClientTypeOK, AppTypeOK
<1>3. CASE \E f \in Frames : AppChanges(f)
  <2>1. QueueTypeOK' /\ ClientTypeOK' /\ CacheCoversFrame' /\ gfxSent' = gfxSent
    BY <1>0, <1>3, QueueTypeStutter, ClientTypeStutter DEF AppChanges, clientVars
  <2>2. screen' \in Frames /\ gfxWanted' = gfxWanted
        /\ need' \in {NeedPty(need), NeedFull(need)}
    BY <1>3 DEF AppChanges
  <2>3. AppTypeOK'
    BY <1>0, <1>2, <2>1, <2>2, NeedsOK, AppTypeStep
  <2> QED BY <1>1, <2>1, <2>3 DEF TypeOK
<1>4. CASE AppDrawsGraphics
  <2>1. QueueTypeOK' /\ ClientTypeOK' /\ CacheCoversFrame' /\ gfxSent' = gfxSent
    BY <1>0, <1>4, QueueTypeStutter, ClientTypeStutter DEF AppDrawsGraphics, clientVars
  <2>2. screen' = screen /\ gfxWanted' = gfxWanted + 1 /\ gfxWanted < MaxGraphics
        /\ need' = NeedGraphics(need)
    BY <1>4 DEF AppDrawsGraphics
  <2>3. gfxWanted' \in gfxWanted .. MaxGraphics /\ gfxSent' \in 0 .. gfxWanted'
    BY <1>2, <2>1, <2>2
  <2>4. AppTypeOK'
    BY <1>0, <2>2, <2>3, NeedsOK, AppTypeStep
  <2> QED BY <1>1, <2>1, <2>4 DEF TypeOK
<1>5. CASE AppSendsFile
  <2>1. CASE PushOrdered(Transaction("file")) /\ gfxSent' = gfxSent + 1 /\ UNCHANGED need
    <3>1. gfxWanted > gfxSent /\ Transaction("file") \in RenderMessage
      BY <1>0, <1>5, MessagesOK DEF AppSendsFile
    <3>2. QueueTypeOK'
      BY <1>0, <2>1, <3>1 DEF PushOrdered, OrderedReady, QueueTypeOK
    <3>3. gfxSent' \in 0 .. gfxWanted /\ gfxSent' \in 0 .. MaxGraphics
      BY <1>2, <2>1, <3>1
    <3>4. ClientTypeOK'
      BY <1>0, <1>5, <3>3, Zenon DEF AppSendsFile, ClientTypeOK
    <3>5. last.gfx \in Nat
      BY <1>0 DEF ClientTypeOK
    <3>6. hasWriter' = hasWriter /\ last' = last
      BY <1>5 DEF AppSendsFile
    <3>7. CacheCoversFrame'
      BY <1>0, <1>2, <2>1, <3>5, <3>6 DEF CacheCoversFrame
    <3>8. AppTypeOK'
      BY <1>0, <1>5, <2>1, <3>3, NeedsOK, AppTypeStep DEF AppSendsFile, AppTypeOK
    <3> QED BY <1>1, <3>2, <3>4, <3>7, <3>8 DEF TypeOK
  <2>2. CASE need' = NeedGraphics(need) /\ UNCHANGED <<queueVars, gfxSent>>
    <3>1. UNCHANGED clientVars
      BY <1>5, <2>2 DEF AppSendsFile, clientVars
    <3>2. QueueTypeOK' /\ ClientTypeOK' /\ CacheCoversFrame'
      BY <1>0, <2>2, <3>1, QueueTypeStutter, ClientTypeStutter
    <3>3. AppTypeOK'
      BY <1>0, <1>2, <1>5, <2>2, NeedsOK, AppTypeStep DEF AppSendsFile
    <3> QED BY <1>1, <3>2, <3>3 DEF TypeOK
  <2> QED BY <1>5, <2>1, <2>2 DEF AppSendsFile
<1>6. CASE AppNotifies
  <2>1. CASE PushControl("notify") /\ UNCHANGED clientVars
    <3>1. QueueTypeOK'
      BY <1>0, <2>1 DEF PushControl, QueueTypeOK, ControlMessage
    <3>2. ClientTypeOK' /\ CacheCoversFrame' /\ AppTypeOK'
      BY <1>0, <1>6, <2>1, ClientTypeStutter, AppTypeStutter DEF AppNotifies
    <3> QED BY <1>1, <3>1, <3>2 DEF TypeOK
  <2>2. CASE RemoveClient
    <3>1. QueueTypeOK' /\ ClientTypeOK' /\ CacheCoversFrame' /\ gfxSent' = 0
      BY <1>0, <2>2, RemoveClientOK
    <3>2. 0 \in 0 .. gfxWanted
      BY <1>2
    <3>3. AppTypeOK'
      BY <1>0, <1>6, <3>1, <3>2, NeedsOK, AppTypeStep DEF AppNotifies, appVars, AppTypeOK
    <3> QED BY <1>1, <3>1, <3>3 DEF TypeOK
  <2> QED BY <1>6, <2>1, <2>2 DEF AppNotifies
<1> QED BY <1>3, <1>4, <1>5, <1>6

LEMMA TypeEvent ==
  ASSUME TypeOK, HandleEvent PROVE TypeOK'
<1>0. /\ QueueTypeOK /\ ThreadTypeOK /\ ClientTypeOK /\ AppTypeOK /\ HostTypeOK
      /\ CacheCoversFrame
  BY DEF TypeOK
<1>1. HostTypeOK' /\ screen' = screen /\ gfxWanted' = gfxWanted
  BY <1>0, HostTypeStutter DEF HandleEvent
<1>2. ThreadTypeOK'
  <2>1. events' \in Seq(Event) /\ Len(events') <= MaxEvents
    BY <1>0 DEF HandleEvent, ThreadTypeOK
  <2> QED BY <1>0, <2>1, Zenon DEF HandleEvent, ThreadTypeOK
<1>3. gfxSent \in 0 .. gfxWanted /\ 0 \in 0 .. gfxWanted /\ 0 \in 0 .. MaxGraphics
      /\ pending \in BOOLEAN
  BY <1>0 DEF ClientTypeOK, AppTypeOK
<1>4. need \subseteq {"render", "full", "graphics", "pty"}
  BY <1>0 DEF AppTypeOK
<1>5. ASSUME QueueTypeOK', ClientTypeOK', CacheCoversFrame', gfxSent' \in {0, gfxSent},
             need' \in {need, NeedFull(need)}
      PROVE  TypeOK'
  <2>1. AppTypeOK'
    BY <1>0, <1>1, <1>3, <1>4, <1>5, NeedsOK, AppTypeStep
  <2> QED BY <1>1, <1>2, <1>5, <2>1 DEF TypeOK
<1>6. CASE UNCHANGED <<queueVars, clientVars, need>>
  <2>1. QueueTypeOK' /\ ClientTypeOK' /\ CacheCoversFrame' /\ gfxSent' = gfxSent
    BY <1>0, <1>6, QueueTypeStutter, ClientTypeStutter DEF clientVars
  <2> QED BY <1>5, <1>6, <2>1
<1>7. CASE OnDrained
  <2>1. QueueTypeOK' /\ ClientTypeOK' /\ CacheCoversFrame' /\ gfxSent' = gfxSent
    <3>1. pending' \in BOOLEAN
          /\ UNCHANGED <<queueVars, present, hasWriter, last, repaint, gfxSent, encoding>>
      BY <1>7 DEF OnDrained
    <3> QED BY <1>0, <3>1, DeferOK
  <2> QED BY <1>5, <1>7, <2>1 DEF OnDrained
<1>8. CASE RemoveClient /\ need' \in {need, NeedFull(need)}
  <2>1. QueueTypeOK' /\ ClientTypeOK' /\ CacheCoversFrame' /\ gfxSent' = 0
    BY <1>0, <1>8, RemoveClientOK
  <2> QED BY <1>5, <1>8, <2>1
<1>9. ASSUME QueueTypeOK', last' \in {last, NoBaseline}, repaint' \in BOOLEAN,
             pending' \in BOOLEAN, gfxSent' \in {0, gfxSent}, hasWriter' => gfxSent' = gfxSent,
             hasWriter' \in {hasWriter, FALSE}, UNCHANGED <<present, encoding>>
      PROVE  ClientTypeOK' /\ CacheCoversFrame'
  <2>1. last' \in [frame : Frames \cup {NoFrame}, gfx : 0 .. MaxGraphics]
    BY <1>0, <1>9, NoBaselineOK, Zenon DEF ClientTypeOK
  <2>2. gfxSent' \in 0 .. MaxGraphics
    BY <1>0, <1>3, <1>9 DEF ClientTypeOK
  <2>3. ClientTypeOK'
    BY <1>0, <1>9, <2>1, <2>2, Zenon DEF ClientTypeOK
  <2>4. ASSUME hasWriter' PROVE last'.gfx <= gfxSent'
    <3>1. gfxSent' = gfxSent /\ hasWriter
      BY <1>9, <2>4
    <3>2. last.gfx <= gfxSent
      BY <1>0, <3>1 DEF CacheCoversFrame
    <3>3. NoBaseline.gfx <= gfxSent
      BY <1>3 DEF NoBaseline
    <3> QED BY <1>9, <3>1, <3>2, <3>3
  <2> QED BY <2>3, <2>4 DEF CacheCoversFrame
<1>10. CASE OnInput \/ OnFocus
  <2>1. UNCHANGED <<queueVars, present, hasWriter, gfxSent, encoding>>
        /\ last' \in {last, NoBaseline} /\ need' = NeedFull(need)
    BY <1>10 DEF OnInput, OnFocus, RequestRepaint
  <2>2. pending' \in BOOLEAN /\ repaint' \in BOOLEAN
    BY <1>0, <1>10, Zenon DEF OnInput, OnFocus, RequestRepaint, ClientTypeOK
  <2>3. QueueTypeOK'
    BY <1>0, <2>1, QueueTypeStutter
  <2>4. ClientTypeOK' /\ CacheCoversFrame'
    BY <1>9, <2>1, <2>2, <2>3
  <2> QED BY <1>5, <2>1, <2>3, <2>4
<1>11. CASE OnDetachKey /\ hasWriter' = FALSE /\ gfxSent' = 0
            /\ last' = (IF encoding = "SemanticFrame" THEN NoBaseline ELSE last)
            /\ CleanupAndShutdown(hasWriter, gfxSent > 0)
            /\ UNCHANGED <<present, pending, repaint, encoding, need>>
  <2>1. QueueTypeOK'
    <3>1. ASSUME NEW w \in BOOLEAN, NEW b \in BOOLEAN, CleanupAndShutdown(w, b)
          PROVE  QueueTypeOK'
      <4>1. control' \in Seq(ControlMessage)
        <5>1. <<"shutdown">> \in Seq(ControlMessage)
              /\ <<"cleanup", "shutdown">> \in Seq(ControlMessage)
          BY DEF ControlMessage
        <5>2. control \in Seq(ControlMessage)
          BY <1>0 DEF QueueTypeOK
        <5>3. control \o <<"shutdown">> \in Seq(ControlMessage)
              /\ control \o <<"cleanup", "shutdown">> \in Seq(ControlMessage)
          BY <5>1, <5>2, ConcatProperties
        <5> QED BY <3>1, <5>2, <5>3, Zenon DEF CleanupAndShutdown
      <4>2. ordered' \in Seq(RenderMessage) /\ Len(ordered') <= 2
        BY <1>0, <3>1 DEF CleanupAndShutdown, QueueTypeOK
      <4>3. render' \in Seq(RenderMessage) /\ Len(render') <= 1
        BY <1>0, <3>1 DEF CleanupAndShutdown, QueueTypeOK
      <4>4. senders' \in {0, 2} /\ writerAlive' \in BOOLEAN
        BY <1>0, <3>1 DEF CleanupAndShutdown, QueueTypeOK
      <4> QED BY <4>1, <4>2, <4>3, <4>4 DEF QueueTypeOK
    <3>2. (gfxSent > 0) \in BOOLEAN /\ hasWriter \in BOOLEAN
      BY <1>0 DEF ClientTypeOK
    <3> QED BY <1>11, <3>1, <3>2
  <2>2. last' \in {last, NoBaseline} /\ repaint' \in BOOLEAN /\ pending' \in BOOLEAN
        /\ gfxSent' \in {0, gfxSent} /\ (hasWriter' => gfxSent' = gfxSent)
        /\ hasWriter' \in {hasWriter, FALSE} /\ UNCHANGED <<present, encoding>>
    BY <1>0, <1>11, Zenon DEF ClientTypeOK
  <2>3. ClientTypeOK' /\ CacheCoversFrame'
    BY <1>9, <2>1, <2>2
  <2> QED BY <1>5, <1>11, <2>1, <2>3
<1> QED
  <2>1. CASE OnDetachKey
    BY <1>8, <1>11, <2>1 DEF OnDetachKey
  <2>2. CASE OnDisconnected
    BY <1>8, <2>2 DEF OnDisconnected
  <2>3. \/ UNCHANGED <<queueVars, clientVars, need>>
        \/ OnDrained \/ OnDisconnected \/ OnInput \/ OnFocus \/ OnDetachKey
    <3>1. Head(events) \in Event
      BY <1>0 DEF HandleEvent, ThreadTypeOK
    <3> QED BY <3>1 DEF HandleEvent, Event
  <2> QED BY <1>6, <1>7, <1>10, <2>1, <2>2, <2>3
LEMMA TypeThreads ==
  ASSUME TypeOK,
         \/ Writer \/ ReaderReportsEof \/ OthersReport \/ ClientHangsUp
         \/ \E e \in Sends : ReaderForwards(e)
  PROVE  TypeOK'
<1>0. /\ QueueTypeOK /\ ThreadTypeOK /\ ClientTypeOK /\ AppTypeOK /\ HostTypeOK
      /\ CacheCoversFrame
  BY DEF TypeOK
<1>1. UNCHANGED <<clientVars, appVars>>
  BY DEF Writer, WriterTakesControl, WriterTakesRender, WriterReportsDrained,
         WriterWritesControl, WriterWritesRender, WriterFails, WriterReportsFailure,
         WriterOutOfSenders, WriterCloses, ReaderReportsEof, OthersReport, ClientHangsUp,
         ReaderForwards, writerFrame
<1>2. ClientTypeOK' /\ AppTypeOK' /\ CacheCoversFrame'
  BY <1>0, <1>1, ClientTypeStutter, AppTypeStutter
<1>3. ASSUME QueueTypeOK', ThreadTypeOK', HostTypeOK' PROVE TypeOK'
  BY <1>2, <1>3 DEF TypeOK
<1>4. ASSUME NEW e \in Event, Report(e)
      PROVE  events' \in Seq(Event) /\ Len(events') <= MaxEvents
  BY <1>0, <1>4 DEF Report, ThreadTypeOK
<1>5. CASE WriterTakesControl
  <2>1. QueueTypeOK' /\ Head(control) \in ControlMessage
    BY <1>0, <1>5 DEF WriterTakesControl, RecvControl, QueueTypeOK
  <2>2. Len(item') = 1 /\ item'[1] \in ControlMessage
    BY <1>5, <2>1 DEF WriterTakesControl
  <2>3. ThreadTypeOK'
    BY <1>0, <1>5, <2>2, Zenon DEF WriterTakesControl, writerFrame, ThreadTypeOK
  <2> QED BY <1>0, <1>3, <1>5, <2>1, <2>3, HostTypeStutter DEF WriterTakesControl
<1>6. CASE WriterTakesRender
  <2>1. QueueTypeOK' /\ \E m \in RenderMessage : item' = <<m>>
    <3>1. CASE RecvOrdered /\ item' = <<Head(ordered)>>
      BY <1>0, <3>1 DEF RecvOrdered, QueueTypeOK
    <3>2. CASE RecvRender /\ item' = <<Head(render)>>
      BY <1>0, <3>2 DEF RecvRender, QueueTypeOK
    <3> QED BY <1>6, <3>1, <3>2 DEF WriterTakesRender
  <2>2. Len(item') = 1 /\ item' \in Seq(RenderMessage)
    BY <2>1
  <2>3. ThreadTypeOK'
    BY <1>0, <1>6, <2>2, Zenon DEF WriterTakesRender, writerFrame, ThreadTypeOK
  <2> QED BY <1>0, <1>3, <1>6, <2>1, <2>3, HostTypeStutter DEF WriterTakesRender
<1>7. CASE WriterReportsDrained \/ WriterReportsFailure
  <2>1. events' \in Seq(Event) /\ Len(events') <= MaxEvents
    BY <1>4, <1>7 DEF WriterReportsDrained, WriterReportsFailure, Event
  <2>2. ThreadTypeOK'
    BY <1>0, <1>7, <2>1, Zenon
    DEF WriterReportsDrained, WriterReportsFailure, writerFrame, ThreadTypeOK
  <2> QED BY <1>0, <1>3, <1>7, <2>2, QueueTypeStutter, HostTypeStutter
          DEF WriterReportsDrained, WriterReportsFailure
<1>8. CASE WriterWritesControl
  <2>1. ThreadTypeOK'
    BY <1>0, <1>8, Zenon DEF WriterWritesControl, writerFrame, ThreadTypeOK
  <2>2. told' \in BOOLEAN
    BY <1>0, <1>8 DEF WriterWritesControl, HostTypeOK
  <2>3. HostTypeOK'
    BY <1>0, <1>8, <2>2, Zenon DEF WriterWritesControl, HostTypeOK
  <2> QED BY <1>0, <1>3, <1>8, <2>1, <2>3, QueueTypeStutter DEF WriterWritesControl
<1>9. CASE WriterWritesRender
  <2>1. ThreadTypeOK'
    BY <1>0, <1>9, Zenon DEF WriterWritesRender, writerFrame, ThreadTypeOK
  <2>2. item[1] \in RenderMessage
    BY <1>0, <1>9 DEF WriterWritesRender, ThreadTypeOK
  <2>3. Draw(view, item[1]) \in [frame : Shown, gfx : 0 .. MaxGraphics]
    BY <1>0, <2>2 DEF Draw, HostTypeOK, RenderMessage, Shown
  <2>4. view' \in [frame : Shown, gfx : 0 .. MaxGraphics]
    BY <1>0, <1>9, <2>3, Zenon DEF WriterWritesRender, HostTypeOK
  <2>5. HostTypeOK'
    BY <1>0, <1>9, <2>4, Zenon DEF WriterWritesRender, HostTypeOK
  <2> QED BY <1>0, <1>3, <1>9, <2>1, <2>5, QueueTypeStutter DEF WriterWritesRender
<1>10. CASE WriterFails \/ WriterOutOfSenders
  <2>1. ThreadTypeOK'
    BY <1>0, <1>10, Zenon DEF WriterFails, WriterOutOfSenders, writerFrame, ThreadTypeOK
  <2> QED BY <1>0, <1>3, <1>10, <2>1, QueueTypeStutter, HostTypeStutter
          DEF WriterFails, WriterOutOfSenders
<1>11. CASE WriterCloses
  <2>1. ThreadTypeOK'
    BY <1>0, <1>11, Zenon DEF WriterCloses, writerFrame, ThreadTypeOK
  <2>2. QueueTypeOK'
    <3>1. /\ control' = control /\ senders' = senders /\ writerAlive' = FALSE
          /\ render' = <<>> /\ ordered' = <<>>
      BY <1>11 DEF WriterCloses, CloseWriter
    <3>2. <<>> \in Seq(RenderMessage) /\ Len(<<>>) <= 2 /\ Len(<<>>) <= 1
      OBVIOUS
    <3> QED BY <1>0, <3>1, <3>2, Zenon DEF QueueTypeOK
  <2> QED BY <1>0, <1>3, <1>11, <2>1, <2>2, HostTypeStutter DEF WriterCloses
<1>12. CASE ReaderReportsEof \/ OthersReport \/ \E e \in Sends : ReaderForwards(e)
  <2>1. events' \in Seq(Event) /\ Len(events') <= MaxEvents
    <3>1. \E e \in Event : Report(e)
      BY <1>12 DEF ReaderReportsEof, OthersReport, ReaderForwards, Event
    <3> QED BY <1>4, <3>1
  <2>2. ThreadTypeOK'
    BY <1>0, <1>12, <2>1, Zenon DEF ReaderReportsEof, OthersReport, ReaderForwards, ThreadTypeOK
  <2> QED BY <1>0, <1>3, <1>12, <2>2, QueueTypeStutter, HostTypeStutter
          DEF ReaderReportsEof, OthersReport, ReaderForwards
<1>13. CASE ClientHangsUp
  <2>1. HostTypeOK'
    BY <1>0, <1>13, Zenon DEF ClientHangsUp, HostTypeOK
  <2> QED BY <1>0, <1>3, <1>13, <2>1, QueueTypeStutter, ThreadTypeStutter DEF ClientHangsUp
<1> QED BY <1>5, <1>6, <1>7, <1>8, <1>9, <1>10, <1>11, <1>12, <1>13 DEF Writer

LEMMA TypeStep == TypeOK /\ [Next]_vars => TypeOK'
<1> SUFFICES ASSUME TypeOK, [Next]_vars PROVE TypeOK'
  OBVIOUS
<1>1. CASE UNCHANGED vars
  BY <1>1, QueueTypeStutter, ThreadTypeStutter, ClientTypeStutter, AppTypeStutter,
     HostTypeStutter DEF vars, TypeOK
<1>2. CASE Next
  BY <1>2, TypeRender, TypeApp, TypeEvent, TypeThreads DEF Next, Server
<1> QED BY <1>1, <1>2

(* Every variable keeps its type, and the graphics cache never trails the  *)
(* frame last sent: the base the other invariants are proved on.           *)
THEOREM TypeCorrect == Spec => []TypeOK
  BY TypeInit, TypeStep, PTL DEF Spec
----------------------------------------------------------------------------
(* A deferred render is never forgotten.                                   *)

(* What a render leaves behind: a client still served either has something *)
(* in its slot or is not deferred; and it has nothing left to be sent that *)
(* is not deferred.                                                        *)
LEMMA FrameSettles ==
  ASSUME TypeOK, RenderAndStream, present', hasWriter'
  PROVE  /\ pending' => render' # <<>>
         /\ ~pending' => /\ last'.frame = screen
                         /\ ~(gfxSent' < gfxWanted)
<1>0. ClientTypeOK /\ AppTypeOK /\ CacheCoversFrame
  BY DEF TypeOK
<1>a. gfxSent \in Nat /\ gfxWanted \in Nat /\ gfxSent <= gfxWanted
  BY <1>0 DEF ClientTypeOK, AppTypeOK
<1>b. ASSUME gfxSent' = IF NextGfx = 0 THEN gfxSent ELSE NextGfx, pending' = Incomplete,
             ~pending'
      PROVE  ~(gfxSent' < gfxWanted)
  <2>1. ~Incomplete
    BY <1>b, Zenon
  <2>2. gfxSent' = IF NextGfx = 0 THEN gfxSent ELSE NextGfx
    BY <1>b
  <2> QED BY <1>a, <2>1, <2>2 DEF NextGfx, Incomplete
<1>1. CASE Identical /\ pending' = Incomplete
           /\ gfxSent' = (IF NextGfx = 0 THEN gfxSent ELSE NextGfx)
           /\ UNCHANGED <<queueVars, present, hasWriter, last, repaint, encoding>>
  <2>1. last = Prepared /\ last' = last /\ hasWriter
    BY <1>1 DEF Identical
  <2>2. last.gfx <= gfxSent /\ last.gfx = NextGfx /\ last.frame = screen
    BY <1>0, <2>1 DEF CacheCoversFrame, Prepared
  <2>3. ~Incomplete
    BY <1>a, <2>2 DEF Incomplete, NextGfx
  <2> QED BY <1>1, <1>b, <2>1, <2>2, <2>3
<1>2. CASE PutRender(FrameMessage) /\ last' = Prepared /\ pending' = Incomplete
           /\ gfxSent' = (IF NextGfx = 0 THEN gfxSent ELSE NextGfx)
  <2>1. render' # <<>>
    BY <1>2 DEF PutRender
  <2>2. last'.frame = screen
    BY <1>2 DEF Prepared
  <2> QED BY <1>2, <1>b, <2>1, <2>2
<1>3. CASE RenderFull /\ DeferFullRender
  BY <1>3 DEF RenderFull, DeferFullRender, queueVars
<1>4. CASE RemoveClient
  BY <1>4 DEF RemoveClient
<1>5. CASE (~present \/ ~hasWriter) /\ UNCHANGED <<queueVars, clientVars>>
  BY <1>5 DEF clientVars
<1> QED BY <1>1, <1>2, <1>3, <1>4, <1>5 DEF RenderAndStream

LEMMA GraphicsSettle ==
  ASSUME TypeOK, SendGraphics, ~pending, present', hasWriter'
  PROVE  /\ pending' => render' # <<>>
         /\ ~pending' => ~(gfxSent' < gfxWanted)
         /\ last' = last
<1>a. gfxSent \in Nat /\ gfxWanted \in Nat /\ gfxSent <= gfxWanted
  BY DEF TypeOK, ClientTypeOK, AppTypeOK
<1>1. CASE NextGfx = 0 /\ UNCHANGED <<queueVars, clientVars>>
  BY <1>a, <1>1 DEF NextGfx, clientVars
<1>2. CASE /\ NextGfx # 0 /\ PutRender(Transaction("graphics"))
           /\ gfxSent' = NextGfx /\ pending' = Incomplete
           /\ UNCHANGED <<present, hasWriter, last, repaint, encoding>>
  <2>1. render' # <<>> /\ last' = last
    BY <1>2 DEF PutRender
  <2>2. ~Incomplete => ~(gfxSent' < gfxWanted)
    BY <1>a, <1>2 DEF NextGfx, Incomplete
  <2> QED BY <1>2, <2>1, <2>2
<1>3. CASE RenderFull /\ DeferFullRender
  BY <1>3 DEF RenderFull, DeferFullRender, queueVars
<1>4. CASE RemoveClient
  BY <1>4 DEF RemoveClient
<1> QED BY <1>1, <1>2, <1>3, <1>4 DEF SendGraphics

(* Taking one event off the channel leaves the other reports on it. *)
LEMMA ReportSurvives ==
  ASSUME events \in Seq(Event), events # <<>>, events' = Tail(events),
         Head(events) # "drained", DrainedQueued
  PROVE  DrainedQueued'
<1>1. PICK i \in 1 .. Len(events) : events[i] = "drained"
  BY DEF DrainedQueued
<1>2. i # 1
  BY <1>1
<1>3. i - 1 \in 1 .. Len(events') /\ events'[i - 1] = "drained"
  BY <1>1, <1>2
<1> QED BY <1>3 DEF DrainedQueued

LEMMA ReportsAccumulate ==
  ASSUME events \in Seq(Event), NEW e \in Event, events' = Append(events, e)
  PROVE  /\ DrainedQueued => DrainedQueued'
         /\ e = "drained" => DrainedQueued'
<1>1. Len(events') = Len(events) + 1 /\ events'[Len(events) + 1] = e
      /\ \A i \in 1 .. Len(events) : events'[i] = events[i]
  OBVIOUS
<1>2. Len(events) + 1 \in 1 .. Len(events')
  BY <1>1
<1> QED BY <1>1, <1>2 DEF DrainedQueued

LEMMA DeferralStep == TypeOK /\ DeferralIsRepaid /\ [Next]_vars => DeferralIsRepaid'
<1> SUFFICES ASSUME TypeOK, DeferralIsRepaid, [Next]_vars, Serving', pending'
             PROVE  Repaying'
  BY DEF DeferralIsRepaid
<1>0. events \in Seq(Event) /\ present' /\ hasWriter' /\ WriterUp'
  BY DEF TypeOK, ThreadTypeOK, Serving
<1>1. CASE UNCHANGED vars
  BY <1>1 DEF vars, queueVars, threadVars, clientVars, appVars, DeferralIsRepaid,
              Serving, WriterUp, Repaying, DrainedQueued
<1>2. CASE RenderFrame
  BY <1>0, <1>2, FrameSettles DEF RenderFrame, Repaying
<1>3. CASE RenderGraphics
  <2>1. CASE RenderAndStream
    BY <1>0, <2>1, FrameSettles DEF Repaying
  <2>2. CASE SendGraphics /\ ~pending
    BY <1>0, <2>2, GraphicsSettle DEF Repaying
  <2>3. CASE UNCHANGED <<queueVars, clientVars>>
    <3>1. Serving /\ pending /\ UNCHANGED <<ordered, render, wpc, events>>
      BY <1>3, <2>3 DEF RenderGraphics, threadVars, clientVars, queueVars, Serving, WriterUp
    <3>2. ~({"render", "full"} \subseteq need)
      BY <1>3 DEF RenderGraphics
    <3> QED BY <3>1, <3>2 DEF DeferralIsRepaid, Repaying, DrainedQueued
  <2> QED BY <1>3, <2>1, <2>2, <2>3 DEF RenderGraphics
<1>4. CASE \E f \in Frames : AppChanges(f)
  BY <1>4 DEF AppChanges, NeedPty, NeedFull, queueVars, threadVars, clientVars,
              DeferralIsRepaid, Serving, WriterUp, Repaying, DrainedQueued
<1>5. CASE AppDrawsGraphics
  BY <1>5 DEF AppDrawsGraphics, NeedGraphics, queueVars, threadVars, clientVars,
              DeferralIsRepaid, Serving, WriterUp, Repaying, DrainedQueued
<1>6. CASE AppSendsFile
  <2>1. CASE PushOrdered(Transaction("file"))
    <3>1. ordered' # <<>>
      BY <2>1 DEF PushOrdered, TypeOK, QueueTypeOK
    <3> QED BY <3>1 DEF Repaying
  <2>2. CASE need' = NeedGraphics(need) /\ UNCHANGED queueVars
    BY <1>6, <2>2 DEF AppSendsFile, NeedGraphics, queueVars, threadVars,
                      DeferralIsRepaid, Serving, WriterUp, Repaying, DrainedQueued
  <2> QED BY <1>6, <2>1, <2>2 DEF AppSendsFile
<1>7. CASE AppNotifies
  <2>1. CASE PushControl("notify") /\ UNCHANGED clientVars
    BY <1>7, <2>1 DEF AppNotifies, PushControl, threadVars, clientVars, appVars,
                      DeferralIsRepaid, Serving, WriterUp, Repaying, DrainedQueued
  <2>2. CASE RemoveClient
    BY <1>0, <2>2 DEF RemoveClient
  <2> QED BY <1>7, <2>1, <2>2 DEF AppNotifies
<1>8. CASE HandleEvent
  <2>1. CASE need' = NeedFull(need)
    BY <2>1 DEF NeedFull, Repaying
  <2>2. CASE RemoveClient \/ ~present \/ OnDetachKey
    BY <1>0, <1>8, <2>2 DEF RemoveClient, HandleEvent, clientVars, OnDetachKey
  <2>3. CASE OnDrained
    BY <2>3 DEF OnDrained
  <2>4. Head(events) \in Event
    BY <1>0, <1>8 DEF HandleEvent
  <2>5. \/ ~present \/ OnDrained \/ OnDisconnected \/ OnInput \/ OnFocus \/ OnDetachKey
        \/ Head(events) = "other" /\ UNCHANGED <<queueVars, clientVars, need>>
    BY <1>8, <2>4 DEF HandleEvent, Event
  <2>6. CASE Head(events) = "other" /\ UNCHANGED <<queueVars, clientVars, need>>
    <3>1. Head(events) # "drained" /\ events # <<>> /\ events' = Tail(events)
      BY <1>8, <2>6 DEF HandleEvent
    <3>2. DrainedQueued => DrainedQueued'
      BY <1>0, <3>1, ReportSurvives
    <3> QED BY <1>8, <2>6, <3>2 DEF HandleEvent, queueVars, clientVars, DeferralIsRepaid,
               Serving, WriterUp, Repaying
  <2> QED BY <2>1, <2>2, <2>3, <2>5, <2>6, Zenon DEF OnDisconnected, OnInput, OnFocus
<1>9. CASE WriterTakesRender
  BY <1>9 DEF WriterTakesRender, Repaying
<1>10. CASE WriterTakesControl
  BY <1>10 DEF WriterTakesControl, RecvControl, writerFrame, clientVars, appVars,
               DeferralIsRepaid, Serving, WriterUp, Repaying, DrainedQueued
<1>11. CASE WriterReportsDrained
  <2>1. "drained" \in Event /\ events' = Append(events, "drained")
    BY <1>11 DEF WriterReportsDrained, Report, Event
  <2> QED BY <1>0, <2>1, ReportsAccumulate DEF Repaying
<1>12. CASE WriterWritesControl \/ WriterWritesRender
  BY <1>12 DEF WriterWritesControl, WriterWritesRender, writerFrame, queueVars, clientVars,
               appVars, DeferralIsRepaid, Serving, WriterUp, Repaying, DrainedQueued
<1>13. CASE WriterFails \/ WriterReportsFailure \/ WriterOutOfSenders \/ WriterCloses
  BY <1>0, <1>13 DEF WriterFails, WriterReportsFailure, WriterOutOfSenders, WriterCloses,
                     WriterUp
<1>14. CASE ReaderReportsEof \/ OthersReport \/ \E e \in Sends : ReaderForwards(e)
  <2>1. PICK e \in Event : events' = Append(events, e)
    BY <1>14 DEF ReaderReportsEof, OthersReport, ReaderForwards, Report, Event
  <2>2. DrainedQueued => DrainedQueued'
    BY <1>0, <2>1, ReportsAccumulate
  <2> QED BY <1>14, <2>2 DEF ReaderReportsEof, OthersReport, ReaderForwards, queueVars, clientVars,
             appVars, DeferralIsRepaid, Serving, WriterUp, Repaying
<1>15. CASE ClientHangsUp
  BY <1>15 DEF ClientHangsUp, queueVars, threadVars, clientVars, appVars,
               DeferralIsRepaid, Serving, WriterUp, Repaying, DrainedQueued
<1> QED BY <1>1, <1>2, <1>3, <1>4, <1>5, <1>6, <1>7, <1>8, <1>9, <1>10, <1>11, <1>12,
           <1>13, <1>14, <1>15 DEF Next, Server, Writer

(* A render put off because the slot was taken is always followed by the   *)
(* full render that repays it, for any capacity of the event channel.      *)
THEOREM DeferralNeverForgotten == Spec => []DeferralIsRepaid
<1>1. Init => DeferralIsRepaid
  BY DEF Init, DeferralIsRepaid
<1> QED BY <1>1, TypeCorrect, DeferralStep, PTL DEF Spec
----------------------------------------------------------------------------
(* Nothing the app shows is left unsent without being owed.                *)

LEMMA OwedStep == TypeOK /\ UnsentIsOwed /\ [Next]_vars => UnsentIsOwed'
<1> DEFINE FrameOwed == last.frame # screen =>
             pending \/ ("render" \in need /\ need \cap {"full", "pty"} # {})
           GraphicsOwed == gfxSent < gfxWanted => pending \/ "render" \in need
<1> SUFFICES ASSUME TypeOK, UnsentIsOwed, [Next]_vars, Serving'
             PROVE  FrameOwed' /\ GraphicsOwed'
  BY DEF UnsentIsOwed
<1>0. /\ events \in Seq(Event) /\ present' /\ hasWriter' /\ WriterUp'
      /\ Serving => FrameOwed /\ GraphicsOwed
  BY DEF TypeOK, ThreadTypeOK, Serving, UnsentIsOwed
<1>k. ASSUME Serving, UNCHANGED <<last, screen, pending, need, gfxSent, gfxWanted>>
      PROVE  FrameOwed' /\ GraphicsOwed'
  BY <1>0, <1>k
<1>f. ASSUME need' = NeedFull(need) PROVE FrameOwed' /\ GraphicsOwed'
  BY <1>f DEF NeedFull
<1> HIDE DEF FrameOwed, GraphicsOwed
<1>1. CASE UNCHANGED vars
  BY <1>1, <1>0, <1>k DEF vars, threadVars, clientVars, appVars, Serving, WriterUp
<1>2. CASE RenderFrame
  BY <1>0, <1>2, FrameSettles DEF RenderFrame, FrameOwed, GraphicsOwed
<1>3. CASE RenderGraphics
  <2>1. CASE RenderAndStream
    BY <1>0, <1>3, <2>1, FrameSettles DEF RenderGraphics, FrameOwed, GraphicsOwed
  <2>2. CASE SendGraphics /\ ~pending
    <3>1. Serving /\ FrameOwed
      <4>1. present /\ hasWriter
        BY <1>0, <2>2 DEF SendGraphics, clientVars, DeferFullRender, RemoveClient
      <4> QED BY <1>0, <1>3, <4>1 DEF RenderGraphics, threadVars, Serving, WriterUp
    <3>2. last.frame = screen
      BY <1>3, <2>2, <3>1 DEF RenderGraphics, FrameOwed
    <3> QED BY <1>0, <1>3, <2>2, <3>2, GraphicsSettle
            DEF RenderGraphics, FrameOwed, GraphicsOwed
  <2>3. CASE UNCHANGED <<queueVars, clientVars>> /\ (~present \/ ~hasWriter \/ pending)
    <3>1. pending'
      BY <1>0, <2>3 DEF clientVars
    <3> QED BY <3>1 DEF FrameOwed, GraphicsOwed
  <2> QED BY <1>3, <2>1, <2>2, <2>3 DEF RenderGraphics
<1>4. CASE \E f \in Frames : AppChanges(f)
  <2>1. "render" \in need' /\ need' \cap {"full", "pty"} # {}
    BY <1>4 DEF AppChanges, NeedPty, NeedFull
  <2> QED BY <2>1 DEF FrameOwed, GraphicsOwed
<1>5. CASE AppDrawsGraphics
  <2>1. Serving /\ UNCHANGED <<last, pending, screen>> /\ need' = need \cup {"render", "graphics"}
    BY <1>0, <1>5 DEF AppDrawsGraphics, NeedGraphics, threadVars, clientVars, Serving, WriterUp
  <2>2. FrameOwed
    BY <1>0, <2>1
  <2> QED BY <2>1, <2>2 DEF FrameOwed, GraphicsOwed
<1>6. CASE AppSendsFile
  <2>1. Serving /\ UNCHANGED <<last, pending, screen, gfxWanted>>
    BY <1>0, <1>6 DEF AppSendsFile, threadVars, Serving, WriterUp
  <2>2. CASE gfxSent' = gfxSent + 1 /\ UNCHANGED need
    <3>1. gfxSent \in Nat /\ gfxWanted \in Nat
      BY DEF TypeOK, ClientTypeOK, AppTypeOK
    <3>2. gfxSent' < gfxWanted' => gfxSent < gfxWanted
      BY <2>1, <2>2, <3>1
    <3> QED BY <1>0, <2>1, <2>2, <3>2, Zenon DEF FrameOwed, GraphicsOwed
  <2>3. CASE need' = NeedGraphics(need)
    BY <1>0, <2>1, <2>3 DEF NeedGraphics, FrameOwed, GraphicsOwed
  <2> QED BY <1>6, <2>2, <2>3 DEF AppSendsFile
<1>7. CASE AppNotifies
  <2>1. CASE UNCHANGED clientVars
    BY <1>0, <1>7, <2>1, <1>k DEF AppNotifies, threadVars, clientVars, appVars, Serving, WriterUp
  <2>2. CASE RemoveClient
    BY <1>0, <2>2 DEF RemoveClient
  <2> QED BY <1>7, <2>1, <2>2 DEF AppNotifies
<1>8. CASE HandleEvent
  <2>1. CASE need' = NeedFull(need)
    BY <2>1, <1>f
  <2>2. CASE RemoveClient \/ OnDetachKey \/ ~present
    BY <1>0, <1>8, <2>2 DEF RemoveClient, HandleEvent, clientVars, OnDetachKey
  <2>3. CASE OnDrained /\ present /\ need' = need /\ ~pending
    <3>1. Serving /\ UNCHANGED <<last, screen, gfxSent, gfxWanted>> /\ pending' = FALSE
      BY <1>0, <1>8, <2>3 DEF HandleEvent, OnDrained, Serving, WriterUp
    <3> QED BY <1>0, <2>3, <3>1, Zenon DEF FrameOwed, GraphicsOwed
  <2>4. Head(events) \in Event
    BY <1>0, <1>8 DEF HandleEvent
  <2>5. \/ ~present \/ OnDrained \/ OnDisconnected \/ OnInput \/ OnFocus \/ OnDetachKey
        \/ UNCHANGED <<clientVars, need>>
    BY <1>8, <2>4 DEF HandleEvent, Event
  <2>6. OnDrained => (~pending /\ need' = need) \/ need' = NeedFull(need)
    BY DEF OnDrained
  <2>7. CASE UNCHANGED <<clientVars, need>>
    BY <1>0, <1>8, <2>7, <1>k DEF HandleEvent, clientVars, appVars, Serving, WriterUp
  <2> QED BY <2>1, <2>2, <2>3, <2>5, <2>6, <2>7, Zenon DEF OnDisconnected, OnInput, OnFocus
<1>9. CASE Writer \/ ReaderReportsEof \/ OthersReport \/ \E e \in Sends : ReaderForwards(e)
  <2>1. UNCHANGED <<clientVars, appVars>> /\ (WriterUp' => WriterUp)
    BY <1>9 DEF Writer, WriterTakesControl, WriterTakesRender, WriterReportsDrained,
       WriterWritesControl, WriterWritesRender, WriterFails, WriterReportsFailure,
       WriterOutOfSenders, WriterCloses, ReaderReportsEof, OthersReport, ReaderForwards, writerFrame, WriterUp
  <2> QED BY <1>0, <1>k, <2>1 DEF clientVars, appVars, Serving
<1>10. CASE ClientHangsUp
  BY <1>0, <1>10, <1>k DEF ClientHangsUp, threadVars, clientVars, appVars, Serving, WriterUp
<1> QED BY <1>1, <1>2, <1>3, <1>4, <1>5, <1>6, <1>7, <1>8, <1>9, <1>10 DEF Next, Server

(* A client being served has been sent, is owed or is about to be sent     *)
(* everything the app shows, whatever the interleaving of the main loop    *)
(* with the client's two threads.                                          *)
THEOREM UnsentNeverForgotten == Spec => []UnsentIsOwed
<1>1. Init => UnsentIsOwed
  BY DEF Init, UnsentIsOwed
<1> QED BY <1>1, TypeCorrect, OwedStep, PTL DEF Spec

(* The two together: nothing the client lacks is ever forgotten.           *)
THEOREM NothingOwedNeverForgotten == Spec => []NothingOwedIsForgotten
<1>1. DeferralIsRepaid /\ UnsentIsOwed => NothingOwedIsForgotten
  BY DEF NothingOwedIsForgotten
<1> QED BY <1>1, DeferralNeverForgotten, UnsentNeverForgotten, PTL
----------------------------------------------------------------------------
(* What a sequence of messages draws.  The facts about Channel!Eventually   *)
(* are proved by least counterexample.                                     *)

(* What is shown after each of the first n messages of p, drawn over v. *)
Run(n, v, p, f) == f = [k \in 0 .. n |-> IF k = 0 THEN v ELSE Draw(f[k - 1], p[k])]

LEMMA Least ==
  ASSUME NEW S, S \subseteq Nat, S # {}
  PROVE  \E n \in S : n = 0 \/ (n - 1 \in Nat /\ n - 1 \notin S)
<1> DEFINE R == OpToRel(<, Nat)
<1>1. IsWellFoundedOn(R, Nat)
  BY NatLessThanWellFounded
<1>2. \E n \in S : \A m \in S : <<m, n>> \notin R
  <2> HIDE DEF R
  <2> QED BY <1>1, WFMin
<1>3. PICK n \in S : \A m \in S : <<m, n>> \notin R
  BY <1>2
<1>4. \A m \in S : ~(m < n)
  BY <1>3 DEF OpToRel
<1> QED BY <1>4

LEMMA RunExists ==
  ASSUME NEW v, NEW p
  PROVE  \A n \in Nat : \E f : Run(n, v, p, f)
<1> DEFINE S == {n \in Nat : ~\E f : Run(n, v, p, f)}
<1> SUFFICES ASSUME S # {} PROVE FALSE
  OBVIOUS
<1>1. PICK n \in S : n = 0 \/ (n - 1 \in Nat /\ n - 1 \notin S)
  <2> S \subseteq Nat
    OBVIOUS
  <2> HIDE DEF S
  <2> QED BY Least
<1>2. CASE n = 0
  <2> DEFINE f == [k \in 0 .. 0 |-> v]
  <2>1. Run(0, v, p, f)
    BY DEF Run
  <2> QED BY <1>2, <2>1
<1>3. CASE n # 0
  <2>1. n \in Nat /\ n - 1 \in Nat
    BY <1>1, <1>3
  <2>2. PICK g : Run(n - 1, v, p, g)
    BY <1>1, <1>3
  <2> DEFINE f == [k \in 0 .. n |-> IF k = n THEN Draw(g[n - 1], p[n]) ELSE g[k]]
  <2>3. \A k \in 0 .. n - 1 : f[k] = g[k] /\ g[k] = IF k = 0 THEN v ELSE Draw(g[k - 1], p[k])
    BY <2>1, <2>2 DEF Run
  <2>4. f[n] = Draw(f[n - 1], p[n])
    BY <2>1, <2>3
  <2>5. \A k \in 0 .. n : f[k] = IF k = 0 THEN v ELSE Draw(f[k - 1], p[k])
    <3> SUFFICES ASSUME NEW k \in 0 .. n PROVE f[k] = IF k = 0 THEN v ELSE Draw(f[k - 1], p[k])
      OBVIOUS
    <3>1. CASE k = n
      BY <3>1, <2>4, <1>3
    <3>2. CASE k # n /\ k = 0
      <4>1. k \in 0 .. n - 1
        BY <2>1, <3>2
      <4> QED BY <4>1, <3>2, <2>3
    <3>3. CASE k # n /\ k # 0
      <4>1. k \in 0 .. n - 1 /\ k - 1 \in 0 .. n - 1
        BY <2>1, <3>3
      <4>2. f[k] = g[k] /\ f[k - 1] = g[k - 1] /\ g[k] = Draw(g[k - 1], p[k])
        BY <4>1, <3>3, <2>3
      <4> QED BY <4>2, <3>3
    <3> QED BY <3>1, <3>2, <3>3
  <2>6. Run(n, v, p, f)
    <3>1. f = [k \in 0 .. n |-> f[k]]
      OBVIOUS
    <3> HIDE DEF f
    <3> QED BY <3>1, <2>5 DEF Run
  <2> QED BY <2>6
<1> QED BY <1>2, <1>3

Drawn(n, v, p, f) == f[0] = v /\ \A k \in 1 .. n : f[k] = Draw(f[k - 1], p[k])

LEMMA RunIsDrawn ==
  ASSUME NEW v, NEW p, NEW n \in Nat, NEW f, Run(n, v, p, f)
  PROVE  Drawn(n, v, p, f)
<1>1. \A k \in 0 .. n : f[k] = IF k = 0 THEN v ELSE Draw(f[k - 1], p[k])
  BY DEF Run
<1>2. 0 \in 0 .. n /\ \A k \in 1 .. n : k \in 0 .. n /\ k # 0
  OBVIOUS
<1> QED BY <1>1, <1>2 DEF Drawn

(* Two runs that draw the same messages over the same agree. *)
LEMMA DrawnAgree ==
  ASSUME NEW n \in Nat, NEW v, NEW f, NEW g, NEW p, NEW q,
         Drawn(n, v, p, f), Drawn(n, v, q, g), \A k \in 1 .. n : p[k] = q[k]
  PROVE  f[n] = g[n]
<1> DEFINE S == {k \in 0 .. n : f[k] # g[k]}
<1> SUFFICES ASSUME S # {} PROVE FALSE
  OBVIOUS
<1>1. PICK k \in S : k = 0 \/ (k - 1 \in Nat /\ k - 1 \notin S)
  <2> S \subseteq Nat
    OBVIOUS
  <2> HIDE DEF S
  <2> QED BY Least
<1>2. k \in 0 .. n /\ f[k] # g[k]
  OBVIOUS
<1>3. k # 0
  BY <1>2 DEF Drawn
<1>4. k \in 1 .. n /\ k - 1 \in 0 .. n
  BY <1>2, <1>3
<1>5. f[k - 1] = g[k - 1]
  BY <1>1, <1>4, <1>3
<1>6. f[k] = Draw(f[k - 1], p[k]) /\ g[k] = Draw(g[k - 1], q[k]) /\ p[k] = q[k]
  BY <1>4 DEF Drawn
<1> QED BY <1>2, <1>5, <1>6

LEMMA EventuallyIsRun ==
  ASSUME NEW v, NEW p, Len(p) \in Nat
  PROVE  \E f : Run(Len(p), v, p, f) /\ Channel!Eventually(v, p) = f[Len(p)]
<1> DEFINE c == CHOOSE f : Run(Len(p), v, p, f)
<1>1. Run(Len(p), v, p, c)
  BY RunExists
<1>2. Channel!Eventually(v, p) = c[Len(p)]
  BY DEF Channel!Eventually, Run
<1> QED BY <1>1, <1>2

LEMMA EventuallyNothing ==
  ASSUME NEW v
  PROVE  Channel!Eventually(v, <<>>) = v
<1> DEFINE z == Len(<<>>)
<1>1. z = 0 /\ z \in Nat
  OBVIOUS
<1>2. PICK f : Run(z, v, <<>>, f) /\ Channel!Eventually(v, <<>>) = f[z]
  BY <1>1, EventuallyIsRun
<1> HIDE DEF z
<1>3. Drawn(z, v, <<>>, f)
  BY <1>1, <1>2, RunIsDrawn
<1> QED BY <1>1, <1>2, <1>3 DEF Drawn

LEMMA EventuallyDrawn ==
  ASSUME NEW v, NEW p, NEW n \in Nat, n = Len(p)
  PROVE  \E f : Drawn(n, v, p, f) /\ Channel!Eventually(v, p) = f[n]
<1>1. Len(p) \in Nat
  OBVIOUS
<1>2. \E f : Run(Len(p), v, p, f) /\ Channel!Eventually(v, p) = f[Len(p)]
  BY <1>1, EventuallyIsRun
<1>3. PICK f : Run(n, v, p, f) /\ Channel!Eventually(v, p) = f[n]
  BY <1>2
<1>4. Drawn(n, v, p, f)
  BY <1>3, RunIsDrawn
<1> QED BY <1>3, <1>4

LEMMA EventuallyAppend ==
  ASSUME NEW S, NEW v, NEW p \in Seq(S), NEW m \in S
  PROVE  Channel!Eventually(v, Append(p, m)) = Draw(Channel!Eventually(v, p), m)
<1> DEFINE n == Len(p)
           l == n + 1
           q == Append(p, m)
<1>1. /\ n \in Nat /\ n = Len(p) /\ l \in Nat /\ l = Len(q) /\ l = n + 1
      /\ q[l] = m /\ \A k \in 1 .. n : q[k] = p[k]
  BY AppendProperties, LenProperties
<1> HIDE DEF n, l, q
<1>2. PICK f : Drawn(n, v, p, f) /\ Channel!Eventually(v, p) = f[n]
  <2>1. n \in Nat /\ n = Len(p)
    BY <1>1
  <2> QED BY ONLY <2>1, EventuallyDrawn
<1>3. PICK g : Drawn(l, v, q, g) /\ Channel!Eventually(v, q) = g[l]
  <2>1. l \in Nat /\ l = Len(q)
    BY <1>1
  <2> QED BY ONLY <2>1, EventuallyDrawn
<1>4. Drawn(n, v, q, g)
  BY <1>1, <1>3 DEF Drawn
<1>5. f[n] = g[n]
  <2>1. \A k \in 1 .. n : p[k] = q[k]
    BY <1>1
  <2> QED BY ONLY <2>1, <1>1, <1>2, <1>4, DrawnAgree
<1>6. g[l] = Draw(g[n], m)
  <2>1. l \in 1 .. l /\ l - 1 = n
    BY <1>1
  <2> QED BY <2>1, <1>1, <1>3 DEF Drawn
<1>7. Channel!Eventually(v, q) = Draw(Channel!Eventually(v, p), m)
  BY <1>2, <1>3, <1>5, <1>6
<1> QED BY <1>7 DEF q

LEMMA EventuallyFirst ==
  ASSUME NEW S, NEW v, NEW p \in Seq(S), p # <<>>
  PROVE  Channel!Eventually(v, p) = Channel!Eventually(Draw(v, Head(p)), Tail(p))
<1> DEFINE n == Len(p)
           l == n - 1
           q == Tail(p)
           w == Draw(v, Head(p))
<1>1. /\ n \in Nat /\ n = Len(p) /\ l \in Nat /\ l = Len(q) /\ n = l + 1 /\ l = n - 1
      /\ Head(p) = p[1] /\ \A k \in 1 .. l : q[k] = p[k + 1]
  <2>1. Len(p) \in Nat /\ Len(p) # 0
    BY EmptySeq, LenProperties
  <2>2. Len(Tail(p)) = Len(p) - 1 /\ Head(p) = p[1]
    BY HeadTailProperties
  <2>3. \A k \in 1 .. Len(p) - 1 : Tail(p)[k] = p[k + 1]
    BY <2>1
  <2> QED BY <2>1, <2>2, <2>3
<1>w. w = Draw(v, p[1])
  <2>1. Head(p) = p[1]
    BY <1>1
  <2> QED BY <2>1
<1> HIDE DEF n, l, q, w
<1>2. PICK f : Drawn(n, v, p, f) /\ Channel!Eventually(v, p) = f[n]
  <2>1. n \in Nat /\ n = Len(p)
    BY <1>1
  <2> QED BY ONLY <2>1, EventuallyDrawn
<1>3. PICK g : Drawn(l, w, q, g) /\ Channel!Eventually(w, q) = g[l]
  <2>1. l \in Nat /\ l = Len(q)
    BY <1>1
  <2> QED BY ONLY <2>1, EventuallyDrawn
<1> DEFINE h == [k \in 0 .. l |-> f[k + 1]]
<1>4. Drawn(l, w, q, h)
  <2>1. f[0] = v /\ f[1] = Draw(f[1 - 1], p[1])
    BY <1>1, <1>2 DEF Drawn
  <2>2. h[0] = w
    BY <2>1, <1>1, <1>w
  <2>3. \A k \in 1 .. l : h[k] = Draw(h[k - 1], q[k])
    <3> SUFFICES ASSUME NEW k \in 1 .. l PROVE h[k] = Draw(h[k - 1], q[k])
      OBVIOUS
    <3>1. /\ k + 1 \in 1 .. n /\ (k + 1) - 1 = k
          /\ k \in 0 .. l /\ k - 1 \in 0 .. l /\ (k - 1) + 1 = k
      BY <1>1
    <3>2. h[k] = f[k + 1] /\ h[k - 1] = f[k]
      BY <3>1
    <3>3. f[k + 1] = Draw(f[(k + 1) - 1], p[k + 1])
      BY <3>1, <1>2 DEF Drawn
    <3>4. f[k + 1] = Draw(f[k], q[k])
      BY <3>1, <3>3, <1>1
    <3> QED BY <3>2, <3>4
  <2> HIDE DEF h
  <2> QED BY <2>2, <2>3 DEF Drawn
<1>5. h[l] = f[n]
  BY <1>1
<1>6. h[l] = g[l]
  <2> HIDE DEF h
  <2>1. \A k \in 1 .. l : q[k] = q[k]
    OBVIOUS
  <2> QED BY ONLY <2>1, <1>1, <1>3, <1>4, DrawnAgree
<1>7. Channel!Eventually(v, p) = Channel!Eventually(w, q)
  BY <1>2, <1>3, <1>5, <1>6
<1> QED BY <1>7 DEF w, q

(* Sequences of one element, and the first of a longer one. *)
LEMMA SingleElement ==
  ASSUME NEW S, NEW s \in Seq(S), s # <<>>, Len(s) <= 1
  PROVE  Len(s) = 1 /\ s = <<Head(s)>>
<1>1. Len(s) \in Nat /\ Len(s) # 0
  BY EmptySeq, LenProperties
<1>2. Len(s) = 1
  <2>1. \A n \in Nat : n # 0 /\ n <= 1 => n = 1
    OBVIOUS
  <2> QED BY <1>1, <2>1
<1>3. s = <<Head(s)>>
  BY <1>2
<1> QED BY <1>2, <1>3

LEMMA FirstElement ==
  ASSUME NEW S, NEW s \in Seq(S), Len(s) >= 1
  PROVE  SubSeq(s, 1, 1) = <<s[1]>>
<1>1. s[1] \in S /\ 1 \in 1 .. Len(s)
  BY ElementOfSeq, LenProperties
<1>2. Len(SubSeq(s, 1, 1)) = 1 /\ SubSeq(s, 1, 1)[1] = s[1]
  BY <1>1
<1>3. SubSeq(s, 1, 1) \in Seq(S)
  BY <1>1
<1> DEFINE t == SubSeq(s, 1, 1)
<1>4. t \in Seq(S) /\ Len(t) = 1 /\ t[1] = s[1]
  BY <1>2, <1>3
<1> HIDE DEF t
<1>5. t = <<t[1]>>
  BY <1>4
<1> QED BY <1>4, <1>5 DEF t
----------------------------------------------------------------------------
(* What each step does to the renders under way.                           *)

(* The client has not been, and will not be, told to shut down. *)
Untold ==
  /\ ~told /\ control \in Seq({"notify", "cleanup"})
  /\ wpc = "writeControl" => item[1] # "shutdown"

(* A client that is told, or about to be, is no longer written to, and at  *)
(* most one render, which carries no graphics, is still on its way.        *)
Parting ==
  /\ ~Untold => ~hasWriter /\ ordered = <<>>
  /\ told /\ wpc \in {"notify", "writeRender"} => render = <<>>
  /\ hasWriter /\ ordered # <<>> => gfxSent > 0

(* commit_sent_frame and the graphics cache: what the server notes of a    *)
(* message it has just queued.                                             *)
Committed(m) ==
  /\ \/ m.gfx = 0 /\ gfxSent' = gfxSent
     \/ m.gfx = gfxSent + 1 /\ gfxSent' = gfxSent + 1
  /\ m.kind = "frame" =>
       last'.frame = m.frame /\ (m.full \/ (last.frame # NoFrame /\ m.base = last.frame))
  /\ m.kind # "frame" => last' = last

(* What a step does to the renders under way. *)
Quiet ==
  /\ WriterUp => Pipeline' = Pipeline
  /\ view' = view /\ WriterUp' = WriterUp
  /\ Serving' => Serving /\ gfxSent' = gfxSent /\ last'.frame \in {last.frame, NoFrame}
Queued ==
  \E m \in RenderMessage :
    /\ present /\ hasWriter /\ Committed(m)
    /\ Pipeline' = Append(Pipeline, m) /\ Len(Pipeline) < 4
    /\ view' = view /\ WriterUp' = WriterUp
GivenUp ==
  ~hasWriter' /\ Pipeline' = InHand /\ view' = view /\ WriterUp' = WriterUp
Ended == WriterUp /\ ~WriterUp' /\ view' = view

LEMMA PipelineOK ==
  ASSUME TypeOK
  PROVE  /\ InHand \in Seq(RenderMessage) /\ Len(InHand) <= 1
         /\ ordered \in Seq(RenderMessage) /\ render \in Seq(RenderMessage)
         /\ Len(ordered) <= 2 /\ Len(render) <= 1
         /\ Pipeline \in Seq(RenderMessage)
         /\ Len(Pipeline) = Len(InHand) + Len(ordered) + Len(render)
<1>1. InHand \in Seq(RenderMessage) /\ Len(InHand) <= 1
  <2>1. CASE wpc \in {"notify", "writeRender"}
    <3>1. InHand = item /\ item \in Seq(RenderMessage) /\ Len(item) = 1
      BY <2>1 DEF TypeOK, ThreadTypeOK, InHand
    <3> QED BY <3>1
  <2>2. CASE wpc \notin {"notify", "writeRender"}
    <3>1. InHand = <<>>
      BY <2>2 DEF InHand
    <3> QED BY <3>1
  <2> QED BY <2>1, <2>2
<1>2. /\ ordered \in Seq(RenderMessage) /\ render \in Seq(RenderMessage)
      /\ Len(ordered) <= 2 /\ Len(render) <= 1
  BY DEF TypeOK, QueueTypeOK
<1>3. /\ InHand \o ordered \in Seq(RenderMessage)
      /\ Len(InHand \o ordered) = Len(InHand) + Len(ordered)
  BY <1>1, <1>2, ConcatProperties
<1>4. /\ (InHand \o ordered) \o render \in Seq(RenderMessage)
      /\ Len((InHand \o ordered) \o render) = Len(InHand \o ordered) + Len(render)
  BY <1>2, <1>3, ConcatProperties
<1> QED BY <1>1, <1>2, <1>3, <1>4 DEF Pipeline

(* A sequence and one more element. *)
LEMMA ConcatAppend ==
  ASSUME NEW S, NEW s \in Seq(S), NEW t \in Seq(S), NEW m \in S
  PROVE  s \o Append(t, m) = Append(s \o t, m)
  OBVIOUS

LEMMA PutRenderQueues ==
  ASSUME TypeOK, NEW m \in RenderMessage, PutRender(m), UNCHANGED <<wpc, item>>
  PROVE  Pipeline' = Append(Pipeline, m) /\ Len(Pipeline) < 4
<1> DEFINE a == InHand \o ordered
<1>1. render = <<>> /\ render' = <<m>> /\ ordered' = ordered /\ InHand' = InHand
  BY DEF PutRender, RenderReady, InHand
<1>2. Len(Pipeline) < 4
  <2>1. Len(render) = 0 /\ Len(InHand) \in Nat /\ Len(ordered) \in Nat
    BY <1>1, PipelineOK, LenProperties
  <2> QED BY <2>1, PipelineOK
<1>3. a \in Seq(RenderMessage)
  BY PipelineOK, ConcatProperties
<1>4. Pipeline = a /\ Pipeline' = a \o <<m>>
  <2>1. Pipeline = a \o <<>> /\ Pipeline' = a \o <<m>>
    BY <1>1 DEF Pipeline
  <2> HIDE DEF a
  <2>2. a \o <<>> = a
    BY <1>3, ConcatEmptySeq
  <2> QED BY <2>1, <2>2
<1>5. a \o <<m>> = Append(a, m)
  <2> HIDE DEF a
  <2> QED BY <1>3
<1> QED BY <1>2, <1>4, <1>5

LEMMA PushOrderedQueues ==
  ASSUME TypeOK, NEW m \in RenderMessage, PushOrdered(m), UNCHANGED <<wpc, item>>
  PROVE  Pipeline' = Append(Pipeline, m) /\ Len(Pipeline) < 4
<1>1. ordered = <<>> /\ ordered' = Append(render, m) /\ render' = <<>> /\ InHand' = InHand
  BY DEF PushOrdered, OrderedReady, InHand
<1>2. Len(Pipeline) < 4
  <2>1. Len(ordered) = 0 /\ Len(InHand) \in Nat /\ Len(render) \in Nat
    BY <1>1, PipelineOK, LenProperties
  <2> QED BY <2>1, PipelineOK
<1>3. InHand \in Seq(RenderMessage) /\ render \in Seq(RenderMessage)
  BY PipelineOK
<1>4. Pipeline = InHand \o render
  <2>1. InHand \o <<>> = InHand
    BY <1>3, ConcatEmptySeq
  <2> QED BY <1>1, <2>1 DEF Pipeline
<1>5. InHand \o Append(render, m) = Append(InHand \o render, m)
  BY <1>3, ConcatAppend
<1>6. Pipeline' = InHand \o Append(render, m)
  <2>1. InHand \o Append(render, m) \in Seq(RenderMessage)
    BY <1>3, AppendProperties, ConcatProperties
  <2>2. (InHand \o Append(render, m)) \o <<>> = InHand \o Append(render, m)
    BY <2>1, ConcatEmptySeq
  <2> QED BY <1>1, <2>2 DEF Pipeline
<1> QED BY <1>2, <1>4, <1>5, <1>6

(* Giving the queue up leaves what the thread holds, or everything. *)
LEMMA CleanupGivesUp ==
  ASSUME TypeOK, ~hasWriter', UNCHANGED <<wpc, item, view>>,
         \/ UNCHANGED <<ordered, render>>
         \/ ordered' = <<>> /\ render' = <<>>
  PROVE  Quiet \/ GivenUp
<1>1. InHand' = InHand /\ WriterUp' = WriterUp
  BY DEF InHand, WriterUp
<1>2. CASE UNCHANGED <<ordered, render>>
  BY <1>1, <1>2 DEF Pipeline, Quiet, Serving
<1>3. CASE ordered' = <<>> /\ render' = <<>>
  <2>1. InHand \in Seq(RenderMessage)
    BY PipelineOK
  <2>2. InHand \o <<>> = InHand /\ (InHand \o <<>>) \o <<>> = InHand
    BY <2>1, ConcatEmptySeq
  <2>3. Pipeline' = InHand
    BY <1>1, <1>3, <2>2 DEF Pipeline
  <2> QED BY <1>1, <2>3 DEF GivenUp
<1> QED BY <1>2, <1>3

LEMMA RemoveGivesUp ==
  ASSUME TypeOK, RemoveClient, UNCHANGED <<wpc, item, view>>
  PROVE  Quiet \/ GivenUp
<1>1. ~hasWriter' /\ (UNCHANGED <<ordered, render>> \/ (ordered' = <<>> /\ render' = <<>>))
  BY DEF RemoveClient, CleanupAndDrop, queueVars
<1> QED BY <1>1, CleanupGivesUp

LEMMA DetachGivesUp ==
  ASSUME TypeOK, OnDetachKey, UNCHANGED <<wpc, item, view>>
  PROVE  Quiet \/ GivenUp
<1>1. CASE RemoveClient
  BY <1>1, RemoveGivesUp
<1>2. CASE ~hasWriter' /\ CleanupAndShutdown(hasWriter, gfxSent > 0)
  <2>1. UNCHANGED <<ordered, render>> \/ (ordered' = <<>> /\ render' = <<>>)
    BY <1>2 DEF CleanupAndShutdown
  <2> QED BY <1>2, <2>1, CleanupGivesUp
<1> QED BY <1>1, <1>2 DEF OnDetachKey

LEMMA UntouchedIsQuiet ==
  ASSUME UNCHANGED <<ordered, render, wpc, item, view>>,
         Serving' => Serving /\ gfxSent' = gfxSent /\ last'.frame \in {last.frame, NoFrame}
  PROVE  Quiet
  BY DEF Quiet, Pipeline, InHand, WriterUp

LEMMA RenderKinds ==
  ASSUME TypeOK, UNCHANGED <<wpc, item, view>>,
         RenderAndStream \/ (SendGraphics /\ present /\ hasWriter)
  PROVE  Quiet \/ Queued \/ GivenUp
<1>0. ClientTypeOK /\ AppTypeOK /\ CacheCoversFrame
  BY DEF TypeOK
<1>a. gfxSent \in Nat /\ gfxWanted \in Nat /\ gfxSent <= gfxWanted /\ last.gfx \in Nat
  BY <1>0 DEF ClientTypeOK, AppTypeOK
<1>b. /\ NextGfx = 0 \/ NextGfx = gfxSent + 1
      /\ FrameMessage \in RenderMessage
      /\ NextGfx # 0 => gfxWanted > gfxSent /\ Transaction("graphics") \in RenderMessage
  BY <1>0, <1>a, MessagesOK DEF NextGfx
<1>c. WriterUp' = WriterUp
  BY DEF WriterUp
<1>1. CASE UNCHANGED <<queueVars, present, hasWriter, last, gfxSent>>
  <2>1. Serving' => Serving /\ gfxSent' = gfxSent /\ last'.frame = last.frame
    BY <1>1, <1>c DEF Serving
  <2> QED BY <1>1, <2>1, UntouchedIsQuiet DEF queueVars
<1>2. CASE /\ present /\ hasWriter /\ Identical
           /\ gfxSent' = IF NextGfx = 0 THEN gfxSent ELSE NextGfx
           /\ UNCHANGED <<queueVars, present, hasWriter, last>>
  <2>1. NextGfx <= gfxSent
    BY <1>0, <1>2 DEF Identical, Prepared, CacheCoversFrame
  <2>2. gfxSent' = gfxSent
    BY <1>a, <1>b, <1>2, <2>1
  <2> QED BY <1>1, <1>2, <2>2
<1>3. CASE /\ present /\ hasWriter /\ PutRender(FrameMessage) /\ last' = Prepared
           /\ gfxSent' = IF NextGfx = 0 THEN gfxSent ELSE NextGfx
  <2>1. Committed(FrameMessage)
    <3>1. /\ FrameMessage.gfx = NextGfx /\ FrameMessage.kind = "frame"
          /\ FrameMessage.frame = screen /\ FrameMessage.base = last.frame
          /\ FrameMessage.full = (encoding = "SemanticFrame" \/ repaint \/ last.frame = NoFrame)
      BY DEF FrameMessage
    <3>2. last'.frame = screen
      BY <1>3 DEF Prepared
    <3>3. \/ FrameMessage.gfx = 0 /\ gfxSent' = gfxSent
          \/ FrameMessage.gfx = gfxSent + 1 /\ gfxSent' = gfxSent + 1
      BY <1>3, <1>b, <1>a, <3>1
    <3>4. FrameMessage.full \/ (last.frame # NoFrame /\ FrameMessage.base = last.frame)
      BY <3>1
    <3> QED BY <3>1, <3>2, <3>3, <3>4 DEF Committed
  <2>2. Pipeline' = Append(Pipeline, FrameMessage) /\ Len(Pipeline) < 4
    BY <1>b, <1>3, PutRenderQueues
  <2> QED BY <1>3, <1>b, <1>c, <2>1, <2>2 DEF Queued
<1>4. CASE /\ present /\ hasWriter /\ NextGfx # 0 /\ PutRender(Transaction("graphics"))
           /\ gfxSent' = NextGfx /\ last' = last
  <2>1. Committed(Transaction("graphics"))
    BY <1>4, <1>b DEF Transaction, Committed
  <2>2. Pipeline' = Append(Pipeline, Transaction("graphics")) /\ Len(Pipeline) < 4
    BY <1>b, <1>4, PutRenderQueues
  <2> QED BY <1>4, <1>b, <1>c, <2>1, <2>2 DEF Queued
<1>5. CASE RemoveClient
  BY <1>5, RemoveGivesUp
<1>6. CASE RenderAndStream
  BY <1>1, <1>2, <1>3, <1>5, <1>6 DEF RenderAndStream, DeferFullRender, clientVars
<1>7. CASE SendGraphics /\ present /\ hasWriter
  BY <1>1, <1>4, <1>5, <1>7 DEF SendGraphics, DeferFullRender, clientVars
<1> QED BY <1>6, <1>7

LEMMA EventKinds ==
  ASSUME TypeOK, HandleEvent
  PROVE  Quiet \/ GivenUp
<1>0. UNCHANGED <<wpc, item, view>> /\ WriterUp' = WriterUp
  BY DEF HandleEvent, hostVars, WriterUp
<1>1. CASE RemoveClient \/ OnDetachKey
  BY <1>0, <1>1, RemoveGivesUp, DetachGivesUp
<1>2. CASE UNCHANGED <<queueVars, present, hasWriter, gfxSent>> /\ last' \in {last, NoBaseline}
  <2>1. Serving' => Serving /\ gfxSent' = gfxSent /\ last'.frame \in {last.frame, NoFrame}
    BY <1>0, <1>2 DEF Serving, NoBaseline
  <2> QED BY <1>0, <1>2, <2>1, UntouchedIsQuiet DEF queueVars
<1>3. Head(events) \in Event
  BY DEF HandleEvent, TypeOK, ThreadTypeOK
<1>4. \/ OnDrained \/ OnDisconnected \/ OnInput \/ OnFocus \/ OnDetachKey
      \/ UNCHANGED <<queueVars, clientVars, need>>
  BY <1>3 DEF HandleEvent, Event
<1> QED BY <1>1, <1>2, <1>4 DEF OnDrained, OnDisconnected, OnInput, OnFocus, RequestRepaint,
           clientVars

(* Every step of the client is one of five. *)
LEMMA StepKinds ==
  ASSUME TypeOK, [Next]_vars
  PROVE  Quiet \/ Queued \/ GivenUp \/ Ended \/ WriterWritesRender
<1>u. ASSUME UNCHANGED <<queueVars, wpc, item, present, hasWriter, last, gfxSent, view>>
      PROVE  Quiet
  <2>1. Serving' => Serving /\ gfxSent' = gfxSent /\ last'.frame \in {last.frame, NoFrame}
    BY <1>u DEF Serving, WriterUp
  <2> QED BY <1>u, <2>1, UntouchedIsQuiet DEF queueVars
<1>1. CASE UNCHANGED vars
  BY <1>1, <1>u DEF vars, threadVars, clientVars, hostVars
<1>2. CASE RenderFrame \/ RenderGraphics
  <2>1. UNCHANGED <<wpc, item, view>>
    BY <1>2 DEF RenderFrame, RenderGraphics, threadVars, hostVars
  <2>2. \/ RenderAndStream \/ (SendGraphics /\ present /\ hasWriter)
        \/ UNCHANGED <<queueVars, clientVars>>
    BY <1>2 DEF RenderFrame, RenderGraphics
  <2> QED BY <2>1, <2>2, <1>u, RenderKinds DEF clientVars
<1>3. CASE HandleEvent
  BY <1>3, EventKinds
<1>4. CASE AppDrawsGraphics \/ \E f \in Frames : AppChanges(f)
  BY <1>4, <1>u DEF AppDrawsGraphics, AppChanges, threadVars, clientVars, hostVars
<1>5. CASE AppSendsFile
  <2>1. /\ UNCHANGED <<wpc, item, view, present, hasWriter, last>> /\ present
        /\ gfxWanted > gfxSent
    BY <1>5 DEF AppSendsFile, threadVars, hostVars
  <2>2. CASE /\ hasWriter /\ PushOrdered(Transaction("file")) /\ gfxSent' = gfxSent + 1
    <3>1. Transaction("file") \in RenderMessage
      BY <2>1, MessagesOK DEF TypeOK
    <3>2. Pipeline' = Append(Pipeline, Transaction("file")) /\ Len(Pipeline) < 4
      BY <2>1, <2>2, <3>1, PushOrderedQueues
    <3>3. Committed(Transaction("file"))
      BY <2>1, <2>2 DEF Committed, Transaction
    <3> QED BY <2>1, <2>2, <3>1, <3>2, <3>3 DEF Queued, WriterUp
  <2>3. CASE UNCHANGED <<queueVars, gfxSent>>
    BY <2>1, <2>3, <1>u
  <2> QED BY <1>5, <2>2, <2>3 DEF AppSendsFile
<1>6. CASE AppNotifies
  <2>1. UNCHANGED <<wpc, item, view>>
    BY <1>6 DEF AppNotifies, threadVars, hostVars
  <2>2. CASE PushControl("notify") /\ UNCHANGED clientVars
    BY <2>1, <2>2, UntouchedIsQuiet DEF PushControl, clientVars, Serving, WriterUp
  <2>3. CASE RemoveClient
    BY <2>1, <2>3, RemoveGivesUp
  <2> QED BY <1>6, <2>2, <2>3 DEF AppNotifies
<1>w. ASSUME UNCHANGED clientVars, WriterUp' = WriterUp, view' = view,
             WriterUp => Pipeline' = Pipeline
      PROVE  Quiet
  BY <1>w DEF Quiet, clientVars, Serving
<1>7. CASE WriterTakesControl \/ WriterReportsDrained \/ WriterWritesControl
  <2>1. UNCHANGED <<clientVars, view, ordered, render>> /\ WriterUp /\ WriterUp'
    BY <1>7 DEF WriterTakesControl, RecvControl, WriterReportsDrained, WriterWritesControl,
                writerFrame, hostVars, queueVars, WriterUp
  <2>2. InHand' = InHand
    BY <1>7 DEF WriterTakesControl, WriterReportsDrained, WriterWritesControl, InHand
  <2> QED BY <2>1, <2>2, <1>w DEF Pipeline
<1>8. CASE WriterTakesRender
  <2>1. UNCHANGED <<clientVars, view>> /\ WriterUp /\ WriterUp'
    BY <1>8 DEF WriterTakesRender, writerFrame, hostVars, WriterUp
  <2>2. InHand = <<>> /\ InHand' = item'
    BY <1>8 DEF WriterTakesRender, InHand
  <2>3. ordered \in Seq(RenderMessage) /\ render \in Seq(RenderMessage) /\ Len(render) <= 1
    BY PipelineOK
  <2>4. <<>> \o ordered = ordered /\ <<>> \o render = render
    BY <2>3, ConcatEmptySeq
  <2>5. CASE RecvOrdered /\ item' = <<Head(ordered)>>
    <3>1. ordered # <<>> /\ ordered' = Tail(ordered) /\ render' = render
      BY <2>5 DEF RecvOrdered
    <3>2. <<Head(ordered)>> \o Tail(ordered) = ordered
      BY <2>3, <3>1
    <3> QED BY <2>1, <2>2, <2>4, <2>5, <3>1, <3>2, <1>w DEF Pipeline
  <2>6. CASE RecvRender /\ item' = <<Head(render)>>
    <3>1. ordered = <<>> /\ ordered' = <<>> /\ render # <<>> /\ render' = <<>>
      BY <2>6 DEF RecvRender
    <3>2. render = <<Head(render)>>
      BY <2>3, <3>1, SingleElement
    <3>3. render \o <<>> = render
      BY <2>3, ConcatEmptySeq
    <3>4. Pipeline = render /\ Pipeline' = render
      BY <2>2, <2>4, <2>6, <3>1, <3>2, <3>3 DEF Pipeline
    <3> QED BY <2>1, <3>4, <1>w
  <2> QED BY <1>8, <2>5, <2>6 DEF WriterTakesRender
<1>9. CASE WriterFails \/ WriterOutOfSenders
  BY <1>9 DEF WriterFails, WriterOutOfSenders, hostVars, WriterUp, Ended
<1>10. CASE WriterReportsFailure \/ WriterCloses
  <2>1. UNCHANGED <<clientVars, view>> /\ ~WriterUp /\ ~WriterUp'
    BY <1>10 DEF WriterReportsFailure, WriterCloses, writerFrame, hostVars, WriterUp
  <2>2. WriterUp' = WriterUp
    BY <2>1 DEF WriterUp
  <2> QED BY <2>1, <2>2, <1>w
<1>11. CASE \/ ReaderReportsEof \/ OthersReport \/ ClientHangsUp
            \/ \E e \in Sends : ReaderForwards(e)
  BY <1>11, <1>u DEF ReaderReportsEof, OthersReport, ClientHangsUp, ReaderForwards,
                     threadVars, clientVars, hostVars
<1>12. Writer => \/ WriterTakesControl \/ WriterReportsDrained \/ WriterWritesControl
                 \/ WriterTakesRender \/ WriterFails \/ WriterOutOfSenders
                 \/ WriterReportsFailure \/ WriterCloses \/ WriterWritesRender
  BY Zenon DEF Writer
<1> QED BY <1>1, <1>2, <1>3, <1>4, <1>5, <1>6, <1>7, <1>8, <1>9, <1>10, <1>11, <1>12, Zenon
        DEF Next, Server

(* Writing a render takes the oldest one off. *)
LEMMA WriteTakesHead ==
  ASSUME TypeOK, WriterWritesRender
  PROVE  /\ Pipeline # <<>> /\ Pipeline' = Tail(Pipeline) /\ item[1] = Head(Pipeline)
         /\ Pipeline' = ordered \o render
         /\ WriterUp /\ WriterUp' /\ UNCHANGED <<clientVars, ordered, render>>
<1>1. /\ InHand = item /\ item \in Seq(RenderMessage) /\ Len(item) = 1 /\ InHand' = <<>>
      /\ WriterUp /\ WriterUp' /\ UNCHANGED <<clientVars, ordered, render>>
  BY DEF TypeOK, ThreadTypeOK, WriterWritesRender, writerFrame, queueVars, InHand, WriterUp
<1>2. ordered \in Seq(RenderMessage) /\ render \in Seq(RenderMessage)
  BY PipelineOK
<1> DEFINE r == ordered \o render
<1>3. r \in Seq(RenderMessage)
  BY <1>2, ConcatProperties
<1>4. Pipeline = item \o r
  BY <1>1, <1>2, ConcatAssociative DEF Pipeline
<1>5. Pipeline' = r
  <2>1. <<>> \o ordered = ordered
    BY <1>2, ConcatEmptySeq
  <2> QED BY <1>1, <2>1 DEF Pipeline
<1> HIDE DEF r
<1>6. item \o r # <<>> /\ Tail(item \o r) = r /\ Head(item \o r) = item[1]
  <2>1. \E m \in RenderMessage : item = <<m>>
    BY <1>1
  <2>2. PICK m \in RenderMessage : item = <<m>>
    BY <2>1
  <2>3. <<m>> \o r # <<>> /\ Head(<<m>> \o r) = m
    BY <1>3
  <2>4. Tail(<<m>> \o r) = r
    <3>1. /\ <<m>> \in Seq(RenderMessage) /\ Len(<<m>>) = 1
          /\ <<m>> \o r \in Seq(RenderMessage) /\ Len(<<m>> \o r) = 1 + Len(r) /\ Len(r) \in Nat
          /\ \A i \in 2 .. 1 + Len(r) : (<<m>> \o r)[i] = r[i - 1]
      BY <1>3, ConcatProperties, LenProperties
    <3>2. /\ Tail(<<m>> \o r) \in Seq(RenderMessage) /\ Len(Tail(<<m>> \o r)) = Len(r)
          /\ \A i \in 1 .. Len(r) : Tail(<<m>> \o r)[i] = r[i]
      BY <2>3, <3>1, HeadTailProperties
    <3> QED BY <1>3, <3>2, SeqEqual
  <2> QED BY <2>2, <2>3, <2>4
<1>7. Pipeline # <<>> /\ Pipeline' = Tail(Pipeline) /\ item[1] = Head(Pipeline)
  BY <1>4, <1>5, <1>6
<1> QED BY <1>1, <1>5, <1>7 DEF r
----------------------------------------------------------------------------
(* Who is told to shut down is not written to any more.                    *)

LEMMA PartingStep == TypeOK /\ Parting /\ [Next]_vars => Parting'
<1> SUFFICES ASSUME TypeOK, Parting, [Next]_vars PROVE Parting'
  OBVIOUS
<1> DEFINE Plain == Seq({"notify", "cleanup"})
<1>0. /\ control \in Seq(ControlMessage) /\ Len(render) <= 1 /\ render \in Seq(RenderMessage)
      /\ gfxSent \in Nat /\ hasWriter \in BOOLEAN /\ gfxWanted \in Nat
  BY DEF TypeOK, QueueTypeOK, ClientTypeOK, AppTypeOK
<1>k. ASSUME UNCHANGED <<told, control, wpc, item, ordered, render>>,
             hasWriter' => hasWriter /\ gfxSent' = gfxSent
      PROVE  Parting'
  BY <1>k DEF Parting, Untold
<1>g. ASSUME ~hasWriter', ordered' = <<>> \/ (UNCHANGED ordered /\ (ordered = <<>> \/ Untold')),
             told' = told, wpc' = wpc, render' \in {render, <<>>}
      PROVE  Parting'
  BY <1>g DEF Parting
<1>r. ASSUME RemoveClient, UNCHANGED <<told, wpc, item>> PROVE Parting'
  <2>1. CASE hasWriter /\ CleanupAndDrop(TRUE) /\ gfxSent > 0
    BY <1>g, <1>r, <2>1 DEF CleanupAndDrop, RemoveClient
  <2>2. CASE hasWriter /\ CleanupAndDrop(FALSE) /\ ~(gfxSent > 0)
    <3>1. ordered = <<>>
      BY <2>2 DEF Parting
    <3> QED BY <1>g, <1>r, <2>2, <3>1 DEF CleanupAndDrop, RemoveClient
  <2>3. CASE ~hasWriter /\ UNCHANGED queueVars
    <3>1. ~hasWriter'
      BY <1>r DEF RemoveClient
    <3> QED BY <1>r, <2>3, <3>1, <1>k DEF queueVars
  <2>4. (gfxSent > 0) \in BOOLEAN
    OBVIOUS
  <2>5. hasWriter => CleanupAndDrop(gfxSent > 0)
    BY <1>r DEF RemoveClient
  <2>6. ~hasWriter => UNCHANGED queueVars
    BY <1>r DEF RemoveClient
  <2>7. CASE gfxSent > 0
    <3>1. (gfxSent > 0) = TRUE
      BY <2>7
    <3> QED BY <1>0, <2>1, <2>3, <2>5, <2>6, <2>7, <3>1
  <2>8. CASE ~(gfxSent > 0)
    <3>1. (gfxSent > 0) = FALSE
      BY <2>8
    <3> QED BY <1>0, <2>2, <2>3, <2>5, <2>6, <2>8, <3>1
  <2> QED BY <2>7, <2>8
<1>p. ASSUME NEW m \in RenderMessage, PutRender(m), hasWriter,
             UNCHANGED <<told, wpc, item, hasWriter>>, gfxSent' \in Nat, gfxSent <= gfxSent'
      PROVE  Parting'
  <2>1. Untold
    BY <1>p DEF Parting
  <2>2. Untold'
    BY <1>p, <2>1 DEF Untold, PutRender
  <2>3. hasWriter' /\ ordered' # <<>> => gfxSent' > 0
    BY <1>0, <1>p DEF Parting, PutRender
  <2> QED BY <2>2, <2>3 DEF Parting, Untold
<1>q. ASSUME UNCHANGED <<told, wpc, item, queueVars, hasWriter>>, gfxSent' \in Nat,
             gfxSent <= gfxSent'
      PROVE  Parting'
  BY <1>0, <1>q DEF Parting, Untold, queueVars
<1>1. CASE UNCHANGED vars
  BY <1>1, <1>k DEF vars, queueVars, threadVars, clientVars, hostVars
<1>2. CASE RenderFrame \/ RenderGraphics
  <2>1. UNCHANGED <<told, wpc, item>>
    BY <1>2 DEF RenderFrame, RenderGraphics, threadVars, hostVars
  <2>2. /\ FrameMessage \in RenderMessage
        /\ NextGfx # 0 => NextGfx = gfxSent + 1 /\ gfxWanted > gfxSent
                          /\ Transaction("graphics") \in RenderMessage
    <3>1. NextGfx # 0 => gfxWanted > gfxSent
      BY <1>0 DEF NextGfx
    <3> QED BY <3>1, MessagesOK DEF TypeOK
  <2>3. CASE gfxSent' = IF NextGfx = 0 THEN gfxSent ELSE NextGfx
    <3>1. gfxSent' \in Nat /\ gfxSent <= gfxSent'
      BY <1>0, <2>2, <2>3
    <3>2. CASE UNCHANGED <<queueVars, hasWriter>>
      BY <2>1, <3>1, <3>2, <1>q
    <3>3. CASE PutRender(FrameMessage) /\ hasWriter /\ UNCHANGED hasWriter
      BY <2>1, <2>2, <3>1, <3>3, <1>p
    <3>4. CASE PutRender(Transaction("graphics")) /\ NextGfx # 0 /\ hasWriter /\ UNCHANGED hasWriter
      BY <2>1, <2>2, <3>1, <3>4, <1>p
    <3> QED BY <1>2, <2>3, <3>2, <3>3, <3>4, <2>1, <1>r
        DEF RenderFrame, RenderGraphics, RenderAndStream, SendGraphics, DeferFullRender, clientVars
  <2>4. CASE RemoveClient
    BY <2>1, <2>4, <1>r
  <2>5. CASE UNCHANGED <<queueVars, hasWriter, gfxSent>>
    BY <2>1, <2>5, <1>k DEF queueVars
  <2>6. CASE NextGfx # 0 /\ gfxSent' = NextGfx
    BY <2>3, <2>6
  <2> QED BY <1>2, <2>3, <2>4, <2>5, <2>6
      DEF RenderFrame, RenderGraphics, RenderAndStream, SendGraphics, DeferFullRender, clientVars
<1>3. CASE HandleEvent
  <2>1. UNCHANGED <<told, wpc, item>>
    BY <1>3 DEF HandleEvent, hostVars
  <2>2. CASE RemoveClient
    BY <2>1, <2>2, <1>r
  <2>3. CASE UNCHANGED <<queueVars, hasWriter, gfxSent>>
    BY <2>1, <2>3, <1>k DEF queueVars
  <2>4. CASE ~hasWriter' /\ gfxSent' = 0 /\ CleanupAndShutdown(hasWriter, gfxSent > 0)
    <3>1. CASE ~hasWriter
      BY <2>1, <2>4, <3>1, <1>k DEF CleanupAndShutdown
    <3>2. CASE hasWriter /\ gfxSent > 0
      BY <2>1, <2>4, <3>2, <1>g DEF CleanupAndShutdown
    <3>3. CASE hasWriter /\ ~(gfxSent > 0)
      <4>1. ordered = <<>>
        BY <3>3 DEF Parting
      <4> QED BY <2>1, <2>4, <3>3, <4>1, <1>g DEF CleanupAndShutdown
    <3> QED BY <1>0, <3>1, <3>2, <3>3
  <2>5. Head(events) \in Event
    BY <1>3 DEF HandleEvent, TypeOK, ThreadTypeOK
  <2>6. \/ OnDrained \/ OnDisconnected \/ OnInput \/ OnFocus \/ OnDetachKey
        \/ UNCHANGED <<queueVars, clientVars, need>>
    BY <1>3, <2>5 DEF HandleEvent, Event
  <2> QED BY <2>2, <2>3, <2>4, <2>6 DEF OnDrained, OnDisconnected, OnInput, OnFocus, OnDetachKey,
             clientVars
<1>4. CASE AppDrawsGraphics \/ \E f \in Frames : AppChanges(f)
  BY <1>4, <1>k DEF AppDrawsGraphics, AppChanges, queueVars, threadVars, clientVars, hostVars
<1>5. CASE AppSendsFile
  <2>1. UNCHANGED <<told, wpc, item, hasWriter>>
    BY <1>5 DEF AppSendsFile, threadVars, hostVars
  <2>2. CASE hasWriter /\ PushOrdered(Transaction("file")) /\ gfxSent' = gfxSent + 1
    <3>1. Untold /\ Untold'
      BY <2>1, <2>2 DEF Parting, Untold, PushOrdered
    <3>2. gfxSent' > 0
      BY <1>0, <2>2
    <3> QED BY <3>1, <3>2 DEF Parting, Untold
  <2>3. CASE UNCHANGED <<queueVars, gfxSent>>
    BY <2>1, <2>3, <1>k DEF queueVars
  <2> QED BY <1>5, <2>2, <2>3 DEF AppSendsFile
<1>6. CASE AppNotifies
  <2>1. UNCHANGED <<told, wpc, item>>
    BY <1>6 DEF AppNotifies, threadVars, hostVars
  <2>2. CASE PushControl("notify") /\ UNCHANGED clientVars
    <3>1. /\ control' = Append(control, "notify") /\ UNCHANGED <<ordered, render>>
          /\ UNCHANGED <<hasWriter, gfxSent>> /\ hasWriter
      BY <1>6, <2>2 DEF AppNotifies, PushControl, clientVars
    <3>2. Untold
      BY <3>1 DEF Parting
    <3>3. Untold'
      BY <2>1, <3>1, <3>2 DEF Untold
    <3> QED BY <3>1, <3>3, <2>1 DEF Parting, Untold
  <2>3. CASE RemoveClient
    BY <2>1, <2>3, <1>r
  <2> QED BY <1>6, <2>2, <2>3 DEF AppNotifies
<1>w. ASSUME UNCHANGED clientVars, ordered' = ordered \/ ordered' = <<>> \/ ordered' = Tail(ordered),
             Untold => Untold', ordered = <<>> => ordered' = <<>>,
             told' /\ wpc' \in {"notify", "writeRender"} => render' = <<>>
      PROVE  Parting'
  <2>1. UNCHANGED <<hasWriter, gfxSent>>
    BY <1>w DEF clientVars
  <2>2. ~Untold' => ~hasWriter' /\ ordered' = <<>>
    BY <1>w, <2>1 DEF Parting
  <2>3. ordered' # <<>> => ordered # <<>>
    BY <1>w
  <2>4. hasWriter' /\ ordered' # <<>> => gfxSent' > 0
    BY <2>1, <2>3 DEF Parting
  <2> QED BY <1>w, <2>2, <2>4 DEF Parting
<1>7. CASE WriterTakesControl
  <2>1. /\ UNCHANGED <<clientVars, ordered, told>> /\ wpc' = "writeControl" /\ wpc = "recv"
        /\ control # <<>> /\ control' = Tail(control) /\ item' = <<Head(control)>>
    BY <1>7 DEF WriterTakesControl, RecvControl, writerFrame, hostVars
  <2>2. ASSUME Untold PROVE Untold'
    <3>1. control \in Seq({"notify", "cleanup"}) /\ ~told
      BY <2>2 DEF Untold
    <3>2. control' \in Seq({"notify", "cleanup"}) /\ Head(control) \in {"notify", "cleanup"}
      BY <2>1, <3>1, HeadTailProperties
    <3> QED BY <2>1, <3>1, <3>2 DEF Untold
  <2> QED BY <2>1, <2>2, <1>w
<1>8. CASE WriterTakesRender
  <2>1. /\ UNCHANGED <<clientVars, told, control>> /\ wpc' = "notify"
        /\ ordered' \in {ordered, Tail(ordered)}
        /\ ordered = <<>> => ordered' = <<>>
    BY <1>8 DEF WriterTakesRender, RecvOrdered, RecvRender, writerFrame, hostVars
  <2>2. Untold => Untold'
    BY <2>1 DEF Untold
  <2>3. ASSUME told PROVE render' = <<>>
    <3>1. ordered = <<>>
      BY <2>3 DEF Parting, Untold
    <3> QED BY <1>8, <3>1 DEF WriterTakesRender, RecvOrdered, RecvRender
  <2> QED BY <2>1, <2>2, <2>3, <1>w
<1>9. CASE WriterReportsDrained
  <2>1. UNCHANGED <<clientVars, ordered, render, told, control>> /\ wpc = "notify" /\ wpc' = "writeRender"
    BY <1>9 DEF WriterReportsDrained, writerFrame, hostVars, queueVars
  <2>2. told' => render' = <<>>
    BY <2>1 DEF Parting
  <2>3. Untold => Untold'
    BY <2>1 DEF Untold
  <2> QED BY <2>1, <2>2, <2>3, <1>w
<1>10. CASE WriterWritesControl
  <2>1. /\ UNCHANGED <<clientVars, ordered, control>> /\ wpc = "writeControl" /\ wpc' = "recv"
        /\ told' = (told \/ item[1] = "shutdown")
    BY <1>10 DEF WriterWritesControl, writerFrame, queueVars
  <2>2. Untold => Untold'
    BY <2>1 DEF Untold
  <2> QED BY <2>1, <2>2, <1>w
<1>11. CASE \/ WriterWritesRender \/ WriterFails \/ WriterReportsFailure \/ WriterOutOfSenders
            \/ WriterCloses
  <2>1. /\ UNCHANGED <<clientVars, control, told>> /\ wpc' \in {"recv", "failed", "closing", "done"}
        /\ ordered' \in {ordered, <<>>}
    BY <1>11 DEF WriterWritesRender, WriterFails, WriterReportsFailure, WriterOutOfSenders,
                 WriterCloses, CloseWriter, writerFrame, hostVars, queueVars
  <2>2. Untold => Untold'
    BY <2>1 DEF Untold
  <2> QED BY <2>1, <2>2, <1>w
<1>12. CASE \/ ReaderReportsEof \/ OthersReport \/ ClientHangsUp
            \/ \E e \in Sends : ReaderForwards(e)
  BY <1>12, <1>k DEF ReaderReportsEof, OthersReport, ClientHangsUp, ReaderForwards,
                     queueVars, threadVars, clientVars, hostVars
<1> QED BY <1>1, <1>2, <1>3, <1>4, <1>5, <1>6, <1>7, <1>8, <1>9, <1>10, <1>11, <1>12
        DEF Next, Server, Writer
----------------------------------------------------------------------------
(* The baseline is what the client will show.                              *)

(* v is what the server takes the client to show. *)
Baseline(v) == v.gfx = gfxSent /\ (last.frame # NoFrame => v.frame = last.frame)

(* What is committed fits what the client will show, and drawing it shows  *)
(* what was noted of it.                                                   *)
LEMMA CommittedFits ==
  ASSUME TypeOK, NEW v, Baseline(v), NEW m \in RenderMessage, Committed(m)
  PROVE  Fits(v, m) /\ Draw(v, m).gfx = gfxSent'
         /\ (last'.frame # NoFrame => Draw(v, m).frame = last'.frame)
<1>1. gfxSent \in Nat /\ v.gfx = gfxSent /\ (last.frame # NoFrame => v.frame = last.frame)
  BY DEF TypeOK, ClientTypeOK, Baseline
<1>2. Fits(v, m)
  BY <1>1 DEF Fits, Committed
<1>3. Draw(v, m).gfx = gfxSent'
  BY <1>1 DEF Draw, Committed
<1>4. last'.frame # NoFrame => Draw(v, m).frame = last'.frame
  <2>1. CASE m.kind = "frame"
    <3>1. last'.frame = m.frame /\ (m.full \/ (last.frame # NoFrame /\ m.base = last.frame))
      BY <2>1 DEF Committed
    <3>2. m.full \/ m.base = v.frame
      BY <1>1, <3>1
    <3> QED BY <2>1, <3>1, <3>2 DEF Draw
  <2>2. CASE m.kind # "frame"
    BY <1>1, <2>2 DEF Draw, Committed
  <2> QED BY <2>1, <2>2
<1> QED BY <1>2, <1>3, <1>4

(* Messages queued are drawn last, the one written is drawn first.         *)
LEMMA QueuedIsDrawnLast ==
  ASSUME TypeOK, NEW m \in RenderMessage, Pipeline' = Append(Pipeline, m), view' = view
  PROVE  Channel!Eventually(view', Pipeline') = Draw(Channel!Eventually(view, Pipeline), m)
<1>1. Pipeline \in Seq(RenderMessage)
  BY PipelineOK
<1>2. Channel!Eventually(view, Append(Pipeline, m)) = Draw(Channel!Eventually(view, Pipeline), m)
  BY <1>1, EventuallyAppend
<1> QED BY <1>2

LEMMA WrittenIsDrawnFirst ==
  ASSUME TypeOK, Pipeline # <<>>, Pipeline' = Tail(Pipeline), view' = Draw(view, Head(Pipeline))
  PROVE  Channel!Eventually(view', Pipeline') = Channel!Eventually(view, Pipeline)
<1>1. Pipeline \in Seq(RenderMessage)
  BY PipelineOK
<1>2. Channel!Eventually(view, Pipeline)
        = Channel!Eventually(Draw(view, Head(Pipeline)), Tail(Pipeline))
  BY <1>1, EventuallyFirst
<1> QED BY <1>2

LEMMA BaselineIs ==
  BaselineIsWhatClientShows <=> (Serving => Baseline(Channel!Eventually(view, Pipeline)))
  BY DEF BaselineIsWhatClientShows, Baseline

LEMMA BaselineStep ==
  TypeOK /\ Parting /\ BaselineIsWhatClientShows /\ [Next]_vars => BaselineIsWhatClientShows'
<1> SUFFICES ASSUME TypeOK, Parting, BaselineIsWhatClientShows, [Next]_vars, Serving'
             PROVE  LET v == Channel!Eventually(view', Pipeline')
                    IN v.gfx = gfxSent' /\ (last'.frame # NoFrame => v.frame = last'.frame)
  BY DEF BaselineIsWhatClientShows
<1> DEFINE v == Channel!Eventually(view, Pipeline)
           w == Channel!Eventually(view', Pipeline')
<1>0. Serving => Baseline(v)
  BY BaselineIs
<1> HIDE DEF v, w
<1>1. CASE Quiet
  <2>1. /\ Serving /\ gfxSent' = gfxSent /\ last'.frame \in {last.frame, NoFrame}
        /\ Pipeline' = Pipeline /\ view' = view
    BY <1>1 DEF Quiet, Serving
  <2>2. w = v
    BY <2>1 DEF v, w
  <2> QED BY <1>0, <2>1, <2>2 DEF Baseline, w
<1>2. CASE Queued
  <2>1. PICK m \in RenderMessage : /\ present /\ hasWriter /\ Committed(m) /\ WriterUp' = WriterUp
                                   /\ Pipeline' = Append(Pipeline, m) /\ view' = view
    BY <1>2 DEF Queued
  <2>2. Baseline(v)
    BY <1>0, <2>1 DEF Serving
  <2>3. w = Draw(v, m)
    BY <2>1, QueuedIsDrawnLast DEF v, w
  <2>4. Draw(v, m).gfx = gfxSent' /\ (last'.frame # NoFrame => Draw(v, m).frame = last'.frame)
    BY <2>1, <2>2, CommittedFits
  <2> QED BY <2>3, <2>4 DEF w
<1>3. CASE WriterWritesRender
  <2>1. /\ Pipeline # <<>> /\ Pipeline' = Tail(Pipeline) /\ item[1] = Head(Pipeline)
        /\ WriterUp /\ UNCHANGED clientVars
    BY <1>3, WriteTakesHead
  <2>2. Serving /\ UNCHANGED <<gfxSent, last>>
    BY <2>1 DEF Serving, clientVars
  <2>3. ~told
    BY <2>2 DEF Parting, Untold, Serving
  <2>4. view' = Draw(view, Head(Pipeline))
    BY <1>3, <2>1, <2>3 DEF WriterWritesRender
  <2>5. w = v
    BY <2>1, <2>4, WrittenIsDrawnFirst DEF v, w
  <2> QED BY <1>0, <2>2, <2>5 DEF Baseline, w
<1>4. CASE GivenUp \/ Ended
  BY <1>4 DEF GivenUp, Ended, Serving
<1> QED BY <1>1, <1>2, <1>3, <1>4, StepKinds

LEMMA StreamInit == Init => Parting /\ BaselineIsWhatClientShows
<1> SUFFICES ASSUME Init PROVE Parting /\ BaselineIsWhatClientShows
  OBVIOUS
<1>1. Parting
  <2>1. control = <<>> /\ wpc = "recv" /\ ~told /\ ordered = <<>>
    BY DEF Init, QueueInit
  <2>2. <<>> \in Seq({"notify", "cleanup"})
    OBVIOUS
  <2> QED BY <2>1, <2>2 DEF Parting, Untold
<1>2. Pipeline = <<>>
  <2>1. wpc = "recv" /\ ordered = <<>> /\ render = <<>>
    BY DEF Init, QueueInit
  <2>2. InHand = <<>>
    BY <2>1 DEF InHand
  <2>3. <<>> \o <<>> = <<>>
    OBVIOUS
  <2> QED BY <2>1, <2>2, <2>3 DEF Pipeline
<1>3. Channel!Eventually(view, Pipeline) = view
  <2>1. Channel!Eventually(view, <<>>) = view
    BY EventuallyNothing
  <2> QED BY <1>2, <2>1
<1>4. Baseline(view)
  BY DEF Init, Baseline
<1> QED BY <1>1, <1>3, <1>4, BaselineIs

(* Who is told to shut down is written to no more, and at most one render  *)
(* is still on its way to it.                                              *)
THEOREM PartingIsFinal == Spec => []Parting
  BY TypeCorrect, PartingStep, StreamInit, PTL DEF Spec

(* The frame a difference is encoded against, and the graphics cache, are  *)
(* what the client will show once the renders accepted are drawn, for any  *)
(* interleaving of the main loop and the writer thread.                    *)
THEOREM BaselineNeverAhead == Spec => []BaselineIsWhatClientShows
  BY TypeCorrect, PartingIsFinal, BaselineStep, StreamInit, PTL DEF Spec
----------------------------------------------------------------------------
(* The two lanes and the thread implement FrameChannel.                    *)

Pipe == IF WriterUp THEN Pipeline ELSE <<>>

LEMMA AcceptStep ==
  ASSUME TypeOK, BaselineIsWhatClientShows, Queued, WriterUp
  PROVE  Channel!Accept
<1>1. PICK m \in RenderMessage : /\ present /\ hasWriter /\ Committed(m) /\ WriterUp' = WriterUp
                                 /\ Pipeline' = Append(Pipeline, m) /\ view' = view
                                 /\ Len(Pipeline) < 4
  BY DEF Queued
<1>2. Pipe = Pipeline /\ Pipe' = Append(Pipeline, m)
  BY <1>1 DEF Pipe
<1>3. Len(Pipe') = Len(Pipe) + 1 /\ Pipe'[Len(Pipe')] = m
  <2>1. Pipeline \in Seq(RenderMessage)
    BY PipelineOK
  <2>2. Len(Append(Pipeline, m)) = Len(Pipeline) + 1
        /\ Append(Pipeline, m)[Len(Append(Pipeline, m))] = m
    BY <2>1, AppendProperties, LenProperties
  <2> QED BY <1>2, <2>2
<1>4. Fits(Channel!Eventually(view, Pipe), m)
  <2>1. Baseline(Channel!Eventually(view, Pipeline))
    BY <1>1, BaselineIs DEF Serving
  <2>2. Fits(Channel!Eventually(view, Pipeline), m)
    BY <1>1, <2>1, CommittedFits
  <2> QED BY <1>2, <2>2
<1>5. Len(Pipe) < 4 /\ Pipe' = Append(Pipe, m) /\ WriterUp' = WriterUp /\ view' = view
  BY <1>1, <1>2
<1>6. /\ WriterUp /\ Len(Pipe) < 4 /\ Len(Pipe') = Len(Pipe) + 1
      /\ LET n == Pipe'[Len(Pipe')]
         IN /\ n \in RenderMessage /\ Fits(Channel!Eventually(view, Pipe), n)
            /\ Pipe' = Append(Pipe, n)
      /\ UNCHANGED <<WriterUp, view>>
  BY <1>3, <1>4, <1>5
<1> QED BY <1>6 DEF Channel!Accept, Pipe

LEMMA ChannelStep ==
  ASSUME TypeOK, Parting, BaselineIsWhatClientShows, [Next]_vars
  PROVE  Channel!Next \/ UNCHANGED <<WriterUp, Pipe, view>>
<1>0. /\ Pipeline \in Seq(RenderMessage)
      /\ InHand \in Seq(RenderMessage) /\ ordered \in Seq(RenderMessage) /\ render \in Seq(RenderMessage)
      /\ Len(Pipeline) = Len(InHand) + Len(ordered) + Len(render) /\ Len(InHand) <= 1
  BY PipelineOK
<1>c. ASSUME NEW k \in 0 .. Len(Pipe), Pipe' = SubSeq(Pipe, 1, k), UNCHANGED <<WriterUp, view>>
      PROVE  Channel!CutShort
  <2>1. Pipe \in Seq(RenderMessage) /\ Len(Pipe) \in Nat
    <3>1. Pipe \in Seq(RenderMessage)
      BY <1>0 DEF Pipe
    <3> QED BY <3>1, LenProperties
  <2>2. Len(Pipe') = k
    BY <1>c, <2>1, SubSeqProperties
  <2>3. Len(Pipe') <= Len(Pipe) /\ Pipe' = SubSeq(Pipe, 1, Len(Pipe'))
    BY <1>c, <2>1, <2>2
  <2> QED BY <1>c, <2>3 DEF Channel!CutShort, Pipe
<1>1. CASE Quiet
  BY <1>1 DEF Quiet, Pipe
<1>2. CASE Queued /\ WriterUp
  BY <1>2, AcceptStep DEF Channel!Next
<1>3. CASE Queued /\ ~WriterUp
  BY <1>3 DEF Queued, Pipe
<1>4. CASE GivenUp
  <2>1. CASE WriterUp
    <3>1. Pipe = Pipeline /\ Pipe' = InHand /\ UNCHANGED <<WriterUp, view>>
      BY <1>4, <2>1 DEF GivenUp, Pipe
    <3>2. InHand = SubSeq(Pipeline, 1, Len(InHand)) /\ Len(InHand) \in 0 .. Len(Pipeline)
      <4>1. CASE InHand = <<>>
        BY <1>0, <4>1
      <4>2. CASE InHand # <<>>
        <5> DEFINE s == SubSeq(Pipeline, 1, Len(InHand))
        <5>1. Len(InHand) \in 1 .. Len(Pipeline) /\ Len(InHand) = 1
          <6>1. Len(InHand) \in Nat /\ Len(InHand) # 0 /\ Len(ordered) \in Nat /\ Len(render) \in Nat
            BY <1>0, <4>2, EmptySeq, LenProperties
          <6>2. Len(InHand) <= 1 /\ Len(Pipeline) = Len(InHand) + Len(ordered) + Len(render)
            BY <1>0
          <6>3. Len(InHand) = 1
            BY <1>0, <4>2, SingleElement
          <6>4. Len(Pipeline) \in Nat /\ Len(Pipeline) >= 1
            BY <6>1, <6>2, <6>3
          <6> QED BY <6>3, <6>4
        <5>2. Pipeline[1] = InHand[1]
          <6>1. (InHand \o ordered)[1] = InHand[1]
            BY <1>0, <5>1, ConcatProperties
          <6>2. InHand \o ordered \in Seq(RenderMessage) /\ Len(InHand \o ordered) >= 1
            BY <1>0, <5>1, ConcatProperties
          <6>3. ((InHand \o ordered) \o render)[1] = (InHand \o ordered)[1]
            BY <1>0, <6>2, ConcatProperties
          <6> QED BY <6>1, <6>3 DEF Pipeline
        <5>3. SubSeq(Pipeline, 1, 1) = <<Pipeline[1]>>
          <6>1. Pipeline \in Seq(RenderMessage) /\ Len(Pipeline) \in Nat /\ Len(Pipeline) >= 1
            BY <1>0, <5>1, LenProperties
          <6> QED BY <6>1, FirstElement
        <5>4. InHand = <<InHand[1]>>
          BY <1>0, <5>1
        <5> QED BY <5>1, <5>2, <5>3, <5>4
      <4> QED BY <4>1, <4>2
    <3>3. Len(InHand) \in 0 .. Len(Pipe) /\ Pipe' = SubSeq(Pipe, 1, Len(InHand))
      BY <3>1, <3>2
    <3> QED BY <3>1, <3>3, <1>c DEF Channel!Next
  <2>2. CASE ~WriterUp
    BY <1>4, <2>2 DEF GivenUp, Pipe
  <2> QED BY <2>1, <2>2
<1>5. CASE Ended
  <2>1. Channel!Close
    BY <1>5 DEF Ended, Channel!Close
  <2> QED BY <2>1 DEF Channel!Next
<1>6. CASE WriterWritesRender
  <2>1. /\ Pipeline # <<>> /\ Pipeline' = Tail(Pipeline) /\ item[1] = Head(Pipeline)
        /\ Pipeline' = ordered \o render /\ WriterUp /\ WriterUp'
    BY <1>6, WriteTakesHead
  <2>2. WriterUp' = WriterUp /\ Pipe = Pipeline /\ Pipe' = Pipeline'
    BY <2>1 DEF WriterUp, Pipe
  <2>3. CASE ~told
    <3>1. view' = Draw(view, Head(Pipe))
      BY <1>6, <2>1, <2>2, <2>3 DEF WriterWritesRender
    <3>2. Pipe # <<>> /\ Pipe' = Tail(Pipe)
      BY <2>1, <2>2
    <3>3. Channel!Deliver
      BY <2>1, <2>2, <3>1, <3>2 DEF Channel!Deliver, Pipe
    <3> QED BY <3>3 DEF Channel!Next
  <2>4. CASE told
    <3>1. ordered = <<>> /\ render = <<>> /\ view' = view
      BY <1>6, <2>4 DEF Parting, Untold, WriterWritesRender
    <3>2. Pipe' = <<>>
      <4>1. <<>> \o <<>> = <<>>
        OBVIOUS
      <4> QED BY <2>1, <2>2, <3>1, <4>1
    <3>3. SubSeq(Pipe, 1, 0) = <<>> /\ 0 \in 0 .. Len(Pipe)
      BY <1>0, <2>2
    <3> QED BY <2>2, <3>1, <3>2, <3>3, <1>c DEF Channel!Next
  <2> QED BY <2>3, <2>4
<1> QED BY <1>1, <1>2, <1>3, <1>4, <1>5, <1>6, StepKinds

LEMMA ChannelInit == Init => Channel!Init
<1> SUFFICES ASSUME Init PROVE Channel!Init
  OBVIOUS
<1>1. WriterUp = TRUE /\ view = [frame |-> NoFrame, gfx |-> 0]
  BY DEF Init, WriterUp
<1>2. Pipeline = <<>>
  <2>1. wpc = "recv" /\ ordered = <<>> /\ render = <<>>
    BY DEF Init, QueueInit
  <2>2. InHand = <<>>
    BY <2>1 DEF InHand
  <2>3. <<>> \o <<>> = <<>>
    OBVIOUS
  <2> QED BY <2>1, <2>2, <2>3 DEF Pipeline
<1> QED BY <1>1, <1>2 DEF Channel!Init

(* Renders reach the client in order, none skipped, each against what it   *)
(* then shows and at most four behind; giving it up cuts off the newest.   *)
THEOREM ImplementsChannel == Spec => ImplementsFrameChannel
<1>1. TypeOK /\ Parting /\ BaselineIsWhatClientShows /\ [Next]_vars
        => [Channel!Next]_<<WriterUp, IF WriterUp THEN Pipeline ELSE <<>>, view>>
  BY ChannelStep DEF Pipe
<1> QED BY <1>1, ChannelInit, TypeCorrect, PartingIsFinal, BaselineNeverAhead, PTL
        DEF Spec, ImplementsFrameChannel, Channel!Spec
================================================================================
