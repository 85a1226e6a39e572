------------------------------ MODULE FrameChannel ------------------------------
(***************************************************************************)
(* What the server may assume of the way renders reach one client,         *)
(* whatever lanes and threads carry them: they arrive in the order they    *)
(* were accepted, none is skipped while the channel is open, each is a     *)
(* difference against what the client will show by then, and a slow client *)
(* is never more than Lag renders behind.  Giving the client up may cut    *)
(* off the newest renders, never one in the middle.                        *)
(***************************************************************************)
EXTENDS Naturals, Sequences

CONSTANTS
  Message,        \* render messages
  Blank,          \* what a client shows at first
  Draw(_, _),     \* what it shows after one more message
  Fits(_, _),     \* a message may be drawn over what is shown
  Lag             \* most renders accepted and not yet drawn

VARIABLES open, pipe, view

(* What the client will show once everything accepted is drawn. *)
Eventually(v, p) ==
  LET shown[n \in 0 .. Len(p)] == IF n = 0 THEN v ELSE Draw(shown[n - 1], p[n])
  IN  shown[Len(p)]

Init == open = TRUE /\ pipe = <<>> /\ view = Blank

(* In Accept and CutShort what is appended, and what is left, is read off   *)
(* pipe' instead of searched for.                                           *)
Accept ==
  /\ open /\ Len(pipe) < Lag /\ Len(pipe') = Len(pipe) + 1
  /\ LET m == pipe'[Len(pipe')]
     IN /\ m \in Message /\ Fits(Eventually(view, pipe), m)
        /\ pipe' = Append(pipe, m)
  /\ UNCHANGED <<open, view>>

Deliver ==
  /\ open /\ pipe # <<>>
  /\ view' = Draw(view, Head(pipe)) /\ pipe' = Tail(pipe)
  /\ UNCHANGED open

CutShort ==
  /\ Len(pipe') <= Len(pipe) /\ pipe' = SubSeq(pipe, 1, Len(pipe'))
  /\ UNCHANGED <<open, view>>

Close ==
  /\ open /\ open' = FALSE /\ pipe' = <<>>
  /\ UNCHANGED view

Next == CutShort \/ Accept \/ Deliver \/ Close
Spec == Init /\ [][Next]_<<open, pipe, view>>
================================================================================
