----------------------------- MODULE MCLiveHandoff -----------------------------
(* One handoff of two panes, with one crash and a third server.            *)
EXTENDS LiveHandoff
CONSTANTS p1, p2
================================================================================
