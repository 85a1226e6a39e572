----------------------------- MODULE PaneOwnership -----------------------------
(* What a live handoff promises of the panes: each pane's PTY is read by   *)
(* one server at a time; the old server stops reading all of them before   *)
(* the handoff is committed, and either resumes all of them, or commits    *)
(* and never reads one again; the new server reads none before that.       *)
CONSTANTS Panes
VARIABLES
  reader,     \* reader[p]: "old", "new", or "none" while nobody reads
  committed   \* the panes are the new server's

vars == <<reader, committed>>

Init == reader = [p \in Panes |-> "old"] /\ committed = FALSE

Pause(p) ==
  /\ reader[p] = "old" /\ reader' = [reader EXCEPT ![p] = "none"]
  /\ UNCHANGED committed

Resume ==
  /\ ~committed /\ reader' = [p \in Panes |-> "old"]
  /\ UNCHANGED committed

Commit ==
  /\ \A p \in Panes : reader[p] = "none"
  /\ committed' = TRUE
  /\ UNCHANGED reader

Take(p) ==
  /\ committed /\ reader[p] = "none" /\ reader' = [reader EXCEPT ![p] = "new"]
  /\ UNCHANGED committed

(* A server ends: nobody reads what it read. *)
Ends(s) ==
  /\ reader' = [p \in Panes |-> IF reader[p] = s THEN "none" ELSE reader[p]]
  /\ UNCHANGED committed

Next ==
  \/ \E p \in Panes : Pause(p) \/ Take(p)
  \/ Resume \/ Commit \/ Ends("old") \/ Ends("new")

Spec == Init /\ [][Next]_vars
================================================================================
