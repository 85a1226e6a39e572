------------------------------ MODULE AgentWatchers -----------------------------
(***************************************************************************)
(* A pane, the hub, and the watchers of its agent: a connection that waits *)
(* (AgentWait) and one that subscribes (StatusSubscription).  Watchers do  *)
(* not know of each other; the instances have one of them at a time.       *)
(***************************************************************************)
EXTENDS AgentWait, StatusSubscription

watcherVars == <<hubVars, waitVars, waitHistory, subVars>>

(* Nothing of the main loop is observed once the watcher is done. *)
Watched == ~Finished \/ ~Ended

(* One of them asks; the other has left. *)
WatchersInit ==
  /\ HubInit
  /\ \/ WaitInit /\ SubIdle("ended") /\ filter = None /\ once = FALSE
     \/ SubInit /\ request = (CHOOSE r \in Requests : TRUE) /\ WaitIdle("left")

WatchersNext ==
  \/ HubStep /\ Watched /\ HubObserved /\ UNCHANGED <<waitVars, subVars>>
  \/ WaitStep /\ WaitHistory /\ UNCHANGED <<hubVars, subVars>>
  \/ SubStep /\ UNCHANGED <<hubVars, waitVars, waitHistory>>

WatchersSpec ==
  /\ WatchersInit /\ [][WatchersNext]_watcherVars
  /\ HubFairness /\ WaitFairness /\ SubFairness

WatchersTypeOK == HubTypeOK /\ WaitTypeOK /\ SubTypeOK
=============================================================================
