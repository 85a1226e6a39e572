------------------------------ MODULE LiveHandoff ------------------------------
(***************************************************************************)
(* A live handoff: the running server gives its panes to an import server  *)
(* that it spawns, without the panes' processes noticing                   *)
(* (src/src/server/headless.rs perform_live_handoff and                    *)
(* run_handoff_import_server, src/src/server/handoff.rs).  Both servers    *)
(* take and leave the session's sockets as SessionSockets describes, while *)
(* a third may be started in the moment neither of them has the sockets.   *)
(*                                                                         *)
(* One handoff is modelled, of a session whose panes fit in it; what the   *)
(* manifest says of them, and its validation, is one step that may fail.   *)
(* A read of the handoff stream may time out whenever its line is missing. *)
(***************************************************************************)
EXTENDS SessionSockets, Sequences

CONSTANTS Panes, Old, New, Third

ASSUME HandoffAssumption ==
  Servers = {Old, New, Third} /\ Old # New /\ New # Third /\ Third # Old

VARIABLES
  old,           \* how far perform_live_handoff has come
  new,           \* how far run_handoff_import_server has come
  oldIo, newIo,  \* each pane's PTY actor in either server
  dups,          \* the old server holds duplicates of the panes' descriptors
  fds,           \* the import server has received the descriptors
  toOld, toNew,  \* the lines sent each way on the handoff stream
  committed,     \* history: report_committed has written its line
  excused        \* history: a server crashed while the panes were its own, or
                 \* the commit reached an import server that was giving up

socketVars  == <<stage, at, file, open, ident, crashes>>
history     == <<committed, excused>>
handoffVars == <<old, new, oldIo, newIo, dups, fds, toOld, toNew, history>>
allVars == <<vars, handoffVars>>

----------------------------------------------------------------------------
HandoffInit ==
  /\ stage = [s \in Servers |-> IF s = Old THEN "up" ELSE "down"]
  /\ at = [s \in Servers |-> IF s = Old THEN "client" ELSE "api"]
  /\ file = [k \in Sockets |-> Old] /\ open = [k \in Sockets |-> {Old}]
  /\ ident = [s \in Servers |-> [k \in Sockets |-> IF s = Old THEN Old ELSE None]]
  /\ crashes = 0 /\ overlap = FALSE
  /\ old = "serving" /\ new = "none"
  /\ oldIo = [p \in Panes |-> "running"] /\ newIo = [p \in Panes |-> "none"]
  /\ dups = FALSE /\ fds = FALSE
  /\ toOld = <<>> /\ toNew = <<>> /\ committed = FALSE /\ excused = FALSE

OldLives == old \notin {"gone", "crashed"}
NewLives == new \notin {"none", "gone", "crashed"}

(* The next line is there; it is read. *)
OldReads(line) == toOld # <<>> /\ Head(toOld) = line /\ toOld' = Tail(toOld)
NewReads(line) == toNew # <<>> /\ Head(toNew) = line /\ toNew' = Tail(toNew)

----------------------------------------------------------------------------
(* The old server.                                                         *)

(* The handoff socket is bound, clients are told and disconnected. *)
OldBegins ==
  /\ old = "serving" /\ stage[Old] = "up" /\ new = "none"
  /\ old' = "pausing"
  /\ UNCHANGED <<socketVars, new, oldIo, newIo, dups, fds, toOld, toNew, history>>

OldPauses(p) ==
  /\ old = "pausing" /\ oldIo[p] = "running"
  /\ oldIo' = [oldIo EXCEPT ![p] = "paused"]
  /\ UNCHANGED <<socketVars, old, new, newIo, dups, fds, toOld, toNew, history>>

(* The import server is spawned and the descriptors are duplicated. *)
OldSpawns ==
  /\ old = "pausing" /\ \A p \in Panes : oldIo[p] # "running"
  /\ old' = "accepting" /\ new' = "connecting" /\ dups' = TRUE
  /\ UNCHANGED <<socketVars, oldIo, newIo, fds, toOld, toNew, history>>

(* Mutant: the descriptors follow the manifest before its verdict. *)
OldSendsManifest_AndFds ==
  /\ old = "accepting" /\ OldReads("token")
  /\ old' = "validating" /\ toNew' = toNew \o <<"manifest", "fds">>
  /\ UNCHANGED <<socketVars, new, oldIo, newIo, dups, fds, history>>

(* accept_and_validate_on: the token, then the manifest, then its verdict. *)
OldSendsManifest ==
  /\ old = "accepting" /\ OldReads("token")
  /\ old' = "validating" /\ toNew' = Append(toNew, "manifest")
  /\ UNCHANGED <<socketVars, new, oldIo, newIo, dups, fds, history>>

(* send_fds_and_wait_restored: the descriptors go, ... *)
OldSendsFds ==
  /\ old = "validating" /\ OldReads("validated")
  /\ old' = "restoring" /\ toNew' = Append(toNew, "fds")
  /\ UNCHANGED <<socketVars, new, oldIo, newIo, dups, fds, history>>

(* ... and the duplicates are closed once the import has restored them. *)
OldSeesRestored ==
  /\ old = "restoring" /\ OldReads("restored")
  /\ old' = "leavingApi" /\ dups' = FALSE
  /\ UNCHANGED <<socketVars, new, oldIo, newIo, fds, toNew, history>>

(* The public sockets are removed, the API socket first. *)
OldLeavesSocket(k) ==
  /\ old = IF k = "api" THEN "leavingApi" ELSE "leavingClient"
  /\ old' = IF k = "api" THEN "leavingClient" ELSE "readying"
  /\ file' = FilesWithout(Old, {k})
  /\ UNCHANGED <<stage, at, open, ident, crashes, new, oldIo, newIo, dups, fds, toOld, toNew,
                 history>>

OldSeesReady ==
  /\ old = "readying" /\ OldReads("ready")
  /\ old' = "committing"
  /\ UNCHANGED <<socketVars, new, oldIo, newIo, dups, fds, toNew, history>>

(* Mutant: the commit is taken as written though nobody is there to read it. *)
OldCommits_IgnoresError ==
  /\ old = "committing"
  /\ old' = "releasing" /\ toNew' = Append(toNew, "committed") /\ committed' = TRUE
  /\ excused' = (excused \/ new = "closing")
  /\ UNCHANGED <<socketVars, new, oldIo, newIo, dups, fds, toOld>>

(* report_committed: the line is written if the other end is still open. *)
OldCommits ==
  /\ old = "committing" /\ NewLives
  /\ old' = "releasing" /\ toNew' = Append(toNew, "committed") /\ committed' = TRUE
  /\ excused' = (excused \/ new = "closing")
  /\ UNCHANGED <<socketVars, new, oldIo, newIo, dups, fds, toOld>>

(* preserve_for_handoff. *)
OldReleases(p) ==
  /\ old = "releasing" /\ oldIo[p] # "released"
  /\ oldIo' = [oldIo EXCEPT ![p] = "released"]
  /\ UNCHANGED <<socketVars, old, new, newIo, dups, fds, toOld, toNew, history>>

(* wait_owned_ack, whatever comes of it, and finish_live_handoff_shutdown. *)
OldFinishes ==
  /\ old = "releasing" /\ \A p \in Panes : oldIo[p] = "released"
  /\ old' = "gone" /\ End(Old, FilesWithout(Old, Sockets))
  /\ UNCHANGED <<new, oldIo, newIo, dups, fds, toOld, toNew, history>>

----------------------------------------------------------------------------
(* The handoff fails in the old server.                                    *)

(* cleanup_failed_import_child: killed and reaped, its files left behind. *)
KillImport ==
  /\ new' = IF NewLives THEN "crashed" ELSE new
  /\ newIo' = [p \in Panes |-> "none"] /\ fds' = FALSE
  /\ toOld' = <<>> /\ toNew' = <<>>
  /\ stage' = [stage EXCEPT ![New] = IF Alive(New) THEN "crashed" ELSE @]
  /\ open' = [k \in Sockets |-> open[k] \ {New}]

(* A pane cannot be paused, or the import server cannot be spawned. *)
OldFailsToPause ==
  /\ old = "pausing"
  /\ old' = "rollback"
  /\ UNCHANGED <<socketVars, new, oldIo, newIo, dups, fds, toOld, toNew, history>>

(* The import server fails or is late before the sockets are removed. *)
OldGivesUpEarly ==
  /\ old \in {"accepting", "validating", "restoring"}
  /\ old' = "rollback" /\ dups' = FALSE /\ KillImport
  /\ UNCHANGED <<at, file, ident, crashes, oldIo, history>>

(* Mutant: the sockets are not taken again. *)
OldGivesUpLate_NoRestore ==
  /\ old = "readying" \/ (old = "committing" /\ ~NewLives)
  /\ old' = "rollback" /\ KillImport
  /\ UNCHANGED <<at, file, ident, crashes, oldIo, dups, history>>

(* It fails or is late after that, or is gone when the commit is written. *)
OldGivesUpLate ==
  /\ old = "readying" \/ (old = "committing" /\ ~NewLives)
  /\ old' = "waiting" /\ KillImport
  /\ UNCHANGED <<at, file, ident, crashes, oldIo, dups, history>>

(* wait_for_old_public_sockets_to_close, and the sockets are taken again. *)
OldRestores ==
  /\ old = "waiting" /\ ~\E k \in Sockets : Listening(k)
  /\ old' = "restoringSockets"
  /\ stage' = [stage EXCEPT ![Old] = "probe"] /\ at' = [at EXCEPT ![Old] = "api"]
  /\ UNCHANGED <<file, open, ident, crashes, new, oldIo, newIo, dups, fds, toOld, toNew, history>>

OldTakesSockets ==
  /\ old = "restoringSockets" /\ TakeSockets(Old)
  /\ old' = IF stage'[Old] = "up" THEN "rollback" ELSE old
  /\ UNCHANGED <<new, oldIo, newIo, dups, fds, toOld, toNew, history>>

(* The wait times out or a socket is taken: the old server goes on without *)
(* its public sockets.                                                     *)
OldCannotRestore ==
  /\ \/ old = "waiting" /\ (\E k \in Sockets : Listening(k)) /\ UNCHANGED file
     \/ old = "restoringSockets" /\ Blocked(Old) /\ file' = FilesWithout(Old, {"api"})
  /\ old' = "rollback" /\ stage' = [stage EXCEPT ![Old] = "gone"]
  /\ UNCHANGED <<at, open, ident, crashes, new, oldIo, newIo, dups, fds, toOld, toNew, history>>

(* Mutant: only the failed pane, not those already paused, is resumed. *)
OldRollsBack_ForgetsPanes ==
  /\ old = "rollback" /\ old' = "serving"
  /\ UNCHANGED <<socketVars, new, oldIo, newIo, dups, fds, toOld, toNew, history>>

(* rollback_handoff_before_commit. *)
OldRollsBack ==
  /\ old = "rollback" /\ old' = "serving"
  /\ oldIo' = [p \in Panes |-> "running"]
  /\ UNCHANGED <<socketVars, new, newIo, dups, fds, toOld, toNew, history>>

OldStep ==
  \/ OldBegins \/ OldSpawns \/ OldSendsManifest \/ OldSendsFds \/ OldSeesRestored
  \/ OldSeesReady \/ OldCommits \/ OldFinishes
  \/ \E p \in Panes : OldPauses(p) \/ OldReleases(p)
  \/ \E k \in Sockets : OldLeavesSocket(k)
  \/ OldFailsToPause \/ OldGivesUpEarly \/ OldGivesUpLate
  \/ OldRestores \/ OldTakesSockets \/ OldCannotRestore \/ OldRollsBack

----------------------------------------------------------------------------
(* The import server.                                                      *)

(* A line is written, if the old server's end is open. *)
NewTells(line) == OldLives /\ toOld' = Append(toOld, line)

NewConnects ==
  /\ new = "connecting" /\ new' = "validating" /\ NewTells("token")
  /\ UNCHANGED <<socketVars, old, oldIo, newIo, dups, fds, toNew, history>>

NewValidates ==
  /\ new = "validating" /\ NewReads("manifest")
  /\ new' = "receiving" /\ NewTells("validated")
  /\ UNCHANGED <<socketVars, old, oldIo, newIo, dups, fds, history>>

NewReceives ==
  /\ new = "receiving" /\ NewReads("fds")
  /\ new' = "importing" /\ fds' = TRUE
  /\ UNCHANGED <<socketVars, old, oldIo, newIo, dups, toOld, history>>

(* Mutant: the imported panes are read at once. *)
NewImports_Reading ==
  /\ new = "importing"
  /\ new' = "waiting" /\ newIo' = [p \in Panes |-> "running"] /\ NewTells("restored")
  /\ UNCHANGED <<socketVars, old, oldIo, dups, fds, toNew, history>>

(* App::new_from_handoff: every actor starts quiesced. *)
NewImports ==
  /\ new = "importing"
  /\ new' = "waiting" /\ newIo' = [p \in Panes |-> "paused"] /\ NewTells("restored")
  /\ UNCHANGED <<socketVars, old, oldIo, dups, fds, toNew, history>>

(* wait_for_old_public_sockets_to_close. *)
NewStarts ==
  /\ new = "waiting" /\ ~\E k \in Sockets : Listening(k)
  /\ new' = "starting" /\ stage' = [stage EXCEPT ![New] = "probe"]
  /\ UNCHANGED <<at, file, open, ident, crashes, old, oldIo, newIo, dups, fds, toOld, toNew,
                 history>>

NewTakesSockets ==
  /\ new = "starting" /\ TakeSockets(New)
  /\ UNCHANGED handoffVars

NewReportsReady ==
  /\ new = "starting" /\ stage[New] = "up"
  /\ new' = "ready" /\ NewTells("ready")
  /\ UNCHANGED <<socketVars, old, oldIo, newIo, dups, fds, toNew, history>>

(* wait_committed and assume_handoff_ownership. *)
NewAssumes ==
  /\ new = "ready" /\ NewReads("committed")
  /\ new' = "unpausing"
  /\ UNCHANGED <<socketVars, old, oldIo, newIo, dups, fds, toOld, history>>

(* unpause_handoff_readers. *)
NewUnpauses(p) ==
  /\ new = "unpausing" /\ newIo[p] = "paused"
  /\ newIo' = [newIo EXCEPT ![p] = "running"]
  /\ UNCHANGED <<socketVars, old, new, oldIo, dups, fds, toOld, toNew, history>>

(* report_owned, which may fail, and the server runs. *)
NewServes ==
  /\ new = "unpausing" /\ \A p \in Panes : newIo[p] = "running"
  /\ new' = "serving" /\ (NewTells("owned") \/ (~OldLives /\ UNCHANGED toOld))
  /\ UNCHANGED <<socketVars, old, oldIo, newIo, dups, fds, toNew, history>>

(* An error before the commit, or no commit within READY_TIMEOUT: the app  *)
(* and the server are dropped, the panes' processes preserved, ...         *)
Dropped ==
  /\ new' = "closing" /\ fds' = FALSE /\ newIo' = [p \in Panes |-> "none"]
  /\ IF Alive(New) THEN End(New, FilesWithout(New, Sockets)) ELSE UNCHANGED socketVars
  /\ UNCHANGED <<old, oldIo, dups, toOld, toNew, history>>

NewFails ==
  /\ \/ new \in {"connecting", "importing", "waiting"}
     \/ new \in {"validating", "receiving"} /\ (toNew # <<>> \/ ~OldLives)
     \/ new = "starting" /\ (Blocked(New) \/ (stage[New] = "up" /\ ~OldLives))
  /\ Dropped

NewMissesCommit == new = "ready" /\ toNew = <<>> /\ Dropped

(* ... and only then its end of the stream is closed. *)
NewExits ==
  /\ new = "closing" /\ new' = "gone"
  /\ UNCHANGED <<socketVars, old, oldIo, newIo, dups, fds, toOld, toNew, history>>

NewStep ==
  \/ NewConnects \/ NewValidates \/ NewReceives \/ NewImports \/ NewStarts \/ NewTakesSockets
  \/ NewReportsReady \/ NewAssumes \/ NewServes
  \/ \E p \in Panes : NewUnpauses(p)
  \/ NewFails \/ NewMissesCommit \/ NewExits

----------------------------------------------------------------------------
(* Crashes, and the third server.                                          *)

OldCrashes ==
  /\ OldLives /\ crashes < MaxCrashes /\ crashes' = crashes + 1
  /\ old' = "crashed" /\ dups' = FALSE
  /\ oldIo' = [p \in Panes |-> "released"]
  /\ stage' = [stage EXCEPT ![Old] = "crashed"]
  /\ open' = [k \in Sockets |-> open[k] \ {Old}]
  /\ excused' = (excused \/ ~committed)
  /\ UNCHANGED <<at, file, ident, new, newIo, fds, toOld, toNew, committed>>

NewCrashes ==
  /\ NewLives /\ crashes < MaxCrashes /\ crashes' = crashes + 1
  /\ new' = "crashed" /\ fds' = FALSE /\ newIo' = [p \in Panes |-> "none"]
  /\ stage' = [stage EXCEPT ![New] = IF Alive(New) THEN "crashed" ELSE @]
  /\ open' = [k \in Sockets |-> open[k] \ {New}]
  /\ excused' = (excused \/ committed)
  /\ UNCHANGED <<at, file, ident, old, oldIo, dups, toOld, toNew, committed>>

(* auto_detect_launch: started when the client socket does not answer. *)
ThirdStarts == ~Listening("client") /\ Start(Third) /\ UNCHANGED handoffVars
ThirdStep ==
  /\ StartStep(Third) \/ Stop(Third) \/ Stopped(Third)
  /\ UNCHANGED handoffVars

HandoffNext ==
  (OldStep \/ NewStep \/ OldCrashes \/ NewCrashes \/ ThirdStarts \/ ThirdStep) /\ Watch

(* Each process runs; a handoff begun is not stopped for ever. *)
HandoffFairness ==
  /\ WF_allVars(OldStep /\ old # "serving" /\ Watch)
  /\ WF_allVars(NewStep /\ Watch)

HandoffSpec == HandoffInit /\ [][HandoffNext]_allVars /\ HandoffFairness

----------------------------------------------------------------------------
(* Properties.                                                             *)

Lines == {"token", "validated", "restored", "ready", "owned", "manifest", "fds", "committed"}
Wire == {<<>>} \cup {<<l>> : l \in Lines}   \* each line is answered before the next

HandoffTypeOK ==
  /\ stage \in [Servers -> Stages] /\ at \in [Servers -> Sockets]
  /\ file \in [Sockets -> Servers \cup {None}] /\ open \in [Sockets -> SUBSET Servers]
  /\ ident \in [Servers -> [Sockets -> Servers \cup {None}]]
  /\ crashes \in 0 .. MaxCrashes /\ overlap \in BOOLEAN
  /\ old \in {"serving", "pausing", "accepting", "validating", "restoring", "leavingApi",
             "leavingClient", "readying", "committing", "releasing", "waiting",
             "restoringSockets", "rollback", "gone", "crashed"}
  /\ new \in {"none", "connecting", "validating", "receiving", "importing", "waiting",
             "starting", "ready", "unpausing", "serving", "closing", "gone", "crashed"}
  /\ oldIo \in [Panes -> {"running", "paused", "released"}]
  /\ newIo \in [Panes -> {"none", "paused", "running"}]
  /\ dups \in BOOLEAN /\ fds \in BOOLEAN /\ committed \in BOOLEAN /\ excused \in BOOLEAN
  /\ toOld \in Wire /\ toNew \in Wire

(* The two servers never read one pane's PTY at the same time, whatever    *)
(* fails and whoever crashes.                                              *)
OneReader == \A p \in Panes : oldIo[p] = "running" => newIo[p] # "running"

(* Some process has the pane's PTY open; without that its process dies.    *)
Held(p) ==
  \/ OldLives /\ (oldIo[p] # "released" \/ dups)
  \/ NewLives /\ (fds \/ \E i \in 1 .. Len(toNew) : toNew[i] = "fds")

(* No pane is lost by a handoff that fails, at whatever step: only when    *)
(* the server it belongs to crashes, the old one until the commit is       *)
(* written and the import server from then on, or when the import server   *)
(* has just given up, after READY_TIMEOUT, on the commit being written.    *)
PaneKept == \A p \in Panes : Held(p) \/ excused

(* Both: a pane always has a keeper, and never two that read it.           *)
PanesHaveOneKeeper == OneReader /\ PaneKept

(* Server s is the one that the session's sockets lead to. *)
Reached(s) == stage[s] = "up" /\ \A k \in Sockets : file[k] = s

(* Whichever server serves the panes after a handoff, completed or rolled  *)
(* back, is reached through both sockets, unless a third server took the   *)
(* API socket while neither had it.                                        *)
ServingIsReachable ==
  \/ overlap
  \/ /\ old = "serving" => Reached(Old) \/ Third \in open["api"] \/ ident[Third]["api"] # None
     /\ new = "serving" => Reached(New)

(* A pane that is paused is read again, by one server or the other: a      *)
(* handoff always ends, and one that fails resumes every pane.             *)
PanesResume ==
  \A p \in Panes :
    (oldIo[p] = "paused") ~> (oldIo[p] = "running" \/ newIo[p] = "running" \/ ~Held(p))

Reader(p) == IF oldIo[p] = "running" THEN "old" ELSE IF newIo[p] = "running" THEN "new" ELSE "none"

PO == INSTANCE PaneOwnership WITH reader <- [p \in Panes |-> Reader(p)], committed <- committed

(* The protocol implements PaneOwnership.                                  *)
ImplementsPaneOwnership == PO!Spec
================================================================================
