----------------------------- MODULE SessionSockets -----------------------------
(***************************************************************************)
(* The two socket files by which a session's server is reached: the API    *)
(* socket and the client socket.  A server takes them in that order when   *)
(* it starts (src/src/server/headless.rs run_server, HeadlessServer::new;  *)
(* src/src/api/server.rs start_server; src/src/ipc.rs) and leaves them     *)
(* when it stops; a server that crashes leaves both files behind.  Nothing *)
(* but these files keeps two servers from running one session.             *)
(*                                                                         *)
(* A server is one process.  A file is known by the process that bound it; *)
(* its inode is not reused while that process still has the socket open.   *)
(***************************************************************************)
EXTENDS Naturals, FiniteSets

CONSTANTS
  Servers,      \* server processes
  None,
  MaxCrashes    \* bound on the servers that crash

ASSUME SocketsAssumption ==
  /\ None \notin Servers /\ MaxCrashes \in Nat

Sockets == {"api", "client"}

VARIABLES
  stage,    \* how far each server has come
  at,       \* the socket a starting server is taking
  file,     \* the server that bound the file at each path, or None
  open,     \* open[k]: the servers with a listener open on socket k
  ident,    \* ident[s][k]: the identity server s has recorded of its file
  crashes,  \* servers crashed so far
  overlap   \* history: two servers were starting at once after a crash

vars == <<stage, at, file, open, ident, crashes, overlap>>

----------------------------------------------------------------------------
Starting(s) == stage[s] \in {"probe", "clear", "bind", "identify"}
Starters == {s \in Servers : Starting(s)}
Alive(s) == Starting(s) \/ stage[s] \in {"up", "stopping"}

(* A connection to the path of socket k is accepted. *)
Listening(k) == file[k] # None /\ file[k] \in open[k]

Init ==
  /\ stage = [s \in Servers |-> "down"] /\ at = [s \in Servers |-> "api"]
  /\ file = [k \in Sockets |-> None]
  /\ open = [k \in Sockets |-> {}]
  /\ ident = [s \in Servers |-> [k \in Sockets |-> None]]
  /\ crashes = 0 /\ overlap = FALSE

(* herdr server, or a client that found the client socket closed. *)
Start(s) ==
  /\ stage[s] = "down"
  /\ stage' = [stage EXCEPT ![s] = "probe"] /\ at' = [at EXCEPT ![s] = "api"]
  /\ UNCHANGED <<file, open, ident, crashes>>

(* Mutant: the file is removed whoever bound it. *)
FilesWithout_Anyones(s, ks) == [k \in Sockets |-> IF k \in ks THEN None ELSE file[k]]

(* remove_socket_file_if_owned, for the sockets of ks. *)
FilesWithout(s, ks) ==
  [k \in Sockets |-> IF k \in ks /\ file[k] # None /\ file[k] = ident[s][k] THEN None ELSE file[k]]

(* Mutant: a listener outlives the server. *)
End_KeepsListeners(s, f) ==
  /\ stage' = [stage EXCEPT ![s] = "gone"]
  /\ file' = f
  /\ UNCHANGED <<at, open, ident, crashes>>

(* The process of s ends, with files f left. *)
End(s, f) ==
  /\ stage' = [stage EXCEPT ![s] = "gone"]
  /\ open' = [k \in Sockets |-> open[k] \ {s}]
  /\ file' = f
  /\ UNCHANGED <<at, ident, crashes>>

(* Mutant: any file blocks a start, also one nobody listens on. *)
Blocked_ByStale(s) ==
  \/ stage[s] \in {"probe", "bind"} /\ file[at[s]] # None
  \/ stage[s] = "identify" /\ file[at[s]] = None

(* prepare_socket_path refuses a path that answers, bind_local_listener one *)
(* that exists; restrict_socket_permissions and socket_file_identity need  *)
(* the file.                                                               *)
Blocked(s) ==
  \/ stage[s] = "probe" /\ Listening(at[s])
  \/ stage[s] = "bind" /\ file[at[s]] # None
  \/ stage[s] = "identify" /\ file[at[s]] = None

(* A start that fails: the ServerHandle, if there is one, is dropped. *)
Fail(s) == Blocked(s) /\ End(s, FilesWithout(s, {"api"}))

Goes(s, from, to) ==
  /\ stage[s] = from /\ ~Blocked(s)
  /\ stage' = [stage EXCEPT ![s] = to]

(* prepare_socket_path: nobody is listening at the path. *)
Probe(s) ==
  /\ Goes(s, "probe", IF file[at[s]] = None THEN "bind" ELSE "clear")
  /\ UNCHANGED <<at, file, open, ident, crashes>>

(* prepare_socket_path: the file found stale is removed. *)
Clear(s) ==
  /\ Goes(s, "clear", "bind")
  /\ file' = [file EXCEPT ![at[s]] = None]
  /\ UNCHANGED <<at, open, ident, crashes>>

(* Mutant: whatever is at the path is replaced. *)
Bind_Replaces(s) ==
  /\ stage[s] = "bind" /\ stage' = [stage EXCEPT ![s] = "identify"]
  /\ file' = [file EXCEPT ![at[s]] = s] /\ open' = [open EXCEPT ![at[s]] = @ \cup {s}]
  /\ UNCHANGED <<at, ident, crashes>>

(* bind_local_listener. *)
Bind(s) ==
  /\ Goes(s, "bind", "identify")
  /\ file' = [file EXCEPT ![at[s]] = s] /\ open' = [open EXCEPT ![at[s]] = @ \cup {s}]
  /\ UNCHANGED <<at, ident, crashes>>

(* restrict_socket_permissions, socket_file_identity; the API socket is    *)
(* followed by the client socket.                                          *)
Identify(s) ==
  /\ Goes(s, "identify", IF at[s] = "api" THEN "probe" ELSE "up")
  /\ ident' = [ident EXCEPT ![s][at[s]] = file[at[s]]]
  /\ at' = [at EXCEPT ![s] = "client"]
  /\ UNCHANGED <<file, open, crashes>>

(* The server stops: the client socket's file goes first, ... *)
Stop(s) ==
  /\ stage[s] = "up"
  /\ file' = FilesWithout(s, {"client"})
  /\ stage' = [stage EXCEPT ![s] = "stopping"]
  /\ UNCHANGED <<at, open, ident, crashes>>

(* ... the API socket's when the HeadlessServer is dropped. *)
Stopped(s) == stage[s] = "stopping" /\ End(s, FilesWithout(s, {"api"}))

(* The process is killed: its listeners close, its files stay. *)
Crash(s) ==
  /\ Alive(s) /\ crashes < MaxCrashes
  /\ crashes' = crashes + 1
  /\ stage' = [stage EXCEPT ![s] = "crashed"]
  /\ open' = [k \in Sockets |-> open[k] \ {s}]
  /\ UNCHANGED <<at, file, ident>>

TakeSockets(s) == Probe(s) \/ Clear(s) \/ Bind(s) \/ Identify(s)
StartStep(s) == TakeSockets(s) \/ Fail(s)

ServerStep(s) == Start(s) \/ StartStep(s) \/ Stop(s) \/ Stopped(s) \/ Crash(s)

Stale == \E s \in Servers : stage[s] = "crashed"
Contended == \E s, t \in Starters : s # t
Watch == overlap' = (overlap \/ (Stale' /\ Contended'))

Next == (\E s \in Servers : ServerStep(s)) /\ Watch

Spec == Init /\ [][Next]_vars
FairSpec ==
  Spec /\ \A s \in Servers : WF_vars(StartStep(s) /\ Watch) /\ WF_vars(Stopped(s) /\ Watch)

----------------------------------------------------------------------------
(* Properties.                                                             *)

Stages ==
  {"down", "probe", "clear", "bind", "identify", "up", "stopping", "gone", "crashed"}

TypeOK ==
  /\ stage \in [Servers -> Stages] /\ at \in [Servers -> Sockets]
  /\ file \in [Sockets -> Servers \cup {None}]
  /\ open \in [Sockets -> SUBSET {s \in Servers : Alive(s)}]
  /\ ident \in [Servers -> [Sockets -> Servers \cup {None}]]
  /\ crashes \in 0 .. MaxCrashes /\ overlap \in BOOLEAN

(* A server that is up is the one reached through both sockets, so no two  *)
(* servers are up in one session, however starts, stops and crashes fall:  *)
(* as long as no two servers start at once on files left by a crash.       *)
UpIsReachable ==
  \A s \in Servers :
    stage[s] = "up" /\ ~overlap => \A k \in Sockets : file[k] = s /\ Listening(k)

(* The file of a live listener is removed by its own server or not at all. *)
OthersRemoveLive ==
  \E k \in Sockets : Listening(k) /\ file'[k] # file[k] /\ stage'[file[k]] = stage[file[k]]

(* So it is, under the same condition. *)
LiveFileIsKept == [][~overlap => ~OthersRemoveLive]_vars

(* "removes stale socket files where no server is listening, and rejects   *)
(* live sockets that are already in use" (prepare_socket_path in           *)
(* src/src/server/socket_paths.rs), of every start.                        *)
PrepareRejectsLive == [][~OthersRemoveLive]_vars

(* A server that has stopped, or failed to start, leaves no file behind.   *)
StoppedLeavesNothing == \A k \in Sockets : file[k] # None => stage[file[k]] # "gone"

(* Both: the two files belong to the servers that can be reached by them.  *)
FilesMatchServers == UpIsReachable /\ StoppedLeavesNothing

Alone(s) == \A t \in Servers \ {s} : ~Alive(t)

(* Files left by a crash never keep a session down: a server that starts   *)
(* when no other is there comes up, unless another appears meanwhile.      *)
LoneStartSucceeds ==
  \A s \in Servers :
    (Starting(s) /\ at[s] = "api" /\ stage[s] = "probe" /\ Alone(s))
      ~> (stage[s] \in {"up", "crashed"} \/ ~Alone(s))
================================================================================
