--------------------------- MODULE LiveHandoff_proofs ---------------------------
(***************************************************************************)
(* First SessionSockets, proved for any servers and any number of crashes: *)
(* a server that is up is the one reached through both sockets and a       *)
(* server that has stopped leaves no file (FilesMatchServers), and no      *)
(* server removes the file of a live listener of another (LiveFileIsKept). *)
(*                                                                         *)
(* Its inductive invariant says whose a file is: that of a server which    *)
(* has bound it and not left it, or of one that crashed.  As long as no    *)
(* two servers have started at once on the files of a crash, the converse  *)
(* holds as well: what a server has bound is there until it leaves it.     *)
(*                                                                         *)
(* Then LiveHandoff, for any panes and any number of crashes: no pane has  *)
(* two readers (OneReader), no pane is lost but by a crash of its owner    *)
(* (PaneKept), the protocol implements PaneOwnership, one line is on its   *)
(* way at a time (HandoffTypeOK), and the server that serves the panes is  *)
(* the one that both sockets lead to (ServingIsReachable).                 *)
(*                                                                         *)
(* The inductive invariant Inv follows the commit: before it is written    *)
(* the old server still has every pane and the import server reads none;   *)
(* from then on the import server has the descriptors and the line to      *)
(* read, and the old server reads none.  StreamInv adds whose each         *)
(* socket's file is, as SessionInv does, and what each server has left to  *)
(* say: the old server's sockets answer until the import server's panes    *)
(* are restored, so that server cannot be further on.                      *)
(***************************************************************************)
EXTENDS LiveHandoff, TLAPS

----------------------------------------------------------------------------
(* SessionSockets.                                                         *)

(* s has recorded the identity of its file at socket k, and not left it. *)
Identifies(s, k) ==
  /\ at[s] = "client"
  /\ \/ k = "api" /\ Alive(s)
     \/ k = "client" /\ stage[s] = "up"

Binds(s, k) == stage[s] = "identify" /\ at[s] = k

(* A file is that of the server that holds the socket, or that crashed. *)
FilesHeld ==
  \A k \in Sockets : file[k] # None =>
    \/ stage[file[k]] = "crashed"
    \/ Binds(file[k], k)
    \/ Identifies(file[k], k) /\ ident[file[k]][k] = file[k]

(* A socket's listener is open while its server holds it. *)
HeldOpen ==
  \A s \in Servers, k \in Sockets : Binds(s, k) \/ Identifies(s, k) => s \in open[k]

(* Its file is there, and recorded as its own, but for an overlap. *)
HeldThere ==
  \A s \in Servers, k \in Sockets :
    ~overlap => /\ Binds(s, k) \/ Identifies(s, k) => file[k] = s
                /\ ident[s][k] \in {None, s}

(* A file about to be removed as stale is that of a crash. *)
ClearedStale ==
  \A s \in Servers :
    ~overlap /\ stage[s] = "clear" => file[at[s]] # None /\ stage[file[at[s]]] = "crashed"

(* A server takes the API socket, then the client socket. *)
Ordered == \A s \in Servers : stage[s] \in {"up", "stopping"} => at[s] = "client"

(* An overlap needs a crash and two servers that start. *)
OverlapSeen == Stale /\ Contended => overlap

SessionInv ==
  TypeOK /\ Ordered /\ OverlapSeen /\ FilesHeld /\ HeldOpen /\ HeldThere /\ ClearedStale

USE SocketsAssumption DEF SocketsAssumption, Sockets

LEMMA SessionInvInit == Init => SessionInv
<1> SUFFICES ASSUME Init PROVE SessionInv
  OBVIOUS
<1>1. TypeOK
  <2>1. stage \in [Servers -> Stages] /\ at \in [Servers -> Sockets]
    BY DEF Init, Stages
  <2>2. /\ file \in [Sockets -> Servers \cup {None}]
        /\ ident \in [Servers -> [Sockets -> Servers \cup {None}]]
    BY DEF Init
  <2>3. open \in [Sockets -> SUBSET {s \in Servers : Alive(s)}]
    BY DEF Init
  <2>4. crashes \in 0 .. MaxCrashes
    BY DEF Init
  <2>5. overlap \in BOOLEAN
    BY DEF Init
  <2> QED BY <2>1, <2>2, <2>3, <2>4, <2>5 DEF TypeOK
<1>2. Ordered /\ OverlapSeen /\ FilesHeld /\ HeldOpen
  BY DEF Init, Ordered, OverlapSeen, Stale, FilesHeld, HeldOpen, Binds, Identifies, Alive, Starting
<1>3. HeldThere /\ ClearedStale
  BY DEF Init, HeldThere, Binds, Identifies, Alive, Starting, ClearedStale
<1> QED BY <1>1, <1>2, <1>3 DEF SessionInv

(* What Watch says of a step. *)
LEMMA SessionWatching ==
  ASSUME SessionInv, Watch
  PROVE  overlap' \in BOOLEAN /\ OverlapSeen' /\ (~overlap' => ~overlap)
  BY DEF SessionInv, TypeOK, Watch, OverlapSeen

----------------------------------------------------------------------------
(* One lemma for each action. *)

LEMMA StartInv == ASSUME SessionInv, NEW s \in Servers, Start(s), Watch PROVE SessionInv'
<1> USE DEF SessionInv
<1>0. /\ stage[s] = "down" /\ stage' = [stage EXCEPT ![s] = "probe"]
      /\ at' = [at EXCEPT ![s] = "api"] /\ UNCHANGED <<file, open, ident, crashes>>
  BY DEF Start
<1>1. overlap' \in BOOLEAN /\ OverlapSeen' /\ (~overlap' => ~overlap)
  BY SessionWatching
<1>2. \A t \in Servers : t # s => stage'[t] = stage[t] /\ at'[t] = at[t]
  BY <1>0 DEF TypeOK
<1>3. TypeOK'
  BY <1>0, <1>1 DEF TypeOK, Stages, Alive, Starting
<1>4. (Ordered /\ FilesHeld)'
  BY <1>0 DEF TypeOK, Ordered, FilesHeld, Binds, Identifies, Alive, Starting
<1>5. (HeldOpen /\ HeldThere)'
  BY <1>0, <1>1 DEF TypeOK, HeldOpen, HeldThere, Binds, Identifies, Alive, Starting
<1>6. ClearedStale'
  BY <1>0, <1>1 DEF TypeOK, ClearedStale, FilesHeld, Binds, Identifies, Alive, Starting
<1> QED BY <1>1, <1>3, <1>4, <1>5, <1>6

LEMMA ProbeInv == ASSUME SessionInv, NEW s \in Servers, Probe(s), Watch PROVE SessionInv'
<1> USE DEF SessionInv
<1>0. /\ stage[s] = "probe" /\ ~Listening(at[s])
      /\ stage' = [stage EXCEPT ![s] = IF file[at[s]] = None THEN "bind" ELSE "clear"]
      /\ UNCHANGED <<at, file, open, ident, crashes>>
  BY DEF Probe, Goes, Blocked
<1>1. overlap' \in BOOLEAN /\ OverlapSeen' /\ (~overlap' => ~overlap)
  BY SessionWatching
<1>2. TypeOK'
  BY <1>0, <1>1 DEF TypeOK, Stages, Alive, Starting
<1>3. (Ordered /\ FilesHeld)'
  BY <1>0 DEF TypeOK, Ordered, FilesHeld, Binds, Identifies, Alive, Starting
<1>4. (HeldOpen /\ HeldThere)'
  BY <1>0, <1>1 DEF TypeOK, HeldOpen, HeldThere, Binds, Identifies, Alive, Starting
<1>5. file[at[s]] # None => stage[file[at[s]]] = "crashed"
  BY <1>0 DEF TypeOK, Listening, FilesHeld, HeldOpen
<1>6. ClearedStale'
  BY <1>0, <1>1, <1>5 DEF TypeOK, ClearedStale
<1> QED BY <1>1, <1>2, <1>3, <1>4, <1>6

LEMMA ClearInv == ASSUME SessionInv, NEW s \in Servers, Clear(s), Watch PROVE SessionInv'
<1> USE DEF SessionInv
<1>0. /\ stage[s] = "clear" /\ stage' = [stage EXCEPT ![s] = "bind"]
      /\ file' = [file EXCEPT ![at[s]] = None] /\ UNCHANGED <<at, open, ident, crashes>>
  BY DEF Clear, Goes
<1>1. overlap' \in BOOLEAN /\ OverlapSeen' /\ (~overlap' => ~overlap)
  BY SessionWatching
<1>2. TypeOK'
  BY <1>0, <1>1 DEF TypeOK, Stages, Alive, Starting
<1>3. (Ordered /\ FilesHeld)'
  BY <1>0 DEF TypeOK, Ordered, FilesHeld, Binds, Identifies, Alive, Starting
<1>4. HeldOpen'
  BY <1>0 DEF TypeOK, HeldOpen, Binds, Identifies, Alive, Starting
<1>5. ~overlap => stage[file[at[s]]] = "crashed"
  BY <1>0 DEF ClearedStale
<1>6. HeldThere'
  BY <1>0, <1>1, <1>5 DEF TypeOK, HeldThere, Binds, Identifies, Alive, Starting
<1>7. ASSUME NEW t \in Servers, ~overlap', stage'[t] = "clear" PROVE FALSE
  <2>1. t # s /\ stage[t] = "clear"
    BY <1>0, <1>7 DEF TypeOK
  <2>2. file[at[s]] \in Servers /\ stage'[file[at[s]]] = "crashed"
    BY <1>0, <1>1, <1>7 DEF TypeOK, ClearedStale
  <2>3. Stale' /\ Contended'
    BY <1>0, <2>1, <2>2 DEF TypeOK, Stale, Contended, Starters, Starting
  <2> QED BY <1>1, <1>7, <2>3 DEF OverlapSeen
<1>8. ClearedStale'
  BY <1>7 DEF ClearedStale
<1> QED BY <1>1, <1>2, <1>3, <1>4, <1>6, <1>8

LEMMA BindInv == ASSUME SessionInv, NEW s \in Servers, Bind(s), Watch PROVE SessionInv'
<1> USE DEF SessionInv
<1>0. /\ stage[s] = "bind" /\ file[at[s]] = None
      /\ stage' = [stage EXCEPT ![s] = "identify"]
      /\ file' = [file EXCEPT ![at[s]] = s] /\ open' = [open EXCEPT ![at[s]] = @ \cup {s}]
      /\ UNCHANGED <<at, ident, crashes>>
  BY DEF Bind, Goes, Blocked
<1>1. overlap' \in BOOLEAN /\ OverlapSeen' /\ (~overlap' => ~overlap)
  BY SessionWatching
<1>2. TypeOK'
  <2>1. open' \in [Sockets -> SUBSET {t \in Servers : Alive(t)'}]
    BY <1>0 DEF TypeOK, Alive, Starting
  <2> QED BY <1>0, <1>1, <2>1 DEF TypeOK, Stages
<1>3. (Ordered /\ FilesHeld)'
  BY <1>0 DEF TypeOK, Ordered, FilesHeld, Binds, Identifies, Alive, Starting
<1>4. HeldOpen'
  BY <1>0 DEF TypeOK, HeldOpen, Binds, Identifies, Alive, Starting
<1>5. HeldThere'
  BY <1>0, <1>1 DEF TypeOK, HeldThere, Binds, Identifies, Alive, Starting
<1>6. ClearedStale'
  BY <1>0, <1>1 DEF TypeOK, ClearedStale
<1> QED BY <1>1, <1>2, <1>3, <1>4, <1>5, <1>6

LEMMA IdentifyInv == ASSUME SessionInv, NEW s \in Servers, Identify(s), Watch PROVE SessionInv'
<1> USE DEF SessionInv
<1>0. /\ stage[s] = "identify" /\ file[at[s]] # None
      /\ stage' = [stage EXCEPT ![s] = IF at[s] = "api" THEN "probe" ELSE "up"]
      /\ ident' = [ident EXCEPT ![s][at[s]] = file[at[s]]]
      /\ at' = [at EXCEPT ![s] = "client"] /\ UNCHANGED <<file, open, crashes>>
  BY DEF Identify, Goes, Blocked
<1>1. overlap' \in BOOLEAN /\ OverlapSeen' /\ (~overlap' => ~overlap)
  BY SessionWatching
<1>2. TypeOK'
  <2>1. open' \in [Sockets -> SUBSET {t \in Servers : Alive(t)'}]
    BY <1>0 DEF TypeOK, Alive, Starting
  <2>2. ident' \in [Servers -> [Sockets -> Servers \cup {None}]]
    BY <1>0 DEF TypeOK
  <2> QED BY <1>0, <1>1, <2>1, <2>2 DEF TypeOK, Stages
<1>3. (Ordered /\ FilesHeld)'
  BY <1>0 DEF TypeOK, Ordered, FilesHeld, Binds, Identifies, Alive, Starting
<1>4. HeldOpen'
  BY <1>0 DEF TypeOK, HeldOpen, Binds, Identifies, Alive, Starting
<1>5. HeldThere'
  BY <1>0, <1>1 DEF TypeOK, HeldThere, Binds, Identifies, Alive, Starting
<1>6. ClearedStale'
  BY <1>0, <1>1 DEF TypeOK, ClearedStale
<1> QED BY <1>1, <1>2, <1>3, <1>4, <1>5, <1>6

(* The file of another is left alone, but for an overlap; one's own goes.  *)
LEMMA SessionOwnFilesGo ==
  ASSUME SessionInv, NEW s \in Servers, NEW ks \in SUBSET Sockets
  PROVE  /\ FilesWithout(s, ks) \in [Sockets -> Servers \cup {None}]
         /\ \A k \in Sockets : FilesWithout(s, ks)[k] \in {file[k], None}
         /\ \A k \in ks : ident[s][k] = s => FilesWithout(s, ks)[k] # s
         /\ ~overlap => \A k \in Sockets : file[k] # s => FilesWithout(s, ks)[k] = file[k]
         /\ \A k \in Sockets \ ks : FilesWithout(s, ks)[k] = file[k]
<1> DEFINE f == FilesWithout(s, ks)
<1>1. f \in [Sockets -> Servers \cup {None}] /\ \A k \in Sockets : f[k] \in {file[k], None}
  BY DEF SessionInv, TypeOK, FilesWithout
<1>2. \A k \in ks : ident[s][k] = s => f[k] # s
  BY DEF FilesWithout
<1>3. ~overlap => \A k \in Sockets : file[k] # s => f[k] = file[k]
  BY DEF SessionInv, HeldThere, FilesWithout
<1>4. \A k \in Sockets \ ks : f[k] = file[k]
  BY DEF FilesWithout
<1> QED BY <1>1, <1>2, <1>3, <1>4

LEMMA StopInv == ASSUME SessionInv, NEW s \in Servers, Stop(s), Watch PROVE SessionInv'
<1> USE DEF SessionInv
<1>0. /\ stage[s] = "up" /\ stage' = [stage EXCEPT ![s] = "stopping"]
      /\ file' = FilesWithout(s, {"client"}) /\ UNCHANGED <<at, open, ident, crashes>>
  BY DEF Stop
<1>1. overlap' \in BOOLEAN /\ OverlapSeen' /\ (~overlap' => ~overlap)
  BY SessionWatching
<1>2. /\ file' \in [Sockets -> Servers \cup {None}]
      /\ \A k \in Sockets : file'[k] \in {file[k], None}
      /\ ident[s]["client"] = s => file'["client"] # s
      /\ ~overlap => \A k \in Sockets : file[k] # s => file'[k] = file[k]
      /\ file'["api"] = file["api"]
  BY <1>0, SessionOwnFilesGo
<1>3. TypeOK'
  BY <1>0, <1>1, <1>2 DEF TypeOK, Stages, Alive, Starting
<1>4. (Ordered /\ FilesHeld)'
  BY <1>0, <1>2 DEF TypeOK, Ordered, FilesHeld, Binds, Identifies, Alive, Starting
<1>5. HeldOpen'
  BY <1>0 DEF TypeOK, HeldOpen, Binds, Identifies, Alive, Starting
<1>6. HeldThere'
  BY <1>0, <1>1, <1>2 DEF TypeOK, HeldThere, Binds, Identifies, Alive, Starting
<1>7. ClearedStale'
  BY <1>0, <1>1, <1>2 DEF TypeOK, ClearedStale
<1> QED BY <1>1, <1>3, <1>4, <1>5, <1>6, <1>7

(* A server that ends leaves no file if it removes those it has recorded,  *)
(* and it has recorded those it holds.                                     *)
LEMMA EndInv ==
  ASSUME SessionInv, NEW s \in Servers, End(s, FilesWithout(s, {"api"})), Watch,
         stage[s] \in {"probe", "bind", "stopping"} \/ file[at[s]] # s,
         stage[s] \in {"probe", "bind", "identify", "stopping"}
  PROVE  SessionInv'
<1> USE DEF SessionInv
<1>0. /\ stage' = [stage EXCEPT ![s] = "gone"] /\ file' = FilesWithout(s, {"api"})
      /\ open' = [k \in Sockets |-> open[k] \ {s}] /\ UNCHANGED <<at, ident, crashes>>
  BY DEF End
<1>1. overlap' \in BOOLEAN /\ OverlapSeen' /\ (~overlap' => ~overlap)
  BY SessionWatching
<1>2. /\ file' \in [Sockets -> Servers \cup {None}]
      /\ \A k \in Sockets : file'[k] \in {file[k], None}
      /\ ident[s]["api"] = s => file'["api"] # s
      /\ ~overlap => \A k \in Sockets : file[k] # s => file'[k] = file[k]
      /\ file'["client"] = file["client"]
  BY <1>0, SessionOwnFilesGo
<1>3. TypeOK'
  <2>1. open' \in [Sockets -> SUBSET {t \in Servers : Alive(t)'}]
    BY <1>0 DEF TypeOK, Alive, Starting
  <2> QED BY <1>0, <1>1, <1>2, <2>1 DEF TypeOK, Stages
<1>4. \A k \in Sockets : file'[k] # s
  BY <1>2 DEF TypeOK, FilesHeld, Binds, Identifies
<1>5. (Ordered /\ FilesHeld)'
  BY <1>0, <1>2, <1>4 DEF TypeOK, Ordered, FilesHeld, Binds, Identifies, Alive, Starting
<1>6. HeldOpen'
  BY <1>0 DEF TypeOK, HeldOpen, Binds, Identifies, Alive, Starting
<1>7. HeldThere'
  BY <1>0, <1>1, <1>2 DEF TypeOK, HeldThere, Binds, Identifies, Alive, Starting
<1>8. ClearedStale'
  BY <1>0, <1>1, <1>2 DEF TypeOK, ClearedStale
<1> QED BY <1>1, <1>3, <1>5, <1>6, <1>7, <1>8

LEMMA CrashInv == ASSUME SessionInv, NEW s \in Servers, Crash(s), Watch PROVE SessionInv'
<1> USE DEF SessionInv
<1>0. /\ Alive(s) /\ crashes < MaxCrashes /\ crashes' = crashes + 1
      /\ stage' = [stage EXCEPT ![s] = "crashed"]
      /\ open' = [k \in Sockets |-> open[k] \ {s}] /\ UNCHANGED <<at, file, ident>>
  BY DEF Crash
<1>1. overlap' \in BOOLEAN /\ OverlapSeen' /\ (~overlap' => ~overlap)
  BY SessionWatching
<1>2. TypeOK'
  <2>1. open' \in [Sockets -> SUBSET {t \in Servers : Alive(t)'}]
    BY <1>0 DEF TypeOK, Alive, Starting
  <2>2. crashes' \in 0 .. MaxCrashes
    BY <1>0 DEF TypeOK
  <2> QED BY <1>0, <1>1, <2>1, <2>2 DEF TypeOK, Stages
<1>3. (Ordered /\ FilesHeld)'
  BY <1>0 DEF TypeOK, Ordered, FilesHeld, Binds, Identifies, Alive, Starting
<1>4. HeldOpen'
  BY <1>0 DEF TypeOK, HeldOpen, Binds, Identifies, Alive, Starting
<1>5. HeldThere'
  BY <1>0, <1>1 DEF TypeOK, HeldThere, Binds, Identifies, Alive, Starting
<1>6. ClearedStale'
  BY <1>0, <1>1 DEF TypeOK, ClearedStale
<1> QED BY <1>1, <1>2, <1>3, <1>4, <1>5, <1>6

LEMMA SessionInvNext == SessionInv /\ [Next]_vars => SessionInv'
<1> SUFFICES ASSUME SessionInv, [Next]_vars PROVE SessionInv'
  OBVIOUS
<1>1. ASSUME NEW s \in Servers, Fail(s), Watch PROVE SessionInv'
  <2>1. End(s, FilesWithout(s, {"api"})) /\ stage[s] \in {"probe", "bind", "identify"}
    BY <1>1 DEF Fail, Blocked
  <2>2. stage[s] = "identify" => file[at[s]] # s
    BY <1>1 DEF Fail, Blocked
  <2> QED BY <1>1, <2>1, <2>2, EndInv
<1>2. ASSUME NEW s \in Servers, Stopped(s), Watch PROVE SessionInv'
  BY <1>2, EndInv DEF Stopped
<1>3. CASE UNCHANGED vars
  BY <1>3 DEF vars, SessionInv, TypeOK, Ordered, OverlapSeen, FilesHeld, HeldOpen, HeldThere,
     ClearedStale, Binds, Identifies, Alive, Starting, Stale, Contended, Starters
<1> QED
  BY <1>1, <1>2, <1>3, StartInv, ProbeInv, ClearInv, BindInv, IdentifyInv, StopInv, CrashInv
     DEF Next, ServerStep, StartStep, TakeSockets

----------------------------------------------------------------------------
(* The inductive invariant holds always. *)
THEOREM SessionInvariance == Spec => []SessionInv
<1> QED BY SessionInvInit, SessionInvNext, PTL DEF Spec

(* The state of the session's two sockets has its type. *)
THEOREM SocketsAreTyped == Spec => []TypeOK
<1>1. SessionInv => TypeOK
  BY DEF SessionInv
<1> QED BY <1>1, SessionInvariance, PTL

LEMMA SessionInvImplies == SessionInv => FilesMatchServers
<1> SUFFICES ASSUME SessionInv PROVE FilesMatchServers
  OBVIOUS
<1>1. UpIsReachable
  BY DEF SessionInv, Ordered, HeldOpen, HeldThere,
     UpIsReachable, Listening, Identifies, Alive
<1>2. StoppedLeavesNothing
  BY DEF SessionInv, FilesHeld, StoppedLeavesNothing, Binds, Identifies, Alive, Starting
<1> QED BY <1>1, <1>2 DEF FilesMatchServers

(* A server that is up is reached through both sockets, so no two are up   *)
(* in one session, and one that stopped or failed to start left no file.   *)
THEOREM OneServerPerSession == Spec => []FilesMatchServers
<1> QED BY SessionInvImplies, SessionInvariance, PTL

(* No step removes the file of a live listener, but one of its own server. *)
LEMMA OthersStayAway ==
  ASSUME SessionInv, [Next]_vars, ~overlap
  PROVE  ~OthersRemoveLive
<1> SUFFICES ASSUME NEW k \in Sockets, Listening(k), file'[k] # file[k],
                    stage'[file[k]] = stage[file[k]]
             PROVE  FALSE
  BY DEF OthersRemoveLive
<1> USE DEF SessionInv
<1>1. file[k] \in Servers /\ Alive(file[k])
  BY DEF TypeOK, Listening
<1>2. PICK s \in Servers : ServerStep(s)
  BY DEF Next, vars
<1>3. CASE Start(s) \/ Probe(s) \/ Identify(s) \/ Crash(s)
  BY <1>3 DEF Start, Probe, Identify, Crash
<1>4. CASE Clear(s)
  <2>1. stage[s] = "clear" /\ file' = [file EXCEPT ![at[s]] = None]
    BY <1>4 DEF Clear, Goes
  <2>2. k = at[s] /\ stage[file[k]] = "crashed"
    BY <2>1 DEF TypeOK, ClearedStale
  <2> QED BY <1>1, <2>2 DEF Alive, Starting
<1>5. CASE Bind(s)
  <2>1. file[at[s]] = None /\ file' = [file EXCEPT ![at[s]] = s]
    BY <1>5 DEF Bind, Goes, Blocked
  <2> QED BY <2>1 DEF TypeOK, Listening
<1>6. ASSUME NEW ks \in SUBSET Sockets, file' = FilesWithout(s, ks) PROVE file[k] = s
  BY <1>6, SessionOwnFilesGo
<1>7. CASE Stop(s)
  BY <1>6, <1>7 DEF Stop, TypeOK
<1>8. ASSUME End(s, FilesWithout(s, {"api"})), stage[s] # "gone" PROVE FALSE
  BY <1>6, <1>8 DEF End, TypeOK
<1> QED
  BY <1>2, <1>3, <1>4, <1>5, <1>7, <1>8
     DEF ServerStep, StartStep, TakeSockets, Fail, Blocked, Stopped

(* The file of a live listener is removed by its own server or not at all, *)
(* as long as no two servers have started at once on the files of a crash. *)
THEOREM LiveFilesKept == Spec => LiveFileIsKept
<1>1. SessionInv /\ [Next]_vars => [~overlap => ~OthersRemoveLive]_vars
  BY OthersStayAway
<1> QED BY <1>1, SessionInvariance, PTL DEF Spec, LiveFileIsKept

----------------------------------------------------------------------------
(* LiveHandoff.                                                            *)

OldPcs ==
  {"serving", "pausing", "accepting", "validating", "restoring", "leavingApi",
   "leavingClient", "readying", "committing", "releasing", "waiting",
   "restoringSockets", "rollback", "gone", "crashed"}
NewPcs ==
  {"none", "connecting", "validating", "receiving", "importing", "waiting",
   "starting", "ready", "unpausing", "serving", "closing", "gone", "crashed"}

Types ==
  /\ old \in OldPcs /\ new \in NewPcs
  /\ oldIo \in [Panes -> {"running", "paused", "released"}]
  /\ newIo \in [Panes -> {"none", "paused", "running"}]
  /\ dups \in BOOLEAN /\ fds \in BOOLEAN
  /\ committed \in BOOLEAN /\ excused \in BOOLEAN
  /\ toOld \in Seq(Lines) /\ toNew \in Seq(Lines)

(* Who reads: the old server only before it has paused every pane, or when *)
(* it resumes them; the import server only after the commit.               *)
OldReading ==
  old \notin {"serving", "pausing", "rollback"} => \A p \in Panes : oldIo[p] # "running"
NewReading ==
  \A p \in Panes : newIo[p] = "running" => committed /\ new \in {"unpausing", "serving"}

(* How the commit passes from one server to the other. *)
CommitWritten ==
  /\ committed => old \in {"releasing", "gone", "crashed"}
  /\ old \in {"releasing", "gone"} => committed
CommitRead ==
  /\ \A i \in 1 .. Len(toNew) : toNew[i] = "committed" => committed
  /\ new \in {"unpausing", "serving"} => committed
  /\ committed /\ new = "ready" => toNew # <<>>

(* How far the import server has come when the old server commits. *)
Ready == {"ready", "unpausing", "serving", "closing", "gone", "crashed"}
ReadyTold ==
  /\ old = "pausing" => new = "none"
  /\ new = "none" => toOld = <<>> /\ toNew = <<>>
  /\ \A i \in 1 .. Len(toOld) : toOld[i] = "ready" => new \in Ready
  /\ old = "committing" \/ committed => new \in Ready

(* Who has the panes' descriptors. *)
OldHolds ==
  /\ ~committed /\ OldLives => \A p \in Panes : oldIo[p] # "released"
  /\ ~committed /\ old = "crashed" => excused
NewHolds ==
  /\ new \in {"importing", "waiting", "starting", "ready", "unpausing", "serving"} => fds
  /\ committed => excused \/ new \in {"ready", "unpausing", "serving"}

Inv ==
  /\ Types /\ OldReading /\ NewReading /\ CommitWritten /\ CommitRead
  /\ ReadyTold /\ OldHolds /\ NewHolds

USE DEF OldPcs, NewPcs, Lines, history

----------------------------------------------------------------------------
(* What writing or reading a line does to the lines on the stream. *)
LEMMA Written ==
  ASSUME NEW s \in Seq(Lines), NEW l \in Lines
  PROVE  /\ Append(s, l) \in Seq(Lines) /\ Append(s, l) # <<>>
         /\ \A i \in 1 .. Len(Append(s, l)) :
              Append(s, l)[i] = l \/ \E j \in 1 .. Len(s) : Append(s, l)[i] = s[j]
  OBVIOUS

LEMMA Taken ==
  ASSUME NEW s \in Seq(Lines), s # <<>>
  PROVE  /\ Tail(s) \in Seq(Lines)
         /\ \A i \in 1 .. Len(Tail(s)) : \E j \in 1 .. Len(s) : Tail(s)[i] = s[j]
         /\ \E j \in 1 .. Len(s) : Head(s) = s[j]
  <1>1. \A i \in 1 .. Len(Tail(s)) : i + 1 \in 1 .. Len(s) /\ Tail(s)[i] = s[i + 1]
    OBVIOUS
  <1>2. Tail(s) \in Seq(Lines) /\ 1 \in 1 .. Len(s) /\ Head(s) = s[1]
    OBVIOUS
  <1> QED BY <1>1, <1>2

LEMMA Empty == <<>> \in Seq(Lines) /\ 1 .. Len(<<>>) = {}
  OBVIOUS

LEMMA InvInit == HandoffInit => Inv
<1> SUFFICES ASSUME HandoffInit PROVE Inv
  OBVIOUS
<1>1. Types
  BY Empty DEF HandoffInit, Types
<1>2. OldReading /\ NewReading /\ CommitWritten /\ OldHolds /\ NewHolds
  BY DEF HandoffInit, OldReading, NewReading, CommitWritten, OldHolds, NewHolds, OldLives
<1>3. CommitRead /\ ReadyTold
  BY Empty DEF HandoffInit, CommitRead, ReadyTold, Ready
<1> QED BY <1>1, <1>2, <1>3 DEF Inv

(* The invariant implies what is claimed of a state. *)
LEMMA InvImplies == Inv => OneReader /\ PaneKept
<1> SUFFICES ASSUME Inv PROVE OneReader /\ PaneKept
  OBVIOUS
<1>1. OneReader
  BY DEF Inv, OldReading, NewReading, CommitWritten, OneReader
<1>2. ASSUME NEW p \in Panes PROVE Held(p) \/ excused
  <2>1. CASE committed
    BY <2>1 DEF Inv, NewHolds, Held, NewLives
  <2>2. CASE ~committed
    BY <2>2 DEF Inv, Types, OldHolds, CommitWritten, Held, OldLives
  <2> QED BY <2>1, <2>2
<1> QED BY <1>1, <1>2 DEF PaneKept

----------------------------------------------------------------------------
(* The old server's steps. *)

(* Nothing is left of the import server; no commit was written. *)
LEMMA Killed ==
  ASSUME Inv, KillImport, UNCHANGED <<oldIo, history>>, dups' \in BOOLEAN,
         old \in {"accepting", "validating", "restoring", "readying", "committing"},
         old' \in {"rollback", "waiting"}
  PROVE  Inv'
<1> USE DEF Inv, Types, OldReading, NewReading, CommitWritten, CommitRead, ReadyTold,
            OldHolds, NewHolds, OldLives, Ready
<1>1. /\ new' \in NewPcs \ {"importing", "waiting", "starting", "ready", "unpausing", "serving"}
      /\ new' = "none" => new = "none"
      /\ newIo' = [p \in Panes |-> "none"] /\ fds' = FALSE
      /\ toOld' = <<>> /\ toNew' = <<>>
  BY DEF KillImport, NewLives
<1>2. ~committed /\ ~committed' /\ excused' = excused /\ oldIo' = oldIo
  OBVIOUS
<1>3. Types'
  BY <1>1, Empty
<1>4. (CommitRead /\ ReadyTold)'
  BY <1>1, <1>2, Empty
<1>5. (OldReading /\ NewReading /\ CommitWritten)'
  BY <1>1, <1>2
<1>6. (OldHolds /\ NewHolds)'
  BY <1>1, <1>2
<1> QED BY <1>3, <1>4, <1>5, <1>6

LEMMA OldStepInv == ASSUME Inv, OldStep PROVE Inv'
<1> USE DEF Inv, Types, OldReading, NewReading, CommitWritten, CommitRead, ReadyTold,
            OldHolds, NewHolds, OldLives, NewLives, Ready, OldReads
<1>1. CASE OldBegins
  BY <1>1 DEF OldBegins
<1>2. ASSUME NEW p \in Panes, OldPauses(p) PROVE Inv'
  BY <1>2 DEF OldPauses
<1>3. CASE OldSpawns
  BY <1>3 DEF OldSpawns
<1>4. CASE OldSendsManifest
  BY <1>4 DEF OldSendsManifest
<1>5. CASE OldSendsFds
  BY <1>5 DEF OldSendsFds
<1>6. CASE OldSeesRestored
  <2>1. /\ toOld' = Tail(toOld) /\ toOld # <<>> /\ old = "restoring" /\ old' = "leavingApi"
        /\ dups' = FALSE /\ UNCHANGED <<new, oldIo, newIo, fds, toNew, committed, excused>>
    BY <1>6 DEF OldSeesRestored
  <2>2. Types'
    BY <2>1, Taken
  <2>3. ReadyTold'
    BY <2>1, Taken
  <2>4. (OldReading /\ NewReading /\ CommitWritten /\ CommitRead)'
    BY <2>1
  <2>5. (OldHolds /\ NewHolds)'
    BY <2>1
  <2> QED BY <2>2, <2>3, <2>4, <2>5
<1>7. ASSUME NEW k \in Sockets, OldLeavesSocket(k) PROVE Inv'
  BY <1>7 DEF OldLeavesSocket
<1>8. CASE OldSeesReady
  BY <1>8 DEF OldSeesReady
<1>9. CASE OldCommits
  <2>1. /\ toNew' = Append(toNew, "committed") /\ old = "committing" /\ old' = "releasing"
        /\ new \notin {"none", "gone", "crashed"}
        /\ UNCHANGED <<new, oldIo, newIo, dups, fds, toOld>>
    BY <1>9 DEF OldCommits
  <2>2. committed' = TRUE /\ (excused' <=> (excused \/ new = "closing"))
        /\ excused' \in BOOLEAN
    BY <1>9 DEF OldCommits
  <2>3. Types'
    BY <2>1, <2>2, Written
  <2>4. CommitRead'
    BY <2>1, <2>2, Written
  <2>5. (OldReading /\ NewReading /\ CommitWritten /\ ReadyTold /\ OldHolds)'
    BY <2>1, <2>2
  <2>6. NewHolds'
    BY <2>1, <2>2
  <2> QED BY <2>3, <2>4, <2>5, <2>6
<1>10. ASSUME NEW p \in Panes, OldReleases(p) PROVE Inv'
  BY <1>10 DEF OldReleases
<1>11. CASE OldFinishes
  BY <1>11 DEF OldFinishes
<1>12. CASE OldFailsToPause
  BY <1>12 DEF OldFailsToPause
<1>13. CASE OldGivesUpEarly
  <2>1. old \in {"accepting", "validating", "restoring"} /\ old' = "rollback" /\ KillImport
        /\ UNCHANGED <<oldIo, history>> /\ dups' = FALSE
    BY <1>13 DEF OldGivesUpEarly
  <2> QED BY <2>1, Killed
<1>14. CASE OldGivesUpLate
  <2>1. old \in {"readying", "committing"} /\ old' = "waiting" /\ KillImport
        /\ UNCHANGED <<oldIo, dups, history>>
    BY <1>14 DEF OldGivesUpLate
  <2> QED BY <2>1, Killed
<1>15. CASE OldRestores
  BY <1>15 DEF OldRestores
<1>16. CASE OldTakesSockets
  BY <1>16 DEF OldTakesSockets
<1>17. CASE OldCannotRestore
  BY <1>17 DEF OldCannotRestore
<1>18. CASE OldRollsBack
  BY <1>18 DEF OldRollsBack
<1> QED
  BY <1>1, <1>2, <1>3, <1>4, <1>5, <1>6, <1>7, <1>8, <1>9, <1>10, <1>11, <1>12, <1>13,
     <1>14, <1>15, <1>16, <1>17, <1>18 DEF OldStep

----------------------------------------------------------------------------
(* The import server's steps. *)

LEMMA NewStepInv == ASSUME Inv, NewStep PROVE Inv'
<1> USE DEF Inv, Types, OldReading, NewReading, CommitWritten, CommitRead, ReadyTold,
            OldHolds, NewHolds, OldLives, NewLives, Ready, NewReads, NewTells
<1>1. CASE NewConnects
  BY <1>1 DEF NewConnects
<1>2. CASE NewValidates
  BY <1>2 DEF NewValidates
<1>3. CASE NewReceives
  BY <1>3 DEF NewReceives
<1>4. CASE NewImports
  BY <1>4 DEF NewImports
<1>5. CASE NewStarts
  BY <1>5 DEF NewStarts
<1>6. CASE NewTakesSockets
  BY <1>6 DEF NewTakesSockets, handoffVars
<1>7. CASE NewReportsReady
  <2>1. /\ toOld' = Append(toOld, "ready") /\ new = "starting" /\ new' = "ready"
        /\ UNCHANGED <<old, oldIo, newIo, dups, fds, toNew, committed, excused>>
    BY <1>7 DEF NewReportsReady
  <2>2. Types'
    BY <2>1, Written
  <2>3. (OldReading /\ NewReading /\ CommitWritten /\ ReadyTold)'
    BY <2>1, Written
  <2>4. CommitRead'
    BY <2>1
  <2>5. (OldHolds /\ NewHolds)'
    BY <2>1
  <2> QED BY <2>2, <2>3, <2>4, <2>5
<1>8. CASE NewAssumes
  BY <1>8 DEF NewAssumes
<1>9. ASSUME NEW p \in Panes, NewUnpauses(p) PROVE Inv'
  BY <1>9 DEF NewUnpauses
<1>10. CASE NewServes
  BY <1>10 DEF NewServes
<1>11. ASSUME Dropped, ~(committed /\ new = "ready"), new \notin {"unpausing", "serving"},
              new # "none"
       PROVE  Inv'
  BY <1>11 DEF Dropped
<1>12. CASE NewFails
  BY <1>11, <1>12 DEF NewFails
<1>13. CASE NewMissesCommit
  BY <1>11, <1>13 DEF NewMissesCommit
<1>14. CASE NewExits
  BY <1>14 DEF NewExits
<1> QED
  BY <1>1, <1>2, <1>3, <1>4, <1>5, <1>6, <1>7, <1>8, <1>9, <1>10, <1>12, <1>13, <1>14
     DEF NewStep

----------------------------------------------------------------------------
(* Crashes, the third server, and stuttering. *)

LEMMA OtherStepInv ==
  ASSUME Inv, OldCrashes \/ NewCrashes \/ ThirdStarts \/ ThirdStep \/ UNCHANGED allVars
  PROVE  Inv'
<1> USE DEF Inv, Types, OldReading, NewReading, CommitWritten, CommitRead, ReadyTold,
            OldHolds, NewHolds, OldLives, NewLives, Ready
<1>1. CASE OldCrashes
  BY <1>1 DEF OldCrashes
<1>2. CASE NewCrashes
  BY <1>2 DEF NewCrashes
<1>3. CASE UNCHANGED handoffVars
  BY <1>3 DEF handoffVars
<1> QED
  BY <1>1, <1>2, <1>3 DEF ThirdStarts, ThirdStep, allVars

LEMMA InvNext == Inv /\ [HandoffNext]_allVars => Inv'
  BY OldStepInv, NewStepInv, OtherStepInv DEF HandoffNext

(* The invariant about panes, descriptors and the commit holds always. *)
THEOREM Invariance == HandoffSpec => []Inv
<1>1. HandoffInit => Inv
  BY InvInit
<1>2. Inv /\ [HandoffNext]_allVars => Inv'
  BY InvNext
<1> QED BY <1>1, <1>2, PTL DEF HandoffSpec

(* The two servers never read one pane's PTY at the same time. *)
THEOREM NoTwoReaders == HandoffSpec => []OneReader
<1>1. Inv => OneReader
  BY InvImplies
<1> QED BY <1>1, Invariance, PTL

(* A pane is lost only with the server it belongs to. *)
THEOREM NoPaneLost == HandoffSpec => []PaneKept
<1>1. Inv => PaneKept
  BY InvImplies
<1> QED BY <1>1, Invariance, PTL

(* Every pane has a keeper throughout a handoff, and one reader at most. *)
THEOREM OneKeeperPerPane == HandoffSpec => []PanesHaveOneKeeper
<1>1. OneReader /\ PaneKept => PanesHaveOneKeeper
  BY DEF PanesHaveOneKeeper
<1> QED BY <1>1, NoTwoReaders, NoPaneLost, PTL

----------------------------------------------------------------------------
(* The refinement: who reads a pane changes only as PaneOwnership lets it.  *)

readerNow == [p \in Panes |-> Reader(p)]

LEMMA SameReaders ==
  ASSUME UNCHANGED <<oldIo, newIo, committed>>
  PROVE  UNCHANGED <<readerNow, committed>>
  BY DEF readerNow, Reader

(* Nobody notices an import server that goes before it reads a pane. *)
LEMMA UnreadDropped ==
  ASSUME Inv, UNCHANGED <<oldIo, committed>>, newIo' \in [Panes -> {"none", "paused"}],
         ~committed \/ new \notin {"unpausing", "serving"}
  PROVE  UNCHANGED <<readerNow, committed>>
<1>1. \A p \in Panes : newIo[p] # "running" /\ newIo'[p] # "running"
  BY DEF Inv, Types, NewReading
<1> QED BY <1>1 DEF readerNow, Reader

LEMMA OldImplements ==
  ASSUME Inv, OldStep
  PROVE  PO!Next \/ UNCHANGED <<readerNow, committed>>
<1> USE DEF Inv, Types, OldReading, NewReading, CommitWritten
<1>1. CASE UNCHANGED <<oldIo, newIo, committed>>
  BY <1>1, SameReaders
<1>2. ASSUME NEW p \in Panes, OldPauses(p) PROVE PO!Pause(p)
  <2>1. /\ oldIo[p] = "running" /\ oldIo' = [oldIo EXCEPT ![p] = "paused"]
        /\ newIo' = newIo /\ committed' = committed /\ old = "pausing"
    BY <1>2 DEF OldPauses, history
  <2>2. newIo[p] # "running"
    BY <2>1
  <2> QED BY <2>1, <2>2 DEF PO!Pause, Reader
<1>3. CASE OldCommits
  <2>1. /\ old = "committing" /\ committed' = TRUE /\ UNCHANGED <<oldIo, newIo>>
    BY <1>3 DEF OldCommits
  <2>2. \A p \in Panes : oldIo[p] # "running" /\ newIo[p] # "running"
    BY <2>1
  <2> QED BY <2>1, <2>2 DEF PO!Next, PO!Commit, Reader
<1>4. ASSUME NEW p \in Panes, OldReleases(p) PROVE UNCHANGED <<readerNow, committed>>
  <2>1. /\ old = "releasing" /\ oldIo' = [oldIo EXCEPT ![p] = "released"]
        /\ UNCHANGED <<newIo, committed>>
    BY <1>4 DEF OldReleases, history
  <2>2. \A q \in Panes : oldIo[q] # "running" /\ oldIo'[q] # "running"
    BY <2>1
  <2> QED BY <2>1, <2>2 DEF readerNow, Reader
<1>5. CASE OldGivesUpEarly \/ OldGivesUpLate
  <2>1. /\ old \in {"accepting", "validating", "restoring", "readying", "committing"}
        /\ newIo' = [p \in Panes |-> "none"] /\ UNCHANGED <<oldIo, committed>>
    BY <1>5 DEF OldGivesUpEarly, OldGivesUpLate, KillImport, history
  <2>2. ~committed
    BY <2>1
  <2> QED BY <2>1, <2>2, UnreadDropped
<1>6. CASE OldRollsBack
  <2>1. /\ old = "rollback" /\ oldIo' = [p \in Panes |-> "running"]
        /\ UNCHANGED <<newIo, committed>>
    BY <1>6 DEF OldRollsBack, history
  <2>2. ~committed
    BY <2>1
  <2> QED BY <2>1, <2>2 DEF PO!Next, PO!Resume, Reader
<1>7. CASE OldBegins \/ OldSpawns \/ OldSendsManifest \/ OldSendsFds \/ OldSeesRestored
           \/ OldSeesReady \/ OldFinishes \/ OldFailsToPause
  BY <1>1, <1>7 DEF OldBegins, OldSpawns, OldSendsManifest, OldSendsFds, OldSeesRestored,
     OldSeesReady, OldFinishes, OldFailsToPause, history
<1>8. CASE OldRestores \/ OldTakesSockets \/ OldCannotRestore
  BY <1>1, <1>8 DEF OldRestores, OldTakesSockets, OldCannotRestore, history
<1>9. ASSUME NEW k \in Sockets, OldLeavesSocket(k) PROVE UNCHANGED <<readerNow, committed>>
  BY <1>9, SameReaders DEF OldLeavesSocket, history
<1> QED
  BY <1>2, <1>3, <1>4, <1>5, <1>6, <1>7, <1>8, <1>9 DEF OldStep, PO!Next

LEMMA NewImplements ==
  ASSUME Inv, NewStep
  PROVE  PO!Next \/ UNCHANGED <<readerNow, committed>>
<1> USE DEF Inv, Types, OldReading, NewReading, CommitWritten, CommitRead
<1>1. CASE UNCHANGED <<oldIo, newIo, committed>>
  BY <1>1, SameReaders
<1>2. CASE NewImports
  <2>1. /\ new = "importing" /\ newIo' = [p \in Panes |-> "paused"]
        /\ UNCHANGED <<oldIo, committed>>
    BY <1>2 DEF NewImports, history
  <2> QED BY <2>1, UnreadDropped
<1>3. ASSUME NEW p \in Panes, NewUnpauses(p) PROVE PO!Take(p)
  <2>1. /\ new = "unpausing" /\ newIo[p] = "paused"
        /\ newIo' = [newIo EXCEPT ![p] = "running"] /\ UNCHANGED <<oldIo, committed>>
    BY <1>3 DEF NewUnpauses, history
  <2>2. committed /\ \A q \in Panes : oldIo[q] # "running"
    BY <2>1
  <2> QED BY <2>1, <2>2 DEF PO!Take, Reader
<1>4. CASE NewFails \/ NewMissesCommit
  <2>1. /\ new \notin {"unpausing", "serving"} /\ newIo' = [p \in Panes |-> "none"]
        /\ UNCHANGED <<oldIo, committed>>
    BY <1>4 DEF NewFails, NewMissesCommit, Dropped, history
  <2> QED BY <2>1, UnreadDropped
<1>5. CASE NewConnects \/ NewValidates \/ NewReceives \/ NewStarts \/ NewTakesSockets
           \/ NewReportsReady \/ NewAssumes \/ NewServes \/ NewExits
  BY <1>1, <1>5 DEF NewConnects, NewValidates, NewReceives, NewStarts, NewTakesSockets,
     NewReportsReady, NewAssumes, NewServes, NewExits, handoffVars, history
<1> QED
  BY <1>2, <1>3, <1>4, <1>5 DEF NewStep, PO!Next

LEMMA CrashImplements ==
  ASSUME Inv, OldCrashes \/ NewCrashes
  PROVE  PO!Next
<1> USE DEF Inv, Types, OldReading, NewReading, CommitWritten
<1>1. OneReader
  BY InvImplies
<1>2. CASE OldCrashes
  <2>1. oldIo' = [p \in Panes |-> "released"] /\ UNCHANGED <<newIo, committed>>
    BY <1>2 DEF OldCrashes
  <2> QED BY <1>1, <2>1 DEF OneReader, PO!Next, PO!Ends, Reader
<1>3. CASE NewCrashes
  <2>1. newIo' = [p \in Panes |-> "none"] /\ UNCHANGED <<oldIo, committed>>
    BY <1>3 DEF NewCrashes
  <2> QED BY <1>1, <2>1 DEF OneReader, PO!Next, PO!Ends, Reader
<1> QED BY <1>2, <1>3

(* The handoff implements PaneOwnership: every step of either server, of a *)
(* third or of a crash is one it allows or one it does not see.            *)
THEOREM Implements == HandoffSpec => ImplementsPaneOwnership
<1>1. HandoffInit => PO!Init
  BY DEF HandoffInit, PO!Init, Reader
<1>2. Inv /\ [HandoffNext]_allVars => [PO!Next]_<<readerNow, committed>>
  <2> SUFFICES ASSUME Inv, [HandoffNext]_allVars
               PROVE  [PO!Next]_<<readerNow, committed>>
    OBVIOUS
  <2>1. CASE OldStep
    BY <2>1, OldImplements
  <2>2. CASE NewStep
    BY <2>2, NewImplements
  <2>3. CASE OldCrashes \/ NewCrashes
    BY <2>3, CrashImplements
  <2>4. CASE ThirdStarts \/ ThirdStep \/ UNCHANGED allVars
    BY <2>4, SameReaders DEF ThirdStarts, ThirdStep, allVars, handoffVars, history
  <2> QED BY <2>1, <2>2, <2>3, <2>4 DEF HandoffNext
<1>3. [PO!Next]_<<readerNow, committed>> => [PO!Next]_(PO!vars)
  BY DEF PO!vars, readerNow
<1> QED BY <1>1, <1>2, <1>3, Invariance, PTL DEF HandoffSpec, ImplementsPaneOwnership, PO!Spec

----------------------------------------------------------------------------
(* The session's sockets during the handoff.  What SessionInv says of      *)
(* them holds here too, but that the old server leaves them before         *)
(* it stops and may take them again.                                       *)

(* The old server has left socket k. *)
Left(k) ==
  \/ old \in {"readying", "committing", "releasing", "waiting"}
  \/ old = "leavingClient" /\ k = "api"

Binding(s, k) == stage[s] = "identify" /\ at[s] = k

Identified(s, k) ==
  /\ at[s] = "client" /\ ~(s = Old /\ Left(k))
  /\ \/ k = "api" /\ Alive(s)
     \/ k = "client" /\ stage[s] = "up"

SocketTypes ==
  /\ stage \in [Servers -> Stages] /\ at \in [Servers -> Sockets]
  /\ file \in [Sockets -> Servers \cup {None}] /\ open \in [Sockets -> SUBSET Servers]
  /\ ident \in [Servers -> [Sockets -> Servers \cup {None}]]
  /\ crashes \in 0 .. MaxCrashes /\ overlap \in BOOLEAN

(* How far a server has come with its sockets, by its part in the handoff. *)
OldStage ==
  /\ old \in {"pausing", "accepting", "validating", "restoring", "leavingApi",
             "leavingClient", "readying", "committing", "releasing", "waiting"}
       => stage[Old] = "up"
  /\ old \in {"serving", "rollback"} /\ new = "none" => stage[Old] = "up"
  /\ old \in {"serving", "rollback"} => stage[Old] \in {"up", "gone"}
  /\ old = "restoringSockets" => Starting(Old)
  /\ ~OldLives => ~Alive(Old)
  /\ old \in {"waiting", "restoringSockets"} => ~NewLives
  /\ old \in {"accepting", "validating", "restoring", "leavingApi", "leavingClient", "readying",
             "committing", "waiting", "restoringSockets"} => new # "none"

NewStage ==
  /\ new = "starting" => Starting(New) \/ stage[New] = "up"
  /\ new \in {"ready", "unpausing", "serving"} => stage[New] = "up"
  /\ new \notin {"starting", "ready", "unpausing", "serving"} => ~Alive(New)
  /\ new \in {"none", "connecting", "validating", "receiving", "importing", "waiting"}
       => stage[New] = "down" /\ at[New] = "api"

ThirdStage ==
  /\ stage[Third] # "crashed"
  /\ at[Third] = "client" => ident[Third]["api"] # None
  /\ Third \in open["api"] => Binding(Third, "api") \/ at[Third] = "client"

InOrder == \A s \in Servers : stage[s] \in {"up", "stopping"} => at[s] = "client"

Watched == Stale /\ Contended => overlap

FilesAreHeld ==
  \A k \in Sockets : file[k] # None =>
    \/ stage[file[k]] = "crashed"
    \/ Binding(file[k], k)
    \/ Identified(file[k], k) /\ ident[file[k]][k] = file[k]

HeldIsOpen ==
  /\ \A s \in Servers, k \in Sockets : Binding(s, k) \/ Identified(s, k) => s \in open[k]
  /\ \A k \in Sockets : \A s \in open[k] : s = Old \/ Alive(s)

HeldIsThere ==
  \A s \in Servers, k \in Sockets :
    ~overlap => /\ Binding(s, k) \/ Identified(s, k) => file[k] = s
                /\ ident[s][k] \in {None, s}

ClearedIsStale ==
  \A s \in Servers :
    ~overlap /\ stage[s] = "clear" => file[at[s]] # None /\ stage[file[at[s]]] = "crashed"

(* Until the old server leaves its sockets nobody else takes any. *)
Undisturbed ==
  old \in {"pausing", "accepting", "validating", "restoring", "leavingApi"}
    \/ (old \in {"serving", "rollback"} /\ new = "none")
  => ~overlap /\ stage[Third] = "down" /\ ~Alive(New)

(* Only the third server can keep the old one from its sockets. *)
InTheWay ==
  ~overlap =>
    /\ old = "restoringSockets" /\ stage[Old] = "bind" => file[at[Old]] \in {None, Third}
    /\ old \in {"serving", "rollback"} /\ stage[Old] = "gone" =>
         Third \in open["api"] \/ ident[Third]["api"] # None

FilesInv ==
  /\ SocketTypes /\ InOrder /\ Watched
  /\ FilesAreHeld /\ HeldIsOpen /\ HeldIsThere /\ ClearedIsStale
PartsInv == OldStage /\ NewStage /\ ThirdStage /\ Undisturbed /\ InTheWay

(* The lines on the stream: one at a time, in one direction or the other.  *)
OneLine ==
  /\ toOld \in Wire /\ toNew \in Wire /\ (toOld = <<>> \/ toNew = <<>>)
  /\ new \in {"connecting", "importing", "waiting", "starting", "unpausing", "serving"}
       => toNew = <<>>
  /\ OldLives /\ new \in {"connecting", "importing", "starting", "unpausing"} => toOld = <<>>
  /\ OldLives /\ (toNew = <<"fds">> \/ new = "importing") => old = "restoring"
  /\ OldLives /\ new = "waiting" /\ toOld # <<>> => old = "restoring" /\ toOld = <<"restored">>
  /\ old = "committing" => toOld = <<>> /\ toNew = <<>>

StreamInv == Inv /\ FilesInv /\ PartsInv /\ OneLine

LEMMA Watching ==
  ASSUME FilesInv, Watch
  PROVE  overlap' \in BOOLEAN /\ Watched' /\ (~overlap' => ~overlap)
  BY DEF FilesInv, SocketTypes, Watch, Watched

LEMMA StreamInvInit == HandoffInit => StreamInv
<1> SUFFICES ASSUME HandoffInit PROVE StreamInv
  OBVIOUS
<1> USE SocketsAssumption, HandoffAssumption DEF SocketsAssumption, HandoffAssumption, Sockets, HandoffInit
<1>1. Inv
  BY InvInit
<1>2. SocketTypes
  <2>1. /\ stage \in [Servers -> Stages] /\ at \in [Servers -> Sockets]
        /\ file \in [Sockets -> Servers \cup {None}] /\ open \in [Sockets -> SUBSET Servers]
        /\ ident \in [Servers -> [Sockets -> Servers \cup {None}]]
    BY DEF Stages
  <2>2. crashes \in 0 .. MaxCrashes
    OBVIOUS
  <2>3. overlap \in BOOLEAN
    OBVIOUS
  <2> QED BY <2>1, <2>2, <2>3 DEF SocketTypes
<1>3. InOrder /\ Watched
  BY DEF InOrder, Watched, Stale
<1>4. FilesAreHeld /\ HeldIsOpen /\ HeldIsThere /\ ClearedIsStale
  BY DEF FilesAreHeld, HeldIsOpen, HeldIsThere, ClearedIsStale, Binding, Identified, Left,
     Alive, Starting
<1>5. PartsInv
  BY DEF PartsInv, OldStage, NewStage, ThirdStage, Undisturbed, InTheWay, Alive, Starting,
     OldLives, NewLives
<1>6. OneLine
  BY DEF OneLine, Wire
<1> QED BY <1>1, <1>2, <1>3, <1>4, <1>5, <1>6 DEF StreamInv, FilesInv

(* The sockets are left alone. *)
LEMMA SocketsUntouched ==
  ASSUME FilesInv, UNCHANGED socketVars, Watch \/ UNCHANGED overlap,
         \A k \in Sockets : Left(k)' <=> Left(k)
  PROVE  FilesInv'
<1>1. overlap' \in BOOLEAN /\ Watched' /\ (~overlap' => ~overlap)
  <2>1. CASE UNCHANGED overlap
    BY <2>1 DEF socketVars, FilesInv, SocketTypes, Watched, Stale, Contended, Starters, Starting
  <2> QED BY <2>1, Watching
<1> USE DEF FilesInv, socketVars
<1>2. SocketTypes' /\ InOrder'
  BY <1>1 DEF SocketTypes, InOrder
<1>3. FilesAreHeld' /\ HeldIsOpen'
  BY DEF SocketTypes, FilesAreHeld, HeldIsOpen, Binding, Identified, Alive, Starting
<1>4. HeldIsThere' /\ ClearedIsStale'
  BY <1>1 DEF HeldIsThere, ClearedIsStale, Binding, Identified, Alive, Starting
<1> QED BY <1>1, <1>2, <1>3, <1>4

(* A server that holds no socket starts to take them. *)
LEMMA StartFiles ==
  ASSUME FilesInv, Watch, NEW s \in Servers,
         stage' = [stage EXCEPT ![s] = "probe"], at' = [at EXCEPT ![s] = "api"],
         UNCHANGED <<file, open, ident, crashes>>, stage[s] # "crashed",
         \A k \in Sockets : ~Binding(s, k) /\ ~Identified(s, k),
         s # Old => \A k \in Sockets : Left(k)' <=> Left(k)
  PROVE  FilesInv'
<1> USE DEF FilesInv
<1>1. overlap' \in BOOLEAN /\ Watched' /\ (~overlap' => ~overlap)
  BY Watching
<1>2. SocketTypes' /\ InOrder'
  BY <1>1 DEF SocketTypes, InOrder, Stages, Sockets
<1>3. \A k \in Sockets : file[k] # s \/ file[k] = None
  BY DEF FilesAreHeld
<1>4. FilesAreHeld'
  BY <1>3 DEF SocketTypes, FilesAreHeld, Binding, Identified, Alive, Starting
<1>5. HeldIsOpen'
  BY DEF SocketTypes, HeldIsOpen, Binding, Identified, Alive, Starting, Sockets
<1>6. HeldIsThere'
  BY <1>1 DEF SocketTypes, HeldIsThere, Binding, Identified, Alive, Starting, Sockets
<1>7. ClearedIsStale'
  BY <1>1, <1>3 DEF SocketTypes, ClearedIsStale
<1> QED BY <1>1, <1>2, <1>4, <1>5, <1>6, <1>7

(* A server takes its sockets, one step. *)
LEMMA TakeFiles ==
  ASSUME FilesInv, Watch, NEW s \in Servers, TakeSockets(s),
         \A k \in Sockets : (Left(k)' <=> Left(k)) /\ (s = Old => ~Left(k))
  PROVE  FilesInv'
<1> USE SocketsAssumption DEF SocketsAssumption, FilesInv, Sockets
<1>1. overlap' \in BOOLEAN /\ Watched' /\ (~overlap' => ~overlap)
  BY Watching
<1>2. CASE Probe(s)
  <2>0. /\ stage[s] = "probe" /\ ~Listening(at[s])
        /\ stage' = [stage EXCEPT ![s] = IF file[at[s]] = None THEN "bind" ELSE "clear"]
        /\ UNCHANGED <<at, file, open, ident, crashes>>
    BY <1>2 DEF Probe, Goes, Blocked
  <2>1. SocketTypes' /\ InOrder'
    BY <1>1, <2>0 DEF SocketTypes, InOrder, Stages
  <2>2. FilesAreHeld'
    BY <2>0 DEF SocketTypes, FilesAreHeld, Binding, Identified, Alive, Starting
  <2>3. HeldIsOpen' /\ HeldIsThere'
    BY <1>1, <2>0 DEF SocketTypes, HeldIsOpen, HeldIsThere, Binding, Identified, Alive, Starting
  <2>4. file[at[s]] # None => stage[file[at[s]]] = "crashed"
    BY <2>0 DEF SocketTypes, Listening, FilesAreHeld, HeldIsOpen
  <2>5. ClearedIsStale'
    BY <1>1, <2>0, <2>4 DEF SocketTypes, ClearedIsStale
  <2> QED BY <1>1, <2>1, <2>2, <2>3, <2>5
<1>3. CASE Clear(s)
  <2>0. /\ stage[s] = "clear" /\ stage' = [stage EXCEPT ![s] = "bind"]
        /\ file' = [file EXCEPT ![at[s]] = None] /\ UNCHANGED <<at, open, ident, crashes>>
    BY <1>3 DEF Clear, Goes
  <2>1. SocketTypes' /\ InOrder'
    BY <1>1, <2>0 DEF SocketTypes, InOrder, Stages
  <2>2. FilesAreHeld' /\ HeldIsOpen'
    BY <2>0 DEF SocketTypes, FilesAreHeld, HeldIsOpen, Binding, Identified, Alive, Starting
  <2>3. ~overlap => stage[file[at[s]]] = "crashed"
    BY <2>0 DEF ClearedIsStale
  <2>4. HeldIsThere'
    BY <1>1, <2>0, <2>3 DEF SocketTypes, HeldIsThere, Binding, Identified, Alive, Starting
  <2>5. ASSUME NEW t \in Servers, ~overlap', stage'[t] = "clear" PROVE FALSE
    <3>1. t # s /\ stage[t] = "clear"
      BY <2>0, <2>5 DEF SocketTypes
    <3>2. file[at[s]] \in Servers /\ stage'[file[at[s]]] = "crashed"
      BY <1>1, <2>0, <2>5 DEF SocketTypes, ClearedIsStale
    <3>3. Stale' /\ Contended'
      BY <2>0, <3>1, <3>2 DEF SocketTypes, Stale, Contended, Starters, Starting
    <3> QED BY <1>1, <2>5, <3>3 DEF Watched
  <2>6. ClearedIsStale'
    BY <2>5 DEF ClearedIsStale
  <2> QED BY <1>1, <2>1, <2>2, <2>4, <2>6
<1>4. CASE Bind(s)
  <2>0. /\ stage[s] = "bind" /\ file[at[s]] = None
        /\ stage' = [stage EXCEPT ![s] = "identify"]
        /\ file' = [file EXCEPT ![at[s]] = s] /\ open' = [open EXCEPT ![at[s]] = @ \cup {s}]
        /\ UNCHANGED <<at, ident, crashes>>
    BY <1>4 DEF Bind, Goes, Blocked
  <2>1. SocketTypes' /\ InOrder'
    BY <1>1, <2>0 DEF SocketTypes, InOrder, Stages
  <2>2. FilesAreHeld' /\ HeldIsOpen'
    BY <2>0 DEF SocketTypes, FilesAreHeld, HeldIsOpen, Binding, Identified, Alive, Starting
  <2>3. HeldIsThere' /\ ClearedIsStale'
    BY <1>1, <2>0
       DEF SocketTypes, HeldIsThere, ClearedIsStale, Binding, Identified, Alive, Starting
  <2> QED BY <1>1, <2>1, <2>2, <2>3
<1>5. CASE Identify(s)
  <2>0. /\ stage[s] = "identify" /\ file[at[s]] # None
        /\ stage' = [stage EXCEPT ![s] = IF at[s] = "api" THEN "probe" ELSE "up"]
        /\ ident' = [ident EXCEPT ![s][at[s]] = file[at[s]]]
        /\ at' = [at EXCEPT ![s] = "client"] /\ UNCHANGED <<file, open, crashes>>
    BY <1>5 DEF Identify, Goes, Blocked
  <2>1. SocketTypes' /\ InOrder'
    <3>1. ident' \in [Servers -> [Sockets -> Servers \cup {None}]]
      BY <2>0 DEF SocketTypes
    <3> QED BY <1>1, <2>0, <3>1 DEF SocketTypes, InOrder, Stages
  <2>2. FilesAreHeld'
    BY <2>0 DEF SocketTypes, FilesAreHeld, Binding, Identified, Alive, Starting
  <2>3. HeldIsOpen'
    BY <2>0 DEF SocketTypes, HeldIsOpen, Binding, Identified, Alive, Starting
  <2>4. HeldIsThere'
    BY <1>1, <2>0 DEF SocketTypes, HeldIsThere, Binding, Identified, Alive, Starting
  <2>5. ClearedIsStale'
    BY <1>1, <2>0 DEF SocketTypes, ClearedIsStale
  <2> QED BY <1>1, <2>1, <2>2, <2>3, <2>4, <2>5
<1> QED BY <1>2, <1>3, <1>4, <1>5 DEF TakeSockets

(* Which files a server removes: its own, but for an overlap. *)
LEMMA OwnFilesGo ==
  ASSUME FilesInv, NEW s \in Servers, NEW ks \in SUBSET Sockets
  PROVE  /\ FilesWithout(s, ks) \in [Sockets -> Servers \cup {None}]
         /\ \A k \in Sockets : FilesWithout(s, ks)[k] \in {file[k], None}
         /\ \A k \in ks : ident[s][k] = s => FilesWithout(s, ks)[k] # s
         /\ ~overlap => \A k \in Sockets : file[k] # s => FilesWithout(s, ks)[k] = file[k]
         /\ \A k \in Sockets \ ks : FilesWithout(s, ks)[k] = file[k]
<1> USE SocketsAssumption DEF SocketsAssumption
<1> DEFINE f == FilesWithout(s, ks)
<1>1. f \in [Sockets -> Servers \cup {None}] /\ \A k \in Sockets : f[k] \in {file[k], None}
  BY DEF FilesInv, SocketTypes, FilesWithout
<1>2. \A k \in ks : ident[s][k] = s => f[k] # s
  BY DEF FilesWithout
<1>3. ~overlap => \A k \in Sockets : file[k] # s => f[k] = file[k]
  BY DEF FilesInv, HeldIsThere, FilesWithout
<1>4. \A k \in Sockets \ ks : f[k] = file[k]
  BY DEF FilesWithout
<1> QED BY <1>1, <1>2, <1>3, <1>4

(* A server ends: it has removed the files it held, or it crashed. *)
LEMMA EndFiles ==
  ASSUME FilesInv, Watch, NEW s \in Servers, NEW ks \in SUBSET Sockets, NEW end \in {"gone", "crashed"},
         stage' = [stage EXCEPT ![s] = end], file' = FilesWithout(s, ks) \/ file' = file,
         open' = [k \in Sockets |-> open[k] \ {s}] \/ (s = Old /\ open' = open),
         UNCHANGED <<at, ident>>, crashes' \in 0 .. MaxCrashes,
         stage[s] # "crashed", end = "gone" => \A k \in Sockets : file'[k] # s,
         \A k \in Sockets : (Left(k)' <=> Left(k)) \/ s = Old
  PROVE  FilesInv'
<1> USE SocketsAssumption DEF SocketsAssumption, FilesInv
<1>1. overlap' \in BOOLEAN /\ Watched' /\ (~overlap' => ~overlap)
  BY Watching
<1>2. /\ file' \in [Sockets -> Servers \cup {None}]
      /\ \A k \in Sockets : file'[k] \in {file[k], None}
      /\ ~overlap => \A k \in Sockets : file[k] # s => file'[k] = file[k]
  BY OwnFilesGo DEF SocketTypes
<1>3. /\ open' \in [Sockets -> SUBSET Servers]
      /\ \A k \in Sockets : \A t \in Servers : t # s => (t \in open'[k] <=> t \in open[k])
      /\ \A k \in Sockets : s \in open'[k] => s = Old
  BY DEF SocketTypes
<1>4. SocketTypes' /\ InOrder'
  BY <1>1, <1>2, <1>3 DEF SocketTypes, InOrder, Stages
<1>5. FilesAreHeld'
  BY <1>2 DEF SocketTypes, FilesAreHeld, Binding, Identified, Alive, Starting
<1>6. HeldIsOpen'
  BY <1>3 DEF SocketTypes, HeldIsOpen, Binding, Identified, Alive, Starting
<1>7. HeldIsThere'
  BY <1>1, <1>2 DEF SocketTypes, HeldIsThere, Binding, Identified, Alive, Starting
<1>8. ClearedIsStale'
  <2> SUFFICES ASSUME NEW t \in Servers, ~overlap', stage'[t] = "clear"
               PROVE  file'[at'[t]] # None /\ stage'[file'[at'[t]]] = "crashed"
    BY DEF ClearedIsStale
  <2>1. t # s /\ stage[t] = "clear" /\ at'[t] = at[t] /\ at[t] \in Sockets
    BY DEF SocketTypes
  <2>2. file[at[t]] # None /\ stage[file[at[t]]] = "crashed" /\ file[at[t]] \in Servers
    BY <1>1, <2>1 DEF ClearedIsStale, SocketTypes
  <2>3. file'[at[t]] = file[at[t]]
    BY <1>1, <1>2, <2>1, <2>2 DEF SocketTypes
  <2> QED BY <2>1, <2>2, <2>3 DEF SocketTypes
<1> QED BY <1>1, <1>4, <1>5, <1>6, <1>7, <1>8

(* The old server leaves a socket. *)
LEMMA LeaveFiles ==
  ASSUME FilesInv, OldStage, Watch, NEW k \in Sockets, OldLeavesSocket(k)
  PROVE  FilesInv'
<1> USE SocketsAssumption, HandoffAssumption
    DEF SocketsAssumption, HandoffAssumption, FilesInv, Sockets
<1>0. /\ old = IF k = "api" THEN "leavingApi" ELSE "leavingClient"
      /\ old' = IF k = "api" THEN "leavingClient" ELSE "readying"
      /\ file' = FilesWithout(Old, {k}) /\ UNCHANGED <<stage, at, open, ident, crashes>>
      /\ stage[Old] = "up"
  BY DEF OldLeavesSocket, OldStage
<1>1. overlap' \in BOOLEAN /\ Watched' /\ (~overlap' => ~overlap)
  BY Watching
<1>2. /\ file' \in [Sockets -> Servers \cup {None}]
      /\ \A j \in Sockets : file'[j] \in {file[j], None}
      /\ ident[Old][k] = Old => file'[k] # Old
      /\ ~overlap => \A j \in Sockets : file[j] # Old => file'[j] = file[j]
      /\ \A j \in Sockets \ {k} : file'[j] = file[j]
  BY <1>0, OwnFilesGo
<1>3. SocketTypes' /\ InOrder'
  BY <1>0, <1>1, <1>2 DEF SocketTypes, InOrder
<1>4. \A j \in Sockets : Left(j)' <=> Left(j) \/ j = k
  BY <1>0 DEF Left
<1>5. FilesAreHeld'
  BY <1>0, <1>2, <1>4 DEF SocketTypes, FilesAreHeld, Binding, Identified, Alive, Starting
<1>6. HeldIsOpen'
  BY <1>0, <1>4 DEF SocketTypes, HeldIsOpen, Binding, Identified, Alive, Starting
<1>7. HeldIsThere'
  BY <1>0, <1>1, <1>2, <1>4 DEF SocketTypes, HeldIsThere, Binding, Identified, Alive, Starting
<1>8. ClearedIsStale'
  BY <1>0, <1>1, <1>2 DEF SocketTypes, ClearedIsStale
<1> QED BY <1>1, <1>3, <1>5, <1>6, <1>7, <1>8

LEMMA ThirdStopFiles ==
  ASSUME FilesInv, Watch, Stop(Third), UNCHANGED handoffVars
  PROVE  FilesInv'
<1> USE SocketsAssumption, HandoffAssumption
    DEF SocketsAssumption, HandoffAssumption, FilesInv, Sockets
<1>0. /\ stage[Third] = "up" /\ stage' = [stage EXCEPT ![Third] = "stopping"]
      /\ file' = FilesWithout(Third, {"client"}) /\ UNCHANGED <<at, open, ident, crashes, old>>
  BY DEF Stop, handoffVars
<1>1. overlap' \in BOOLEAN /\ Watched' /\ (~overlap' => ~overlap)
  BY Watching
<1>2. /\ file' \in [Sockets -> Servers \cup {None}]
      /\ \A k \in Sockets : file'[k] \in {file[k], None}
      /\ ident[Third]["client"] = Third => file'["client"] # Third
      /\ ~overlap => \A k \in Sockets : file[k] # Third => file'[k] = file[k]
      /\ file'["api"] = file["api"]
  BY <1>0, OwnFilesGo
<1>3. SocketTypes' /\ InOrder'
  BY <1>0, <1>1, <1>2 DEF SocketTypes, InOrder, Stages
<1>4. FilesAreHeld'
  BY <1>0, <1>2 DEF SocketTypes, FilesAreHeld, Binding, Identified, Left, Alive, Starting
<1>5. HeldIsOpen'
  BY <1>0 DEF SocketTypes, HeldIsOpen, Binding, Identified, Left, Alive, Starting
<1>6. HeldIsThere'
  BY <1>0, <1>1, <1>2 DEF SocketTypes, HeldIsThere, Binding, Identified, Left, Alive, Starting
<1>7. ClearedIsStale'
  BY <1>0, <1>1, <1>2 DEF SocketTypes, ClearedIsStale
<1> QED BY <1>1, <1>3, <1>4, <1>5, <1>6, <1>7

(* What a server that ends has left of its files. *)
LEMMA NothingLeft ==
  ASSUME FilesInv, NEW s \in Servers, NEW ks \in SUBSET Sockets, stage[s] # "crashed",
         \A k \in Sockets : Binding(s, k) => file[k] # s,
         \A k \in Sockets : Identified(s, k) => k \in ks
  PROVE  \A k \in Sockets : FilesWithout(s, ks)[k] # s
<1> USE SocketsAssumption DEF SocketsAssumption
<1> SUFFICES ASSUME NEW k \in Sockets, FilesWithout(s, ks)[k] = s PROVE FALSE
  OBVIOUS
<1>1. file[k] = s
  BY OwnFilesGo
<1>2. Identified(s, k) /\ ident[s][k] = s
  BY <1>1 DEF FilesInv, FilesAreHeld
<1> QED BY <1>2, OwnFilesGo

(* The import server is killed. *)
LEMMA KillFiles ==
  ASSUME FilesInv, NewStage, Watch, UNCHANGED <<at, file, ident>>,
         crashes' \in 0 .. MaxCrashes,
         stage' = [stage EXCEPT ![New] = IF Alive(New) THEN "crashed" ELSE @],
         open' = [k \in Sockets |-> open[k] \ {New}],
         \A k \in Sockets : Left(k)' <=> Left(k)
  PROVE  FilesInv'
<1> USE HandoffAssumption DEF HandoffAssumption
<1>1. CASE Alive(New)
  <2>1. stage' = [stage EXCEPT ![New] = "crashed"] /\ stage[New] # "crashed"
    BY <1>1 DEF Alive, Starting
  <2> QED BY <2>1, EndFiles
<1>2. CASE ~Alive(New)
  <2>1. stage' = stage /\ open' = open
    BY <1>2 DEF FilesInv, SocketTypes, HeldIsOpen
  <2>2. overlap' \in BOOLEAN /\ Watched' /\ (~overlap' => ~overlap)
    BY Watching
  <2>3. SocketTypes' /\ InOrder'
    BY <2>1, <2>2 DEF FilesInv, SocketTypes, InOrder
  <2>4. FilesAreHeld' /\ HeldIsOpen'
    BY <2>1 DEF FilesInv, SocketTypes, FilesAreHeld, HeldIsOpen, Binding, Identified, Alive, Starting
  <2>5. HeldIsThere' /\ ClearedIsStale'
    BY <2>1, <2>2 DEF FilesInv, HeldIsThere, ClearedIsStale, Binding, Identified, Alive, Starting
  <2> QED BY <2>2, <2>3, <2>4, <2>5 DEF FilesInv
<1> QED BY <1>1, <1>2

----------------------------------------------------------------------------
(* The sockets' files are kept so by every step. *)

LEMMA OldFiles == ASSUME StreamInv, OldStep, Watch PROVE FilesInv'
<1> USE HandoffAssumption DEF HandoffAssumption, StreamInv, PartsInv
<1>1. CASE \/ OldBegins \/ OldSpawns \/ OldSendsManifest \/ OldSendsFds \/ OldSeesRestored
           \/ OldSeesReady \/ OldCommits \/ OldFailsToPause \/ OldRollsBack
           \/ \E p \in Panes : OldPauses(p) \/ OldReleases(p)
  <2>1. UNCHANGED socketVars
    BY <1>1 DEF OldBegins, OldSpawns, OldSendsManifest, OldSendsFds, OldSeesRestored,
       OldSeesReady, OldCommits, OldFailsToPause, OldRollsBack, OldPauses, OldReleases
  <2>2. \A k \in Sockets : Left(k)' <=> Left(k)
    BY <1>1 DEF OldBegins, OldSpawns, OldSendsManifest, OldSendsFds, OldSeesRestored,
       OldSeesReady, OldCommits, OldFailsToPause, OldRollsBack, OldPauses, OldReleases, Left
  <2> QED BY <2>1, <2>2, SocketsUntouched
<1>2. CASE \E k \in Sockets : OldLeavesSocket(k)
  BY <1>2, LeaveFiles
<1>3. CASE OldFinishes
  <2>1. old = "releasing" /\ stage[Old] = "up" /\ End(Old, FilesWithout(Old, Sockets))
    BY <1>3 DEF OldFinishes, OldStage
  <2>2. \A k \in Sockets : FilesWithout(Old, Sockets)[k] # Old
    BY <2>1, NothingLeft DEF Binding
  <2>3. crashes' \in 0 .. MaxCrashes
    BY <2>1 DEF End, FilesInv, SocketTypes
  <2> QED BY <2>1, <2>2, <2>3, EndFiles DEF End
<1>4. CASE OldGivesUpEarly \/ OldGivesUpLate
  <2>1. \A k \in Sockets : Left(k)' <=> Left(k)
    BY <1>4 DEF OldGivesUpEarly, OldGivesUpLate, Left
  <2>2. crashes' \in 0 .. MaxCrashes
    BY <1>4 DEF OldGivesUpEarly, OldGivesUpLate, FilesInv, SocketTypes
  <2> QED BY <1>4, <2>1, <2>2, KillFiles DEF OldGivesUpEarly, OldGivesUpLate, KillImport
<1>5. CASE OldRestores
  <2>1. old = "waiting" /\ stage[Old] = "up"
    BY <1>5 DEF OldRestores, OldStage
  <2>2. \A k \in Sockets : ~Binding(Old, k) /\ ~Identified(Old, k)
    BY <2>1 DEF Binding, Identified, Left
  <2> QED BY <1>5, <2>1, <2>2, StartFiles DEF OldRestores
<1>6. CASE OldTakesSockets
  <2>1. \A k \in Sockets : ~Left(k) /\ ~Left(k)'
    BY <1>6 DEF OldTakesSockets, Left
  <2> QED BY <1>6, <2>1, TakeFiles DEF OldTakesSockets
<1>7. CASE OldCannotRestore
  <2>0. /\ stage' = [stage EXCEPT ![Old] = "gone"] /\ UNCHANGED <<at, open, ident, crashes>>
        /\ \/ old = "waiting" /\ file' = file
           \/ old = "restoringSockets" /\ Blocked(Old) /\ file' = FilesWithout(Old, {"api"})
    BY <1>7 DEF OldCannotRestore
  <2>1. CASE old = "waiting"
    <3>1. stage[Old] = "up" /\ file' = file
      BY <2>0, <2>1 DEF OldStage
    <3>2. \A k \in Sockets : file[k] # Old \/ file[k] = None
      BY <2>1, <3>1 DEF FilesInv, FilesAreHeld, Binding, Identified, Left
    <3>3. \A k \in Sockets : file'[k] # Old
      BY <3>1, <3>2, SocketsAssumption DEF SocketsAssumption
    <3>4. crashes' \in 0 .. MaxCrashes
      BY <2>0 DEF FilesInv, SocketTypes
    <3> QED BY <2>0, <3>1, <3>3, <3>4, EndFiles
  <2>2. CASE old = "restoringSockets" /\ Blocked(Old) /\ file' = FilesWithout(Old, {"api"})
    <3>1. Starting(Old) /\ stage[Old] \in {"probe", "bind", "identify"}
      BY <2>2 DEF OldStage, Blocked
    <3>2. \A k \in Sockets : Binding(Old, k) => file[k] # Old
      BY <2>2, SocketsAssumption DEF SocketsAssumption, Blocked, Binding
    <3>3. \A k \in Sockets : Identified(Old, k) => k \in {"api"}
      BY <3>1 DEF Identified
    <3>4. \A k \in Sockets : FilesWithout(Old, {"api"})[k] # Old
      BY <3>1, <3>2, <3>3, NothingLeft DEF Sockets
    <3>5. crashes' \in 0 .. MaxCrashes
      BY <2>0 DEF FilesInv, SocketTypes
    <3> QED BY <2>0, <2>2, <3>1, <3>4, <3>5, EndFiles DEF Sockets
  <2> QED BY <2>0, <2>1, <2>2
<1> QED BY <1>1, <1>2, <1>3, <1>4, <1>5, <1>6, <1>7 DEF OldStep

LEMMA NewFiles == ASSUME StreamInv, NewStep, Watch PROVE FilesInv'
<1> USE HandoffAssumption DEF HandoffAssumption, StreamInv, PartsInv
<1>0. \A k \in Sockets : Left(k)' <=> Left(k)
  <2>1. old' = old
    BY DEF NewStep, NewConnects, NewValidates, NewReceives, NewImports, NewStarts,
       NewTakesSockets, NewReportsReady, NewAssumes, NewServes, NewUnpauses, NewFails,
       NewMissesCommit, NewExits, Dropped, handoffVars
  <2> QED BY <2>1 DEF Left
<1>1. CASE UNCHANGED socketVars
  BY <1>0, <1>1, SocketsUntouched
<1>2. CASE NewStarts
  <2>1. /\ stage[New] = "down" /\ at[New] = "api" /\ stage' = [stage EXCEPT ![New] = "probe"]
        /\ UNCHANGED <<at, file, open, ident, crashes>>
    BY <1>2 DEF NewStarts, NewStage
  <2>2. at' = [at EXCEPT ![New] = "api"]
    BY <2>1 DEF FilesInv, SocketTypes
  <2>3. \A k \in Sockets : ~Binding(New, k) /\ ~Identified(New, k)
    BY <2>1 DEF Binding, Identified
  <2> QED BY <1>0, <2>1, <2>2, <2>3, StartFiles
<1>3. CASE NewTakesSockets
  BY <1>0, <1>3, TakeFiles DEF NewTakesSockets
<1>4. ASSUME Dropped, \A k \in Sockets : Binding(New, k) => file[k] # New PROVE FilesInv'
  <2>1. CASE Alive(New)
    <3>1. End(New, FilesWithout(New, Sockets)) /\ stage[New] # "crashed"
      BY <1>4, <2>1 DEF Dropped, Alive, Starting
    <3>2. \A k \in Sockets : FilesWithout(New, Sockets)[k] # New
      BY <1>4, <3>1, NothingLeft
    <3>3. crashes' \in 0 .. MaxCrashes
      BY <3>1 DEF End, FilesInv, SocketTypes
    <3> QED BY <1>0, <3>1, <3>2, <3>3, EndFiles DEF End
  <2> QED BY <1>1, <1>4, <2>1 DEF Dropped
<1>5. CASE NewFails
  <2>1. \A k \in Sockets : Binding(New, k) => file[k] # New
    BY <1>5, SocketsAssumption
       DEF SocketsAssumption, NewFails, Binding, Blocked, NewStage, Alive, Starting
  <2> QED BY <1>4, <1>5, <2>1 DEF NewFails
<1>6. CASE NewMissesCommit
  BY <1>4, <1>6 DEF NewMissesCommit, Binding, NewStage
<1> QED
  BY <1>1, <1>2, <1>3, <1>5, <1>6
     DEF NewStep, NewConnects, NewValidates, NewReceives, NewImports, NewReportsReady,
         NewAssumes, NewServes, NewUnpauses, NewExits

LEMMA OtherFiles ==
  ASSUME StreamInv, (OldCrashes \/ NewCrashes \/ ThirdStarts \/ ThirdStep) /\ Watch
  PROVE  FilesInv'
<1> USE HandoffAssumption DEF HandoffAssumption, StreamInv, PartsInv
<1>1. CASE OldCrashes
  <2>1. /\ stage' = [stage EXCEPT ![Old] = "crashed"] /\ UNCHANGED <<at, file, ident>>
        /\ open' = [k \in Sockets |-> open[k] \ {Old}]
        /\ crashes < MaxCrashes /\ crashes' = crashes + 1
    BY <1>1 DEF OldCrashes
  <2>2. stage[Old] # "crashed"
    BY <1>1 DEF OldCrashes, OldLives, OldStage, Starting, Inv, Types, OldPcs, CommitWritten
  <2>3. crashes' \in 0 .. MaxCrashes
    BY <2>1, SocketsAssumption DEF SocketsAssumption, FilesInv, SocketTypes
  <2> QED BY <2>1, <2>2, <2>3, EndFiles
<1>2. CASE NewCrashes
  <2>1. crashes' \in 0 .. MaxCrashes
    BY <1>2, SocketsAssumption DEF SocketsAssumption, FilesInv, SocketTypes, NewCrashes
  <2>2. \A k \in Sockets : Left(k)' <=> Left(k)
    BY <1>2 DEF NewCrashes, Left
  <2> QED BY <1>2, <2>1, <2>2, KillFiles DEF NewCrashes
<1>3. CASE ThirdStarts
  <2>1. \A k \in Sockets : Left(k)' <=> Left(k)
    BY <1>3 DEF ThirdStarts, handoffVars, Left
  <2>2. \A k \in Sockets : ~Binding(Third, k) /\ ~Identified(Third, k)
    BY <1>3 DEF ThirdStarts, Start, Binding, Identified, Alive, Starting
  <2> QED BY <1>3, <2>1, <2>2, StartFiles DEF ThirdStarts, Start
<1>4. CASE ThirdStep
  <2>0. UNCHANGED handoffVars /\ \A k \in Sockets : Left(k)' <=> Left(k)
    BY <1>4 DEF ThirdStep, handoffVars, Left
  <2>1. CASE TakeSockets(Third)
    BY <2>0, <2>1, TakeFiles
  <2>2. CASE Stop(Third)
    BY <2>0, <2>2, ThirdStopFiles
  <2>3. CASE Fail(Third) \/ Stopped(Third)
    <3>1. /\ End(Third, FilesWithout(Third, {"api"}))
          /\ Blocked(Third) \/ stage[Third] = "stopping"
          /\ stage[Third] \in {"probe", "bind", "identify", "stopping"}
      BY <2>3 DEF Fail, Stopped, Blocked
    <3>2. \A k \in Sockets : Binding(Third, k) => file[k] # Third
      BY <3>1, SocketsAssumption DEF SocketsAssumption, Blocked, Binding
    <3>3. \A k \in Sockets : Identified(Third, k) => k \in {"api"}
      BY <3>1 DEF Identified
    <3>4. \A k \in Sockets : FilesWithout(Third, {"api"})[k] # Third
      BY <3>1, <3>2, <3>3, NothingLeft DEF Sockets
    <3>5. crashes' \in 0 .. MaxCrashes
      BY <3>1 DEF End, FilesInv, SocketTypes
    <3> QED BY <2>0, <3>1, <3>4, <3>5, EndFiles DEF End, Sockets
  <2> QED BY <1>4, <2>1, <2>2, <2>3 DEF ThirdStep, StartStep
<1> QED BY <1>1, <1>2, <1>3, <1>4

----------------------------------------------------------------------------
(* So are the parts the three servers have in the handoff. *)

LEMMA StaysUndisturbed ==
  ASSUME FilesInv, Watch,
         old' \in {"pausing", "accepting", "validating", "restoring", "leavingApi"}
           \/ (old' \in {"serving", "rollback"} /\ new' = "none")
         => ~overlap /\ stage'[Third] = "down" /\ ~Alive(New)'
  PROVE  Undisturbed'
<1> SUFFICES ASSUME ~overlap, stage'[Third] = "down", ~Alive(New)'
             PROVE  ~overlap'
  BY DEF Undisturbed
<1>1. ~Starting(Third)' /\ ~Starting(New)'
  BY DEF Alive, Starting
<1>2. ~Contended'
  BY <1>1, HandoffAssumption DEF HandoffAssumption, Contended, Starters
<1> QED BY <1>2 DEF FilesInv, SocketTypes, Watch

(* A socket's file is the third server's. *)
LEMMA ThirdIsThere ==
  ASSUME FilesInv, ThirdStage, NEW k \in Sockets, file[k] = Third
  PROVE  Third \in open["api"] \/ ident[Third]["api"] # None
<1>1. Binding(Third, k) \/ Identified(Third, k)
  BY SocketsAssumption, HandoffAssumption
     DEF SocketsAssumption, HandoffAssumption, FilesInv, FilesAreHeld, ThirdStage
<1>2. CASE k = "api"
  BY <1>1, <1>2, HandoffAssumption DEF HandoffAssumption, FilesInv, HeldIsOpen
<1>3. CASE k = "client"
  BY <1>1, <1>3 DEF ThirdStage, Binding, Identified
<1> QED BY <1>2, <1>3 DEF Sockets

LEMMA OldParts == ASSUME StreamInv, OldStep, Watch PROVE PartsInv'
<1> USE HandoffAssumption, SocketsAssumption
    DEF HandoffAssumption, SocketsAssumption, StreamInv, PartsInv, OldLives, NewLives
<1>0. ~overlap' => ~overlap
  BY Watching
<1>1. ASSUME UNCHANGED <<stage, at, open, ident, new>>,
             \/ old = "serving" /\ new = "none" /\ old' = "pausing"
             \/ old = "pausing" /\ old' = "rollback"
             \/ old = "rollback" /\ old' = "serving"
             \/ old = "accepting" /\ old' = "validating"
             \/ old = "validating" /\ old' = "restoring"
             \/ old = "restoring" /\ old' = "leavingApi"
             \/ old = "leavingApi" /\ old' = "leavingClient"
             \/ old = "leavingClient" /\ old' = "readying"
             \/ old = "readying" /\ old' = "committing"
             \/ old = "committing" /\ old' = "releasing"
             \/ old' = old /\ old \in {"pausing", "releasing"}
      PROVE  PartsInv'
  <2>1. OldStage'
    BY <1>1 DEF OldStage, Alive, Starting
  <2>2. NewStage' /\ ThirdStage'
    BY <1>1 DEF NewStage, ThirdStage, Binding, Alive, Starting
  <2>3. Undisturbed'
    BY <1>1, StaysUndisturbed DEF Undisturbed, Alive, Starting
  <2>4. InTheWay'
    BY <1>0, <1>1 DEF InTheWay, OldStage
  <2> QED BY <2>1, <2>2, <2>3, <2>4
<1>2. CASE OldBegins \/ OldFailsToPause \/ OldRollsBack \/ \E p \in Panes : OldPauses(p)
  <2>1. UNCHANGED <<stage, at, open, ident, new>>
    BY <1>2 DEF OldBegins, OldFailsToPause, OldRollsBack, OldPauses, socketVars
  <2>2. CASE OldBegins
    BY <1>1, <2>1, <2>2 DEF OldBegins
  <2>3. CASE OldFailsToPause
    BY <1>1, <2>1, <2>3 DEF OldFailsToPause
  <2>5. CASE OldRollsBack
    BY <1>1, <2>1, <2>5 DEF OldRollsBack
  <2>4. ASSUME NEW p \in Panes, OldPauses(p) PROVE PartsInv'
    BY <1>1, <2>1, <2>4 DEF OldPauses
  <2> QED BY <1>2, <2>2, <2>3, <2>4, <2>5
<1>3. CASE OldSendsManifest \/ OldSendsFds \/ OldSeesRestored \/ OldSeesReady
  BY <1>1, <1>3 DEF OldSendsManifest, OldSendsFds, OldSeesRestored, OldSeesReady, socketVars
<1>4. CASE OldCommits \/ \E p \in Panes : OldReleases(p)
  BY <1>1, <1>4 DEF OldCommits, OldReleases, socketVars
<1>5. CASE \E k \in Sockets : OldLeavesSocket(k)
  BY <1>1, <1>5 DEF OldLeavesSocket, Sockets
<1>6. CASE OldSpawns
  <2>1. /\ old = "pausing" /\ old' = "accepting" /\ new = "none" /\ new' = "connecting"
        /\ UNCHANGED <<stage, at, open, ident, file>>
    BY <1>6 DEF OldSpawns, socketVars, Inv, ReadyTold
  <2>2. OldStage' /\ NewStage' /\ ThirdStage'
    BY <2>1 DEF OldStage, NewStage, ThirdStage, Binding, Alive, Starting
  <2>3. Undisturbed'
    BY <2>1, StaysUndisturbed DEF Undisturbed, Alive, Starting
  <2> QED BY <2>1, <2>2, <2>3 DEF InTheWay
<1>7. CASE OldFinishes
  <2>1. /\ old = "releasing" /\ old' = "gone" /\ UNCHANGED <<at, ident, new>>
        /\ stage' = [stage EXCEPT ![Old] = "gone"]
        /\ open' = [k \in Sockets |-> open[k] \ {Old}]
    BY <1>7 DEF OldFinishes, End
  <2>2. OldStage' /\ NewStage' /\ ThirdStage'
    BY <2>1 DEF OldStage, NewStage, ThirdStage, Binding, Alive, Starting, FilesInv, SocketTypes,
       Sockets
  <2>3. Undisturbed'
    BY <2>1, StaysUndisturbed
  <2> QED BY <2>1, <2>2, <2>3 DEF InTheWay
<1>8. CASE OldGivesUpEarly \/ OldGivesUpLate
  <2>1. /\ \/ old \in {"accepting", "validating", "restoring"} /\ old' = "rollback"
           \/ old \in {"readying", "committing"} /\ old' = "waiting"
        /\ stage' = [stage EXCEPT ![New] = IF Alive(New) THEN "crashed" ELSE @]
        /\ new' = IF NewLives THEN "crashed" ELSE new
        /\ open' = [k \in Sockets |-> open[k] \ {New}] /\ UNCHANGED <<at, ident, file>>
    BY <1>8 DEF OldGivesUpEarly, OldGivesUpLate, KillImport
  <2>2. /\ stage' \in [Servers -> Stages] /\ ~Alive(New)'
        /\ stage'[Old] = stage[Old] /\ stage'[Third] = stage[Third]
    BY <2>1 DEF FilesInv, SocketTypes, Stages, Alive, Starting
  <2>3. stage[Old] = "up"
    BY <2>1 DEF OldStage
  <2>4. OldStage'
    BY <2>1, <2>2, <2>3 DEF OldStage
  <2>5. new # "none" /\ new' # "none"
    BY <2>1 DEF OldStage
  <2>6. NewStage'
    <3>1. new' \notin {"starting", "ready", "unpausing", "serving", "connecting", "validating",
                      "receiving", "importing", "waiting"}
      BY <2>1 DEF Inv, Types, NewPcs
    <3> QED BY <2>2, <2>5, <3>1 DEF NewStage
  <2>7. ThirdStage'
    BY <2>1, <2>2 DEF ThirdStage, Binding, FilesInv, SocketTypes, Sockets
  <2>8. Undisturbed'
    BY <2>1, <2>2, <2>5, StaysUndisturbed
  <2>9. InTheWay'
    BY <2>1, <2>2, <2>3 DEF InTheWay
  <2> QED BY <2>4, <2>6, <2>7, <2>8, <2>9
<1>9. CASE OldRestores
  <2>1. /\ old = "waiting" /\ old' = "restoringSockets" /\ stage[Old] = "up"
        /\ stage' = [stage EXCEPT ![Old] = "probe"] /\ at' = [at EXCEPT ![Old] = "api"]
        /\ UNCHANGED <<file, open, ident, new>>
    BY <1>9 DEF OldRestores, OldStage
  <2>2. OldStage' /\ NewStage' /\ ThirdStage'
    BY <2>1 DEF OldStage, NewStage, ThirdStage, Binding, Alive, Starting, FilesInv, SocketTypes
  <2>3. Undisturbed'
    BY <2>1, StaysUndisturbed
  <2> QED BY <2>1, <2>2, <2>3 DEF InTheWay, FilesInv, SocketTypes
<1>10. CASE OldTakesSockets
  <2>1. /\ old = "restoringSockets" /\ old' = IF stage'[Old] = "up" THEN "rollback" ELSE old
        /\ TakeSockets(Old) /\ UNCHANGED new
    BY <1>10 DEF OldTakesSockets
  <2>2. /\ stage'[Old] \in {"probe", "clear", "bind", "identify", "up"}
        /\ \A s \in Servers \ {Old} : stage'[s] = stage[s] /\ at'[s] = at[s] /\ ident'[s] = ident[s]
        /\ \A k \in Sockets : Third \in open'[k] <=> Third \in open[k]
    BY <2>1 DEF TakeSockets, Probe, Clear, Bind, Identify, Goes, FilesInv, SocketTypes
  <2>3. OldStage'
    BY <2>1, <2>2 DEF OldStage, Starting, Alive
  <2>4. NewStage' /\ ThirdStage'
    BY <2>1, <2>2 DEF NewStage, ThirdStage, Binding, Alive, Starting, Sockets
  <2>5. Undisturbed'
    BY <2>1, StaysUndisturbed DEF OldStage
  <2>6. stage'[Old] = "bind" => file'[at'[Old]] = None
    BY <2>1 DEF TakeSockets, Probe, Clear, Bind, Identify, Goes, FilesInv, SocketTypes
  <2>7. InTheWay'
    BY <2>1, <2>2, <2>6 DEF InTheWay
  <2> QED BY <2>3, <2>4, <2>5, <2>7
<1>11. CASE OldCannotRestore
  <2>1. /\ old \in {"waiting", "restoringSockets"} /\ old' = "rollback"
        /\ stage' = [stage EXCEPT ![Old] = "gone"] /\ UNCHANGED <<at, open, ident, new>>
    BY <1>11 DEF OldCannotRestore
  <2>2. OldStage' /\ NewStage' /\ ThirdStage'
    BY <2>1 DEF OldStage, NewStage, ThirdStage, Binding, Alive, Starting, FilesInv, SocketTypes
  <2>3. Undisturbed'
    BY <2>1, StaysUndisturbed DEF OldStage
  <2>4. ~Alive(New)
    BY <2>1 DEF OldStage, NewStage
  <2>5. ASSUME NEW k \in Sockets, Listening(k), ~Identified(Old, k), ~Binding(Old, k), Alive(Old)
        PROVE  file[k] = Third
    BY <2>4, <2>5 DEF Listening, FilesInv, SocketTypes, FilesAreHeld, HeldIsOpen, Alive, Starting
  <2>6. ASSUME ~overlap PROVE \E k \in Sockets : file[k] = Third
    <3>1. CASE old = "waiting"
      <4>1. PICK k \in Sockets : Listening(k)
        BY <1>11, <3>1 DEF OldCannotRestore
      <4>2. stage[Old] = "up" /\ ~Identified(Old, k) /\ ~Binding(Old, k)
        BY <3>1 DEF OldStage, Identified, Binding, Left
      <4> QED BY <2>5, <4>1, <4>2 DEF Alive
    <3>2. CASE old = "restoringSockets"
      <4>1. Blocked(Old) /\ Starting(Old) /\ at[Old] \in Sockets
        BY <1>11, <3>2 DEF OldCannotRestore, OldStage, FilesInv, SocketTypes
      <4>2. CASE stage[Old] = "probe"
        <5>1. Listening(at[Old])
          BY <4>1, <4>2 DEF Blocked
        <5>2. ~Identified(Old, at[Old]) /\ ~Binding(Old, at[Old])
          BY <4>2 DEF Identified, Binding
        <5> QED BY <2>5, <4>1, <5>1, <5>2 DEF Alive
      <4>3. CASE stage[Old] = "bind"
        BY <2>6, <3>2, <4>1, <4>3 DEF Blocked, InTheWay
      <4>4. CASE stage[Old] = "identify"
        BY <2>6, <4>1, <4>4 DEF Blocked, FilesInv, HeldIsThere, Binding
      <4> QED BY <4>1, <4>2, <4>3, <4>4 DEF Blocked
    <3> QED BY <2>1, <3>1, <3>2
  <2>7. InTheWay'
    BY <1>0, <2>1, <2>6, ThirdIsThere DEF InTheWay
  <2> QED BY <2>2, <2>3, <2>7
<1> QED
  BY <1>2, <1>3, <1>4, <1>5, <1>6, <1>7, <1>8, <1>9, <1>10, <1>11 DEF OldStep

(* Both sockets lead to the old server until it begins to leave them. *)
LEMMA OldListens ==
  ASSUME FilesInv, OldStage, Undisturbed, NEW k \in Sockets,
         old \in {"pausing", "accepting", "validating", "restoring", "leavingApi"}
           \/ (old \in {"serving", "rollback"} /\ new = "none")
  PROVE  Listening(k)
<1> USE SocketsAssumption, HandoffAssumption DEF SocketsAssumption, HandoffAssumption, FilesInv, Sockets
<1>1. stage[Old] = "up" /\ ~Left(k) /\ ~overlap
  BY DEF OldStage, Left, Undisturbed
<1>2. Identified(Old, k)
  BY <1>1 DEF InOrder, Identified, Alive
<1> QED BY <1>1, <1>2 DEF HeldIsOpen, HeldIsThere, Listening

LEMMA NewParts == ASSUME StreamInv, NewStep, Watch PROVE PartsInv'
<1> USE HandoffAssumption, SocketsAssumption
    DEF HandoffAssumption, SocketsAssumption, StreamInv, PartsInv, OldLives, NewLives
<1>0. (~overlap' => ~overlap) /\ UNCHANGED old
  BY Watching DEF NewStep, NewConnects, NewValidates, NewReceives, NewImports, NewStarts,
     NewTakesSockets, NewReportsReady, NewAssumes, NewServes, NewUnpauses, NewFails,
     NewMissesCommit, NewExits, Dropped, handoffVars
<1>1. ASSUME UNCHANGED <<stage, at, file, open, ident>>,
             \/ new = "connecting" /\ new' = "validating"
             \/ new = "validating" /\ new' = "receiving"
             \/ new = "receiving" /\ new' = "importing"
             \/ new = "importing" /\ new' = "waiting"
             \/ new = "starting" /\ stage[New] = "up" /\ new' = "ready"
             \/ new = "ready" /\ new' = "unpausing"
             \/ new = "unpausing" /\ new' \in {"unpausing", "serving"}
             \/ new = "closing" /\ new' = "gone"
      PROVE  PartsInv'
  <2>1. OldStage'
    BY <1>0, <1>1 DEF OldStage, Alive, Starting
  <2>2. NewStage' /\ ThirdStage'
    BY <1>1 DEF NewStage, ThirdStage, Binding, Alive, Starting
  <2>3. Undisturbed'
    BY <1>0, <1>1, StaysUndisturbed DEF Undisturbed, Alive, Starting
  <2>4. InTheWay'
    BY <1>0, <1>1 DEF InTheWay
  <2> QED BY <2>1, <2>2, <2>3, <2>4
<1>2. CASE NewConnects \/ NewValidates \/ NewReceives
  BY <1>1, <1>2 DEF NewConnects, NewValidates, NewReceives, socketVars
<1>3. CASE NewImports \/ NewReportsReady \/ NewAssumes
  BY <1>1, <1>3 DEF NewImports, NewReportsReady, NewAssumes, socketVars
<1>4. CASE NewServes \/ NewExits \/ \E p \in Panes : NewUnpauses(p)
  BY <1>1, <1>4 DEF NewServes, NewUnpauses, NewExits, socketVars
<1>5. CASE NewStarts
  <2>1. /\ new = "waiting" /\ new' = "starting" /\ stage' = [stage EXCEPT ![New] = "probe"]
        /\ UNCHANGED <<at, file, open, ident>> /\ \A k \in Sockets : ~Listening(k)
    BY <1>5 DEF NewStarts
  <2>2. OldStage' /\ NewStage' /\ ThirdStage'
    BY <1>0, <2>1 DEF OldStage, NewStage, ThirdStage, Binding, Alive, Starting, FilesInv, SocketTypes
  <2>3. Undisturbed'
    BY <1>0, <2>1, OldListens, StaysUndisturbed DEF Sockets
  <2>4. InTheWay'
    BY <1>0, <2>1 DEF InTheWay, OldStage, FilesInv, SocketTypes
  <2> QED BY <2>2, <2>3, <2>4
<1>6. CASE NewTakesSockets
  <2>1. new = "starting" /\ UNCHANGED new /\ TakeSockets(New)
    BY <1>6 DEF NewTakesSockets, handoffVars
  <2>2. /\ stage'[New] \in {"probe", "clear", "bind", "identify", "up"}
        /\ \A s \in Servers \ {New} : stage'[s] = stage[s] /\ at'[s] = at[s] /\ ident'[s] = ident[s]
        /\ \A k \in Sockets : Third \in open'[k] <=> Third \in open[k]
    BY <2>1 DEF TakeSockets, Probe, Clear, Bind, Identify, Goes, FilesInv, SocketTypes
  <2>3. OldStage' /\ NewStage'
    BY <1>0, <2>1, <2>2 DEF OldStage, NewStage, Alive, Starting
  <2>4. ThirdStage'
    BY <2>2 DEF ThirdStage, Binding, Sockets
  <2>5. Alive(New)
    BY <2>1 DEF NewStage, Alive
  <2>6. Undisturbed'
    BY <1>0, <2>1, <2>5, StaysUndisturbed DEF Undisturbed
  <2>7. InTheWay'
    BY <1>0, <2>1, <2>2 DEF InTheWay, OldStage, Sockets
  <2> QED BY <2>3, <2>4, <2>6, <2>7
<1>7. CASE NewFails \/ NewMissesCommit
  <2>1. Dropped /\ new \notin {"none", "gone", "crashed", "closing"}
    BY <1>7 DEF NewFails, NewMissesCommit
  <2>2. /\ new' = "closing" /\ UNCHANGED <<at, ident>>
        /\ ~Alive(New)' /\ stage'[Old] = stage[Old] /\ stage'[Third] = stage[Third]
        /\ \A k \in Sockets : Third \in open'[k] <=> Third \in open[k]
    BY <2>1 DEF Dropped, End, socketVars, Alive, Starting, FilesInv, SocketTypes
  <2>3. OldStage' /\ NewStage'
    BY <1>0, <2>1, <2>2 DEF OldStage, NewStage, Alive, Starting
  <2>4. ThirdStage'
    BY <2>2 DEF ThirdStage, Binding, Sockets
  <2>5. Undisturbed'
    BY <1>0, <2>2, StaysUndisturbed DEF Undisturbed
  <2>6. InTheWay'
    BY <1>0, <2>1, <2>2 DEF InTheWay, OldStage, Sockets
  <2> QED BY <2>3, <2>4, <2>5, <2>6
<1> QED BY <1>2, <1>3, <1>4, <1>5, <1>6, <1>7 DEF NewStep

LEMMA OtherParts ==
  ASSUME StreamInv, (OldCrashes \/ NewCrashes \/ ThirdStarts \/ ThirdStep) /\ Watch
  PROVE  PartsInv'
<1> USE HandoffAssumption, SocketsAssumption
    DEF HandoffAssumption, SocketsAssumption, StreamInv, PartsInv, OldLives, NewLives
<1>0. ~overlap' => ~overlap
  BY Watching
<1>1. CASE OldCrashes
  <2>1. /\ old' = "crashed" /\ UNCHANGED <<at, ident, new>>
        /\ stage' = [stage EXCEPT ![Old] = "crashed"]
        /\ open' = [k \in Sockets |-> open[k] \ {Old}]
    BY <1>1 DEF OldCrashes
  <2>2. OldStage' /\ NewStage'
    BY <2>1 DEF OldStage, NewStage, Alive, Starting, FilesInv, SocketTypes
  <2>3. ThirdStage'
    BY <2>1 DEF ThirdStage, Binding, Sockets, FilesInv, SocketTypes
  <2>4. Undisturbed'
    BY <2>1, StaysUndisturbed
  <2> QED BY <2>1, <2>2, <2>3, <2>4 DEF InTheWay
<1>2. CASE NewCrashes
  <2>1. /\ new \notin {"none", "gone", "crashed"} /\ new' = "crashed" /\ UNCHANGED <<at, file, ident, old>>
        /\ stage' = [stage EXCEPT ![New] = IF Alive(New) THEN "crashed" ELSE @]
        /\ open' = [k \in Sockets |-> open[k] \ {New}]
    BY <1>2 DEF NewCrashes
  <2>2. /\ ~Alive(New)' /\ stage'[Old] = stage[Old] /\ stage'[Third] = stage[Third]
        /\ \A k \in Sockets : Third \in open'[k] <=> Third \in open[k]
    BY <2>1 DEF Alive, Starting, FilesInv, SocketTypes
  <2>3. OldStage' /\ NewStage'
    BY <2>1, <2>2 DEF OldStage, NewStage, Alive, Starting
  <2>4. ThirdStage'
    BY <2>1, <2>2 DEF ThirdStage, Binding, Sockets
  <2>5. Undisturbed'
    BY <2>1, <2>2, StaysUndisturbed DEF Undisturbed
  <2>6. InTheWay'
    BY <1>0, <2>1, <2>2 DEF InTheWay, OldStage, Sockets
  <2> QED BY <2>3, <2>4, <2>5, <2>6
<1>3. CASE ThirdStarts
  <2>1. /\ ~Listening("client") /\ stage[Third] = "down" /\ stage' = [stage EXCEPT ![Third] = "probe"]
        /\ at' = [at EXCEPT ![Third] = "api"] /\ UNCHANGED <<file, open, ident, old, new>>
    BY <1>3 DEF ThirdStarts, Start, handoffVars
  <2>2. OldStage' /\ NewStage'
    BY <2>1 DEF OldStage, NewStage, Alive, Starting, FilesInv, SocketTypes
  <2>3. Third \notin open["api"]
    BY <2>1 DEF FilesInv, HeldIsOpen, Alive, Starting, Sockets
  <2>4. ThirdStage'
    BY <2>1, <2>3 DEF ThirdStage, FilesInv, SocketTypes
  <2>5. Undisturbed'
    BY <2>1, OldListens, StaysUndisturbed DEF Sockets
  <2>6. InTheWay'
    BY <1>0, <2>1 DEF InTheWay, FilesInv, SocketTypes
  <2> QED BY <2>2, <2>4, <2>5, <2>6
<1>4. CASE ThirdStep
  <2>0. UNCHANGED <<old, new>>
    BY <1>4 DEF ThirdStep, handoffVars
  <2>1. /\ \A s \in Servers \ {Third} : stage'[s] = stage[s] /\ at'[s] = at[s]
        /\ stage[Third] # "down" /\ stage'[Third] # "crashed"
        /\ \A k \in Sockets : file'[k] \in {file[k], None, Third}
    <3>1. CASE TakeSockets(Third)
      BY <3>1 DEF TakeSockets, Probe, Clear, Bind, Identify, Goes, FilesInv, SocketTypes
    <3>2. CASE Fail(Third) \/ Stopped(Third) \/ Stop(Third)
      BY <3>2, OwnFilesGo DEF Fail, Blocked, Stopped, Stop, End, FilesInv, SocketTypes, Sockets
    <3> QED BY <1>4, <3>1, <3>2 DEF ThirdStep, StartStep
  <2>2. OldStage' /\ NewStage'
    BY <2>0, <2>1 DEF OldStage, NewStage, Alive, Starting
  <2>3. Undisturbed'
    BY <2>0, <2>1, StaysUndisturbed DEF Undisturbed
  <2>4. ThirdStage'
    <3>1. CASE Probe(Third) \/ Clear(Third) \/ Bind(Third)
      BY <2>1, <3>1 DEF ThirdStage, Probe, Clear, Bind, Goes, Binding, FilesInv, SocketTypes, Sockets
    <3>2. CASE Identify(Third)
      <4>1. stage[Third] = "identify" /\ at'[Third] = "client"
        BY <3>2 DEF Identify, Goes, FilesInv, SocketTypes
      <4>2. at[Third] = "api" => ident'[Third]["api"] # None
        BY <3>2 DEF Identify, Goes, Blocked, FilesInv, SocketTypes, Sockets
      <4>3. at[Third] = "client" => ident'[Third]["api"] # None
        BY <3>2 DEF Identify, Goes, FilesInv, SocketTypes, Sockets, ThirdStage
      <4> QED BY <2>1, <4>1, <4>2, <4>3 DEF ThirdStage, FilesInv, SocketTypes, Sockets
    <3>3. CASE Fail(Third) \/ Stopped(Third)
      BY <2>1, <3>3 DEF ThirdStage, Fail, Stopped, End, Sockets
    <3>4. CASE Stop(Third)
      BY <2>1, <3>4 DEF ThirdStage, Stop, FilesInv, InOrder
    <3> QED BY <1>4, <3>1, <3>2, <3>3, <3>4 DEF ThirdStep, StartStep, TakeSockets
  <2>5. ASSUME ~overlap, Third \in open["api"] \/ ident[Third]["api"] # None
        PROVE  Third \in open'["api"] \/ ident'[Third]["api"] # None
    <3>1. CASE Probe(Third) \/ Clear(Third) \/ Bind(Third) \/ Stop(Third)
      BY <2>5, <3>1 DEF Probe, Clear, Bind, Stop, FilesInv, SocketTypes, Sockets
    <3>2. CASE Identify(Third)
      <4>1. at'[Third] = "client"
        BY <3>2 DEF Identify, FilesInv, SocketTypes
      <4> QED BY <2>4, <4>1 DEF ThirdStage
    <3>3. CASE Fail(Third) \/ Stopped(Third)
      <4>1. UNCHANGED ident /\ (Blocked(Third) \/ stage[Third] = "stopping")
        BY <3>3 DEF Fail, Stopped, End
      <4>2. ~Binding(Third, "api")
        BY <2>5, <4>1 DEF Blocked, Binding, FilesInv, HeldIsThere, Sockets
      <4> QED BY <2>5, <4>1, <4>2 DEF ThirdStage
    <3> QED BY <1>4, <3>1, <3>2, <3>3 DEF ThirdStep, StartStep, TakeSockets
  <2>6. InTheWay'
    BY <1>0, <2>0, <2>1, <2>5 DEF InTheWay, FilesInv, SocketTypes
  <2> QED BY <2>2, <2>3, <2>4, <2>6
<1> QED BY <1>1, <1>2, <1>3, <1>4

----------------------------------------------------------------------------
(* And one line is on its way at a time. *)

LEMMA LineWritten ==
  ASSUME NEW l \in Lines
  PROVE  Append(<<>>, l) = <<l>> /\ <<l>> \in Wire /\ <<l>> # <<>>
  BY DEF Wire

LEMMA LineRead ==
  ASSUME NEW s \in Wire, s # <<>>
  PROVE  Tail(s) = <<>> /\ s = <<Head(s)>>
<1>1. PICK l \in Lines : s = <<l>>
  BY DEF Wire
<1> QED BY <1>1

LEMMA NoLine == <<>> \in Wire /\ <<>> # <<"fds">>
  BY DEF Wire

LEMMA OldLine == ASSUME StreamInv, OldStep PROVE OneLine'
<1> USE DEF StreamInv, OneLine, OldLives, OldReads
<1>1. CASE \/ OldBegins \/ OldFinishes \/ OldFailsToPause \/ OldRestores \/ OldTakesSockets
           \/ OldCannotRestore \/ OldRollsBack
           \/ \E p \in Panes : OldPauses(p) \/ OldReleases(p)
           \/ \E k \in Sockets : OldLeavesSocket(k)
  <2>1. UNCHANGED <<toOld, toNew, new>>
    BY <1>1 DEF OldBegins, OldFinishes, OldFailsToPause, OldRestores, OldTakesSockets,
       OldCannotRestore, OldRollsBack, OldPauses, OldReleases, OldLeavesSocket
  <2>2. old' # "committing" /\ old # "restoring"
    BY <1>1 DEF OldBegins, OldFinishes, OldFailsToPause, OldRestores, OldTakesSockets,
       OldCannotRestore, OldRollsBack, OldPauses, OldReleases, OldLeavesSocket
  <2>3. old' \notin {"gone", "crashed"} => OldLives
    BY <1>1 DEF OldBegins, OldFinishes, OldFailsToPause, OldRestores, OldTakesSockets,
       OldCannotRestore, OldRollsBack, OldPauses, OldReleases, OldLeavesSocket
  <2> QED BY <2>1, <2>2, <2>3
<1>2. CASE OldSpawns
  BY <1>2, NoLine DEF OldSpawns, Inv, ReadyTold
<1>3. CASE OldSendsManifest \/ OldSendsFds
  <2>1. /\ toOld # <<>> /\ UNCHANGED new
        /\ \/ old = "accepting" /\ old' = "validating" /\ toNew' = Append(toNew, "manifest")
              /\ Head(toOld) = "token"
           \/ old = "validating" /\ old' = "restoring" /\ toNew' = Append(toNew, "fds")
              /\ Head(toOld) = "validated"
    BY <1>3 DEF OldSendsManifest, OldSendsFds
  <2>2. toNew = <<>> /\ toOld' = <<>> /\ toOld = <<Head(toOld)>>
    BY <1>3, <2>1, LineRead DEF OldSendsManifest, OldSendsFds
  <2>3. /\ toNew' \in Wire /\ toOld' \in Wire
        /\ toNew' = <<"fds">> => old' = "restoring"
    BY <2>1, <2>2, LineWritten, NoLine DEF Lines
  <2>4. new \notin {"connecting", "importing", "waiting", "starting", "unpausing", "serving"}
    BY <2>1, <2>2 DEF Inv, CommitRead, CommitWritten
  <2> QED BY <2>1, <2>2, <2>3, <2>4
<1>4. CASE OldSeesRestored \/ OldSeesReady
  <2>1. /\ toOld # <<>> /\ UNCHANGED <<new, toNew>>
        /\ \/ old = "restoring" /\ old' = "leavingApi"
           \/ old = "readying" /\ old' = "committing"
    BY <1>4 DEF OldSeesRestored, OldSeesReady
  <2>2. toNew = <<>> /\ toOld' = <<>>
    BY <1>4, <2>1, LineRead DEF OldSeesRestored, OldSeesReady
  <2> QED BY <2>1, <2>2, NoLine
<1>5. CASE OldCommits
  <2>1. /\ old = "committing" /\ old' = "releasing" /\ UNCHANGED <<new, toOld>>
        /\ toNew' = Append(toNew, "committed")
    BY <1>5 DEF OldCommits
  <2>2. toNew' = <<"committed">> /\ toNew' \in Wire
    BY <2>1, LineWritten DEF Lines
  <2>3. new \in Ready /\ new \notin {"unpausing", "serving"}
    BY <2>1 DEF Inv, ReadyTold, CommitRead, CommitWritten
  <2> QED BY <2>1, <2>2, <2>3, NoLine DEF Ready
<1>6. CASE OldGivesUpEarly \/ OldGivesUpLate
  <2>1. /\ toOld' = <<>> /\ toNew' = <<>> /\ new' = IF NewLives THEN "crashed" ELSE new
        /\ old' \in {"rollback", "waiting"}
    BY <1>6 DEF OldGivesUpEarly, OldGivesUpLate, KillImport
  <2> QED BY <2>1, NoLine DEF NewLives
<1> QED BY <1>1, <1>2, <1>3, <1>4, <1>5, <1>6 DEF OldStep

LEMMA NewLine == ASSUME StreamInv, NewStep PROVE OneLine'
<1> USE DEF StreamInv, OneLine, OldLives, NewReads
<1>1. CASE NewStarts
  <2>1. /\ new = "waiting" /\ new' = "starting" /\ UNCHANGED <<old, toOld, toNew>>
        /\ \A k \in Sockets : ~Listening(k)
    BY <1>1 DEF NewStarts
  <2>2. old # "restoring"
    BY <2>1, OldListens DEF PartsInv, Sockets
  <2> QED BY <2>1, <2>2
<1>2. CASE NewTakesSockets \/ NewExits
  BY <1>2 DEF NewTakesSockets, NewExits, handoffVars
<1>3. CASE NewConnects \/ NewImports \/ NewReportsReady
  <2>1. /\ OldLives /\ UNCHANGED <<old, toNew>>
        /\ \/ new = "connecting" /\ new' = "validating" /\ toOld' = Append(toOld, "token")
           \/ new = "importing" /\ new' = "waiting" /\ toOld' = Append(toOld, "restored")
           \/ new = "starting" /\ new' = "ready" /\ toOld' = Append(toOld, "ready")
    BY <1>3 DEF NewConnects, NewImports, NewReportsReady, NewTells
  <2>2. toOld = <<>> /\ toNew = <<>>
    BY <2>1
  <2>3. toOld' \in Wire /\ toOld' # <<>> /\ (new' = "waiting" => toOld' = <<"restored">>)
    BY <2>1, <2>2, LineWritten DEF Lines
  <2>4. old # "committing" /\ (new' = "waiting" => old = "restoring")
    BY <2>1 DEF Inv, ReadyTold, Ready
  <2> QED BY <2>1, <2>2, <2>3, <2>4
<1>4. CASE NewValidates
  <2>1. /\ new = "validating" /\ new' = "receiving" /\ OldLives /\ UNCHANGED old /\ toNew # <<>>
        /\ toNew' = Tail(toNew) /\ toOld' = Append(toOld, "validated")
    BY <1>4 DEF NewValidates, NewTells
  <2>2. toOld = <<>> /\ toNew' = <<>>
    BY <2>1, LineRead
  <2>3. toOld' \in Wire
    BY <2>1, <2>2, LineWritten DEF Lines
  <2> QED BY <2>1, <2>2, <2>3, NoLine
<1>5. CASE NewReceives \/ NewAssumes
  <2>1. /\ toNew # <<>> /\ toNew' = Tail(toNew) /\ UNCHANGED <<old, toOld>>
        /\ \/ new = "receiving" /\ new' = "importing" /\ Head(toNew) = "fds"
           \/ new = "ready" /\ new' = "unpausing"
    BY <1>5 DEF NewReceives, NewAssumes
  <2>2. toOld = <<>> /\ toNew' = <<>> /\ toNew = <<Head(toNew)>>
    BY <2>1, LineRead
  <2>3. OldLives /\ new' = "importing" => old = "restoring"
    BY <2>1, <2>2
  <2> QED BY <2>1, <2>2, <2>3, NoLine
<1>6. CASE NewServes
  <2>1. /\ new = "unpausing" /\ new' = "serving" /\ UNCHANGED <<old, toNew>>
        /\ (OldLives /\ toOld' = Append(toOld, "owned")) \/ (~OldLives /\ toOld' = toOld)
    BY <1>6 DEF NewServes, NewTells
  <2>2. toNew = <<>> /\ old # "committing"
    BY <2>1 DEF Inv, CommitRead, CommitWritten
  <2>3. toOld' \in Wire
    BY <2>1, LineWritten DEF Lines
  <2> QED BY <2>1, <2>2, <2>3
<1>8. ASSUME NEW p \in Panes, NewUnpauses(p) PROVE OneLine'
  BY <1>8 DEF NewUnpauses
<1>7. CASE NewFails \/ NewMissesCommit
  <2>1. new' = "closing" /\ UNCHANGED <<old, toOld, toNew>>
    BY <1>7 DEF NewFails, NewMissesCommit, Dropped
  <2> QED BY <2>1
<1> QED BY <1>1, <1>2, <1>3, <1>4, <1>5, <1>6, <1>7, <1>8 DEF NewStep

LEMMA OtherLine ==
  ASSUME StreamInv, OldCrashes \/ NewCrashes \/ ThirdStarts \/ ThirdStep
  PROVE  OneLine'
<1> USE DEF StreamInv, OneLine, OldLives
<1>1. CASE OldCrashes
  BY <1>1 DEF OldCrashes
<1>2. CASE NewCrashes
  BY <1>2 DEF NewCrashes
<1>3. CASE ThirdStarts \/ ThirdStep
  BY <1>3 DEF ThirdStarts, ThirdStep, handoffVars
<1> QED BY <1>1, <1>2, <1>3

LEMMA StreamInvNext == StreamInv /\ [HandoffNext]_allVars => StreamInv'
<1> SUFFICES ASSUME StreamInv, [HandoffNext]_allVars PROVE StreamInv'
  OBVIOUS
<1>0. Inv'
  BY InvNext DEF StreamInv
<1>1. CASE OldStep /\ Watch
  BY <1>0, <1>1, OldFiles, OldParts, OldLine DEF StreamInv
<1>2. CASE NewStep /\ Watch
  BY <1>0, <1>2, NewFiles, NewParts, NewLine DEF StreamInv
<1>3. CASE (OldCrashes \/ NewCrashes \/ ThirdStarts \/ ThirdStep) /\ Watch
  BY <1>0, <1>3, OtherFiles, OtherParts, OtherLine DEF StreamInv
<1>4. CASE UNCHANGED allVars
  <2>1. UNCHANGED vars /\ UNCHANGED handoffVars
    BY <1>4 DEF allVars
  <2>2. UNCHANGED <<stage, at, file, open, ident, crashes, overlap, old, new, toOld, toNew>>
    BY <2>1 DEF vars, handoffVars
  <2>3. FilesInv'
    BY <2>2, SocketsUntouched DEF StreamInv, socketVars, Left
  <2>4. PartsInv'
    BY <2>2 DEF StreamInv, PartsInv, OldStage, NewStage, ThirdStage, Undisturbed, InTheWay,
       Binding, Alive, Starting, OldLives, NewLives
  <2>5. OneLine'
    BY <2>2 DEF StreamInv, OneLine, OldLives
  <2> QED BY <1>0, <2>3, <2>4, <2>5 DEF StreamInv
<1> QED BY <1>1, <1>2, <1>3, <1>4 DEF HandoffNext

(* The invariant about the stream and the sockets holds always. *)
THEOREM StreamInvariance == HandoffSpec => []StreamInv
<1> QED BY StreamInvInit, StreamInvNext, PTL DEF HandoffSpec

(* The state of both servers, of the session's sockets and of the stream   *)
(* between the servers has its type: one line at most is on its way.       *)
THEOREM HandoffTypes == HandoffSpec => []HandoffTypeOK
<1>1. StreamInv => HandoffTypeOK
  BY DEF StreamInv, Inv, Types, OldPcs, NewPcs, FilesInv, SocketTypes, OneLine, HandoffTypeOK
<1> QED BY <1>1, StreamInvariance, PTL

LEMMA ServingIsThere == StreamInv => ServingIsReachable
<1> SUFFICES ASSUME StreamInv, ~overlap
             PROVE  /\ old = "serving" => \/ Reached(Old) \/ Third \in open["api"]
                                         \/ ident[Third]["api"] # None
                    /\ new = "serving" => Reached(New)
  BY DEF ServingIsReachable
<1> USE HandoffAssumption DEF HandoffAssumption, StreamInv, FilesInv, PartsInv
<1>1. ASSUME NEW s \in Servers, stage[s] = "up", \A k \in Sockets : ~(s = Old /\ Left(k))
      PROVE  Reached(s)
  <2>1. \A k \in Sockets : Identified(s, k)
    BY <1>1 DEF InOrder, Identified, Alive, Sockets
  <2> QED BY <1>1, <2>1 DEF HeldIsThere, Reached
<1>2. CASE old = "serving"
  <2>1. CASE stage[Old] = "up"
    BY <1>1, <1>2, <2>1 DEF Left, NewStage
  <2>2. CASE stage[Old] = "gone"
    BY <1>1, <1>2, <2>2 DEF InTheWay, NewStage
  <2> QED BY <1>2, <2>1, <2>2 DEF OldStage
<1>3. new = "serving" => Reached(New)
  BY <1>1 DEF NewStage
<1> QED BY <1>2, <1>3

(* Whichever server serves the panes after a handoff, completed or rolled  *)
(* back, is the one that both sockets lead to, unless the third server     *)
(* took the API socket while neither had it, or an overlap was seen.       *)
THEOREM ServerIsReached == HandoffSpec => []ServingIsReachable
<1> QED BY ServingIsThere, StreamInvariance, PTL
================================================================================
