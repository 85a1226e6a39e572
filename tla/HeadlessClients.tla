---------------------------- MODULE HeadlessClients ----------------------------
(***************************************************************************)
(* The client table of the headless server (src/src/server/headless.rs):   *)
(* which client drives the shared layout, which one owns a terminal it is  *)
(* attached to, whose size each terminal has, and what is left of a client *)
(* when it goes.  All of it is state of the one main loop; what is hard is *)
(* the order in which events of many clients, deaths of terminals, screen  *)
(* reads, writer failures and a live handoff reach that loop.              *)
(*                                                                         *)
(* Clients behave as src/src/client does: an app client never attaches,    *)
(* and a terminal client's first message is its attach, control or observe *)
(* request.  A client's messages arrive in order; nothing else is ordered. *)
(* last_activity stamps are kept as the order they give app clients, the   *)
(* only ones they are compared among.  What a render draws and streams is  *)
(* ClientStream's subject; here a full render matters for the sizes it     *)
(* sets and the clients it ends.                                           *)
(***************************************************************************)
EXTENDS Naturals, FiniteSets

CONSTANTS
  AppClients,       \* client ids that run the app
  TerminalClients,  \* client ids that attach to or observe one terminal
  Terminals,        \* terminal ids; never reused
  Sizes,            \* sizes a client may report
  MinSize,          \* (MIN_COLS, MIN_ROWS)
  None

Clients == AppClients \cup TerminalClients

ASSUME ClientsAssumption ==
  /\ AppClients \cap TerminalClients = {}
  /\ None \notin Clients

VARIABLES
  conn,        \* how far each client's messages have been handled
  queueUp,     \* clients whose writer thread still takes messages
  told,        \* connected clients with a ServerShutdown queued for them
  table,       \* keys of HeadlessServer.clients
  writer,      \* clients in the table whose ClientConnection.writer is Some
  role, term,  \* ClientConnectionMode; "pending" is App, pending_terminal_attach
  size,        \* ClientConnection.terminal_size
  older,       \* older[c]: the app clients whose last_activity is before c's
  foreground,  \* foreground_client_id
  effective,   \* effective_size
  owners,      \* terminal_attach_owners
  locks,       \* direct_attach_resize_locks
  life,        \* AppState.terminals and the runtimes: "unborn", "live", "gone"
  pty,         \* the size each terminal's runtime was last given
  reading,     \* pending_alt_screen_reads, by terminal
  handoff,     \* handoff_in_progress, once a handoff has been committed
  renderDue    \* needs_full_render

linkVars   == <<conn, queueUp>>
rosterVars == <<table, writer, role, term, size, older>>
driverVars == <<foreground, effective>>
attachVars == <<owners, locks>>
termVars   == <<life, pty, reading>>
vars == <<linkVars, told, rosterVars, driverVars, attachVars, termVars, handoff, renderDue>>

----------------------------------------------------------------------------
Live == {t \in Terminals : life[t] = "live"}

(* is_full_app_client, over the clients of cs. *)
Apps(cs) == {c \in cs : role[c] = "app"}

(* terminal_stream_client_ids. *)
StreamsOf(t) == {c \in table : role[c] \in {"attach", "observe"} /\ term[c] = t}

(* latest_app_client, over the clients of cs: one value, in a set. *)
Latest(cs) ==
  IF Apps(cs) = {} THEN {None}
  ELSE {c \in Apps(cs) : Apps(cs) \ {c} \subseteq older[c]}

(* Mutant: terminal clients are ranked with the app clients. *)
Stamped_AnyClient(c) ==
  [d \in AppClients |-> IF d = c THEN table \ {c} ELSE older[d] \ {c}]

(* allocate_activity_stamp, given to app client c. *)
Stamped(c) ==
  [d \in AppClients |-> IF d = c THEN Apps(table) \ {c} ELSE older[d] \ {c}]

(* sync_foreground_client_state, with client sizes sz. *)
SizeOf(fg, sz) == IF fg = None THEN MinSize ELSE sz[fg]

(* compute_view: terminals of ts without a resize lock take the shared size. *)
SharedResize(p, ts, lck, sz) ==
  [t \in Terminals |-> IF t \in ts \ lck THEN sz ELSE p[t]]

(* resize_shared_runtime_to_effective_size: nothing without a foreground. *)
ResizeShared(p, ts, lck, fg, sz) == IF fg = None THEN p ELSE SharedResize(p, ts, lck, sz)

----------------------------------------------------------------------------
(* Removing clients.                                                       *)

(* The terminals whose attach entry goes with the clients of cs. *)
Freed(cs) == {t \in Terminals : \E c \in cs \cap table : role[c] = "attach" /\ term[c] = t}

OwnersWithout(cs) == [t \in Terminals |-> IF t \in Freed(cs) THEN None ELSE owners[t]]

(* The lock goes with the entry if the terminal is still one of ts. *)
LocksWithout(cs, ts) == locks \ (Freed(cs) \cap ts)

(* promote_latest_remaining_client once the clients of cs are gone or have *)
(* stopped being app clients, if the foreground is one of them.            *)
Succeed(cs) ==
  /\ foreground' \in IF foreground \in cs THEN Latest(table \ cs) ELSE {foreground}
  /\ effective' = IF foreground \in cs THEN SizeOf(foreground', size) ELSE effective

(* client_removal_needs_shared_resize, for one of cs. *)
RemovalResizes(cs) ==
  \E c \in cs \cap table :
    c = foreground \/ (role[c] \in {"attach", "observe"} /\ foreground # None)

(* What was recorded of the clients of cs goes with their ClientConnection. *)
Blank(f, cs, v) == [c \in DOMAIN f |-> IF c \in cs THEN v ELSE f[c]]
Forget(cs) ==
  /\ role' = Blank(role, cs, "none") /\ term' = Blank(term, cs, None)
  /\ size' = Blank(size, cs, MinSize)
  /\ older' = [c \in AppClients |-> IF c \in cs THEN {} ELSE older[c] \ cs]

(* remove_client_and_resize_if_needed for each client of cs, of which only *)
(* the outcome counts: ts are the terminals still there, p the sizes so    *)
(* far.                                                                    *)
RemoveFrom(cs, ts, p) ==
  /\ table' = table \ cs /\ writer' = writer \ cs
  /\ owners' = OwnersWithout(cs) /\ locks' = LocksWithout(cs, ts)
  /\ Succeed(cs)
  /\ pty' = IF RemovalResizes(cs) THEN ResizeShared(p, ts, locks', foreground', effective')
                                  ELSE p
  /\ Forget(cs)

Remove(cs) == RemoveFrom(cs, Live, pty)

(* Mutant: the client is dropped without a word. *)
ShutDown_Silent(cs) == UNCHANGED told

(* send_to_client(ServerShutdown) to each client of cs. *)
ShutDown(cs) == told' = told \cup (cs \cap writer \cap queueUp)

----------------------------------------------------------------------------
Init ==
  /\ conn = [c \in Clients |-> "new"] /\ queueUp = Clients /\ told = {}
  /\ table = {} /\ writer = {}
  /\ role = [c \in Clients |-> "none"] /\ term = [c \in Clients |-> None]
  /\ size = [c \in Clients |-> MinSize] /\ older = [c \in AppClients |-> {}]
  /\ foreground = None /\ effective = MinSize
  /\ owners = [t \in Terminals |-> None] /\ locks = {}
  /\ life \in [Terminals -> {"unborn", "live"}]
  /\ pty = [t \in Terminals |-> MinSize]
  /\ reading = {} /\ handoff = FALSE /\ renderDue = TRUE

----------------------------------------------------------------------------
(* Events of one client.                                                   *)

(* ServerEvent::ClientConnected, the last step of the handshake thread. *)
ClientConnected(c, s) ==
  /\ conn[c] = "new"
  /\ conn' = [conn EXCEPT ![c] = IF c \in AppClients THEN "open" ELSE "greeted"]
  /\ IF handoff
     THEN /\ told' = told \cup ({c} \cap queueUp)
          /\ UNCHANGED <<rosterVars, driverVars, pty, renderDue>>
     ELSE /\ table' = table \cup {c} /\ writer' = writer \cup {c}
          /\ role' = [role EXCEPT ![c] = IF c \in AppClients THEN "app" ELSE "pending"]
          /\ size' = [size EXCEPT ![c] = s]
          /\ older' = IF c \in AppClients THEN Stamped(c) ELSE older
          /\ foreground' = IF c \in AppClients THEN c ELSE foreground
          /\ effective' = SizeOf(foreground', size')
          /\ pty' = ResizeShared(pty, Live, locks, foreground', effective')
          /\ renderDue' = TRUE
          /\ UNCHANGED <<told, term>>
  /\ UNCHANGED <<queueUp, attachVars, life, reading, handoff>>

(* The one refusal for every request that is not granted: shut down, then  *)
(* removed.  A client no longer in the table is neither.                   *)
Refuse(c) ==
  /\ ShutDown({c}) /\ Remove({c})
  /\ UNCHANGED <<handoff, life, reading, renderDue>>

Pending(c) == c \in table /\ role[c] = "pending"

(* What attach_terminal_client checks before it commits. *)
Grantable(c, t, takeover) ==
  /\ t \in Live /\ t \notin reading
  /\ owners[t] \in {None, c} \/ takeover

(* Mutant: the client that is taken over stays in the table. *)
Ousted_Nobody(c, t) == {}

(* The owner a granted takeover removes first. *)
Ousted(c, t) == {owners[t]} \ {None, c}

(* The grant: the old owner, if any, is removed with its lock and the      *)
(* resize that follows, then the terminal is locked to the new one.        *)
Grant(c, t) ==
  LET gone  == Ousted(c, t)
      freed == IF RemovalResizes(gone)
               THEN ResizeShared(pty, Live, LocksWithout(gone, Live), foreground, effective)
               ELSE pty
  IN /\ ShutDown(gone)
     /\ table' = table \ gone /\ writer' = writer \ gone
     /\ role' = [Blank(role, gone, "none") EXCEPT ![c] = "attach"]
     /\ term' = [Blank(term, gone, None) EXCEPT ![c] = t]
     /\ size' = Blank(size, gone, MinSize)
     /\ Succeed(gone \cup {c})
     /\ owners' = [OwnersWithout(gone) EXCEPT ![t] = c]
     /\ locks' = LocksWithout(gone, Live) \cup {t}
     /\ pty' = [freed EXCEPT ![t] = size[c]]
     /\ renderDue' = TRUE
     /\ UNCHANGED <<older, handoff, life, reading>>

(* ClientAttachTerminal; ClientControlTerminal resolves the target first   *)
(* and is the same from there.                                             *)
AttachTerminal(c, t, takeover) ==
  /\ conn[c] = "greeted" /\ conn' = [conn EXCEPT ![c] = "open"]
  /\ IF handoff THEN UNCHANGED <<told, rosterVars, driverVars, attachVars, termVars,
                                 handoff, renderDue>>
     ELSE IF Pending(c) /\ Grantable(c, t, takeover) THEN Grant(c, t)
     ELSE Refuse(c)
  /\ UNCHANGED queueUp

(* ClientObserveTerminal. *)
ObserveTerminal(c, t) ==
  /\ conn[c] = "greeted" /\ conn' = [conn EXCEPT ![c] = "open"]
  /\ IF handoff THEN UNCHANGED <<told, rosterVars, driverVars, attachVars, termVars,
                                 handoff, renderDue>>
     ELSE IF Pending(c) /\ t \in Live
     THEN /\ role' = [role EXCEPT ![c] = "observe"] /\ term' = [term EXCEPT ![c] = t]
          /\ Succeed({c}) /\ renderDue' = TRUE
          /\ UNCHANGED <<told, table, writer, size, older, attachVars, termVars, handoff>>
     ELSE Refuse(c)
  /\ UNCHANGED queueUp

(* promote_client_to_foreground, with client sizes sz. *)
Promote(c, sz) ==
  /\ older' = Stamped(c)
  /\ foreground' = c /\ effective' = SizeOf(c, sz)

(* Keys, mouse, paste, pixel mouse or a pasted image from an app client.   *)
ClientInput(c) ==
  /\ c \in AppClients /\ conn[c] = "open" /\ ~handoff /\ c \in table
  /\ Promote(c, size)
  /\ pty' = IF foreground = c THEN pty ELSE ResizeShared(pty, Live, locks, c, effective')
  /\ renderDue' = TRUE
  /\ UNCHANGED <<linkVars, told, table, writer, role, term, size, attachVars, life, reading,
                 handoff>>

(* The detach keybinding, an input like any other until the app asks for   *)
(* the detach: shut down, then writer = None, and the client stays listed. *)
(* A send that fails removes it there and then.                            *)
DetachKey(c) ==
  LET p == IF foreground = c THEN pty ELSE ResizeShared(pty, Live, locks, c, size[c])
  IN /\ c \in AppClients /\ conn[c] = "open" /\ ~handoff /\ c \in table
     /\ ShutDown({c})
     /\ writer' = writer \ {c}
     /\ IF c \in writer \ queueUp
        THEN /\ table' = table \ {c} /\ Forget({c})
             /\ foreground' \in Latest(table \ {c})
             /\ effective' = SizeOf(foreground', size)
             /\ pty' = ResizeShared(p, Live, locks, foreground', effective')
        ELSE /\ Promote(c, size) /\ pty' = p
             /\ UNCHANGED <<table, role, term, size>>
     /\ UNCHANGED <<linkVars, attachVars, life, reading, handoff, renderDue>>

ResizeAttached(c, s) ==
  /\ size' = [size EXCEPT ![c] = s]
  /\ pty' = IF term[c] \in Live THEN [pty EXCEPT ![term[c]] = s] ELSE pty
  /\ UNCHANGED <<older, driverVars>>

ResizeObserver(c, s) ==
  /\ size' = [size EXCEPT ![c] = s]
  /\ UNCHANGED <<pty, older, driverVars>>

(* Mutant: the new size is taken without sync_foreground_client_state when *)
(* the client is in the foreground already.                                *)
ResizeApp_NoSync(c, s) ==
  /\ size' = [size EXCEPT ![c] = s]
  /\ older' = Stamped(c) /\ foreground' = c
  /\ effective' = IF foreground = c THEN effective ELSE s
  /\ pty' = ResizeShared(pty, Live, locks, c, effective')

ResizeApp(c, s) ==
  /\ size' = [size EXCEPT ![c] = s]
  /\ Promote(c, size')
  /\ pty' = ResizeShared(pty, Live, locks, c, effective')

(* ClientResize, of a client that may have been removed meanwhile. *)
ClientResize(c, s) ==
  /\ conn[c] = "open" /\ ~handoff
  /\ IF c \notin table
     THEN /\ pty' = ResizeShared(pty, Live, locks, foreground, effective)
          /\ UNCHANGED <<size, older, driverVars>>
     ELSE CASE role[c] = "attach"  -> ResizeAttached(c, s)
            [] role[c] = "observe" -> ResizeObserver(c, s)
            [] OTHER               -> ResizeApp(c, s)
  /\ renderDue' = TRUE
  /\ UNCHANGED <<linkVars, told, table, writer, role, term, attachVars, life, reading, handoff>>

(* ClientDetach, after which the client hangs up: a terminal client is     *)
(* answered with a shutdown.                                               *)
ClientDetach(c) ==
  /\ conn[c] = "open" /\ ~handoff
  /\ conn' = [conn EXCEPT ![c] = "closed"]
  /\ told' = told \ {c}
  /\ Remove({c})
  /\ renderDue' = TRUE
  /\ UNCHANGED <<queueUp, life, reading, handoff>>

(* ClientDisconnected, from the reader thread (the connection is over) or  *)
(* from a writer thread that gave up; both may report the same client.     *)
ClientDisconnected(c) ==
  /\ conn[c] # "new"
  /\ \/ conn[c] # "closed" /\ conn' = [conn EXCEPT ![c] = "closed"] /\ told' = told \ {c}
     \/ c \notin queueUp \cap table /\ UNCHANGED <<conn, told>>
  /\ Remove({c})
  /\ renderDue' = TRUE
  /\ UNCHANGED <<queueUp, life, reading, handoff>>

(* A client's writer thread fails to write and closes its queue; once the  *)
(* server holds no writer that changes nothing here.                       *)
WriterFails(c) ==
  /\ c \in writer \cap queueUp
  /\ queueUp' = queueUp \ {c}
  /\ UNCHANGED <<conn, told, rosterVars, driverVars, attachVars, termVars, handoff, renderDue>>

(* A notification, clipboard write, title or mode change meets a closed    *)
(* queue: send_to_client and send_to_all_clients drop the client.          *)
SendFails(c) ==
  /\ c \in writer \ queueUp
  /\ Remove({c})
  /\ UNCHANGED <<linkVars, told, life, reading, handoff, renderDue>>

----------------------------------------------------------------------------
(* Terminals.                                                              *)

(* A pane is opened; its first size is an estimate. *)
TerminalSpawns(t, s) ==
  /\ life[t] = "unborn" /\ ~handoff
  /\ life' = [life EXCEPT ![t] = "live"] /\ pty' = [pty EXCEPT ![t] = s]
  /\ renderDue' = TRUE
  /\ UNCHANGED <<linkVars, told, rosterVars, driverVars, attachVars, reading, handoff>>

(* AppEvent::PaneDied: the app drops the pane and its terminal, then the   *)
(* streams of that terminal are shut down and removed.                     *)
TerminalDies(t) ==
  /\ t \in Live /\ ~handoff
  /\ life' = [life EXCEPT ![t] = "gone"]
  /\ ShutDown(StreamsOf(t))
  /\ RemoveFrom(StreamsOf(t), Live \ {t}, pty)
  /\ renderDue' = TRUE
  /\ UNCHANGED <<linkVars, reading, handoff>>

(* A pane, tab or workspace closed from the app or the API, or the popup   *)
(* (which gives its lock back): its streams are left for the next render.  *)
TerminalCloses(t) ==
  /\ t \in Live /\ ~handoff
  /\ life' = [life EXCEPT ![t] = "gone"]
  /\ locks' \in {locks, locks \ {t}}
  /\ renderDue' = TRUE
  /\ UNCHANGED <<linkVars, told, rosterVars, driverVars, owners, pty, reading, handoff>>

(* agent.read / pane.read of an alternate screen begins (alt_screen_read_spec)... *)
ReadStarts(t) ==
  /\ t \in Live /\ ~handoff /\ owners[t] = None /\ t \notin reading
  /\ reading' = reading \cup {t}
  /\ UNCHANGED <<linkVars, told, rosterVars, driverVars, attachVars, life, pty, handoff,
                 renderDue>>

(* ... and is answered, whatever became of the terminal. *)
ReadEnds(t) ==
  /\ t \in reading /\ reading' = reading \ {t}
  /\ UNCHANGED <<linkVars, told, rosterVars, driverVars, attachVars, life, pty, handoff,
                 renderDue>>

----------------------------------------------------------------------------
(* Streams render_and_stream finds without a terminal. *)
Orphans == {c \in writer : role[c] \in {"attach", "observe"} /\ term[c] \notin Live}

(* render_and_stream: sizes follow the foreground client when it is among  *)
(* the targets, streams without a terminal are ended, and clients whose    *)
(* queue turns out closed are removed (unless their frame was identical).  *)
Render ==
  LET targets == {c \in writer : role[c] # "pending"}
      shared  == SharedResize(pty, Live, locks, effective)
  IN /\ renderDue /\ renderDue' = FALSE
     /\ ShutDown(Orphans)
     /\ \E broken \in SUBSET (targets \ queueUp), p \in {pty, shared} :
          /\ foreground \in targets => p = shared
          /\ p # pty => foreground \in targets \/ targets = {}
          /\ RemoveFrom(Orphans \cup broken, Live, p)
     /\ UNCHANGED <<linkVars, life, reading, handoff>>

(* perform_live_handoff: every client is shut down and removed, one after  *)
(* the other; a closed queue makes that a removal with its resize.  Then   *)
(* the handoff fails and the server goes on, or the server waits to exit.  *)
LiveHandoff(committed) ==
  /\ ~handoff /\ handoff' = committed
  /\ ShutDown(table)
  /\ table' = {} /\ writer' = {} /\ Forget(table)
  /\ owners' = OwnersWithout(table) /\ locks' = LocksWithout(table, Live)
  /\ foreground' = None /\ effective' = MinSize
  /\ \/ pty' = pty
     \/ /\ ~(writer \subseteq queueUp)
        /\ \E cs \in SUBSET table, c \in Apps(table) :
             pty' = SharedResize(pty, Live, LocksWithout(cs, Live), size[c])
  /\ renderDue' = TRUE
  /\ UNCHANGED <<linkVars, life, reading>>

----------------------------------------------------------------------------
Next ==
  \/ \E c \in Clients :
       \/ \E s \in Sizes : ClientConnected(c, s) \/ ClientResize(c, s)
       \/ \E t \in Terminals :
            ObserveTerminal(c, t) \/ \E b \in BOOLEAN : AttachTerminal(c, t, b)
       \/ ClientInput(c) \/ DetachKey(c) \/ ClientDetach(c) \/ ClientDisconnected(c)
       \/ WriterFails(c) \/ SendFails(c)
  \/ \E t \in Terminals :
       \/ TerminalDies(t) \/ TerminalCloses(t) \/ ReadStarts(t) \/ ReadEnds(t)
       \/ \E s \in Sizes : TerminalSpawns(t, s)
  \/ Render
  \/ \E b \in BOOLEAN : LiveHandoff(b)

Spec == Init /\ [][Next]_vars
----------------------------------------------------------------------------
(* Properties.                                                             *)

TypeOK ==
  /\ conn \in [Clients -> {"new", "greeted", "open", "closed"}]
  /\ queueUp \subseteq Clients /\ told \subseteq Clients
  /\ table \subseteq Clients /\ writer \subseteq table
  /\ role \in [Clients -> {"none", "app", "pending", "attach", "observe"}]
  /\ term \in [Clients -> Terminals \cup {None}]
  /\ size \in [Clients -> Sizes \cup {MinSize}]
  /\ older \in [AppClients -> SUBSET AppClients]
  /\ foreground \in Clients \cup {None} /\ effective \in Sizes \cup {MinSize}
  /\ owners \in [Terminals -> Clients \cup {None}] /\ locks \subseteq Terminals
  /\ life \in [Terminals -> {"unborn", "live", "gone"}]
  /\ pty \in [Terminals -> Sizes \cup {MinSize}]
  /\ reading \subseteq Terminals /\ handoff \in BOOLEAN /\ renderDue \in BOOLEAN

(* A terminal has at most one writable client, and the server's record of  *)
(* who that is agrees with the clients' own modes, through takeovers,      *)
(* refusals, removals in any order and terminals that die under a client.  *)
OwnerIsAttachedClient ==
  \A c \in Clients, t \in Terminals :
    owners[t] = c <=> c \in table /\ role[c] = "attach" /\ term[c] = t

(* A terminal is exempt from the shared layout exactly while somebody is   *)
(* attached to it: no lock survives its client, none is lost to a takeover. *)
LocksMatchOwners == locks \cap Live = {t \in Live : owners[t] # None}

(* A screen read scrolls the terminal it reads: nobody is attached to it.  *)
ReadsAndAttachesExclude == \A t \in reading : owners[t] = None

(* Together: owner, lock and the client's own mode change in one step, and *)
(* none of it while a read has the terminal.                               *)
OwnershipInStep == OwnerIsAttachedClient /\ LocksMatchOwners /\ ReadsAndAttachesExclude

(* While any app client is listed one of them drives the shared layout,    *)
(* and the effective size is that client's latest size.                    *)
ForegroundDrives ==
  /\ foreground \in IF Apps(table) = {} THEN {None} ELSE Apps(table)
  /\ effective = SizeOf(foreground, size)

(* An attached terminal always has its owner's size; the others have the   *)
(* foreground client's once the render that is due has been made.          *)
TerminalSizes ==
  \A t \in Live :
    IF owners[t] # None THEN pty[t] = size[owners[t]]
    ELSE ~renderDue /\ foreground \in writer => pty[t] = effective

(* Both: whoever drives a terminal, its size is that client's, and goes    *)
(* back when the client leaves by whichever way.                           *)
SizesFollowDrivers == ForegroundDrives /\ TerminalSizes

(* A client the server no longer writes to has been told so, unless it     *)
(* asked to leave or its connection is broken: nobody is left in front of  *)
(* a frozen screen.                                                        *)
NobodyLeftHanging ==
  \A c \in queueUp \ writer : conn[c] \in {"greeted", "open"} => c \in told

(* Once the render that is due has been made, no client is streaming a     *)
(* terminal that is gone.                                                  *)
StreamsHaveTerminals ==
  ~renderDue => \A c \in writer : role[c] \in {"attach", "observe"} => term[c] \in Live

(* Both: nobody is left with a connection on which nothing will come.      *)
ClientsAreServed == NobodyLeftHanging /\ StreamsHaveTerminals
================================================================================
