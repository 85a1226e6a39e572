# A verification project for podr

podr (a fork of herdr; the sources still say herdr) is a terminal workspace
multiplexer. One server process owns the PTYs of all panes; thin clients
connect over a binary socket and show what the server draws; scripts and agents
drive it over a JSON socket. This directory holds TLA+ models of its core, the
TLC runs that check them, and TLAPS proofs of what matters most.

## 1. The system

### Components

| Component | Source (src/src/) | State it keeps | Operations | Modelled |
|---|---|---|---|---|
| Client transport | `server/client_transport.rs` | per client: a control lane, an ordered lane, a one-slot render lane, a writer and a reader thread | `send_control`, `try_send_render`, `send_ordered`, `replace_with_cleanup`, writer and read loops | `ClientWriterQueue`, `ClientStream` |
| Render streaming | `server/render_stream.rs`, `server/clients.rs` | per client: diff baseline, repaint, deferred render, graphics cache | `prepare_frame`, `commit_sent_frame`, `request_repaint` | `ClientStream` |
| Headless server | `server/headless.rs`, `server/clients.rs` | client table, foreground client, attach owners, resize locks, effective size | one handler per `ServerEvent`, API requests, `render_and_stream`, removal of clients | `HeadlessClients` |
| PTY I/O actor | `pty/actor/unix.rs` | gate for user input, two channels, actor state, bytes to write | input, `begin_handoff`, `duplicate_for_handoff`, `rollback_handoff`, `release_after_commit`, `shutdown` | `PtyActor` |
| Live handoff | `server/handoff.rs`, `server/headless.rs`, `handoff_runtime.rs` | two processes, a stream of lines and descriptors, the panes in both | `perform_live_handoff`, `run_handoff_import_server` | `LiveHandoff`, `PaneOwnership` |
| Sessions and sockets | `ipc.rs`, `api/server.rs`, `server/autodetect.rs`, `session.rs` | two socket files and who listens on them | `prepare_socket_path`, `bind_local_listener`, `remove_socket_file_if_owned` | `SessionSockets` |
| Pane graphics | `server/headless/pane_graphics.rs`, `api/server/pane_graphics_stream.rs`, `kitty_graphics.rs` | transactions, direct deliveries, acknowledgements | retained updates, direct file delivery, streams | partly (`ClientStream`) |
| Alternate-screen reads | `server/alt_screen_read.rs` | phase and deadlines of a read | settle, probe, harvest, restore, abort | `AltScreenRead`; the exclusion with attaches in `HeadlessClients` |
| Agent state | `terminal/state.rs`, `terminal/metadata.rs` | detected agent, hook authority, session, sequence numbers, suppressed and stale sessions | detection results, hook reports, releases, process exits | partly (`TerminalAgent`, `PaneAgent`) |
| Agent detection | `pane.rs`, `pane/agent_detection.rs`, `detect/` | the agent last seen, whether its exit was told; manifests | probes of the foreground, screen reads, publishing | partly (`PaneAgent`); the matching of screen text is not |
| Events, waits, subscriptions | `api/event_hub.rs`, `api/wait.rs`, `api/subscriptions.rs` | a bounded log of events with sequence numbers; per waiter: last sequence, snapshot | `push`, `events_after`, `wait_for_agent`, `prompt_agent`, `poll_result` | `EventHub`, `AgentWait`, `StatusSubscription`, `AgentWatchers` |
| API requests | `app/api.rs`, `app/api/` | none of its own | one translation to app actions per method | those the waits and the agent state depend on |
| Workspaces, tabs, layout | `workspace.rs`, `workspace/tab.rs`, `layout.rs` | split trees, focus, ids | split, close, move, resize, zoom | planned |
| App | `app/` | the state the server draws | actions, runtime loop | the changes of a pane's agent (`EventHub`, `PaneAgent`); else as environment |
| Persistence, agent resume | `persist/`, `app/session.rs`, `app/agent_resume.rs` | the snapshot on disk, the save thread, the plans of restored panes | capture, save, restore, resume | `SessionPersistence` (panes and their agent sessions) |
| Worktrees, git refresh | `worktree.rs`, `app/worktrees.rs`, `app/git_refresh.rs` | background commands and their results | start, finish, apply | planned last |
| Client process | `client/` | its terminal | handshake, input, drawing | as environment of `ClientStream` and `HeadlessClients` |
| Integrations | `integration/assets/` | sequence numbers of a hook's reports | session and state reports, one retry | the one for pi (`PaneAgent`) |
| Remote attach, update, plugins, UI, input, configuration, command line | `remote/`, `update.rs`, `app/api/plugins/`, `ui/`, `config/`, `cli/` | - | process orchestration, downloads, drawing, parsing | no: I/O or single-threaded |
| Virtual terminal | `ghostty/`, `src/vendor` | - | - | no: third-party |
| podsh, marketplace worker, website | `src/podsh`, `src/workers`, `src/website` | - | - | no: scripts and services around it |

### How they interact, and what is hard

* The **main loop** of the server is one task. Everything else reports to it
  over channels: two threads per client (one bounded channel for all of them),
  PTY actors, background commands, API connections. The state of the loop never
  races; what is hard is the *order* in which reports of things that have
  changed meanwhile arrive, and reports that are delayed because a channel is full.
* Towards a client the loop never blocks. A frame that does not fit is skipped
  and must be repaid later: the hazard is a deferral that is forgotten, or a diff
  encoded against a frame that the client never got.
* Terminals can be taken by **one writable client**; who that is is recorded in
  three places (owner map, client modes, resize locks) and ends in a dozen ways.
* A **PTY actor** is a thread behind calls with timeouts: an answer may come
  after its caller has given up and done something else.
* A **live handoff** is a two-process commit protocol over a stream, where each
  step may fail in either process, and one line is the point of no return.
* The **sockets of a session** are files that more than one process may probe,
  remove and bind, and that a crash leaves behind.
* **Agent state** is arbitrated among screen detection, hook reports (late,
  duplicated, out of order) and process exits; **waits** combine a probe with a
  log of events that forgets.
* An **alternate-screen read** moves an application that answers with nothing but what
  it draws, under three deadlines, and must leave it as it was.
* The **session on disk** is written by a thread some seconds after a change. Until
  a restored agent is back, nothing but that file and the pane's record know of
  its session.

## 2. The modules

| Module | Models | Composed of |
|---|---|---|
| `ClientWriterQueue` | the queue of one client; each operation is an operator, atomic under the queue's mutex | |
| `ClientStream` | one client's whole stream: main loop, writer thread, reader thread, event channel, the client's terminal | extends `ClientWriterQueue`; refines `FrameChannel` |
| `FrameChannel` | abstract: a channel of frames of bounded lag, drawn in order | |
| `HeadlessClients` | the client table of the server under all its events | |
| `PtyActor` | one PTY actor, its handle and its users | |
| `SessionSockets` | the two socket files and servers that start, stop and crash | |
| `LiveHandoff` | both servers of a handoff, and a third that wants the sockets | extends `SessionSockets`; refines `PaneOwnership` |
| `PaneOwnership` | abstract: who reads the panes before, during and after a handoff | |
| `EventHub` | one pane as the API sees it: the changes of its agent, the events they push, the bounded log | |
| `AgentWait` | one connection in `agent.wait` or `agent.prompt` | extends `EventHub` |
| `StatusSubscription` | one connection in `events.subscribe` or `events.wait` on an agent's status | extends `EventHub` |
| `AgentWatchers` | the main loop and either connection, interleaved | extends `AgentWait`, `StatusSubscription` |
| `TerminalAgent` | operators on the record of what a terminal believes about its agent | |
| `PaneAgent` | the processes, hooks and detection task of one pane, and its terminal | extends `TerminalAgent` |
| `SessionPersistence` | the agent sessions of all panes through saves, stops, crashes and restores | |
| `AltScreenRead` | one long read of an agent's transcript, and the application it scrolls | |
| `*_proofs` | TLAPS proofs about the module they extend | |
| `MC*` | the constants of the runs | |

### ClientWriterQueue, ClientStream

`control`, `ordered`, `render`, `senders`, `writerAlive` are the fields of
`ClientWriterQueueState`. The writer thread (`wpc`, `item`) takes the control
lane first, then the ordered lane, then the render slot, as `recv` does; it
posts `ClientWriterDrained` *before* it writes a render, and blocks while the
event channel is full. That channel is one for all clients, so other clients'
reports (`OthersReport`) compete for it. The main loop has one action per thing an iteration may
do: a render by the plan that `retained_render_plan` picks, one event, one
change of the app. `need` holds the loop's dirty flags.

A frame is a model value. A `TerminalAnsi` render is a difference: drawn over
anything else than its base it yields `Garbled`. Graphics transactions are
numbered; the host terminal takes one only after its predecessor. `view` is
what the client's terminal shows.

* `DeferralIsRepaid`: a deferred render always has something under way that will
  ask for it again. Together with liveness (`ClientCatchesUp`: the latest frame and
  the latest graphics are shown) this is the promise to a slow client.
* `UnsentIsOwed`: what a client has not been sent is deferred or due. The runs check
  both as `NothingOwedIsForgotten`.
* `BaselineIsWhatClientShows`: the baseline is what the client shows once what is
  queued is drawn. This is what keeps differences correct across skipped frames,
  overtaking files and cleanups.
* `ImplementsFrameChannel`: the two lanes and the thread are one ordered channel.
* `NothingStaysBehind`: a writer thread ends, and a client whose connection is gone
  leaves the table.

### HeadlessClients

One action per `ServerEvent` and per request that touches the table, each the
whole handler: removing a client releases its terminal, its lock, promotes
another foreground client and resizes. `older` is the order given by the
`last_activity` stamps, without the counter. A render matters for the sizes it
sets and for the streams of closed terminals it ends (`renderDue`).

* `OwnerIsAttachedClient`, `LocksMatchOwners`: the three records of who is attached
  agree. A lock of a terminal that died first stays in the set for ever; ids
  are not reused, so the invariant speaks of live terminals.
* `ReadsAndAttachesExclude`: no screen read of a terminal that has an owner. The three
  are checked as `OwnershipInStep`.
* `ForegroundDrives`, `TerminalSizes`: the layout has the foreground client's
  size, an attached terminal its owner's. Together: `SizesFollowDrivers`.
* `ClientsAreServed`: a client that is not written to any more has been told so, and
  every stream has a terminal or will be ended by the next render.

### PtyActor

An input is its number in the order of acceptance. `write_user_input` is three
steps, as the code awaits room between two looks at the gate. Each call of the
handle is split at its wait: `Send`, and an end that takes the answer or gives
up, which may happen at any moment. The actor's thread drains for
`begin_handoff` in a sub-loop (`thread = "draining"`).

* `AcceptedInputSurvives`: accepted input is written, pending or queued, once and
  in order, through any handoff that is begun, late, failed or rolled back.
* `PausedMeansQuiet`: what a handoff relies on when it captures the screen.
* `OpenGateRuns`: the gate is open only on an actor that runs and that no late
  command will stop. With the former: `GateMatchesActor`.
* `InputIsWritten`: liveness of accepted input.

### SessionSockets

A server takes the API socket, then the client socket, each in four steps:
probe, remove if stale, bind, record identity. A file is known by the process
that bound it. `overlap` records that two servers were starting at once after a
crash, which is the one case the code does not handle:

* `UpIsReachable`, `LiveFileIsKept`: without overlap, a server that is up owns both
  files, hence at most one is; a live file is removed by nobody else.
* `PrepareRejectsLive` (violated): with overlap, a file just bound can be removed
  by a second server that had found the path stale (see findings in
  `PROJECT.json`).
* `StoppedLeavesNothing` (with `UpIsReachable`: `FilesMatchServers`),
  `LoneStartSucceeds`: stops leave no files, and files of a crash do not keep a
  session down.

### LiveHandoff, PaneOwnership

`old` and `new` are the program counters of `perform_live_handoff` and
`run_handoff_import_server`; `toOld` and `toNew` the lines on their stream, the
descriptors among them. Every `?` and every error branch is an action; a read
may time out whenever its line is missing. A killed import server leaves its
socket files, which the old one must take over again.

`PanesHaveOneKeeper` is two facts:

* `OneReader`: no pane is read by two servers.
* `PaneKept`: some process holds each pane's PTY. `excused` names the exceptions:
  a crash of the process the panes belong to, or a commit written to an import
  server that has just given up waiting for it (30 s) and has not closed its end yet.
Besides:

* `ServingIsReachable`: the server that ends up with the panes has the sockets,
  unless a third server took them while neither had.
* `ImplementsPaneOwnership`, `PanesResume`.

### EventHub, AgentWait, StatusSubscription, AgentWatchers

`EventHub` has one pane with what the API tells of it: `agent`, `name`, `state`,
`seen` (`done` is idle and not seen) and the number of its last state change. An
action per way in which the app changes them computes the events of
`emit_pane_state_update` into `outbox`, and `Push` puts them into the hub one by
one, so a thread can look between two events of one change. The main loop
answers requests only between changes. `log` keeps the last `MaxEvents`; changes
of presentation alone are left out.

`AgentWait` is the thread of one connection, a step per look at the hub and per
request to the main loop, for `agent.wait` and for the two phases of
`agent.prompt`. `StatusSubscription` is one of the other kind: `poll_result` is
four steps, as it reads the hub, looks at the sequence number, asks for the pane and
looks at the hub again.

* `AnswerIsTrue`: a status answered was asked for and held since the request;
  "not running" is said only if the agent ended or changed since; a prompt is not
  answered with success before the agent has moved. One exception to the last is the code's:
  `agent.prompt` notes the hub's sequence number before it looks at the agent
  (`api/wait.rs:197`), so a release of the agent's previous process that was pushed
  before the submission is read after it, and answers the prompt (399-411).
  `docs/next/website/src/content/docs/agent-automation.mdx:76` promises a lifecycle change
  first. `LateRelease` names the case.
* `WaitEnds`: by the deadline, or once the pane keeps a status that was asked
  for, with two exceptions of the code that the formula names. One is a wait for which the
  hub dropped unread events (`missed`). The other is a status that came without an event
  and after the thread last looked at the pane (`unheard`): a look at the tab makes a
  `done` agent `idle` silently (`app/actions.rs:1272`) and the thread is woken by events
  only, so `agent wait --until idle`, an exact wait as
  `docs/next/website/src/content/docs/agent-automation.mdx:76` has it, goes on until an
  event says that the agent is idle. The run asks for exactly `idle`, and reaches both.
* `SubscriberIsTold`: a subscriber is told in order (`ToldInOrder`), and ends up knowing
  the status (`SubscriberCatchesUp`) also when its change had no event or the event was
  dropped. Both happen in the run: the hub of two forgets the status event of an agent
  with a name that is replaced by another, while the pane stays.

### TerminalAgent, PaneAgent

`TerminalAgent` is `TerminalState` as far as it arbitrates: one record, and pure
operators for a detection result, a state report, a session report and a
cleared hook. `PaneAgent` runs agents in the foreground of a pane one after the
other; their hooks' reports are under way for any time, lost or delivered twice;
the detection task probes the foreground and publishes what changed; the main loop
handles one result or report at a time. Instants matter only against detection
results in the queue, so an entry keeps how many of those are older than it.

Only official integrations that report their whole life cycle are modelled (as
the one for pi does: session ids, every report with session and number). The states
reported, names and metadata are left out; releases by such integrations are
ignored by the code. Exits may be missed between two probes; a probe that fails and
a foreground that is neither shell nor agent are not modelled. A process quits or
is killed at any time, its reports under way stay so: the hook waits at most 500 and 1500 ms
for an answer (`integration/assets/pi/herdr-agent-state.ts:21-54`).

* `LateReportsStayOut`: no report of a process whose exit is known is the state of
  the pane.
* `ReportsInOrder`: the state never goes back to an earlier report.

Neither holds without an exception. `unsure` is a history of the agents that the
exception is about, `Doubt` says how it changes: an agent with a stale session, since
then each report of its other sessions drops the source's number before it is
compared (`terminal/state.rs:662`); and an agent that is detected again after another one
while a session of it still stands, since its number is dropped then too
(`clear_full_lifecycle_hook_suppression_for_detected_agent`, 1034). An exit of the agent that the
terminal is told of ends both, unless a stale session is left. The second case takes a probe
that misses an exit: two processes of one agent with a process of another between them. An
earlier form of the properties excluded stale sessions and cleared hooks only, and held on the
instance of the run; three processes and two results refute it.

`LateReportsStayOut` has a second one, `Misleading`. If both the session's start and a
state report of a process arrive after its exit was told, the start is announced like that
of the next process, the state is held for that session, and the next process of the agent that
is detected promotes it. Nothing in a report tells the terminal which process sent it. What
it knows of the agent's exits (`gone`) is then worth nothing until it is told of the next
one; a late state report without a late start stays out, and so does a start that changes
nothing.

* `HookEndsWithProcess`: screen detection is not paused for ever by an agent that
  was killed.
* `OlderReportsIgnored` (violated): see findings.

Two things the model shows that no document speaks of. If the report of a new
session is lost and another new session follows, the hook's authority stays frozen
on the old one until the process ends; and a session announced while a cleared hook
is remembered is swallowed.

### SessionPersistence

`session` is what a pane's terminal knows of its agent's session, `disk` the
snapshot, `saver` what the save thread writes, `plan` the restored panes whose shell
waits for the client's theme. A save that is due while the thread writes is put off;
a write is a rename, so it happens or not; a stop waits for the thread and writes
once more; a crash loses what is not on disk, and the agents. A restore gives the
first pane of each session a plan and lets further ones forget it.

A session is reported as its agent starts and forgotten as it exits (the steps
between are in `PaneAgent`); a save or a shell's start may fail. `owed` is a
history: the sessions that have been on disk and are not over since, by an exit,
a successor, the end of the pane, or a shell that did not start.

* `SavedSessionSurvives`: those are on disk at every step.
* `ResumedOnce`: no server resumes a session in two panes.
* `ChangesReachDisk`: what is due for a save gets to the disk once changes end
  (each one puts the save off by five seconds), unless a write fails: a failed
  background save is logged and not tried again.

A resume whose shell does not start forgets the pane's session without marking
anything dirty; the snapshot on disk still has it, and a crash brings it back.

### AltScreenRead

A position in the transcript is counted in wheel reports from the bottom. The
application handles the reports on their way (`wheel`) one by one at its own pace, and
its text may change (`version`). One action per phase of `poll` and per way out of it;
what a poll finds of the pane and the agent (`Founds`) is open each time, `old` and
`restoring` say which deadlines have passed, and `send_wheel` may fail. What is left out:
half-drawn screens, screens that are similar though not the same, the lines collected,
and other reads of the terminal meanwhile.

* `ViewportReturns`: after the read the application is, or will be once it has handled
  what was sent, where it was. One that was at the bottom gets there however slow it is; one
  that was scrolled up has to handle the probe in time.
* `ReadEnds`: whatever the application does and the polls find.

`excused` names where the code does not move the viewport back: the channel to the
application is full, or the pane is resized, changes screens or ends, while it is
scrolled; its text changes between the probe and the look at it, which is taken for
movement; or it was scrolled up by less than the three reports of the probe, which then
moves it down by fewer than it is moved up again. The last is at odds with
`docs/preview/website/src/content/docs/agent-automation.mdx:88`, which says that the viewport
of a manually scrolled agent is not moved. A handoff in the middle of a read, which
forgets it, is not modelled.

## 3. The runs

| Run | Instance | Why that is enough |
|---|---|---|
| `client_stream_safety` | two frames, two transactions, one event slot, one volunteered control message, all client messages | two frames tell a right from a wrong baseline, two transactions an order from its reverse; a single slot makes each thread wait for the other's reports and for other clients'. 5.3M states, three minutes |
| `client_stream_live` | two frames, one transaction, one event slot, detach key | control lane kept for shutdown and cleanup only, see fairness |
| `headless_clients` | two app clients, two terminal clients, one terminal, two sizes | takeovers need two contenders, promotions two app clients. Two terminals pass as well (1.1M states) but add no behaviour: they share no state but the foreground size |
| `pty_actor` | two writers, channel of two, three inputs, two handoffs | a slot reserved before and filled after a handoff; a second handoff meets late answers of the first |
| `session_sockets` | three servers, one crash | one leaves stale files, two contend |
| `session_sockets_overlap` | the same | finds the violation |
| `live_handoff` | two panes, one crash, a third server | a partial pause needs two panes |
| `agent_watchers` | two agents, three states, a hub of two events, two events and those of the change that exceeds them; one wait for exactly `idle`, two prompts, two filters, one watcher at a time; the pane may have a name from the start | a change pushes up to three events, so a hub of two forgets within one change, the status event of an agent that stays among them; two agents tell a replaced agent from one that went and came back |
| `pane_agent` | two agents, two sessions, two processes, three reports or clears, two under way per process | a late report needs a process and its successor; of the same agent or of another, in the same session or not. A start and a state report, both late, are what `Misleading` takes |
| `pane_agent_order` | one agent, two sessions, one process, six reports, two under way | a change of session makes the first one stale; reports of the second arrive out of order, one of them twice |
| `alt_screen_read` | a transcript of four wheel reports, steps of two, a page of three, one read, one change of the text, two checks for alignment | the read meets the beginning of the transcript, or has enough before it; starts at, near and well above the bottom; a step is more than one report, so half of it may be handled |
| `session_persistence` | two panes, two sessions, three servers, five panes opened or agents started, one failed write | a crash during the second server's restore needs a third; two panes can have one session |

`CHECK_DEADLOCK FALSE` stands where the system really ends: all clients gone, an
actor exited, all servers stopped, a handoff completed, a watcher answered, and
where a bound on processes, reports, restarts or reads ends the run.

### Fairness

* The main loop drains its channels and renders in each iteration (weak fairness
  of `RenderFrame`, `RenderGraphics`, `HandleEvent`), and threads run.
* A thread that blocks on the full event channel is served in order of arrival,
  as tokio's bounded channel does: strong fairness of the three reports.
* A write to the client completes or fails, and a client that has read
  `ServerShutdown` closes its end.
* `ClientCatchesUp` assumes that the control lane is
  eventually empty: it outranks the render lanes, and the code does not bound it.
* The thread of a PTY actor runs and the pane's process reads its input.
* The processes of a start or of a handoff run. Nothing is assumed of the third
  server, of crashes, or of failures.
* The main loop pushes the events of a change it began. The thread of an API
  connection runs; its requests are answered by the main loop between changes, in
  the order of arrival, though changes may come again and again: strong fairness of
  the steps that ask. Deadlines pass.
* The detection task ticks, and the main loop handles its results. Nothing is
  assumed of hooks and agents.
* Of an alternate-screen read: time passes, and the main loop polls for ever, so one of the
  things a poll can find is found again and again (`\E found \in Founds`). Nothing is
  assumed of the application.
* A save's deadline passes and the save thread ends. Nothing is assumed of the
  start of servers or of a client that resumes need.

### Findings

Two runs show where the code does something else than its documentation says (a third
case, the number dropped when an agent is detected again, is under `PaneAgent` above);
`PROJECT.json` quotes both.

* `PrepareRejectsLive`: two servers that start at once after a crash; one removes
  the live socket of the other.
* `OlderReportsIgnored`: once a session of an agent is stale, each report of the
  fresh one drops the sequence number before comparing it, so an older report that
  is tried again is taken.

### Mutants

Each property has a variant of one definition that breaks it, named
`<Definition>_<What>` and placed before the definition; `PROJECT.json` lists the
pairs. They are the bugs the properties are there for: a report that is tried and not
waited for, a file that overtakes a render, a gate that is not looked at
again, sockets that are not taken again.

## 4. The proofs

TLAPS proves for every value of the constants, under the assumptions named in
the modules (`StreamAssumption`, `ClientsAssumption`, `PtyActorAssumption`, `SocketsAssumption`,
`HandoffAssumption`, `PersistenceAssumption`, `TerminalAssumption`, `PaneAssumption`,
`RecordAssumption`, `HubAssumption`, `WaitAssumption`, `SubscriptionAssumption`,
`ReadAssumption`, which only say that constants are distinct, bounds are numbers, `None` is no
record, requests and filters name at least one status, panes are numbered in an order,
and a step, a page and the checks of a read are at least one):

| Module | Theorem | Says |
|---|---|---|
| `ClientStream_proofs` | `TypeCorrect` | `Spec => []TypeOK` |
| | `DeferralNeverForgotten` | `Spec => []DeferralIsRepaid` |
| | `UnsentNeverForgotten` | `Spec => []UnsentIsOwed` |
| | `NothingOwedNeverForgotten` | `Spec => []NothingOwedIsForgotten` (both) |
| | `PartingIsFinal` | `Spec => []Parting` |
| | `BaselineNeverAhead` | `Spec => []BaselineIsWhatClientShows` |
| | `ImplementsChannel` | `Spec => ImplementsFrameChannel` |
| `HeadlessClients_proofs` | `TypeCorrect` | `Spec => []TypeOK` |
| | `OneWriterPerTerminal` | `Spec => []OwnerIsAttachedClient` |
| | `LocksFollowOwners` | `Spec => []LocksMatchOwners` |
| | `OwnershipStaysInStep` | `Spec => []OwnershipInStep` (these and the next) |
| | `ReadsNeverMeetOwners` | `Spec => []ReadsAndAttachesExclude` |
| | `EveryClientIsServed` | `Spec => []ClientsAreServed` |
| | `SizesStayWithDrivers` | `Spec => []SizesFollowDrivers` |
| `PtyActor_proofs` | `TypeCorrect` | `Spec => []TypeOK` |
| | `InputSurvives` | `Spec => []AcceptedInputSurvives` |
| | `GateAndActorAgree` | `Spec => []GateMatchesActor` |
| `LiveHandoff_proofs` (`SessionSockets`) | `SocketsAreTyped` | `Spec => []TypeOK` |
| | `OneServerPerSession` | `Spec => []FilesMatchServers` |
| | `LiveFilesKept` | `Spec => LiveFileIsKept` |
| `LiveHandoff_proofs` | `NoTwoReaders` | `HandoffSpec => []OneReader` |
| | `NoPaneLost` | `HandoffSpec => []PaneKept` |
| | `OneKeeperPerPane` | `HandoffSpec => []PanesHaveOneKeeper` (both) |
| | `Implements` | `HandoffSpec => ImplementsPaneOwnership` |
| | `HandoffTypes` | `HandoffSpec => []HandoffTypeOK` |
| | `ServerIsReached` | `HandoffSpec => []ServingIsReachable` |
| `AgentWatchers_proofs` | `TypeCorrect` | `WatchersSpec => []WatchersTypeOK` |
| | `AnswersAreTrue` | `WatchersSpec => []AnswerIsTrue` |
| | `NoticesInOrder` | `WatchersSpec => ToldInOrder` |
| `AltScreenRead_proofs` | `ReadsAreTyped` | `Spec => []ReadTypeOK` |
| | `ReadsPutBack` | `Spec => []ViewportReturns` |
| `PaneAgent_proofs` | `TypeCorrect` | `Spec => []PaneTypeOK` |
| | `LateReportsNeverTaken` | `Spec => []LateReportsStayOut` |
| | `ReportsTakenInOrder` | `Spec => ReportsInOrder` |
| `SessionPersistence_proofs` | `TypeCorrect` | `Spec => []PersistenceTypeOK` |
| | `NoSessionIsLost` | `Spec => []SavedSessionSurvives` |
| | `NeverResumedTwice` | `Spec => []ResumedOnce` |

The arguments:

* `ClientStream`: types are inductive once `CacheCoversFrame` is among them
  (a frame never carries a transaction its cache does not know).
  `DeferralIsRepaid` is inductive given types: a render is deferred only when the
  slot is full, or together with a request for a full render, and the slot empties
  only into a thread that is about to report. `UnsentIsOwed` follows the dirty
  flags through both render plans and uses the former.
  What a sequence of messages draws is a recursive function; its two laws (a message
  appended is drawn last, the first one may be drawn at once) are proved by least
  counterexample. Each step then queues a committed message, writes the oldest one, gives
  up all but the one in hand, ends the thread, or leaves the renders under way alone
  (`StepKinds`). That yields both the baseline and the refinement of `FrameChannel`. They need
  `Parting`: who is told to shut down, or about to be, is written to no more and has no
  ordered message, so of what is under way then only one render can be cut off.
* `HeadlessClients`: the invariant is `TypeOK`, `Roster` (writers, modes and
  terminals of clients in and out of the table) and `OwnerIsAttachedClient`; the
  locks and the reads follow in a second induction (`Exclusive`) that needs also
  that an unborn terminal has neither. `ClientsAreServed` is inductive with the first. For
  `SizesFollowDrivers` a third (`Asked`) says that a listed client has a role exactly
  from its first request on, so a promotion finds every app client there is.
* `PtyActor`: `Inv` says of each pair of a caller and the thread what the one may believe of
  the other: only the last command is waited for, an answer still holds while its call
  lasts, an open gate means that nothing is under way, a quiesced thread has nothing
  left to write. Input moves between four sequences whose concatenation does not change.
* `SessionSockets`: a file belongs to a server that has bound it and not left it,
  or to one that crashed. The converse holds until two servers have started at once on the
  files of a crash (`overlap`), and so does that a server about to remove a file as stale
  looks at that of a crash.
* `LiveHandoff`: the invariant follows the commit. Before it is written the old
  server holds all panes and the import server reads none; "ready" on the stream
  means that the import server has the descriptors; from the commit on the import
  server has the line to read or has read it, and the old one reads none. Each action
  then maps to an action of `PaneOwnership` or leaves its variables alone. For the sockets `StreamInv` joins to
  it the invariant of `SessionSockets` and what each server has left to say; at most one
  line is on its way, and until the old server leaves its sockets nobody else can take
  any.
* `AgentWatchers`: what a thread will read is in the hub's log and in the outbox of the change
  under way (`Since`), so it does not matter when it reads nor what the hub drops. Each
  status in there, and the pane's own, was the pane's since the request (`StatusesSeen`); an
  agent that has not ended is the one that was resolved and no event says else
  (`AgentStands`); a prompt whose agent has not moved is at its gate, which nothing there
  opens (`GateHolds`). A subscription has told nothing newer than what it has read, and a
  snapshot is never older.
* `PaneAgent`: per agent (`AgentInv`), the last number the terminal keeps of an agent with a
  session, announced or anchored, bounds all reports of processes known to be gone. It
  is inductive because reports are numbered in order of time: a start that is taken is of a
  process not known to be gone, whose number is above those of all earlier processes, or it is
  `Misleading` and makes `gone` know less; an agent whose number was dropped is `unsure`.
* `SessionPersistence`: what is owed is in three places: on disk, in the snapshot
  under way if there is one, and among the panes of the server if one runs
  (`OwedInv`). So each snapshot that takes the place of another has it. Across a restart
  the third follows from the first because the least pane that has a session
  (the naturals are well-founded) is the one that keeps it. For `ResumedOnce`
  the invariant is that planned panes have different sessions, none resumed so far
  (`PlanInv`); agents run in shells only, so no report changes a planned session.
* `AltScreenRead`: everything is said of `Rest`, where the application will be once it has
  handled the wheel reports under way. `Rest` does not change as one is handled, and moves
  by n, between the two ends of the transcript, as n are sent (by least counterexample over the
  sequence). The invariant (`OnCourse`) says where `Rest` is in each phase of a
  read that nothing excuses. At the bottom it is at most as far up as was sent upward, so that
  sending as much downward ends at the bottom; further up the probe has moved it by
  exactly a step, and an application that kept pace is seen to have moved, so it is
  sent back by a step and never harvested.

Every safety invariant and action property of a passing run is proved, and so are both
refinements. Only model-checked: liveness (`ClientCatchesUp`, `NothingStaysBehind`,
`InputIsWritten`, `LoneStartSucceeds`, `PanesResume`, `WaitEnds`, `SubscriberIsTold`,
`HookEndsWithProcess`, `ChangesReachDisk`, `ReadEnds`), which is beyond the prover, and
the two runs that expect a violation.

## 5. What is not modelled

* Of the modelled parts: handshakes and version checks (one step), oversized and
  unserializable frames, terminal attach streams' contents, resizes and redraw
  nudges of a PTY, terminal responses, Windows named pipes, the limit of 64 panes
  per handoff, the contents and the validation of a handoff manifest, agent
  resumes pending in a terminal during a handoff. Subscriptions to anything but one
  agent's status, and pane output matching. Layouts, names, pane history, snapshots
  of a handoff and a session file that cannot be parsed; sessions that cannot be
  resumed; panes started with a command of their own, which get a new shell when it
  ends. The old server of a handoff does not wait for its save thread.
* A rollback of a PTY actor that is not answered within a second leaves the gate
  shut on an actor that runs. `PtyActor` has those states; what the pane promises then
  is stated nowhere, and no property speaks of them.
* Components marked "no" in section 1.

## 6. The plan

Modelled so far, in this order: client streams, the client table, PTY actors,
sockets, handoffs, waits and subscriptions, agent state, persistence, alternate-screen
reads. Left, the most
concurrent first:

1. `GraphicsDelivery`: the acknowledgements and deadlines of direct file deliveries.
2. `Worktrees`: results of background commands that arrive after what they were about
   has changed.
3. `Layout`: the split tree as recursive functions against a reference definition.

