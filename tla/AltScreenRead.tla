------------------------------ MODULE AltScreenRead -----------------------------
(***************************************************************************)
(* A read of more lines than the screen shows, from an idle agent that     *)
(* draws its transcript on the alternate screen (src/src/server/           *)
(* alt_screen_read.rs).  The server scrolls the application with mouse     *)
(* wheel reports, collects pages, and scrolls back before it answers.      *)
(*                                                                         *)
(* The main loop polls the read every STEP_SETTLE; in between the          *)
(* application handles the wheel reports, one by one and as slowly as it   *)
(* likes.  The agent may start to work, the pane may be resized or end.    *)
(* HeadlessClients has the exclusion of reads and attached clients: while  *)
(* there is a read nobody is attached to the terminal.                     *)
(*                                                                         *)
(* The unit of scrolling is one wheel report; offset 0 is the bottom.  Two *)
(* screens are similar when they show the same text at the same offset.    *)
(***************************************************************************)
EXTENDS Integers, Sequences

CONSTANTS
  Top,        \* the offset of the beginning of the transcript
  Step,       \* WHEEL_STEP_EVENTS
  Page,       \* rows on the screen
  Unaligned,  \* MAX_UNALIGNED_CHECKS
  MaxReads,   \* bound on the reads
  MaxVersion  \* bound on the changes of what is drawn

ASSUME ReadAssumption ==
  /\ {Top, MaxReads, MaxVersion} \subseteq Nat
  /\ {Step, Page, Unaligned} \subseteq Nat \ {0}

VARIABLES
  offset,     \* how far up the application is scrolled
  version,    \* stands for the text it draws
  wheel,      \* wheel reports on their way to it
  phase,      \* Phase, or "none": no read
  checks,     \* the phase's checks
  valid,
  initial,    \* the screens at the beginning, and when last looked at
  previous,
  wanted,     \* lines asked for beyond the screen
  upward,     \* upward_events
  old,        \* MAX_DURATION has passed
  restoring,  \* restore_started_at: "no", "yes", or "old": MAX_RESTORE_DURATION has passed
  reads,
  home,       \* history: where the application was as the read began
  lagged,     \* history: it was looked at before it had handled what was sent
  excused     \* history: why it may stay elsewhere, see Excuse

screenVars == <<offset, version>>
clocks == <<old, restoring>>
readVars == <<phase, checks, valid, initial, previous, wanted, upward, clocks>>
history == <<home, lagged, excused>>
vars == <<screenVars, wheel, readVars, reads, history>>

Screen == [at |-> offset, version |-> version]
Moved(at, report) ==
  IF report = "up" THEN (IF at < Top THEN at + 1 ELSE Top) ELSE (IF at > 0 THEN at - 1 ELSE 0)
(* Where the application is after the reports, and where it will be once it *)
(* has handled what was sent.                                               *)
After(start, reports) ==
  LET place[n \in 0 .. Len(reports)] ==
        IF n = 0 THEN start ELSE Moved(place[n - 1], reports[n])
  IN  place[Len(reports)]
Rest == After(offset, wheel)

(* Exceptions to what ViewportReturns says: reasons that lie with the application. *)
Excuse(why) == excused' = (excused \/ why)

----------------------------------------------------------------------------
(* The application handles a wheel report. *)
HandleReport ==
  /\ wheel # <<>>
  /\ offset' = Moved(offset, Head(wheel)) /\ wheel' = Tail(wheel)
  /\ UNCHANGED <<version, readVars, reads, history>>

(* Its text changes; between the probe and the look at it that is taken for movement. *)
TextChanges ==
  /\ version < MaxVersion /\ version' = version + 1
  /\ Excuse(phase = "ProbeBottom")
  /\ UNCHANGED <<offset, wheel, readVars, reads, home, lagged>>

----------------------------------------------------------------------------
(* alt_screen_read_spec, PendingAltScreenRead::start *)
Start(lines) ==
  /\ phase = "none" /\ reads < MaxReads
  /\ phase' = "SettleInitial" /\ checks' = 0 /\ valid' = TRUE
  /\ initial' = Screen /\ previous' = Screen /\ wanted' = lines
  /\ upward' = 0 /\ old' = FALSE /\ restoring' = "no"
  /\ reads' = reads + 1
  /\ home' = Rest /\ lagged' = FALSE
  /\ excused' = (wheel # <<>> \/ Rest \in 1 .. Step - 1)
  /\ UNCHANGED <<screenVars, wheel>>

(* Time passes. *)
Ages ==
  /\ phase # "none"
  /\ \/ ~old /\ old' = TRUE /\ UNCHANGED restoring
     \/ restoring = "yes" /\ restoring' = "old" /\ UNCHANGED old
  /\ UNCHANGED <<screenVars, wheel, phase, checks, valid, initial, previous, wanted, upward,
                 reads, history>>

----------------------------------------------------------------------------
(* complete_success and complete_fallback *)
Complete ==
  /\ phase' = "none" /\ checks' = 0 /\ valid' = TRUE
  /\ initial' = Screen /\ previous' = Screen
  /\ wanted' = 0 /\ upward' = 0 /\ old' = FALSE /\ restoring' = "no" /\ UNCHANGED wheel

(* The read goes on in phase p. *)
Continue(p, n) == phase' = p /\ checks' = n /\ UNCHANGED <<wanted, old>>

Wheel(report, n) == wheel' = wheel \o [i \in 1 .. n |-> report]

(* send_wheel fails: no mouse reports, or no room in the channel. *)
WheelFails == Complete /\ Excuse(phase # "SettleInitial")

StartHarvest(screen) ==
  \/ /\ Wheel("up", Step) /\ upward' = upward + Step
     /\ Continue("Harvest", 0) /\ previous' = screen
     /\ UNCHANGED <<valid, initial, restoring, excused>>
  \/ WheelFails

StartRestore(v, screen) ==
  \/ upward = 0 /\ Complete /\ UNCHANGED excused
  \/ /\ upward # 0 /\ Wheel("down", upward)
     /\ Continue("Restore", 0) /\ restoring' = "yes"
     /\ valid' = v /\ previous' = screen
     /\ UNCHANGED <<initial, upward, excused>>
  \/ upward # 0 /\ WheelFails

----------------------------------------------------------------------------
(* What a poll finds: is the agent idle, and the runtime and its screen the  *)
(* ones of the read ("ready"), resized or off the alternate screen           *)
(* ("changed"), or "gone".                                                   *)
Founds == [idle : BOOLEAN, app : {"ready", "changed", "gone"}]

Aborted(found) == ~found.idle /\ phase \in {"SettleInitial", "Harvest"}

(* abort: the agent is not idle. *)
Abort(found) ==
  /\ Aborted(found) /\ UNCHANGED lagged
  /\ \/ phase = "SettleInitial" /\ Complete /\ UNCHANGED excused
     \/ phase = "Harvest" /\ found.app = "gone" /\ Complete /\ Excuse(TRUE)
     \/ phase = "Harvest" /\ found.app # "gone" /\ StartRestore(FALSE, previous)

(* It is not, but what has been moved is moved back first; not yet due. *)
Doubt(found) ==
  /\ ~found.idle /\ valid /\ phase \in {"ProbeBottom", "RestoreProbe", "Restore"}
  /\ valid' = FALSE
  /\ UNCHANGED <<wheel, phase, checks, initial, previous, wanted, upward, clocks, lagged, excused>>

(* Mutant: a restore has no deadline. *)
Lost_Patient(found) == found.app # "ready"

(* The runtime or its screen is another one, or the restore takes too long. *)
Lost(found) == found.app # "ready" \/ restoring = "old"

(* Mutant: a probe is given up as well. *)
TooLong_Probe == old /\ phase \notin {"Restore", "RestoreProbe"}

(* MAX_DURATION *)
TooLong == old /\ phase \in {"SettleInitial", "Harvest"}

Look(found) ==
  /\ phase # "none" /\ ~Aborted(found)
  /\ lagged' = (lagged \/ wheel # <<>>)

GiveUp(found) ==
  /\ Look(found) /\ Lost(found)
  /\ Complete /\ Excuse(found.app # "ready" /\ phase # "SettleInitial")

Expire(found) == Look(found) /\ ~Lost(found) /\ TooLong /\ StartRestore(FALSE, previous)

(* poll, in phase p, of a screen that can be read. *)
Polled(p, found) == phase = p /\ Look(found) /\ ~Lost(found) /\ ~TooLong

SettleInitial(found) ==
  /\ Polled("SettleInitial", found)
  /\ \/ /\ Screen # initial
        /\ initial' = Screen /\ previous' = Screen /\ Continue("SettleInitial", 0)
        /\ UNCHANGED <<valid, upward, restoring, wheel, excused>>
     \/ /\ Screen = initial /\ checks = 0 /\ Continue("SettleInitial", 1)
        /\ UNCHANGED <<valid, initial, previous, upward, restoring, wheel, excused>>
     \/ /\ Screen = initial /\ checks = 1 /\ Wheel("down", Step) /\ Continue("ProbeBottom", 0)
        /\ UNCHANGED <<valid, initial, previous, upward, restoring, excused>>
     \/ Screen = initial /\ checks = 1 /\ WheelFails

(* Mutant: the restore of a probe is not timed. *)
ProbeBottom_Untimed(found) ==
  LET ok == valid /\ found.idle IN
  /\ Polled("ProbeBottom", found)
  /\ \/ Screen = initial /\ ok /\ StartHarvest(previous)
     \/ Screen = initial /\ ~ok /\ Complete /\ UNCHANGED excused
     \/ /\ Screen # initial /\ Wheel("up", Step) /\ Continue("RestoreProbe", 0)
        /\ valid' = ok
        /\ UNCHANGED <<initial, previous, upward, restoring, excused>>
     \/ Screen # initial /\ WheelFails

(* Was it at the bottom? *)
ProbeBottom(found) ==
  LET ok == valid /\ found.idle IN
  /\ Polled("ProbeBottom", found)
  /\ \/ Screen = initial /\ ok /\ StartHarvest(previous)
     \/ Screen = initial /\ ~ok /\ Complete /\ UNCHANGED excused
     \/ /\ Screen # initial /\ Wheel("up", Step) /\ Continue("RestoreProbe", 0)
        /\ valid' = ok /\ restoring' = "yes"
        /\ UNCHANGED <<initial, previous, upward, excused>>
     \/ Screen # initial /\ WheelFails

RestoreProbe(found) ==
  /\ Polled("RestoreProbe", found)
  /\ \/ Screen = initial /\ Complete /\ UNCHANGED excused
     \/ /\ Screen # initial /\ Continue("RestoreProbe", 0) /\ valid' = (valid /\ found.idle)
        /\ UNCHANGED <<initial, previous, upward, restoring, wheel, excused>>

(* merge_scrolled_up *)
Advanced == version = previous.version /\ offset - previous.at \in 1 .. Page - 1

Harvest(found) ==
  /\ Polled("Harvest", found)
  /\ \/ Advanced /\ offset - initial.at < wanted /\ StartHarvest(Screen)
     \/ Advanced /\ offset - initial.at >= wanted /\ StartRestore(valid, Screen)
     \/ Screen = previous /\ StartRestore(valid, previous)
     \/ /\ Screen # previous /\ ~Advanced /\ checks + 1 < Unaligned
        /\ Continue("Harvest", checks + 1)
        /\ UNCHANGED <<valid, initial, previous, upward, restoring, wheel, excused>>
     \/ /\ Screen # previous /\ ~Advanced /\ checks + 1 = Unaligned
        /\ StartRestore(FALSE, previous)

(* The application is back when it has stopped moving. *)
Restore(found) ==
  LET ok == valid /\ found.idle IN
  /\ Polled("Restore", found)
  /\ \/ Screen = previous /\ checks = 1 /\ Complete /\ UNCHANGED excused
     \/ /\ Screen = previous /\ checks = 0 /\ Continue("Restore", 1) /\ valid' = ok
        /\ UNCHANGED <<initial, previous, upward, restoring, wheel, excused>>
     \/ /\ Screen # previous /\ previous' = Screen
        /\ Wheel("down", IF Page > 1 THEN Page \div 2 ELSE 1)
        /\ Continue("Restore", 0) /\ valid' = ok
        /\ UNCHANGED <<initial, upward, restoring, excused>>
     \/ Screen # previous /\ WheelFails

(* poll_pending_alt_screen_reads *)
Poll(found) ==
  /\ \/ Abort(found) \/ Doubt(found) \/ GiveUp(found) \/ Expire(found)
     \/ SettleInitial(found) \/ ProbeBottom(found) \/ RestoreProbe(found)
     \/ Harvest(found) \/ Restore(found)
  /\ UNCHANGED <<screenVars, reads, home>>

----------------------------------------------------------------------------
Init ==
  /\ offset \in 0 .. Top /\ version = 0 /\ wheel = <<>>
  /\ phase = "none" /\ checks = 0 /\ valid = TRUE /\ initial = Screen /\ previous = Screen
  /\ wanted = 0 /\ upward = 0 /\ old = FALSE /\ restoring = "no"
  /\ reads = 0 /\ home = offset /\ lagged = FALSE /\ excused = FALSE

Application == HandleReport \/ TextChanges

Next ==
  \/ Application \/ Ages
  \/ \E found \in Founds : Poll(found)
  \/ \E lines \in 1 .. Top + 1 : Start(lines)

(* Time passes, and the main loop polls for ever, so that one of the findings recurs;  *)
(* which one is open, and nothing is assumed of the application.                       *)
Fairness == WF_vars(Ages) /\ \E found \in Founds : WF_vars(Poll(found))

Spec == Init /\ [][Next]_vars /\ Fairness

----------------------------------------------------------------------------
Phases == {"none", "SettleInitial", "ProbeBottom", "RestoreProbe", "Harvest", "Restore"}
Screens == [at : 0 .. Top, version : 0 .. MaxVersion]

(* Every variable has its type; a read that moves the application back has a *)
(* deadline for it, and no other read has.                                   *)
ReadTypeOK ==
  /\ Screen \in Screens /\ wheel \in Seq({"up", "down"})
  /\ phase \in Phases /\ checks \in 0 .. Unaligned /\ valid \in BOOLEAN
  /\ initial \in Screens /\ previous \in Screens /\ wanted \in 0 .. Top + 1
  /\ upward \in Nat /\ old \in BOOLEAN /\ restoring \in {"no", "yes", "old"}
  /\ (restoring # "no") = (phase \in {"RestoreProbe", "Restore"})
  /\ reads \in 0 .. MaxReads
  /\ home \in 0 .. Top /\ lagged \in BOOLEAN /\ excused \in BOOLEAN

(* After a read the application is where it was before.  One that was at the *)
(* bottom gets there however slowly it handles the wheel reports; one that   *)
(* was scrolled up by at least a step needs to handle them in time, and so   *)
(* does whoever reads the screen next.                                       *)
ViewportReturns ==
  phase = "none" /\ ~excused =>
    /\ home = 0 \/ ~lagged => Rest = home
    /\ ~lagged => offset = home /\ wheel = <<>>

(* A read ends, whatever the application does. *)
ReadEnds == phase # "none" ~> phase = "none"
=============================================================================
