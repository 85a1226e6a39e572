--------------------------- MODULE StatusSubscription ---------------------------
(***************************************************************************)
(* One API connection that is told of the changes of a pane's agent        *)
(* status: events.subscribe, or events.wait, which ends with the first     *)
(* one (src/src/api/subscriptions.rs, stream_subscriptions in              *)
(* src/src/api/server.rs, wait_for_event in src/src/api/wait.rs).          *)
(*                                                                         *)
(* Status events come from the hub.  Some changes have no event, and the   *)
(* hub forgets, so the pane is also asked for, and the snapshot compared   *)
(* with what was known.  A snapshot counts only if the hub has pushed      *)
(* nothing between the thread's last look at it and its next.              *)
(***************************************************************************)
EXTENDS EventHub

CONSTANT Filters   \* the statuses asked for; None: all

ASSUME SubscriptionAssumption == Filters \subseteq Statuses \cup {None}

VARIABLES
  filter,    \* the status asked for, or None
  once,      \* events.wait
  spc,       \* where the thread is
  unreadFrom,\* the last event it has looked at (last_sequence)
  last,      \* the last status it knows of (last_status)
  initial,   \* what the first snapshot is reported with, or Nothing
  snapshot,  \* what the pane was when last asked for, or Nothing
  told,      \* the last notification, with the event it stands for or follows
  first      \* history: the status when the subscription began

subVars == <<filter, once, spc, unreadFrom, last, initial, snapshot, told, first>>

Notice(status, at) == [status |-> status, at |-> at]
Nothing == Notice(None, 0)
Gone == Notice("gone", 0)
Ended == spc = "ended"
Passes(status) == filter \in {None, status}

(* The thread is told n; events.wait is over then. *)
Deliver(n) == told' = n /\ spc' = IF once THEN "ended" ELSE "read"

----------------------------------------------------------------------------
SubBegin ==
  /\ spc = "start" /\ spc' = "probe" /\ unreadFrom' = next
  /\ UNCHANGED <<filter, once, last, initial, snapshot, told, first>>

(* ActiveSubscription::new; without a pane the subscription is refused. *)
SubProbe ==
  /\ spc = "probe" /\ outbox = <<>>
  /\ spc' = IF there THEN "read" ELSE "ended"
  /\ last' = Status /\ first' = Status
  /\ initial' = IF filter = Status THEN Notice(Status, next) ELSE Nothing
  /\ UNCHANGED <<filter, once, unreadFrom, snapshot, told>>

Fresh == Unread(unreadFrom)
SequenceOf(i) == next - Len(Fresh) + i
StatusNews == {i \in DOMAIN Fresh : Fresh[i].kind = "status"}
Hits == {i \in StatusNews : Passes(Fresh[i].status)}
Oldest(S) == CHOOSE i \in S : \A j \in S : i <= j
Newest(S) == CHOOSE i \in S : \A j \in S : j <= i

(* The first half of poll_result: the oldest new event that passes the filter. *)
SubRead ==
  /\ spc = "read"
  /\ IF Hits # {} THEN
       LET i == Oldest(Hits) IN
       /\ Deliver(Notice(Fresh[i].status, SequenceOf(i)))
       /\ unreadFrom' = SequenceOf(i) /\ last' = Fresh[i].status /\ initial' = Nothing
     ELSE
       /\ unreadFrom' = next
       /\ IF StatusNews = {} THEN spc' = "check" /\ UNCHANGED <<last, initial>>
          ELSE spc' = "ask" /\ last' = Fresh[Newest(StatusNews)].status /\ initial' = Nothing
       /\ UNCHANGED told
  /\ UNCHANGED <<filter, once, snapshot, first>>

(* Mutant: without news from the hub there is nothing to do. *)
SubCheck_TrustsHub ==
  /\ spc = "check"
  /\ IF next = unreadFrom /\ initial # Nothing THEN Deliver(initial) /\ initial' = Nothing
     ELSE spc' = "read" /\ UNCHANGED <<told, initial>>
  /\ UNCHANGED <<filter, once, unreadFrom, last, snapshot, first>>

(* Nothing new, still: the initial status is due, or else a snapshot is. *)
SubCheck ==
  /\ spc = "check"
  /\ IF next # unreadFrom THEN spc' = "read" /\ UNCHANGED <<told, initial>>
     ELSE IF initial # Nothing THEN Deliver(initial) /\ initial' = Nothing
     ELSE spc' = "ask" /\ UNCHANGED <<told, initial>>
  /\ UNCHANGED <<filter, once, unreadFrom, last, snapshot, first>>

(* pane_get, which may find no pane or get no answer in time. *)
SubAsk ==
  /\ spc = "ask" /\ spc' = "compare"
  /\ \/ outbox = <<>> /\ snapshot' = IF there THEN Notice(Status, next) ELSE Gone
     \/ snapshot' = Nothing
  /\ UNCHANGED <<filter, once, unreadFrom, last, initial, told, first>>

(* The rest of poll_result and event_from_snapshot.  events.wait ends if the pane is gone. *)
SubCompare ==
  /\ spc = "compare"
  /\ IF next # unreadFrom THEN spc' = "read" /\ UNCHANGED <<last, told>>
     ELSE IF snapshot \in {Nothing, Gone}
     THEN spc' = (IF once /\ snapshot = Gone THEN "ended" ELSE "read") /\ UNCHANGED <<last, told>>
     ELSE /\ last' = snapshot.status
          /\ IF snapshot.status # last /\ Passes(snapshot.status) THEN Deliver(snapshot)
             ELSE spc' = "read" /\ UNCHANGED told
  /\ snapshot' = Nothing
  /\ UNCHANGED <<filter, once, unreadFrom, initial, first>>

(* The client closes its end, or the time of events.wait is up. *)
SubEnds ==
  /\ spc = "read" /\ spc' = "ended"
  /\ UNCHANGED <<filter, once, unreadFrom, last, initial, snapshot, told, first>>

----------------------------------------------------------------------------
SubIdle(p) ==
  /\ spc = p /\ unreadFrom = 0 /\ last = None
  /\ initial = Nothing /\ snapshot = Nothing /\ told = Nothing /\ first = None

(* events.wait always names a status. *)
SubInit == SubIdle("start") /\ filter \in Filters /\ once \in BOOLEAN /\ (once => filter # None)

SubStep == SubBegin \/ SubProbe \/ SubRead \/ SubCheck \/ SubAsk \/ SubCompare \/ SubEnds

(* The thread runs, and the main loop answers it again and again. *)
SubFairness ==
  /\ WF_subVars(SubBegin \/ SubRead \/ SubCheck \/ SubAsk \/ SubCompare)
  /\ SF_subVars(SubProbe)
  /\ SF_subVars(SubAsk /\ snapshot' # Nothing)

SubTypeOK ==
  /\ filter \in Filters \cup {None} /\ once \in BOOLEAN
  /\ spc \in {"start", "probe", "read", "check", "ask", "compare", "ended"}
  /\ unreadFrom \in 0..next
  /\ {last, first} \subseteq Statuses \cup {None}
  /\ {initial, told} \subseteq [status : Statuses \cup {None}, at : 0..next]
  /\ snapshot \in [status : Statuses \cup {None}, at : 0..next] \cup {Gone}

(* Notifications come in the order of what they tell, and no event is told of after a *)
(* snapshot that already shows it.                                                    *)
ToldInOrder ==
  [][told = Nothing \/ told' = told \/ told'.at > told.at \/ (told'.at = told.at /\ told' = snapshot)]_subVars

(* A subscriber that stays ends up knowing the status, if it asked for it: also when  *)
(* the last change had no event, or its event was dropped.                            *)
SubscriberCatchesUp ==
  \A s \in Statuses :
    <>[](there /\ Status = s /\ ~Ended /\ Passes(s))
      => <>[](told.status = s \/ (told = Nothing /\ first = s /\ filter = None))

(* Both: a subscriber is told in order, nothing twice, and the last status in any case. *)
SubscriberIsTold == ToldInOrder /\ SubscriberCatchesUp
=============================================================================
