-------------------------- MODULE AgentWatchers_proofs --------------------------
(***************************************************************************)
(* AgentWatchers proved for any agents, states, requests and filters, and  *)
(* for a hub of any capacity: what a waiting connection answers is true    *)
(* (AnswerIsTrue), and a subscriber is told in order (ToldInOrder).        *)
(*                                                                         *)
(* What a thread will read is in two places, the hub's log and the outbox  *)
(* of the change under way; Since(c) is both.  The arguments are about     *)
(* these events, so it does not matter when the thread reads, nor whether  *)
(* the hub has dropped some of them by then.                               *)
(***************************************************************************)
EXTENDS AgentWatchers, SequenceTheorems, WellFoundedInduction, TLAPS

USE HubAssumption DEF Labels, Statuses, hubVars, paneVars, waitVars, waitHistory, subVars

----------------------------------------------------------------------------
(* The events with a number above c: those the hub keeps, and those to be pushed. *)
Kept(c) == {log[j] : j \in {k \in 1 .. Len(log) : next - Len(log) + k > c}}
Pending == {outbox[j] : j \in 1 .. Len(outbox)}
Since(c) == Kept(c) \cup Pending

(* A set of numbers that is not empty and has a bound has a least and a greatest. *)
LEMMA LeastOf ==
  ASSUME NEW S, S \subseteq Nat, S # {}
  PROVE  \E i \in S : \A j \in S : i <= j
  <1> DEFINE R == OpToRel(<, Nat)
  <1>1. IsWellFoundedOn(R, Nat)
    BY NatLessThanWellFounded
  <1>2. \E i \in S : \A j \in S : <<j, i>> \notin R
    <2> HIDE DEF R
    <2> QED
      BY <1>1, WFMin
  <1>3. PICK i \in S : \A j \in S : <<j, i>> \notin R
    BY <1>2
  <1>4. \A j \in S : ~(j < i)
    BY <1>3 DEF OpToRel
  <1> QED
    BY <1>4

LEMMA GreatestOf ==
  ASSUME NEW n \in Nat, NEW S, S \subseteq 1 .. n, S # {}
  PROVE  \E i \in S : \A j \in S : j <= i
  <1> DEFINE T == {n - j : j \in S}
  <1>1. T \subseteq Nat /\ T # {}
    <2>1. \A j \in S : n - j \in Nat
      OBVIOUS
    <2> QED
      BY <2>1
  <1>2. PICK t \in T : \A u \in T : t <= u
    <2> HIDE DEF T
    <2> QED
      BY <1>1, LeastOf
  <1>3. PICK i \in S : t = n - i
    OBVIOUS
  <1>4. \A j \in S : n - i <= n - j
    BY <1>2, <1>3
  <1> QED
    BY <1>4

(* What a thread finds that has read up to c: as many events as the hub has of them. *)
LEMMA UnreadEvents ==
  ASSUME HubTypeOK, NEW c \in 0 .. next
  PROVE  /\ Unread(c) \in Seq(HubEvents)
         /\ Len(Unread(c)) <= next - c
         /\ \A i \in 1 .. Len(Unread(c)) : Unread(c)[i] \in Kept(c)
         /\ \A e \in Kept(c) : \E i \in 1 .. Len(Unread(c)) : e = Unread(c)[i]
  <1>1. log \in Seq(HubEvents) /\ Len(log) \in Nat /\ next \in Nat /\ c \in Nat /\ next - c \in Nat
    BY DEF HubTypeOK
  <1>2. \A i \in 1 .. Len(log) : log[i] \in HubEvents
    BY <1>1, ElementOfSeq
  <1>3. CASE next - c < Len(log)
    <2> DEFINE m == Len(log) - (next - c) + 1
               q == SubSeq(log, m, Len(log))
    <2>1. Unread(c) = q
      BY <1>3 DEF Unread, Last
    <2>2. m \in Int /\ Len(log) \in Int /\ \A i \in m .. Len(log) : log[i] \in HubEvents
      BY <1>1, <1>2, <1>3
    <2>3. /\ q \in Seq(HubEvents)
          /\ Len(q) = IF m <= Len(log) THEN Len(log) - m + 1 ELSE 0
          /\ \A i \in 1 .. Len(log) - m + 1 : q[i] = log[m + i - 1]
      <3> HIDE DEF m
      <3> QED
        BY <2>2, SubSeqProperties
    <2>4. Len(q) = next - c
      BY <2>3, <1>1, <1>3
    <2>5. \A i \in 1 .. next - c : q[i] = log[m + i - 1]
      BY <2>3, <1>1, <1>3
    <2> HIDE DEF q
    <2>6. \A i \in 1 .. next - c : q[i] \in Kept(c)
      <3> SUFFICES ASSUME NEW i \in 1 .. next - c PROVE q[i] \in Kept(c)
        OBVIOUS
      <3>1. m + i - 1 \in 1 .. Len(log) /\ next - Len(log) + (m + i - 1) > c
        BY <1>1, <1>3
      <3> QED
        BY <3>1, <2>5 DEF Kept
    <2>7. \A e \in Kept(c) : \E i \in 1 .. next - c : e = q[i]
      <3> SUFFICES ASSUME NEW e \in Kept(c) PROVE \E i \in 1 .. next - c : e = q[i]
        OBVIOUS
      <3>1. PICK k \in 1 .. Len(log) : next - Len(log) + k > c /\ e = log[k]
        BY DEF Kept
      <3> DEFINE i == k - m + 1
      <3>2. i \in 1 .. next - c /\ m + i - 1 = k
        BY <3>1, <1>1, <1>3
      <3> QED
        BY <3>1, <3>2, <2>5
    <2> QED
      BY <2>1, <2>3, <2>4, <2>6, <2>7, <1>1
  <1>4. CASE ~(next - c < Len(log))
    <2>1. Unread(c) = log
      BY <1>4 DEF Unread
    <2>2. \A k \in 1 .. Len(log) : next - Len(log) + k > c
      BY <1>1, <1>4
    <2>3. Kept(c) = {log[k] : k \in 1 .. Len(log)}
      BY <2>2 DEF Kept
    <2> QED
      BY <2>1, <2>3, <1>1, <1>4
  <1> QED
    BY <1>3, <1>4

(* A later reader has less to read. *)
LEMMA SinceLater ==
  ASSUME HubTypeOK, NEW c \in 0 .. next, NEW d \in 0 .. next, c <= d
  PROVE  Since(d) \subseteq Since(c)
  <1>1. Len(log) \in Nat /\ next \in Nat
    BY DEF HubTypeOK
  <1> QED
    BY <1>1 DEF Since, Kept

(* Who begins to read now reads what is to be pushed. *)
LEMMA SinceNow ==
  ASSUME HubTypeOK
  PROVE  Since(next) = Pending
  <1>1. Len(log) \in Nat /\ next \in Nat
    BY DEF HubTypeOK
  <1> QED
    BY <1>1 DEF Since, Kept

(* A push moves an event, and may drop another. *)
LEMMA SincePushed ==
  ASSUME HubTypeOK, Push, NEW c \in 0 .. next
  PROVE  Since(c)' \subseteq Since(c)
  <1>1. /\ log \in Seq(HubEvents) /\ outbox \in Seq(HubEvents) /\ outbox # <<>>
        /\ Len(log) \in Nat /\ next \in Nat /\ Len(log) <= MaxEvents
        /\ next' = next + 1 /\ c \in Nat
    BY DEF HubTypeOK, Push
  <1> DEFINE e == Head(outbox)
  <1>2. /\ e \in HubEvents /\ e = outbox[1]
        /\ outbox' \in Seq(HubEvents) /\ Len(outbox') = Len(outbox) - 1
        /\ \A i \in 1 .. Len(outbox') : outbox'[i] = outbox[i + 1]
        /\ Len(outbox) \in Nat \ {0}
    <2>1. outbox' = Tail(outbox)
      BY DEF Push
    <2> QED
      BY <1>1, <2>1, HeadTailProperties, EmptySeq
  <1>3. e \in Pending
    BY <1>2 DEF Pending
  <1>4. Pending' \subseteq Pending
    BY <1>2 DEF Pending
  <1>5. Kept(c)' \subseteq Kept(c) \cup {e}
    <2> SUFFICES ASSUME NEW k \in 1 .. Len(log'), next' - Len(log') + k > c
                 PROVE  log'[k] \in Kept(c) \cup {e}
      BY DEF Kept
    <2>1. log' = IF Len(log) < MaxEvents THEN Append(log, e) ELSE Append(Tail(log), e)
      BY DEF Push, Pushed
    <2>2. CASE Len(log) < MaxEvents
      <3>1. log' = Append(log, e)
        BY <2>1, <2>2
      <3>2. /\ Len(log') = Len(log) + 1 /\ log'[Len(log) + 1] = e
            /\ \A i \in 1 .. Len(log) : log'[i] = log[i]
        BY <3>1, <1>1, <1>2
      <3>3. CASE k = Len(log) + 1
        BY <3>2, <3>3
      <3>4. CASE k # Len(log) + 1
        <4>1. k \in 1 .. Len(log) /\ next - Len(log) + k > c
          BY <3>2, <3>4, <1>1
        <4> QED
          BY <4>1, <3>2 DEF Kept
      <3> QED
        BY <3>3, <3>4
    <2>3. CASE ~(Len(log) < MaxEvents)
      <3> DEFINE t == Tail(log)
      <3>1. log' = Append(t, e)
        BY <2>1, <2>3
      <3>2. Len(log) = MaxEvents /\ log # <<>>
        BY <2>3, <1>1, EmptySeq
      <3>3. /\ t \in Seq(HubEvents) /\ Len(t) = Len(log) - 1
            /\ \A i \in 1 .. Len(t) : t[i] = log[i + 1]
        BY <3>2, <1>1, HeadTailProperties
      <3> HIDE DEF t
      <3>4. /\ Len(log') = Len(log) /\ log'[Len(log)] = e
            /\ \A i \in 1 .. Len(log) - 1 : log'[i] = log[i + 1]
        BY <3>1, <3>3, <1>1, <1>2
      <3>5. CASE k = Len(log)
        BY <3>4, <3>5
      <3>6. CASE k # Len(log)
        <4>1. k + 1 \in 1 .. Len(log) /\ next - Len(log) + (k + 1) > c /\ log'[k] = log[k + 1]
          BY <3>4, <3>6, <1>1
        <4> QED
          BY <4>1 DEF Kept
      <3> QED
        BY <3>5, <3>6
    <2> QED
      BY <2>2, <2>3
  <1> QED
    BY <1>3, <1>4, <1>5 DEF Since

(* A change leaves what the hub has, and puts its own events after it. *)
LEMMA SinceChanged ==
  ASSUME NEW c, outbox = <<>>, UNCHANGED <<log, next>>
  PROVE  \A e \in Since(c)' : e \in Since(c) \/ e \in Pending'
  BY DEF Since, Kept

----------------------------------------------------------------------------
(* The events of a change. *)
LEMMA OneOrNone ==
  ASSUME NEW T, NEW e, NEW b \in BOOLEAN, b => e \in T, NEW q, q = IF b THEN <<e>> ELSE <<>>
  PROVE  q \in Seq(T)
  <1>1. CASE b
    <2>1. q = <<e>> /\ e \in T
      BY <1>1
    <2> QED
      BY <2>1
  <1>2. CASE ~b
    <2>1. q = <<>>
      BY <1>2
    <2> QED
      BY <2>1
  <1> QED
    BY <1>1, <1>2

(* They say no more than that: *)
Saying(a, released) ==
  {e \in HubEvents : /\ e.kind \in {"detected", "exited"} => a # agent \/ released
                     /\ e.released => released}

LEMMA EventsSay ==
  ASSUME HubTypeOK, NEW a \in Labels, NEW s \in States, NEW v \in BOOLEAN, NEW n \in Labels,
         NEW released \in BOOLEAN
  PROVE  EventsOf(a, s, v, n, released) \in Seq(Saying(a, released))
  <1> DEFINE T == Saying(a, released)
             shown == IF released THEN agent ELSE a
             st == StatusOf(s, v)
             e1 == Updated
             e2 == Event("detected", shown, released, IF released THEN st ELSE None)
             e3 == Event("status", shown, FALSE, st)
             b1 == n # name
             b2 == shown # agent \/ released
             b3 == st # Status
             q1 == IF b1 THEN <<e1>> ELSE <<>>
             q2 == IF b2 THEN <<e2>> ELSE <<>>
             q3 == IF b3 THEN <<e3>> ELSE <<>>
  <1>1. /\ shown \in Labels /\ st \in Statuses /\ b1 \in BOOLEAN /\ b2 \in BOOLEAN /\ b3 \in BOOLEAN
        /\ b2 => (a # agent \/ released)
    BY DEF HubTypeOK, StatusOf
  <1>2. EventsOf(a, s, v, n, released) = q1 \o q2 \o q3
    BY DEF EventsOf
  <1> HIDE DEF shown, st, b1, b2, b3
  <1>3. /\ e1 \in HubEvents /\ e1.kind = "updated" /\ e1.released = FALSE
        /\ e2 \in HubEvents /\ e2.kind = "detected" /\ e2.released = released
        /\ e3 \in HubEvents /\ e3.kind = "status" /\ e3.released = FALSE
    <2>1. None \in Labels /\ None \in Statuses \cup {None} /\ st \in Statuses \cup {None}
      BY <1>1
    <2>2. (IF released THEN st ELSE None) \in Statuses \cup {None}
      BY <2>1
    <2> HIDE DEF Labels, Statuses
    <2> QED
      BY <1>1, <2>1, <2>2 DEF Event, Updated, HubEvents
  <1> HIDE DEF e1, e2, e3
  <1>4. e1 \in T /\ (b2 => e2 \in T) /\ e3 \in T
    BY <1>1, <1>3 DEF Saying
  <1> HIDE DEF T
  <1>5. q1 \in Seq(T) /\ q2 \in Seq(T) /\ q3 \in Seq(T)
    <2>1. q1 \in Seq(T)
      BY <1>1, <1>4, OneOrNone
    <2>2. q2 \in Seq(T)
      BY <1>1, <1>4, OneOrNone
    <2>3. q3 \in Seq(T)
      BY <1>1, <1>4, OneOrNone
    <2> QED
      BY <2>1, <2>2, <2>3
  <1> HIDE DEF q1, q2, q3
  <1>6. (q1 \o q2) \o q3 \in Seq(T)
    BY <1>5, ConcatProperties
  <1> QED
    BY <1>2, <1>6 DEF T

----------------------------------------------------------------------------
(* The steps of the hub.  First what every change of the agent does. *)
LEMMA ChangeDoes ==
  ASSUME HubTypeOK, NEW a \in Labels, NEW s \in States, NEW n \in Labels, NEW released \in BOOLEAN,
         NEW T, Saying(a, released) \subseteq T, NEW rest \in Seq(T), Change(a, s, n, released, rest)
  PROVE  /\ outbox = <<>> /\ log' = log /\ next' = next
         /\ agent' = a /\ state' = s /\ name' = n /\ seen' \in BOOLEAN
         /\ changes' \in Nat /\ changeSeq' \in 0 .. changes'
         /\ s = state => changeSeq' = changeSeq
         /\ outbox' \in Seq(T)
  <1>1. seen' \in BOOLEAN
    BY DEF Change, SeenAfter, HubTypeOK
  <1>2. PICK v \in BOOLEAN : seen' = v
    BY <1>1
  <1> DEFINE q == EventsOf(a, s, v, n, released)
  <1>3. q \in Seq(Saying(a, released))
    BY <1>2, EventsSay
  <1>4. outbox' = q \o rest
    BY <1>2 DEF Change
  <1> HIDE DEF q
  <1>5. outbox' \in Seq(T)
    BY <1>3, <1>4, SeqMonotonic, ConcatProperties
  <1>6. changes' \in Nat /\ changeSeq' \in 0 .. changes' /\ (s = state => changeSeq' = changeSeq)
    BY DEF Change, HubTypeOK
  <1> QED
    BY <1>1, <1>5, <1>6 DEF Change

(* An event that ends a wait is one of a change that the histories know of. *)
Tells(e) ==
  /\ e.kind \in {"detected", "exited"} => there' # there \/ agent' # agent \/ (name # None /\ name' # name)
  /\ e.released => agent' = None

PaneTyped ==
  /\ there \in BOOLEAN /\ agent \in Labels /\ name \in Labels
  /\ state \in States /\ seen \in BOOLEAN
  /\ changes \in Nat /\ changeSeq \in 0 .. changes

LEMMA SmallEvents ==
  /\ Updated \in HubEvents /\ Exited \in HubEvents /\ Other \in HubEvents
  /\ Updated.kind = "updated" /\ Exited.kind = "exited" /\ Other.kind = "other"
  /\ Updated.released = FALSE /\ Exited.released = FALSE /\ Other.released = FALSE
  <1>1. None \in Labels /\ None \in Statuses \cup {None}
    OBVIOUS
  <1> HIDE DEF Labels, Statuses
  <1> QED
    BY <1>1 DEF Updated, Exited, Other, Event, HubEvents

LEMMA SayingEvents == \A a, r : Saying(a, r) \subseteq HubEvents
  BY DEF Saying

LEMMA OneEvent ==
  ASSUME NEW e \in HubEvents, NEW q, q = <<e>>
  PROVE  q \in Seq(HubEvents) /\ Len(q) = 1 /\ q[1] = e /\ \A i \in 1 .. Len(q) : q[i] = e
  OBVIOUS

LEMMA PaneStepDoes ==
  ASSUME HubTypeOK, PaneStep
  PROVE  /\ outbox = <<>> /\ log' = log /\ next' = next
         /\ PaneTyped'
         /\ state' = state => changeSeq' <= changeSeq
         /\ outbox' \in Seq(HubEvents)
         /\ \A i \in 1 .. Len(outbox') : Tells(outbox'[i])
  <1>1. PaneTyped /\ None \in Labels /\ "Idle" \in States /\ "Unknown" \in States
    BY DEF HubTypeOK, PaneTyped
  <1>2. /\ <<>> \in Seq(HubEvents) /\ Len(<<>>) = 0
        /\ <<Exited>> \in Seq(HubEvents) /\ Len(<<Exited>>) = 1 /\ <<Exited>>[1] = Exited
    BY SmallEvents, OneEvent
  <1>3. ASSUME NEW a \in Labels, NEW s \in States, Reported(a, s)
        PROVE  /\ outbox = <<>> /\ log' = log /\ next' = next
               /\ PaneTyped'
               /\ state' = state => changeSeq' <= changeSeq
               /\ outbox' \in Seq(HubEvents)
               /\ \A i \in 1 .. Len(outbox') : Tells(outbox'[i])
    <2>1. PICK n \in NameUnder(a) : Change(a, s, n, FALSE, <<>>)
      BY <1>3 DEF Reported
    <2>2. n \in Labels /\ there' = there
      BY <1>1, <1>3 DEF NameUnder, PaneTyped, Reported
    <2> DEFINE T == Saying(a, FALSE)
    <2>3. /\ outbox = <<>> /\ log' = log /\ next' = next
          /\ agent' = a /\ state' = s /\ name' = n /\ seen' \in BOOLEAN
          /\ changes' \in Nat /\ changeSeq' \in 0 .. changes'
          /\ s = state => changeSeq' = changeSeq
          /\ outbox' \in Seq(T)
      <3>1. <<>> \in Seq(T) /\ FALSE \in BOOLEAN
        OBVIOUS
      <3> QED
        BY <2>1, <2>2, <3>1, ChangeDoes
    <2>4. outbox' \in Seq(HubEvents) /\ \A i \in 1 .. Len(outbox') : Tells(outbox'[i])
      <3>1. T \subseteq HubEvents
        BY DEF Saying
      <3>2. \A e \in T : Tells(e)
        BY <2>3 DEF Saying, Tells
      <3> HIDE DEF T
      <3> QED
        BY <2>3, <3>1, <3>2, SeqMonotonic, ElementOfSeq
    <2>5. PaneTyped'
      BY <1>1, <2>2, <2>3 DEF PaneTyped
    <2>6. changeSeq \in Nat
      BY <1>1 DEF PaneTyped
    <2> QED
      BY <2>3, <2>4, <2>5, <2>6
  <1>4. ASSUME NEW s \in {"Idle", "Unknown"}, Released(s)
        PROVE  /\ outbox = <<>> /\ log' = log /\ next' = next
               /\ PaneTyped'
               /\ state' = state => changeSeq' <= changeSeq
               /\ outbox' \in Seq(HubEvents)
               /\ \A i \in 1 .. Len(outbox') : Tells(outbox'[i])
    <2>1. /\ Change(None, s, None, TRUE, <<>>) /\ there' = there
          /\ agent # None \/ name # None
          /\ s \in States
      BY <1>1, <1>4 DEF Released
    <2>2. /\ outbox = <<>> /\ log' = log /\ next' = next
          /\ agent' = None /\ state' = s /\ name' = None /\ seen' \in BOOLEAN
          /\ changes' \in Nat /\ changeSeq' \in 0 .. changes'
          /\ s = state => changeSeq' = changeSeq
          /\ outbox' \in Seq(HubEvents)
      BY <2>1, <1>1, <1>2, SayingEvents, ChangeDoes
    <2>3. \A i \in 1 .. Len(outbox') : Tells(outbox'[i])
      BY <2>1, <2>2 DEF Tells
    <2>4. PaneTyped'
      BY <1>1, <2>1, <2>2 DEF PaneTyped
    <2>5. changeSeq \in Nat
      BY <1>1 DEF PaneTyped
    <2> QED
      BY <2>2, <2>3, <2>4, <2>5
  <1>5. CASE Rename
    <2>1. /\ outbox = <<>> /\ log' = log /\ next' = next
          /\ name' \in {agent, None} /\ outbox' = <<Updated>>
          /\ UNCHANGED <<there, agent, state, seen, changeSeq, changes>>
      BY <1>5 DEF Rename
    <2>2. PaneTyped' /\ changeSeq' <= changeSeq
      BY <1>1, <2>1 DEF PaneTyped
    <2>3. outbox' \in Seq(HubEvents) /\ \A i \in 1 .. Len(outbox') : outbox'[i] = Updated
      BY <2>1, SmallEvents, OneEvent
    <2> QED
      BY <2>1, <2>2, <2>3, SmallEvents DEF Tells
  <1>6. CASE LookAt
    <2>1. /\ outbox = <<>> /\ log' = log /\ next' = next
          /\ seen' = TRUE /\ outbox' \in {<<>>, <<Other>>}
          /\ UNCHANGED <<there, agent, name, state, changeSeq, changes>>
      BY <1>6 DEF LookAt
    <2>2. PaneTyped' /\ changeSeq' <= changeSeq
      BY <1>1, <2>1 DEF PaneTyped
    <2>3. outbox' \in Seq(HubEvents) /\ \A i \in 1 .. Len(outbox') : outbox'[i] = Other
      <3>1. CASE outbox' = <<>>
        BY <3>1, <1>2
      <3>2. CASE outbox' = <<Other>>
        BY <3>2, SmallEvents, OneEvent
      <3> QED
        BY <2>1, <3>1, <3>2
    <2> QED
      BY <2>1, <2>2, <2>3, SmallEvents DEF Tells
  <1>7. CASE PaneDies
    <2>1. /\ Change(None, "Idle", None, TRUE, <<Exited>>) /\ there' = FALSE
          /\ agent # None
      BY <1>7 DEF PaneDies
    <2>2. /\ outbox = <<>> /\ log' = log /\ next' = next
          /\ agent' = None /\ state' = "Idle" /\ name' = None /\ seen' \in BOOLEAN
          /\ changes' \in Nat /\ changeSeq' \in 0 .. changes'
          /\ "Idle" = state => changeSeq' = changeSeq
          /\ outbox' \in Seq(HubEvents)
      BY <2>1, <1>1, <1>2, SayingEvents, ChangeDoes
    <2>3. \A i \in 1 .. Len(outbox') : Tells(outbox'[i])
      BY <2>1, <2>2 DEF Tells
    <2>4. PaneTyped'
      BY <1>1, <2>1, <2>2 DEF PaneTyped
    <2>5. changeSeq \in Nat
      BY <1>1 DEF PaneTyped
    <2> QED
      BY <2>2, <2>3, <2>4, <2>5
  <1>8. CASE PaneCloses
    <2>1. /\ outbox = <<>> /\ log' = log /\ next' = next
          /\ there' \in BOOLEAN /\ there' # there /\ outbox' = <<Exited>>
          /\ UNCHANGED <<agent, name, state, seen, changeSeq, changes>>
      BY <1>8 DEF PaneCloses
    <2>2. PaneTyped' /\ changeSeq' <= changeSeq
      BY <1>1, <2>1 DEF PaneTyped
    <2>3. outbox' \in Seq(HubEvents) /\ \A i \in 1 .. Len(outbox') : outbox'[i] = Exited
      BY <2>1, SmallEvents, OneEvent
    <2> QED
      BY <2>1, <2>2, <2>3, SmallEvents DEF Tells
  <1>9. CASE Respawns
    <2>1. /\ outbox = <<>> /\ log' = log /\ next' = next /\ there' = there
          /\ agent # None /\ seen' \in BOOLEAN
          /\ outbox' = EventsOf(None, "Idle", seen', None, TRUE)
          /\ agent' = None /\ name' = None /\ state' = "Unknown" /\ changeSeq' = 0
          /\ changes' \in Nat
      BY <1>1, <1>9 DEF Respawns, SeenAfter, PaneTyped
    <2>2. outbox' \in Seq(HubEvents)
      <3>1. PICK v \in BOOLEAN : outbox' = EventsOf(None, "Idle", v, None, TRUE)
        BY <2>1
      <3>2. EventsOf(None, "Idle", v, None, TRUE) \in Seq(Saying(None, TRUE))
        BY <1>1, EventsSay
      <3> QED
        BY <3>1, <3>2, SayingEvents, SeqMonotonic
    <2>3. \A i \in 1 .. Len(outbox') : Tells(outbox'[i])
      BY <2>1 DEF Tells
    <2>4. PaneTyped'
      BY <1>1, <2>1 DEF PaneTyped
    <2>5. changeSeq' <= changeSeq
      BY <1>1, <2>1 DEF PaneTyped
    <2> QED
      BY <2>1, <2>2, <2>3, <2>4, <2>5
  <1>10. CASE OtherChange
    <2>1. /\ outbox = <<>> /\ log' = log /\ next' = next
          /\ outbox' = <<Other>>
          /\ UNCHANGED <<there, agent, name, state, seen, changeSeq, changes>>
      BY <1>10 DEF OtherChange
    <2>2. PaneTyped' /\ changeSeq' <= changeSeq
      BY <1>1, <2>1 DEF PaneTyped
    <2>3. outbox' \in Seq(HubEvents) /\ \A i \in 1 .. Len(outbox') : outbox'[i] = Other
      BY <2>1, SmallEvents, OneEvent
    <2> QED
      BY <2>1, <2>2, <2>3, SmallEvents DEF Tells
  <1> QED
    BY <1>3, <1>4, <1>5, <1>6, <1>7, <1>8, <1>9, <1>10 DEF PaneStep

LEMMA PushedTyped ==
  ASSUME HubTypeOK, Push
  PROVE  HubTypeOK' /\ UNCHANGED paneVars /\ next' = next + 1
  <1>1. /\ log \in Seq(HubEvents) /\ outbox \in Seq(HubEvents) /\ outbox # <<>>
        /\ Len(log) \in Nat /\ next \in Nat /\ Len(log) <= MaxEvents /\ Len(log) <= next
        /\ UNCHANGED paneVars /\ next' = next + 1
        /\ outbox' = Tail(outbox) /\ log' = Pushed(Head(outbox))
    BY DEF HubTypeOK, Push
  <1> DEFINE e == Head(outbox)
  <1>2. e \in HubEvents /\ outbox' \in Seq(HubEvents)
    BY <1>1, HeadTailProperties
  <1> HIDE DEF e
  <1>3. log' \in Seq(HubEvents) /\ Len(log') <= MaxEvents /\ Len(log') <= next'
    <2>1. CASE Len(log) < MaxEvents
      <3>1. log' = Append(log, e)
        BY <1>1, <2>1 DEF Pushed, e
      <3>2. log' \in Seq(HubEvents) /\ Len(log') = Len(log) + 1
        <4>1. log' = Append(log, e) /\ log \in Seq(HubEvents) /\ e \in HubEvents
          BY <3>1, <1>1, <1>2
        <4> QED
          BY ONLY <4>1, AppendProperties
      <3> QED
        BY <3>2, <1>1, <2>1
    <2>2. CASE ~(Len(log) < MaxEvents)
      <3> DEFINE t == Tail(log)
      <3>1. log' = Append(t, e) /\ log # <<>> /\ Len(log) = MaxEvents
        BY <1>1, <2>2, EmptySeq DEF Pushed, e
      <3>2. t \in Seq(HubEvents) /\ Len(t) = Len(log) - 1
        BY <1>1, <3>1, HeadTailProperties
      <3> HIDE DEF t
      <3>3. log' \in Seq(HubEvents) /\ Len(log') = Len(log)
        <4>1. log' = Append(t, e) /\ t \in Seq(HubEvents) /\ e \in HubEvents /\ Len(t) = Len(log) - 1
              /\ Len(log) \in Nat
          BY <3>1, <3>2, <1>1, <1>2
        <4> QED
          BY ONLY <4>1, AppendProperties
      <3> QED
        BY <3>1, <3>3, <1>1
    <2> QED
      BY <2>1, <2>2
  <1> QED
    BY <1>1, <1>2, <1>3 DEF HubTypeOK

LEMMA HubStepTyped ==
  ASSUME HubTypeOK, HubStep
  PROVE  HubTypeOK' /\ next <= next'
  <1>1. CASE PaneStep
    BY <1>1, PaneStepDoes DEF HubTypeOK, PaneTyped
  <1>2. CASE Push
    BY <1>2, PushedTyped DEF HubTypeOK
  <1> QED
    BY <1>1, <1>2 DEF HubStep

LEMMA HubInitTyped == HubInit => HubTypeOK
  <1> SUFFICES ASSUME HubInit PROVE HubTypeOK
    OBVIOUS
  <1>1. log = <<>> /\ outbox = <<>> /\ next = 0
    BY DEF HubInit
  <1>2. log \in Seq(HubEvents) /\ outbox \in Seq(HubEvents) /\ Len(log) = 0
    BY <1>1
  <1> QED
    BY <1>1, <1>2 DEF HubInit, HubTypeOK

----------------------------------------------------------------------------
(* What a thread takes from the events. *)
NewsRead == cursor \in 0 .. next

LEMMA FirstEndEnds ==
  ASSUME HubTypeOK, NewsRead, HasEnd
  PROVE  \E e \in Kept(cursor) : e = News[FirstEnd] /\ Ends(e)
  <1> DEFINE T == {i \in 1 .. Len(News) : Ends(News[i])}
  <1>1. /\ News \in Seq(HubEvents) /\ DOMAIN News = 1 .. Len(News)
        /\ \A i \in 1 .. Len(News) : News[i] \in Kept(cursor)
    BY UnreadEvents, LenProperties DEF NewsRead, News
  <1>2. T \subseteq Nat /\ T # {}
    BY <1>1 DEF HasEnd
  <1>3. PICK i \in T : \A j \in T : i <= j
    <2> HIDE DEF T
    <2> QED
      BY <1>2, LeastOf
  <1>4. \A j \in 1 .. (i - 1) : ~Ends(News[j])
    <2> SUFFICES ASSUME NEW j \in 1 .. (i - 1), Ends(News[j]) PROVE FALSE
      OBVIOUS
    <2>1. j \in 1 .. Len(News) /\ ~(i <= j)
      BY <1>1, LenProperties
    <2> QED
      BY <1>3, <2>1
  <1>5. FirstEnd \in DOMAIN News /\ Ends(News[FirstEnd])
    BY <1>1, <1>4 DEF FirstEnd
  <1> QED
    BY <1>1, <1>5

LEMMA FleetingIs ==
  ASSUME HubTypeOK, NewsRead, Fleeting # None
  PROVE  /\ phase = "wait" /\ Fleeting \in Wanted
         /\ \E e \in Kept(cursor) : e.status = Fleeting
  <1> DEFINE hits == {i \in Followed : News[i].kind = "status" /\ News[i].status \in Wanted}
  <1>1. /\ Len(News) \in Nat /\ DOMAIN News = 1 .. Len(News)
        /\ \A i \in 1 .. Len(News) : News[i] \in Kept(cursor)
    BY UnreadEvents, LenProperties DEF NewsRead, News
  <1>2. /\ phase = "wait" /\ hits # {}
        /\ Fleeting = News[CHOOSE i \in hits : \A j \in hits : j <= i].status
    BY DEF Fleeting
  <1>3. hits \subseteq 1 .. Len(News)
    BY <1>1 DEF Followed
  <1>4. \A i \in hits : News[i].status \in Wanted
    OBVIOUS
  <1> HIDE DEF hits
  <1>5. \E i \in hits : \A j \in hits : j <= i
    BY <1>1, <1>2, <1>3, GreatestOf
  <1>6. PICK i \in hits : Fleeting = News[i].status
    BY <1>2, <1>5
  <1>7. News[i] \in Kept(cursor) /\ News[i].status \in Wanted
    BY <1>1, <1>3, <1>4
  <1> QED
    BY <1>2, <1>6, <1>7

----------------------------------------------------------------------------
(* The inductive invariant of the waiting thread. *)
Asking == pc \in {"resolve", "submit", "scan", "probe", "deadline", "late"}
Resolved == pc \in {"submit", "scan", "probe", "deadline", "late"}
Following == pc \in {"scan", "probe", "deadline", "late"}

(* The phases of a request; nothing has matched before the thread follows events. *)
PhaseFits ==
  /\ (phase = "wait") = (request.kind = "wait")
  /\ ~Finished /\ ~Following => phase # "settle" /\ matched = None
  /\ pc = "submit" => request.kind = "prompt"

(* The statuses that the thread can see or read of were the pane's since the request. *)
StatusesSeen ==
  Asking => /\ Status \in seenSince
            /\ \A e \in Since(origin) : e.status # None => e.status \in seenSince
MatchSeen == matched # None => phase = "wait" /\ matched \in request.until \cap seenSince

(* As long as the agent has not ended, it is the one that was resolved, and no event says else. *)
AgentStands ==
  /\ Resolved /\ ~endedSince => Resolves /\ expected = Identity
  /\ Asking /\ ~endedSince => \A e \in Since(origin) : e.kind \notin {"detected", "exited"}

(* As long as the agent has not moved, the prompt is in its gate, which nothing opens. *)
GateHolds ==
  Following /\ request.kind = "prompt" /\ ~moved =>
    /\ phase = "gate" /\ agent # None /\ changeSeq <= after
    /\ \A e \in Since(cursor) : ~e.released

WaitInv == PhaseFits /\ StatusesSeen /\ MatchSeen /\ AgentStands /\ GateHolds /\ AnswerIsTrue
Waits == WaitTypeOK /\ WaitInv

LEMMA RequestTyped ==
  ASSUME WaitTypeOK
  PROVE  /\ request.kind \in {"wait", "prompt"} /\ request.until \subseteq Statuses
         /\ request.by \in {"pane", "name"}
  <1>1. request \in [kind : {"wait", "prompt"}, by : {"pane", "name"}, until : (SUBSET Statuses) \ {{}},
                     timeout : {"none", "short", "long"}]
    BY WaitAssumption DEF WaitTypeOK
  <1> HIDE DEF Statuses
  <1> QED
    BY <1>1

LEMMA StatusTyped == HubTypeOK => Status \in Statuses /\ Status # None /\ None \notin Statuses
  BY DEF HubTypeOK, Status, StatusOf

LEMMA IdentityTyped == HubTypeOK => Identity \in [agent : Labels, named : BOOLEAN]
  BY DEF HubTypeOK, Identity

LEMMA SinceStays ==
  ASSUME UNCHANGED hubVars
  PROVE  /\ origin' = origin => Since(origin)' = Since(origin)
         /\ cursor' = cursor => Since(cursor)' = Since(cursor)
         /\ cursor' = origin => Since(cursor)' = Since(origin)
  BY DEF Since, Kept, Pending

(* The ways a step of the thread ends: with an answer, *)
LEMMA AnswerKeeps ==
  ASSUME HubTypeOK, Waits, UNCHANGED hubVars, WaitHistory,
         pc \in {"resolve", "submit", "scan", "probe", "late"}, NEW code, NEW status, Answer(code, status),
         code \in {"matched", "agent_not_found", "agent_not_ready", "agent_not_running",
                   "agent_prompt_stalled", "timeout", "error"},
         code = "matched" => status \in request.until \cap seenSince /\ (request.kind = "prompt" => moved'),
         code = "agent_not_running" => endedSince
  PROVE  Waits'
  <1>1. /\ pc' = "answered" /\ answer' = [code |-> code, status |-> status]
        /\ UNCHANGED <<request, origin, cursor, phase, expected, after, matched, expired>>
        /\ seenSince' = seenSince /\ (endedSince => endedSince')
    BY DEF Answer, WaitHistory
  <1>2. answer'.code = code /\ answer'.status = status
    BY <1>1
  <1>3. WaitTypeOK'
    BY <1>1, <1>2 DEF Waits, WaitTypeOK
  <1>4. PhaseFits' /\ MatchSeen'
    BY <1>1 DEF Waits, WaitInv, PhaseFits, MatchSeen, Finished
  <1>5. StatusesSeen' /\ AgentStands' /\ GateHolds'
    BY <1>1 DEF StatusesSeen, AgentStands, GateHolds, Asking, Resolved, Following
  <1>6. AnswerIsTrue'
    BY <1>1, <1>2 DEF AnswerIsTrue
  <1> QED
    BY <1>3, <1>4, <1>5, <1>6 DEF Waits, WaitInv

(* or with the end of a wait. *)
LEMMA OutcomeKeeps ==
  ASSUME HubTypeOK, Waits, UNCHANGED hubVars, WaitHistory, pc \in {"scan", "probe", "late"},
         NEW status \in Wanted, NEW identity \in [agent : Labels, named : BOOLEAN], Outcome(status, identity),
         status \in seenSince, ~endedSince => identity = Identity, request.kind = "prompt" => moved
  PROVE  Waits'
  <1>1. /\ seenSince' = seenSince /\ (endedSince' <=> endedSince) /\ (moved' <=> moved)
    BY DEF WaitHistory
  <1>2. CASE phase # "gate" \/ status \in request.until
    <2>1. Answer("matched", status)
      BY <1>2 DEF Outcome
    <2>2. status \in request.until
      BY <1>2 DEF Wanted
    <2> QED
      BY <2>1, <2>2, <1>1, AnswerKeeps
  <1>3. CASE ~(phase # "gate" \/ status \in request.until)
    <2>1. /\ pc' = "scan" /\ phase' = "settle" /\ after' = -1 /\ matched' = None
          /\ cursor' = origin /\ expected' = identity /\ phase = "gate"
          /\ expired' = (expired /\ request.timeout = "short")
          /\ UNCHANGED <<request, origin, answer>>
      BY <1>3 DEF Outcome
    <2>2. WaitTypeOK'
      BY <2>1 DEF Waits, WaitTypeOK, HubTypeOK
    <2>3. request.kind = "prompt" /\ moved'
      BY <2>1, <1>1, RequestTyped DEF Waits, WaitInv, PhaseFits
    <2>4. PhaseFits' /\ MatchSeen' /\ GateHolds'
      BY <2>1, <2>3 DEF PhaseFits, MatchSeen, GateHolds, Finished, Following
    <2>5. StatusesSeen'
      BY <2>1, <1>1, SinceStays DEF Waits, WaitInv, StatusesSeen, Asking, Status
    <2>6. AgentStands'
      BY <2>1, <1>1, SinceStays DEF Waits, WaitInv, AgentStands, Asking, Resolved, Resolves, IsAgent, Identity
    <2>7. AnswerIsTrue'
      BY <2>1, <1>1 DEF Waits, WaitInv, AnswerIsTrue, WaitTypeOK
    <2> QED
      BY <2>2, <2>4, <2>5, <2>6, <2>7 DEF Waits, WaitInv
  <1> QED
    BY <1>2, <1>3

----------------------------------------------------------------------------
(* The steps of the thread. *)
LEMMA PendingTold ==
  ASSUME HubTypeOK
  PROVE  /\ DOMAIN outbox = 1 .. Len(outbox)
         /\ \A e \in Pending : e.status # None => e.status \in Told(outbox)
  <1>1. DOMAIN outbox = 1 .. Len(outbox)
    BY LenProperties DEF HubTypeOK
  <1> QED
    BY <1>1 DEF Pending, Told

LEMMA BeginKeeps ==
  ASSUME HubTypeOK, Waits, UNCHANGED hubVars, WaitHistory, Begin
  PROVE  Waits'
  <1>1. /\ pc = "request" /\ pc' = "resolve" /\ origin' = next /\ cursor' = next
        /\ UNCHANGED <<request, phase, expected, after, matched, expired, answer>>
        /\ seenSince' = {Status} \cup Told(outbox)
        /\ endedSince' <=> \E i \in DOMAIN outbox : outbox[i].kind \in {"detected", "exited"}
    BY DEF Begin, WaitHistory, Ending
  <1>2. WaitTypeOK'
    BY <1>1 DEF Waits, WaitTypeOK, HubTypeOK
  <1>3. Since(origin)' = Pending
    <2>1. Since(next)' = Since(next)
      BY DEF Since, Kept, Pending
    <2>2. Since(origin)' = Since(next)
      BY <1>1 DEF Since, Kept, Pending
    <2> QED
      BY <2>2, SinceNow
  <1>4. PhaseFits' /\ GateHolds' /\ MatchSeen'
    BY <1>1 DEF Waits, WaitInv, PhaseFits, GateHolds, MatchSeen, Finished, Following
  <1>5. StatusesSeen'
    BY <1>1, <1>3, PendingTold DEF StatusesSeen, Status
  <1>6. AgentStands'
    <2>1. ~endedSince' => \A e \in Pending : e.kind \notin {"detected", "exited"}
      BY <1>1, PendingTold DEF Pending
    <2> QED
      BY <1>1, <1>3, <2>1 DEF AgentStands, Resolved
  <1>7. AnswerIsTrue'
    BY <1>1 DEF Waits, WaitTypeOK, AnswerIsTrue
  <1> QED
    BY <1>2, <1>4, <1>5, <1>6, <1>7 DEF Waits, WaitInv

(* A step that goes on, with nothing else noted than where, and whether time is up. *)
LEMMA GoingOnKeeps ==
  ASSUME HubTypeOK, Waits, UNCHANGED hubVars, WaitHistory,
         UNCHANGED <<request, origin, cursor, phase, expected, after, matched, answer>>,
         pc \in {"scan", "probe", "deadline"}, pc' \in {"scan", "probe", "deadline", "late", "left"},
         expired' \in BOOLEAN
  PROVE  Waits'
  <1>1. seenSince' = seenSince /\ (endedSince' <=> endedSince) /\ (moved' <=> moved)
    BY DEF WaitHistory
  <1>2. WaitTypeOK'
    BY DEF Waits, WaitTypeOK
  <1>3. PhaseFits' /\ MatchSeen'
    BY <1>1 DEF Waits, WaitInv, PhaseFits, MatchSeen, Finished, Following
  <1>4. StatusesSeen'
    BY <1>1, SinceStays DEF Waits, WaitInv, StatusesSeen, Asking, Status
  <1>5. AgentStands'
    BY <1>1, SinceStays DEF Waits, WaitInv, AgentStands, Asking, Resolved, Resolves, IsAgent, Identity
  <1>6. GateHolds'
    BY <1>1, SinceStays DEF Waits, WaitInv, GateHolds, Following
  <1>7. AnswerIsTrue'
    BY <1>1 DEF Waits, WaitInv, WaitTypeOK, AnswerIsTrue
  <1> QED
    BY <1>2, <1>3, <1>4, <1>5, <1>6, <1>7 DEF Waits, WaitInv

(* An agent that has not ended is found, and found to be the same. *)
LEMMA StandsStill ==
  ASSUME Waits, Resolved, ~endedSince
  PROVE  Resolves /\ SameAgent /\ expected = Identity
  <1>1. Resolves /\ expected = Identity
    BY DEF Waits, WaitInv, AgentStands
  <1>2. expected.agent = agent /\ expected.named = (request.by = "name")
    BY <1>1 DEF Identity
  <1>3. request.by = "name" => name # None
    BY <1>1 DEF Resolves
  <1> QED
    BY <1>1, <1>2, <1>3 DEF SameAgent

LEMMA ResolveKeeps ==
  ASSUME HubTypeOK, Waits, UNCHANGED hubVars, WaitHistory, Resolve
  PROVE  Waits'
  <1>1. /\ pc = "resolve" /\ Status \in seenSince
        /\ seenSince' = seenSince /\ (endedSince' <=> endedSince) /\ (moved' <=> moved)
    BY DEF Resolve, WaitHistory, Waits, WaitInv, StatusesSeen, Asking
  <1>2. CASE ~Resolves
    <2>1. Answer("agent_not_found", None)
      BY <1>2 DEF Resolve
    <2> QED
      BY <1>1, <2>1, AnswerKeeps
  <1>3. CASE Resolves /\ request.kind = "wait" /\ Status \in request.until
    <2>1. Answer("matched", Status)
      BY <1>3 DEF Resolve
    <2> QED
      BY <1>1, <1>3, <2>1, AnswerKeeps
  <1>4. CASE Resolves /\ ~(request.kind = "wait" /\ Status \in request.until)
    <2>1. /\ pc' = IF request.kind = "wait" THEN "scan" ELSE "submit"
          /\ expected' = Identity
          /\ UNCHANGED <<request, origin, cursor, phase, after, matched, expired, answer>>
      BY <1>4 DEF Resolve
    <2>2. WaitTypeOK'
      BY <1>1, <2>1, IdentityTyped DEF Waits, WaitTypeOK
    <2>3. PhaseFits' /\ MatchSeen' /\ GateHolds'
      BY <1>1, <2>1, RequestTyped
      DEF Waits, WaitInv, PhaseFits, MatchSeen, GateHolds, Finished, Following
    <2>4. StatusesSeen'
      BY <1>1, <2>1, SinceStays DEF Waits, WaitInv, StatusesSeen, Asking, Status
    <2>5. AgentStands'
      BY <1>1, <1>4, <2>1, SinceStays DEF Waits, WaitInv, AgentStands, Asking, Resolves, IsAgent, Identity
    <2>6. AnswerIsTrue'
      BY <1>1, <2>1 DEF Waits, WaitInv, WaitTypeOK, AnswerIsTrue
    <2> QED
      BY <2>2, <2>3, <2>4, <2>5, <2>6 DEF Waits, WaitInv
  <1> QED
    BY <1>2, <1>3, <1>4

(* A prompt is submitted to the agent that was resolved. *)
LEMMA SubmitKeeps ==
  ASSUME HubTypeOK, Waits, UNCHANGED hubVars, WaitHistory, Submit
  PROVE  Waits'
  <1>1. /\ pc = "submit" /\ outbox = <<>> /\ request.kind = "prompt"
        /\ seenSince' = seenSince /\ (endedSince' <=> endedSince)
        /\ moved' <=> (state = "Working" \/ LateRelease)
    BY DEF Submit, Served, WaitHistory, Waits, WaitInv, PhaseFits
  <1>2. CASE Answer("agent_not_ready", None)
    BY <1>1, <1>2, AnswerKeeps
  <1>3. CASE NotRunning /\ ~SameAgent
    <2>1. Answer("agent_not_running", None)
      BY <1>3 DEF NotRunning
    <2>2. endedSince
      BY <1>1, <1>3, StandsStill DEF Resolved
    <2> QED
      BY <1>1, <2>1, <2>2, AnswerKeeps
  <1>4. CASE ~Answer("agent_not_ready", None) /\ ~(NotRunning /\ ~SameAgent)
    <2>1. /\ Resolves /\ agent # None
          /\ pc' = "scan" /\ expected' = Identity
          /\ phase' = IF state = "Working" THEN "settle" ELSE "gate"
          /\ after' = changeSeq
          /\ UNCHANGED <<request, origin, cursor, matched, expired, answer>>
      BY <1>4 DEF Submit
    <2>2. WaitTypeOK'
      BY <1>1, <2>1, IdentityTyped DEF Waits, WaitTypeOK, HubTypeOK
    <2>4. PhaseFits' /\ MatchSeen'
      BY <1>1, <2>1 DEF Waits, WaitInv, PhaseFits, MatchSeen, Finished, Following
    <2>5. StatusesSeen'
      BY <1>1, <2>1, SinceStays DEF Waits, WaitInv, StatusesSeen, Asking, Status
    <2>6. AgentStands'
      BY <1>1, <2>1, SinceStays DEF Waits, WaitInv, AgentStands, Asking, Resolves, IsAgent, Identity
    <2>7. GateHolds'
      <3>1. Pending = {}
        BY <1>1 DEF Pending
      <3>2. ~moved' => \A e \in Kept(cursor) : ~e.released
        <4>1. cursor \in 0 .. next
          BY DEF Waits, WaitTypeOK, HubTypeOK
        <4>2. /\ DOMAIN News = 1 .. Len(News)
              /\ \A e \in Kept(cursor) : \E i \in 1 .. Len(News) : e = News[i]
          BY <4>1, UnreadEvents, LenProperties DEF News
        <4> QED
          BY <1>1, <4>2 DEF LateRelease
      <3>3. ~moved' => \A e \in Since(cursor) : ~e.released
        BY <3>1, <3>2 DEF Since
      <3>4. changeSeq <= changeSeq
        BY DEF HubTypeOK
      <3> QED
        BY <1>1, <2>1, <3>3, <3>4, SinceStays DEF GateHolds
    <2>8. AnswerIsTrue'
      BY <1>1, <2>1 DEF Waits, WaitInv, WaitTypeOK, AnswerIsTrue
    <2> QED
      BY <2>2, <2>4, <2>5, <2>6, <2>7, <2>8 DEF Waits, WaitInv
  <1> QED
    BY <1>2, <1>3, <1>4

LEMMA CursorFits ==
  ASSUME HubTypeOK, Waits
  PROVE  /\ cursor \in 0 .. next /\ origin \in 0 .. next /\ origin <= cursor
         /\ Since(cursor) \subseteq Since(origin)
  <1>1. cursor \in 0 .. next /\ origin \in 0 .. next /\ origin <= cursor
    BY DEF HubTypeOK, Waits, WaitTypeOK
  <1> QED
    BY <1>1, SinceLater

LEMMA ScanKeeps ==
  ASSUME HubTypeOK, Waits, UNCHANGED hubVars, WaitHistory, Scan
  PROVE  Waits'
  <1>1. /\ pc = "scan" /\ Asking /\ Following
        /\ seenSince' = seenSince /\ (endedSince' <=> endedSince) /\ (moved' <=> moved)
    BY DEF Scan, WaitHistory, Asking, Following
  <1>2. NewsRead /\ Since(cursor) \subseteq Since(origin)
    BY CursorFits DEF NewsRead
  <1>3. /\ \A e \in Since(origin) : e.status # None => e.status \in seenSince
        /\ Kept(cursor) \subseteq Since(cursor)
    BY <1>1 DEF Waits, WaitInv, StatusesSeen, Since
  <1>4. Fleeting # None => phase = "wait" /\ Fleeting \in Wanted /\ Fleeting \in seenSince
    BY <1>2, <1>3, FleetingIs
  <1>5. CASE HasEnd
    <2> DEFINE left(e) == IF e.released /\ e.status \in Wanted THEN e.status ELSE Fleeting
    <2>1. PICK e \in Kept(cursor) : e = News[FirstEnd] /\ Ends(e)
      BY <1>2, <1>5, FirstEndEnds
    <2>2. e \in Since(cursor) /\ e \in Since(origin)
      BY <1>2, <1>3, <2>1
    <2>3. CASE e.kind = "detected" /\ e.released /\ left(e) # None
      <3>1. Outcome(left(e), expected)
        BY <1>5, <2>1, <2>3 DEF Scan
      <3>2. left(e) \in Wanted /\ left(e) \in seenSince
        BY <1>3, <1>4, <2>2, <2>3
      <3>3. request.kind = "prompt" => moved
        BY <1>1, <2>2, <2>3 DEF Waits, WaitInv, GateHolds
      <3>4. expected \in [agent : Labels, named : BOOLEAN]
        BY DEF Waits, WaitTypeOK
      <3>5. ~endedSince => expected = Identity
        BY <1>1, StandsStill DEF Resolved
      <3> HIDE DEF left
      <3> QED
        BY <1>1, <3>1, <3>2, <3>3, <3>4, <3>5, OutcomeKeeps
    <2>4. CASE ~(e.kind = "detected" /\ e.released /\ left(e) # None)
      <3>1. Answer("agent_not_running", None)
        BY <1>5, <2>1, <2>4 DEF Scan, NotRunning
      <3>2. e.kind \in {"detected", "exited"}
        BY <2>1 DEF Ends
      <3>3. endedSince
        BY <1>1, <2>2, <3>2 DEF Waits, WaitInv, AgentStands
      <3> QED
        BY <1>1, <3>1, <3>3, AnswerKeeps
    <2> QED
      BY <2>3, <2>4
  <1>6. CASE ~HasEnd
    <2>1. /\ cursor' = next /\ matched' = Fleeting
          /\ pc' \in {"probe", "deadline"}
          /\ UNCHANGED <<request, origin, phase, expected, after, expired, answer>>
      BY <1>6 DEF Scan
    <2>2. matched' # None => phase = "wait" /\ matched' \in request.until \cap seenSince
      BY <1>4, <2>1 DEF Wanted
    <2>3. WaitTypeOK'
      <3>1. matched' \in Statuses \cup {None}
        BY <2>2, RequestTyped DEF Waits
      <3>2. origin \in 0 .. next /\ next \in origin .. next /\ next' = next
        BY CursorFits DEF HubTypeOK
      <3> QED
        BY <1>1, <2>1, <3>1, <3>2 DEF Waits, WaitTypeOK
    <2>4. PhaseFits' /\ MatchSeen'
      BY <1>1, <2>1, <2>2 DEF Waits, WaitInv, PhaseFits, MatchSeen, Finished, Following
    <2>5. StatusesSeen'
      BY <1>1, <2>1, SinceStays DEF Waits, WaitInv, StatusesSeen, Status
    <2>6. AgentStands'
      BY <1>1, <2>1, SinceStays DEF Waits, WaitInv, AgentStands, Asking, Resolved, Resolves, IsAgent, Identity
    <2>7. GateHolds'
      <3>1. Since(cursor)' = Since(next)
        BY <2>1 DEF Since, Kept, Pending
      <3>2. Since(cursor)' \subseteq Since(cursor)
        BY <3>1, SinceNow DEF Since
      <3> QED
        BY <1>1, <2>1, <3>2 DEF Waits, WaitInv, GateHolds
    <2>8. AnswerIsTrue'
      BY <1>1, <2>1 DEF Waits, WaitInv, WaitTypeOK, AnswerIsTrue
    <2> QED
      BY <2>3, <2>4, <2>5, <2>6, <2>7, <2>8 DEF Waits, WaitInv
  <1> QED
    BY <1>5, <1>6

(* What a prompt in its gate waits for has happened only once its agent has moved. *)
LEMMA GateOpens ==
  ASSUME HubTypeOK, Waits, Following, request.kind = "prompt", Matches
  PROVE  moved
  <1>1. phase = "gate" => changeSeq > after
    BY DEF Matches
  <1>2. changeSeq \in Int /\ after \in Int
    BY DEF HubTypeOK, Waits, WaitTypeOK
  <1> QED
    BY <1>1, <1>2 DEF Waits, WaitInv, GateHolds, Matches

LEMMA ProbeKeeps ==
  ASSUME HubTypeOK, Waits, UNCHANGED hubVars, WaitHistory, Probe
  PROVE  Waits'
  <1>1. /\ pc = "probe" /\ Asking /\ Following /\ Resolved /\ Status \in seenSince
    BY DEF Probe, Asking, Following, Resolved, Waits, WaitInv, StatusesSeen
  <1>2. CASE ~Resolves \/ ~SameAgent
    <2>1. Answer("agent_not_running", None) /\ endedSince
      BY <1>1, <1>2, StandsStill DEF Probe, NotRunning
    <2> QED
      BY <1>1, <2>1, AnswerKeeps
  <1>3. CASE Resolves /\ SameAgent /\ matched # None
    <2>1. Outcome(matched, Identity)
      BY <1>3 DEF Probe
    <2>2. phase = "wait" /\ matched \in request.until \cap seenSince /\ request.kind = "wait"
      BY <1>3 DEF Waits, WaitInv, MatchSeen, PhaseFits
    <2>3. matched \in Wanted
      BY <2>2 DEF Wanted
    <2> QED
      BY <1>1, <2>1, <2>2, <2>3, IdentityTyped, OutcomeKeeps
  <1>4. CASE Resolves /\ SameAgent /\ matched = None /\ Matches
    <2>1. Outcome(Status, Identity) /\ Status \in Wanted
      BY <1>4 DEF Probe, Matches
    <2>2. request.kind = "prompt" => moved
      BY <1>1, <1>4, GateOpens
    <2> QED
      BY <1>1, <2>1, <2>2, IdentityTyped, OutcomeKeeps
  <1>5. CASE Resolves /\ SameAgent /\ matched = None /\ ~Matches
    <2>1. /\ pc' = "deadline"
          /\ UNCHANGED <<request, origin, cursor, phase, expected, after, matched, answer>>
          /\ expired' \in BOOLEAN
      BY <1>5 DEF Probe, Waits, WaitTypeOK
    <2> QED
      BY <1>1, <2>1, GoingOnKeeps
  <1> QED
    BY <1>2, <1>3, <1>4, <1>5

LEMMA LateKeeps ==
  ASSUME HubTypeOK, Waits, UNCHANGED hubVars, WaitHistory, Late
  PROVE  Waits'
  <1>1. /\ pc = "late" /\ Asking /\ Following /\ Resolved /\ Status \in seenSince
    BY DEF Late, Asking, Following, Resolved, Waits, WaitInv, StatusesSeen
  <1>2. CASE ~Resolves \/ ~SameAgent
    <2>1. Answer("agent_not_running", None) /\ endedSince
      BY <1>1, <1>2, StandsStill DEF Late, NotRunning
    <2> QED
      BY <1>1, <2>1, AnswerKeeps
  <1>3. CASE Resolves /\ SameAgent /\ Matches
    <2>1. Outcome(Status, Identity) /\ Status \in Wanted
      BY <1>3 DEF Late, Matches
    <2>2. request.kind = "prompt" => moved
      BY <1>1, <1>3, GateOpens
    <2> QED
      BY <1>1, <2>1, <2>2, IdentityTyped, OutcomeKeeps
  <1>4. CASE Resolves /\ SameAgent /\ ~Matches
    <2>1. PICK code \in {"agent_prompt_stalled", "timeout"} : Answer(code, None)
      BY <1>4 DEF Late
    <2> QED
      BY <1>1, <2>1, AnswerKeeps
  <1> QED
    BY <1>2, <1>3, <1>4

(* A step of another thread. *)
LEMMA WaitRests ==
  ASSUME Waits, UNCHANGED <<hubVars, waitVars, waitHistory>>
  PROVE  Waits'
  <1>1. WaitTypeOK'
    BY DEF Waits, WaitTypeOK
  <1>2. PhaseFits' /\ MatchSeen' /\ AnswerIsTrue'
    BY DEF Waits, WaitInv, PhaseFits, MatchSeen, AnswerIsTrue, Finished, Following
  <1>3. StatusesSeen'
    BY SinceStays DEF Waits, WaitInv, StatusesSeen, Asking, Status
  <1>4. AgentStands'
    BY SinceStays DEF Waits, WaitInv, AgentStands, Asking, Resolved, Resolves, IsAgent, Identity
  <1>5. GateHolds'
    BY SinceStays DEF Waits, WaitInv, GateHolds, Following
  <1> QED
    BY <1>1, <1>2, <1>3, <1>4, <1>5 DEF Waits, WaitInv

(* Every step of the thread. *)
LEMMA WaitStepKeeps ==
  ASSUME HubTypeOK, Waits, UNCHANGED hubVars, WaitHistory, WaitStep
  PROVE  Waits'
  <1>1. CASE Begin
    BY <1>1, BeginKeeps
  <1>2. CASE Resolve
    BY <1>2, ResolveKeeps
  <1>3. CASE Submit
    BY <1>3, SubmitKeeps
  <1>4. CASE Scan
    BY <1>4, ScanKeeps
  <1>5. CASE Probe
    BY <1>5, ProbeKeeps
  <1>6. CASE Deadline
    <2>1. /\ pc = "deadline" /\ pc' \in {"late", "scan"} /\ expired' \in BOOLEAN
          /\ UNCHANGED <<request, origin, cursor, phase, expected, after, matched, answer>>
      BY <1>6 DEF Deadline, Waits, WaitTypeOK
    <2> QED
      BY <2>1, GoingOnKeeps
  <1>7. CASE Late
    BY <1>7, LateKeeps
  <1>8. CASE ProbeDies
    <2>1. pc \in {"resolve", "probe", "late"} /\ Answer("error", None)
      BY <1>8 DEF ProbeDies
    <2> QED
      BY <2>1, AnswerKeeps
  <1>9. CASE Expire
    <2>1. /\ pc \in {"scan", "probe", "deadline"} /\ pc' = pc /\ expired' \in BOOLEAN
          /\ UNCHANGED <<request, origin, cursor, phase, expected, after, matched, answer>>
      BY <1>9 DEF Expire
    <2> QED
      BY <2>1, GoingOnKeeps
  <1>10. CASE Leave
    <2>1. /\ pc = "scan" /\ pc' = "left" /\ expired' \in BOOLEAN
          /\ UNCHANGED <<request, origin, cursor, phase, expected, after, matched, answer>>
      BY <1>10 DEF Leave, Waits, WaitTypeOK
    <2> QED
      BY <2>1, GoingOnKeeps
  <1> QED
    BY <1>1, <1>2, <1>3, <1>4, <1>5, <1>6, <1>7, <1>8, <1>9, <1>10 DEF WaitStep

----------------------------------------------------------------------------
(* The steps of the main loop. *)
LEMMA HubStepKeepsIdle ==
  ASSUME HubTypeOK, Waits, HubStep, Idling, UNCHANGED <<waitVars, waitHistory>>
  PROVE  Waits'
  <1>1. next \in Nat /\ next' \in Nat /\ next <= next'
    BY HubStepTyped DEF HubTypeOK
  <1>2. WaitTypeOK'
    BY <1>1 DEF Waits, WaitTypeOK
  <1>3. PhaseFits' /\ MatchSeen' /\ AnswerIsTrue'
    BY DEF Waits, WaitInv, PhaseFits, MatchSeen, AnswerIsTrue, Finished, Following
  <1>4. ~Asking /\ ~Resolved /\ ~Following
    BY DEF Idling, Finished, Asking, Resolved, Following
  <1>5. StatusesSeen' /\ AgentStands' /\ GateHolds'
    BY <1>4 DEF StatusesSeen, AgentStands, GateHolds, Asking, Resolved, Following
  <1> QED
    BY <1>2, <1>3, <1>5 DEF Waits, WaitInv

(* What is the same whatever the main loop does. *)
LEMMA HubStepKeepsAsked ==
  ASSUME HubTypeOK, Waits, HubStep, ~Idling, HubHistory, UNCHANGED waitVars
  PROVE  /\ Asking /\ Asking' /\ WaitTypeOK' /\ PhaseFits' /\ MatchSeen' /\ AnswerIsTrue'
         /\ Status' \in seenSince' /\ seenSince \subseteq seenSince'
         /\ (endedSince => endedSince') /\ (moved => moved')
  <1>1. next \in Nat /\ next' \in Nat /\ next <= next'
    BY HubStepTyped DEF HubTypeOK
  <1>2. WaitTypeOK'
    BY <1>1 DEF Waits, WaitTypeOK
  <1>3. Asking /\ Asking'
    BY DEF Idling, Finished, Asking, Waits, WaitTypeOK
  <1>4. /\ Status' \in seenSince' /\ seenSince \subseteq seenSince'
        /\ (endedSince => endedSince') /\ (moved => moved')
    BY DEF HubHistory, Status
  <1>5. PhaseFits' /\ MatchSeen'
    BY <1>4 DEF Waits, WaitInv, PhaseFits, MatchSeen, Finished, Following
  <1>6. answer.code = "none"
    BY <1>3 DEF Waits, WaitTypeOK, Asking
  <1>7. AnswerIsTrue'
    BY <1>6 DEF AnswerIsTrue
  <1> QED
    BY <1>2, <1>3, <1>4, <1>5, <1>7

LEMMA PushKeeps ==
  ASSUME HubTypeOK, Waits, Push, ~Idling, HubHistory, UNCHANGED waitVars
  PROVE  Waits'
  <1>1. HubStep
    BY DEF HubStep
  <1>2. /\ Asking /\ Asking' /\ WaitTypeOK' /\ PhaseFits' /\ MatchSeen' /\ AnswerIsTrue'
        /\ Status' \in seenSince' /\ seenSince \subseteq seenSince'
        /\ (endedSince => endedSince') /\ (moved => moved')
    BY <1>1, HubStepKeepsAsked
  <1>3. UNCHANGED paneVars
    BY DEF Push
  <1>4. Since(origin)' \subseteq Since(origin) /\ Since(cursor)' \subseteq Since(cursor)
    <2>1. PICK o \in 0 .. next : o = origin
      BY CursorFits
    <2>2. PICK c \in 0 .. next : c = cursor
      BY CursorFits
    <2>3. Since(o)' \subseteq Since(o) /\ Since(c)' \subseteq Since(c)
      BY SincePushed
    <2>4. o = origin' /\ c = cursor'
      BY <2>1, <2>2
    <2>5. Since(origin)' = Since(o)' /\ Since(cursor)' = Since(c)'
      BY <2>4 DEF Since, Kept
    <2> QED
      BY <2>1, <2>2, <2>3, <2>5
  <1>5. StatusesSeen'
    BY <1>2, <1>4 DEF Waits, WaitInv, StatusesSeen
  <1>6. AgentStands'
    BY <1>2, <1>3, <1>4 DEF Waits, WaitInv, AgentStands, Resolved, Asking, Resolves, IsAgent, Identity
  <1>7. GateHolds'
    BY <1>2, <1>3, <1>4 DEF Waits, WaitInv, GateHolds, Following
  <1> QED
    BY <1>2, <1>5, <1>6, <1>7 DEF Waits, WaitInv

LEMMA PaneStepKeeps ==
  ASSUME HubTypeOK, Waits, PaneStep, ~Idling, HubHistory, UNCHANGED waitVars
  PROVE  Waits'
  <1>1. HubStep
    BY DEF HubStep
  <1>2. /\ Asking /\ Asking' /\ WaitTypeOK' /\ PhaseFits' /\ MatchSeen' /\ AnswerIsTrue'
        /\ Status' \in seenSince' /\ seenSince \subseteq seenSince'
        /\ (endedSince => endedSince') /\ (moved => moved')
    BY <1>1, HubStepKeepsAsked
  <1>3. /\ outbox = <<>> /\ log' = log /\ next' = next
        /\ state' = state => changeSeq' <= changeSeq
        /\ \A e \in Pending' : Tells(e)
    BY PaneStepDoes DEF Pending
  <1>4. /\ \A e \in Since(origin)' : e \in Since(origin) \/ e \in Pending'
        /\ \A e \in Since(cursor)' : e \in Since(cursor) \/ e \in Pending'
    BY <1>3 DEF Since, Kept, Pending
  <1>5. StatusesSeen'
    <2>1. DOMAIN outbox' = 1 .. Len(outbox')
      BY PaneStepDoes, LenProperties
    <2>2. \A e \in Pending' : e.status # None => e.status \in Told(outbox)'
      BY <2>1 DEF Pending, Told
    <2>3. Told(outbox)' \subseteq seenSince'
      BY DEF HubHistory, Told
    <2> QED
      BY <1>2, <1>4, <2>2, <2>3 DEF Waits, WaitInv, StatusesSeen
  <1>6. AgentStands'
    <2> SUFFICES ASSUME ~endedSince'
                 PROVE  /\ Resolved' => Resolves' /\ (expected = Identity)'
                        /\ \A e \in Since(origin)' : e.kind \notin {"detected", "exited"}
      BY DEF AgentStands
    <2>1. ~endedSince /\ there' = there /\ agent' = agent /\ (name # None => name' = name)
      BY DEF HubHistory
    <2>2. \A e \in Pending' : e.kind \notin {"detected", "exited"}
      BY <1>3, <2>1 DEF Tells
    <2>3. \A e \in Since(origin) : e.kind \notin {"detected", "exited"}
      BY <1>2, <2>1 DEF Waits, WaitInv, AgentStands
    <2>4. Resolved' => Resolves' /\ (expected = Identity)'
      BY <2>1 DEF Waits, WaitInv, AgentStands, Resolved, Resolves, IsAgent, Identity
    <2> QED
      BY <1>4, <2>2, <2>3, <2>4
  <1>7. GateHolds'
    <2> SUFFICES ASSUME Following', request.kind = "prompt", ~moved'
                 PROVE  /\ phase' = "gate" /\ agent' # None /\ changeSeq' <= after'
                        /\ \A e \in Since(cursor)' : ~e.released
      BY DEF GateHolds
    <2>1. ~moved /\ state' = state /\ agent' = agent /\ Following
      BY DEF HubHistory, Following
    <2>2. /\ phase = "gate" /\ agent # None /\ changeSeq <= after
          /\ \A e \in Since(cursor) : ~e.released
      BY <2>1 DEF Waits, WaitInv, GateHolds
    <2>3. changeSeq' <= after
      <3>1. changeSeq' <= changeSeq /\ changeSeq \in Int /\ after \in Int /\ changeSeq' \in Int
        BY <1>1, <1>3, <2>1, HubStepTyped DEF HubTypeOK, Waits, WaitTypeOK
      <3> QED
        BY <2>2, <3>1
    <2>4. \A e \in Pending' : ~e.released
      BY <1>3, <2>1, <2>2 DEF Tells
    <2> QED
      BY <1>4, <2>1, <2>2, <2>3, <2>4
  <1> QED
    BY <1>2, <1>5, <1>6, <1>7 DEF Waits, WaitInv

LEMMA HubStepKeeps ==
  ASSUME HubTypeOK, Waits, HubStep, HubObserved, UNCHANGED waitVars
  PROVE  Waits'
  <1>1. CASE Idling
    BY <1>1, HubStepKeepsIdle DEF HubObserved
  <1>2. CASE ~Idling
    BY <1>2, PushKeeps, PaneStepKeeps DEF HubObserved, HubStep
  <1> QED
    BY <1>1, <1>2

----------------------------------------------------------------------------
(* The subscription.  Its events have numbers that it has not reached, its snapshots are *)
(* not older than what it has read, and it holds an initial status only until it tells   *)
(* something else.                                                                       *)
ToldBehind ==
  /\ told.at <= unreadFrom
  /\ initial # Nothing => told = Nothing
  /\ spc \in {"start", "probe"} => told = Nothing
  /\ spc \in {"ask", "compare"} => initial = Nothing
SnapshotAhead ==
  spc = "compare" /\ snapshot # Nothing /\ snapshot # Gone => snapshot.at >= unreadFrom

SubInv == SubTypeOK /\ ToldBehind /\ SnapshotAhead

NoticeSet == [status : Statuses \cup {None}, at : 0 .. next]

LEMMA NoticeTyped ==
  ASSUME NEW status \in Statuses \cup {None}, NEW at \in 0 .. next
  PROVE  /\ Notice(status, at) \in NoticeSet
         /\ Notice(status, at).at = at
         /\ Notice(status, at).status = status
  <1> HIDE DEF Statuses
  <1> QED
    BY DEF Notice, NoticeSet

LEMMA NothingTyped ==
  ASSUME HubTypeOK
  PROVE  Nothing \in NoticeSet /\ Nothing.at = 0 /\ Gone.at = 0
  <1>1. 0 \in 0 .. next
    BY DEF HubTypeOK
  <1> QED
    BY <1>1 DEF Nothing, Gone, Notice, NoticeSet

(* An event that has not been read is above what has. *)
LEMMA FreshAbove ==
  ASSUME HubTypeOK, SubTypeOK
  PROVE  /\ DOMAIN Fresh = 1 .. Len(Fresh) /\ Len(Fresh) \in Nat
         /\ \A i \in 1 .. Len(Fresh) :
              Fresh[i] \in HubEvents /\ SequenceOf(i) \in 0 .. next /\ SequenceOf(i) > unreadFrom
  <1>1. unreadFrom \in 0 .. next /\ next \in Nat
    BY DEF SubTypeOK, HubTypeOK
  <1>2. /\ Fresh \in Seq(HubEvents) /\ Len(Fresh) <= next - unreadFrom
    BY <1>1, UnreadEvents DEF Fresh
  <1>3. DOMAIN Fresh = 1 .. Len(Fresh) /\ Len(Fresh) \in Nat
    BY <1>2, LenProperties
  <1>4. \A i \in 1 .. Len(Fresh) : Fresh[i] \in HubEvents
    BY <1>2, ElementOfSeq
  <1>5. \A i \in 1 .. Len(Fresh) : SequenceOf(i) \in 0 .. next /\ SequenceOf(i) > unreadFrom
    BY <1>1, <1>2, <1>3 DEF SequenceOf
  <1> QED
    BY <1>3, <1>4, <1>5

LEMMA StatusNewsHas ==
  ASSUME HubTypeOK, SubTypeOK
  PROVE  /\ Hits # {} => Oldest(Hits) \in Hits
         /\ StatusNews # {} => Newest(StatusNews) \in StatusNews
         /\ Hits \subseteq 1 .. Len(Fresh) /\ StatusNews \subseteq 1 .. Len(Fresh)
  <1>1. DOMAIN Fresh = 1 .. Len(Fresh) /\ Len(Fresh) \in Nat
    BY FreshAbove
  <1>2. StatusNews \subseteq 1 .. Len(Fresh)
    BY <1>1 DEF StatusNews
  <1>3. Hits \subseteq StatusNews
    BY DEF Hits
  <1>4. Hits # {} => \E i \in Hits : \A j \in Hits : i <= j
    <2>1. Hits \subseteq Nat
      BY <1>2, <1>3
    <2> QED
      BY <2>1, LeastOf
  <1>5. StatusNews # {} => \E i \in StatusNews : \A j \in StatusNews : j <= i
    BY <1>1, <1>2, GreatestOf
  <1> QED
    BY <1>2, <1>3, <1>4, <1>5 DEF Oldest, Newest

(* A step in which the subscriber is told nothing. *)
ToldStep == told = Nothing \/ told' = told \/ told'.at > told.at \/ (told'.at = told.at /\ told' = snapshot)

LEMMA SubTyped ==
  ASSUME HubTypeOK, SubInv
  PROVE  /\ next \in Nat /\ unreadFrom \in 0 .. next
         /\ told \in NoticeSet /\ initial \in NoticeSet
         /\ told.at \in Nat /\ initial.at \in 0 .. next
         /\ snapshot \in NoticeSet \cup {Gone} /\ snapshot.at \in 0 .. next
         /\ told.at <= unreadFrom
         /\ initial # Nothing => told = Nothing
  <1>1. /\ next \in Nat /\ unreadFrom \in 0 .. next
        /\ told \in NoticeSet /\ initial \in NoticeSet
        /\ snapshot \in NoticeSet \cup {Gone}
        /\ told.at <= unreadFrom
        /\ initial # Nothing => told = Nothing
    BY DEF HubTypeOK, SubInv, SubTypeOK, ToldBehind, NoticeSet
  <1>2. told.at \in 0 .. next /\ initial.at \in 0 .. next /\ snapshot.at \in 0 .. next
    <2> HIDE DEF Statuses
    <2>1. \A n \in NoticeSet : n.at \in 0 .. next
      BY DEF NoticeSet
    <2> QED
      BY <1>1, <2>1, NothingTyped
  <1> QED
    BY <1>1, <1>2

LEMMA SubBeginKeeps ==
  ASSUME HubTypeOK, SubInv, UNCHANGED hubVars, SubBegin
  PROVE  SubInv' /\ ToldStep
  <1>1. /\ spc = "start" /\ spc' = "probe" /\ unreadFrom' = next
        /\ UNCHANGED <<filter, once, last, initial, snapshot, told, first>> /\ next' = next
    BY DEF SubBegin
  <1>2. told = Nothing /\ told.at <= next
    BY <1>1, SubTyped DEF SubInv, ToldBehind
  <1>3. SubTypeOK'
    BY <1>1, SubTyped DEF SubInv, SubTypeOK
  <1>4. ToldBehind' /\ SnapshotAhead'
    BY <1>1, <1>2 DEF SubInv, ToldBehind, SnapshotAhead
  <1> QED
    BY <1>1, <1>3, <1>4 DEF SubInv, ToldStep

LEMMA SubProbeKeeps ==
  ASSUME HubTypeOK, SubInv, UNCHANGED hubVars, SubProbe
  PROVE  SubInv' /\ ToldStep
  <1>1. /\ spc = "probe" /\ spc' \in {"read", "ended"} /\ last' = Status /\ first' = Status
        /\ initial' = Notice(Status, next) \/ initial' = Nothing
        /\ UNCHANGED <<filter, once, unreadFrom, snapshot, told>> /\ next' = next
    BY DEF SubProbe
  <1>2. told = Nothing
    BY <1>1 DEF SubInv, ToldBehind
  <1>3. Status \in Statuses \cup {None} /\ next \in 0 .. next
    BY StatusTyped, SubTyped
  <1>4. initial' \in NoticeSet
    <2>1. Nothing \in NoticeSet
      BY NothingTyped
    <2>2. Notice(Status, next) \in NoticeSet
      BY <1>3, NoticeTyped
    <2> QED
      BY <1>1, <2>1, <2>2
  <1>5. SubTypeOK'
    BY <1>1, <1>3, <1>4 DEF SubInv, SubTypeOK, NoticeSet
  <1>6. ToldBehind' /\ SnapshotAhead'
    BY <1>1, <1>2 DEF SubInv, ToldBehind, SnapshotAhead
  <1> QED
    BY <1>1, <1>5, <1>6 DEF SubInv, ToldStep

LEMMA SubReadKeeps ==
  ASSUME HubTypeOK, SubInv, UNCHANGED hubVars, SubRead
  PROVE  SubInv' /\ ToldStep
  <1>1. /\ spc = "read" /\ UNCHANGED <<filter, once, snapshot, first>> /\ next' = next
    BY DEF SubRead
  <1>2. Nothing \in NoticeSet /\ Nothing.at = 0
    BY NothingTyped
  <1>3. CASE Hits # {}
    <2> DEFINE i == Oldest(Hits)
    <2>1. /\ told' = Notice(Fresh[i].status, SequenceOf(i)) /\ spc' \in {"ended", "read"}
          /\ unreadFrom' = SequenceOf(i) /\ last' = Fresh[i].status /\ initial' = Nothing
      BY <1>3 DEF SubRead, Deliver
    <2>2. i \in 1 .. Len(Fresh) /\ i \in Hits
      BY <1>3, StatusNewsHas DEF SubInv
    <2> HIDE DEF i
    <2>3. Fresh[i] \in HubEvents /\ SequenceOf(i) \in 0 .. next /\ SequenceOf(i) > unreadFrom
      BY <2>2, FreshAbove DEF SubInv
    <2>5. Fresh[i].status \in Statuses \cup {None}
      <3> HIDE DEF Statuses
      <3> QED
        BY <2>3 DEF HubEvents
    <2>6. told' \in NoticeSet /\ told'.at = SequenceOf(i)
      <3> HIDE DEF Statuses
      <3> QED
        BY <2>1, <2>3, <2>5 DEF Notice, NoticeSet
    <2>7. SubTypeOK'
      BY <1>1, <1>2, <2>1, <2>3, <2>5, <2>6 DEF SubInv, SubTypeOK, NoticeSet
    <2>8. ToldBehind' /\ SnapshotAhead'
      BY <1>1, <2>1, <2>3, <2>6 DEF ToldBehind, SnapshotAhead
    <2>9. ToldStep
      BY <2>3, <2>6, SubTyped DEF ToldStep
    <2> QED
      BY <2>7, <2>8, <2>9 DEF SubInv
  <1>4. CASE Hits = {}
    <2>1. /\ unreadFrom' = next /\ told' = told
          /\ (spc' = "check" /\ initial' = initial) \/ (spc' = "ask" /\ initial' = Nothing)
          /\ last' = last \/ (StatusNews # {} /\ last' = Fresh[Newest(StatusNews)].status)
      BY <1>4 DEF SubRead
    <2>2. last' \in Statuses \cup {None}
      <3>1. CASE StatusNews # {}
        <4> DEFINE i == Newest(StatusNews)
        <4>1. i \in 1 .. Len(Fresh)
          BY <3>1, StatusNewsHas DEF SubInv
        <4> HIDE DEF i
        <4>2. Fresh[i] \in HubEvents
          BY <4>1, FreshAbove DEF SubInv
        <4>3. Fresh[i].status \in Statuses \cup {None}
          <5> HIDE DEF Statuses
          <5> QED
            BY <4>2 DEF HubEvents
        <4> QED
          BY <2>1, <4>3 DEF i, SubInv, SubTypeOK
      <3>2. CASE StatusNews = {}
        BY <2>1, <3>2 DEF SubInv, SubTypeOK
      <3> QED
        BY <3>1, <3>2
    <2>3. SubTypeOK'
      BY <1>1, <1>2, <2>1, <2>2, SubTyped DEF SubInv, SubTypeOK, NoticeSet
    <2>4. ToldBehind' /\ SnapshotAhead'
      BY <1>1, <2>1, SubTyped DEF SubInv, ToldBehind, SnapshotAhead
    <2> QED
      BY <2>1, <2>3, <2>4 DEF SubInv, ToldStep
  <1> QED
    BY <1>3, <1>4

LEMMA SubCheckKeeps ==
  ASSUME HubTypeOK, SubInv, UNCHANGED hubVars, SubCheck
  PROVE  SubInv' /\ ToldStep
  <1>1. /\ spc = "check" /\ UNCHANGED <<filter, once, unreadFrom, last, snapshot, first>> /\ next' = next
    BY DEF SubCheck
  <1>2. Nothing \in NoticeSet /\ Nothing.at = 0
    BY NothingTyped
  <1>3. CASE next = unreadFrom /\ initial # Nothing
    <2>1. told' = initial /\ spc' \in {"ended", "read"} /\ initial' = Nothing
      BY <1>3 DEF SubCheck, Deliver
    <2>2. told = Nothing /\ initial.at <= unreadFrom
      BY <1>3, SubTyped
    <2>3. SubTypeOK'
      BY <1>1, <1>2, <2>1, SubTyped DEF SubInv, SubTypeOK, NoticeSet
    <2>4. ToldBehind' /\ SnapshotAhead'
      BY <1>1, <2>1, <2>2 DEF ToldBehind, SnapshotAhead
    <2> QED
      BY <2>2, <2>3, <2>4 DEF SubInv, ToldStep
  <1>4. CASE ~(next = unreadFrom /\ initial # Nothing)
    <2>1. told' = told /\ initial' = initial /\ (spc' = "read" \/ (spc' = "ask" /\ initial = Nothing))
      BY <1>4 DEF SubCheck
    <2>2. SubTypeOK'
      BY <1>1, <2>1, SubTyped DEF SubInv, SubTypeOK, NoticeSet
    <2>3. ToldBehind' /\ SnapshotAhead'
      BY <1>1, <2>1 DEF SubInv, ToldBehind, SnapshotAhead
    <2> QED
      BY <2>1, <2>2, <2>3 DEF SubInv, ToldStep
  <1> QED
    BY <1>3, <1>4

(* The snapshot is of now, and what has been read is not later. *)
LEMMA SubAskKeeps ==
  ASSUME HubTypeOK, SubInv, UNCHANGED hubVars, SubAsk
  PROVE  SubInv' /\ ToldStep
  <1>1. /\ spc = "ask" /\ spc' = "compare" /\ next' = next
        /\ snapshot' = Notice(Status, next) \/ snapshot' = Gone \/ snapshot' = Nothing
        /\ UNCHANGED <<filter, once, unreadFrom, last, initial, told, first>>
    BY DEF SubAsk
  <1>2. Status \in Statuses \cup {None} /\ next \in 0 .. next /\ unreadFrom <= next
    BY StatusTyped, SubTyped
  <1>3. snapshot' \in NoticeSet \cup {Gone}
    BY <1>1, <1>2, NoticeTyped, NothingTyped
  <1>4. SubTypeOK'
    BY <1>1, <1>3, SubTyped DEF SubInv, SubTypeOK, NoticeSet
  <1>5. SnapshotAhead'
    <2>1. Notice(Status, next).at = next
      BY <1>2, NoticeTyped
    <2> QED
      BY <1>1, <1>2, <2>1 DEF SnapshotAhead, Gone, Nothing, Notice
  <1>6. ToldBehind'
    BY <1>1 DEF SubInv, ToldBehind
  <1> QED
    BY <1>1, <1>4, <1>5, <1>6 DEF SubInv, ToldStep

LEMMA SubCompareKeeps ==
  ASSUME HubTypeOK, SubInv, UNCHANGED hubVars, SubCompare
  PROVE  SubInv' /\ ToldStep
  <1>1. /\ spc = "compare" /\ spc' \in {"read", "ended"} /\ snapshot' = Nothing /\ next' = next
        /\ UNCHANGED <<filter, once, unreadFrom, initial, first>>
    BY DEF SubCompare, Deliver
  <1>2. Nothing \in NoticeSet \cup {Gone}
    BY NothingTyped
  <1>3. CASE told' = told /\ last' = last
    <2>1. SubTypeOK'
      BY <1>1, <1>2, <1>3, SubTyped DEF SubInv, SubTypeOK, NoticeSet
    <2>2. ToldBehind' /\ SnapshotAhead'
      BY <1>1, <1>3 DEF SubInv, ToldBehind, SnapshotAhead
    <2> QED
      BY <1>3, <2>1, <2>2 DEF SubInv, ToldStep
  <1>4. CASE ~(told' = told /\ last' = last)
    <2>1. /\ next = unreadFrom /\ snapshot # Nothing /\ snapshot # Gone
          /\ last' = snapshot.status /\ told' \in {told, snapshot}
      BY <1>4 DEF SubCompare, Deliver
    <2>2. snapshot.at >= unreadFrom /\ snapshot.at \in 0 .. next
      BY <1>1, <2>1, SubTyped DEF SubInv, SnapshotAhead
    <2>3. snapshot.status \in Statuses \cup {None} /\ snapshot \in NoticeSet
      <3>1. snapshot \in NoticeSet
        BY <2>1, SubTyped
      <3> HIDE DEF Statuses
      <3> QED
        BY <3>1 DEF NoticeSet
    <2>4. SubTypeOK'
      BY <1>1, <1>2, <2>1, <2>3, SubTyped DEF SubInv, SubTypeOK, NoticeSet
    <2>5. ToldBehind' /\ SnapshotAhead'
      BY <1>1, <2>1, <2>2, SubTyped DEF SubInv, ToldBehind, SnapshotAhead
    <2>6. ToldStep
      BY <2>1, <2>2, SubTyped DEF ToldStep
    <2> QED
      BY <2>4, <2>5, <2>6 DEF SubInv
  <1> QED
    BY <1>3, <1>4

LEMMA SubStepKeeps ==
  ASSUME HubTypeOK, SubInv, UNCHANGED hubVars, SubStep
  PROVE  SubInv' /\ ToldStep
  <1>1. CASE SubBegin
    BY <1>1, SubBeginKeeps
  <1>2. CASE SubProbe
    BY <1>2, SubProbeKeeps
  <1>3. CASE SubRead
    BY <1>3, SubReadKeeps
  <1>4. CASE SubCheck
    BY <1>4, SubCheckKeeps
  <1>5. CASE SubAsk
    BY <1>5, SubAskKeeps
  <1>6. CASE SubCompare
    BY <1>6, SubCompareKeeps
  <1>7. CASE SubEnds
    <2>1. /\ spc = "read" /\ spc' = "ended" /\ next' = next
          /\ UNCHANGED <<filter, once, unreadFrom, last, initial, snapshot, told, first>>
      BY <1>7 DEF SubEnds
    <2>2. SubTypeOK'
      BY <2>1 DEF SubInv, SubTypeOK
    <2>3. ToldBehind' /\ SnapshotAhead'
      BY <2>1 DEF SubInv, ToldBehind, SnapshotAhead
    <2> QED
      BY <2>1, <2>2, <2>3 DEF SubInv, ToldStep
  <1> QED
    BY <1>1, <1>2, <1>3, <1>4, <1>5, <1>6, <1>7 DEF SubStep

(* While it does nothing, the hub only goes on. *)
LEMMA SubRests ==
  ASSUME HubTypeOK, SubInv, next' \in Nat, next <= next', UNCHANGED subVars
  PROVE  SubInv' /\ ToldStep
  <1>1. NoticeSet \subseteq NoticeSet'
    <2>1. 0 .. next \subseteq 0 .. next'
      BY DEF HubTypeOK
    <2> HIDE DEF Statuses
    <2> QED
      BY <2>1 DEF NoticeSet
  <1>2. told' \in NoticeSet' /\ initial' \in NoticeSet' /\ snapshot' \in NoticeSet' \cup {Gone}
    BY <1>1, SubTyped
  <1>3. unreadFrom' \in 0 .. next'
    BY SubTyped
  <1>4. SubTypeOK'
    BY <1>2, <1>3 DEF SubInv, SubTypeOK, NoticeSet
  <1>5. ToldBehind' /\ SnapshotAhead'
    BY DEF SubInv, ToldBehind, SnapshotAhead
  <1> QED
    BY <1>4, <1>5 DEF SubInv, ToldStep

----------------------------------------------------------------------------
Inv == HubTypeOK /\ Waits /\ SubInv

LEMMA WaitIdleKeeps ==
  ASSUME HubInit, request \in Requests, NEW p \in {"request", "left"}, WaitIdle(p)
  PROVE  Waits
  <1>1. /\ pc = p /\ origin = 0 /\ cursor = 0 /\ next = 0
        /\ phase = IF request.kind = "wait" THEN "wait" ELSE "gate"
        /\ expected = Nobody /\ after = -1 /\ matched = None
        /\ expired = FALSE /\ answer = NoAnswer
    BY DEF HubInit, WaitIdle
  <1>2. answer.code = "none"
    BY <1>1 DEF NoAnswer
  <1>3. WaitTypeOK
    <2>1. expected \in [agent : Labels, named : BOOLEAN]
      BY <1>1 DEF Nobody
    <2>2. phase \in {"wait", "gate", "settle"} /\ origin \in 0 .. next /\ cursor \in origin .. next
      BY <1>1
    <2>3. (answer.code = "none") = (pc # "answered")
      BY <1>1, <1>2
    <2> QED
      BY <1>1, <1>2, <2>1, <2>2, <2>3 DEF WaitTypeOK
  <1>4. PhaseFits /\ StatusesSeen /\ MatchSeen /\ AgentStands /\ GateHolds /\ AnswerIsTrue
    BY <1>1, <1>2
    DEF PhaseFits, StatusesSeen, MatchSeen, AgentStands, GateHolds, AnswerIsTrue, Asking, Resolved, Following
  <1> QED
    BY <1>3, <1>4 DEF Waits, WaitInv

LEMMA SubIdleKeeps ==
  ASSUME HubInit, filter \in Filters \cup {None}, once \in BOOLEAN, NEW p \in {"start", "ended"}, SubIdle(p)
  PROVE  SubInv
  <1>1. /\ spc = p /\ unreadFrom = 0 /\ next = 0 /\ last = None /\ first = None
        /\ initial = Nothing /\ snapshot = Nothing /\ told = Nothing
    BY DEF HubInit, SubIdle
  <1>2. Nothing \in NoticeSet /\ Nothing.at = 0
    BY HubInitTyped, NothingTyped
  <1>3. SubTypeOK
    BY <1>1, <1>2 DEF SubTypeOK, NoticeSet
  <1>4. ToldBehind /\ SnapshotAhead
    BY <1>1, <1>2 DEF ToldBehind, SnapshotAhead
  <1> QED
    BY <1>3, <1>4 DEF SubInv

LEMMA InvInit == WatchersInit => Inv
  <1> SUFFICES ASSUME WatchersInit PROVE Inv
    OBVIOUS
  <1>1. HubInit /\ HubTypeOK
    BY HubInitTyped DEF WatchersInit
  <1>2. CASE WaitInit /\ SubIdle("ended") /\ filter = None /\ once = FALSE
    <2>1. Waits
      BY <1>1, <1>2, WaitIdleKeeps DEF WaitInit
    <2>2. SubInv
      BY <1>1, <1>2, SubIdleKeeps
    <2> QED
      BY <1>1, <2>1, <2>2 DEF Inv
  <1>3. CASE SubInit /\ request = (CHOOSE r \in Requests : TRUE) /\ WaitIdle("left")
    <2>1. request \in Requests
      BY <1>3, WaitAssumption
    <2>2. Waits
      BY <1>1, <1>3, <2>1, WaitIdleKeeps
    <2>3. SubInv
      BY <1>1, <1>3, SubIdleKeeps DEF SubInit
    <2> QED
      BY <1>1, <2>2, <2>3 DEF Inv
  <1> QED
    BY <1>2, <1>3 DEF WatchersInit

LEMMA InvNext == Inv /\ [WatchersNext]_watcherVars => Inv' /\ ToldStep
  <1> SUFFICES ASSUME Inv, [WatchersNext]_watcherVars PROVE Inv' /\ ToldStep
    OBVIOUS
  <1>1. HubTypeOK /\ Waits /\ SubInv
    BY DEF Inv
  <1>2. CASE HubStep /\ HubObserved /\ UNCHANGED <<waitVars, subVars>>
    <2>1. HubTypeOK' /\ next <= next' /\ next' \in Nat
      BY <1>1, <1>2, HubStepTyped DEF HubTypeOK
    <2>2. Waits'
      BY <1>1, <1>2, HubStepKeeps
    <2>3. SubInv' /\ ToldStep
      BY <1>1, <1>2, <2>1, SubRests
    <2> QED
      BY <2>1, <2>2, <2>3 DEF Inv
  <1>3. CASE WaitStep /\ WaitHistory /\ UNCHANGED <<hubVars, subVars>>
    <2>1. HubTypeOK' /\ next <= next' /\ next' \in Nat
      BY <1>1, <1>3 DEF HubTypeOK
    <2>2. Waits'
      BY <1>1, <1>3, WaitStepKeeps
    <2>3. SubInv' /\ ToldStep
      BY <1>1, <1>3, <2>1, SubRests
    <2> QED
      BY <2>1, <2>2, <2>3 DEF Inv
  <1>4. CASE SubStep /\ UNCHANGED <<hubVars, waitVars, waitHistory>>
    <2>1. HubTypeOK'
      BY <1>1, <1>4 DEF HubTypeOK
    <2>2. Waits'
      BY <1>1, <1>4, WaitRests
    <2>3. SubInv' /\ ToldStep
      BY <1>1, <1>4, SubStepKeeps
    <2> QED
      BY <2>1, <2>2, <2>3 DEF Inv
  <1>5. CASE UNCHANGED watcherVars
    <2>1. UNCHANGED <<hubVars, waitVars, waitHistory>> /\ UNCHANGED subVars
      BY <1>5 DEF watcherVars
    <2>2. HubTypeOK' /\ next <= next' /\ next' \in Nat
      BY <1>1, <2>1 DEF HubTypeOK
    <2>3. Waits'
      BY <1>1, <2>1, WaitRests
    <2>4. SubInv' /\ ToldStep
      BY <1>1, <2>1, <2>2, SubRests
    <2> QED
      BY <2>2, <2>3, <2>4 DEF Inv
  <1> QED
    BY <1>2, <1>3, <1>4, <1>5 DEF WatchersNext

THEOREM Invariance == WatchersSpec => []Inv
  BY InvInit, InvNext, PTL DEF WatchersSpec

(* The variables of the pane, the hub and both threads have their types. *)
THEOREM TypeCorrect == WatchersSpec => []WatchersTypeOK
  <1>1. Inv => WatchersTypeOK
    BY DEF Inv, Waits, SubInv, WatchersTypeOK
  <1> QED
    BY <1>1, Invariance, PTL

(* What a waiting connection answers is true, whenever it reads: a status it reports was *)
(* the pane's since the request, an agent it reports gone has ended, and a prompt that   *)
(* succeeds has had an effect.                                                           *)
THEOREM AnswersAreTrue == WatchersSpec => []AnswerIsTrue
  <1>1. Inv => AnswerIsTrue
    BY DEF Inv, Waits, WaitInv
  <1> QED
    BY <1>1, Invariance, PTL

(* A subscriber is told of events and snapshots in their order, and of none again. *)
THEOREM NoticesInOrder == WatchersSpec => ToldInOrder
  <1>1. Inv /\ [WatchersNext]_watcherVars =>
          [told = Nothing \/ told' = told \/ told'.at > told.at \/ (told'.at = told.at /\ told' = snapshot)]_subVars
    BY InvNext DEF ToldStep
  <1> QED
    BY <1>1, Invariance, PTL DEF WatchersSpec, ToldInOrder
=============================================================================
