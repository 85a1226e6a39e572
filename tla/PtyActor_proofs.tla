----------------------------- MODULE PtyActor_proofs -----------------------------
(***************************************************************************)
(* PtyActor proved for any number of writers, inputs and handoffs, and any *)
(* size of the channel: accepted input survives every handoff that is      *)
(* rolled back (AcceptedInputSurvives), and the gate and the thread never  *)
(* disagree about who owns the PTY (GateMatchesActor).                     *)
(*                                                                         *)
(* The inductive invariant says which command an answer can still come to: *)
(* the last one queued, or the begin being drained, and only for the call  *)
(* that is under way.  So once a call has its answer nothing is queued     *)
(* behind it, and a rollback that was answered leaves no late command that *)
(* could quiesce the thread under an open gate.                            *)
(***************************************************************************)
EXTENDS PtyActor, FiniteSetTheorems, SequenceTheorems, TLAPS

Alive == thread # "exited"

(* Which role each call belongs to, and that no answer outlives its call. *)
CallsHaveRoles ==
  /\ call = "none" => reply = "none"
  /\ call \in {"begin", "rollback"} => role = "serving"
  /\ call = "duplicate" => role = "paused"
  /\ call = "release" => role = "released"

(* Only the last command, or the begin being drained, is waited for. *)
OneIsWaitedFor ==
  Alive =>
    /\ \A i \in 1 .. Len(ctl) :
         ctl[i].waited => i = Len(ctl) /\ ctl[i].op = call /\ reply = "none"
    /\ waited => thread = "draining" /\ call = "begin" /\ reply = "none" /\ ctl = <<>>
    /\ reply # "none" => ctl = <<>>

(* What an answer says of the thread still holds while the call lasts. *)
AnswersHold ==
  Alive /\ reply = "ok" =>
    /\ call = "rollback" => thread = "loop" /\ state = "Running"
    /\ call = "begin" => thread = "loop" /\ state = "Quiesced"

(* The gate is open only when nothing is under way. *)
OpenIsIdle ==
  accepting /\ Alive =>
    role = "serving" /\ call = "none" /\ ctl = <<>> /\ thread = "loop" /\ state = "Running"

(* A quiesced thread has nothing left to write, one that drains nothing to read. *)
QuietIsEmpty ==
  Alive =>
    /\ state # "Released"
    /\ state = "Quiesced" => pending = <<>> /\ data = <<>>
    /\ thread = "draining" => data = <<>>

(* A paused thread is asked for duplicates only. *)
PausedStays ==
  role \in {"paused", "duplicated"} /\ Alive =>
    /\ thread = "loop" /\ state = "Quiesced"
    /\ \A i \in 1 .. Len(ctl) : ctl[i].op = "duplicate"

Inv ==
  /\ TypeOK /\ IsFiniteSet(Permits) /\ AcceptedInputSurvives
  /\ CallsHaveRoles /\ OneIsWaitedFor /\ AnswersHold /\ OpenIsIdle /\ QuietIsEmpty /\ PausedStays

USE PtyActorAssumption DEF PtyActorAssumption

Inputs == 1 .. MaxInputs
----------------------------------------------------------------------------
(* What moving an input from one sequence to the next does to them all.    *)

LEMMA Shift ==
  ASSUME NEW S, NEW p \in Seq(S), NEW q \in Seq(S), q # <<>>
  PROVE  Append(p, Head(q)) \o Tail(q) = p \o q
<1> DEFINE a == Append(p, Head(q))
<1>1. Head(q) \in S /\ Tail(q) \in Seq(S) /\ Len(Tail(q)) = Len(q) - 1
      /\ \A i \in 1 .. Len(Tail(q)) : Tail(q)[i] = q[i + 1]
  BY HeadTailProperties
<1>2. Head(q) = q[1] /\ Len(q) \in Nat /\ Len(p) \in Nat
  BY LenProperties
<1>3. a \in Seq(S) /\ Len(a) = Len(p) + 1 /\ a[Len(p) + 1] = Head(q)
      /\ \A i \in 1 .. Len(p) : a[i] = p[i]
  BY <1>1, AppendProperties
<1> HIDE DEF a
<1>4. /\ a \o Tail(q) \in Seq(S)
      /\ Len(a \o Tail(q)) = Len(a) + Len(Tail(q))
      /\ \A i \in 1 .. Len(a) + Len(Tail(q)) :
           (a \o Tail(q))[i] = IF i <= Len(a) THEN a[i] ELSE Tail(q)[i - Len(a)]
  BY <1>1, <1>3, ConcatProperties
<1>5. /\ p \o q \in Seq(S)
      /\ Len(p \o q) = Len(p) + Len(q)
      /\ \A i \in 1 .. Len(p) + Len(q) :
           (p \o q)[i] = IF i <= Len(p) THEN p[i] ELSE q[i - Len(p)]
  BY ConcatProperties
<1>6. Len(a \o Tail(q)) = Len(p \o q)
  BY <1>1, <1>2, <1>3, <1>4, <1>5
<1>7. ASSUME NEW i \in 1 .. Len(a \o Tail(q)) PROVE (a \o Tail(q))[i] = (p \o q)[i]
  <2>1. CASE i <= Len(p)
    BY <2>1, <1>1, <1>2, <1>3, <1>4, <1>5, <1>6
  <2>2. CASE i = Len(p) + 1
    <3>1. (a \o Tail(q))[i] = Head(q)
      BY <2>2, <1>1, <1>2, <1>3, <1>4, <1>6
    <3>2. (p \o q)[i] = q[1]
      BY <2>2, <1>2, <1>5, <1>6
    <3> QED BY <3>1, <3>2, <1>2
  <2>3. CASE i > Len(p) + 1
    <3>1. (a \o Tail(q))[i] = Tail(q)[i - (Len(p) + 1)]
      BY <2>3, <1>1, <1>2, <1>3, <1>4, <1>6
    <3>2. i - (Len(p) + 1) \in 1 .. Len(Tail(q)) /\ (i - (Len(p) + 1)) + 1 = i - Len(p)
      BY <2>3, <1>1, <1>2, <1>5, <1>6
    <3>3. Tail(q)[i - (Len(p) + 1)] = q[i - Len(p)]
      BY <3>2, <1>1
    <3>4. (p \o q)[i] = q[i - Len(p)]
      BY <2>3, <1>2, <1>5, <1>6
    <3> QED BY <3>1, <3>3, <3>4
  <2>4. i <= Len(p) \/ i = Len(p) + 1 \/ i > Len(p) + 1
    BY <1>2
  <2> QED BY <2>1, <2>2, <2>3, <2>4
<1>8. a \o Tail(q) = p \o q
  BY <1>4, <1>5, <1>6, <1>7, SeqEqual
<1> QED BY <1>8 DEF a

(* The next input goes to the end of the log, ... *)
LEMMA LogGrows ==
  ASSUME NEW S, NEW w \in Seq(S), NEW d \in Seq(S), NEW e \in S
  PROVE  w \o Append(d, e) = Append(w \o d, e)
<1>1. <<e>> \in Seq(S)
  OBVIOUS
<1>2. Append(d, e) = d \o <<e>> /\ w \o d \in Seq(S)
  BY AppendIsConcat, ConcatProperties
<1>3. Append(w \o d, e) = (w \o d) \o <<e>>
  BY <1>2, AppendIsConcat
<1> QED BY <1>1, <1>2, <1>3, ConcatAssociative

LEMMA UptoGrows ==
  ASSUME NEW n \in Nat
  PROVE  Upto(n + 1) = Append(Upto(n), n + 1)
  BY DEF Upto

(* The log: what is written, what is about to be, what is queued. *)
Log == written \o pending \o data

LEMMA Channels ==
  ASSUME TypeOK
  PROVE  /\ accepted \in Nat
         /\ data \in Seq(Inputs) /\ pending \in Seq(Inputs) /\ written \in Seq(Inputs)
         /\ Log = written \o (pending \o data)
<1>1. accepted \in Nat
  BY DEF TypeOK
<1>2. data \in Seq(Inputs) /\ pending \in Seq(Inputs) /\ written \in Seq(Inputs)
  BY DEF TypeOK, Inputs
<1>3. (written \o pending) \o data = written \o (pending \o data)
  BY <1>2, ConcatAssociative
<1> QED BY <1>1, <1>2, <1>3 DEF Log

(* An input accepted while the thread lives. *)
LEMMA AcceptLog ==
  ASSUME TypeOK, Accept, Alive, accepted < MaxInputs, UNCHANGED <<written, pending>>
  PROVE  /\ accepted' \in 0 .. MaxInputs /\ data' \in Seq(1 .. MaxInputs)
         /\ Len(data') = Len(data) + 1
         /\ Log = Upto(accepted) => Log' = Upto(accepted')
<1>1. accepted' = accepted + 1 /\ data' = Append(data, accepted + 1)
  BY DEF Accept, Alive
<1>2. accepted \in Nat /\ accepted + 1 \in Inputs /\ data \in Seq(Inputs)
      /\ pending \in Seq(Inputs) /\ written \in Seq(Inputs)
  BY Channels DEF TypeOK, Inputs
<1>3. written \o pending \in Seq(Inputs)
  BY <1>2, ConcatProperties
<1>4. (written \o pending) \o Append(data, accepted + 1)
        = Append((written \o pending) \o data, accepted + 1)
  BY <1>2, <1>3, LogGrows
<1>5. Log' = Append(Log, accepted + 1)
  BY <1>1, <1>4 DEF Log
<1>6. data' \in Seq(Inputs) /\ Len(data') = Len(data) + 1
  BY <1>1, <1>2, AppendProperties
<1>7. accepted' \in 0 .. MaxInputs
  BY <1>1, <1>2
<1>8. Log = Upto(accepted) => Log' = Upto(accepted')
  BY <1>1, <1>2, <1>5, UptoGrows
<1> QED BY <1>6, <1>7, <1>8 DEF Inputs

(* An input taken from the channel, ... *)
LEMMA TakeLog ==
  ASSUME TypeOK, data # <<>>, data' = Tail(data), pending' = Append(pending, Head(data)),
         written' = written
  PROVE  Log' = Log /\ pending' \in Seq(1 .. MaxInputs)
<1>1. data \in Seq(Inputs) /\ pending \in Seq(Inputs) /\ written \in Seq(Inputs)
      /\ Log = written \o (pending \o data)
  BY Channels
<1> DEFINE p == Append(pending, Head(data))
           d == Tail(data)
<1>2. d \in Seq(Inputs) /\ p \in Seq(Inputs) /\ written \in Seq(Inputs)
  BY <1>1, HeadTailProperties, AppendProperties
<1>3. p \o d = pending \o data
  BY <1>1, Shift
<1>4. Log' = (written \o p) \o d /\ pending' = p
  BY DEF Log
<1> HIDE DEF p, d
<1>5. (written \o p) \o d = written \o (p \o d)
  BY <1>2, ConcatAssociative
<1> QED BY <1>1, <1>2, <1>3, <1>4, <1>5 DEF Inputs

(* ... written, ... *)
LEMMA WriteLog ==
  ASSUME TypeOK, pending # <<>>, pending' = Tail(pending),
         written' = Append(written, Head(pending)), data' = data
  PROVE  Log' = Log /\ pending' \in Seq(1 .. MaxInputs) /\ written' \in Seq(1 .. MaxInputs)
<1>1. pending \in Seq(Inputs) /\ written \in Seq(Inputs)
  BY Channels
<1>2. pending' \in Seq(Inputs) /\ written' \in Seq(Inputs)
  BY <1>1, HeadTailProperties, AppendProperties
<1>3. Append(written, Head(pending)) \o Tail(pending) = written \o pending
  BY <1>1, Shift
<1> QED BY <1>2, <1>3 DEF Log, Inputs

(* ... or all of them taken by a begin. *)
LEMMA DrainLog ==
  ASSUME TypeOK, pending' = pending \o data, data' = <<>>, written' = written
  PROVE  Log' = Log /\ pending' \in Seq(1 .. MaxInputs)
<1>1. data \in Seq(Inputs) /\ pending \in Seq(Inputs) /\ written \in Seq(Inputs)
      /\ Log = written \o (pending \o data)
  BY Channels
<1>2. pending \o data \in Seq(Inputs)
  BY <1>1, ConcatProperties
<1>3. written \o (pending \o data) \in Seq(Inputs)
  BY <1>1, <1>2, ConcatProperties
<1>4. (written \o (pending \o data)) \o <<>> = written \o (pending \o data)
  BY <1>3, ConcatEmptySeq
<1> QED BY <1>1, <1>2, <1>4 DEF Log, Inputs
----------------------------------------------------------------------------
(* The slots that are reserved. *)

LEMMA Slots ==
  ASSUME TypeOK, IsFiniteSet(Permits)
  PROVE  Cardinality(Permits) \in Nat /\ Len(data) \in Nat
  BY FS_CardinalityType, LenProperties DEF TypeOK

LEMMA SlotTaken ==
  ASSUME TypeOK, IsFiniteSet(Permits), NEW t \in Tasks,
         task[t] # "permitted", task' = [task EXCEPT ![t] = "permitted"]
  PROVE  IsFiniteSet(Permits') /\ Cardinality(Permits') = Cardinality(Permits) + 1
<1>1. t \notin Permits /\ Permits' = Permits \cup {t}
  BY DEF TypeOK, Permits
<1> QED BY <1>1, FS_AddElement

LEMMA SlotGiven ==
  ASSUME TypeOK, IsFiniteSet(Permits), NEW t \in Tasks,
         task[t] = "permitted", task' = [task EXCEPT ![t] = "idle"]
  PROVE  IsFiniteSet(Permits') /\ Cardinality(Permits') = Cardinality(Permits) - 1
<1>1. t \in Permits /\ Permits' = Permits \ {t}
  BY DEF TypeOK, Permits
<1> QED BY <1>1, FS_RemoveElement

LEMMA SlotsKept ==
  ASSUME TypeOK, NEW t \in Tasks, NEW s \in {"idle", "reserving"},
         task[t] # "permitted", task' = [task EXCEPT ![t] = s]
  PROVE  Permits' = Permits
  BY DEF TypeOK, Permits
----------------------------------------------------------------------------
(* The commands. *)

LEMMA NothingQueued ==
  ASSUME NEW S, NEW q \in Seq(S), Len(q) = 0
  PROVE  q = <<>>
  BY EmptySeq

LEMMA Queued ==
  ASSUME ctl \in Seq(Command), NEW c \in Command, ctl' = Append(ctl, c)
  PROVE  /\ ctl' \in Seq(Command) /\ Len(ctl) \in Nat /\ Len(ctl') = Len(ctl) + 1
         /\ \A i \in 1 .. Len(ctl) : ctl'[i] = ctl[i]
         /\ ctl'[Len(ctl')] = c
  BY AppendProperties, LenProperties

LEMMA Answered ==
  ASSUME ctl \in Seq(Command), ctl # <<>>
  PROVE  /\ Tail(ctl) \in Seq(Command) /\ Len(ctl) \in Nat /\ Len(ctl) >= 1
         /\ Len(Tail(ctl)) = Len(ctl) - 1
         /\ \A i \in 1 .. Len(Tail(ctl)) : Tail(ctl)[i] = ctl[i + 1]
         /\ Head(ctl) = ctl[1] /\ ctl[1] \in Command
         /\ Len(ctl) = 1 => Tail(ctl) = <<>>
<1>1. /\ Tail(ctl) \in Seq(Command) /\ Len(Tail(ctl)) = Len(ctl) - 1
      /\ \A i \in 1 .. Len(Tail(ctl)) : Tail(ctl)[i] = ctl[i + 1]
  BY HeadTailProperties
<1>2. Len(ctl) \in Nat /\ Len(ctl) >= 1
  BY EmptySeq
<1>3. Head(ctl) = ctl[1] /\ ctl[1] \in Command
  BY <1>2, ElementOfSeq
<1>4. Len(ctl) = 1 => Tail(ctl) = <<>>
  <2> DEFINE q == Tail(ctl)
  <2>1. q \in Seq(Command) /\ (Len(ctl) = 1 => Len(q) = 0)
    BY <1>1
  <2> HIDE DEF q
  <2>2. Len(ctl) = 1 => q = <<>>
    BY <2>1, NothingQueued
  <2> QED BY <2>2 DEF q
<1> QED BY <1>1, <1>2, <1>3, <1>4

LEMMA AbandonedCommands ==
  ASSUME ctl \in Seq(Command)
  PROVE  /\ Abandoned \in Seq(Command) /\ Len(Abandoned) = Len(ctl) /\ Len(ctl) \in Nat
         /\ \A i \in 1 .. Len(ctl) : Abandoned[i].op = ctl[i].op /\ Abandoned[i].waited = FALSE
         /\ ctl = <<>> => Abandoned = <<>>
<1>1. Len(ctl) \in Nat /\ \A i \in 1 .. Len(ctl) : ctl[i] \in Command
  BY LenProperties, ElementOfSeq
<1>2. \A i \in 1 .. Len(ctl) : /\ [ctl[i] EXCEPT !.waited = FALSE] \in Command
                               /\ [ctl[i] EXCEPT !.waited = FALSE].op = ctl[i].op
                               /\ [ctl[i] EXCEPT !.waited = FALSE].waited = FALSE
  BY <1>1 DEF Command
<1>3. Abandoned \in Seq(Command) /\ Len(Abandoned) = Len(ctl)
  BY <1>1, <1>2 DEF Abandoned
<1>4. \A i \in 1 .. Len(ctl) : Abandoned[i].op = ctl[i].op /\ Abandoned[i].waited = FALSE
  BY <1>1, <1>2 DEF Abandoned
<1>5. ctl = <<>> => Abandoned = <<>>
  BY <1>3, EmptySeq
<1> QED BY <1>1, <1>3, <1>4, <1>5

(* Steps that neither move an input nor reserve a slot. *)
LEMMA InputKept ==
  ASSUME Inv, UNCHANGED <<task, data, accepted, written, pending>>,
         thread' # "exited" /\ ptyUp' => thread # "exited" /\ ptyUp
  PROVE  /\ task' \in [Tasks -> {"idle", "reserving", "permitted"}]
         /\ accepted' \in 0 .. MaxInputs
         /\ data' \in Seq(1 .. MaxInputs) /\ pending' \in Seq(1 .. MaxInputs)
         /\ written' \in Seq(1 .. MaxInputs)
         /\ Len(data') + Cardinality(Permits') <= BufferSize
         /\ IsFiniteSet(Permits') /\ AcceptedInputSurvives'
<1>1. Permits' = Permits
  BY DEF Permits
<1> QED BY <1>1 DEF Inv, TypeOK, AcceptedInputSurvives

(* Steps that leave the handle, the commands and the thread's state alone. *)
LEMMA ControlKept ==
  ASSUME Inv, UNCHANGED <<accepting, ctl, role, call, reply, begun, state, thread, waited, ptyUp>>
  PROVE  /\ accepting' \in BOOLEAN /\ ptyUp' \in BOOLEAN /\ waited' \in BOOLEAN
         /\ ctl' \in Seq(Command)
         /\ role' \in {"serving", "imported", "paused", "failing", "duplicated", "released"}
         /\ call' \in {"none", "begin", "duplicate", "rollback", "release"}
         /\ reply' \in {"none", "ok", "err"} /\ begun' \in 0 .. MaxHandoffs
         /\ state' \in {"Running", "Quiesced", "Released"}
         /\ thread' \in {"loop", "draining", "exited"}
         /\ CallsHaveRoles' /\ OneIsWaitedFor' /\ AnswersHold' /\ OpenIsIdle' /\ PausedStays'
         /\ Alive' = Alive
<1>1. /\ accepting' \in BOOLEAN /\ ptyUp' \in BOOLEAN /\ waited' \in BOOLEAN
      /\ ctl' \in Seq(Command)
      /\ role' \in {"serving", "imported", "paused", "failing", "duplicated", "released"}
      /\ call' \in {"none", "begin", "duplicate", "rollback", "release"}
      /\ reply' \in {"none", "ok", "err"} /\ begun' \in 0 .. MaxHandoffs
      /\ state' \in {"Running", "Quiesced", "Released"}
      /\ thread' \in {"loop", "draining", "exited"}
  BY DEF Inv, TypeOK
<1>2. CallsHaveRoles' /\ OneIsWaitedFor' /\ AnswersHold' /\ Alive' = Alive
  BY DEF Inv, CallsHaveRoles, OneIsWaitedFor, AnswersHold, Alive
<1>3. OpenIsIdle' /\ PausedStays'
  BY DEF Inv, OpenIsIdle, PausedStays, Alive
<1> QED BY <1>1, <1>2, <1>3
----------------------------------------------------------------------------
(* One lemma for each action: user input, ... *)

LEMMA TryWriteInv == ASSUME Inv, TryWriteUserInput PROVE Inv'
<1> USE DEF Inv
<1>0. /\ accepting /\ thread # "exited" /\ HasRoom /\ accepted < MaxInputs /\ Accept /\ Alive
      /\ UNCHANGED <<accepting, task, ctl, role, call, reply, begun>>
      /\ UNCHANGED <<state, thread, waited, pending, written, ptyUp>>
  BY DEF TryWriteUserInput, handleVars, actorVars, Alive
<1>1. /\ accepted' \in 0 .. MaxInputs /\ data' \in Seq(1 .. MaxInputs)
      /\ Len(data') = Len(data) + 1
      /\ Log = Upto(accepted) => Log' = Upto(accepted')
  BY <1>0, AcceptLog
<1>2. Permits' = Permits
  BY <1>0 DEF Permits
<1>3. Len(data') + Cardinality(Permits') <= BufferSize
  BY <1>0, <1>1, <1>2, Slots DEF HasRoom
<1>4. TypeOK'
  BY <1>0, <1>1, <1>3, ControlKept DEF TypeOK
<1>5. AcceptedInputSurvives'
  BY <1>0, <1>1 DEF AcceptedInputSurvives, Log
<1>6. QuietIsEmpty'
  BY <1>0 DEF QuietIsEmpty, OpenIsIdle, Alive
<1> QED BY <1>0, <1>2, <1>4, <1>5, <1>6, ControlKept

LEMMA TaskStartsInv == ASSUME Inv, NEW t \in Tasks, TaskStarts(t) PROVE Inv'
<1> USE DEF Inv
<1>0. /\ task[t] = "idle" /\ task' = [task EXCEPT ![t] = "reserving"]
      /\ UNCHANGED <<accepting, ctl, role, call, reply, begun, state, thread, waited, ptyUp>>
      /\ UNCHANGED <<data, accepted, pending, written>>
  BY DEF TaskStarts, handleVars, actorVars
<1>1. Permits' = Permits
  BY <1>0, SlotsKept
<1>2. task' \in [Tasks -> {"idle", "reserving", "permitted"}]
  BY <1>0 DEF TypeOK
<1>3. TypeOK'
  BY <1>0, <1>1, <1>2, ControlKept DEF TypeOK
<1>4. AcceptedInputSurvives' /\ QuietIsEmpty'
  BY <1>0 DEF AcceptedInputSurvives, QuietIsEmpty, Alive
<1> QED BY <1>0, <1>1, <1>3, <1>4, ControlKept

LEMMA TaskReservesInv == ASSUME Inv, NEW t \in Tasks, TaskReserves(t) PROVE Inv'
<1> USE DEF Inv
<1>0. /\ task[t] = "reserving"
      /\ \/ HasRoom /\ task' = [task EXCEPT ![t] = "permitted"]
         \/ task' = [task EXCEPT ![t] = "idle"]
      /\ UNCHANGED <<accepting, ctl, role, call, reply, begun, state, thread, waited, ptyUp>>
      /\ UNCHANGED <<data, accepted, pending, written>>
  BY DEF TaskReserves, handleVars, actorVars
<1>1. /\ IsFiniteSet(Permits')
      /\ Len(data') + Cardinality(Permits') <= BufferSize
  <2>1. CASE HasRoom /\ task' = [task EXCEPT ![t] = "permitted"]
    <3>1. IsFiniteSet(Permits') /\ Cardinality(Permits') = Cardinality(Permits) + 1
      BY <1>0, <2>1, SlotTaken
    <3> QED BY <1>0, <2>1, <3>1, Slots DEF HasRoom
  <2>2. CASE task' = [task EXCEPT ![t] = "idle"]
    <3>1. Permits' = Permits
      BY <1>0, <2>2, SlotsKept
    <3> QED BY <1>0, <3>1 DEF TypeOK
  <2> QED BY <1>0, <2>1, <2>2
<1>2. task' \in [Tasks -> {"idle", "reserving", "permitted"}]
  BY <1>0 DEF TypeOK
<1>3. TypeOK'
  BY <1>0, <1>1, <1>2, ControlKept DEF TypeOK
<1>4. AcceptedInputSurvives' /\ QuietIsEmpty'
  BY <1>0 DEF AcceptedInputSurvives, QuietIsEmpty, Alive
<1> QED BY <1>0, <1>1, <1>3, <1>4, ControlKept

LEMMA TaskSendsInv == ASSUME Inv, NEW t \in Tasks, TaskSends(t) PROVE Inv'
<1> USE DEF Inv
<1>0. /\ task[t] = "permitted" /\ task' = [task EXCEPT ![t] = "idle"]
      /\ \/ accepting /\ accepted < MaxInputs /\ Accept
         \/ UNCHANGED <<data, accepted>>
      /\ UNCHANGED <<accepting, ctl, role, call, reply, begun, state, thread, waited, ptyUp>>
      /\ UNCHANGED <<pending, written>>
  BY DEF TaskSends, handleVars, actorVars
<1>1. IsFiniteSet(Permits') /\ Cardinality(Permits') = Cardinality(Permits) - 1
  BY <1>0, SlotGiven
<1>2. task' \in [Tasks -> {"idle", "reserving", "permitted"}]
  BY <1>0 DEF TypeOK
<1>3. /\ accepted' \in 0 .. MaxInputs /\ data' \in Seq(1 .. MaxInputs)
      /\ Len(data') + Cardinality(Permits') <= BufferSize
      /\ AcceptedInputSurvives' /\ QuietIsEmpty'
  <2>1. CASE UNCHANGED <<data, accepted>>
    <3>1. /\ accepted' \in 0 .. MaxInputs /\ data' \in Seq(1 .. MaxInputs)
          /\ Len(data') + Cardinality(Permits') <= BufferSize
      BY <2>1, <1>1, Slots DEF TypeOK
    <3>2. AcceptedInputSurvives' /\ QuietIsEmpty'
      BY <1>0, <2>1 DEF AcceptedInputSurvives, QuietIsEmpty, Alive
    <3> QED BY <3>1, <3>2
  <2>2. CASE accepting /\ accepted < MaxInputs /\ Accept /\ Alive
    <3>1. /\ accepted' \in 0 .. MaxInputs /\ data' \in Seq(1 .. MaxInputs)
          /\ Len(data') = Len(data) + 1
          /\ Log = Upto(accepted) => Log' = Upto(accepted')
      BY <1>0, <2>2, AcceptLog
    <3>2. Len(data') + Cardinality(Permits') <= BufferSize
      BY <1>1, <3>1, Slots DEF TypeOK
    <3>3. AcceptedInputSurvives'
      BY <1>0, <2>2, <3>1 DEF AcceptedInputSurvives, Log
    <3>4. QuietIsEmpty'
      BY <1>0, <2>2 DEF QuietIsEmpty, OpenIsIdle, Alive
    <3> QED BY <3>1, <3>2, <3>3, <3>4
  <2>3. CASE accepted < MaxInputs /\ Accept /\ ~Alive
    <3>1. accepted' = accepted + 1 /\ data' = data
      BY <2>3 DEF Accept, Alive
    <3>2. accepted' \in 0 .. MaxInputs
      BY <2>3, <3>1 DEF TypeOK
    <3>3. data' \in Seq(1 .. MaxInputs) /\ Len(data') + Cardinality(Permits') <= BufferSize
      BY <3>1, <1>1, Slots DEF TypeOK
    <3>4. AcceptedInputSurvives' /\ QuietIsEmpty'
      BY <1>0, <2>3 DEF AcceptedInputSurvives, QuietIsEmpty, Alive
    <3> QED BY <3>2, <3>3, <3>4
  <2> QED BY <1>0, <2>1, <2>2, <2>3
<1>4. TypeOK'
  BY <1>0, <1>2, <1>3, ControlKept DEF TypeOK
<1> QED BY <1>0, <1>1, <1>3, <1>4, ControlKept
----------------------------------------------------------------------------
(* ... the handle's calls, ... *)

(* What a call does to the rest of the invariant, when it is shown that the *)
(* commands, the answer and the role agree.                                 *)
LEMMA HandleInv ==
  ASSUME Inv, UNCHANGED <<task, data, accepted, state, thread, pending, written, ptyUp>>,
         accepting' \in BOOLEAN, waited' \in BOOLEAN, ctl' \in Seq(Command),
         role' \in {"serving", "imported", "paused", "failing", "duplicated", "released"},
         call' \in {"none", "begin", "duplicate", "rollback", "release"},
         reply' \in {"none", "ok", "err"}, begun' \in 0 .. MaxHandoffs,
         CallsHaveRoles', OneIsWaitedFor', AnswersHold', OpenIsIdle', PausedStays'
  PROVE  Inv'
<1>1. TypeOK' /\ IsFiniteSet(Permits') /\ AcceptedInputSurvives'
  <2>1. /\ state' \in {"Running", "Quiesced", "Released"}
        /\ thread' \in {"loop", "draining", "exited"} /\ ptyUp' \in BOOLEAN
    BY DEF Inv, TypeOK
  <2> QED BY <2>1, InputKept DEF TypeOK
<1>2. QuietIsEmpty'
  BY DEF Inv, QuietIsEmpty, Alive
<1> QED BY <1>1, <1>2 DEF Inv

(* A command that is sent is the one that is waited for. *)
LEMMA SendInv ==
  ASSUME Inv, NEW op \in {"begin", "duplicate", "rollback", "release"}, call = "none",
         Send(op, op), UNCHANGED <<state, thread, waited>>
  PROVE  /\ ctl' \in Seq(Command) /\ call' = op /\ reply' = "none" /\ OneIsWaitedFor'
         /\ Len(ctl') = Len(ctl) + 1 /\ Len(ctl) \in Nat /\ Alive /\ Alive'
         /\ \A i \in 1 .. Len(ctl) : ctl'[i].op = ctl[i].op
         /\ ctl'[Len(ctl')].op = op
<1> USE DEF Inv
<1> DEFINE c == [op |-> op, waited |-> TRUE]
<1>0. c \in Command /\ ctl' = Append(ctl, c) /\ call' = op /\ reply' = "none"
      /\ thread # "exited" /\ thread' = thread /\ waited' = waited
  BY DEF Send, Command
<1>1. /\ ctl' \in Seq(Command) /\ Len(ctl) \in Nat /\ Len(ctl') = Len(ctl) + 1
      /\ \A i \in 1 .. Len(ctl) : ctl'[i] = ctl[i]
      /\ ctl'[Len(ctl')] = c
  BY <1>0, Queued DEF TypeOK
<1>2. ~waited /\ \A i \in 1 .. Len(ctl) : ~ctl[i].waited
  <2>1. \A i \in 1 .. Len(ctl) : ctl[i] \in Command
    BY ElementOfSeq DEF TypeOK
  <2> QED BY <1>0, <2>1 DEF OneIsWaitedFor, Alive, TypeOK, Command
<1>3. OneIsWaitedFor'
  BY <1>0, <1>1, <1>2 DEF OneIsWaitedFor, Alive
<1> QED BY <1>0, <1>1, <1>3 DEF Alive

LEMMA BeginHandoffInv == ASSUME Inv, BeginHandoff PROVE Inv'
<1> USE DEF Inv
<1>0. /\ role = "serving" /\ call = "none" /\ begun < MaxHandoffs /\ begun' = begun + 1
      /\ UNCHANGED <<task, data, accepted, state, thread, waited, pending, written, ptyUp, role>>
      /\ \/ Send("begin", "begin") /\ accepting' = FALSE
         \/ thread = "exited" /\ accepting' = TRUE /\ UNCHANGED <<ctl, call, reply>>
  BY DEF BeginHandoff, Closed, actorVars
<1>1. begun' \in 0 .. MaxHandoffs
  BY <1>0 DEF TypeOK
<1>2. CASE Send("begin", "begin") /\ accepting' = FALSE
  <2>1. ctl' \in Seq(Command) /\ call' = "begin" /\ reply' = "none" /\ OneIsWaitedFor'
    BY <1>0, <1>2, SendInv
  <2>2. CallsHaveRoles' /\ AnswersHold' /\ OpenIsIdle' /\ PausedStays'
    BY <1>0, <1>2, <2>1 DEF CallsHaveRoles, AnswersHold, OpenIsIdle, PausedStays, Alive
  <2> QED BY <1>0, <1>1, <1>2, <2>1, <2>2, HandleInv DEF TypeOK
<1>3. CASE thread = "exited" /\ accepting' = TRUE /\ UNCHANGED <<ctl, call, reply>>
  <2>1. CallsHaveRoles' /\ OneIsWaitedFor' /\ AnswersHold' /\ OpenIsIdle' /\ PausedStays'
    BY <1>0, <1>3
    DEF CallsHaveRoles, OneIsWaitedFor, AnswersHold, OpenIsIdle, PausedStays, Alive
  <2> QED BY <1>0, <1>1, <1>3, <2>1, HandleInv DEF TypeOK
<1> QED BY <1>0, <1>2, <1>3

LEMMA BeginAnsweredInv == ASSUME Inv, BeginAnswered PROVE Inv'
<1> USE DEF Inv
<1>0. /\ call = "begin" /\ reply = "ok" /\ call' = "none" /\ reply' = "none" /\ role' = "paused"
      /\ UNCHANGED <<begun, accepting, task, data, accepted, ctl, state, thread, waited, pending,
                     written, ptyUp>>
  BY DEF BeginAnswered, inputVars, actorVars
<1>1. Alive => ctl = <<>> /\ ~waited /\ thread = "loop" /\ state = "Quiesced"
  BY <1>0 DEF OneIsWaitedFor, AnswersHold, TypeOK
<1>2. Alive' = Alive /\ (ctl = <<>> => Len(ctl) = 0)
  BY <1>0, EmptySeq DEF Alive
<1>3. OneIsWaitedFor' /\ CallsHaveRoles' /\ AnswersHold'
  BY <1>0, <1>1, <1>2 DEF OneIsWaitedFor, CallsHaveRoles, AnswersHold
<1>4. PausedStays'
  BY <1>0, <1>1, <1>2 DEF PausedStays
<1>5. OpenIsIdle'
  BY <1>0, <1>2 DEF OpenIsIdle
<1> QED BY <1>0, <1>3, <1>4, <1>5, HandleInv DEF TypeOK

(* Between calls nothing is waited for. *)
LEMMA NothingWaited ==
  ASSUME Inv, Alive, call = "none"
  PROVE  ~waited /\ reply = "none" /\ \A i \in 1 .. Len(ctl) : ~ctl[i].waited
<1>1. \A i \in 1 .. Len(ctl) : ctl[i] \in Command
  BY ElementOfSeq DEF Inv, TypeOK
<1> QED BY <1>1 DEF Inv, OneIsWaitedFor, CallsHaveRoles, TypeOK, Command

(* A call that ends, whatever its answer was, leaves nothing waited for. *)
LEMMA EndsInv ==
  ASSUME Inv, call \notin {"none", "begin"}, ctl' = Abandoned, call' = "none", reply' = "none",
         UNCHANGED <<thread, waited>>
  PROVE  ctl' \in Seq(Command) /\ OneIsWaitedFor' /\ AnswersHold' /\ Alive' = Alive
<1> USE DEF Inv
<1>1. /\ ctl' \in Seq(Command) /\ Len(ctl') = Len(ctl)
      /\ \A i \in 1 .. Len(ctl) : ctl'[i].op = ctl[i].op /\ ctl'[i].waited = FALSE
  BY AbandonedCommands DEF TypeOK
<1>2. Alive => ~waited
  BY DEF OneIsWaitedFor, TypeOK
<1>3. OneIsWaitedFor' /\ AnswersHold'
  BY <1>1, <1>2 DEF OneIsWaitedFor, AnswersHold, Alive
<1> QED BY <1>1, <1>3 DEF Alive

LEMMA BeginFailsInv == ASSUME Inv, BeginFails PROVE Inv'
<1> USE DEF Inv
<1> DEFINE c == [op |-> "rollback", waited |-> TRUE]
<1>0. /\ call = "begin" /\ reply # "ok" /\ waited' = FALSE /\ reply' = "none"
      /\ UNCHANGED <<role, begun, accepting, task, data, accepted, state, thread, pending,
                     written, ptyUp>>
      /\ \/ ~Alive /\ call' = "none" /\ ctl' = ctl
         \/ Alive /\ call' = "rollback" /\ ctl' = Append(Abandoned, c)
  BY DEF BeginFails, Closed, Alive, inputVars
<1>1. role = "serving" /\ Alive' = Alive
  BY <1>0 DEF CallsHaveRoles, Alive
<1>2. ctl' \in Seq(Command) /\ OneIsWaitedFor'
  <2>1. CASE ~Alive /\ ctl' = ctl
    BY <2>1, <1>1 DEF TypeOK, OneIsWaitedFor
  <2>2. CASE Alive /\ call' = "rollback" /\ ctl' = Append(Abandoned, c)
    <3>1. /\ Abandoned \in Seq(Command) /\ Len(Abandoned) \in Nat
          /\ \A i \in 1 .. Len(Abandoned) : ~Abandoned[i].waited
      BY AbandonedCommands DEF TypeOK
    <3>2. c \in Command
      BY DEF Command
    <3>3. /\ ctl' \in Seq(Command) /\ Len(ctl') = Len(Abandoned) + 1
          /\ \A i \in 1 .. Len(Abandoned) : ctl'[i] = Abandoned[i]
          /\ ctl'[Len(Abandoned) + 1] = c
      BY <2>2, <3>1, <3>2, AppendProperties
    <3>4. OneIsWaitedFor'
      BY <1>0, <2>2, <3>1, <3>3 DEF OneIsWaitedFor
    <3> QED BY <3>3, <3>4
  <2> QED BY <1>0, <2>1, <2>2
<1>3. CallsHaveRoles' /\ AnswersHold' /\ PausedStays'
  BY <1>0, <1>1 DEF CallsHaveRoles, AnswersHold, PausedStays
<1>4. OpenIsIdle'
  BY <1>0, <1>1 DEF OpenIsIdle
<1> QED BY <1>0, <1>2, <1>3, <1>4, HandleInv DEF TypeOK

LEMMA RollbackHandoffInv == ASSUME Inv, RollbackHandoff PROVE Inv'
<1> USE DEF Inv
<1>0. /\ role # "serving" /\ call = "none" /\ role' = "serving"
      /\ Send("rollback", "rollback") \/ (~Alive /\ UNCHANGED <<ctl, call, reply>>)
      /\ UNCHANGED <<begun, accepting, task, data, accepted, state, thread, waited, pending,
                     written, ptyUp>>
  BY DEF RollbackHandoff, Closed, Alive, inputVars, actorVars
<1>1. /\ ctl' \in Seq(Command) /\ OneIsWaitedFor' /\ reply' = "none" /\ Alive' = Alive
      /\ call' \in {"none", "rollback"}
  <2>1. CASE Send("rollback", "rollback")
    BY <1>0, <2>1, SendInv DEF Alive
  <2>2. CASE ~Alive /\ UNCHANGED <<ctl, call, reply>>
    BY <1>0, <2>2 DEF OneIsWaitedFor, TypeOK, Alive, CallsHaveRoles
  <2> QED BY <1>0, <2>1, <2>2
<1>2. CallsHaveRoles' /\ AnswersHold' /\ PausedStays' /\ OpenIsIdle'
  BY <1>0, <1>1 DEF CallsHaveRoles, AnswersHold, PausedStays, OpenIsIdle
<1> QED BY <1>0, <1>1, <1>2, HandleInv DEF TypeOK

LEMMA RollbackEndsInv == ASSUME Inv, RollbackEnds PROVE Inv'
<1> USE DEF Inv
<1>0. /\ call = "rollback" /\ accepting' = (accepting \/ reply = "ok")
      /\ ctl' = Abandoned /\ call' = "none" /\ reply' = "none"
      /\ UNCHANGED <<role, begun, task, data, accepted, state, thread, waited, pending,
                     written, ptyUp>>
  BY DEF RollbackEnds, actorVars
<1>1. ctl' \in Seq(Command) /\ OneIsWaitedFor' /\ AnswersHold' /\ Alive' = Alive
  BY <1>0, EndsInv
<1>2. role = "serving" /\ (ctl = <<>> => ctl' = <<>>)
  BY <1>0, AbandonedCommands DEF CallsHaveRoles, TypeOK
<1>3. accepting' \in BOOLEAN
  BY <1>0 DEF TypeOK
<1>4. OpenIsIdle'
  <2>1. CASE reply = "ok"
    BY <1>0, <1>1, <1>2, <2>1 DEF OpenIsIdle, OneIsWaitedFor, AnswersHold
  <2>2. CASE reply # "ok"
    BY <1>0, <1>1, <1>2, <2>2 DEF OpenIsIdle
  <2> QED BY <2>1, <2>2
<1>5. CallsHaveRoles' /\ PausedStays'
  BY <1>0, <1>2 DEF CallsHaveRoles, PausedStays
<1> QED BY <1>0, <1>1, <1>3, <1>4, <1>5, HandleInv DEF TypeOK

LEMMA DuplicateForHandoffInv == ASSUME Inv, DuplicateForHandoff PROVE Inv'
<1> USE DEF Inv
<1>0. /\ role = "paused" /\ call = "none" /\ Send("duplicate", "duplicate")
      /\ UNCHANGED <<role, begun, accepting, task, data, accepted, state, thread, waited,
                     pending, written, ptyUp>>
  BY DEF DuplicateForHandoff, inputVars, actorVars
<1>1. /\ ctl' \in Seq(Command) /\ call' = "duplicate" /\ reply' = "none" /\ OneIsWaitedFor'
      /\ Len(ctl') = Len(ctl) + 1 /\ Len(ctl) \in Nat /\ Alive /\ Alive'
      /\ \A i \in 1 .. Len(ctl) : ctl'[i].op = ctl[i].op
      /\ ctl'[Len(ctl')].op = "duplicate"
  BY <1>0, SendInv
<1>2. PausedStays'
  BY <1>0, <1>1 DEF PausedStays
<1>3. CallsHaveRoles' /\ AnswersHold' /\ OpenIsIdle'
  BY <1>0, <1>1 DEF CallsHaveRoles, AnswersHold, OpenIsIdle
<1> QED BY <1>0, <1>1, <1>2, <1>3, HandleInv DEF TypeOK

LEMMA DuplicateEndsInv == ASSUME Inv, DuplicateEnds PROVE Inv'
<1> USE DEF Inv
<1>0. /\ call = "duplicate" /\ role' = IF reply = "ok" THEN "duplicated" ELSE "failing"
      /\ ctl' = Abandoned /\ call' = "none" /\ reply' = "none"
      /\ UNCHANGED <<begun, accepting, task, data, accepted, state, thread, waited, pending,
                     written, ptyUp>>
  BY DEF DuplicateEnds, inputVars, actorVars
<1>1. ctl' \in Seq(Command) /\ OneIsWaitedFor' /\ AnswersHold' /\ Alive' = Alive
  BY <1>0, EndsInv
<1>2. role = "paused" /\ Len(ctl') = Len(ctl) /\ \A i \in 1 .. Len(ctl) : ctl'[i].op = ctl[i].op
  BY <1>0, AbandonedCommands DEF CallsHaveRoles, TypeOK
<1>3. PausedStays'
  BY <1>0, <1>1, <1>2 DEF PausedStays
<1>4. CallsHaveRoles' /\ OpenIsIdle'
  BY <1>0, <1>1, <1>2 DEF CallsHaveRoles, OpenIsIdle
<1> QED BY <1>0, <1>1, <1>3, <1>4, HandleInv DEF TypeOK

LEMMA ReleaseAfterCommitInv == ASSUME Inv, ReleaseAfterCommit PROVE Inv'
<1> USE DEF Inv
<1>0. /\ call = "none" /\ accepting' = FALSE /\ role' = "released"
      /\ Send("release", "release") \/ (~Alive /\ UNCHANGED <<ctl, call, reply>>)
      /\ UNCHANGED <<begun, task, data, accepted, state, thread, waited, pending, written, ptyUp>>
  BY DEF ReleaseAfterCommit, Closed, Alive, actorVars
<1>1. /\ ctl' \in Seq(Command) /\ OneIsWaitedFor' /\ reply' = "none" /\ Alive' = Alive
      /\ call' \in {"none", "release"}
  <2>1. CASE Send("release", "release")
    BY <1>0, <2>1, SendInv DEF Alive
  <2>2. CASE ~Alive /\ UNCHANGED <<ctl, call, reply>>
    BY <1>0, <2>2 DEF OneIsWaitedFor, TypeOK, Alive, CallsHaveRoles
  <2> QED BY <1>0, <2>1, <2>2
<1>2. CallsHaveRoles' /\ AnswersHold' /\ PausedStays' /\ OpenIsIdle'
  BY <1>0, <1>1 DEF CallsHaveRoles, AnswersHold, PausedStays, OpenIsIdle
<1> QED BY <1>0, <1>1, <1>2, HandleInv DEF TypeOK

LEMMA ReleaseEndsInv == ASSUME Inv, ReleaseEnds PROVE Inv'
<1> USE DEF Inv
<1>0. /\ call = "release" /\ ctl' = Abandoned /\ call' = "none" /\ reply' = "none"
      /\ UNCHANGED <<role, begun, accepting, task, data, accepted, state, thread, waited,
                     pending, written, ptyUp>>
  BY DEF ReleaseEnds, inputVars, actorVars
<1>1. ctl' \in Seq(Command) /\ OneIsWaitedFor' /\ AnswersHold' /\ Alive' = Alive
  BY <1>0, EndsInv
<1>2. role = "released"
  BY <1>0 DEF CallsHaveRoles
<1>3. CallsHaveRoles' /\ PausedStays' /\ OpenIsIdle'
  BY <1>0, <1>1, <1>2 DEF CallsHaveRoles, PausedStays, OpenIsIdle
<1> QED BY <1>0, <1>1, <1>3, HandleInv DEF TypeOK

LEMMA ShutdownInv == ASSUME Inv, Shutdown PROVE Inv'
<1> USE DEF Inv
<1> DEFINE c == [op |-> "shutdown", waited |-> FALSE]
<1>0. /\ call = "none" /\ accepting' = FALSE /\ role' = "released"
      /\ ctl' = (IF ~Alive THEN ctl ELSE Append(ctl, c))
      /\ UNCHANGED <<call, reply, begun, task, data, accepted, state, thread, waited, pending,
                     written, ptyUp>>
  BY DEF Shutdown, Closed, Alive, actorVars
<1>1. ctl' \in Seq(Command) /\ OneIsWaitedFor' /\ Alive' = Alive
  <2>1. CASE ~Alive
    BY <1>0, <2>1 DEF OneIsWaitedFor, Alive, TypeOK
  <2>2. CASE Alive
    <3>1. c \in Command
      BY DEF Command
    <3>2. /\ ctl' \in Seq(Command) /\ Len(ctl) \in Nat /\ Len(ctl') = Len(ctl) + 1
          /\ \A i \in 1 .. Len(ctl) : ctl'[i] = ctl[i]
          /\ ctl'[Len(ctl')] = c
      BY <1>0, <2>2, <3>1, Queued DEF TypeOK
    <3>3. ~waited /\ reply = "none" /\ \A i \in 1 .. Len(ctl) : ~ctl[i].waited
      BY <1>0, <2>2, NothingWaited
    <3>4. OneIsWaitedFor'
      BY <1>0, <3>2, <3>3 DEF OneIsWaitedFor
    <3> QED BY <1>0, <3>2, <3>4 DEF Alive
  <2> QED BY <2>1, <2>2
<1>2. CallsHaveRoles' /\ AnswersHold' /\ PausedStays' /\ OpenIsIdle'
  BY <1>0, <1>1 DEF CallsHaveRoles, AnswersHold, PausedStays, OpenIsIdle
<1> QED BY <1>0, <1>1, <1>2, HandleInv DEF TypeOK
----------------------------------------------------------------------------
(* ... and the thread. *)

(* The thread is gone: what was queued or pending is lost with it. *)
LEMMA ExitInv ==
  ASSUME Inv, thread' = "exited", pending' = <<>>, data' = <<>>,
         UNCHANGED <<accepting, task, accepted, role, call, begun, waited, written, ptyUp>>,
         ctl' \in Seq(Command), reply' \in {"none", "ok", "err"},
         state' \in {"Running", "Quiesced", "Released"}, call = "none" => reply' = "none"
  PROVE  Inv'
<1> USE DEF Inv
<1>1. Permits' = Permits
  BY DEF Permits
<1>2. data' \in Seq(1 .. MaxInputs) /\ pending' \in Seq(1 .. MaxInputs)
      /\ Len(data') + Cardinality(Permits') <= BufferSize
  BY <1>1, Slots, EmptySeq DEF TypeOK
<1>3. TypeOK'
  BY <1>2 DEF TypeOK
<1>4. CallsHaveRoles'
  BY DEF CallsHaveRoles
<1>5. AcceptedInputSurvives' /\ OneIsWaitedFor' /\ AnswersHold' /\ OpenIsIdle' /\ QuietIsEmpty'
      /\ PausedStays'
  BY DEF AcceptedInputSurvives, OneIsWaitedFor, AnswersHold, OpenIsIdle, QuietIsEmpty,
         PausedStays, Alive
<1> QED BY <1>1, <1>3, <1>4, <1>5

(* What is known of a command when it is taken. *)
LEMMA Taken ==
  ASSUME Inv, thread = "loop", ctl # <<>>, ctl' = Tail(ctl)
  PROVE  /\ ctl' \in Seq(Command) /\ Len(ctl') \in Nat
         /\ Head(ctl).waited \in BOOLEAN /\ ~waited /\ reply = "none" /\ ~accepting /\ Alive
         /\ Head(ctl).waited => Head(ctl).op = call /\ ctl' = <<>> /\ Len(ctl') = 0
         /\ \A i \in 1 .. Len(ctl') : ctl'[i].waited => i = Len(ctl') /\ ctl'[i].op = call
         /\ role \in {"paused", "duplicated"} =>
              Head(ctl).op = "duplicate" /\ \A i \in 1 .. Len(ctl') : ctl'[i].op = "duplicate"
<1> USE DEF Inv
<1>1. /\ ctl' \in Seq(Command) /\ Len(ctl) \in Nat /\ Len(ctl) >= 1
      /\ Len(ctl') = Len(ctl) - 1
      /\ \A i \in 1 .. Len(ctl') : ctl'[i] = ctl[i + 1]
      /\ Head(ctl) = ctl[1] /\ ctl[1] \in Command
      /\ Len(ctl) = 1 => ctl' = <<>>
  BY Answered DEF TypeOK
<1>2. ~waited /\ reply = "none" /\ ~accepting /\ Alive
  BY DEF OneIsWaitedFor, OpenIsIdle, TypeOK, Alive
<1>3. \A i \in 1 .. Len(ctl) : ctl[i].waited => i = Len(ctl) /\ ctl[i].op = call
  BY <1>2 DEF OneIsWaitedFor
<1>4. 1 \in 1 .. Len(ctl) /\ Len(ctl') \in Nat
      /\ (Len(ctl) = 1 => Len(ctl') = 0)
  BY <1>1
<1>5. Head(ctl).waited \in BOOLEAN
  BY <1>1 DEF Command
<1>6. Head(ctl).waited => Head(ctl).op = call /\ ctl' = <<>> /\ Len(ctl') = 0
  BY <1>1, <1>3, <1>4
<1>7. \A i \in 1 .. Len(ctl') : i + 1 \in 1 .. Len(ctl) /\ (i + 1 = Len(ctl) => i = Len(ctl'))
  <2> DEFINE n == Len(ctl)
             m == Len(ctl')
  <2>1. n \in Nat /\ m = n - 1
    BY <1>1
  <2> HIDE DEF n, m
  <2>2. \A i \in 1 .. m : i + 1 \in 1 .. n /\ (i + 1 = n => i = m)
    BY <2>1
  <2> QED BY <2>2 DEF n, m
<1>8. \A i \in 1 .. Len(ctl') : ctl'[i].waited => i = Len(ctl') /\ ctl'[i].op = call
  <2> TAKE i \in 1 .. Len(ctl')
  <2>1. ctl'[i] = ctl[i + 1] /\ i + 1 \in 1 .. Len(ctl) /\ (i + 1 = Len(ctl) => i = Len(ctl'))
    BY <1>1, <1>7
  <2> QED BY <1>3, <2>1
<1>9. role \in {"paused", "duplicated"} =>
        Head(ctl).op = "duplicate" /\ \A i \in 1 .. Len(ctl') : ctl'[i].op = "duplicate"
  <2> HAVE role \in {"paused", "duplicated"}
  <2>1. \A i \in 1 .. Len(ctl) : ctl[i].op = "duplicate"
    BY <1>2 DEF PausedStays
  <2>2. \A i \in 1 .. Len(ctl') : ctl'[i].op = "duplicate"
    BY <1>1, <1>7, <2>1
  <2> QED BY <1>1, <1>4, <2>1, <2>2
<1> QED BY <1>1, <1>2, <1>4, <1>5, <1>6, <1>8, <1>9

LEMMA TakesControlInv == ASSUME Inv, ActorTakesControl PROVE Inv'
<1> USE DEF Inv
<1> DEFINE op == Head(ctl).op
           w  == Head(ctl).waited
<1>0. /\ thread = "loop" /\ ctl # <<>> /\ ctl' = Tail(ctl)
      /\ UNCHANGED <<accepting, task, accepted, role, call, begun, written, ptyUp>>
  BY DEF ActorTakesControl
<1>1. /\ ctl' \in Seq(Command) /\ Len(ctl') \in Nat
      /\ w \in BOOLEAN /\ ~waited /\ reply = "none" /\ ~accepting /\ Alive
      /\ w => op = call /\ ctl' = <<>> /\ Len(ctl') = 0
      /\ \A i \in 1 .. Len(ctl') : ctl'[i].waited => i = Len(ctl') /\ ctl'[i].op = call
      /\ role \in {"paused", "duplicated"} =>
           op = "duplicate" /\ \A i \in 1 .. Len(ctl') : ctl'[i].op = "duplicate"
  BY <1>0, Taken
<1>2. \/ op = "begin" /\ BeginDrain(w)
      \/ /\ op = "duplicate" /\ Answer(w, IF state = "Quiesced" THEN "ok" ELSE "err")
         /\ UNCHANGED <<state, thread, waited, pending, data>>
      \/ /\ op = "rollback" /\ state' = "Running" /\ Answer(w, "ok")
         /\ UNCHANGED <<thread, waited, pending, data>>
      \/ /\ op = "release" /\ state' = "Released" /\ pending' = <<>> /\ Answer(w, "ok")
         /\ thread' = "exited" /\ data' = <<>> /\ UNCHANGED waited
      \/ /\ op = "shutdown" /\ thread' = "exited" /\ pending' = <<>> /\ data' = <<>>
         /\ UNCHANGED <<state, waited, reply>>
  BY DEF ActorTakesControl
<1> HIDE DEF op, w
<1>3. OpenIsIdle'
  BY <1>0, <1>1 DEF OpenIsIdle
<1>4. CASE op = "begin" /\ BeginDrain(w)
  <2>1. /\ thread' = "draining" /\ waited' = w /\ pending' = pending \o data /\ data' = <<>>
        /\ UNCHANGED <<state, reply>>
    BY <1>4 DEF BeginDrain
  <2>2. Log' = Log /\ pending' \in Seq(1 .. MaxInputs) /\ data' \in Seq(1 .. MaxInputs)
    BY <1>0, <2>1, DrainLog
  <2>3. Permits' = Permits
    BY <1>0 DEF Permits
  <2>4. Len(data') + Cardinality(Permits') <= BufferSize
    BY <2>1, <2>3, Slots, EmptySeq DEF TypeOK
  <2>5. TypeOK'
    BY <1>0, <1>1, <2>1, <2>2, <2>4 DEF TypeOK
  <2>6. AcceptedInputSurvives'
    BY <1>0, <2>1, <2>2 DEF AcceptedInputSurvives, Log
  <2>7. CallsHaveRoles' /\ AnswersHold' /\ PausedStays'
    BY <1>0, <1>1, <1>4, <2>1 DEF CallsHaveRoles, AnswersHold, PausedStays
  <2>8. OneIsWaitedFor'
    BY <1>0, <1>1, <1>4, <2>1 DEF OneIsWaitedFor
  <2>9. QuietIsEmpty'
    <3>1. state # "Released" /\ (state = "Quiesced" => pending = <<>> /\ data = <<>>)
      BY <1>1 DEF QuietIsEmpty
    <3>2. <<>> \o <<>> = <<>>
      BY ConcatEmptySeq, EmptySeq
    <3> QED BY <2>1, <3>1, <3>2 DEF QuietIsEmpty
  <2> QED BY <1>3, <2>3, <2>5, <2>6, <2>7, <2>8, <2>9
<1>5. CASE /\ op \in {"duplicate", "rollback"} /\ UNCHANGED <<thread, waited, pending, data>>
           /\ reply' = (IF w THEN IF op = "duplicate" /\ state # "Quiesced" THEN "err" ELSE "ok"
                             ELSE reply)
           /\ state' = IF op = "rollback" THEN "Running" ELSE state
  <2>1. TypeOK' /\ IsFiniteSet(Permits') /\ AcceptedInputSurvives'
    BY <1>0, <1>1, <1>5, InputKept DEF TypeOK
  <2>2. OneIsWaitedFor'
    BY <1>0, <1>1, <1>5 DEF OneIsWaitedFor
  <2>3. CallsHaveRoles'
    BY <1>0, <1>1, <1>5 DEF CallsHaveRoles
  <2>4. AnswersHold'
    BY <1>0, <1>1, <1>5 DEF AnswersHold
  <2>5. QuietIsEmpty'
    BY <1>0, <1>1, <1>5 DEF QuietIsEmpty
  <2>6. PausedStays'
    BY <1>0, <1>1, <1>5 DEF PausedStays
  <2> QED BY <1>3, <2>1, <2>2, <2>3, <2>4, <2>5, <2>6
<1>6. CASE /\ op \in {"release", "shutdown"} /\ thread' = "exited" /\ pending' = <<>>
           /\ data' = <<>> /\ UNCHANGED waited /\ state' \in {state, "Released"}
           /\ reply' \in {reply, IF w THEN "ok" ELSE reply}
  BY <1>0, <1>1, <1>6, ExitInv DEF TypeOK
<1>7. \/ op = "begin" /\ BeginDrain(w)
      \/ /\ op \in {"duplicate", "rollback"} /\ UNCHANGED <<thread, waited, pending, data>>
         /\ reply' = (IF w THEN IF op = "duplicate" /\ state # "Quiesced" THEN "err" ELSE "ok"
                           ELSE reply)
         /\ state' = IF op = "rollback" THEN "Running" ELSE state
      \/ /\ op \in {"release", "shutdown"} /\ thread' = "exited" /\ pending' = <<>>
         /\ data' = <<>> /\ UNCHANGED waited /\ state' \in {state, "Released"}
         /\ reply' \in {reply, IF w THEN "ok" ELSE reply}
  BY <1>2 DEF Answer
<1> QED BY <1>4, <1>5, <1>6, <1>7

LEMMA TakesDataInv == ASSUME Inv, ActorTakesData PROVE Inv'
<1> USE DEF Inv
<1>0. /\ thread = "loop" /\ data # <<>> /\ data' = Tail(data)
      /\ pending' = (IF state = "Running" THEN Append(pending, Head(data)) ELSE pending)
      /\ UNCHANGED <<accepting, ctl, role, call, reply, begun, state, thread, waited, ptyUp>>
      /\ UNCHANGED <<task, accepted, written>>
  BY DEF ActorTakesData, handleVars
<1>1. state = "Running" /\ pending' = Append(pending, Head(data))
  BY <1>0 DEF QuietIsEmpty, TypeOK, Alive
<1>2. Log' = Log /\ pending' \in Seq(1 .. MaxInputs)
  BY <1>0, <1>1, TakeLog
<1>3. data' \in Seq(1 .. MaxInputs) /\ Len(data') = Len(data) - 1 /\ Permits' = Permits
  BY <1>0, HeadTailProperties DEF TypeOK, Permits
<1>4. Len(data') + Cardinality(Permits') <= BufferSize
  BY <1>3, Slots DEF TypeOK
<1>5. TypeOK'
  BY <1>0, <1>2, <1>3, <1>4, ControlKept DEF TypeOK
<1>6. AcceptedInputSurvives' /\ QuietIsEmpty'
  BY <1>0, <1>1, <1>2 DEF AcceptedInputSurvives, Log, QuietIsEmpty, Alive
<1> QED BY <1>0, <1>3, <1>5, <1>6, ControlKept

LEMMA WritesInv == ASSUME Inv, ActorWrites PROVE Inv'
<1> USE DEF Inv
<1>0. /\ thread # "exited" /\ pending # <<>>
      /\ \/ ptyUp /\ written' = Append(written, Head(pending)) /\ pending' = Tail(pending)
         \/ ~ptyUp /\ pending' = <<>> /\ written' = written
      /\ UNCHANGED <<accepting, ctl, role, call, reply, begun, state, thread, waited, ptyUp>>
      /\ UNCHANGED <<task, data, accepted>>
  BY DEF ActorWrites, inputVars, handleVars
<1>1. /\ pending' \in Seq(1 .. MaxInputs) /\ written' \in Seq(1 .. MaxInputs)
      /\ AcceptedInputSurvives'
  <2>1. CASE ptyUp /\ written' = Append(written, Head(pending)) /\ pending' = Tail(pending)
    <3>1. Log' = Log /\ pending' \in Seq(1 .. MaxInputs) /\ written' \in Seq(1 .. MaxInputs)
      BY <1>0, <2>1, WriteLog
    <3> QED BY <1>0, <2>1, <3>1 DEF AcceptedInputSurvives, Log
  <2>2. CASE ~ptyUp /\ pending' = <<>> /\ written' = written
    BY <1>0, <2>2, EmptySeq DEF TypeOK, AcceptedInputSurvives
  <2> QED BY <1>0, <2>1, <2>2
<1>2. Permits' = Permits
  BY <1>0 DEF Permits
<1>3. TypeOK'
  BY <1>0, <1>1, <1>2, ControlKept DEF TypeOK
<1>4. QuietIsEmpty'
  BY <1>0 DEF QuietIsEmpty, Alive
<1> QED BY <1>0, <1>1, <1>2, <1>3, <1>4, ControlKept

(* The end of a begin, whether it has quiesced the thread or failed to. *)
LEMMA DrainEndsInv == ASSUME Inv, ActorQuiesces \/ ActorFailsToQuiesce PROVE Inv'
<1> USE DEF Inv
<1> DEFINE a == IF pending = <<>> THEN "ok" ELSE "err"
<1>0. /\ thread = "draining" /\ thread' = "loop" /\ waited' = FALSE
      /\ reply' = (IF waited THEN a ELSE reply)
      /\ state' = (IF pending = <<>> THEN "Quiesced" ELSE state)
      /\ UNCHANGED <<accepting, task, data, accepted, ctl, role, call, begun, pending, written,
                     ptyUp>>
  BY DEF ActorQuiesces, ActorFailsToQuiesce, Answer, inputVars
<1>1. /\ Alive /\ ~accepting /\ role \notin {"paused", "duplicated"}
      /\ data = <<>> /\ state # "Released"
      /\ waited => call = "begin" /\ reply = "none" /\ ctl = <<>>
      /\ reply # "none" => ctl = <<>>
  BY <1>0 DEF Alive, OpenIsIdle, PausedStays, QuietIsEmpty, OneIsWaitedFor
<1>2. TypeOK' /\ IsFiniteSet(Permits') /\ AcceptedInputSurvives'
  BY <1>0, InputKept DEF TypeOK
<1>3. OpenIsIdle' /\ PausedStays' /\ QuietIsEmpty'
  BY <1>0, <1>1 DEF OpenIsIdle, PausedStays, QuietIsEmpty, Alive
<1>4. OneIsWaitedFor'
  <2>1. ctl = <<>> => Len(ctl) = 0
    BY EmptySeq
  <2> QED BY <1>0, <1>1, <2>1 DEF OneIsWaitedFor, Alive, TypeOK
<1>5. CallsHaveRoles'
  BY <1>0, <1>1 DEF CallsHaveRoles
<1>6. AnswersHold'
  BY <1>0, <1>1 DEF AnswersHold, Alive
<1> QED BY <1>2, <1>3, <1>4, <1>5, <1>6

LEMMA ExitsInv == ASSUME Inv, ActorExits PROVE Inv'
<1> USE DEF Inv
<1>0. /\ thread' = "exited" /\ pending' = <<>> /\ data' = <<>> /\ ctl' = <<>>
      /\ UNCHANGED <<accepting, task, accepted, role, call, reply, begun, state, waited, written,
                     ptyUp>>
  BY DEF ActorExits, handleVars
<1>1. /\ ctl' \in Seq(Command) /\ reply' \in {"none", "ok", "err"}
      /\ state' \in {"Running", "Quiesced", "Released"} /\ (call = "none" => reply' = "none")
  BY <1>0, EmptySeq DEF TypeOK, CallsHaveRoles
<1> QED BY <1>0, <1>1, ExitInv

LEMMA PtyClosesInv == ASSUME Inv, PtyCloses PROVE Inv'
<1> USE DEF Inv
<1>0. /\ ptyUp' = FALSE
      /\ UNCHANGED <<accepting, ctl, role, call, reply, begun, state, thread, waited>>
      /\ UNCHANGED <<task, data, accepted, pending, written>>
  BY DEF PtyCloses, inputVars, handleVars, actorVars
<1>1. /\ task' \in [Tasks -> {"idle", "reserving", "permitted"}]
      /\ accepted' \in 0 .. MaxInputs
      /\ data' \in Seq(1 .. MaxInputs) /\ pending' \in Seq(1 .. MaxInputs)
      /\ written' \in Seq(1 .. MaxInputs)
      /\ Len(data') + Cardinality(Permits') <= BufferSize
      /\ IsFiniteSet(Permits') /\ AcceptedInputSurvives'
  BY <1>0, InputKept
<1>2. CallsHaveRoles' /\ OneIsWaitedFor' /\ AnswersHold' /\ QuietIsEmpty'
  BY <1>0 DEF CallsHaveRoles, OneIsWaitedFor, AnswersHold, QuietIsEmpty, Alive
<1>3. OpenIsIdle' /\ PausedStays'
  BY <1>0 DEF OpenIsIdle, PausedStays, Alive
<1>4. TypeOK'
  BY <1>0, <1>1 DEF TypeOK
<1> QED BY <1>1, <1>2, <1>3, <1>4
----------------------------------------------------------------------------
LEMMA InvInit == Init => Inv
<1> SUFFICES ASSUME Init PROVE Inv
  OBVIOUS
<1>0. /\ accepting \in BOOLEAN /\ task = [t \in Tasks |-> "idle"] /\ data = <<>> /\ ctl = <<>>
      /\ call = "none" /\ reply = "none" /\ begun = 0 /\ thread = "loop" /\ waited = FALSE
      /\ pending = <<>> /\ accepted = 0 /\ written = <<>> /\ ptyUp = TRUE
      /\ Len(ctl) = 0 /\ Len(data) = 0
      /\ \/ role = "serving" /\ accepting = TRUE /\ state = "Running"
         \/ role = "imported" /\ accepting = FALSE /\ state = "Quiesced"
  BY EmptySeq DEF Init
<1>1. Permits = {}
  BY <1>0 DEF Permits
<1>2. IsFiniteSet(Permits) /\ Len(data) + Cardinality(Permits) <= BufferSize
  BY <1>0, <1>1, FS_EmptySet
<1>3. /\ data \in Seq(1 .. MaxInputs) /\ pending \in Seq(1 .. MaxInputs)
      /\ written \in Seq(1 .. MaxInputs) /\ ctl \in Seq(Command)
  BY <1>0, EmptySeq
<1>4. TypeOK
  <2>1. accepting \in BOOLEAN /\ ptyUp \in BOOLEAN /\ waited \in BOOLEAN
    BY <1>0
  <2>2. task \in [Tasks -> {"idle", "reserving", "permitted"}]
    BY <1>0
  <2>3. accepted \in 0 .. MaxInputs /\ begun \in 0 .. MaxHandoffs
    BY <1>0
  <2>4. /\ role \in {"serving", "imported", "paused", "failing", "duplicated", "released"}
        /\ call \in {"none", "begin", "duplicate", "rollback", "release"}
        /\ reply \in {"none", "ok", "err"}
        /\ state \in {"Running", "Quiesced", "Released"}
        /\ thread \in {"loop", "draining", "exited"}
    BY <1>0
  <2> QED BY <1>2, <1>3, <2>1, <2>2, <2>3, <2>4 DEF TypeOK
<1>5. AcceptedInputSurvives
  <2>1. <<>> \o <<>> \o <<>> = <<>>
    BY EmptySeq, ConcatEmptySeq
  <2>2. Upto(0) = <<>>
    BY DEF Upto
  <2> QED BY <1>0, <2>1, <2>2 DEF AcceptedInputSurvives
<1>6. CallsHaveRoles /\ OneIsWaitedFor /\ AnswersHold
  BY <1>0 DEF CallsHaveRoles, OneIsWaitedFor, AnswersHold
<1>7. OpenIsIdle /\ QuietIsEmpty /\ PausedStays
  BY <1>0 DEF OpenIsIdle, QuietIsEmpty, PausedStays
<1> QED BY <1>2, <1>4, <1>5, <1>6, <1>7 DEF Inv

LEMMA InvNext == Inv /\ [Next]_vars => Inv'
<1> SUFFICES ASSUME Inv, [Next]_vars PROVE Inv'
  OBVIOUS
<1>1. CASE TryWriteUserInput
  BY <1>1, TryWriteInv
<1>2. ASSUME NEW t \in Tasks, TaskStarts(t) \/ TaskReserves(t) \/ TaskSends(t) PROVE Inv'
  BY <1>2, TaskStartsInv, TaskReservesInv, TaskSendsInv
<1>3. CASE Handle
  BY <1>3, BeginHandoffInv, BeginAnsweredInv, BeginFailsInv, RollbackHandoffInv, RollbackEndsInv,
     DuplicateForHandoffInv, DuplicateEndsInv, ReleaseAfterCommitInv, ReleaseEndsInv, ShutdownInv
  DEF Handle
<1>4. CASE Actor
  BY <1>4, TakesControlInv, TakesDataInv, WritesInv, DrainEndsInv, ExitsInv DEF Actor
<1>5. CASE PtyCloses
  BY <1>5, PtyClosesInv
<1>6. CASE UNCHANGED vars
  <2>1. /\ UNCHANGED <<accepting, ctl, role, call, reply, begun, state, thread, waited, ptyUp>>
        /\ UNCHANGED <<task, data, accepted, pending, written>>
    BY <1>6 DEF vars, inputVars, handleVars, actorVars
  <2>2. TypeOK' /\ IsFiniteSet(Permits') /\ AcceptedInputSurvives'
    BY <2>1, InputKept DEF Inv, TypeOK
  <2>3. QuietIsEmpty'
    BY <2>1 DEF Inv, QuietIsEmpty, Alive
  <2> QED BY <2>1, <2>2, <2>3, ControlKept DEF Inv
<1> QED BY <1>1, <1>2, <1>3, <1>4, <1>5, <1>6 DEF Next

(* The inductive invariant holds always. *)
THEOREM Invariance == Spec => []Inv
<1>1. Init => Inv
  BY InvInit
<1>2. Inv /\ [Next]_vars => Inv'
  BY InvNext
<1> QED BY <1>1, <1>2, PTL DEF Spec

(* Every variable keeps its type, and the data channel never holds more    *)
(* inputs and reserved slots than it has room for.                         *)
THEOREM TypeCorrect == Spec => []TypeOK
<1>1. Inv => TypeOK
  BY DEF Inv
<1> QED BY <1>1, Invariance, PTL

(* Input that the server was told is accepted reaches the pane once and in *)
(* order, through any number of handoffs begun, timed out and rolled back. *)
THEOREM InputSurvives == Spec => []AcceptedInputSurvives
<1>1. Inv => AcceptedInputSurvives
  BY DEF Inv
<1> QED BY <1>1, Invariance, PTL

(* The gate is open only on a thread that runs and that no late command    *)
(* will quiesce, and a handoff that counts on a quiet PTY has one, however *)
(* late the thread answers the handle's calls.                             *)
THEOREM GateAndActorAgree == Spec => []GateMatchesActor
<1>1. Inv => GateMatchesActor
  <2> SUFFICES ASSUME Inv PROVE GateMatchesActor
    OBVIOUS
  <2>1. OpenGateRuns
    BY EmptySeq DEF Inv, OpenIsIdle, OpenGateRuns, Alive
  <2>2. PausedMeansQuiet
    <3> SUFFICES ASSUME role \in {"paused", "duplicated"}, Alive
                 PROVE  /\ ~accepting /\ thread = "loop" /\ state = "Quiesced"
                        /\ pending = <<>> /\ data = <<>>
      BY DEF PausedMeansQuiet, Alive
    <3>1. ~accepting
      BY DEF Inv, OpenIsIdle
    <3>2. thread = "loop" /\ state = "Quiesced"
      BY DEF Inv, PausedStays
    <3> QED BY <3>1, <3>2 DEF Inv, QuietIsEmpty
  <2> QED BY <2>1, <2>2 DEF GateMatchesActor
<1> QED BY <1>1, Invariance, PTL
================================================================================
