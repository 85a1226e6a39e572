------------------------ MODULE SessionPersistence_proofs ------------------------
(***************************************************************************)
(* SessionPersistence proved for any panes, sessions, changes and restarts:*)
(* a session on disk stays there until it is over (SavedSessionSurvives),  *)
(* and none is resumed in two panes (ResumedOnce).                         *)
(*                                                                         *)
(* A session that is owed is at each step in three places at once: on      *)
(* disk, in a snapshot under way, and, while a server runs, in a pane of   *)
(* it.  So whichever snapshot replaces the other has it.  A session that   *)
(* is planned for a pane is planned for that pane alone, and has not been  *)
(* resumed.                                                                *)
(***************************************************************************)
EXTENDS SessionPersistence, WellFoundedInduction, TLAPS

(* The saver ends with its server; agents run in shells. *)
SaverIsServers == saver # None => up
AgentsInShells == \A p \in Panes : agent[p] # None => p \in runtime

(* Where the sessions are that are owed. *)
OwedOnDisk == owed \subseteq Saved(disk)
OwedUnderWay == saver # None => owed \subseteq Saved(saver)
OwedKnown == up => owed \subseteq Known

(* What is planned. *)
PlannedOnce ==
  /\ \A p \in plan : session[p] \in Sessions /\ resumed[session[p]] = {}
  /\ \A p, q \in plan : session[p] = session[q] => p = q

OwedInv == SaverIsServers /\ OwedOnDisk /\ OwedUnderWay /\ OwedKnown
PlanInv == AgentsInShells /\ PlannedOnce /\ ResumedOnce

USE PersistenceAssumption DEF paneVars, saveVars, history, Snapshots

----------------------------------------------------------------------------
LEMMA CaptureIsSnapshot ==
  ASSUME PersistenceTypeOK
  PROVE  /\ Capture \in Snapshots
         /\ Saved(Capture) = Known \cap Sessions
  <1>1. session \in [Panes -> Sessions \cup {None}] /\ open \subseteq Panes
    BY DEF PersistenceTypeOK
  <1> QED
    BY <1>1 DEF Capture, Saved, Known

(* The first pane of every session on disk gets a plan. *)
LEMMA FirstIsPlanned ==
  ASSUME NEW p \in Panes, disk[p] \in Sessions
  PROVE  \E q \in Planned : disk[q] = disk[p]
  <1> DEFINE T == {q \in Panes : disk[q] = disk[p]}
             R == OpToRel(<, Nat)
  <1>1. IsWellFoundedOn(R, Nat)
    BY NatLessThanWellFounded
  <1>2. T \subseteq Nat /\ T # {}
    OBVIOUS
  <1>3. \E q \in T : \A r \in T : <<r, q>> \notin R
    <2> HIDE DEF T, R
    <2> QED
      BY <1>1, <1>2, WFMin
  <1>4. PICK q \in T : \A r \in T : <<r, q>> \notin R
    BY <1>3
  <1>5. \A r \in T : ~(r < q)
    BY <1>2, <1>4 DEF OpToRel
  <1>6. \A r \in Panes : r < q => disk[r] # disk[q]
    BY <1>5
  <1> QED
    BY <1>6 DEF Planned

(* A session that is not over is known without p's. *)
LEMMA WithoutIsKnown ==
  ASSUME NEW p \in Panes, owed \subseteq Known, NEW t \in Without(p)
  PROVE  \E q \in open \ {p} : session[q] = t /\ t # None
  BY DEF Without, Known

----------------------------------------------------------------------------
LEMMA TypeInit == Init => PersistenceTypeOK
  <1> SUFFICES ASSUME Init PROVE PersistenceTypeOK
    OBVIOUS
  <1>1. starts \in 0 .. MaxStarts /\ changes \in 0 .. MaxChanges
    BY DEF Init
  <1>2. saver \in Snapshots \cup {None} /\ disk \in Snapshots
    BY DEF Init
  <1> QED
    BY <1>1, <1>2 DEF Init, PersistenceTypeOK

LEMMA TypeStep == PersistenceTypeOK /\ [Next]_vars => PersistenceTypeOK'
  <1> SUFFICES ASSUME PersistenceTypeOK, [Next]_vars PROVE PersistenceTypeOK'
    OBVIOUS
  <1> USE DEF PersistenceTypeOK
  <1>1. ASSUME NEW p \in Panes, PaneOpens(p) PROVE PersistenceTypeOK'
    BY <1>1 DEF PaneOpens
  <1>2. ASSUME NEW p \in Panes, NEW s \in Sessions, AgentStarts(p, s) PROVE PersistenceTypeOK'
    BY <1>2 DEF AgentStarts, SessionBecomes, Without
  <1>3. ASSUME NEW p \in Panes, AgentExits(p) PROVE PersistenceTypeOK'
    BY <1>3 DEF AgentExits, SessionBecomes, Without
  <1>4. ASSUME NEW p \in Panes, PaneCloses(p) PROVE PersistenceTypeOK'
    BY <1>4 DEF PaneCloses, Without
  <1>5. CASE BeginSave
    BY <1>5, CaptureIsSnapshot DEF BeginSave
  <1>6. CASE SaverWrites
    BY <1>6 DEF SaverWrites, Saved
  <1>7. CASE Stop
    BY <1>7, CaptureIsSnapshot DEF Stop, Saved
  <1>8. CASE Crash
    BY <1>8 DEF Crash, Saved
  <1>9. ASSUME NEW r \in BOOLEAN, Start(r) PROVE PersistenceTypeOK'
    <2>1. plan' \subseteq open' \ runtime' /\ runtime' \subseteq open' /\ open' \subseteq Panes
      BY <1>9 DEF Start, Planned
    <2>2. session' \in [Panes -> Sessions \cup {None}]
      <3>1. \A p \in open' : disk[p] # "absent"
        BY <1>9 DEF Start
      <3>2. session' = [p \in Panes |->
                IF p \in open' \ (IF r THEN Duplicates ELSE {}) THEN disk[p] ELSE None]
        BY <1>9 DEF Start
      <3> QED
        BY <3>1, <3>2
    <2>3. /\ up' = TRUE /\ starts' = starts + 1 /\ starts < MaxStarts
          /\ agent' = [p \in Panes |-> None] /\ resumed' = [s \in Sessions |-> {}]
          /\ owed' \subseteq owed /\ UNCHANGED <<changes, saveVars, failed>>
      BY <1>9 DEF Start
    <2> QED
      BY <2>1, <2>2, <2>3
  <1>10. ASSUME NEW p \in Panes, Resume(p) PROVE PersistenceTypeOK'
    BY <1>10 DEF Resume
  <1>11. ASSUME NEW p \in Panes, ResumeFails(p) PROVE PersistenceTypeOK'
    BY <1>11 DEF ResumeFails, Without
  <1>12. CASE UNCHANGED vars
    BY <1>12 DEF vars
  <1> QED
    BY <1>1, <1>2, <1>3, <1>4, <1>5, <1>6, <1>7, <1>8, <1>9, <1>10, <1>11, <1>12 DEF Next

(* PersistenceTypeOK: the state has its types, and a pane with a plan has   *)
(* no shell yet. *)
THEOREM TypeCorrect == Spec => []PersistenceTypeOK
  BY TypeInit, TypeStep, PTL DEF Spec

----------------------------------------------------------------------------
(* A step that changes one pane's session and forgets what is over with it. *)
LEMMA OwedWithout ==
  ASSUME OwedInv, NEW p \in Panes, up,
         owed' = Without(p), UNCHANGED <<up, saver, disk>>,
         open' \in {open, open \ {p}},
         \A q \in Panes \ {p} : session'[q] = session[q],
         open \subseteq Panes
  PROVE  OwedInv'
  <1>1. owed' \subseteq owed
    BY DEF Without
  <1>2. ASSUME NEW t \in owed' PROVE t \in Known'
    <2>1. PICK q \in open \ {p} : session[q] = t /\ t # None
      BY WithoutIsKnown DEF OwedInv, OwedKnown
    <2> QED
      BY <2>1 DEF Known
  <1> QED
    BY <1>1, <1>2 DEF OwedInv, SaverIsServers, OwedOnDisk, OwedUnderWay, OwedKnown, Saved

(* A restored session is in the first pane that had it, unless that pane has failed. *)
LEMMA OwedRestored ==
  ASSUME PersistenceTypeOK, OwedInv, NEW r \in BOOLEAN, Start(r)
  PROVE  OwedInv'
  <1> DEFINE waiting == IF r THEN Planned ELSE {}
             forgotten == IF r THEN Duplicates ELSE {}
  <1>1. /\ ~up /\ up' = TRUE /\ UNCHANGED saveVars /\ saver = None
        /\ owed \subseteq Saved(disk)
    BY DEF Start, OwedInv, SaverIsServers, OwedOnDisk
  <1>2. PICK failing \in SUBSET ({p \in Panes : disk[p] # "absent"} \ waiting) :
          /\ open' = {p \in Panes : disk[p] # "absent"} \ failing
          /\ session' = [p \in Panes |-> IF p \in open' \ forgotten THEN disk[p] ELSE None]
          /\ owed' = owed \ ({disk[p] : p \in failing} \ {session'[p] : p \in open'})
    BY DEF Start
  <1>3. owed' \subseteq Saved(disk')
    BY <1>1, <1>2 DEF Saved
  <1>4. ASSUME NEW t \in owed' PROVE t \in Known'
    <2>1. t \in Sessions /\ t # None
      BY <1>3 DEF Saved
    <2>2. PICK p \in Panes : disk[p] = t
      BY <1>1, <1>2 DEF Saved
    <2>3. PICK q \in Planned : disk[q] = t
      BY <2>1, <2>2, FirstIsPlanned
    <2>4. q \in Panes /\ q \notin forgotten /\ disk[q] # "absent"
      BY <2>1, <2>3 DEF Planned, Duplicates
    <2>5. CASE q \notin failing
      <3>1. q \in open' /\ session'[q] = t
        BY <1>2, <2>3, <2>4, <2>5
      <3> QED
        BY <2>1, <3>1 DEF Known
    <2>6. CASE q \in failing
      <3>1. \E o \in open' : session'[o] = t
        BY <1>2, <2>3, <2>6
      <3> QED
        BY <2>1, <3>1 DEF Known
    <2> QED
      BY <2>5, <2>6
  <1> QED
    BY <1>1, <1>3, <1>4 DEF OwedInv, SaverIsServers, OwedOnDisk, OwedUnderWay, OwedKnown

LEMMA OwedInit == Init => OwedInv
  BY DEF Init, OwedInv, SaverIsServers, OwedOnDisk, OwedUnderWay, OwedKnown

LEMMA OwedStep == PersistenceTypeOK /\ OwedInv /\ [Next]_vars => OwedInv'
  <1> SUFFICES ASSUME PersistenceTypeOK, OwedInv, [Next]_vars PROVE OwedInv'
    OBVIOUS
  <1> USE DEF SaverIsServers, OwedOnDisk, OwedUnderWay, OwedKnown
  <1>0. open \subseteq Panes /\ session \in [Panes -> Sessions \cup {None}]
    BY DEF PersistenceTypeOK
  <1>1. ASSUME NEW p \in Panes, PaneOpens(p) PROVE OwedInv'
    BY <1>1 DEF PaneOpens, OwedInv, Saved, Known
  <1>2. ASSUME NEW p \in Panes, NEW s \in Sessions, AgentStarts(p, s) PROVE OwedInv'
    BY <1>0, <1>2, OwedWithout DEF AgentStarts, SessionBecomes
  <1>3. ASSUME NEW p \in Panes, AgentExits(p) PROVE OwedInv'
    BY <1>0, <1>3, OwedWithout DEF AgentExits, SessionBecomes
  <1>4. ASSUME NEW p \in Panes, PaneCloses(p) PROVE OwedInv'
    BY <1>0, <1>4, OwedWithout DEF PaneCloses
  <1>5. CASE BeginSave
    <2>1. owed \subseteq Saved(Capture)
      BY <1>5, CaptureIsSnapshot DEF BeginSave, OwedInv, PersistenceTypeOK
    <2> QED
      BY <1>5, <2>1 DEF BeginSave, OwedInv, Saved, Known
  <1>6. CASE SaverWrites
    <2>1. saver # None /\ saver' = None /\ up /\ UNCHANGED <<up, open, session>>
      BY <1>6 DEF SaverWrites, OwedInv
    <2>2. Known' = Known
      BY <2>1 DEF Known
    <2>3. owed' \subseteq Saved(disk') /\ owed' \subseteq Known
      BY <1>6, <2>1 DEF SaverWrites, OwedInv, Saved
    <2> QED
      BY <2>1, <2>2, <2>3 DEF OwedInv
  <1>7. CASE Stop
    BY <1>7 DEF Stop, OwedInv, Saved
  <1>8. CASE Crash
    BY <1>8 DEF Crash, OwedInv, Saved
  <1>9. ASSUME NEW r \in BOOLEAN, Start(r) PROVE OwedInv'
    BY <1>9, OwedRestored
  <1>10. ASSUME NEW p \in Panes, Resume(p) PROVE OwedInv'
    BY <1>10 DEF Resume, OwedInv, Saved, Known
  <1>11. ASSUME NEW p \in Panes, ResumeFails(p) PROVE OwedInv'
    BY <1>0, <1>11, OwedWithout DEF ResumeFails
  <1>12. CASE UNCHANGED vars
    BY <1>12 DEF vars, OwedInv, Saved, Known
  <1> QED
    BY <1>1, <1>2, <1>3, <1>4, <1>5, <1>6, <1>7, <1>8, <1>9, <1>10, <1>11, <1>12 DEF Next

(* SavedSessionSurvives: a session that was on disk stays there until it is *)
(* over, through any number of saves, crashes and restarts. *)
THEOREM NoSessionIsLost == Spec => []SavedSessionSurvives
  <1>1. OwedInv => SavedSessionSurvives
    BY DEF OwedInv, OwedOnDisk, SavedSessionSurvives
  <1> QED
    BY <1>1, OwedInit, OwedStep, TypeCorrect, PTL DEF Spec

----------------------------------------------------------------------------
(* A step that leaves the panes with a plan as they are. *)
LEMMA PlanKept ==
  ASSUME PlanInv, plan' \subseteq plan, UNCHANGED resumed,
         \A q \in plan' : session'[q] = session[q],
         \A q \in Panes : agent'[q] # None => q \in runtime'
  PROVE  PlanInv'
  BY DEF PlanInv, AgentsInShells, PlannedOnce, ResumedOnce

LEMMA PlanRestored ==
  ASSUME PersistenceTypeOK, NEW r \in BOOLEAN, Start(r)
  PROVE  PlanInv'
  <1>1. /\ plan' \subseteq Planned /\ resumed' = [s \in Sessions |-> {}]
        /\ agent' = [p \in Panes |-> None]
    BY DEF Start
  <1>2. ASSUME NEW p \in plan' PROVE session'[p] = disk[p] /\ disk[p] \in Sessions
    <2>1. r /\ p \in Planned /\ plan' = Planned
      BY <1>2 DEF Start
    <2>2. p \in Panes /\ p \notin Duplicates /\ disk[p] \in Sessions
      BY <2>1 DEF Planned, Duplicates
    <2>3. p \in open'
      BY <2>1, <2>2 DEF Start
    <2> QED
      BY <2>1, <2>2, <2>3 DEF Start
  <1>3. \A p, q \in Planned : disk[p] = disk[q] => p = q
    BY DEF Planned
  <1>4. PlannedOnce'
    BY <1>1, <1>2, <1>3 DEF PlannedOnce
  <1> QED
    BY <1>1, <1>4 DEF PlanInv, AgentsInShells, ResumedOnce

LEMMA PlanInit == Init => PlanInv
  BY DEF Init, PlanInv, AgentsInShells, PlannedOnce, ResumedOnce

LEMMA PlanStep == PersistenceTypeOK /\ PlanInv /\ [Next]_vars => PlanInv'
  <1> SUFFICES ASSUME PersistenceTypeOK, PlanInv, [Next]_vars PROVE PlanInv'
    OBVIOUS
  <1>0. /\ plan \subseteq open \ runtime /\ runtime \subseteq open /\ open \subseteq Panes
        /\ session \in [Panes -> Sessions \cup {None}] /\ agent \in [Panes -> Sessions \cup {None}]
        /\ resumed \in [Sessions -> SUBSET Panes]
        /\ \A q \in Panes : agent[q] # None => q \in runtime
    BY DEF PersistenceTypeOK, PlanInv, AgentsInShells
  <1>1. ASSUME NEW p \in Panes, PaneOpens(p) PROVE PlanInv'
    BY <1>0, <1>1, PlanKept DEF PaneOpens
  <1>2. ASSUME NEW p \in Panes, NEW s \in Sessions, AgentStarts(p, s) PROVE PlanInv'
    BY <1>0, <1>2, PlanKept DEF AgentStarts, SessionBecomes
  <1>3. ASSUME NEW p \in Panes, AgentExits(p) PROVE PlanInv'
    BY <1>0, <1>3, PlanKept DEF AgentExits, SessionBecomes
  <1>4. ASSUME NEW p \in Panes, PaneCloses(p) PROVE PlanInv'
    BY <1>0, <1>4, PlanKept DEF PaneCloses
  <1>5. CASE BeginSave \/ SaverWrites \/ Stop \/ Crash
    BY <1>0, <1>5, PlanKept DEF BeginSave, SaverWrites, Stop, Crash
  <1>6. ASSUME NEW r \in BOOLEAN, Start(r) PROVE PlanInv'
    BY <1>6, PlanRestored
  <1>7. ASSUME NEW p \in Panes, Resume(p) PROVE PlanInv'
    <2>1. /\ p \in plan /\ plan' = plan \ {p} /\ runtime \subseteq runtime'
          /\ resumed' = [resumed EXCEPT ![session[p]] = @ \cup {p}]
          /\ UNCHANGED <<session, agent>>
      BY <1>7 DEF Resume
    <2>2. session[p] \in Sessions /\ resumed'[session[p]] = {p}
      BY <1>0, <2>1 DEF PlanInv, PlannedOnce
    <2>3. \A s \in Sessions \ {session[p]} : resumed'[s] = resumed[s]
      BY <1>0, <2>1
    <2>4. PlannedOnce'
      BY <2>1, <2>3 DEF PlanInv, PlannedOnce
    <2>5. ResumedOnce'
      BY <2>2, <2>3 DEF PlanInv, ResumedOnce
    <2> QED
      BY <1>0, <2>1, <2>4, <2>5 DEF PlanInv, AgentsInShells
  <1>8. ASSUME NEW p \in Panes, ResumeFails(p) PROVE PlanInv'
    BY <1>0, <1>8, PlanKept DEF ResumeFails
  <1>9. CASE UNCHANGED vars
    BY <1>0, <1>9, PlanKept DEF vars
  <1> QED
    BY <1>1, <1>2, <1>3, <1>4, <1>5, <1>6, <1>7, <1>8, <1>9 DEF Next

(* ResumedOnce: no server resumes a session in two panes. *)
THEOREM NeverResumedTwice == Spec => []ResumedOnce
  <1>1. PlanInv => ResumedOnce
    BY DEF PlanInv
  <1> QED
    BY <1>1, PlanInit, PlanStep, TypeCorrect, PTL DEF Spec
=============================================================================
