----------------------------- MODULE PaneAgent_proofs ----------------------------
(***************************************************************************)
(* Proofs about PaneAgent: the type invariant, LateReportsStayOut and      *)
(* ReportsInOrder, for any number of agents, processes, reports and        *)
(* results.                                                                *)
(*                                                                         *)
(* The inductive invariant says of every agent what its last accepted      *)
(* number is worth: for a session that was announced by a start, or that   *)
(* reports are taken for, no report of a process known to be gone has a    *)
(* higher one.  It holds because a start that is taken is of a process not *)
(* known to be gone, all reports of earlier ones having lower numbers, or  *)
(* makes the history know less (Misleading).                               *)
(*                                                                         *)
(* First the operators of TerminalAgent, one lemma each: the fields of the *)
(* record they return, then that they preserve the invariant of a record   *)
(* and the order of the hook.  The steps of PaneAgent follow.              *)
(***************************************************************************)
EXTENDS PaneAgent, TLAPS

USE TerminalAssumption, PaneAssumption, RecordAssumption
----------------------------------------------------------------------------
(* The invariant of one agent a, of a record t, with the agents u that the *)
(* terminal is unsure about and the processes g it knows are gone.         *)

(* The reports of processes that are gone are numbered k at most.          *)
LateUpTo(g, a, k) == \A x \in flight : x.agent = a /\ x.process <= g[a] => x.seq <= k

(* A held report is older than the reports of a later process.             *)
HeldKnown(t, a) ==
  LET entry == t.suppressed[a]
      x == entry.pending
  IN entry # None /\ x # None =>
       /\ x.agent = a
       /\ \A m \in flight : x.process < m.process => x.seq < m.seq
       /\ x.process <= started /\ x.seq <= clock

(* A session that was announced is newer than what is late.                *)
AnnouncedLast(t, g, a) ==
  LET entry == t.suppressed[a]
      x == entry.pending
  IN entry # None /\ entry.reason = "ProcessExit" /\ entry.replacement # None =>
       /\ LateUpTo(g, a, t.last[a])
       /\ x # None /\ x.process <= g[a] => x.seq <= t.last[a]

(* And so is one that reports are taken for.                               *)
AnchoredLast(t, u, g, a) ==
  a \notin u /\ t.suppressed[a] = None /\ Anchor(t, a) # None => LateUpTo(g, a, t.last[a])

(* A hook with the authority was not cleared, and it is not late.          *)
HookLives(t, u, g, a) ==
  t.hook # None /\ t.hook.agent = a =>
    /\ t.suppressed[a] = None \/ t.suppressed[a].reason # "HookClear"
    /\ a \notin u => t.hook.process > g[a] /\ t.hook.seq <= t.last[a]

ClearedIsNamed(t, a) ==
  t.suppressed[a] # None /\ t.suppressed[a].reason = "HookClear" => t.suppressed[a].session # None

StaleIsUnsure(t, u, a) == t.stale[a] # {} => a \in u

AgentInv(t, u, g, a) ==
  /\ HeldKnown(t, a) /\ AnnouncedLast(t, g, a) /\ AnchoredLast(t, u, g, a)
  /\ HookLives(t, u, g, a) /\ ClearedIsNamed(t, a) /\ StaleIsUnsure(t, u, a)

AgentsInv(t, u, g) == \A a \in Agents : AgentInv(t, u, g, a)

(* v has the agents of u and those with a stale session in t.              *)
Covers(v, u, t) == \A a \in Agents : t.stale[a] # {} \/ a \in u => a \in v

(* A start is of a process not known to be gone.                           *)
StartsAnew(m, g) == m.kind \in Recognized => m.process > g[m.agent]

(* What a process of a, once it shows up, finds of a: v has the agent, or  *)
(* there is no session, or one was cleared or announced.                   *)
Awaited(t, v, a) ==
  \/ a \in v
  \/ Anchor(t, a) = None
  \/ /\ t.suppressed[a] # None
     /\ t.suppressed[a].reason = "HookClear" \/ t.suppressed[a].replacement # None

(* An agent whose exit was the last that was told has no session.          *)
ExitLeavesNothing(t, u, a) == t.exit = a /\ a \notin u => Anchor(t, a) = None

TermInv(t, u, g) == \A a \in Agents : AgentInv(t, u, g, a) /\ ExitLeavesNothing(t, u, a)

(* The hook of an agent never goes back, from t to r.                      *)
InOrder(t, r, u) ==
  t.hook # None /\ r.hook # None /\ r.hook.agent = t.hook.agent /\ t.hook.agent \notin u
    => r.hook.seq >= t.hook.seq

(* Processes and reports are numbered in order of time.                    *)
Numbered ==
  /\ process # None => process.id = started
  /\ \A a \in Agents : gone[a] <= started /\ (process # None => gone[a] < started)
  /\ \A i \in 1 .. Len(results) : results[i].exited =>
       /\ results[i].agent # None /\ results[i].told <= started
       /\ process # None => results[i].told < started
  /\ \A m \in flight : m.process <= started /\ m.seq <= clock
  /\ \A m, x \in flight : x.process < m.process => x.seq < m.seq

Inv == PaneTypeOK /\ Numbered /\ TermInv(term, unsure, gone)

----------------------------------------------------------------------------
(* What the operators of TerminalAgent leave of a terminal's record.       *)

LEMMA RememberFields ==
  ASSUME NEW t \in Terms, NEW a \in Agents, NEW s \in Maybe(Sessions), NEW r, r = Remember(t, a, s)
  PROVE  /\ r \in Terms
         /\ r.detected = t.detected /\ r.exit = t.exit /\ r.hook = t.hook /\ r.saved = t.saved
         /\ r.last = t.last /\ r.suppressed = t.suppressed
         /\ \A b \in Agents \ {a} : r.stale[b] = t.stale[b]
         /\ t.stale[a] \subseteq r.stale[a]
         /\ s # None => s \in r.stale[a]
<1>1. CASE s = None
  BY <1>1 DEF Remember
<1>2. CASE s # None
  BY <1>2 DEF Remember, Terms, Maybe
<1> QED BY <1>1, <1>2

LEMMA ForgetFields ==
  ASSUME NEW t \in Terms, NEW a \in Agents, NEW s, NEW r, r = Forget(t, a, s)
  PROVE  /\ r \in Terms
         /\ r.detected = t.detected /\ r.exit = t.exit /\ r.hook = t.hook /\ r.saved = t.saved
         /\ r.last = t.last /\ r.suppressed = t.suppressed
         /\ \A b \in Agents \ {a} : r.stale[b] = t.stale[b]
BY DEF Forget, Terms

LEMMA SuppressHookFields ==
  ASSUME NEW t \in Terms, NEW n \in Counts, NEW r, r = SuppressHook(t, n)
  PROVE  /\ r \in Terms
         /\ r.detected = t.detected /\ r.exit = t.exit /\ r.hook = t.hook /\ r.saved = t.saved
         /\ r.last = t.last /\ r.stale = t.stale
         /\ \A b \in Agents :
              r.suppressed[b] = IF t.hook # None /\ t.hook.agent = b
                                THEN Suppression(t.hook.session, "HookClear", n) ELSE t.suppressed[b]
<1>1. CASE t.hook = None
  BY <1>1 DEF SuppressHook
<1>2. CASE t.hook # None
  BY <1>2 DEF SuppressHook, Suppress, Suppression, Terms, Maybe, Entries, Authorities
<1> QED BY <1>1, <1>2

LEMMA AcceptedFields ==
  ASSUME NEW t \in Terms, NEW m \in Reports, NEW r, r = Accepted(t, m)
  PROVE  /\ r \in Terms
         /\ r.detected = t.detected /\ r.exit = t.exit /\ r.hook = t.hook /\ r.saved = t.saved
         /\ r.stale = t.stale /\ r.suppressed = t.suppressed
         /\ \A b \in Agents : r.last[b] = IF b = m.agent THEN m.seq ELSE t.last[b]
BY DEF Accepted, Terms, Reports

(* A report that is taken is the state; what was suppressed for its agent  *)
(* becomes stale.                                                          *)
LEMMA TakenFields ==
  ASSUME NEW t \in Terms, NEW m \in Reports, NEW n \in Counts, NEW r, r = Taken(t, m, n)
  PROVE  /\ r \in Terms
         /\ r.detected = t.detected /\ r.exit = t.exit /\ r.saved = None
         /\ r.hook # None /\ r.hook.agent = m.agent
         /\ r.hook.process = m.process /\ r.hook.seq = m.seq
         /\ \A b \in Agents : r.last[b] = IF b = m.agent THEN m.seq ELSE t.last[b]
         /\ r.suppressed[m.agent] = None
         /\ \A b \in Agents \ {m.agent} :
              /\ r.stale[b] = t.stale[b]
              /\ \/ r.suppressed[b] = t.suppressed[b]
                 \/ /\ t.hook # None /\ t.hook.agent = b
                    /\ r.suppressed[b] = Suppression(t.hook.session, "HookClear", n)
         /\ t.stale[m.agent] \subseteq r.stale[m.agent]
         /\ t.suppressed[m.agent] # None /\ t.suppressed[m.agent].session # None
              => r.stale[m.agent] # {}
<1> DEFINE a == m.agent
           s == IF Current(t) # None /\ Owned(t, a) THEN Current(t).session ELSE m.session
           yielded == IF Owned(t, a) THEN t ELSE SuppressHook(t, n)
           outdated == IF t.suppressed[a] = None THEN None ELSE t.suppressed[a].session
           past == Remember(yielded, a, outdated)
           hook == HookAuthority([m EXCEPT !.session = s], n)
<1>1. a \in Agents /\ m.session \in Sessions /\ m.seq \in Clocks /\ m.process \in Ids
  BY DEF Reports
<1>2. s \in Sessions
  BY <1>1 DEF Current, AgentSession, Terms, Maybe, Authorities, SavedSessions
<1>3. /\ hook \in Authorities /\ hook # None
      /\ hook.agent = a /\ hook.process = m.process /\ hook.seq = m.seq
  BY <1>1, <1>2 DEF HookAuthority, Authorities, Reports
<1>4. outdated \in Maybe(Sessions)
  BY <1>1 DEF Terms, Maybe, Entries
<1>5. /\ yielded \in Terms
      /\ yielded.detected = t.detected /\ yielded.exit = t.exit
      /\ yielded.last = t.last /\ yielded.stale = t.stale
      /\ \A b \in Agents :
           \/ yielded.suppressed[b] = t.suppressed[b]
           \/ /\ t.hook # None /\ t.hook.agent = b
              /\ yielded.suppressed[b] = Suppression(t.hook.session, "HookClear", n)
  <2>1. CASE Owned(t, a)
    BY <2>1
  <2>2. CASE ~Owned(t, a)
    BY <2>2, SuppressHookFields
  <2> QED BY <2>1, <2>2
<1>r. past = Remember(yielded, a, outdated)
  OBVIOUS
<1> HIDE DEF yielded, outdated, s, past
<1>6. /\ past \in Terms
      /\ past.detected = t.detected /\ past.exit = t.exit
      /\ past.last = t.last /\ past.suppressed = yielded.suppressed
      /\ \A b \in Agents \ {a} : past.stale[b] = t.stale[b]
      /\ t.stale[a] \subseteq past.stale[a]
      /\ outdated # None => past.stale[a] # {}
  BY <1>1, <1>4, <1>5, <1>r, RememberFields
<1> HIDE DEF hook
<1>7. r = [past EXCEPT !.suppressed[a] = None, !.saved = None, !.last[a] = m.seq, !.hook = hook]
  BY DEF Taken, past, hook, yielded, outdated, s
<1>8. /\ r \in Terms
      /\ r.detected = past.detected /\ r.exit = past.exit /\ r.saved = None /\ r.hook = hook
      /\ r.last = [past.last EXCEPT ![a] = m.seq]
      /\ r.suppressed = [past.suppressed EXCEPT ![a] = None]
      /\ r.stale = past.stale
  <2>1. /\ r.detected = past.detected /\ r.exit = past.exit /\ r.saved = None /\ r.hook = hook
        /\ r.last = [past.last EXCEPT ![a] = m.seq]
        /\ r.suppressed = [past.suppressed EXCEPT ![a] = None]
        /\ r.stale = past.stale
    BY <1>6, <1>7 DEF Terms
  <2>2. /\ [past.last EXCEPT ![a] = m.seq] \in [Agents -> Clocks]
        /\ [past.suppressed EXCEPT ![a] = None] \in [Agents -> Maybe(Entries)]
        /\ hook \in Maybe(Authorities) /\ None \in Maybe(SavedSessions)
    BY <1>1, <1>3, <1>6 DEF Terms, Maybe
  <2>3. r = [past EXCEPT !.suppressed = [past.suppressed EXCEPT ![a] = None], !.saved = None,
                         !.last = [past.last EXCEPT ![a] = m.seq], !.hook = hook]
    BY <1>6, <1>7 DEF Terms
  <2> QED BY <1>6, <2>1, <2>2, <2>3 DEF Terms
<1>9. t.suppressed[a] # None /\ t.suppressed[a].session # None => outdated # None
  BY DEF outdated
<1>10. past.last \in [Agents -> Clocks] /\ past.suppressed \in [Agents -> Maybe(Entries)]
  BY <1>6 DEF Terms
<1> QED BY <1>1, <1>3, <1>5, <1>6, <1>8, <1>9, <1>10

----------------------------------------------------------------------------
(* The invariant of an agent that a step leaves alone, or whose hook       *)
(* yields.                                                                 *)
LEMMA OtherInv ==
  ASSUME NEW t \in Terms, NEW r \in Terms, NEW u, NEW v, NEW g, NEW b \in Agents, NEW n \in Counts,
         AgentInv(t, u, g, b), b \in u => b \in v, r.stale[b] = t.stale[b],
         r.last[b] = t.last[b],
         \/ r.suppressed[b] = t.suppressed[b]
         \/ /\ t.hook # None /\ t.hook.agent = b /\ (r.hook = None \/ r.hook.agent # b)
            /\ r.suppressed[b] = Suppression(t.hook.session, "HookClear", n),
         r.hook = t.hook \/ r.hook = None \/ r.hook.agent # b,
         Anchor(r, b) \in {Anchor(t, b), None}
  PROVE  AgentInv(r, v, g, b)
<1>1. CASE r.suppressed[b] = t.suppressed[b]
  BY <1>1 DEF AgentInv, HeldKnown, AnnouncedLast, AnchoredLast, HookLives, ClearedIsNamed, StaleIsUnsure
<1>2. CASE r.suppressed[b] # t.suppressed[b]
  <2> DEFINE e == Suppression(t.hook.session, "HookClear", n)
  <2>1. t.hook.session \in Sessions
    BY <1>2 DEF Terms, Maybe, Authorities
  <2>2. /\ e # None /\ e.reason = "HookClear" /\ e.session = t.hook.session /\ e.pending = None
    BY <2>1 DEF Suppression, Entries, Maybe
  <2>3. r.suppressed[b] = e
    BY <1>2
  <2> QED BY <1>2, <2>1, <2>2, <2>3
      DEF AgentInv, HeldKnown, AnnouncedLast, AnchoredLast, HookLives, ClearedIsNamed, StaleIsUnsure
<1> QED BY <1>1, <1>2

LEMMA OtherExit ==
  ASSUME NEW t, NEW r, NEW u, NEW v, NEW b, ExitLeavesNothing(t, u, b), b \in u => b \in v,
         r.exit = t.exit \/ r.exit = None \/ r.exit # b, b # None,
         Anchor(r, b) \in {Anchor(t, b), None}
  PROVE  ExitLeavesNothing(r, v, b)
BY DEF ExitLeavesNothing

LEMMA SameHookInOrder ==
  ASSUME NEW t \in Terms, NEW r, NEW u, r.hook = t.hook \/ r.hook = None
  PROVE  InOrder(t, r, u)
BY DEF InOrder, Terms, Maybe, Authorities, Clocks

(* A report that is taken. *)
LEMMA TakenInv ==
  ASSUME NEW t \in Terms, NEW u, NEW v, NEW g \in [Agents -> Numbers], NEW m \in flight,
         flight \subseteq Reports, NEW n \in Counts,
         PaneTypeOK, TermInv(t, u, g), NEW r, r = Taken(t, m, n),
         \/ t.suppressed[m.agent] # None /\ t.suppressed[m.agent].reason = "HookClear"
         \/ /\ t.suppressed[m.agent] = None /\ Present(t, m.agent) /\ Anchor(t, m.agent) # None
            /\ t.stale[m.agent] # {} \/ Newer(t, m),
         \A b \in Agents : r.stale[b] # {} \/ b \in u => b \in v
  PROVE  r \in Terms /\ TermInv(r, v, g) /\ InOrder(t, r, u)
<1> DEFINE a == m.agent
<1>1. m \in Reports /\ a \in Agents /\ m.seq \in Nat /\ m.process \in Nat
  BY DEF Reports, Clocks, Ids, Numbers
<1>2. /\ r \in Terms
      /\ r.detected = t.detected /\ r.exit = t.exit /\ r.saved = None
      /\ r.hook # None /\ r.hook.agent = a
      /\ r.hook.process = m.process /\ r.hook.seq = m.seq
      /\ \A b \in Agents : r.last[b] = IF b = a THEN m.seq ELSE t.last[b]
      /\ r.suppressed[a] = None
      /\ \A b \in Agents \ {a} :
           /\ r.stale[b] = t.stale[b]
           /\ \/ r.suppressed[b] = t.suppressed[b]
              \/ /\ t.hook # None /\ t.hook.agent = b
                 /\ r.suppressed[b] = Suppression(t.hook.session, "HookClear", n)
      /\ t.stale[a] \subseteq r.stale[a]
      /\ t.suppressed[a] # None /\ t.suppressed[a].session # None => r.stale[a] # {}
  <2>1. t \in Terms /\ m \in Reports /\ n \in Counts /\ r = Taken(t, m, n)
    BY <1>1
  <2> QED BY ONLY <2>1, TakenFields, SMTT(60)
<1>3. ASSUME NEW b \in Agents \ {a}
      PROVE  AgentInv(r, v, g, b) /\ ExitLeavesNothing(r, v, b)
  <2>1. AgentInv(t, u, g, b) /\ ExitLeavesNothing(t, u, b)
    BY DEF TermInv
  <2>2. Anchor(r, b) = None
    BY <1>2 DEF Anchor
  <2>3. AgentInv(r, v, g, b)
    BY <1>2, <2>1, <2>2, OtherInv
  <2>4. ExitLeavesNothing(r, v, b)
    BY <1>2, <2>1, <2>2, OtherExit
  <2> QED BY <2>3, <2>4
<1>4. AgentInv(r, v, g, a) /\ ExitLeavesNothing(r, v, a)
  <2>1. AgentInv(t, u, g, a)
    BY <1>1 DEF TermInv
  <2>2. HeldKnown(r, a) /\ AnnouncedLast(r, g, a) /\ ClearedIsNamed(r, a) /\ StaleIsUnsure(r, v, a)
    BY <1>1, <1>2 DEF HeldKnown, AnnouncedLast, ClearedIsNamed, StaleIsUnsure
  <2>3. CASE a \in v
    BY <1>2, <2>2, <2>3 DEF AgentInv, AnchoredLast, HookLives, ExitLeavesNothing
  <2>4. CASE a \notin v
    <3>1. a \notin u /\ r.stale[a] = {} /\ t.stale[a] = {}
      BY <1>1, <1>2, <2>4
    <3>2. t.suppressed[a] = None /\ Present(t, a) /\ Anchor(t, a) # None /\ m.seq > t.last[a]
      BY <1>2, <2>1, <3>1 DEF AgentInv, ClearedIsNamed, Newer
    <3>3. LateUpTo(g, a, t.last[a]) /\ t.last[a] \in Nat /\ g[a] \in Nat
      BY <1>1, <2>1, <3>1, <3>2 DEF AgentInv, AnchoredLast, Terms, Clocks, PaneTypeOK, Ids, Numbers
    <3>4. ~(m.process <= g[a]) /\ LateUpTo(g, a, m.seq)
      BY <1>1, <3>2, <3>3 DEF LateUpTo, Reports, Clocks
    <3>5. r.exit = None
      BY <1>2, <3>2 DEF Present
    <3>6. m.process > g[a] /\ m.seq <= r.last[a] /\ r.last[a] = m.seq
      BY <1>1, <1>2, <3>3, <3>4
    <3> QED BY <1>1, <1>2, <2>2, <3>4, <3>5, <3>6
        DEF AgentInv, AnchoredLast, HookLives, ExitLeavesNothing
  <2> QED BY <2>3, <2>4
<1>5. InOrder(t, r, u)
  <2>1. AgentInv(t, u, g, a)
    BY <1>1 DEF TermInv
  <2>2. SUFFICES ASSUME t.hook # None, t.hook.agent = a, a \notin u
        PROVE  m.seq >= t.hook.seq
    BY <1>2 DEF InOrder
  <2>3. t.hook.seq \in Nat /\ t.last[a] \in Nat
    BY <1>1, <2>2 DEF Terms, Maybe, Authorities, Clocks
  <2>4. t.hook.seq <= t.last[a] /\ m.seq > t.last[a]
    BY <2>1, <2>2 DEF AgentInv, HookLives, StaleIsUnsure, Newer
  <2> QED BY <1>1, <2>3, <2>4
<1> QED BY <1>2, <1>3, <1>4, <1>5 DEF TermInv

(* A report that is held. *)
LEMMA HoldInv ==
  ASSUME NEW t \in Terms, NEW u, NEW v, NEW g \in [Agents -> Numbers], NEW m \in flight, NEW n \in Counts,
         PaneTypeOK, Numbered, TermInv(t, u, g), NEW r, r = Hold(t, m, n),
         \A b \in Agents : r.stale[b] # {} \/ b \in u => b \in v
  PROVE  r \in Terms /\ TermInv(r, v, g) /\ InOrder(t, r, u)
<1> DEFINE a == m.agent
           saved == IF t.saved # None /\ t.saved.agent = a THEN t.saved.session ELSE None
           old == t.suppressed[a]
           entry == IF old = None THEN Suppression(saved, "ProcessExit", n) ELSE old
           held == HookAuthority(m, n)
           new == [entry EXCEPT !.pending = held]
<1>1. m \in Reports /\ a \in Agents /\ m.seq \in Nat /\ m.process \in Nat /\ flight \subseteq Reports
  BY DEF Reports, Clocks, Ids, Numbers, PaneTypeOK
<1>2. /\ held \in Authorities /\ held # None
      /\ held.agent = a /\ held.process = m.process /\ held.seq = m.seq
  BY <1>1 DEF HookAuthority, Authorities, Reports
<1>3. saved \in Maybe(Sessions)
  BY DEF Terms, Maybe, SavedSessions
<1>4. /\ entry \in Entries /\ entry # None
      /\ old = None => entry.reason = "ProcessExit" /\ entry.replacement = None /\ entry.pending = None
      /\ old # None => entry = old
  BY <1>1, <1>3 DEF Suppression, Entries, Maybe, Terms
<1> HIDE DEF saved, entry, held, old
<1>5. /\ new \in Entries /\ new # None
      /\ new.reason = entry.reason /\ new.replacement = entry.replacement /\ new.session = entry.session
      /\ new.pending = held
  BY <1>2, <1>4 DEF Entries, Maybe
<1>r. \/ r = t
      \/ /\ m.seq > t.last[a]
         /\ \/ r = [t EXCEPT !.suppressed[a] = entry]
            \/ r = [t EXCEPT !.suppressed[a] = new]
  BY DEF Hold, Newer, entry, saved, old, held
<1> HIDE DEF new
<1>6. CASE r = t
  BY <1>6, SameHookInOrder DEF TermInv, AgentInv, AnchoredLast, HookLives, StaleIsUnsure, ExitLeavesNothing
<1>7. ASSUME m.seq > t.last[a], NEW e \in {entry, new}, r = [t EXCEPT !.suppressed[a] = e]
      PROVE  r \in Terms /\ TermInv(r, v, g) /\ InOrder(t, r, u)
  <2>1. /\ r \in Terms
        /\ r.detected = t.detected /\ r.exit = t.exit /\ r.hook = t.hook /\ r.saved = t.saved
        /\ r.last = t.last /\ r.stale = t.stale /\ r.suppressed[a] = e
        /\ \A b \in Agents \ {a} : r.suppressed[b] = t.suppressed[b]
    BY <1>1, <1>4, <1>5, <1>7 DEF Terms, Maybe
  <2>2. \A b \in Agents : Anchor(r, b) = Anchor(t, b)
    BY <2>1 DEF Anchor
  <2>3. ASSUME NEW b \in Agents PROVE ExitLeavesNothing(r, v, b)
    <3>1. ExitLeavesNothing(t, u, b) /\ b # None
      BY DEF TermInv
    <3> QED BY <2>1, <2>2, <3>1, OtherExit
  <2>4. ASSUME NEW b \in Agents \ {a} PROVE AgentInv(r, v, g, b)
    <3>1. AgentInv(t, u, g, b)
      BY DEF TermInv
    <3> QED BY <2>1, <2>2, <3>1, OtherInv
  <2>5. AgentInv(r, v, g, a)
    <3>0. AgentInv(t, u, g, a) /\ t.last[a] \in Nat /\ g[a] \in Nat
      BY <1>1 DEF TermInv, Terms, Clocks, PaneTypeOK, Ids, Numbers
    <3>1. e # None /\ e.reason = entry.reason /\ e.replacement = entry.replacement
          /\ e.session = entry.session
      BY <1>4, <1>5
    <3>2. e.pending = entry.pending \/ e.pending = held
      BY <1>5
    <3>3. HeldKnown(r, a)
      <4>1. CASE e.pending = held
        BY <1>1, <1>2, <2>1, <4>1 DEF HeldKnown, Numbered
      <4>2. CASE e.pending = entry.pending /\ old = None
        BY <1>4, <2>1, <4>2 DEF HeldKnown
      <4>3. CASE e.pending = entry.pending /\ old # None
        BY <1>4, <2>1, <3>0, <4>3 DEF HeldKnown, AgentInv, old
      <4> QED BY <3>2, <4>1, <4>2, <4>3
    <3>4. AnnouncedLast(r, g, a)
      <4>1. CASE old = None
        BY <1>4, <2>1, <3>1, <4>1 DEF AnnouncedLast
      <4>2. CASE old # None
        <5>1. SUFFICES ASSUME e.reason = "ProcessExit", e.replacement # None
              PROVE  /\ LateUpTo(g, a, t.last[a])
                     /\ e.pending # None /\ e.pending.process <= g[a] => e.pending.seq <= t.last[a]
          BY <2>1 DEF AnnouncedLast
        <5>2. /\ LateUpTo(g, a, t.last[a])
              /\ old.pending # None /\ old.pending.process <= g[a] => old.pending.seq <= t.last[a]
          BY <1>4, <3>0, <3>1, <4>2, <5>1 DEF AgentInv, AnnouncedLast, old
        <5>3. CASE e.pending = held
          BY <1>1, <1>2, <1>7, <3>0, <5>2, <5>3 DEF LateUpTo
        <5>4. CASE e.pending = entry.pending
          BY <1>4, <4>2, <5>2, <5>4
        <5> QED BY <3>2, <5>3, <5>4
      <4> QED BY <4>1, <4>2
    <3>5. AnchoredLast(r, v, g, a) /\ StaleIsUnsure(r, v, a)
      BY <1>1, <2>1, <3>1 DEF AnchoredLast, StaleIsUnsure
    <3>6. HookLives(r, v, g, a) /\ ClearedIsNamed(r, a)
      <4>1. CASE old = None
        BY <1>1, <1>4, <2>1, <3>0, <3>1, <4>1 DEF AgentInv, HookLives, ClearedIsNamed
      <4>2. CASE old # None
        BY <1>1, <1>4, <2>1, <3>0, <3>1, <4>2 DEF AgentInv, HookLives, ClearedIsNamed, old
      <4> QED BY <4>1, <4>2
    <3> QED BY <3>3, <3>4, <3>5, <3>6 DEF AgentInv
  <2> QED BY <1>1, <2>1, <2>3, <2>4, <2>5, SameHookInOrder DEF TermInv
<1> QED BY <1>r, <1>6, <1>7

(* A state report, whatever becomes of it. *)
LEMMA StateReportInv ==
  ASSUME NEW t \in Terms, NEW u, NEW v, NEW g \in [Agents -> Numbers], NEW m \in flight, NEW n \in Counts,
         PaneTypeOK, Numbered, TermInv(t, u, g), NEW r, r = StateReport(t, m, n),
         Covers(v, u, r)
  PROVE  r \in Terms /\ TermInv(r, v, g) /\ InOrder(t, r, u)
<1> DEFINE a == m.agent
<1>c. \A b \in Agents : r.stale[b] # {} \/ b \in u => b \in v
  BY DEF Covers
<1>0. flight \subseteq Reports /\ m \in Reports /\ m.session # None
  BY DEF PaneTypeOK, Reports
<1>1. \/ r = t
      \/ r = Hold(t, m, n)
      \/ /\ r = Taken(t, m, n)
         /\ \/ t.suppressed[a] # None /\ t.suppressed[a].reason = "HookClear"
            \/ /\ t.suppressed[a] = None /\ Present(t, a) /\ Anchor(t, a) # None
               /\ t.stale[a] # {} \/ Newer(t, m)
  BY <1>0 DEF StateReport, Take
<1>2. CASE r = t
  BY <1>2, <1>c, SameHookInOrder DEF TermInv, AgentInv, AnchoredLast, HookLives, StaleIsUnsure, ExitLeavesNothing
<1>3. CASE r = Hold(t, m, n)
  BY <1>3, <1>c, HoldInv
<1>4. CASE /\ r = Taken(t, m, n)
           /\ \/ t.suppressed[a] # None /\ t.suppressed[a].reason = "HookClear"
              \/ /\ t.suppressed[a] = None /\ Present(t, a) /\ Anchor(t, a) # None
                 /\ t.stale[a] # {} \/ Newer(t, m)
  <2>1. /\ t \in Terms /\ g \in [Agents -> Numbers] /\ m \in flight /\ n \in Counts
        /\ flight \subseteq Reports /\ TermInv(t, u, g) /\ r = Taken(t, m, n)
    BY <1>0, <1>4
  <2> QED BY ONLY <1>4, <1>c, <2>1, PaneTypeOK, TakenInv
<1> QED BY <1>1, <1>2, <1>3, <1>4

----------------------------------------------------------------------------
(* A number that is accepted. *)
LEMMA AcceptedInv ==
  ASSUME NEW t \in Terms, NEW u, NEW g \in [Agents -> Numbers], NEW m \in Reports, PaneTypeOK,
         \A b \in Agents : AgentInv(t, u, g, b), Newer(t, m), NEW r, r = Accepted(t, m)
  PROVE  \A b \in Agents : AgentInv(r, u, g, b)
<1>1. m.agent \in Agents /\ m.seq \in Nat
  BY DEF Reports, Clocks
<1>2. /\ r \in Terms
      /\ r.detected = t.detected /\ r.exit = t.exit /\ r.hook = t.hook /\ r.saved = t.saved
      /\ r.stale = t.stale /\ r.suppressed = t.suppressed
      /\ \A b \in Agents : r.last[b] = IF b = m.agent THEN m.seq ELSE t.last[b]
  BY AcceptedFields
<1> SUFFICES ASSUME NEW b \in Agents PROVE AgentInv(r, u, g, b)
  OBVIOUS
<1>3. AgentInv(t, u, g, b) /\ t.last[b] \in Nat /\ r.last[b] \in Nat /\ t.last[b] <= r.last[b]
  BY <1>1, <1>2 DEF Newer, Terms, Clocks
<1>4. LateUpTo(g, b, t.last[b]) => LateUpTo(g, b, r.last[b])
  BY <1>3 DEF LateUpTo, PaneTypeOK, Reports, Clocks
<1>5. HeldKnown(r, b) /\ ClearedIsNamed(r, b) /\ StaleIsUnsure(r, u, b)
  BY <1>2, <1>3 DEF AgentInv, HeldKnown, ClearedIsNamed, StaleIsUnsure
<1>6. AnchoredLast(r, u, g, b)
  BY <1>2, <1>3, <1>4 DEF AgentInv, AnchoredLast, Anchor
<1>7. HookLives(r, u, g, b)
  BY <1>2, <1>3 DEF AgentInv, HookLives, Terms, Maybe, Authorities, Clocks
<1>8. AnnouncedLast(r, g, b)
  BY <1>2, <1>3, <1>4 DEF AgentInv, AnnouncedLast, Terms, Maybe, Entries, Authorities, Clocks
<1> QED BY <1>5, <1>6, <1>7, <1>8 DEF AgentInv

(* The session of an agent that is present and anchored changes or stays.  *)
LEMMA ReplaceInv ==
  ASSUME NEW t \in Terms, NEW u, NEW v, NEW g \in [Agents -> Numbers], NEW m \in flight, NEW n \in Counts,
         PaneTypeOK, TermInv(t, u, g), NEW r, r = Replace(t, m, n),
         Present(t, m.agent), Anchor(t, m.agent) # None,
         \A b \in Agents : r.stale[b] # {} \/ b \in u => b \in v
  PROVE  r \in Terms /\ TermInv(r, v, g) /\ InOrder(t, r, u)
<1> DEFINE a == m.agent
           acc == Accepted(t, m)
           fresh == IF m.kind \in Replacing \/ ~Owned(t, a) THEN Forget(acc, a, m.session) ELSE acc
           left == CASE ~Owned(t, a) -> [SuppressHook(fresh, n) EXCEPT !.hook = None]
                     [] Owned(t, a) /\ t.hook # None /\ t.hook.session # m.session ->
                          [Remember(fresh, a, t.hook.session) EXCEPT !.hook = None]
                     [] OTHER -> fresh
<1>0. m \in Reports /\ a \in Agents /\ m.session \in Sessions
  BY DEF PaneTypeOK, Reports
<1>1. \/ r = t
      \/ Newer(t, m) /\ r = acc
      \/ Newer(t, m) /\ r = [left EXCEPT !.saved = AgentSession(a, m.session)]
  BY DEF Replace
<1>2. CASE r = t
  BY <1>2, SameHookInOrder DEF TermInv, AgentInv, AnchoredLast, HookLives, StaleIsUnsure, ExitLeavesNothing
<1>a. /\ acc \in Terms
      /\ acc.detected = t.detected /\ acc.exit = t.exit /\ acc.hook = t.hook /\ acc.saved = t.saved
      /\ acc.stale = t.stale /\ acc.suppressed = t.suppressed
      /\ \A b \in Agents : acc.last[b] = IF b = a THEN m.seq ELSE t.last[b]
  BY <1>0, AcceptedFields
<1>b. Newer(t, m) => \A b \in Agents : AgentInv(acc, u, g, b)
  BY <1>0, AcceptedInv DEF TermInv
<1>c. \A b \in Agents : ExitLeavesNothing(acc, u, b)
  BY <1>a DEF TermInv, ExitLeavesNothing, Anchor
<1>3. CASE Newer(t, m) /\ r = acc
  BY <1>3, <1>a, <1>b, <1>c, SameHookInOrder
     DEF TermInv, AgentInv, AnchoredLast, HookLives, StaleIsUnsure, ExitLeavesNothing
<1>4. CASE Newer(t, m) /\ r = [left EXCEPT !.saved = AgentSession(a, m.session)]
  <2> HIDE DEF acc
  <2>1. /\ fresh \in Terms
        /\ fresh.detected = t.detected /\ fresh.exit = t.exit /\ fresh.hook = t.hook
        /\ fresh.saved = t.saved /\ fresh.last = acc.last /\ fresh.suppressed = t.suppressed
        /\ \A b \in Agents \ {a} : fresh.stale[b] = t.stale[b]
    BY <1>0, <1>a, ForgetFields
  <2> HIDE DEF fresh
  <2>2. /\ left \in Terms
        /\ left.detected = t.detected /\ left.exit = t.exit
        /\ left.last = acc.last
        /\ \A b \in Agents \ {a} : left.stale[b] = t.stale[b]
        /\ left.hook = None \/ (left.hook = t.hook /\ left.suppressed = t.suppressed /\ Owned(t, a))
        /\ left.suppressed[a] = t.suppressed[a]
        /\ \A b \in Agents \ {a} :
             \/ left.suppressed[b] = t.suppressed[b]
             \/ /\ t.hook # None /\ t.hook.agent = b /\ left.hook = None
                /\ left.suppressed[b] = Suppression(t.hook.session, "HookClear", n)
    <3>1. CASE ~Owned(t, a)
      <4> DEFINE y == SuppressHook(fresh, n)
      <4>y. y = SuppressHook(fresh, n)
        OBVIOUS
      <4> HIDE DEF y
      <4>1. /\ y \in Terms
            /\ y.detected = t.detected /\ y.exit = t.exit /\ y.hook = t.hook
            /\ y.last = acc.last /\ y.stale = fresh.stale
            /\ \A b \in Agents :
                 y.suppressed[b] = IF t.hook # None /\ t.hook.agent = b
                                   THEN Suppression(t.hook.session, "HookClear", n) ELSE t.suppressed[b]
        BY <2>1, <4>y, SuppressHookFields
      <4>2. ~(t.hook # None /\ t.hook.agent = a)
        BY <3>1 DEF Owned, Current, AgentSession
      <4>3. left = [y EXCEPT !.hook = None]
        BY <3>1, <4>y DEF left
      <4>4. /\ left \in Terms
            /\ left.detected = y.detected /\ left.exit = y.exit /\ left.hook = None
            /\ left.last = y.last /\ left.stale = y.stale /\ left.suppressed = y.suppressed
        BY <4>1, <4>3 DEF Terms, Maybe
      <4> HIDE DEF left
      <4> QED BY <1>0, <2>1, <4>1, <4>2, <4>4
    <3>2. CASE Owned(t, a) /\ t.hook # None /\ t.hook.session # m.session
      <4> DEFINE y == Remember(fresh, a, t.hook.session)
      <4>y. y = Remember(fresh, a, t.hook.session) /\ t.hook.session \in Maybe(Sessions)
        BY <3>2 DEF Terms, Maybe, Authorities
      <4> HIDE DEF y
      <4>1. /\ y \in Terms
            /\ y.detected = t.detected /\ y.exit = t.exit /\ y.last = acc.last
            /\ y.suppressed = t.suppressed
            /\ \A b \in Agents \ {a} : y.stale[b] = t.stale[b]
        BY <1>0, <2>1, <4>y, RememberFields
      <4>3. left = [y EXCEPT !.hook = None]
        BY <3>2, <4>y DEF left
      <4>4. /\ left \in Terms
            /\ left.detected = y.detected /\ left.exit = y.exit /\ left.hook = None
            /\ left.last = y.last /\ left.stale = y.stale /\ left.suppressed = y.suppressed
        BY <4>1, <4>3 DEF Terms, Maybe
      <4> HIDE DEF left
      <4> QED BY <1>0, <4>1, <4>4
    <3>3. CASE Owned(t, a) /\ ~(t.hook # None /\ t.hook.session # m.session)
      <4>1. left = fresh
        BY <3>3 DEF left
      <4> HIDE DEF left
      <4> QED BY <2>1, <3>3, <4>1
    <3> QED BY <3>1, <3>2, <3>3
  <2> HIDE DEF left
  <2> DEFINE s == AgentSession(a, m.session)
  <2>3. s \in SavedSessions /\ s # None /\ s.agent = a
    BY <1>0 DEF SavedSessions, AgentSession
  <2> HIDE DEF s
  <2>4. /\ r \in Terms
        /\ r.detected = t.detected /\ r.exit = t.exit /\ r.hook = left.hook
        /\ r.last = acc.last /\ r.stale = left.stale /\ r.suppressed = left.suppressed
        /\ r.saved = s
    <3>1. r = [left EXCEPT !.saved = s]
      BY <1>4 DEF s
    <3> QED BY <2>2, <2>3, <3>1 DEF Terms, Maybe
  <2>5. ASSUME NEW b \in Agents \ {a}
        PROVE  AgentInv(r, v, g, b) /\ ExitLeavesNothing(r, v, b)
    <3>1. AgentInv(t, u, g, b) /\ ExitLeavesNothing(t, u, b) /\ b # None
      BY DEF TermInv
    <3>2. Anchor(r, b) = None
      <4>1. t.hook # None => AgentSession(t.hook.agent, t.hook.session) # None
        BY DEF AgentSession, SavedSessions, Terms, Maybe, Authorities
      <4>2. t.hook # None /\ Owned(t, a) => t.hook.agent = a
        BY <4>1 DEF Owned, Current, AgentSession
      <4> QED BY <2>2, <2>3, <2>4, <4>2 DEF Anchor
    <3>3. r.last[b] = t.last[b]
      BY <1>a, <2>4
    <3>4. AgentInv(r, v, g, b)
      BY <2>2, <2>4, <3>1, <3>2, <3>3, OtherInv
    <3>5. ExitLeavesNothing(r, v, b)
      BY <2>4, <3>1, <3>2, OtherExit
    <3> QED BY <3>4, <3>5
  <2>6. AgentInv(r, v, g, a)
    <3>1. AgentInv(acc, u, g, a) /\ AgentInv(t, u, g, a)
      BY <1>0, <1>4, <1>b DEF TermInv
    <3>2. HeldKnown(r, a) /\ ClearedIsNamed(r, a) /\ AnnouncedLast(r, g, a)
      BY <1>a, <2>2, <2>4, <3>1 DEF AgentInv, HeldKnown, ClearedIsNamed, AnnouncedLast
    <3>3. StaleIsUnsure(r, v, a)
      BY <1>0 DEF StaleIsUnsure
    <3>4. AnchoredLast(r, v, g, a)
      BY <1>0, <1>a, <2>2, <2>4, <3>1 DEF AgentInv, AnchoredLast, Anchor
    <3>5. HookLives(r, v, g, a)
      BY <1>0, <1>a, <2>2, <2>4, <3>1 DEF AgentInv, HookLives
    <3> QED BY <3>2, <3>3, <3>4, <3>5 DEF AgentInv
  <2>7. ExitLeavesNothing(r, v, a)
    BY <1>0, <2>4 DEF ExitLeavesNothing, Present
  <2>8. InOrder(t, r, u)
    BY <2>2, <2>4, SameHookInOrder
  <2> QED BY <2>4, <2>5, <2>6, <2>7, <2>8 DEF TermInv
<1> QED BY <1>1, <1>2, <1>3, <1>4

----------------------------------------------------------------------------
(* A process of agent a shows up: its number is dropped, or the session    *)
(* that was announced and the report that was held become the state.       *)
LEMMA ValidateFields ==
  ASSUME NEW t \in Terms, NEW a \in Agents, HeldKnown(t, a), ClearedIsNamed(t, a),
         NEW r, r = Validate(t, a)
  PROVE  LET entry == t.suppressed[a]
             x == entry.pending
         IN /\ r \in Terms
            /\ r.detected = t.detected /\ r.exit = t.exit
            /\ \A b \in Agents \ {a} :
                 /\ r.stale[b] = t.stale[b] /\ r.last[b] = t.last[b]
                 /\ r.suppressed[b] = t.suppressed[b]
            /\ \/ /\ r.hook = t.hook /\ r.saved = t.saved
                  /\ \/ entry # None /\ entry.reason = "HookClear"
                        /\ r.suppressed[a] = None /\ r.stale[a] # {}
                     \/ r.suppressed[a] = entry
                        /\ (entry # None => entry.reason = "ProcessExit" /\ entry.replacement = None)
               \/ /\ entry # None /\ entry.reason = "ProcessExit" /\ entry.replacement # None
                  /\ r.suppressed[a] = None /\ r.saved # None /\ r.saved.agent = a
                  /\ \/ r.hook = t.hook /\ r.last[a] = t.last[a]
                     \/ /\ x # None /\ r.hook = x /\ r.last[a] = x.seq /\ x.seq > t.last[a]
                        /\ x \in Authorities /\ x.agent = a
<1> DEFINE entry == t.suppressed[a]
           next == entry.replacement
           held == entry.pending
           cleared == [t EXCEPT !.suppressed[a] = None]
           past == Remember(cleared, a, entry.session)
           saved == Forget(past, a, next)
           s == AgentSession(a, next)
<1>0. entry \in Maybe(Entries) /\ (entry # None => entry.session \in Maybe(Sessions))
  BY DEF Terms, Maybe, Entries
<1>e. entry = t.suppressed[a]
  OBVIOUS
<1>1. CASE entry = None
  <2>1. r = [t EXCEPT !.last[a] = 0]
    BY <1>1 DEF Validate
  <2> QED BY <1>1, <2>1 DEF Terms, Clocks
<1>2. CASE entry # None /\ entry.reason = "HookClear"
  <2> DEFINE y == Remember(t, a, entry.session)
  <2>y. y = Remember(t, a, entry.session) /\ entry.session \in Maybe(Sessions) /\ entry.session # None
    BY <1>0, <1>2 DEF ClearedIsNamed
  <2>1. r = [y EXCEPT !.suppressed[a] = None, !.last[a] = 0]
    BY <1>2 DEF Validate
  <2> HIDE DEF y, entry
  <2>2. /\ y \in Terms
        /\ y.detected = t.detected /\ y.exit = t.exit /\ y.hook = t.hook /\ y.saved = t.saved
        /\ y.last = t.last /\ y.suppressed = t.suppressed
        /\ \A b \in Agents \ {a} : y.stale[b] = t.stale[b]
        /\ y.stale[a] # {}
    BY <2>y, RememberFields
  <2>3. /\ r \in Terms
        /\ r.detected = y.detected /\ r.exit = y.exit /\ r.hook = y.hook /\ r.saved = y.saved
        /\ r.stale = y.stale /\ r.suppressed[a] = None
        /\ \A b \in Agents \ {a} : r.last[b] = y.last[b] /\ r.suppressed[b] = y.suppressed[b]
    <3>1. /\ r.detected = y.detected /\ r.exit = y.exit /\ r.hook = y.hook /\ r.saved = y.saved
          /\ r.stale = y.stale
          /\ r.last = [y.last EXCEPT ![a] = 0] /\ r.suppressed = [y.suppressed EXCEPT ![a] = None]
      BY <2>1, <2>2 DEF Terms
    <3>2. r = [y EXCEPT !.suppressed = [y.suppressed EXCEPT ![a] = None],
                        !.last = [y.last EXCEPT ![a] = 0]]
      BY <2>1, <2>2 DEF Terms
    <3>3. /\ [y.suppressed EXCEPT ![a] = None] \in [Agents -> Maybe(Entries)]
          /\ [y.last EXCEPT ![a] = 0] \in [Agents -> Clocks]
      BY <2>2 DEF Terms, Clocks, Maybe
    <3>4. y.last \in [Agents -> Clocks] /\ y.suppressed \in [Agents -> Maybe(Entries)]
      BY <2>2 DEF Terms
    <3> QED BY <2>2, <3>1, <3>2, <3>3, <3>4 DEF Terms
  <2> QED BY <1>e, <1>2, <2>2, <2>3
<1>3. CASE entry # None /\ entry.reason = "ProcessExit" /\ next = None
  <2>1. r = [t EXCEPT !.last[a] = 0]
    BY <1>3 DEF Validate
  <2> QED BY <1>3, <2>1 DEF Terms, Clocks
<1>4. CASE entry # None /\ entry.reason = "ProcessExit" /\ next # None
  <2>0. /\ next \in Sessions /\ entry.session \in Maybe(Sessions)
        /\ held # None => held \in Authorities /\ held.agent = a /\ held.seq \in Clocks
    BY <1>0, <1>4 DEF Maybe, Entries, HeldKnown, Authorities
  <2>1. /\ cleared \in Terms
        /\ cleared.detected = t.detected /\ cleared.exit = t.exit /\ cleared.hook = t.hook
        /\ cleared.last = t.last /\ cleared.stale = t.stale /\ cleared.suppressed[a] = None
        /\ \A b \in Agents \ {a} : cleared.suppressed[b] = t.suppressed[b]
    BY DEF Terms, Maybe
  <2>p. past = Remember(cleared, a, entry.session) /\ saved = Forget(past, a, next)
    OBVIOUS
  <2> HIDE DEF cleared, past, saved
  <2>2. /\ past \in Terms
        /\ past.detected = t.detected /\ past.exit = t.exit /\ past.hook = t.hook
        /\ past.last = t.last /\ past.suppressed = cleared.suppressed
        /\ \A b \in Agents \ {a} : past.stale[b] = t.stale[b]
    BY <2>0, <2>1, <2>p, RememberFields
  <2>3. /\ saved \in Terms
        /\ saved.detected = t.detected /\ saved.exit = t.exit /\ saved.hook = t.hook
        /\ saved.last = t.last /\ saved.suppressed = cleared.suppressed
        /\ \A b \in Agents \ {a} : saved.stale[b] = t.stale[b]
    BY <2>2, <2>p, ForgetFields
  <2>s. s \in SavedSessions /\ s # None /\ s.agent = a
    BY <2>0 DEF AgentSession, SavedSessions
  <2> DEFINE take == held # None /\ held.session = next /\ held.seq > t.last[a]
  <2>4. r = IF take THEN [saved EXCEPT !.saved = s, !.hook = held, !.last[a] = held.seq]
            ELSE [saved EXCEPT !.saved = s]
    BY <1>4 DEF Validate, saved, past, cleared
  <2> HIDE DEF s
  <2>5. CASE take
    <3>1. r = [saved EXCEPT !.saved = s, !.hook = held, !.last[a] = held.seq]
      BY <2>4, <2>5
    <3>2. held \in Maybe(Authorities) /\ s \in Maybe(SavedSessions)
          /\ [saved.last EXCEPT ![a] = held.seq] \in [Agents -> Clocks]
      BY <2>0, <2>3, <2>5, <2>s DEF Maybe, Terms
    <3>3. /\ r \in Terms
          /\ r.detected = saved.detected /\ r.exit = saved.exit /\ r.hook = held /\ r.saved = s
          /\ r.stale = saved.stale /\ r.suppressed = saved.suppressed
          /\ r.last = [saved.last EXCEPT ![a] = held.seq]
      BY <2>3, <3>1, <3>2 DEF Terms
    <3>4. \A b \in Agents : r.last[b] = IF b = a THEN held.seq ELSE t.last[b]
      BY <2>3, <3>3 DEF Terms
    <3> HIDE DEF entry, held, next
    <3>5. take /\ held = entry.pending /\ next = entry.replacement
      BY <2>5 DEF held, next
    <3> QED BY <1>e, <1>4, <2>0, <2>1, <2>3, <2>s, <3>3, <3>4, <3>5
  <2>6. CASE ~take
    <3>1. r = [saved EXCEPT !.saved = s]
      BY <2>4, <2>6
    <3>3. /\ r \in Terms
          /\ r.detected = saved.detected /\ r.exit = saved.exit /\ r.hook = saved.hook /\ r.saved = s
          /\ r.stale = saved.stale /\ r.suppressed = saved.suppressed /\ r.last = saved.last
      BY <2>3, <2>s, <3>1 DEF Terms, Maybe
    <3> QED BY <1>4, <2>1, <2>3, <2>s, <3>3
  <2> QED BY <2>5, <2>6
<1>5. entry = None \/ entry.reason \in {"HookClear", "ProcessExit"}
  BY <1>0 DEF Maybe, Entries
<1> QED BY <1>1, <1>2, <1>3, <1>4, <1>5

LEMMA ValidateInv ==
  ASSUME NEW t \in Terms, NEW u, NEW v, NEW g \in [Agents -> Numbers], NEW a \in Agents, PaneTypeOK,
         AgentsInv(t, u, g), NEW r, r = Validate(t, a),
         Awaited(t, v, a), Covers(v, u, r)
  PROVE  /\ r \in Terms
         /\ r.detected = t.detected /\ r.exit = t.exit
         /\ AgentsInv(r, v, g)
         /\ \A b \in Agents \ {a} : Anchor(r, b) \in {Anchor(t, b), None}
         /\ \/ r.hook = t.hook
            \/ r.hook # None /\ r.hook.agent = a /\ r.hook.seq > t.last[a]
<1> DEFINE entry == t.suppressed[a]
           x == entry.pending
<1>0. /\ \A b \in Agents : AgentInv(t, u, g, b)
      /\ \A b \in Agents : r.stale[b] # {} \/ b \in u => b \in v
  BY DEF AgentsInv, Covers
<1>1. AgentInv(t, u, g, a) /\ g[a] \in Nat /\ t.last[a] \in Nat
  BY <1>0 DEF Terms, Clocks, Ids, Numbers
<1>2. /\ r \in Terms
      /\ r.detected = t.detected /\ r.exit = t.exit
      /\ \A b \in Agents \ {a} :
           /\ r.stale[b] = t.stale[b] /\ r.last[b] = t.last[b]
           /\ r.suppressed[b] = t.suppressed[b]
      /\ \/ /\ r.hook = t.hook /\ r.saved = t.saved
            /\ \/ entry # None /\ entry.reason = "HookClear"
                  /\ r.suppressed[a] = None /\ r.stale[a] # {}
               \/ r.suppressed[a] = entry
                  /\ (entry # None => entry.reason = "ProcessExit" /\ entry.replacement = None)
         \/ /\ entry # None /\ entry.reason = "ProcessExit" /\ entry.replacement # None
            /\ r.suppressed[a] = None /\ r.saved # None /\ r.saved.agent = a
            /\ \/ r.hook = t.hook /\ r.last[a] = t.last[a]
               \/ /\ x # None /\ r.hook = x /\ r.last[a] = x.seq /\ x.seq > t.last[a]
                  /\ x \in Authorities /\ x.agent = a
  BY <1>1, ValidateFields DEF AgentInv
<1>n. \A y \in Authorities : y # None /\ y.seq \in Nat /\ y.process \in Nat
  BY DEF Authorities, Clocks, Ids, Numbers
<1> HIDE DEF entry
<1>3. \/ r.hook = t.hook
      \/ r.hook # None /\ r.hook.agent = a /\ r.hook.seq > t.last[a]
  BY <1>2
<1>4. ASSUME NEW b \in Agents \ {a}
      PROVE  Anchor(r, b) \in {Anchor(t, b), None} /\ AgentInv(r, v, g, b)
  <2>1. Anchor(r, b) \in {Anchor(t, b), None}
    BY <1>2 DEF Anchor
  <2>2. AgentInv(t, u, g, b) /\ 0 \in Counts
    BY <1>0 DEF Counts
  <2>3. AgentInv(r, v, g, b)
    BY <1>0, <1>2, <1>3, <2>1, <2>2, OtherInv
  <2> QED BY <2>1, <2>3
<1>s. StaleIsUnsure(r, v, a)
  BY <1>0 DEF StaleIsUnsure
<1>5. ASSUME r.hook = t.hook, r.saved = t.saved,
             entry # None, entry.reason = "HookClear", r.suppressed[a] = None, r.stale[a] # {}
      PROVE  AgentInv(r, v, g, a)
  BY <1>0, <1>1, <1>5, <1>s
     DEF AgentInv, HeldKnown, AnnouncedLast, AnchoredLast, HookLives, ClearedIsNamed
<1>6. ASSUME r.hook = t.hook, r.saved = t.saved, r.suppressed[a] = entry,
             entry # None => entry.reason = "ProcessExit" /\ entry.replacement = None
      PROVE  AgentInv(r, v, g, a)
  <2>1. a \in v \/ Anchor(t, a) = None
    BY <1>6 DEF Awaited, entry
  <2>2. Anchor(r, a) = Anchor(t, a)
    BY <1>6 DEF Anchor
  <2>3. HeldKnown(r, a)
    BY <1>1, <1>6 DEF AgentInv, HeldKnown, entry
  <2>4. AnnouncedLast(r, g, a) /\ ClearedIsNamed(r, a)
    BY <1>6 DEF AnnouncedLast, ClearedIsNamed
  <2>5. AnchoredLast(r, v, g, a)
    BY <2>1, <2>2 DEF AnchoredLast
  <2>6. HookLives(r, v, g, a)
    <3>1. Anchor(t, a) = None => ~(t.hook # None /\ t.hook.agent = a)
      BY DEF Anchor, Terms, Maybe, Authorities
    <3> QED BY <1>6, <2>1, <3>1 DEF HookLives
  <2> QED BY <1>s, <2>3, <2>4, <2>5, <2>6 DEF AgentInv
<1>7. ASSUME entry # None, entry.reason = "ProcessExit", entry.replacement # None,
             r.suppressed[a] = None, r.saved # None, r.saved.agent = a,
             \/ r.hook = t.hook /\ r.last[a] = t.last[a]
             \/ /\ x # None /\ r.hook = x /\ r.last[a] = x.seq /\ x.seq > t.last[a]
                /\ x \in Authorities /\ x.agent = a
      PROVE  AgentInv(r, v, g, a)
  <2>1. /\ LateUpTo(g, a, t.last[a])
        /\ x # None /\ x.process <= g[a] => x.seq <= t.last[a]
    BY <1>1, <1>7 DEF AgentInv, AnnouncedLast, entry
  <2>2. HeldKnown(r, a) /\ AnnouncedLast(r, g, a) /\ ClearedIsNamed(r, a)
    BY <1>7 DEF HeldKnown, AnnouncedLast, ClearedIsNamed
  <2>3. CASE r.hook = t.hook /\ r.last[a] = t.last[a]
    <3>1. AnchoredLast(r, v, g, a)
      BY <2>1, <2>3 DEF AnchoredLast
    <3>2. HookLives(r, v, g, a)
      BY <1>0, <1>1, <1>7, <2>3 DEF AgentInv, HookLives
    <3> QED BY <1>s, <2>2, <3>1, <3>2 DEF AgentInv
  <2>4. CASE /\ x # None /\ r.hook = x /\ r.last[a] = x.seq /\ x.seq > t.last[a]
             /\ x \in Authorities /\ x.agent = a
    <3>1. x.seq \in Nat /\ x.process \in Nat /\ x.process > g[a]
      BY <1>1, <1>n, <2>1, <2>4
    <3>2. LateUpTo(g, a, x.seq)
      BY <1>1, <2>1, <2>4, <3>1 DEF LateUpTo, PaneTypeOK, Reports, Clocks
    <3>3. AnchoredLast(r, v, g, a)
      BY <2>4, <3>2 DEF AnchoredLast
    <3>4. HookLives(r, v, g, a)
      BY <1>7, <2>4, <3>1 DEF HookLives
    <3> QED BY <1>s, <2>2, <3>3, <3>4 DEF AgentInv
  <2> QED BY <1>7, <2>3, <2>4
<1> QED BY <1>2, <1>3, <1>4, <1>5, <1>6, <1>7 DEF AgentsInv

----------------------------------------------------------------------------
(* A session start is announced; an agent that is present is validated by  *)
(* it at once.                                                             *)
LEMMA AnnounceInv ==
  ASSUME NEW t \in Terms, NEW u, NEW v, NEW g \in [Agents -> Numbers], NEW m \in flight, NEW n \in Counts,
         PaneTypeOK, Numbered, TermInv(t, u, g), NEW r, r = Announce(t, m, n),
         StartsAnew(m, g) \/ r = t,
         \A b \in Agents : r.stale[b] # {} \/ b \in u => b \in v
  PROVE  r \in Terms /\ TermInv(r, v, g) /\ InOrder(t, r, u)
<1> DEFINE a == m.agent
           old == t.suppressed[a]
           entry == IF old = None THEN Suppression(None, "ProcessExit", n) ELSE old
           held == IF /\ entry.replacement # m.session
                      /\ entry.pending # None /\ entry.pending.session # m.session
                   THEN None ELSE entry.pending
           new == [entry EXCEPT !.replacement = m.session, !.pending = held]
           acc == Accepted(t, m)
           p == [acc EXCEPT !.suppressed[a] = new]
<1>0. m \in Reports /\ a \in Agents /\ a # None /\ m.session \in Sessions /\ m.seq \in Nat
      /\ m.process \in Nat
  BY DEF PaneTypeOK, Reports, Clocks, Ids, Numbers
<1>1. \/ r = t
      \/ m.kind \in Recognized /\ Newer(t, m) /\ Present(t, a) /\ r = Validate(p, a)
      \/ m.kind \in Recognized /\ Newer(t, m) /\ r = p
  BY DEF Announce
<1>2. CASE r = t
  BY <1>2, SameHookInOrder
     DEF TermInv, AgentInv, AnchoredLast, HookLives, StaleIsUnsure, ExitLeavesNothing
<1>3. ASSUME m.kind \in Recognized, Newer(t, m), r # t
      PROVE  /\ p \in Terms
             /\ p.detected = t.detected /\ p.exit = t.exit /\ p.hook = t.hook /\ p.saved = t.saved
             /\ p.stale = t.stale
             /\ \A b \in Agents : p.last[b] = IF b = a THEN m.seq ELSE t.last[b]
             /\ \A b \in Agents : AgentInv(p, u, g, b) /\ ExitLeavesNothing(p, u, b)
             /\ p.suppressed[a] # None /\ p.suppressed[a].replacement # None
  <2>1. /\ entry \in Entries /\ entry # None
        /\ old = None => entry.reason = "ProcessExit" /\ entry.pending = None
        /\ old # None => entry = old
    BY <1>0 DEF Suppression, Entries, Maybe, Terms
  <2> HIDE DEF entry, old
  <2>2. held \in Maybe(Authorities) /\ (held = entry.pending \/ held = None)
    BY <2>1 DEF Maybe, Entries
  <2> HIDE DEF held
  <2>3. /\ new \in Entries /\ new # None
        /\ new.reason = entry.reason /\ new.session = entry.session
        /\ new.replacement = m.session /\ new.pending = held
    BY <1>0, <2>1, <2>2 DEF Entries, Maybe
  <2> HIDE DEF new
  <2>4. /\ acc \in Terms
        /\ acc.detected = t.detected /\ acc.exit = t.exit /\ acc.hook = t.hook
        /\ acc.saved = t.saved /\ acc.stale = t.stale /\ acc.suppressed = t.suppressed
        /\ \A b \in Agents : acc.last[b] = IF b = a THEN m.seq ELSE t.last[b]
    BY <1>0, AcceptedFields
  <2> HIDE DEF acc
  <2>5. /\ p \in Terms
        /\ p.detected = t.detected /\ p.exit = t.exit /\ p.hook = t.hook /\ p.saved = t.saved
        /\ p.stale = t.stale /\ p.last = acc.last /\ p.suppressed[a] = new
        /\ \A b \in Agents \ {a} : p.suppressed[b] = t.suppressed[b]
    <3>1. /\ p.detected = t.detected /\ p.exit = t.exit /\ p.hook = t.hook /\ p.saved = t.saved
          /\ p.stale = t.stale /\ p.last = acc.last
          /\ p.suppressed = [acc.suppressed EXCEPT ![a] = new]
      BY <2>4 DEF Terms
    <3>2. p = [acc EXCEPT !.suppressed = [acc.suppressed EXCEPT ![a] = new]]
      BY <2>4 DEF Terms
    <3>3. [acc.suppressed EXCEPT ![a] = new] \in [Agents -> Maybe(Entries)]
      BY <1>0, <2>3, <2>4 DEF Terms, Maybe
    <3>4. acc.suppressed \in [Agents -> Maybe(Entries)]
      BY <2>4 DEF Terms
    <3>5. p \in Terms
      BY <2>4, <3>2, <3>3 DEF Terms
    <3> QED BY <1>0, <2>3, <2>4, <3>1, <3>4, <3>5
  <2> HIDE DEF p
  <2>6. \A b \in Agents : Anchor(p, b) = Anchor(t, b)
    BY <2>5 DEF Anchor
  <2>7. ASSUME NEW b \in Agents PROVE ExitLeavesNothing(p, u, b)
    BY <2>5, <2>6 DEF TermInv, ExitLeavesNothing
  <2>8. ASSUME NEW b \in Agents \ {a} PROVE AgentInv(p, u, g, b)
    <3>1. AgentInv(t, u, g, b)
      BY DEF TermInv
    <3> QED BY <2>4, <2>5, <2>6, <3>1, OtherInv
  <2>9. AgentInv(p, u, g, a)
    <3>0. AgentInv(t, u, g, a) /\ t.last[a] \in Nat /\ g[a] \in Nat
          /\ m.seq > t.last[a] /\ p.last[a] = m.seq
      BY <1>0, <1>3, <2>4, <2>5 DEF TermInv, Terms, Clocks, PaneTypeOK, Ids, Numbers, Newer
    <3>1. g[a] < m.process
      BY <1>0, <1>3, <3>0 DEF StartsAnew
    <3>2. LateUpTo(g, a, m.seq)
      <4> SUFFICES ASSUME NEW x \in flight, x.agent = a, x.process <= g[a]
                   PROVE  x.seq <= m.seq
        BY DEF LateUpTo
      <4>1. x.process \in Nat /\ x.seq \in Nat
        BY DEF PaneTypeOK, Reports, Clocks, Ids, Numbers
      <4>2. x.process < m.process
        BY <1>0, <3>0, <3>1, <4>1
      <4>3. x.seq < m.seq
        BY <1>3, <4>2 DEF Numbered
      <4> QED BY <1>0, <4>1, <4>3
    <3>3. held # None =>
            /\ held.agent = a
            /\ \A y \in flight : held.process < y.process => held.seq < y.seq
            /\ held.process <= started /\ held.seq <= clock
            /\ held.process \in Nat /\ held.seq \in Nat
      <4>1. SUFFICES ASSUME held # None
            PROVE  /\ held.agent = a
                   /\ \A y \in flight : held.process < y.process => held.seq < y.seq
                   /\ held.process <= started /\ held.seq <= clock
                   /\ held.process \in Nat /\ held.seq \in Nat
        OBVIOUS
      <4>2. old # None /\ held = old.pending /\ entry = old
        BY <2>1, <2>2, <4>1
      <4>3. held.process \in Nat /\ held.seq \in Nat
        BY <2>2, <4>1 DEF Maybe, Authorities, Ids, Numbers, Clocks
      <4> QED BY <3>0, <4>1, <4>2, <4>3 DEF AgentInv, HeldKnown, old
    <3>4. HeldKnown(p, a)
      BY <2>3, <2>5, <3>3 DEF HeldKnown
    <3>5. AnnouncedLast(p, g, a)
      <4>1. held # None /\ held.process <= g[a] => held.seq <= m.seq
        BY <1>0, <1>3, <3>0, <3>1, <3>3
      <4> QED BY <2>3, <2>5, <3>0, <3>2, <4>1 DEF AnnouncedLast
    <3>6. AnchoredLast(p, u, g, a) /\ StaleIsUnsure(p, u, a)
      BY <2>3, <2>5, <3>0 DEF AgentInv, AnchoredLast, StaleIsUnsure
    <3>7. HookLives(p, u, g, a)
      <4>1. t.hook # None => t.hook.seq \in Nat
        BY DEF Terms, Maybe, Authorities, Clocks
      <4>2. old = None \/ old.reason # "HookClear" => new.reason # "HookClear"
        BY <2>1, <2>3
      <4> QED BY <1>0, <2>3, <2>5, <3>0, <4>1, <4>2 DEF AgentInv, HookLives, old
    <3>8. ClearedIsNamed(p, a)
      <4>1. CASE old = None
        BY <2>1, <2>3, <2>5, <4>1 DEF ClearedIsNamed
      <4>2. CASE old # None
        BY <2>1, <2>3, <2>5, <3>0, <4>2 DEF AgentInv, ClearedIsNamed, old
      <4> QED BY <4>1, <4>2
    <3> QED BY <3>4, <3>5, <3>6, <3>7, <3>8 DEF AgentInv
  <2> QED BY <1>0, <2>3, <2>4, <2>5, <2>7, <2>8, <2>9
<1> HIDE DEF p
<1>4. CASE r # t /\ m.kind \in Recognized /\ Newer(t, m) /\ r = p
  BY <1>3, <1>4, SameHookInOrder
     DEF TermInv, AgentInv, AnchoredLast, HookLives, StaleIsUnsure, ExitLeavesNothing
<1>5. CASE r # t /\ m.kind \in Recognized /\ Newer(t, m) /\ Present(t, a) /\ r = Validate(p, a)
  <2>1. /\ r \in Terms
        /\ r.detected = p.detected /\ r.exit = p.exit
        /\ AgentsInv(r, v, g)
        /\ \A b \in Agents \ {a} : Anchor(r, b) \in {Anchor(p, b), None}
        /\ \/ r.hook = p.hook
           \/ r.hook # None /\ r.hook.agent = a /\ r.hook.seq > p.last[a]
    <3>1. /\ p \in Terms /\ a \in Agents /\ r = Validate(p, a)
          /\ AgentsInv(p, u, g) /\ Covers(v, u, r)
          /\ Awaited(p, v, a)
      BY <1>0, <1>3, <1>5 DEF AgentsInv, Covers, Awaited
    <3> HIDE DEF a
    <3> QED BY <3>1, ValidateInv
  <2>2. ASSUME NEW b \in Agents PROVE ExitLeavesNothing(r, v, b)
    <3>1. CASE b = a
      BY <1>3, <1>5, <2>1, <3>1, <1>0 DEF Present, ExitLeavesNothing
    <3>2. CASE b # a
      <4>1. ExitLeavesNothing(p, u, b) /\ b # None
        BY <1>3, <1>5
      <4> QED BY <2>1, <3>2, <4>1, OtherExit
    <3> QED BY <3>1, <3>2
  <2>3. InOrder(t, r, u)
    <3>1. CASE r.hook = t.hook
      BY <3>1, SameHookInOrder
    <3>2. CASE r.hook # t.hook
      <4>1. r.hook # None /\ r.hook.agent = a /\ r.hook.seq > m.seq
        BY <1>0, <1>3, <1>5, <2>1, <3>2
      <4>2. SUFFICES ASSUME t.hook # None, t.hook.agent = a, a \notin u
            PROVE  r.hook.seq >= t.hook.seq
        BY <4>1 DEF InOrder
      <4>3. t.hook.seq <= t.last[a] /\ m.seq > t.last[a]
        BY <1>0, <1>5, <4>2 DEF TermInv, AgentInv, HookLives, Newer
      <4>4. t.hook.seq \in Nat /\ t.last[a] \in Nat /\ r.hook.seq \in Nat
        BY <1>0, <2>1, <4>1, <4>2 DEF Terms, Maybe, Authorities, Clocks
      <4> QED BY <1>0, <4>1, <4>3, <4>4
    <3> QED BY <3>1, <3>2
  <2> QED BY <2>1, <2>2, <2>3 DEF TermInv, AgentsInv
<1> QED BY <1>1, <1>2, <1>4, <1>5

(* A session report, whatever becomes of it. *)
LEMMA SessionReportInv ==
  ASSUME NEW t \in Terms, NEW u, NEW v, NEW g \in [Agents -> Numbers], NEW m \in flight, NEW n \in Counts,
         PaneTypeOK, Numbered, TermInv(t, u, g), NEW r, r = SessionReport(t, m, n),
         StartsAnew(m, g) \/ r = t,
         Covers(v, u, r)
  PROVE  r \in Terms /\ TermInv(r, v, g) /\ InOrder(t, r, u)
<1>c. \A b \in Agents : r.stale[b] # {} \/ b \in u => b \in v
  BY DEF Covers
<1>1. \/ Present(t, m.agent) /\ Anchor(t, m.agent) # None /\ r = Replace(t, m, n)
      \/ r = Announce(t, m, n)
  BY DEF SessionReport
<1>2. CASE Present(t, m.agent) /\ Anchor(t, m.agent) # None /\ r = Replace(t, m, n)
  BY <1>2, <1>c, ReplaceInv
<1>3. CASE r = Announce(t, m, n)
  BY <1>3, <1>c, AnnounceInv
<1> QED BY <1>1, <1>2, <1>3

(* A client clears the hook. *)
LEMMA ClearHookInv ==
  ASSUME NEW t \in Terms, NEW u, NEW v, NEW seq \in Clocks, NEW n \in Counts,
         TermInv(t, u, gone), NEW r, r = ClearHook(t, seq, n), Covers(v, u, r)
  PROVE  r \in Terms /\ TermInv(r, v, gone) /\ InOrder(t, r, u)
<1>1. CASE r = t
  BY <1>1, SameHookInOrder
     DEF TermInv, AgentInv, AnchoredLast, HookLives, StaleIsUnsure, ExitLeavesNothing, Covers
<1>2. CASE r # t
  <2> DEFINE a == t.hook.agent
             y == SuppressHook(t, n)
             e == Suppression(t.hook.session, "HookClear", n)
  <2>y. y = SuppressHook(t, n) /\ t.hook # None
    BY <1>2 DEF ClearHook
  <2>0. a \in Agents /\ t.hook.session \in Sessions
    BY <2>y DEF Terms, Maybe, Authorities
  <2>e. /\ e # None /\ e.reason = "HookClear" /\ e.session = t.hook.session /\ e.pending = None
        /\ e.session # None
    BY <2>0 DEF Suppression, Entries, Maybe
  <2>r. r = [y EXCEPT !.last[a] = seq, !.hook = None, !.saved = None]
    BY <1>2 DEF ClearHook
  <2> HIDE DEF y, a, e
  <2>1. /\ y \in Terms
        /\ y.detected = t.detected /\ y.exit = t.exit
        /\ y.last = t.last /\ y.stale = t.stale
        /\ \A b \in Agents : y.suppressed[b] = IF a = b THEN e ELSE t.suppressed[b]
    BY <2>y, SuppressHookFields DEF a, e
  <2>2. /\ r.detected = t.detected /\ r.exit = t.exit /\ r.hook = None /\ r.saved = None
        /\ r.last = [t.last EXCEPT ![a] = seq] /\ r.stale = t.stale /\ r.suppressed = y.suppressed
    BY <2>1, <2>r DEF Terms
  <2>3. r \in Terms
    <3>1. r = [y EXCEPT !.last = [y.last EXCEPT ![a] = seq], !.hook = None, !.saved = None]
      BY <2>1, <2>r DEF Terms
    <3>2. [y.last EXCEPT ![a] = seq] \in [Agents -> Clocks]
      BY <2>1 DEF Terms
    <3> QED BY <2>1, <3>1, <3>2 DEF Terms, Maybe
  <2>4. \A b \in Agents : Anchor(r, b) = None
    BY <2>2 DEF Anchor
  <2>5. \A b \in Agents \ {a} : r.last[b] = t.last[b]
    BY <2>2 DEF Terms
  <2>6. ASSUME NEW b \in Agents PROVE AgentInv(r, v, gone, b)
    <3>1. AgentInv(t, u, gone, b)
      BY DEF TermInv
    <3>2. AnchoredLast(r, v, gone, b) /\ HookLives(r, v, gone, b)
      BY <2>2, <2>4 DEF AnchoredLast, HookLives
    <3>3. StaleIsUnsure(r, v, b)
      BY DEF Covers, StaleIsUnsure
    <3>4. CASE b = a
      <4>1. r.suppressed[b] = e
        BY <2>1, <2>2, <3>4
      <4> QED BY <2>e, <3>2, <3>3, <4>1 DEF AgentInv, HeldKnown, AnnouncedLast, ClearedIsNamed
    <3>5. CASE b # a
      <4>1. r.suppressed[b] = t.suppressed[b] /\ r.last[b] = t.last[b]
        BY <2>1, <2>2, <2>5, <3>5
      <4> QED BY <3>1, <3>2, <3>3, <4>1 DEF AgentInv, HeldKnown, AnnouncedLast, ClearedIsNamed
    <3> QED BY <3>4, <3>5
  <2>7. \A b \in Agents : ExitLeavesNothing(r, v, b)
    BY <2>4 DEF ExitLeavesNothing
  <2>8. InOrder(t, r, u)
    BY <2>2 DEF InOrder
  <2> QED BY <2>3, <2>6, <2>7, <2>8 DEF TermInv
<1> QED BY <1>1, <1>2

----------------------------------------------------------------------------
(* An exit leaves the agent nothing but a suppression; g2 knows of it.     *)
LEMMA ExitedFields ==
  ASSUME NEW t \in Terms, NEW a \in Agents, NEW r, r = Exited(t, a)
  PROVE  /\ r \in Terms
         /\ r.detected = t.detected /\ r.exit = a
         /\ r.hook = t.hook \/ r.hook = None
         /\ ~(r.hook # None /\ r.hook.agent = a) /\ ~(r.saved # None /\ r.saved.agent = a)
         /\ \A b \in Agents \ {a} :
              /\ r.stale[b] = t.stale[b] /\ r.last[b] = t.last[b]
              /\ r.suppressed[b] = t.suppressed[b]
              /\ Anchor(r, b) = Anchor(t, b)
         /\ \/ r.suppressed[a] = t.suppressed[a]
               /\ (t.suppressed[a] # None => t.suppressed[a].reason = "HookClear")
            \/ /\ r.suppressed[a] # None /\ r.suppressed[a].reason = "ProcessExit"
               /\ r.suppressed[a].replacement = None /\ r.suppressed[a].pending = None
<1> DEFINE entry == t.suppressed[a]
           s == CASE entry.replacement # None -> entry.replacement
                  [] entry.replacement = None /\ entry.pending # None -> entry.pending.session
                  [] OTHER -> entry.session
           x == IF entry.session # s THEN entry.session ELSE None
           y == Remember(t, a, x)
           e == Suppression(s, "ProcessExit", 0)
           p == EntryExited(t, a)
           was == Anchor(p, a)
           f == Suppression(was, "ProcessExit", 0)
           q == IF was = None THEN p ELSE [Suppress(p, a, was, "ProcessExit", 0) EXCEPT !.last[a] = 0]
<1>0. a # None /\ 0 \in Counts /\ 0 \in Clocks
  BY DEF Counts, Clocks
<1>1. /\ p \in Terms
      /\ p.detected = t.detected /\ p.exit = t.exit /\ p.hook = t.hook /\ p.saved = t.saved
      /\ \A b \in Agents \ {a} :
           /\ p.stale[b] = t.stale[b] /\ p.last[b] = t.last[b]
           /\ p.suppressed[b] = t.suppressed[b]
      /\ \/ p.suppressed[a] = t.suppressed[a]
            /\ (t.suppressed[a] # None => t.suppressed[a].reason = "HookClear")
         \/ /\ p.suppressed[a] # None /\ p.suppressed[a].reason = "ProcessExit"
            /\ p.suppressed[a].replacement = None /\ p.suppressed[a].pending = None
  <2>1. CASE entry = None \/ entry.reason = "HookClear"
    <3>1. p = t
      BY <2>1 DEF EntryExited
    <3> HIDE DEF p
    <3> QED BY <2>1, <3>1
  <2>2. CASE entry # None /\ entry.reason # "HookClear"
    <3>1. entry \in Entries
      BY <2>2 DEF Terms, Maybe
    <3>2. s \in Maybe(Sessions) /\ x \in Maybe(Sessions)
      BY <3>1 DEF Entries, Maybe, Authorities
    <3>3. p = [y EXCEPT !.suppressed[a] = e, !.last[a] = 0]
      BY <2>2 DEF EntryExited
    <3>4. /\ e \in Entries /\ e # None /\ e.reason = "ProcessExit"
          /\ e.replacement = None /\ e.pending = None
      BY <1>0, <3>2 DEF Suppression, Entries, Maybe
    <3>y. y = Remember(t, a, x)
      OBVIOUS
    <3> HIDE DEF y, e, x, s, p
    <3>5. /\ y \in Terms
          /\ y.detected = t.detected /\ y.exit = t.exit /\ y.hook = t.hook /\ y.saved = t.saved
          /\ y.last = t.last /\ y.suppressed = t.suppressed
          /\ \A b \in Agents \ {a} : y.stale[b] = t.stale[b]
      BY <3>2, <3>y, RememberFields
    <3>6. /\ p.detected = y.detected /\ p.exit = y.exit /\ p.hook = y.hook /\ p.saved = y.saved
          /\ p.stale = y.stale /\ p.last = [y.last EXCEPT ![a] = 0]
          /\ p.suppressed = [y.suppressed EXCEPT ![a] = e]
      BY <3>3, <3>5 DEF Terms
    <3>7. p = [y EXCEPT !.suppressed = [y.suppressed EXCEPT ![a] = e],
                        !.last = [y.last EXCEPT ![a] = 0]]
      BY <3>3, <3>5 DEF Terms
    <3>8. /\ y.last \in [Agents -> Clocks] /\ y.suppressed \in [Agents -> Maybe(Entries)]
          /\ [y.last EXCEPT ![a] = 0] \in [Agents -> Clocks]
          /\ [y.suppressed EXCEPT ![a] = e] \in [Agents -> Maybe(Entries)]
      BY <1>0, <3>4, <3>5 DEF Terms, Maybe
    <3>9. p \in Terms
      BY <3>5, <3>7, <3>8 DEF Terms
    <3> QED BY <3>4, <3>5, <3>6, <3>8, <3>9
  <2> QED BY <2>1, <2>2
<1>r. r = [q EXCEPT !.exit = a,
             !.hook = IF @ # None /\ @.agent = a THEN None ELSE @,
             !.saved = IF @ # None /\ @.agent = a THEN None ELSE @]
  BY DEF Exited, SessionExited
<1> HIDE DEF p
<1>w. was \in Maybe(Sessions)
  BY <1>1 DEF Anchor, Terms, Maybe, Authorities, SavedSessions
<1> HIDE DEF was
<1>2. /\ q \in Terms
      /\ q.detected = t.detected /\ q.hook = t.hook /\ q.saved = t.saved
      /\ \A b \in Agents \ {a} :
           /\ q.stale[b] = t.stale[b] /\ q.last[b] = t.last[b]
           /\ q.suppressed[b] = t.suppressed[b]
      /\ \/ q.suppressed[a] = t.suppressed[a]
            /\ (t.suppressed[a] # None => t.suppressed[a].reason = "HookClear")
         \/ /\ q.suppressed[a] # None /\ q.suppressed[a].reason = "ProcessExit"
            /\ q.suppressed[a].replacement = None /\ q.suppressed[a].pending = None
  <2>1. CASE was = None
    <3>1. q = p
      BY <2>1
    <3> HIDE DEF q
    <3> QED BY <1>1, <3>1
  <2>2. CASE was # None
    <3>1. /\ f \in Entries /\ f # None /\ f.reason = "ProcessExit"
          /\ f.replacement = None /\ f.pending = None
      BY <1>0, <1>w DEF Suppression, Entries, Maybe
    <3>2. q = [[p EXCEPT !.suppressed[a] = f] EXCEPT !.last[a] = 0]
      BY <2>2 DEF Suppress
    <3> HIDE DEF q, f
    <3>6. /\ q.detected = p.detected /\ q.exit = p.exit /\ q.hook = p.hook /\ q.saved = p.saved
          /\ q.stale = p.stale /\ q.last = [p.last EXCEPT ![a] = 0]
          /\ q.suppressed = [p.suppressed EXCEPT ![a] = f]
      BY <1>1, <3>2 DEF Terms
    <3>7. q = [p EXCEPT !.suppressed = [p.suppressed EXCEPT ![a] = f],
                        !.last = [p.last EXCEPT ![a] = 0]]
      BY <1>1, <3>2 DEF Terms
    <3>8. /\ p.last \in [Agents -> Clocks] /\ p.suppressed \in [Agents -> Maybe(Entries)]
          /\ [p.last EXCEPT ![a] = 0] \in [Agents -> Clocks]
          /\ [p.suppressed EXCEPT ![a] = f] \in [Agents -> Maybe(Entries)]
      BY <1>0, <1>1, <3>1 DEF Terms, Maybe
    <3>9. q \in Terms
      BY <1>1, <3>7, <3>8 DEF Terms
    <3> QED BY <1>1, <3>1, <3>6, <3>8, <3>9
  <2> QED BY <2>1, <2>2
<1> HIDE DEF q
<1> DEFINE h == IF q.hook # None /\ q.hook.agent = a THEN None ELSE q.hook
           k == IF q.saved # None /\ q.saved.agent = a THEN None ELSE q.saved
<1>3. r = [q EXCEPT !.exit = a, !.hook = h, !.saved = k]
  BY <1>2, <1>r DEF Terms
<1>4. h \in Maybe(Authorities) /\ k \in Maybe(SavedSessions) /\ a \in Maybe(Agents)
  BY <1>2 DEF Terms, Maybe
<1> HIDE DEF h, k
<1>5. /\ r \in Terms
      /\ r.detected = q.detected /\ r.exit = a /\ r.hook = h /\ r.saved = k
      /\ r.stale = q.stale /\ r.last = q.last /\ r.suppressed = q.suppressed
  BY <1>2, <1>3, <1>4 DEF Terms
<1>6. \A b \in Agents \ {a} : Anchor(r, b) = Anchor(t, b)
  BY <1>2, <1>5 DEF Anchor, h, k
<1> QED BY <1>2, <1>5, <1>6 DEF h, k

LEMMA ExitedInv ==
  ASSUME NEW t \in Terms, NEW u, NEW v, NEW g, NEW g2, NEW a \in Agents,
         AgentsInv(t, u, g), NEW r, r = Exited(t, a),
         \A b \in Agents \ {a} : g2[b] = g[b] /\ (b \in u => b \in v),
         \A b \in Agents : r.stale[b] # {} => b \in v
  PROVE  /\ r \in Terms /\ TermInv(r, v, g2) /\ r.detected = t.detected
         /\ r.hook = t.hook \/ r.hook = None
<1>1. /\ r \in Terms
      /\ r.detected = t.detected /\ r.exit = a
      /\ r.hook = t.hook \/ r.hook = None
      /\ ~(r.hook # None /\ r.hook.agent = a) /\ ~(r.saved # None /\ r.saved.agent = a)
      /\ \A b \in Agents \ {a} :
           /\ r.stale[b] = t.stale[b] /\ r.last[b] = t.last[b]
           /\ r.suppressed[b] = t.suppressed[b]
           /\ Anchor(r, b) = Anchor(t, b)
      /\ \/ r.suppressed[a] = t.suppressed[a]
            /\ (t.suppressed[a] # None => t.suppressed[a].reason = "HookClear")
         \/ /\ r.suppressed[a] # None /\ r.suppressed[a].reason = "ProcessExit"
            /\ r.suppressed[a].replacement = None /\ r.suppressed[a].pending = None
  BY ExitedFields
<1>2. Anchor(r, a) = None
  BY <1>1 DEF Anchor
<1>3. ASSUME NEW b \in Agents \ {a} PROVE AgentInv(r, v, g2, b)
  <2>1. AgentInv(t, u, g, b) /\ 0 \in Counts
    BY DEF AgentsInv, Counts
  <2>2. AgentInv(r, v, g, b)
    BY <1>1, <2>1, OtherInv
  <2>3. g2[b] = g[b]
    OBVIOUS
  <2> QED BY <2>2, <2>3 DEF AgentInv, AnnouncedLast, AnchoredLast, HookLives, LateUpTo
<1>4. AgentInv(r, v, g2, a)
  <2>1. AgentInv(t, u, g, a)
    BY DEF AgentsInv
  <2>2. AnchoredLast(r, v, g2, a) /\ HookLives(r, v, g2, a)
    BY <1>1, <1>2 DEF AnchoredLast, HookLives
  <2>3. StaleIsUnsure(r, v, a)
    BY DEF StaleIsUnsure
  <2>4. HeldKnown(r, a) /\ ClearedIsNamed(r, a)
    BY <1>1, <2>1 DEF AgentInv, HeldKnown, ClearedIsNamed
  <2>5. AnnouncedLast(r, g2, a)
    BY <1>1 DEF AnnouncedLast
  <2> QED BY <2>2, <2>3, <2>4, <2>5 DEF AgentInv
<1>5. \A b \in Agents : ExitLeavesNothing(r, v, b)
  BY <1>1, <1>2 DEF ExitLeavesNothing
<1> QED BY <1>1, <1>3, <1>4, <1>5 DEF TermInv

----------------------------------------------------------------------------
(* Detection contradicts the hook. *)
LEMMA ContradictedInv ==
  ASSUME NEW t \in Terms, NEW v, NEW g, NEW x, NEW previous, NEW n \in Counts, TermInv(t, v, g),
         NEW r, r = Contradicted(t, x, previous, n)
  PROVE  /\ r \in Terms /\ TermInv(r, v, g)
         /\ r.detected = t.detected /\ r.stale = t.stale /\ (r.hook = t.hook \/ r.hook = None)
<1>1. CASE r = t
  BY <1>1
<1>2. CASE r # t
  <2> DEFINE y == SuppressHook(t, n)
             s == AgentSession(t.hook.agent, t.hook.session)
  <2>y. y = SuppressHook(t, n) /\ t.hook # None /\ r = [y EXCEPT !.hook = None, !.saved = s]
    BY <1>2 DEF Contradicted
  <2>s. /\ s \in SavedSessions /\ s # None
        /\ s.agent = t.hook.agent /\ s.session = t.hook.session
        /\ s \in Maybe(SavedSessions) /\ None \in Maybe(Authorities)
    BY <2>y DEF AgentSession, SavedSessions, Terms, Maybe, Authorities
  <2> HIDE DEF y, s
  <2>1. /\ y \in Terms
        /\ y.detected = t.detected /\ y.exit = t.exit
        /\ y.last = t.last /\ y.stale = t.stale
        /\ \A b \in Agents :
             y.suppressed[b] = IF t.hook # None /\ t.hook.agent = b
                               THEN Suppression(t.hook.session, "HookClear", n) ELSE t.suppressed[b]
    BY <2>y, SuppressHookFields
  <2>2. /\ r \in Terms
        /\ r.detected = y.detected /\ r.exit = y.exit /\ r.hook = None /\ r.saved = s
        /\ r.last = y.last /\ r.stale = y.stale /\ r.suppressed = y.suppressed
    BY <2>y, <2>s, <2>1 DEF Terms
  <2>3. \A b \in Agents : Anchor(r, b) \in {Anchor(t, b), None}
    BY <2>y, <2>s, <2>2 DEF Anchor
  <2>4. ASSUME NEW b \in Agents PROVE AgentInv(r, v, g, b) /\ ExitLeavesNothing(r, v, b)
    <3>1. AgentInv(t, v, g, b) /\ ExitLeavesNothing(t, v, b) /\ b # None
      BY DEF TermInv
    <3>2. \/ r.suppressed[b] = t.suppressed[b]
          \/ /\ t.hook # None /\ t.hook.agent = b /\ (r.hook = None \/ r.hook.agent # b)
             /\ r.suppressed[b] = Suppression(t.hook.session, "HookClear", n)
      BY <2>1, <2>2
    <3>3. AgentInv(r, v, g, b)
      BY <2>1, <2>2, <2>3, <3>1, <3>2, OtherInv
    <3>4. ExitLeavesNothing(r, v, b)
      BY <2>1, <2>2, <2>3, <3>1, OtherExit
    <3> QED BY <3>3, <3>4
  <2> QED BY <2>1, <2>2, <2>4 DEF TermInv
<1> QED BY <1>1, <1>2

LEMMA AgedHookFields ==
  ASSUME NEW h \in Maybe(Authorities), NEW r, r = AgedHook(h)
  PROVE  /\ r \in Maybe(Authorities) /\ (r = None <=> h = None)
         /\ h # None => /\ r.agent = h.agent /\ r.session = h.session /\ r.seq = h.seq
                        /\ r.process = h.process
<1>1. CASE h = None
  BY <1>1 DEF AgedHook
<1>2. CASE h # None
  <2>1. h \in Authorities /\ Aged(h.older) \in Counts
    BY <1>2 DEF Maybe, Authorities, Aged, Counts
  <2>2. r = [h EXCEPT !.older = Aged(h.older)]
    BY <1>2, <2>1 DEF AgedHook, Authorities
  <2>3. r \in Authorities /\ r # None
    BY <2>1, <2>2 DEF Authorities
  <2>4. /\ r.agent = h.agent /\ r.session = h.session /\ r.seq = h.seq /\ r.process = h.process
    BY <2>1, <2>2 DEF Authorities
  <2> QED BY <1>2, <2>3, <2>4 DEF Maybe
<1> QED BY <1>1, <1>2

LEMMA AgedEntryFields ==
  ASSUME NEW e \in Maybe(Entries), NEW r, r = AgedEntry(e)
  PROVE  /\ r \in Maybe(Entries) /\ (r = None <=> e = None)
         /\ e # None => /\ r.session = e.session /\ r.reason = e.reason
                        /\ r.replacement = e.replacement /\ r.pending = AgedHook(e.pending)
                        /\ e.pending \in Maybe(Authorities)
<1>1. CASE e = None
  BY <1>1 DEF AgedEntry
<1>2. CASE e # None
  <2> DEFINE h == AgedHook(e.pending)
  <2>1. e \in Entries /\ Aged(e.older) \in Counts
    BY <1>2 DEF Maybe, Entries, Aged, Counts
  <2>2. e.pending \in Maybe(Authorities)
    BY <2>1 DEF Entries
  <2>3. h \in Maybe(Authorities)
    BY <2>2, AgedHookFields
  <2>4. r = [e EXCEPT !.older = Aged(e.older), !.pending = h]
    BY <1>2, <2>1 DEF AgedEntry, Entries
  <2> HIDE DEF h
  <2>5. r \in Entries /\ r # None
    BY <2>1, <2>3, <2>4 DEF Entries
  <2>6. /\ r.session = e.session /\ r.reason = e.reason
        /\ r.replacement = e.replacement /\ r.pending = h
    BY <2>1, <2>4 DEF Entries
  <2> QED BY <1>2, <2>2, <2>5, <2>6 DEF Maybe, h
<1> QED BY <1>1, <1>2

(* The first of the results is handled: what is older is counted anew. *)
LEMMA PoppedInv ==
  ASSUME NEW t \in Terms, NEW v, NEW g, TermInv(t, v, g), NEW r, r = Popped(t)
  PROVE  /\ r \in Terms /\ TermInv(r, v, g)
         /\ r.detected = t.detected /\ r.stale = t.stale
         /\ r.hook = AgedHook(t.hook) /\ t.hook \in Maybe(Authorities)
<1> DEFINE h == AgedHook(t.hook)
           f == [a \in Agents |-> AgedEntry(t.suppressed[a])]
<1>1. t.hook \in Maybe(Authorities) /\ t.suppressed \in [Agents -> Maybe(Entries)]
  BY DEF Terms
<1>2. /\ h \in Maybe(Authorities) /\ (h = None <=> t.hook = None)
      /\ t.hook # None => /\ h.agent = t.hook.agent /\ h.session = t.hook.session
                          /\ h.seq = t.hook.seq /\ h.process = t.hook.process
  BY <1>1, AgedHookFields
<1>3. ASSUME NEW a \in Agents
      PROVE  LET e == t.suppressed[a]
             IN /\ f[a] = AgedEntry(e)
                /\ f[a] \in Maybe(Entries) /\ (f[a] = None <=> e = None)
                /\ e # None =>
                     /\ f[a].session = e.session /\ f[a].reason = e.reason
                     /\ f[a].replacement = e.replacement
                     /\ f[a].pending = None <=> e.pending = None
                     /\ e.pending # None =>
                          /\ f[a].pending.agent = e.pending.agent
                          /\ f[a].pending.process = e.pending.process
                          /\ f[a].pending.seq = e.pending.seq
  <2> DEFINE e == t.suppressed[a]
  <2>1. e \in Maybe(Entries) /\ f[a] = AgedEntry(e)
    BY <1>1
  <2> HIDE DEF e, f
  <2>2. /\ f[a] \in Maybe(Entries) /\ (f[a] = None <=> e = None)
        /\ e # None => /\ f[a].session = e.session /\ f[a].reason = e.reason
                       /\ f[a].replacement = e.replacement /\ f[a].pending = AgedHook(e.pending)
                       /\ e.pending \in Maybe(Authorities)
    BY <2>1, AgedEntryFields
  <2>3. e # None =>
          /\ f[a].pending = None <=> e.pending = None
          /\ e.pending # None =>
               /\ f[a].pending.agent = e.pending.agent
               /\ f[a].pending.process = e.pending.process
               /\ f[a].pending.seq = e.pending.seq
    BY <2>2, AgedHookFields
  <2> QED BY <2>1, <2>2, <2>3 DEF e
<1>4. f \in [Agents -> Maybe(Entries)]
  BY <1>3
<1>r. r = [t EXCEPT !.hook = h, !.suppressed = f]
  BY DEF Popped, Terms
<1>h. h = AgedHook(t.hook)
  OBVIOUS
<1> HIDE DEF h, f
<1>5. /\ r \in Terms
      /\ r.detected = t.detected /\ r.exit = t.exit /\ r.hook = h /\ r.saved = t.saved
      /\ r.stale = t.stale /\ r.last = t.last /\ r.suppressed = f
  BY <1>2, <1>4, <1>r DEF Terms
<1>6. \A b \in Agents : Anchor(r, b) = Anchor(t, b)
  BY <1>2, <1>5 DEF Anchor
<1>7. ASSUME NEW b \in Agents PROVE AgentInv(r, v, g, b) /\ ExitLeavesNothing(r, v, b)
  <2>1. AgentInv(t, v, g, b) /\ ExitLeavesNothing(t, v, b)
    BY DEF TermInv
  <2>2. HeldKnown(r, b)
    BY <1>3, <1>5, <2>1 DEF AgentInv, HeldKnown
  <2>3. AnnouncedLast(r, g, b) /\ ClearedIsNamed(r, b)
    BY <1>3, <1>5, <2>1 DEF AgentInv, AnnouncedLast, ClearedIsNamed
  <2>4. AnchoredLast(r, v, g, b) /\ StaleIsUnsure(r, v, b)
    BY <1>3, <1>5, <1>6, <2>1 DEF AgentInv, AnchoredLast, StaleIsUnsure
  <2>5. HookLives(r, v, g, b)
    BY <1>2, <1>3, <1>5, <2>1 DEF AgentInv, HookLives
  <2>6. ExitLeavesNothing(r, v, b)
    BY <1>5, <1>6, <2>1 DEF ExitLeavesNothing
  <2> QED BY <2>2, <2>3, <2>4, <2>5, <2>6 DEF AgentInv
<1> QED BY <1>1, <1>5, <1>7, <1>h DEF TermInv

(* v has the agents of Doubt after the result x, that took t to r.         *)
Doubts(v, u, t, r, x) ==
  /\ \A a \in Agents : r.stale[a] # {} => a \in v
  /\ \A a \in Agents : ~(x.exited /\ a = x.agent) =>
       /\ a \in u => a \in v
       /\ t.detected # a /\ r.detected = a /\ Anchor(t, a) # None => a \in v

(* A detection result, whatever becomes of it. *)
LEMMA DetectionInv ==
  ASSUME NEW t \in Terms, NEW u, NEW g \in [Agents -> Numbers], NEW x \in Results, NEW n \in Counts,
         PaneTypeOK, TermInv(t, u, g), x.exited => x.agent # None,
         NEW r, r = DetectionResult(t, x, n),
         NEW g2, g2 = IF x.exited THEN [g EXCEPT ![x.agent] = x.told] ELSE g,
         NEW v, Doubts(v, u, t, r, x)
  PROVE  r \in Terms /\ TermInv(r, v, g2) /\ InOrder(t, r, u)
<1> DEFINE a == x.agent
           fromExit == t.exit # None /\ t.exit = a
           seen == [t EXCEPT !.detected = a]
           valid == Validate(seen, a)
           known == CASE x.exited -> Exited(seen, a)
                      [] ~x.exited /\ a # None /\ (fromExit \/ t.detected # a) ->
                           [valid EXCEPT !.exit = None]
                      [] ~x.exited /\ a # None /\ ~fromExit /\ t.detected = a ->
                           [seen EXCEPT !.exit = None]
                      [] OTHER -> seen
           con == Contradicted(known, x, t.detected, n)
<1>v. /\ \A b \in Agents : r.stale[b] # {} => b \in v
      /\ \A b \in Agents : ~(x.exited /\ b = a) =>
           /\ b \in u => b \in v
           /\ t.detected # b /\ r.detected = b /\ Anchor(t, b) # None => b \in v
  BY DEF Doubts
<1>0. a \in Maybe(Agents) /\ x.exited \in BOOLEAN /\ (a # None => a \in Agents)
  BY DEF Results, Maybe
<1>1. /\ seen \in Terms
      /\ seen.detected = a /\ seen.exit = t.exit /\ seen.hook = t.hook /\ seen.saved = t.saved
      /\ seen.last = t.last /\ seen.stale = t.stale /\ seen.suppressed = t.suppressed
  BY <1>0 DEF Terms
<1>r. \/ r = Popped(t) /\ ~x.exited
      \/ r = Popped(con)
  BY <1>0 DEF DetectionResult, Overruled, Predates
<1>2. CASE r = Popped(t) /\ ~x.exited
  <2>1. r \in Terms /\ TermInv(r, u, g) /\ r.hook = AgedHook(t.hook) /\ t.hook \in Maybe(Authorities)
    BY <1>2, PoppedInv
  <2>2. g2 = g
    BY <1>2
  <2>3. TermInv(r, v, g2)
    BY <1>2, <1>v, <2>1, <2>2
       DEF TermInv, AgentInv, AnchoredLast, HookLives, StaleIsUnsure, ExitLeavesNothing
  <2>4. InOrder(t, r, u)
    <3>1. t.hook # None => t.hook.seq \in Nat /\ r.hook.seq = t.hook.seq
      BY <2>1, AgedHookFields DEF Maybe, Authorities, Clocks
    <3> QED BY <3>1 DEF InOrder
  <2> QED BY <2>1, <2>3, <2>4
<1>3. CASE r = Popped(con)
  <2>1. \A b \in Agents : AgentInv(seen, u, g, b) /\ Anchor(seen, b) = Anchor(t, b)
    <3> HIDE DEF seen
    <3>1. \A b \in Agents : Anchor(seen, b) = Anchor(t, b)
      BY <1>1 DEF Anchor
    <3>2. \A b \in Agents : AgentInv(t, u, g, b)
      BY DEF TermInv
    <3> QED BY <1>1, <3>1, <3>2
        DEF AgentInv, HeldKnown, AnnouncedLast, AnchoredLast, HookLives, ClearedIsNamed, StaleIsUnsure
  <2> DEFINE Known == /\ known \in Terms /\ TermInv(known, v, g2)
                      /\ \/ known.hook = t.hook \/ known.hook = None
                         \/ /\ a \in Agents /\ known.hook.agent = a /\ known.hook.seq > t.last[a]
  <2>2. ASSUME known \in Terms
        PROVE  /\ con \in Terms /\ con.detected = known.detected /\ con.stale = known.stale
               /\ r.detected = known.detected /\ r.stale = known.stale
    <3>1. /\ con.detected = known.detected /\ con.stale = known.stale
          /\ con \in Terms
      <4> HIDE DEF known
      <4>1. CASE con = known
        BY <2>2, <4>1
      <4>2. CASE con # known
        <5> DEFINE y == SuppressHook(known, n)
                   s == AgentSession(known.hook.agent, known.hook.session)
        <5>1. y = SuppressHook(known, n) /\ known.hook # None
              /\ con = [y EXCEPT !.hook = None, !.saved = s]
          BY <4>2 DEF Contradicted
        <5>2. s \in Maybe(SavedSessions)
          BY <2>2, <5>1 DEF AgentSession, SavedSessions, Terms, Maybe, Authorities
        <5> HIDE DEF y, s, con
        <5>3. y \in Terms /\ y.detected = known.detected /\ y.stale = known.stale
          BY <2>2, <5>1, SuppressHookFields
        <5> QED BY <5>1, <5>2, <5>3 DEF Terms, Maybe
      <4> QED BY <4>1, <4>2
    <3> HIDE DEF con, known
    <3>2. r.detected = con.detected /\ r.stale = con.stale
      BY <1>3, <3>1 DEF Popped, Terms
    <3> QED BY <3>1, <3>2
  <2>3. Known
    <3>1. CASE x.exited
      <4>1. known = Exited(seen, a) /\ a \in Agents
        BY <1>0, <3>1
      <4> HIDE DEF known, seen
      <4>2. known \in Terms
        BY <1>1, <4>1, ExitedFields
      <4>3. r.stale = known.stale
        BY <2>2, <4>2
      <4>4. \A b \in Agents \ {a} : g2[b] = g[b] /\ (b \in u => b \in v)
        BY <1>v, <3>1, <4>1
      <4>5. \A b \in Agents : known.stale[b] # {} => b \in v
        BY <1>v, <4>3
      <4>6. AgentsInv(seen, u, g)
        BY <2>1 DEF AgentsInv
      <4>7. /\ known \in Terms /\ TermInv(known, v, g2)
            /\ known.hook = seen.hook \/ known.hook = None
        <5>1. seen \in Terms /\ a \in Agents /\ known = Exited(seen, a) /\ AgentsInv(seen, u, g)
          BY <1>1, <4>1, <4>6
        <5> HIDE DEF a
        <5> QED BY ONLY <4>4, <4>5, <5>1, ExitedInv
      <4> QED BY <1>1, <4>7
    <3>2. CASE ~x.exited /\ a # None /\ (fromExit \/ t.detected # a)
      <4>0. a \in Agents /\ g2 = g
        BY <1>0, <3>2
      <4>1. known = [valid EXCEPT !.exit = None] /\ valid = Validate(seen, a)
        BY <3>2
      <4> HIDE DEF known, seen, valid
      <4>2. HeldKnown(seen, a) /\ ClearedIsNamed(seen, a)
        BY <2>1, <4>0 DEF AgentInv
      <4>3. valid \in Terms /\ valid.detected = a
        BY <1>1, <4>0, <4>1, <4>2, ValidateFields
      <4>4. /\ known \in Terms /\ known.exit = None
            /\ known.detected = valid.detected /\ known.hook = valid.hook
            /\ known.saved = valid.saved /\ known.last = valid.last
            /\ known.stale = valid.stale /\ known.suppressed = valid.suppressed
        BY <4>1, <4>3 DEF Terms, Maybe
      <4>5. r.stale = valid.stale /\ r.detected = a
        BY <2>2, <4>3, <4>4
      <4>6. Covers(v, u, valid)
        BY <1>v, <3>2, <4>5 DEF Covers
      <4>7. a \in v \/ Anchor(seen, a) = None
        <5>1. CASE t.detected # a
          BY <1>v, <2>1, <3>2, <4>0, <4>5, <5>1
        <5>2. CASE fromExit
          <6>1. a \in u \/ Anchor(t, a) = None
            BY <4>0, <5>2 DEF TermInv, ExitLeavesNothing
          <6> QED BY <1>v, <2>1, <3>2, <4>0, <6>1
        <5> QED BY <3>2, <5>1, <5>2
      <4>8. AgentsInv(seen, u, g)
        BY <2>1 DEF AgentsInv
      <4>9. /\ AgentsInv(valid, v, g)
            /\ \/ valid.hook = seen.hook
               \/ valid.hook # None /\ valid.hook.agent = a /\ valid.hook.seq > seen.last[a]
        <5>1. /\ seen \in Terms /\ a \in Agents /\ valid = Validate(seen, a)
              /\ AgentsInv(seen, u, g) /\ Covers(v, u, valid) /\ g \in [Agents -> Numbers]
          BY <1>1, <4>0, <4>1, <4>6, <4>8
        <5> HIDE DEF a
        <5>2. Awaited(seen, v, a)
          BY <4>7 DEF Awaited
        <5> QED BY ONLY <5>1, <5>2, PaneTypeOK, ValidateInv
      <4>10. \A b \in Agents : Anchor(known, b) = Anchor(valid, b)
        BY <4>4 DEF Anchor
      <4>11. \A b \in Agents : AgentInv(known, v, g, b)
        BY <4>4, <4>9, <4>10
           DEF AgentsInv, AgentInv, HeldKnown, AnnouncedLast, AnchoredLast, HookLives,
               ClearedIsNamed, StaleIsUnsure
      <4>12. \A b \in Agents : ExitLeavesNothing(known, v, b)
        BY <4>4 DEF ExitLeavesNothing
      <4>13. TermInv(known, v, g2)
        BY <4>0, <4>11, <4>12 DEF TermInv
      <4> QED BY <1>1, <4>0, <4>4, <4>9, <4>13
    <3>3. CASE ~x.exited /\ a # None /\ ~fromExit /\ t.detected = a
      <4>1. known = [seen EXCEPT !.exit = None] /\ g2 = g
        BY <3>3
      <4> HIDE DEF known, seen
      <4>2. /\ known \in Terms /\ known.exit = None
            /\ known.detected = seen.detected /\ known.hook = seen.hook
            /\ known.saved = seen.saved /\ known.last = seen.last
            /\ known.stale = seen.stale /\ known.suppressed = seen.suppressed
        BY <1>1, <4>1 DEF Terms, Maybe
      <4>3. \A b \in Agents : b \in u => b \in v
        BY <1>v, <3>3
      <4>4. \A b \in Agents : Anchor(known, b) = Anchor(seen, b)
        BY <4>2 DEF Anchor
      <4>5. \A b \in Agents : AgentInv(known, v, g, b)
        BY <2>1, <4>2, <4>3, <4>4
           DEF AgentInv, HeldKnown, AnnouncedLast, AnchoredLast, HookLives, ClearedIsNamed, StaleIsUnsure
      <4>6. \A b \in Agents : ExitLeavesNothing(known, v, b)
        BY <4>2 DEF ExitLeavesNothing
      <4> QED BY <1>1, <4>1, <4>2, <4>5, <4>6 DEF TermInv
    <3>4. CASE ~x.exited /\ a = None
      <4>1. known = seen /\ g2 = g
        BY <3>4
      <4> HIDE DEF known, seen
      <4>3. \A b \in Agents : b \in u => b \in v
        BY <1>v, <3>4
      <4>5. \A b \in Agents : AgentInv(seen, v, g, b)
        BY <2>1, <4>3
           DEF AgentInv, AnchoredLast, HookLives, StaleIsUnsure
      <4>6. \A b \in Agents : ExitLeavesNothing(seen, v, b)
        BY <1>1, <2>1, <4>3 DEF TermInv, ExitLeavesNothing
      <4> QED BY <1>1, <4>1, <4>5, <4>6 DEF TermInv
    <3> QED BY <3>1, <3>2, <3>3, <3>4
  <2> HIDE DEF known
  <2>4. con \in Terms /\ TermInv(con, v, g2) /\ (con.hook = known.hook \/ con.hook = None)
    BY <2>3, ContradictedInv
  <2> HIDE DEF con
  <2>5. r \in Terms /\ TermInv(r, v, g2) /\ r.hook = AgedHook(con.hook)
        /\ con.hook \in Maybe(Authorities)
    BY <1>3, <2>4, PoppedInv
  <2>6. InOrder(t, r, u)
    <3>1. SUFFICES ASSUME t.hook # None, r.hook # None, r.hook.agent = t.hook.agent,
                          t.hook.agent \notin u
          PROVE  r.hook.seq >= t.hook.seq
      BY DEF InOrder
    <3>2. /\ con.hook # None /\ r.hook.agent = con.hook.agent /\ r.hook.seq = con.hook.seq
      BY <2>5, <3>1, AgedHookFields
    <3>3. t.hook.seq \in Nat /\ con.hook.seq \in Nat /\ t.hook.agent \in Agents
      BY <2>5, <3>1, <3>2 DEF Terms, Maybe, Authorities, Clocks
    <3>4. \/ con.hook = t.hook
          \/ con.hook.agent = a /\ a \in Agents /\ con.hook.seq > t.last[a]
      BY <2>3, <2>4, <3>2
    <3>5. CASE con.hook = t.hook
      BY <3>2, <3>3, <3>5
    <3>6. CASE con.hook.agent = a /\ a \in Agents /\ con.hook.seq > t.last[a]
      <4>1. t.hook.agent = a /\ t.last[a] \in Nat
        BY <3>1, <3>2, <3>6 DEF Terms, Clocks
      <4>2. t.hook.seq <= t.last[a]
        BY <3>1, <3>6, <4>1 DEF TermInv, AgentInv, HookLives
      <4> QED BY <3>2, <3>3, <3>6, <4>1, <4>2
    <3> QED BY <3>4, <3>5, <3>6
  <2> QED BY <2>5, <2>6
<1> QED BY <1>r, <1>2, <1>3

----------------------------------------------------------------------------
(* The steps.  What is said of a record stays true when reports arrive or  *)
(* are lost, processes start and clears are sent.                          *)
LEMMA StaysTrue ==
  ASSUME term' \in Terms, TermInv(term', unsure', gone'), flight' \subseteq flight,
         started \in Nat, started' \in Nat, started <= started',
         clock \in Nat, clock' \in Nat, clock <= clock'
  PROVE  TermInv(term, unsure, gone)'
<1> SUFFICES ASSUME NEW a \in Agents
             PROVE  AgentInv(term, unsure, gone, a)' /\ ExitLeavesNothing(term, unsure, a)'
  BY DEF TermInv
<1>1. AgentInv(term', unsure', gone', a) /\ ExitLeavesNothing(term', unsure', a)
  BY DEF TermInv
<1>2. ASSUME NEW k PROVE LateUpTo(gone', a, k) => LateUpTo(gone, a, k)'
  BY DEF LateUpTo
<1>3. HeldKnown(term, a)'
  <2>1. HeldKnown(term', a)
    BY <1>1 DEF AgentInv
  <2> DEFINE e == term'.suppressed[a]
  <2>2. e # None /\ e.pending # None => e.pending.process \in Nat /\ e.pending.seq \in Nat
    BY DEF Terms, Maybe, Entries, Authorities, Ids, Numbers, Clocks
  <2> QED BY <2>1, <2>2 DEF HeldKnown
<1>4. AnnouncedLast(term, gone, a)'
  BY <1>1, <1>2 DEF AgentInv, AnnouncedLast
<1>5. AnchoredLast(term, unsure, gone, a)'
  BY <1>1, <1>2 DEF AgentInv, AnchoredLast, Anchor
<1>6. HookLives(term, unsure, gone, a)' /\ ClearedIsNamed(term, a)' /\ StaleIsUnsure(term, unsure, a)'
  BY <1>1 DEF AgentInv, HookLives, ClearedIsNamed, StaleIsUnsure
<1>7. ExitLeavesNothing(term, unsure, a)'
  BY <1>1 DEF ExitLeavesNothing, Anchor
<1> QED BY <1>3, <1>4, <1>5, <1>6, <1>7 DEF AgentInv

LEMMA Initially == Init => Inv
<1> SUFFICES ASSUME Init PROVE Inv
  OBVIOUS
<1> USE DEF Init
<1>1. /\ 0 \in Numbers /\ 0 \in Clocks /\ 0 \in Counts /\ 0 \in 0 .. MaxClears
  BY DEF Ids, Numbers, Clocks, Counts
<1>2. term \in Terms
  BY <1>1 DEF Blank, Terms, Maybe
<1>3. PaneTypeOK
  <2>1. results \in Seq(Results) /\ Len(results) <= MaxResults
    OBVIOUS
  <2>2. \A a \in Agents : term.suppressed[a] = None
    BY DEF Blank
  <2>3. gone \in [Agents -> Numbers]
    BY <1>1
  <2> QED BY <1>1, <1>2, <2>1, <2>2, <2>3 DEF PaneTypeOK, Maybe
<1>4. Numbered
  BY DEF Numbered
<1>5. \A a \in Agents : AgentInv(term, unsure, gone, a) /\ ExitLeavesNothing(term, unsure, a)
  BY DEF Blank, AgentInv, HeldKnown, AnnouncedLast, AnchoredLast, HookLives, ClearedIsNamed,
         StaleIsUnsure, ExitLeavesNothing, Anchor
<1> QED BY <1>3, <1>4, <1>5 DEF Inv, TermInv

(* A history that knows less of an agent: nothing of it is late.           *)
LEMMA KnowsLess ==
  ASSUME NEW t \in Terms, NEW u, NEW g \in [Agents -> Numbers], NEW k \in [Agents -> Numbers],
         flight \subseteq Reports, TermInv(t, u, g),
         \A b \in Agents : k[b] = g[b] \/ k[b] = 0
  PROVE  TermInv(t, u, k)
<1> SUFFICES ASSUME NEW a \in Agents PROVE AgentInv(t, u, k, a) /\ ExitLeavesNothing(t, u, a)
  BY DEF TermInv
<1>1. AgentInv(t, u, g, a) /\ ExitLeavesNothing(t, u, a)
  BY DEF TermInv
<1>2. CASE k[a] = g[a]
  BY <1>1, <1>2 DEF AgentInv, AnnouncedLast, AnchoredLast, HookLives, LateUpTo
<1>3. CASE k[a] = 0
  <2>1. /\ \A x \in Authorities : x # None /\ x.process > 0
        /\ \A x \in flight : x.process > 0
    BY DEF Authorities, Reports, Ids
  <2>2. \A n : LateUpTo(k, a, n)
    <3>1. \A x \in flight : x.process \in Nat /\ ~(x.process <= 0)
      BY DEF Reports, Ids
    <3> QED BY <1>3, <3>1 DEF LateUpTo
  <2>3. AnnouncedLast(t, k, a)
    <3>1. t.suppressed[a] # None /\ t.suppressed[a].pending # None
            => ~(t.suppressed[a].pending.process <= k[a])
      BY <1>3 DEF Terms, Maybe, Entries, Authorities, Ids
    <3> QED BY <2>2, <3>1 DEF AnnouncedLast
  <2>4. HookLives(t, u, k, a)
    <3>1. t.hook # None => t.hook.process > k[a]
      BY <1>3, <2>1 DEF Terms, Maybe
    <3> QED BY <1>1, <3>1 DEF AgentInv, HookLives
  <2> QED BY <1>1, <2>2, <2>3, <2>4 DEF AgentInv, AnchoredLast
<1> QED BY <1>2, <1>3

(* A step of the processes, of their reports or of the detection task      *)
(* leaves the terminal as it is.                                           *)
LEMMA OutsideSteps ==
  ASSUME Inv, Foreground \/ Probe \/ ReadScreen
  PROVE  Inv' /\ term' = term
<1> USE DEF Inv
<1>0. /\ started \in Nat /\ clock \in Nat /\ started <= MaxProcesses /\ clock <= MaxReports
      /\ MaxProcesses \in Nat /\ MaxReports \in Nat
      /\ \A a \in Agents : gone[a] \in Nat
      /\ \A m \in flight : m.process \in Nat /\ m.seq \in Nat
  BY DEF PaneTypeOK, Ids, Numbers, Clocks, Reports
<1>b. \A i \in 1 .. Len(results) : results[i] \in Results /\ results[i].told \in Nat
  <2>1. results \in Seq(Results)
    BY DEF PaneTypeOK
  <2>2. \A i \in 1 .. Len(results) : results[i] \in Results
    BY <2>1
  <2> QED BY <2>2 DEF Results, Ids, Numbers
<1>a. ASSUME UNCHANGED <<term, history>>, flight' \subseteq flight,
             started' \in Nat, started <= started', clock' = clock
      PROVE  TermInv(term, unsure, gone)'
  <2>1. term' \in Terms /\ TermInv(term', unsure', gone')
    BY <1>a DEF PaneTypeOK, history
  <2> QED BY <1>0, <1>a, <2>1, StaysTrue
<1>1. ASSUME NEW a \in Agents, NEW s \in Sessions, Launch(a, s) PROVE Inv' /\ term' = term
  <2> USE <1>1 DEF Launch, history, hookVars, taskVars
  <2>1. Process(a, s) \in Processes /\ Process(a, s).id = started + 1
    BY <1>0 DEF Process, Processes, Ids, Numbers
  <2>2. PaneTypeOK'
    BY <1>0, <2>1 DEF PaneTypeOK, Maybe, Ids, Numbers
  <2>3. Numbered'
    <3>1. started' = started + 1 /\ process'.id = started'
      BY <2>1
    <3>2. \A b \in Agents : gone'[b] < started'
      BY <1>0 DEF Numbered
    <3>4. \A i \in 1 .. Len(results') : results'[i].exited =>
            /\ results'[i].agent # None /\ results'[i].told < started'
      BY <1>0, <1>b DEF Numbered
    <3>5. \A m \in flight : m.process <= started' /\ m.seq <= clock'
      BY <1>0 DEF Numbered
    <3>6. \A i \in 1 .. Len(results') : results'[i].told \in Nat
      BY <1>b
    <3> QED BY <1>0, <3>1, <3>2, <3>4, <3>5, <3>6 DEF Numbered
  <2>4. TermInv(term, unsure, gone)'
    BY <1>0, <1>a
  <2> QED BY <2>2, <2>3, <2>4
<1>2. ASSUME Quit PROVE Inv' /\ term' = term
  <2> USE <1>2 DEF Quit, history, hookVars, taskVars
  <2>1. PaneTypeOK'
    BY DEF PaneTypeOK, Maybe
  <2>2. Numbered'
    BY DEF Numbered
  <2>3. TermInv(term, unsure, gone)'
    BY <1>0, <1>a
  <2> QED BY <2>1, <2>2, <2>3
<1>3. ASSUME NEW s \in Sessions, Change(s) PROVE Inv' /\ term' = term
  <2> USE <1>3 DEF Change, history, hookVars, taskVars
  <2>1. process' \in Processes /\ process'.id = process.id
    BY DEF PaneTypeOK, Maybe, Processes
  <2>2. PaneTypeOK'
    BY <2>1 DEF PaneTypeOK, Maybe
  <2>3. Numbered'
    BY <2>1 DEF Numbered
  <2>4. TermInv(term, unsure, gone)'
    BY <1>0, <1>a
  <2> QED BY <2>2, <2>3, <2>4
<1>4. ASSUME NEW kind \in {"startup", "new", "session", "state"}, Send(kind)
      PROVE  Inv' /\ term' = term
  <2> USE <1>4 DEF Send, history, taskVars
  <2> DEFINE m == Report(kind, process.agent, process.session, clock + 1, process.id)
  <2>1. process \in Processes /\ process.id = started
    BY DEF PaneTypeOK, Maybe, Numbered
  <2>2. /\ m \in Reports /\ m.agent \in Agents /\ m.seq = clock + 1 /\ m.process = started
        /\ m.kind = kind
    BY <1>0, <2>1 DEF Report, Reports, Processes, Clocks
  <2>3. process' \in Processes /\ process'.id = started
    BY <2>1 DEF Processes
  <2>f. flight' = flight \cup {m} /\ clock' = clock + 1 /\ started' = started
    OBVIOUS
  <2> HIDE DEF m
  <2>4. PaneTypeOK'
    BY <1>0, <2>2, <2>3, <2>f DEF PaneTypeOK, Maybe, Clocks
  <2>5. Numbered'
    <3>1. process' # None /\ process'.id = started'
      BY <2>3, <2>f
    <3>2. \A x \in flight' : x.process <= started' /\ x.seq <= clock'
      BY <1>0, <2>2, <2>f DEF Numbered
    <3>4. \A y, x \in flight' : x.process < y.process => x.seq < y.seq
      BY <1>0, <2>2, <2>f DEF Numbered
    <3>5. \A a \in Agents : gone'[a] < started'
      BY <2>f DEF Numbered
    <3>6. \A i \in 1 .. Len(results') : results'[i].exited =>
            /\ results'[i].agent # None /\ results'[i].told < started' /\ results'[i].told \in Nat
      BY <1>b, <2>f DEF Numbered
    <3> QED BY <1>0, <2>f, <3>1, <3>2, <3>4, <3>5, <3>6 DEF Numbered
  <2>6. TermInv(term, unsure, gone)'
    <3> SUFFICES ASSUME NEW a \in Agents
                 PROVE  AgentInv(term, unsure, gone, a)' /\ ExitLeavesNothing(term, unsure, a)'
      BY DEF TermInv
    <3>1. AgentInv(term, unsure, gone, a) /\ ExitLeavesNothing(term, unsure, a)
      BY DEF TermInv
    <3>2. ASSUME NEW k PROVE LateUpTo(gone, a, k) => LateUpTo(gone, a, k)'
      <4>1. ~(m.process <= gone[a])
        BY <1>0, <2>2 DEF Numbered
      <4> QED BY <2>f, <4>1 DEF LateUpTo
    <3>3. HeldKnown(term, a)'
      <4> DEFINE e == term.suppressed[a]
      <4>1. e # None /\ e.pending # None => e.pending.process \in Nat /\ e.pending.seq \in Nat
        <5>1. term \in Terms
          BY DEF PaneTypeOK
        <5> QED BY <5>1 DEF Terms, Maybe, Entries, Authorities, Ids, Numbers, Clocks
      <4>2. HeldKnown(term, a)
        BY <3>1 DEF AgentInv
      <4> QED BY <1>0, <2>2, <2>f, <4>1, <4>2 DEF HeldKnown
    <3>4. AnnouncedLast(term, gone, a)'
      BY <3>1, <3>2 DEF AgentInv, AnnouncedLast
    <3>5. AnchoredLast(term, unsure, gone, a)'
      BY <3>1, <3>2 DEF AgentInv, AnchoredLast, Anchor
    <3>6. HookLives(term, unsure, gone, a)' /\ ClearedIsNamed(term, a)'
          /\ StaleIsUnsure(term, unsure, a)'
      BY <3>1 DEF AgentInv, HookLives, ClearedIsNamed, StaleIsUnsure
    <3>7. ExitLeavesNothing(term, unsure, a)'
      BY <3>1 DEF ExitLeavesNothing, Anchor
    <3> QED BY <3>3, <3>4, <3>5, <3>6, <3>7 DEF AgentInv
  <2> QED BY <2>4, <2>5, <2>6
<1>5. ASSUME NEW m \in flight, Lose(m) PROVE Inv' /\ term' = term
  <2> USE <1>5 DEF Lose, procVars, history, taskVars
  <2>1. PaneTypeOK'
    BY DEF PaneTypeOK
  <2>2. Numbered'
    BY DEF Numbered
  <2>3. TermInv(term, unsure, gone)'
    BY <1>0, <1>a
  <2> QED BY <2>1, <2>2, <2>3
<1>6. ASSUME NEW a \in Maybe(Agents), NEW exited \in BOOLEAN, Publish(a, exited),
             exited => a # None /\ process = None,
             presence' \in Maybe(Agents), reported' \in BOOLEAN,
             UNCHANGED <<procVars, hookVars, term, history>>
      PROVE  Inv' /\ term' = term
  <2> USE <1>6 DEF Publish, procVars, hookVars, history
  <2> DEFINE x == Result(a, exited, IF exited THEN started ELSE 0)
  <2>1. /\ x \in Results /\ x.agent = a /\ x.exited = exited
        /\ exited => x.told = started
    BY <1>0 DEF Result, Results, PaneTypeOK, Ids, Numbers
  <2>x. results' = Append(results, x) /\ Len(results) < MaxResults
    OBVIOUS
  <2> HIDE DEF x
  <2>2. /\ results' \in Seq(Results) /\ Len(results') = Len(results) + 1
        /\ Len(results') <= MaxResults
        /\ \A i \in 1 .. Len(results') :
             results'[i] = IF i = Len(results) + 1 THEN x ELSE results[i]
    BY <2>1, <2>x DEF PaneTypeOK
  <2>3. PaneTypeOK'
    BY <2>2 DEF PaneTypeOK
  <2>4. Numbered'
    <3>1. \A i \in 1 .. Len(results') : results'[i].exited =>
            /\ results'[i].agent # None /\ results'[i].told <= started
            /\ process # None => results'[i].told < started
      <4> SUFFICES ASSUME NEW i \in 1 .. Len(results'), results'[i].exited
                   PROVE  /\ results'[i].agent # None /\ results'[i].told <= started
                          /\ process # None => results'[i].told < started
        OBVIOUS
      <4>1. CASE i = Len(results) + 1
        BY <1>0, <2>1, <2>2, <4>1
      <4>2. CASE i # Len(results) + 1
        <5>1. i \in 1 .. Len(results) /\ results'[i] = results[i]
          BY <2>2, <4>2 DEF PaneTypeOK
        <5> QED BY <5>1 DEF Numbered
      <4> QED BY <4>1, <4>2
    <3> QED BY <3>1 DEF Numbered
  <2>5. TermInv(term, unsure, gone)'
    BY <1>0, <1>a
  <2> QED BY <2>3, <2>4, <2>5
<1>7. ASSUME Probe PROVE Inv' /\ term' = term
  <2>1. CASE ObserveProbe
    <3>1. process.agent \in Agents
      BY <2>1 DEF ObserveProbe, PaneTypeOK, Maybe, Processes
    <3> QED BY <1>6, <2>1, <3>1 DEF ObserveProbe, Detects, Maybe
  <2>2. CASE ReportReplacementProcess
    BY <1>6, <2>2 DEF ReportReplacementProcess, Detects, PaneTypeOK
  <2>3. CASE ReportProcessExit
    BY <1>6, <2>3 DEF ReportProcessExit, Detects, PaneTypeOK
  <2>4. CASE ClearAgent /\ Detects(None, FALSE)
    BY <1>6, <2>4 DEF Detects, Maybe
  <2>5. CASE ClearAgent /\ ~Detects(None, FALSE)
    <3> USE <2>5 DEF ClearAgent, procVars, hookVars, history
    <3>0. presence' = None /\ reported' = FALSE
          /\ UNCHANGED <<procVars, hookVars, results, term, history>>
      OBVIOUS
    <3>1. PaneTypeOK'
      BY <3>0 DEF PaneTypeOK, Maybe
    <3>2. Numbered'
      BY <3>0 DEF Numbered
    <3>3. TermInv(term, unsure, gone)'
      BY <1>0, <1>a, <3>0
    <3> QED BY <3>0, <3>1, <3>2, <3>3
  <2> QED BY <1>7, <2>1, <2>2, <2>3, <2>4, <2>5 DEF Probe
<1>8. ASSUME ReadScreen PROVE Inv' /\ term' = term
  BY <1>6, <1>8 DEF ReadScreen, taskVars, PaneTypeOK
<1> QED BY <1>1, <1>2, <1>3, <1>4, <1>5, <1>7, <1>8 DEF Foreground

(* A step of the main loop; the hook of an agent never goes back in it.    *)
LEMMA MainLoopSteps ==
  ASSUME Inv, MainLoop
  PROVE  Inv' /\ InOrder(term, term', unsure)
<1> USE DEF Inv
<1>0. /\ started \in Nat /\ clock \in Nat /\ clock <= MaxReports /\ MaxReports \in Nat
      /\ term \in Terms /\ results \in Seq(Results) /\ Len(results) \in Counts
      /\ gone \in [Agents -> Numbers] /\ flight \subseteq Reports
  BY DEF PaneTypeOK, Ids, Numbers, Clocks, Counts
<1>a. ASSUME NEW exited \in Maybe(Agents), Doubt(exited)
      PROVE  /\ unsure' \subseteq Agents
             /\ \A a \in Agents : term'.stale[a] # {} => a \in unsure'
             /\ \A a \in Agents \ {exited} :
                  /\ a \in unsure => a \in unsure'
                  /\ term.detected # a /\ term'.detected = a /\ Anchor(term, a) # None => a \in unsure'
  BY <1>a DEF Doubt, FoundAgain
<1>b. ASSUME Doubt(None)
      PROVE  /\ unsure' \subseteq Agents
             /\ \A a \in Agents : term'.stale[a] # {} \/ a \in unsure => a \in unsure'
  BY <1>a, <1>b DEF Maybe
<1>c. ASSUME term' \in Terms, TermInv(term', unsure', gone'), UNCHANGED procVars,
             unsure' \subseteq Agents, gone' \in [Agents -> Numbers],
             flight' \subseteq flight, clears' \in 0 .. MaxClears,
             clock' \in Clocks, clock <= clock', UNCHANGED taskVars,
             results' \in Seq(Results), Len(results') <= MaxResults
      PROVE  PaneTypeOK' /\ TermInv(term, unsure, gone)'
  <2>1. clock' \in Nat /\ started' \in Nat /\ started <= started'
    BY <1>0, <1>c DEF Clocks, procVars
  <2>2. TermInv(term, unsure, gone)'
    BY <1>0, <1>c, <2>1, StaysTrue
  <2>3. \A a \in Agents : ClearedIsNamed(term', a)
    BY <1>c DEF TermInv, AgentInv
  <2>4. PaneTypeOK'
    BY <1>c, <2>3 DEF PaneTypeOK, ClearedIsNamed, procVars, taskVars
  <2> QED BY <2>2, <2>4
<1>1. ASSUME NEW m \in flight, Deliver(m) PROVE Inv' /\ InOrder(term, term', unsure)
  <2> USE <1>1 DEF Deliver, hookVars
  <2>1. \/ term' = StateReport(term, m, Len(results))
        \/ term' = SessionReport(term, m, Len(results))
    BY DEF Handled
  <2>g. /\ gone' \in [Agents -> Numbers]
        /\ \A b \in Agents : gone'[b] = gone[b] \/ gone'[b] = 0
        /\ m.kind \in Recognized => m.process > gone'[m.agent] \/ term' = term
    <3>1. m.agent \in Agents /\ m.process \in Nat /\ m.process > 0 /\ gone[m.agent] \in Nat
      BY <1>0 DEF Reports, Ids, Numbers
    <3>2. 0 \in Numbers
      BY DEF Numbers
    <3>3. CASE Misleading(m)
      BY <1>0, <3>1, <3>2, <3>3
    <3>4. CASE ~Misleading(m)
      BY <1>0, <3>1, <3>4 DEF Misleading
    <3> QED BY <3>3, <3>4
  <2>k. TermInv(term, unsure, gone')
    BY <1>0, <2>g, KnowsLess
  <2>2. term' \in Terms /\ TermInv(term', unsure', gone') /\ InOrder(term, term', unsure)
    <3>0. /\ term \in Terms /\ gone' \in [Agents -> Numbers] /\ m \in flight
          /\ Len(results) \in Counts /\ PaneTypeOK /\ Numbered /\ TermInv(term, unsure, gone')
          /\ Covers(unsure', unsure, term')
          /\ StartsAnew(m, gone') \/ term' = term
      BY <1>0, <1>b, <2>g, <2>k DEF Covers, StartsAnew
    <3>1. CASE term' = StateReport(term, m, Len(results))
      BY ONLY <3>0, <3>1, StateReportInv
    <3>2. CASE term' = SessionReport(term, m, Len(results))
      BY ONLY <3>0, <3>2, SessionReportInv
    <3> QED BY <2>1, <3>1, <3>2
  <2>3. flight' \subseteq flight
    OBVIOUS
  <2>4. PaneTypeOK' /\ TermInv(term, unsure, gone)'
    BY <1>0, <1>b, <1>c, <2>2, <2>3, <2>g DEF PaneTypeOK
  <2>5. Numbered'
    <3>1. \A b \in Agents : gone'[b] <= started /\ (process # None => gone'[b] < started)
      <4> TAKE b \in Agents
      <4>1. gone[b] \in Nat /\ gone[b] <= started /\ (process # None => gone[b] < started)
        BY <1>0 DEF Numbered, Numbers
      <4> QED BY <1>0, <2>g, <4>1
    <3> QED BY <2>3, <3>1 DEF Numbered, procVars
  <2> QED BY <2>2, <2>4, <2>5
<1>2. ASSUME Clear PROVE Inv' /\ InOrder(term, term', unsure)
  <2> USE <1>2 DEF Clear
  <2>1. clock + 1 \in Clocks /\ clock <= clock + 1 /\ clears + 1 \in 0 .. MaxClears
    BY <1>0 DEF PaneTypeOK, Clocks
  <2>2. Covers(unsure', unsure, term')
    BY <1>b DEF Covers
  <2>3. term' \in Terms /\ TermInv(term', unsure', gone) /\ InOrder(term, term', unsure)
    BY <1>0, <2>1, <2>2, ClearHookInv
  <2>4. PaneTypeOK' /\ TermInv(term, unsure, gone)'
    BY <1>0, <1>b, <1>c, <2>1, <2>3 DEF PaneTypeOK
  <2>5. Numbered'
    <3>1. \A m \in flight : m.seq \in Nat
      BY <1>0 DEF Reports, Clocks
    <3> QED BY <1>0, <3>1 DEF Numbered, procVars
  <2> QED BY <2>3, <2>4, <2>5
<1>3. ASSUME Apply PROVE Inv' /\ InOrder(term, term', unsure)
  <2> USE <1>3 DEF Apply, hookVars
  <2> DEFINE x == Head(results)
  <2>1. x \in Results /\ x = results[1] /\ 1 \in 1 .. Len(results)
    BY <1>0
  <2>2. /\ x.exited => x.agent # None /\ x.agent \in Agents /\ x.told <= started
        /\ x.exited /\ process # None => x.told < started
        /\ x.exited \in BOOLEAN /\ x.told \in Numbers
    BY <2>1 DEF Numbered, Results, Maybe
  <2> HIDE DEF x
  <2>3. /\ term' = DetectionResult(term, x, Len(results))
        /\ gone' = IF x.exited THEN [gone EXCEPT ![x.agent] = x.told] ELSE gone
        /\ Doubt(IF x.exited THEN x.agent ELSE None)
        /\ results' = Tail(results) /\ results # <<>>
    BY DEF x
  <2>4. gone' \in [Agents -> Numbers]
    BY <1>0, <2>2, <2>3
  <2>5. /\ unsure' \subseteq Agents
        /\ \A a \in Agents : term'.stale[a] # {} => a \in unsure'
        /\ \A a \in Agents : ~(x.exited /\ a = x.agent) =>
             /\ a \in unsure => a \in unsure'
             /\ term.detected # a /\ term'.detected = a /\ Anchor(term, a) # None => a \in unsure'
    <3>1. CASE x.exited
      <4>1. x.agent \in Maybe(Agents) /\ Doubt(x.agent)
        BY <2>2, <2>3, <3>1 DEF Maybe
      <4> QED BY <1>a, <3>1, <4>1
    <3>2. CASE ~x.exited
      <4>1. None \in Maybe(Agents) /\ Doubt(None) /\ \A a \in Agents : a # None
        BY <2>3, <3>2 DEF Maybe
      <4> QED BY <1>a, <3>2, <4>1
    <3> QED BY <3>1, <3>2
  <2>6. term' \in Terms /\ TermInv(term', unsure', gone') /\ InOrder(term, term', unsure)
    <3>1. /\ term \in Terms /\ gone \in [Agents -> Numbers] /\ x \in Results /\ Len(results) \in Counts
          /\ PaneTypeOK /\ TermInv(term, unsure, gone) /\ (x.exited => x.agent # None)
          /\ term' = DetectionResult(term, x, Len(results))
          /\ gone' = IF x.exited THEN [gone EXCEPT ![x.agent] = x.told] ELSE gone
          /\ Doubts(unsure', unsure, term, term', x)
      BY <1>0, <2>1, <2>2, <2>3, <2>5 DEF Doubts
    <3> QED BY ONLY <3>1, DetectionInv
  <2>7. /\ results' \in Seq(Results) /\ Len(results') = Len(results) - 1
        /\ \A i \in 1 .. Len(results') : results'[i] = results[i + 1] /\ i + 1 \in 1 .. Len(results)
    BY <1>0, <2>3
  <2>8. PaneTypeOK' /\ TermInv(term, unsure, gone)'
    <3>1. Len(results') <= MaxResults /\ clears' \in 0 .. MaxClears /\ clock' \in Clocks
          /\ clock <= clock' /\ flight' \subseteq flight
      BY <1>0, <2>7 DEF PaneTypeOK, Counts
    <3> QED BY <1>c, <2>4, <2>5, <2>6, <2>7, <3>1
  <2>9. Numbered'
    <3>1. \A a \in Agents : gone'[a] <= started /\ (process # None => gone'[a] < started)
      <4> TAKE a \in Agents
      <4>1. CASE x.exited /\ a = x.agent
        BY <1>0, <2>2, <2>3, <4>1
      <4>2. CASE ~(x.exited /\ a = x.agent)
        <5>1. gone'[a] = gone[a]
          BY <1>0, <2>2, <2>3, <4>2
        <5> QED BY <5>1 DEF Numbered
      <4> QED BY <4>1, <4>2
    <3>2. \A i \in 1 .. Len(results') : results'[i].exited =>
            /\ results'[i].agent # None /\ results'[i].told <= started
            /\ process # None => results'[i].told < started
      BY <2>7 DEF Numbered
    <3> QED BY <3>1, <3>2 DEF Numbered, procVars
  <2> QED BY <2>6, <2>8, <2>9
<1> QED BY <1>1, <1>2, <1>3 DEF MainLoop

LEMMA Stutters ==
  ASSUME Inv, UNCHANGED vars
  PROVE  Inv' /\ term' = term
<1> USE DEF vars, procVars, hookVars, taskVars, history, Inv
<1>1. PaneTypeOK'
  BY DEF PaneTypeOK
<1>2. Numbered'
  BY DEF Numbered
<1>3. TermInv(term, unsure, gone)'
  <2>1. /\ started \in Nat /\ started' \in Nat /\ started <= started'
        /\ clock \in Nat /\ clock' \in Nat /\ clock <= clock'
    BY DEF PaneTypeOK, Ids, Numbers, Clocks
  <2>2. term' \in Terms /\ TermInv(term', unsure', gone')
    BY DEF PaneTypeOK
  <2> QED BY <2>1, <2>2, StaysTrue
<1> QED BY <1>1, <1>2, <1>3

LEMMA Step ==
  ASSUME Inv, [Next]_vars
  PROVE  Inv' /\ InOrder(term, term', unsure)
<1>1. CASE Foreground \/ Probe \/ ReadScreen
  <2>1. Inv' /\ term' = term
    BY <1>1, OutsideSteps
  <2> QED BY <2>1, SameHookInOrder DEF Inv, PaneTypeOK
<1>2. CASE MainLoop
  BY <1>2, MainLoopSteps
<1>3. CASE UNCHANGED vars
  <2>1. Inv' /\ term' = term
    BY <1>3, Stutters
  <2> QED BY <2>1, SameHookInOrder DEF Inv, PaneTypeOK
<1> QED BY <1>1, <1>2, <1>3 DEF Next

----------------------------------------------------------------------------
(* The invariant holds in every state. *)
THEOREM Invariance == Spec => []Inv
<1>1. Inv /\ [Next]_vars => Inv'
  BY Step
<1> QED BY <1>1, Initially, PTL DEF Spec

(* Whatever the order of reports, results and clears: the record the       *)
(* terminal keeps of its agents is well formed, and every hook report that *)
(* is suppressed as cleared names the session that was, see                *)
(* suppress_full_lifecycle_hook_report_with_session_ref                    *)
(* (src/src/terminal/state.rs). *)
THEOREM TypeCorrect == Spec => []PaneTypeOK
<1>1. Inv => PaneTypeOK
  BY DEF Inv
<1> QED BY <1>1, Invariance, PTL

(* However many processes ran, and whenever they quit or were killed: once *)
(* the terminal was told that a process has exited, no state report of it  *)
(* becomes or stays the state of the pane, unless the terminal has         *)
(* forgotten the number of the agent's last report (Doubt), or the start   *)
(* report of a dead process of that agent arrived and was taken after the  *)
(* last exit it was told of (Misleading). *)
THEOREM LateReportsNeverTaken == Spec => []LateReportsStayOut
<1>1. Inv => LateReportsStayOut
  <2> SUFFICES ASSUME Inv, Effective(term), term.hook.agent \notin unsure
               PROVE  term.hook.process > gone[term.hook.agent]
    BY DEF LateReportsStayOut
  <2>1. term.hook # None /\ term.hook.agent \in Agents
    BY DEF Effective, Inv, PaneTypeOK, Terms, Maybe, Authorities
  <2> QED BY <2>1 DEF Inv, TermInv, AgentInv, HookLives
<1> QED BY <1>1, Invariance, PTL

(* The state shown of an agent never goes back to a report sent earlier,   *)
(* by whichever process and in whichever session, with the same exception. *)
THEOREM ReportsTakenInOrder == Spec => ReportsInOrder
<1>1. Inv /\ [Next]_vars =>
        [term.hook # None /\ term'.hook # None /\ term'.hook.agent = term.hook.agent
         /\ term.hook.agent \notin unsure
           => term'.hook.seq >= term.hook.seq]_vars
  <2> SUFFICES ASSUME Inv, [Next]_vars
               PROVE  term.hook # None /\ term'.hook # None /\ term'.hook.agent = term.hook.agent
                      /\ term.hook.agent \notin unsure
                        => term'.hook.seq >= term.hook.seq
    OBVIOUS
  <2>1. InOrder(term, term', unsure)
    BY Step
  <2> QED BY <2>1 DEF InOrder
<1> QED BY <1>1, Invariance, PTL DEF Spec, ReportsInOrder
=============================================================================
