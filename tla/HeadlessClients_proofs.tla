------------------------- MODULE HeadlessClients_proofs -------------------------
(***************************************************************************)
(* Proofs about HeadlessClients for any clients, terminals and sizes.      *)
(* The invariant carried through every step is Inv: TypeOK, Roster (what   *)
(* is recorded of a client is recorded exactly while it is listed) and the *)
(* two facts about attached terminals.  Everything a step does to them it  *)
(* does through RemoveFrom or by changing one client, so the proof has one *)
(* lemma for each of these and a case per action.                          *)
(*                                                                         *)
(* ClientsAreServed and SizesFollowDrivers are proved on top of it, each   *)
(* by an induction of its own.  The second needs Asked: the listed clients *)
(* whose mode is pending are those that have been greeted and have not     *)
(* asked for a mode yet, and a server that hands off lists nobody.         *)
(***************************************************************************)
EXTENDS HeadlessClients, TLAPS

(* What is recorded of a client is recorded exactly while it is listed.    *)
Roster ==
  \A c \in Clients : /\ c \in table <=> role[c] # "none"
                     /\ conn[c] = "new" => c \notin table
                     /\ c \in table => (role[c] = "app" <=> c \in AppClients)

Inv == TypeOK /\ Roster /\ OwnerIsAttachedClient

USE ClientsAssumption DEF ClientsAssumption
----------------------------------------------------------------------------
(* Operators.                                                              *)

(* The successor is an app client, or nobody.                              *)
LEMMA LatestType ==
  ASSUME NEW cs \in SUBSET Clients, NEW c \in Latest(cs)
  PROVE  c = None \/ c \in Apps(cs)
BY DEF Latest, Apps

(* A shared resize gives terminals sizes.                                  *)
LEMMA ResizeType ==
  ASSUME NEW p \in [Terminals -> Sizes \cup {MinSize}], NEW ts, NEW lck, NEW fg,
         NEW sz \in Sizes \cup {MinSize}
  PROVE  /\ SharedResize(p, ts, lck, sz) \in [Terminals -> Sizes \cup {MinSize}]
         /\ ResizeShared(p, ts, lck, fg, sz) \in [Terminals -> Sizes \cup {MinSize}]
BY DEF SharedResize, ResizeShared

(* Stamping keeps an order on app clients.                                 *)
LEMMA StampedType ==
  ASSUME TypeOK, NEW c
  PROVE  Stamped(c) \in [AppClients -> SUBSET AppClients] \/ ~Roster
BY DEF Stamped, Apps, TypeOK, Roster, Clients

(* The entries that go with some clients are those they own.               *)
LEMMA FreedIsOwned ==
  ASSUME TypeOK, OwnerIsAttachedClient, NEW cs \in SUBSET Clients, NEW t \in Terminals
  PROVE  /\ t \in Freed(cs) <=> owners[t] \in cs
         /\ OwnersWithout(cs)[t] = IF owners[t] \in cs THEN None ELSE owners[t]
<1>1. t \in Freed(cs) <=> owners[t] \in cs
  BY DEF Freed, OwnerIsAttachedClient, TypeOK
<1> QED BY <1>1 DEF OwnersWithout

(* The types of what RemoveFrom changes.                                   *)
LEMMA RemoveTypes ==
  ASSUME TypeOK, NEW cs \in SUBSET Clients, NEW ts \in SUBSET Terminals,
         NEW p \in [Terminals -> Sizes \cup {MinSize}], RemoveFrom(cs, ts, p)
  PROVE  /\ table' \subseteq Clients /\ writer' \subseteq table'
         /\ role' \in [Clients -> {"none", "app", "pending", "attach", "observe"}]
         /\ term' \in [Clients -> Terminals \cup {None}]
         /\ size' \in [Clients -> Sizes \cup {MinSize}]
         /\ older' \in [AppClients -> SUBSET AppClients]
         /\ foreground' \in Clients \cup {None} /\ effective' \in Sizes \cup {MinSize}
         /\ owners' \in [Terminals -> Clients \cup {None}] /\ locks' \subseteq Terminals
         /\ pty' \in [Terminals -> Sizes \cup {MinSize}]
<1>1. /\ table' \subseteq Clients /\ writer' \subseteq table'
      /\ role' \in [Clients -> {"none", "app", "pending", "attach", "observe"}]
      /\ term' \in [Clients -> Terminals \cup {None}]
      /\ size' \in [Clients -> Sizes \cup {MinSize}]
      /\ older' \in [AppClients -> SUBSET AppClients]
  BY DEF RemoveFrom, Forget, Blank, TypeOK
<1>2. foreground' \in Clients \cup {None}
  BY LatestType DEF RemoveFrom, Succeed, Apps, TypeOK
<1>3. effective' \in Sizes \cup {MinSize}
  BY <1>2 DEF RemoveFrom, Succeed, SizeOf, TypeOK
<1>4. owners' \in [Terminals -> Clients \cup {None}] /\ locks' \subseteq Terminals
  BY DEF RemoveFrom, OwnersWithout, LocksWithout, TypeOK
<1>5. pty' \in [Terminals -> Sizes \cup {MinSize}]
  BY <1>3, ResizeType DEF RemoveFrom
<1> QED BY <1>1, <1>2, <1>3, <1>4, <1>5

(* Removing clients leaves a record of nobody else.                        *)
LEMMA RemoveRoster ==
  ASSUME TypeOK, Roster, NEW cs \in SUBSET Clients, NEW ts, NEW p, RemoveFrom(cs, ts, p)
  PROVE  \A c \in Clients : /\ c \in table' <=> role'[c] # "none"
                            /\ c \in table' => c \in table
                            /\ c \in table' => (role'[c] = "app" <=> c \in AppClients)
BY DEF RemoveFrom, Forget, Blank, TypeOK, Roster

(* Removing clients takes exactly their own entries out of owners.         *)
LEMMA RemoveOwners ==
  ASSUME TypeOK, Roster, OwnerIsAttachedClient, NEW cs \in SUBSET Clients, NEW ts, NEW p,
         RemoveFrom(cs, ts, p)
  PROVE  OwnerIsAttachedClient'
<1> SUFFICES ASSUME NEW c \in Clients, NEW t \in Terminals
             PROVE  owners'[t] = c <=> c \in table' /\ role'[c] = "attach" /\ term'[c] = t
  BY DEF OwnerIsAttachedClient
<1>1. owners'[t] = IF t \in Freed(cs) THEN None ELSE owners[t]
  BY DEF RemoveFrom, OwnersWithout
<1>2. t \in Freed(cs) <=> owners[t] \in cs
  BY FreedIsOwned
<1>3. CASE c \in cs
  BY <1>1, <1>2, <1>3 DEF RemoveFrom
<1>4. CASE c \notin cs
  <2>1. role'[c] = role[c] /\ term'[c] = term[c] /\ (c \in table' <=> c \in table)
    BY <1>4 DEF RemoveFrom, Forget, Blank, TypeOK
  <2>2. owners'[t] = c <=> owners[t] = c
    BY <1>1, <1>2, <1>4
  <2> QED BY <2>1, <2>2 DEF OwnerIsAttachedClient
<1> QED BY <1>3, <1>4

(* A step that removes clients, and else touches only what Inv types.      *)
LEMMA RemoveInv ==
  ASSUME Inv, NEW cs \in SUBSET Clients, NEW ts \in SUBSET Terminals,
         NEW p \in [Terminals -> Sizes \cup {MinSize}], RemoveFrom(cs, ts, p),
         conn' \in [Clients -> {"new", "greeted", "open", "closed"}],
         \A c \in Clients : conn'[c] = "new" => conn[c] = "new",
         queueUp' \subseteq Clients, told' \subseteq Clients,
         life' \in [Terminals -> {"unborn", "live", "gone"}],
         reading' \subseteq Terminals, handoff' \in BOOLEAN, renderDue' \in BOOLEAN
  PROVE  Inv'
<1>1. TypeOK'
  BY RemoveTypes DEF TypeOK, Inv
<1>2. Roster'
  BY RemoveRoster DEF Roster, Inv
<1>3. OwnerIsAttachedClient'
  BY RemoveOwners DEF Inv
<1> QED BY <1>1, <1>2, <1>3 DEF Inv

(* Only clients are told.                                                  *)
LEMMA ShutDownType ==
  ASSUME TypeOK, NEW cs, ShutDown(cs)
  PROVE  told' \subseteq Clients
BY DEF ShutDown, TypeOK
----------------------------------------------------------------------------
(* The server starts with nobody in the table.                             *)
LEMMA InvInit == Init => Inv
<1> SUFFICES ASSUME Init PROVE Inv
  OBVIOUS
<1>1. /\ conn \in [Clients -> {"new", "greeted", "open", "closed"}]
      /\ queueUp \subseteq Clients /\ told \subseteq Clients
      /\ table \subseteq Clients /\ writer \subseteq table
      /\ role \in [Clients -> {"none", "app", "pending", "attach", "observe"}]
      /\ term \in [Clients -> Terminals \cup {None}]
  BY DEF Init
<1>2. /\ size \in [Clients -> Sizes \cup {MinSize}]
      /\ older \in [AppClients -> SUBSET AppClients]
      /\ foreground \in Clients \cup {None} /\ effective \in Sizes \cup {MinSize}
      /\ owners \in [Terminals -> Clients \cup {None}] /\ locks \subseteq Terminals
  BY DEF Init
<1>3. /\ life \in [Terminals -> {"unborn", "live", "gone"}]
      /\ pty \in [Terminals -> Sizes \cup {MinSize}]
      /\ reading \subseteq Terminals /\ handoff \in BOOLEAN /\ renderDue \in BOOLEAN
  BY DEF Init
<1>4. TypeOK
  BY <1>1, <1>2, <1>3 DEF TypeOK
<1>5. Roster
  BY DEF Init, Roster
<1>6. OwnerIsAttachedClient
  BY DEF Init, OwnerIsAttachedClient
<1> QED BY <1>4, <1>5, <1>6 DEF Inv

(* Steps that leave the roster, the modes and the owners alone.            *)
LEMMA InvStutter ==
  ASSUME Inv, UNCHANGED <<conn, table, role, term, owners>>, TypeOK'
  PROVE  Inv'
BY DEF Inv, Roster, OwnerIsAttachedClient

(* A handshake ends: a client not listed before is listed, attached to     *)
(* nothing.                                                                *)
LEMMA InvConnect ==
  ASSUME Inv, NEW c \in Clients, NEW s \in Sizes, ClientConnected(c, s)
  PROVE  Inv'
<1>0. TypeOK /\ Roster /\ OwnerIsAttachedClient
  BY DEF Inv
<1>1. conn' \in [Clients -> {"new", "greeted", "open", "closed"}] /\ conn'[c] # "new"
      /\ \A d \in Clients : conn'[d] = "new" => conn[d] = "new" /\ d # c
  BY <1>0 DEF ClientConnected, TypeOK
<1>2. CASE handoff
  <2>1. TypeOK'
    BY <1>0, <1>1, <1>2 DEF ClientConnected, TypeOK, rosterVars, driverVars, attachVars
  <2>2. Roster' /\ OwnerIsAttachedClient'
    BY <1>0, <1>1, <1>2 DEF ClientConnected, Roster, OwnerIsAttachedClient, rosterVars, attachVars
  <2> QED BY <2>1, <2>2 DEF Inv
<1>3. CASE ~handoff
  <2>1. /\ size' \in [Clients -> Sizes \cup {MinSize}]
        /\ foreground' \in Clients \cup {None}
    BY <1>0, <1>3 DEF ClientConnected, TypeOK
  <2>2. effective' \in Sizes \cup {MinSize}
    BY <1>3, <2>1 DEF ClientConnected, SizeOf
  <2>3. pty' \in [Terminals -> Sizes \cup {MinSize}]
    BY <1>0, <1>3, <2>2, ResizeType DEF ClientConnected, TypeOK
  <2>4. older' \in [AppClients -> SUBSET AppClients]
    BY <1>0, <1>3, StampedType DEF ClientConnected, TypeOK
  <2>5. /\ table' = table \cup {c} /\ writer' \subseteq table'
        /\ role' = [role EXCEPT ![c] = IF c \in AppClients THEN "app" ELSE "pending"]
        /\ UNCHANGED <<term, owners, locks, life, reading, handoff, queueUp, told>>
        /\ renderDue' = TRUE
    BY <1>0, <1>3 DEF ClientConnected, attachVars, TypeOK
  <2>6. TypeOK'
    BY <1>0, <1>1, <2>1, <2>2, <2>3, <2>4, <2>5 DEF TypeOK
  <2>7. Roster'
    BY <1>0, <1>1, <2>5 DEF Roster, TypeOK
  <2>8. c \notin table /\ role'[c] # "attach"
    BY <1>0, <2>5 DEF ClientConnected, Roster, TypeOK
  <2>9. OwnerIsAttachedClient'
    <3> SUFFICES ASSUME NEW d \in Clients, NEW t \in Terminals
                 PROVE  owners'[t] = d <=> d \in table' /\ role'[d] = "attach" /\ term'[d] = t
      BY DEF OwnerIsAttachedClient
    <3>1. CASE d = c
      BY <1>0, <2>5, <2>8, <3>1 DEF OwnerIsAttachedClient
    <3>2. CASE d # c
      BY <1>0, <2>5, <3>2 DEF OwnerIsAttachedClient, TypeOK
    <3> QED BY <3>1, <3>2
  <2> QED BY <2>6, <2>7, <2>9 DEF Inv
<1> QED BY <1>2, <1>3

(* A refused request removes its client.                                   *)
LEMMA InvRefuse ==
  ASSUME Inv, NEW c \in Clients, Refuse(c),
         conn' \in [Clients -> {"new", "greeted", "open", "closed"}],
         \A d \in Clients : conn'[d] = "new" => conn[d] = "new", UNCHANGED queueUp
  PROVE  Inv'
<1>1. TypeOK /\ told' \subseteq Clients /\ UNCHANGED <<handoff, life, reading, renderDue>>
  BY ShutDownType DEF Refuse, Inv
<1>2. RemoveFrom({c}, Live, pty)
  BY DEF Refuse, Remove
<1> QED BY <1>1, <1>2, RemoveInv DEF TypeOK, Live

(* A granted takeover replaces one owner by another.                       *)
LEMMA InvGrant ==
  ASSUME Inv, NEW c \in Clients, NEW t \in Terminals, Pending(c), Grant(c, t),
         conn' \in [Clients -> {"new", "greeted", "open", "closed"}],
         conn[c] # "new",
         \A d \in Clients : conn'[d] = "new" => conn[d] = "new", UNCHANGED queueUp
  PROVE  Inv'
<1> DEFINE gone == Ousted(c, t)
<1>1. TypeOK /\ Roster /\ OwnerIsAttachedClient
  BY DEF Inv
<1>2. gone = {owners[t]} \ {None} /\ gone \subseteq Clients /\ c \notin gone
  BY <1>1 DEF Ousted, Pending, OwnerIsAttachedClient, TypeOK
<1>3. /\ table' = table \ gone /\ writer' = writer \ gone
      /\ role' = [Blank(role, gone, "none") EXCEPT ![c] = "attach"]
      /\ term' = [Blank(term, gone, None) EXCEPT ![c] = t]
      /\ size' = Blank(size, gone, MinSize)
      /\ owners' = [OwnersWithout(gone) EXCEPT ![t] = c]
      /\ locks' = LocksWithout(gone, Live) \cup {t}
      /\ UNCHANGED <<older, handoff, life, reading>> /\ renderDue' = TRUE
  BY DEF Grant
<1>4. TypeOK'
  <2>1. /\ table' \subseteq Clients /\ writer' \subseteq table'
        /\ role' \in [Clients -> {"none", "app", "pending", "attach", "observe"}]
        /\ term' \in [Clients -> Terminals \cup {None}]
        /\ size' \in [Clients -> Sizes \cup {MinSize}]
    BY <1>1, <1>3 DEF Blank, TypeOK
  <2>2. /\ owners' \in [Terminals -> Clients \cup {None}] /\ locks' \subseteq Terminals
    BY <1>1, <1>3 DEF OwnersWithout, LocksWithout, TypeOK
  <2>3. Succeed(gone \cup {c}) /\ ShutDown(gone)
    BY DEF Grant
  <2>4. told' \subseteq Clients
    BY <1>1, <2>3, ShutDownType
  <2>5. foreground' \in Clients \cup {None}
    BY <1>1, <2>3, LatestType DEF Succeed, Apps, TypeOK
  <2>6. effective' \in Sizes \cup {MinSize}
    BY <1>1, <2>3, <2>5 DEF Succeed, SizeOf, TypeOK
  <2>7. pty' \in [Terminals -> Sizes \cup {MinSize}]
    <3>1. ResizeShared(pty, Live, LocksWithout(gone, Live), foreground, effective)
            \in [Terminals -> Sizes \cup {MinSize}]
      BY <1>1, ResizeType DEF TypeOK
    <3>2. size[c] \in Sizes \cup {MinSize} /\ pty \in [Terminals -> Sizes \cup {MinSize}]
      BY <1>1 DEF TypeOK
    <3>3. pty' = [(IF RemovalResizes(gone)
                   THEN ResizeShared(pty, Live, LocksWithout(gone, Live), foreground, effective)
                   ELSE pty) EXCEPT ![t] = size[c]]
      BY DEF Grant
    <3> QED BY <3>1, <3>2, <3>3
  <2> QED BY <1>1, <1>3, <2>1, <2>2, <2>4, <2>5, <2>6, <2>7 DEF TypeOK
<1>5. c \in table' /\ role'[c] = "attach" /\ term'[c] = t /\ c \notin AppClients
  BY <1>1, <1>2, <1>3 DEF Pending, Blank, Roster, TypeOK
<1>6. \A d \in Clients \ {c} :
        /\ d \in table' <=> d \in table \ gone
        /\ role'[d] = IF d \in gone THEN "none" ELSE role[d]
        /\ term'[d] = IF d \in gone THEN None ELSE term[d]
  BY <1>1, <1>2, <1>3 DEF Blank, TypeOK
<1>7. Roster'
  BY <1>1, <1>5, <1>6 DEF Roster
<1>8. OwnerIsAttachedClient'
  <2> SUFFICES ASSUME NEW d \in Clients, NEW u \in Terminals
               PROVE  owners'[u] = d <=> d \in table' /\ role'[d] = "attach" /\ term'[d] = u
    BY DEF OwnerIsAttachedClient
  <2>1. owners'[u] = IF u = t THEN c
                     ELSE IF owners[u] \in gone THEN None ELSE owners[u]
    BY <1>1, <1>2, <1>3, FreedIsOwned DEF OwnersWithout
  <2>2. CASE d = c
    BY <1>1, <1>5, <2>1, <2>2 DEF Pending, OwnerIsAttachedClient
  <2>3. CASE d # c /\ d \in gone
    BY <1>6, <2>1, <2>3
  <2>4. CASE d # c /\ d \notin gone
    <3>1. owners'[u] = d <=> owners[u] = d
      BY <1>2, <2>1, <2>4
    <3> QED BY <1>1, <1>6, <2>4, <3>1 DEF OwnerIsAttachedClient
  <2> QED BY <2>2, <2>3, <2>4
<1> QED BY <1>4, <1>7, <1>8 DEF Inv

(* A message that arrives during a handoff changes nothing but conn.       *)
LEMMA InvIgnored ==
  ASSUME Inv, UNCHANGED <<told, rosterVars, driverVars, attachVars, termVars, handoff, renderDue>>,
         conn' \in [Clients -> {"new", "greeted", "open", "closed"}],
         \A d \in Clients : conn'[d] = "new" => conn[d] = "new", UNCHANGED queueUp
  PROVE  Inv'
<1>1. TypeOK'
  BY DEF Inv, TypeOK, rosterVars, driverVars, attachVars, termVars
<1>2. Roster' /\ OwnerIsAttachedClient'
  BY DEF Inv, Roster, OwnerIsAttachedClient, rosterVars, attachVars
<1> QED BY <1>1, <1>2 DEF Inv

(* Attach and control requests, granted, refused or too late.              *)
LEMMA InvAttach ==
  ASSUME Inv, NEW c \in Clients, NEW t \in Terminals, NEW b \in BOOLEAN, AttachTerminal(c, t, b)
  PROVE  Inv'
<1>1. conn' \in [Clients -> {"new", "greeted", "open", "closed"}] /\ conn[c] # "new"
      /\ \A d \in Clients : conn'[d] = "new" => conn[d] = "new"
  BY DEF AttachTerminal, Inv, TypeOK
<1>2. UNCHANGED queueUp
  BY DEF AttachTerminal
<1>3. \/ UNCHANGED <<told, rosterVars, driverVars, attachVars, termVars, handoff, renderDue>>
      \/ Pending(c) /\ Grant(c, t)
      \/ Refuse(c)
  BY Zenon DEF AttachTerminal
<1> QED BY <1>1, <1>2, <1>3, InvIgnored, InvGrant, InvRefuse

(* Observe requests: an observer is attached to nothing.                   *)
LEMMA InvObserve ==
  ASSUME Inv, NEW c \in Clients, NEW t \in Terminals, ObserveTerminal(c, t)
  PROVE  Inv'
<1>1. conn' \in [Clients -> {"new", "greeted", "open", "closed"}] /\ conn[c] # "new"
      /\ \A d \in Clients : conn'[d] = "new" => conn[d] = "new"
  BY DEF ObserveTerminal, Inv, TypeOK
<1>2. UNCHANGED queueUp
  BY DEF ObserveTerminal
<1> DEFINE Granted == /\ Pending(c)
                      /\ role' = [role EXCEPT ![c] = "observe"] /\ term' = [term EXCEPT ![c] = t]
                      /\ Succeed({c}) /\ renderDue' = TRUE
                      /\ UNCHANGED <<told, table, writer, size, older, attachVars, termVars,
                                     handoff>>
<1>3. \/ UNCHANGED <<told, rosterVars, driverVars, attachVars, termVars, handoff, renderDue>>
      \/ Granted
      \/ Refuse(c)
  BY Zenon DEF ObserveTerminal
<1>4. ASSUME Granted PROVE Inv'
  <2>1. TypeOK /\ Roster /\ OwnerIsAttachedClient
    BY DEF Inv
  <2>2. foreground' \in Clients \cup {None}
    BY <1>4, <2>1, LatestType DEF Succeed, Apps, TypeOK
  <2>3. effective' \in Sizes \cup {MinSize}
    BY <1>4, <2>1, <2>2 DEF Succeed, SizeOf, TypeOK
  <2>4. TypeOK'
    BY <1>1, <1>2, <1>4, <2>1, <2>2, <2>3 DEF TypeOK, attachVars, termVars
  <2>5. Roster'
    BY <1>1, <1>4, <2>1 DEF Roster, Pending, TypeOK
  <2>6. OwnerIsAttachedClient'
    BY <1>4, <2>1 DEF OwnerIsAttachedClient, Pending, TypeOK, attachVars
  <2> QED BY <2>4, <2>5, <2>6 DEF Inv
<1> QED BY <1>1, <1>2, <1>3, <1>4, InvIgnored, InvRefuse

(* Input only moves the foreground.                                        *)
LEMMA InvInput ==
  ASSUME Inv, NEW c \in Clients, ClientInput(c)
  PROVE  Inv'
<1>1. TypeOK /\ Roster
  BY DEF Inv
<1>2. older' \in [AppClients -> SUBSET AppClients] /\ foreground' \in Clients \cup {None}
      /\ effective' \in Sizes \cup {MinSize}
  BY <1>1, StampedType DEF ClientInput, Promote, SizeOf, TypeOK
<1>3. pty' \in [Terminals -> Sizes \cup {MinSize}]
  BY <1>1, <1>2, ResizeType DEF ClientInput, TypeOK
<1>4. /\ renderDue' = TRUE
      /\ UNCHANGED <<linkVars, told, table, writer, role, term, size, attachVars, life, reading,
                     handoff>>
  BY DEF ClientInput
<1>5. TypeOK'
  BY <1>1, <1>2, <1>3, <1>4 DEF TypeOK, linkVars, attachVars
<1> QED BY <1>4, <1>5, InvStutter DEF linkVars, attachVars

(* The detach key only moves the foreground, or removes its client.        *)
LEMMA InvDetachKey ==
  ASSUME Inv, NEW c \in Clients, DetachKey(c)
  PROVE  Inv'
<1> DEFINE p == IF foreground = c THEN pty ELSE ResizeShared(pty, Live, locks, c, size[c])
<1>1. TypeOK /\ Roster /\ OwnerIsAttachedClient /\ c \in AppClients /\ c \in table
  BY DEF Inv, DetachKey
<1>2. told' \subseteq Clients
  BY <1>1, ShutDownType DEF DetachKey
<1>3. p \in [Terminals -> Sizes \cup {MinSize}]
  BY <1>1, ResizeType DEF TypeOK
<1>4. /\ writer' = writer \ {c}
      /\ UNCHANGED <<linkVars, attachVars, life, reading, handoff, renderDue>>
  BY DEF DetachKey
<1>5. CASE c \in writer \ queueUp
  <2>1. /\ table' = table \ {c} /\ Forget({c})
        /\ foreground' \in Latest(table \ {c})
        /\ effective' = SizeOf(foreground', size)
        /\ pty' = ResizeShared(p, Live, locks, foreground', effective')
    BY <1>5 DEF DetachKey
  <2>2. foreground' \in Clients \cup {None}
    BY <1>1, <2>1, LatestType DEF Apps, TypeOK
  <2>3. effective' \in Sizes \cup {MinSize}
    BY <1>1, <2>1, <2>2 DEF SizeOf, TypeOK
  <2>4. pty' \in [Terminals -> Sizes \cup {MinSize}]
    BY <1>3, <2>1, <2>3, ResizeType
  <2>5. /\ role' \in [Clients -> {"none", "app", "pending", "attach", "observe"}]
        /\ term' \in [Clients -> Terminals \cup {None}]
        /\ size' \in [Clients -> Sizes \cup {MinSize}]
        /\ older' \in [AppClients -> SUBSET AppClients]
        /\ table' \subseteq Clients /\ writer' \subseteq table'
    BY <1>1, <1>4, <2>1 DEF Forget, Blank, TypeOK
  <2>6. TypeOK'
    BY <1>1, <1>2, <1>4, <2>2, <2>3, <2>4, <2>5 DEF TypeOK, linkVars, attachVars
  <2>7. Roster'
    BY <1>1, <1>4, <2>1 DEF Roster, Forget, Blank, TypeOK, linkVars
  <2>8. OwnerIsAttachedClient'
    <3>1. role[c] # "attach"
      BY <1>1 DEF Roster, TypeOK
    <3> QED BY <1>1, <1>4, <2>1, <3>1
            DEF OwnerIsAttachedClient, Forget, Blank, TypeOK, attachVars
  <2> QED BY <2>6, <2>7, <2>8 DEF Inv
<1>6. CASE c \notin writer \ queueUp
  <2>1. Promote(c, size) /\ pty' = p /\ UNCHANGED <<table, role, term, size>>
    BY <1>6 DEF DetachKey
  <2>2. older' \in [AppClients -> SUBSET AppClients] /\ foreground' \in Clients \cup {None}
        /\ effective' \in Sizes \cup {MinSize}
    BY <1>1, <2>1, StampedType DEF Promote, SizeOf, TypeOK
  <2>3. TypeOK'
    BY <1>1, <1>2, <1>3, <1>4, <2>1, <2>2 DEF TypeOK, linkVars, attachVars
  <2> QED BY <1>4, <2>1, <2>3, InvStutter DEF linkVars, attachVars
<1> QED BY <1>5, <1>6

(* A resize changes sizes and, for an app client, the foreground.          *)
LEMMA InvResize ==
  ASSUME Inv, NEW c \in Clients, NEW s \in Sizes, ClientResize(c, s)
  PROVE  Inv'
<1>1. TypeOK /\ Roster
  BY DEF Inv
<1>2. /\ renderDue' = TRUE
      /\ UNCHANGED <<linkVars, told, table, writer, role, term, attachVars, life, reading, handoff>>
  BY DEF ClientResize
<1>3. \/ /\ pty' = ResizeShared(pty, Live, locks, foreground, effective)
         /\ UNCHANGED <<size, older, driverVars>>
      \/ role[c] = "attach" /\ ResizeAttached(c, s)
      \/ ResizeObserver(c, s)
      \/ role[c] # "attach" /\ ResizeApp(c, s)
  BY DEF ClientResize
<1> DEFINE Typed == /\ size' \in [Clients -> Sizes \cup {MinSize}]
                    /\ older' \in [AppClients -> SUBSET AppClients]
                    /\ foreground' \in Clients \cup {None} /\ effective' \in Sizes \cup {MinSize}
                    /\ pty' \in [Terminals -> Sizes \cup {MinSize}]
<1>4. ASSUME pty' = ResizeShared(pty, Live, locks, foreground, effective),
             UNCHANGED <<size, older, driverVars>>
      PROVE  Typed
  <2>1. pty' \in [Terminals -> Sizes \cup {MinSize}]
    BY <1>1, <1>4, ResizeType DEF TypeOK
  <2> QED BY <1>1, <1>4, <2>1 DEF TypeOK, driverVars
<1>5. ASSUME ResizeAttached(c, s) PROVE Typed
  BY <1>1, <1>5 DEF ResizeAttached, TypeOK, driverVars
<1>6. ASSUME ResizeObserver(c, s) PROVE Typed
  BY <1>1, <1>6 DEF ResizeObserver, TypeOK, driverVars
<1>7. ASSUME ResizeApp(c, s) PROVE Typed
  <2>1. /\ size' \in [Clients -> Sizes \cup {MinSize}]
        /\ older' \in [AppClients -> SUBSET AppClients]
        /\ foreground' \in Clients \cup {None}
    BY <1>1, <1>7, StampedType DEF ResizeApp, Promote, TypeOK
  <2>2. effective' \in Sizes \cup {MinSize}
    BY <1>7, <2>1 DEF ResizeApp, Promote, SizeOf
  <2>3. pty' \in [Terminals -> Sizes \cup {MinSize}]
    BY <1>1, <1>7, <2>2, ResizeType DEF ResizeApp, TypeOK
  <2> QED BY <2>1, <2>2, <2>3
<1>8. Typed
  BY <1>3, <1>4, <1>5, <1>6, <1>7
<1>9. TypeOK'
  BY <1>1, <1>2, <1>8 DEF TypeOK, linkVars, attachVars
<1> QED BY <1>2, <1>9, InvStutter DEF linkVars, attachVars

(* A detach, a disconnect or a failed send removes its client.             *)
LEMMA InvLeave ==
  ASSUME Inv, NEW c \in Clients, ClientDetach(c) \/ ClientDisconnected(c) \/ SendFails(c)
  PROVE  Inv'
<1>1. Remove({c}) /\ UNCHANGED <<queueUp, life, reading, handoff>>
      /\ renderDue' \in {TRUE, renderDue}
  BY DEF ClientDetach, ClientDisconnected, SendFails, linkVars
<1>2. /\ conn' \in [Clients -> {"new", "greeted", "open", "closed"}]
      /\ \A d \in Clients : conn'[d] = "new" => conn[d] = "new"
      /\ told' \subseteq Clients
  BY DEF ClientDetach, ClientDisconnected, SendFails, linkVars, Inv, TypeOK
<1>3. RemoveFrom({c}, Live, pty)
  BY <1>1 DEF Remove
<1> QED BY <1>1, <1>2, <1>3, RemoveInv DEF Inv, TypeOK, Live

(* A writer thread that gives up changes nothing the server has recorded.  *)
LEMMA InvWriterFails ==
  ASSUME Inv, NEW c \in Clients, WriterFails(c)
  PROVE  Inv'
<1>1. TypeOK'
  BY DEF WriterFails, Inv, TypeOK, rosterVars, driverVars, attachVars, termVars
<1> QED BY <1>1, InvStutter DEF WriterFails, rosterVars, attachVars

(* Terminals come and go, and are read.                                    *)
LEMMA InvTerminal ==
  ASSUME Inv, NEW t \in Terminals,
         \/ TerminalDies(t) \/ TerminalCloses(t) \/ ReadStarts(t) \/ ReadEnds(t)
         \/ \E s \in Sizes : TerminalSpawns(t, s)
  PROVE  Inv'
<1>1. TypeOK
  BY DEF Inv
<1>2. CASE TerminalDies(t)
  <2>1. StreamsOf(t) \subseteq Clients /\ Live \ {t} \subseteq Terminals
    BY <1>1 DEF StreamsOf, Live, TypeOK
  <2>2. told' \subseteq Clients
    BY <1>1, <1>2, ShutDownType DEF TerminalDies
  <2>3. /\ life' \in [Terminals -> {"unborn", "live", "gone"}]
        /\ renderDue' = TRUE /\ UNCHANGED <<linkVars, reading, handoff>>
        /\ RemoveFrom(StreamsOf(t), Live \ {t}, pty)
    BY <1>1, <1>2 DEF TerminalDies, TypeOK
  <2> QED BY <1>1, <2>1, <2>2, <2>3, RemoveInv DEF TypeOK, linkVars
<1>3. CASE TerminalCloses(t)
  <2>1. TypeOK'
    BY <1>1, <1>3 DEF TerminalCloses, TypeOK, linkVars, rosterVars, driverVars
  <2> QED BY <1>3, <2>1, InvStutter DEF TerminalCloses, linkVars, rosterVars
<1>4. CASE ReadStarts(t)
  <2>1. TypeOK'
    BY <1>1, <1>4 DEF ReadStarts, TypeOK, linkVars, rosterVars, driverVars, attachVars
  <2> QED BY <1>4, <2>1, InvStutter DEF ReadStarts, linkVars, rosterVars, attachVars
<1>5. CASE ReadEnds(t)
  <2>1. TypeOK'
    BY <1>1, <1>5 DEF ReadEnds, TypeOK, linkVars, rosterVars, driverVars, attachVars
  <2> QED BY <1>5, <2>1, InvStutter DEF ReadEnds, linkVars, rosterVars, attachVars
<1>6. ASSUME NEW s \in Sizes, TerminalSpawns(t, s) PROVE Inv'
  <2>1. TypeOK'
    BY <1>1, <1>6 DEF TerminalSpawns, TypeOK, linkVars, rosterVars, driverVars, attachVars
  <2> QED BY <1>6, <2>1, InvStutter DEF TerminalSpawns, linkVars, rosterVars, attachVars
<1> QED BY <1>2, <1>3, <1>4, <1>5, <1>6

(* A render removes streams without a terminal and broken clients.         *)
LEMMA InvRender ==
  ASSUME Inv, Render
  PROVE  Inv'
<1>1. TypeOK
  BY DEF Inv
<1>2. PICK broken \in SUBSET ({c \in writer : role[c] # "pending"} \ queueUp),
           p \in {pty, SharedResize(pty, Live, locks, effective)} :
             RemoveFrom(Orphans \cup broken, Live, p)
  BY DEF Render
<1>3. Orphans \cup broken \subseteq Clients /\ Live \subseteq Terminals
  BY <1>1 DEF Orphans, Live, TypeOK
<1>4. p \in [Terminals -> Sizes \cup {MinSize}]
  <2>1. pty \in [Terminals -> Sizes \cup {MinSize}] /\ effective \in Sizes \cup {MinSize}
    BY <1>1 DEF TypeOK
  <2>2. SharedResize(pty, Live, locks, effective) \in [Terminals -> Sizes \cup {MinSize}]
    BY <2>1, ResizeType
  <2> QED BY <2>1, <2>2
<1>5. told' \subseteq Clients
  BY <1>1, ShutDownType DEF Render
<1>6. renderDue' = FALSE /\ UNCHANGED <<linkVars, life, reading, handoff>>
  BY DEF Render
<1> QED BY <1>1, <1>2, <1>3, <1>4, <1>5, <1>6, RemoveInv DEF TypeOK, linkVars

(* A handoff removes everybody.                                            *)
LEMMA InvHandoff ==
  ASSUME Inv, NEW b \in BOOLEAN, LiveHandoff(b)
  PROVE  Inv'
<1>1. TypeOK /\ Roster /\ OwnerIsAttachedClient
  BY DEF Inv
<1>2. /\ handoff' = b /\ table' = {} /\ writer' = {} /\ Forget(table)
      /\ owners' = OwnersWithout(table) /\ locks' = LocksWithout(table, Live)
      /\ foreground' = None /\ effective' = MinSize /\ renderDue' = TRUE
      /\ UNCHANGED <<linkVars, life, reading>>
  BY DEF LiveHandoff
<1>3. /\ role' \in [Clients -> {"none", "app", "pending", "attach", "observe"}]
      /\ term' \in [Clients -> Terminals \cup {None}]
      /\ size' \in [Clients -> Sizes \cup {MinSize}]
      /\ older' \in [AppClients -> SUBSET AppClients]
  BY <1>1, <1>2 DEF Forget, Blank, TypeOK
<1>4. owners' \in [Terminals -> Clients \cup {None}] /\ locks' \subseteq Terminals
  BY <1>1, <1>2 DEF OwnersWithout, LocksWithout, TypeOK
<1>5. told' \subseteq Clients
  BY <1>1, ShutDownType DEF LiveHandoff
<1>6. pty' \in [Terminals -> Sizes \cup {MinSize}]
  <2>1. CASE pty' = pty
    BY <1>1, <2>1 DEF TypeOK
  <2>2. ASSUME NEW cs \in SUBSET table, NEW c \in Apps(table),
               pty' = SharedResize(pty, Live, LocksWithout(cs, Live), size[c])
        PROVE  pty' \in [Terminals -> Sizes \cup {MinSize}]
    <3>1. size[c] \in Sizes \cup {MinSize}
      BY <1>1 DEF Apps, TypeOK
    <3> QED BY <1>1, <2>2, <3>1, ResizeType DEF TypeOK
  <2> QED BY <2>1, <2>2 DEF LiveHandoff
<1>7. TypeOK'
  BY <1>1, <1>2, <1>3, <1>4, <1>5, <1>6 DEF TypeOK, linkVars
<1>8. Roster'
  BY <1>1, <1>2 DEF Roster, Forget, Blank, TypeOK
<1>9. OwnerIsAttachedClient'
  <2>1. \A t \in Terminals : owners'[t] \notin Clients
    BY <1>1, <1>2, FreedIsOwned DEF OwnerIsAttachedClient, TypeOK
  <2> QED BY <1>2, <2>1 DEF OwnerIsAttachedClient
<1> QED BY <1>7, <1>8, <1>9 DEF Inv

(* Every step.                                                             *)
LEMMA InvNext ==
  ASSUME Inv, [Next]_vars
  PROVE  Inv'
<1>1. CASE UNCHANGED vars
  <2>1. TypeOK'
    BY <1>1 DEF Inv, TypeOK, vars, linkVars, rosterVars, driverVars, attachVars, termVars
  <2> QED BY <1>1, <2>1, InvStutter DEF vars, linkVars, rosterVars, attachVars
<1>2. ASSUME NEW c \in Clients, NEW s \in Sizes, ClientConnected(c, s) \/ ClientResize(c, s)
      PROVE  Inv'
  BY <1>2, InvConnect, InvResize
<1>3. ASSUME NEW c \in Clients, NEW t \in Terminals,
             ObserveTerminal(c, t) \/ \E b \in BOOLEAN : AttachTerminal(c, t, b)
      PROVE  Inv'
  BY <1>3, InvObserve, InvAttach
<1>4. ASSUME NEW c \in Clients,
             \/ ClientInput(c) \/ DetachKey(c) \/ ClientDetach(c) \/ ClientDisconnected(c)
             \/ WriterFails(c) \/ SendFails(c)
      PROVE  Inv'
  BY <1>4, InvInput, InvDetachKey, InvLeave, InvWriterFails
<1> QED BY <1>1, <1>2, <1>3, <1>4, InvTerminal, InvRender, InvHandoff DEF Next

(* Every reachable state has the types the server's own structs give it.   *)
THEOREM TypeCorrect == Spec => []TypeOK
<1>1. Init => Inv
  BY InvInit
<1>2. Inv /\ [Next]_vars => Inv'
  BY InvNext
<1>3. Inv => TypeOK
  BY DEF Inv
<1> QED BY <1>1, <1>2, <1>3, PTL DEF Spec

(* However attaches, takeovers, removals and deaths interleave, the owner  *)
(* recorded for a terminal is the one listed client attached to it, so a   *)
(* terminal never has two writers and never keeps one who left.            *)
THEOREM OneWriterPerTerminal == Spec => []OwnerIsAttachedClient
<1>1. Init => Inv
  BY InvInit
<1>2. Inv /\ [Next]_vars => Inv'
  BY InvNext
<1>3. Inv => OwnerIsAttachedClient
  BY DEF Inv
<1> QED BY <1>1, <1>2, <1>3, PTL DEF Spec
----------------------------------------------------------------------------
(* What hangs on the owners: resize locks and screen reads.  A terminal    *)
(* not yet there has neither lock nor owner, or it would be born with one. *)

UnbornIsFree == \A t \in Terminals : life[t] = "unborn" => owners[t] = None /\ t \notin locks

Exclusive == LocksMatchOwners /\ ReadsAndAttachesExclude /\ UnbornIsFree

(* Steps that leave owners, locks, terminals and reads alone.              *)
LEMMA ExclusiveStutter ==
  ASSUME Exclusive, UNCHANGED <<owners, locks, life, reading>>
  PROVE  Exclusive'
BY DEF Exclusive, LocksMatchOwners, ReadsAndAttachesExclude, UnbornIsFree, Live

(* Removing clients frees what they own, locks of live terminals included. *)
LEMMA ExclusiveRemove ==
  ASSUME Inv, Exclusive, NEW cs \in SUBSET Clients,
         owners' = OwnersWithout(cs), locks' = LocksWithout(cs, Live'),
         reading' = reading, Live' \subseteq Live,
         \A t \in Terminals : life'[t] = "unborn" => life[t] = "unborn"
  PROVE  Exclusive'
<1>1. TypeOK /\ OwnerIsAttachedClient /\ LocksMatchOwners /\ ReadsAndAttachesExclude /\ UnbornIsFree
  BY DEF Inv, Exclusive
<1>2. \A t \in Terminals : /\ t \in Freed(cs) <=> owners[t] \in cs
                           /\ owners'[t] = IF owners[t] \in cs THEN None ELSE owners[t]
  BY <1>1, FreedIsOwned
<1>3. Live' \subseteq Terminals /\ locks' = locks \ (Freed(cs) \cap Live')
  BY DEF Live, LocksWithout
<1>4. locks' \cap Live' = {t \in Live' : owners'[t] # None}
  <2>1. \A t \in Live' : t \in locks <=> owners[t] # None
    BY <1>1 DEF LocksMatchOwners
  <2>2. \A t \in Live' : t \in locks' <=> owners'[t] # None
    BY <1>2, <1>3, <2>1
  <2> QED BY <2>2
<1>5. ReadsAndAttachesExclude'
  BY <1>1, <1>2 DEF ReadsAndAttachesExclude, TypeOK
<1>6. UnbornIsFree'
  BY <1>1, <1>2, <1>3 DEF UnbornIsFree
<1> QED BY <1>4, <1>5, <1>6 DEF Exclusive, LocksMatchOwners

(* A grant locks the terminal it gives away, which nobody is reading.      *)
LEMMA ExclusiveGrant ==
  ASSUME Inv, Exclusive, NEW c \in Clients, NEW t \in Terminals, NEW b \in BOOLEAN,
         Grantable(c, t, b), Grant(c, t)
  PROVE  Exclusive'
<1> DEFINE gone == Ousted(c, t)
<1>1. TypeOK /\ OwnerIsAttachedClient /\ LocksMatchOwners /\ ReadsAndAttachesExclude /\ UnbornIsFree
  BY DEF Inv, Exclusive
<1>2. gone \subseteq Clients
  BY <1>1 DEF Ousted, TypeOK
<1>3. t \in Live /\ t \notin reading
  BY DEF Grantable
<1>4. \A u \in Terminals : /\ u \in Freed(gone) <=> owners[u] \in gone
                           /\ OwnersWithout(gone)[u] = IF owners[u] \in gone THEN None ELSE owners[u]
  BY <1>1, <1>2, FreedIsOwned
<1>5. /\ owners' = [OwnersWithout(gone) EXCEPT ![t] = c]
      /\ locks' = LocksWithout(gone, Live) \cup {t}
      /\ life' = life /\ reading' = reading
  BY DEF Grant
<1>6. \A u \in Terminals : owners'[u] = IF u = t THEN c
                                        ELSE IF owners[u] \in gone THEN None ELSE owners[u]
  BY <1>4, <1>5 DEF OwnersWithout
<1>7. locks' = (locks \ (Freed(gone) \cap Live)) \cup {t}
  BY <1>5 DEF LocksWithout
<1>8. LocksMatchOwners'
  <2>1. Live' = Live /\ Live \subseteq Terminals
    BY <1>5 DEF Live
  <2>2. \A u \in Live : u \in locks' <=> owners'[u] # None
    BY <1>1, <1>4, <1>6, <1>7, <2>1 DEF LocksMatchOwners
  <2> QED BY <2>1, <2>2 DEF LocksMatchOwners
<1>9. ReadsAndAttachesExclude'
  BY <1>1, <1>3, <1>5, <1>6 DEF ReadsAndAttachesExclude, TypeOK
<1>10. UnbornIsFree'
  BY <1>1, <1>3, <1>5, <1>6, <1>7 DEF UnbornIsFree, Live
<1> QED BY <1>8, <1>9, <1>10 DEF Exclusive

(* Requests, leaving, renders and handoffs are one of the two above.       *)
LEMMA ExclusiveRefuse ==
  ASSUME Inv, Exclusive, NEW c \in Clients, Remove({c}), UNCHANGED <<life, reading>>
  PROVE  Exclusive'
<1>1. Live' = Live
  BY DEF Live
<1>2. owners' = OwnersWithout({c}) /\ locks' = LocksWithout({c}, Live')
  BY <1>1 DEF Remove, RemoveFrom
<1> QED BY <1>1, <1>2, ExclusiveRemove

(* Every step of a terminal.                                               *)
LEMMA ExclusiveTerminal ==
  ASSUME Inv, Exclusive, NEW t \in Terminals,
         \/ TerminalDies(t) \/ TerminalCloses(t) \/ ReadStarts(t) \/ ReadEnds(t)
         \/ \E s \in Sizes : TerminalSpawns(t, s)
  PROVE  Exclusive'
<1>1. TypeOK /\ LocksMatchOwners /\ ReadsAndAttachesExclude /\ UnbornIsFree
  BY DEF Inv, Exclusive
<1>2. CASE TerminalDies(t)
  <2>1. Live' = Live \ {t} /\ \A u \in Terminals : life'[u] = "unborn" => life[u] = "unborn"
    BY <1>1, <1>2 DEF TerminalDies, Live, TypeOK
  <2>2. StreamsOf(t) \subseteq Clients /\ reading' = reading
    BY <1>1, <1>2 DEF StreamsOf, TerminalDies, TypeOK
  <2>3. owners' = OwnersWithout(StreamsOf(t)) /\ locks' = LocksWithout(StreamsOf(t), Live')
    BY <1>2, <2>1 DEF TerminalDies, RemoveFrom
  <2> QED BY <2>1, <2>2, <2>3, ExclusiveRemove
<1>3. CASE TerminalCloses(t)
  <2>1. /\ Live' = Live \ {t} /\ locks' \in {locks, locks \ {t}}
        /\ UNCHANGED <<owners, reading>>
        /\ \A u \in Terminals : life'[u] = "unborn" => life[u] = "unborn"
    BY <1>1, <1>3 DEF TerminalCloses, Live, TypeOK
  <2> QED BY <1>1, <2>1 DEF Exclusive, LocksMatchOwners, ReadsAndAttachesExclude, UnbornIsFree
<1>4. CASE ReadStarts(t)
  BY <1>1, <1>4 DEF ReadStarts, attachVars, Exclusive, LocksMatchOwners,
                    ReadsAndAttachesExclude, UnbornIsFree, Live
<1>5. CASE ReadEnds(t)
  BY <1>1, <1>5 DEF ReadEnds, attachVars, Exclusive, LocksMatchOwners,
                    ReadsAndAttachesExclude, UnbornIsFree, Live
<1>6. ASSUME NEW s \in Sizes, TerminalSpawns(t, s) PROVE Exclusive'
  <2>1. /\ Live' = Live \cup {t} /\ UNCHANGED <<owners, locks, reading>> /\ life[t] = "unborn"
        /\ \A u \in Terminals : life'[u] = "unborn" => life[u] = "unborn"
    BY <1>1, <1>6 DEF TerminalSpawns, attachVars, Live, TypeOK
  <2>2. owners[t] = None /\ t \notin locks
    BY <1>1, <2>1 DEF UnbornIsFree
  <2> QED BY <1>1, <2>1, <2>2 DEF Exclusive, LocksMatchOwners, ReadsAndAttachesExclude,
                                  UnbornIsFree
<1> QED BY <1>2, <1>3, <1>4, <1>5, <1>6

(* A render removes clients.                                              *)
LEMMA ExclusiveRender ==
  ASSUME Inv, Exclusive, Render
  PROVE  Exclusive'
<1>1. PICK broken \in SUBSET ({c \in writer : role[c] # "pending"} \ queueUp),
           p \in {pty, SharedResize(pty, Live, locks, effective)} :
             RemoveFrom(Orphans \cup broken, Live, p)
  BY DEF Render
<1>2. Orphans \cup broken \subseteq Clients
  BY DEF Orphans, Inv, TypeOK
<1>3. Live' = Live /\ life' = life /\ reading' = reading
  BY DEF Render, Live
<1>4. owners' = OwnersWithout(Orphans \cup broken) /\ locks' = LocksWithout(Orphans \cup broken, Live')
  BY <1>1, <1>3 DEF RemoveFrom
<1> QED BY <1>2, <1>3, <1>4, ExclusiveRemove

(* A handoff removes everybody.                                            *)
LEMMA ExclusiveHandoff ==
  ASSUME Inv, Exclusive, NEW b \in BOOLEAN, LiveHandoff(b)
  PROVE  Exclusive'
<1>1. Live' = Live /\ life' = life /\ reading' = reading
  BY DEF LiveHandoff, Live
<1>2. owners' = OwnersWithout(table) /\ locks' = LocksWithout(table, Live')
  BY <1>1 DEF LiveHandoff
<1> QED BY <1>1, <1>2, ExclusiveRemove DEF Inv, TypeOK

(* Every step.                                                             *)
LEMMA ExclusiveNext ==
  ASSUME Inv, Exclusive, [Next]_vars
  PROVE  Exclusive'
<1>1. CASE UNCHANGED vars
  BY <1>1, ExclusiveStutter DEF vars, attachVars, termVars
<1>2. ASSUME NEW c \in Clients, NEW s \in Sizes, ClientConnected(c, s) \/ ClientResize(c, s)
      PROVE  Exclusive'
  BY <1>2, ExclusiveStutter DEF ClientConnected, ClientResize, attachVars
<1>3. ASSUME NEW c \in Clients, NEW t \in Terminals, ObserveTerminal(c, t)
      PROVE  Exclusive'
  <2>1. \/ UNCHANGED <<owners, locks, life, reading>>
        \/ Remove({c}) /\ UNCHANGED <<life, reading>>
    BY <1>3 DEF ObserveTerminal, Refuse, attachVars, termVars
  <2> QED BY <2>1, ExclusiveStutter, ExclusiveRefuse
<1>4. ASSUME NEW c \in Clients, NEW t \in Terminals, NEW b \in BOOLEAN, AttachTerminal(c, t, b)
      PROVE  Exclusive'
  <2>1. \/ UNCHANGED <<owners, locks, life, reading>>
        \/ Grantable(c, t, b) /\ Grant(c, t)
        \/ Remove({c}) /\ UNCHANGED <<life, reading>>
    BY <1>4 DEF AttachTerminal, Refuse, attachVars, termVars
  <2> QED BY <2>1, ExclusiveStutter, ExclusiveGrant, ExclusiveRefuse
<1>5. ASSUME NEW c \in Clients,
             \/ ClientInput(c) \/ DetachKey(c) \/ ClientDetach(c) \/ ClientDisconnected(c)
             \/ WriterFails(c) \/ SendFails(c)
      PROVE  Exclusive'
  <2>1. CASE ClientInput(c) \/ DetachKey(c) \/ WriterFails(c)
    BY <2>1, ExclusiveStutter DEF ClientInput, DetachKey, WriterFails, attachVars, termVars
  <2>2. CASE ClientDetach(c) \/ ClientDisconnected(c) \/ SendFails(c)
    BY <2>2, ExclusiveRefuse DEF ClientDetach, ClientDisconnected, SendFails
  <2> QED BY <1>5, <2>1, <2>2
<1> QED BY <1>1, <1>2, <1>3, <1>4, <1>5, ExclusiveTerminal, ExclusiveRender, ExclusiveHandoff DEF Next

(* Nothing is owned, locked or read when the server starts.                *)
LEMMA ExclusiveInit == Init => Exclusive
BY DEF Init, Exclusive, LocksMatchOwners, ReadsAndAttachesExclude, UnbornIsFree, Live

(* The shared layout resizes a live terminal exactly while nobody is       *)
(* attached to it: an owner's lock comes and goes with the owner.          *)
THEOREM LocksFollowOwners == Spec => []LocksMatchOwners
<1>1. Init => Inv /\ Exclusive
  BY InvInit, ExclusiveInit
<1>2. Inv /\ Exclusive /\ [Next]_vars => Inv' /\ Exclusive'
  BY InvNext, ExclusiveNext
<1>3. Exclusive => LocksMatchOwners
  BY DEF Exclusive
<1> QED BY <1>1, <1>2, <1>3, PTL DEF Spec

(* A terminal that is being read is nobody's: neither an attach nor a read *)
(* starts while the other is on, and none slips in between the two.        *)
THEOREM ReadsNeverMeetOwners == Spec => []ReadsAndAttachesExclude
<1>1. Init => Inv /\ Exclusive
  BY InvInit, ExclusiveInit
<1>2. Inv /\ Exclusive /\ [Next]_vars => Inv' /\ Exclusive'
  BY InvNext, ExclusiveNext
<1>3. Exclusive => ReadsAndAttachesExclude
  BY DEF Exclusive
<1> QED BY <1>1, <1>2, <1>3, PTL DEF Spec

(* Owner, lock and mode change in one step, whatever the order of attaches, *)
(* takeovers, detaches, disconnects, closings and reads.                   *)
THEOREM OwnershipStaysInStep == Spec => []OwnershipInStep
<1>1. OwnerIsAttachedClient /\ LocksMatchOwners /\ ReadsAndAttachesExclude => OwnershipInStep
  BY DEF OwnershipInStep
<1> QED BY <1>1, OneWriterPerTerminal, LocksFollowOwners, ReadsNeverMeetOwners, PTL
----------------------------------------------------------------------------
(* Nobody is left hanging: a client goes without a word only with its      *)
(* connection.                                                             *)

(* Steps after which no more connections are open, and that tell whom they *)
(* stop writing to.                                                        *)
LEMMA ToldKept ==
  ASSUME Inv, NobodyLeftHanging, NEW cs,
         writer \ cs \subseteq writer', told \cup (cs \cap writer \cap queueUp) \subseteq told',
         queueUp' \subseteq queueUp,
         \A d \in Clients : conn'[d] \in {"greeted", "open"} => conn[d] \in {"greeted", "open"}
  PROVE  NobodyLeftHanging'
BY DEF NobodyLeftHanging, Inv, TypeOK

(* A client whose connection is over needs no word. *)
LEMMA ClosedKept ==
  ASSUME Inv, NobodyLeftHanging, NEW c \in Clients, conn' = [conn EXCEPT ![c] = "closed"],
         writer' = writer \ {c}, told' = told \ {c}, queueUp' = queueUp
  PROVE  NobodyLeftHanging'
<1> SUFFICES ASSUME NEW d \in queueUp \ writer', conn'[d] \in {"greeted", "open"} PROVE d \in told'
  BY DEF NobodyLeftHanging
<1>1. d \in Clients /\ d # c /\ conn'[d] = conn[d]
  BY DEF Inv, TypeOK
<1> QED BY <1>1 DEF NobodyLeftHanging

LEMMA HangingNext ==
  ASSUME Inv, NobodyLeftHanging, [Next]_vars
  PROVE  NobodyLeftHanging'
<1>0. queueUp \subseteq Clients /\ writer \subseteq table /\ TypeOK
  BY DEF Inv, TypeOK
<1>1. ASSUME UNCHANGED <<conn, queueUp, told, writer>> PROVE NobodyLeftHanging'
  BY <1>1 DEF NobodyLeftHanging
<1>2. ASSUME NEW c \in Clients, NEW s \in Sizes, ClientConnected(c, s) PROVE NobodyLeftHanging'
  <2>1. /\ conn' = [conn EXCEPT ![c] = IF c \in AppClients THEN "open" ELSE "greeted"]
        /\ queueUp' = queueUp
        /\ \/ told' = told \cup ({c} \cap queueUp) /\ writer' = writer
           \/ told' = told /\ writer' = writer \cup {c}
    BY <1>2 DEF ClientConnected, rosterVars
  <2> QED BY <1>0, <2>1 DEF NobodyLeftHanging, TypeOK
<1>3. ASSUME NEW c \in Clients, NEW t \in Terminals,
             ObserveTerminal(c, t) \/ \E b \in BOOLEAN : AttachTerminal(c, t, b)
      PROVE  NobodyLeftHanging'
  <2>1. /\ conn[c] = "greeted" /\ conn' = [conn EXCEPT ![c] = "open"] /\ queueUp' = queueUp
    BY <1>3 DEF ObserveTerminal, AttachTerminal
  <2>2. \E cs \in SUBSET Clients : /\ writer' = writer \ cs
                                   /\ told' = told \cup (cs \cap writer \cap queueUp)
    <3>1. ASSUME Refuse(c) PROVE <2>2
      BY <3>1 DEF Refuse, ShutDown, Remove, RemoveFrom
    <3>2. ASSUME Grant(c, t) PROVE <2>2
      <4>1. Ousted(c, t) \subseteq Clients
        BY <1>0 DEF Ousted, TypeOK
      <4> QED BY <3>2, <4>1 DEF Grant, ShutDown
    <3>3. ASSUME UNCHANGED <<told, writer>> PROVE <2>2
      BY <3>3
    <3> QED BY <1>3, <3>1, <3>2, <3>3 DEF ObserveTerminal, AttachTerminal, rosterVars
  <2>3. \A d \in Clients : conn'[d] \in {"greeted", "open"} => conn[d] \in {"greeted", "open"}
    BY <1>0, <2>1 DEF TypeOK
  <2>4. PICK cs \in SUBSET Clients : /\ writer' = writer \ cs
                                     /\ told' = told \cup (cs \cap writer \cap queueUp)
    BY <2>2
  <2> QED BY <1>0, <2>1, <2>3, <2>4, ToldKept
<1>4. ASSUME NEW c \in Clients, DetachKey(c) PROVE NobodyLeftHanging'
  <2>1. /\ UNCHANGED <<conn, queueUp>> /\ writer' = writer \ {c}
        /\ told' = told \cup ({c} \cap writer \cap queueUp)
    BY <1>4 DEF DetachKey, ShutDown, linkVars
  <2> QED BY <1>0, <2>1, ToldKept
<1>5. ASSUME NEW c \in Clients, ClientDetach(c) PROVE NobodyLeftHanging'
  <2>1. /\ conn' = [conn EXCEPT ![c] = "closed"] /\ queueUp' = queueUp
        /\ writer' = writer \ {c} /\ told' = told \ {c}
    BY <1>5 DEF ClientDetach, Remove, RemoveFrom
  <2> QED BY <1>0, <2>1, ClosedKept
<1>6. ASSUME NEW c \in Clients, ClientDisconnected(c) PROVE NobodyLeftHanging'
  <2>1. queueUp' = queueUp /\ writer' = writer \ {c}
        /\ \/ conn' = [conn EXCEPT ![c] = "closed"] /\ told' = told \ {c}
           \/ c \notin queueUp \cap table /\ UNCHANGED <<conn, told>>
    BY <1>6 DEF ClientDisconnected, Remove, RemoveFrom
  <2>2. CASE conn' = [conn EXCEPT ![c] = "closed"] /\ told' = told \ {c}
    BY <1>0, <2>1, <2>2, ClosedKept
  <2>3. CASE c \notin queueUp \cap table /\ UNCHANGED <<conn, told>>
    BY <1>0, <2>1, <2>3 DEF NobodyLeftHanging
  <2> QED BY <2>1, <2>2, <2>3
<1>7. ASSUME NEW c \in Clients, SendFails(c) PROVE NobodyLeftHanging'
  <2>1. c \notin queueUp /\ writer' = writer \ {c} /\ UNCHANGED <<conn, queueUp, told>>
    BY <1>7 DEF SendFails, Remove, RemoveFrom, linkVars
  <2> QED BY <2>1 DEF NobodyLeftHanging
<1>8. ASSUME NEW c \in Clients, WriterFails(c) PROVE NobodyLeftHanging'
  <2>1. queueUp' = queueUp \ {c} /\ UNCHANGED <<conn, told, writer>>
    BY <1>8 DEF WriterFails, rosterVars
  <2> QED BY <2>1 DEF NobodyLeftHanging
<1>9. ASSUME NEW t \in Terminals, TerminalDies(t) PROVE NobodyLeftHanging'
  <2>1. /\ UNCHANGED <<conn, queueUp>> /\ writer' = writer \ StreamsOf(t)
        /\ told' = told \cup (StreamsOf(t) \cap writer \cap queueUp)
    BY <1>9 DEF TerminalDies, ShutDown, RemoveFrom, linkVars
  <2> QED BY <1>0, <2>1, ToldKept
<1>10. CASE Render
  <2>1. PICK broken \in SUBSET ({c \in writer : role[c] # "pending"} \ queueUp),
             p \in {pty, SharedResize(pty, Live, locks, effective)} :
               RemoveFrom(Orphans \cup broken, Live, p)
    BY <1>10 DEF Render
  <2>2. /\ UNCHANGED <<conn, queueUp>> /\ writer' = writer \ (Orphans \cup broken)
        /\ told' = told \cup (Orphans \cap writer \cap queueUp) /\ broken \cap queueUp = {}
    BY <1>10, <2>1 DEF Render, ShutDown, RemoveFrom, linkVars
  <2> QED BY <1>0, <2>2 DEF NobodyLeftHanging
<1>11. ASSUME NEW b \in BOOLEAN, LiveHandoff(b) PROVE NobodyLeftHanging'
  <2>1. /\ UNCHANGED <<conn, queueUp>> /\ writer' = {}
        /\ told' = told \cup (table \cap writer \cap queueUp)
    BY <1>11 DEF LiveHandoff, ShutDown, linkVars
  <2> QED BY <1>0, <2>1 DEF NobodyLeftHanging
<1>12. ASSUME NEW c \in Clients, NEW s \in Sizes, ClientResize(c, s) PROVE NobodyLeftHanging'
  BY <1>1, <1>12 DEF ClientResize, linkVars
<1>13. ASSUME NEW c \in Clients, ClientInput(c) PROVE NobodyLeftHanging'
  BY <1>1, <1>13 DEF ClientInput, linkVars
<1>14. ASSUME NEW t \in Terminals,
              \/ TerminalCloses(t) \/ ReadStarts(t) \/ ReadEnds(t)
              \/ \E s \in Sizes : TerminalSpawns(t, s)
       PROVE  NobodyLeftHanging'
  BY <1>1, <1>14 DEF TerminalCloses, ReadStarts, ReadEnds, TerminalSpawns, linkVars, rosterVars
<1>15. CASE UNCHANGED vars
  BY <1>1, <1>15 DEF vars, linkVars, rosterVars
<1> QED
  BY <1>2, <1>3, <1>4, <1>5, <1>6, <1>7, <1>8, <1>9, <1>10, <1>11, <1>12, <1>13, <1>14, <1>15
  DEF Next

(* Streams have terminals, once the render that is due has been made.      *)

(* Steps that end streams only, on terminals that stay. *)
LEMMA StreamsKept ==
  ASSUME Inv, StreamsHaveTerminals, NEW cs \in SUBSET Clients,
         writer' \subseteq writer \ cs, Live' = Live,
         \A d \in Clients \ cs : role'[d] = role[d] /\ term'[d] = term[d],
         ~renderDue' => ~renderDue \/ Orphans \subseteq cs
  PROVE  StreamsHaveTerminals'
<1> SUFFICES ASSUME ~renderDue', NEW d \in writer', role'[d] \in {"attach", "observe"}
             PROVE  term'[d] \in Live
  BY DEF StreamsHaveTerminals
<1>1. d \in writer /\ d \in Clients \ cs
  BY DEF Inv, TypeOK
<1>2. role'[d] = role[d] /\ term'[d] = term[d]
  BY <1>1
<1> QED BY <1>1, <1>2 DEF StreamsHaveTerminals, Orphans

(* What a removal leaves of the others. *)
LEMMA ForgetOthers ==
  ASSUME TypeOK, NEW cs, Forget(cs)
  PROVE  /\ \A d \in Clients \ cs : role'[d] = role[d] /\ term'[d] = term[d] /\ size'[d] = size[d]
         /\ \A d \in Clients \cap cs : role'[d] = "none"
BY DEF Forget, Blank, TypeOK

LEMMA StreamsRemove ==
  ASSUME Inv, StreamsHaveTerminals, NEW cs \in SUBSET Clients, NEW ts, NEW p,
         RemoveFrom(cs, ts, p), life' = life, ~renderDue' => ~renderDue \/ Orphans \subseteq cs
  PROVE  StreamsHaveTerminals'
<1>1. writer' = writer \ cs /\ Forget(cs) /\ Live' = Live
  BY DEF RemoveFrom, Live
<1>2. \A d \in Clients \ cs : role'[d] = role[d] /\ term'[d] = term[d]
  BY <1>1, ForgetOthers DEF Inv
<1> QED BY <1>1, <1>2, StreamsKept

LEMMA StreamsNext ==
  ASSUME Inv, StreamsHaveTerminals, [Next]_vars
  PROVE  StreamsHaveTerminals'
<1>0. TypeOK
  BY DEF Inv
<1>1. ASSUME renderDue' = TRUE PROVE StreamsHaveTerminals'
  BY <1>1 DEF StreamsHaveTerminals
<1>2. ASSUME UNCHANGED <<writer, role, term, life, renderDue>> PROVE StreamsHaveTerminals'
  BY <1>2 DEF StreamsHaveTerminals, Live
<1>3. ASSUME NEW c \in Clients, Remove({c}), UNCHANGED <<life, renderDue>>
      PROVE  StreamsHaveTerminals'
  BY <1>3, StreamsRemove DEF Remove
<1>4. ASSUME NEW c \in Clients, NEW s \in Sizes, ClientConnected(c, s) \/ ClientResize(c, s)
      PROVE  StreamsHaveTerminals'
  BY <1>1, <1>2, <1>4 DEF ClientConnected, ClientResize, rosterVars
<1>5. ASSUME NEW c \in Clients, NEW t \in Terminals,
             ObserveTerminal(c, t) \/ \E b \in BOOLEAN : AttachTerminal(c, t, b)
      PROVE  StreamsHaveTerminals'
  <2>1. \/ UNCHANGED <<writer, role, term, life, renderDue>>
        \/ renderDue' = TRUE
        \/ Refuse(c)
    BY <1>5 DEF ObserveTerminal, AttachTerminal, Grant, rosterVars, termVars
  <2> QED BY <1>1, <1>2, <1>3, <2>1 DEF Refuse
<1>6. ASSUME NEW c \in Clients, ClientInput(c) \/ ClientDetach(c) \/ ClientDisconnected(c)
      PROVE  StreamsHaveTerminals'
  BY <1>1, <1>6 DEF ClientInput, ClientDetach, ClientDisconnected
<1>7. ASSUME NEW c \in Clients, DetachKey(c) PROVE StreamsHaveTerminals'
  <2>1. writer' = writer \ {c} /\ UNCHANGED <<life, renderDue>>
        /\ (Forget({c}) \/ UNCHANGED <<role, term>>)
    BY <1>7 DEF DetachKey
  <2>2. \A d \in Clients \ {c} : role'[d] = role[d] /\ term'[d] = term[d]
    BY <1>0, <2>1, ForgetOthers
  <2> QED BY <2>1, <2>2, StreamsKept DEF Live
<1>8. ASSUME NEW c \in Clients, WriterFails(c) PROVE StreamsHaveTerminals'
  BY <1>2, <1>8 DEF WriterFails, rosterVars, termVars
<1>9. ASSUME NEW c \in Clients, SendFails(c) PROVE StreamsHaveTerminals'
  BY <1>3, <1>9 DEF SendFails
<1>10. ASSUME NEW t \in Terminals, ReadStarts(t) \/ ReadEnds(t) PROVE StreamsHaveTerminals'
  BY <1>2, <1>10 DEF ReadStarts, ReadEnds, rosterVars
<1>11. ASSUME NEW t \in Terminals,
              TerminalDies(t) \/ TerminalCloses(t) \/ \E s \in Sizes : TerminalSpawns(t, s)
       PROVE  StreamsHaveTerminals'
  BY <1>1, <1>11 DEF TerminalDies, TerminalCloses, TerminalSpawns
<1>12. CASE Render
  <2>1. PICK broken \in SUBSET ({c \in writer : role[c] # "pending"} \ queueUp),
             p \in {pty, SharedResize(pty, Live, locks, effective)} :
               RemoveFrom(Orphans \cup broken, Live, p)
    BY <1>12 DEF Render
  <2>2. Orphans \cup broken \in SUBSET Clients /\ life' = life
    BY <1>0, <1>12 DEF Orphans, TypeOK, Render
  <2> QED BY <2>1, <2>2, StreamsRemove
<1>13. ASSUME NEW b \in BOOLEAN, LiveHandoff(b) PROVE StreamsHaveTerminals'
  BY <1>1, <1>13 DEF LiveHandoff
<1>14. CASE UNCHANGED vars
  BY <1>2, <1>14 DEF vars, rosterVars, termVars
<1> QED
  BY <1>4, <1>5, <1>6, <1>7, <1>8, <1>9, <1>10, <1>11, <1>12, <1>13, <1>14 DEF Next

(* No client is left in front of a screen on which nothing will come: one  *)
(* the server stops writing to is told so, unless its connection is over,  *)
(* and a stream whose terminal has gone ends with the next render.         *)
THEOREM EveryClientIsServed == Spec => []ClientsAreServed
<1>1. Init => Inv /\ ClientsAreServed
  <2>1. Init => ClientsAreServed
    BY DEF Init, ClientsAreServed, NobodyLeftHanging, StreamsHaveTerminals
  <2> QED BY <2>1, InvInit
<1>2. Inv /\ ClientsAreServed /\ [Next]_vars => Inv' /\ ClientsAreServed'
  BY InvNext, HangingNext, StreamsNext DEF ClientsAreServed
<1> QED BY <1>1, <1>2, PTL DEF Spec
----------------------------------------------------------------------------
(* Sizes follow drivers.                                                   *)

(* A client is asked what it wants exactly until its first request, and    *)
(* nobody is listed once a handoff has been committed.                     *)
Asked ==
  /\ handoff => table = {}
  /\ \A c \in table : /\ conn[c] \in {"greeted", "open"}
                      /\ role[c] = "pending" <=> conn[c] = "greeted"

LEMMA AskedRemove ==
  ASSUME Inv, Asked, NEW cs, Forget(cs), table' = table \ cs,
         \A d \in Clients \ cs : conn'[d] = conn[d], handoff' = handoff
  PROVE  Asked'
<1> SUFFICES ASSUME NEW d \in table \ cs
             PROVE  /\ conn'[d] \in {"greeted", "open"}
                    /\ role'[d] = "pending" <=> conn'[d] = "greeted"
  BY DEF Asked
<1>1. d \in Clients \ cs /\ TypeOK
  BY DEF Inv, TypeOK
<1>2. role'[d] = role[d] /\ conn'[d] = conn[d]
  BY <1>1, ForgetOthers
<1> QED BY <1>1, <1>2 DEF Asked

LEMMA AskedNext ==
  ASSUME Inv, Asked, [Next]_vars
  PROVE  Asked'
<1>0. TypeOK /\ Roster
  BY DEF Inv
<1>1. ASSUME UNCHANGED <<conn, table, role, handoff>> PROVE Asked'
  BY <1>1 DEF Asked
<1>2. ASSUME NEW c \in Clients, NEW s \in Sizes, ClientConnected(c, s) PROVE Asked'
  <2>1. /\ conn[c] = "new"
        /\ conn' = [conn EXCEPT ![c] = IF c \in AppClients THEN "open" ELSE "greeted"]
        /\ handoff' = handoff
        /\ \/ handoff /\ UNCHANGED <<table, role>>
           \/ /\ ~handoff /\ table' = table \cup {c}
              /\ role' = [role EXCEPT ![c] = IF c \in AppClients THEN "app" ELSE "pending"]
    BY <1>2 DEF ClientConnected, rosterVars
  <2>2. c \notin table
    BY <1>0, <2>1 DEF Roster
  <2> QED BY <1>0, <2>1, <2>2 DEF Asked, TypeOK
<1>3. ASSUME NEW c \in Clients, conn[c] = "greeted", conn' = [conn EXCEPT ![c] = "open"],
             Refuse(c)
      PROVE  Asked'
  <2>1. Forget({c}) /\ table' = table \ {c} /\ handoff' = handoff
    BY <1>3 DEF Refuse, Remove, RemoveFrom
  <2>2. \A d \in Clients \ {c} : conn'[d] = conn[d]
    BY <1>0, <1>3 DEF TypeOK
  <2> QED BY <2>1, <2>2, AskedRemove
<1>4. ASSUME NEW c \in Clients, conn[c] = "greeted", conn' = [conn EXCEPT ![c] = "open"],
             handoff, UNCHANGED <<table, handoff>>
      PROVE  Asked'
  BY <1>4 DEF Asked
<1>5. ASSUME NEW c \in Clients, NEW t \in Terminals, ObserveTerminal(c, t) PROVE Asked'
  <2>1. conn[c] = "greeted" /\ conn' = [conn EXCEPT ![c] = "open"]
    BY <1>5 DEF ObserveTerminal
  <2>2. \/ handoff /\ UNCHANGED <<table, handoff>>
        \/ /\ role' = [role EXCEPT ![c] = "observe"] /\ UNCHANGED <<table, handoff>>
        \/ Refuse(c)
    BY <1>5 DEF ObserveTerminal, rosterVars
  <2>3. CASE role' = [role EXCEPT ![c] = "observe"] /\ UNCHANGED <<table, handoff>>
    BY <1>0, <2>1, <2>3 DEF Asked, TypeOK
  <2> QED BY <1>3, <1>4, <2>1, <2>2, <2>3
<1>6. ASSUME NEW c \in Clients, NEW t \in Terminals, NEW b \in BOOLEAN, AttachTerminal(c, t, b)
      PROVE  Asked'
  <2>1. conn[c] = "greeted" /\ conn' = [conn EXCEPT ![c] = "open"]
    BY <1>6 DEF AttachTerminal
  <2>2. \/ handoff /\ UNCHANGED <<table, handoff>>
        \/ Grant(c, t)
        \/ Refuse(c)
    BY <1>6 DEF AttachTerminal, rosterVars
  <2>3. ASSUME Grant(c, t) PROVE Asked'
    <3>1. /\ table' = table \ Ousted(c, t) /\ handoff' = handoff
          /\ role' = [Blank(role, Ousted(c, t), "none") EXCEPT ![c] = "attach"]
      BY <2>3 DEF Grant
    <3>2. \A d \in Clients : d \notin Ousted(c, t) =>
            role'[d] = IF d = c THEN "attach" ELSE role[d]
      BY <1>0, <3>1 DEF Blank, TypeOK
    <3> QED BY <1>0, <2>1, <3>1, <3>2 DEF Asked, TypeOK
  <2> QED BY <1>3, <1>4, <2>1, <2>2, <2>3
<1>7. ASSUME NEW c \in Clients, NEW s \in Sizes, ClientResize(c, s) PROVE Asked'
  BY <1>1, <1>7 DEF ClientResize, linkVars
<1>8. ASSUME NEW c \in Clients, ClientInput(c) \/ WriterFails(c) PROVE Asked'
  BY <1>1, <1>8 DEF ClientInput, WriterFails, linkVars, rosterVars
<1>9. ASSUME NEW c \in Clients, DetachKey(c) PROVE Asked'
  <2>1. /\ conn' = conn /\ handoff' = handoff
        /\ \/ Forget({c}) /\ table' = table \ {c}
           \/ UNCHANGED <<table, role>>
    BY <1>9 DEF DetachKey, linkVars
  <2> QED BY <1>1, <2>1, AskedRemove
<1>10. ASSUME NEW c \in Clients, ClientDetach(c) \/ ClientDisconnected(c) \/ SendFails(c)
       PROVE  Asked'
  <2>1. Forget({c}) /\ table' = table \ {c} /\ handoff' = handoff
    BY <1>10 DEF ClientDetach, ClientDisconnected, SendFails, Remove, RemoveFrom
  <2>2. \A d \in Clients \ {c} : conn'[d] = conn[d]
    BY <1>0, <1>10 DEF ClientDetach, ClientDisconnected, SendFails, linkVars, TypeOK
  <2> QED BY <2>1, <2>2, AskedRemove
<1>11. ASSUME NEW t \in Terminals, TerminalDies(t) PROVE Asked'
  <2>1. Forget(StreamsOf(t)) /\ table' = table \ StreamsOf(t) /\ UNCHANGED <<conn, handoff>>
    BY <1>11 DEF TerminalDies, RemoveFrom, linkVars
  <2> QED BY <2>1, AskedRemove
<1>12. ASSUME NEW t \in Terminals,
              \/ TerminalCloses(t) \/ ReadStarts(t) \/ ReadEnds(t)
              \/ \E s \in Sizes : TerminalSpawns(t, s)
       PROVE  Asked'
  BY <1>1, <1>12 DEF TerminalCloses, ReadStarts, ReadEnds, TerminalSpawns, linkVars, rosterVars
<1>13. CASE Render
  <2>1. PICK broken \in SUBSET ({c \in writer : role[c] # "pending"} \ queueUp),
             p \in {pty, SharedResize(pty, Live, locks, effective)} :
               RemoveFrom(Orphans \cup broken, Live, p)
    BY <1>13 DEF Render
  <2>2. /\ Forget(Orphans \cup broken) /\ table' = table \ (Orphans \cup broken)
        /\ UNCHANGED <<conn, handoff>>
    BY <1>13, <2>1 DEF Render, RemoveFrom, linkVars
  <2> QED BY <2>2, AskedRemove
<1>14. ASSUME NEW b \in BOOLEAN, LiveHandoff(b) PROVE Asked'
  BY <1>14 DEF LiveHandoff, Asked
<1>15. CASE UNCHANGED vars
  BY <1>1, <1>15 DEF vars, linkVars, rosterVars
<1> QED
  BY <1>2, <1>5, <1>6, <1>7, <1>8, <1>9, <1>10, <1>11, <1>12, <1>13, <1>14, <1>15 DEF Next

(* Who is left to drive when some clients go, is one of the rest. *)
LEMMA LatestLeft ==
  ASSUME NEW cs, NEW c \in Latest(cs)
  PROVE  c \in IF Apps(cs) = {} THEN {None} ELSE Apps(cs)
BY DEF Latest

LEMMA NewDriver ==
  ASSUME Inv, NEW cs \in SUBSET Clients,
         foreground' \in IF Apps(table \ cs) = {} THEN {None} ELSE Apps(table \ cs),
         effective' = SizeOf(foreground', size),
         Apps(table)' = Apps(table \ cs), \A d \in Apps(table \ cs) : size'[d] = size[d]
  PROVE  ForegroundDrives'
<1>1. None \notin Apps(table \ cs)
  BY DEF Apps, Inv, TypeOK
<1>2. SizeOf(foreground', size) = SizeOf(foreground', size')
  BY <1>1 DEF SizeOf
<1> QED BY <1>2 DEF ForegroundDrives, SizeOf

LEMMA SucceedDrives ==
  ASSUME Inv, ForegroundDrives, NEW cs \in SUBSET Clients, Succeed(cs),
         Apps(table)' = Apps(table \ cs), \A d \in Apps(table \ cs) : size'[d] = size[d]
  PROVE  ForegroundDrives'
<1>1. Apps(table \ cs) = Apps(table) \ cs /\ None \notin cs
  BY DEF Apps
<1>2. foreground' \in IF Apps(table \ cs) = {} THEN {None} ELSE Apps(table \ cs)
  <2>1. CASE foreground \in cs
    BY <2>1, LatestLeft DEF Succeed
  <2>2. CASE foreground \notin cs
    BY <1>1, <2>2 DEF Succeed, ForegroundDrives
  <2> QED BY <2>1, <2>2
<1>3. effective' = SizeOf(foreground', size)
  BY DEF Succeed, ForegroundDrives
<1> QED BY <1>2, <1>3, NewDriver

LEMMA AppsWithout ==
  ASSUME Inv, NEW cs \in SUBSET Clients, table' = table \ cs, Forget(cs)
  PROVE  /\ Apps(table)' = Apps(table \ cs)
         /\ \A d \in Apps(table \ cs) : size'[d] = size[d]
BY ForgetOthers DEF Apps, Inv, TypeOK

LEMMA DrivesRemove ==
  ASSUME Inv, ForegroundDrives, NEW cs \in SUBSET Clients, NEW ts, NEW p, RemoveFrom(cs, ts, p)
  PROVE  ForegroundDrives'
<1>1. table' = table \ cs /\ Forget(cs) /\ Succeed(cs)
  BY DEF RemoveFrom
<1> QED BY <1>1, AppsWithout, SucceedDrives

LEMMA DrivesNext ==
  ASSUME Inv, Asked, ForegroundDrives, [Next]_vars
  PROVE  ForegroundDrives'
<1>0. TypeOK /\ Roster /\ table \subseteq Clients
  BY DEF Inv, TypeOK
<1>1. ASSUME UNCHANGED <<table, role, size, foreground, effective>> PROVE ForegroundDrives'
  BY <1>1 DEF ForegroundDrives, Apps, SizeOf
<1>2. ASSUME NEW c \in Clients, Remove({c}) PROVE ForegroundDrives'
  BY <1>2, DrivesRemove DEF Remove
(* A client that acts drives from then on. *)
<1>3. ASSUME NEW c \in AppClients, table' = table \cup {c}, foreground' = c,
             effective' = size'[c], role'[c] = "app"
      PROVE  ForegroundDrives'
  BY <1>3 DEF ForegroundDrives, Apps, SizeOf, Clients
(* Nothing changes for the app clients. *)
<1>4. ASSUME Apps(table)' = Apps(table), UNCHANGED <<foreground, effective>>,
             \A d \in Apps(table) : size'[d] = size[d]
      PROVE  ForegroundDrives'
  <2>1. None \notin Apps(table)
    BY <1>0 DEF Apps
  <2> QED BY <1>4, <2>1 DEF ForegroundDrives, SizeOf
<1>5. ASSUME NEW c \in Clients, NEW s \in Sizes, ClientConnected(c, s) PROVE ForegroundDrives'
  <2>1. CASE handoff
    BY <1>1, <1>5, <2>1 DEF ClientConnected, rosterVars, driverVars
  <2>2. CASE ~handoff
    <3>1. /\ table' = table \cup {c} /\ size' = [size EXCEPT ![c] = s] /\ c \notin table
          /\ role' = [role EXCEPT ![c] = IF c \in AppClients THEN "app" ELSE "pending"]
          /\ foreground' = (IF c \in AppClients THEN c ELSE foreground)
          /\ effective' = SizeOf(foreground', size')
      BY <1>0, <1>5, <2>2 DEF ClientConnected, Roster
    <3>2. CASE c \in AppClients
      BY <1>0, <1>3, <3>1, <3>2 DEF SizeOf, Clients, TypeOK
    <3>3. CASE c \notin AppClients
      <4>1. Apps(table)' = Apps(table)
        BY <1>0, <3>1, <3>3 DEF Apps, TypeOK
      <4>2. foreground' = foreground /\ \A d \in table : size'[d] = size[d]
        BY <1>0, <3>1, <3>3 DEF TypeOK
      <4>3. foreground # None => foreground \in table
        BY DEF ForegroundDrives, Apps
      <4>4. effective' = effective
        BY <3>1, <4>2, <4>3 DEF ForegroundDrives, SizeOf
      <4> QED BY <1>4, <4>1, <4>2, <4>4 DEF Apps
    <3> QED BY <3>2, <3>3
  <2> QED BY <2>1, <2>2
<1>6. ASSUME NEW c \in Clients, NEW s \in Sizes, ClientResize(c, s) PROVE ForegroundDrives'
  <2>1. /\ UNCHANGED <<table, role>> /\ conn[c] = "open"
        /\ \/ UNCHANGED <<size, driverVars>>
           \/ c \in table /\ role[c] = "attach" /\ ResizeAttached(c, s)
           \/ c \in table /\ role[c] = "observe" /\ ResizeObserver(c, s)
           \/ c \in table /\ role[c] \notin {"attach", "observe"} /\ ResizeApp(c, s)
    BY <1>6 DEF ClientResize
  <2>2. CASE UNCHANGED <<size, driverVars>>
    BY <1>1, <2>1, <2>2 DEF driverVars
  <2>3. CASE c \in table /\ role[c] \in {"attach", "observe"} /\ size' = [size EXCEPT ![c] = s]
             /\ UNCHANGED driverVars
    BY <1>0, <1>4, <2>1, <2>3 DEF Apps, driverVars, TypeOK
  <2>4. CASE c \in table /\ role[c] \notin {"attach", "observe"} /\ ResizeApp(c, s)
    <3>1. role[c] = "app" /\ c \in AppClients
      BY <1>0, <2>1, <2>4 DEF Asked, Roster, TypeOK
    <3>2. foreground' = c /\ effective' = size'[c]
      BY <2>4 DEF ResizeApp, Promote, SizeOf
    <3> QED BY <1>3, <2>1, <2>4, <3>1, <3>2
  <2> QED BY <2>1, <2>2, <2>3, <2>4 DEF ResizeAttached, ResizeObserver
<1>7. ASSUME NEW c \in Clients, NEW t \in Terminals, ObserveTerminal(c, t)
      PROVE  ForegroundDrives'
  <2>1. \/ UNCHANGED <<table, role, size, foreground, effective>>
        \/ /\ Pending(c) /\ role' = [role EXCEPT ![c] = "observe"] /\ Succeed({c})
           /\ UNCHANGED <<table, size>>
        \/ Remove({c})
    BY <1>7 DEF ObserveTerminal, Refuse, rosterVars, driverVars
  <2>2. CASE /\ Pending(c) /\ role' = [role EXCEPT ![c] = "observe"] /\ Succeed({c})
             /\ UNCHANGED <<table, size>>
    <3>1. Apps(table)' = Apps(table \ {c})
      BY <1>0, <2>2 DEF Apps, TypeOK, Pending
    <3> QED BY <2>2, <3>1, SucceedDrives
  <2> QED BY <1>1, <1>2, <2>1, <2>2
<1>8. ASSUME NEW c \in Clients, NEW t \in Terminals, NEW b \in BOOLEAN, AttachTerminal(c, t, b)
      PROVE  ForegroundDrives'
  <2>1. \/ UNCHANGED <<table, role, size, foreground, effective>>
        \/ Pending(c) /\ Grant(c, t)
        \/ Remove({c})
    BY <1>8 DEF AttachTerminal, Refuse, rosterVars, driverVars
  <2>2. ASSUME Pending(c), Grant(c, t) PROVE ForegroundDrives'
    <3> DEFINE gone == Ousted(c, t)
    <3>1. /\ table' = table \ gone /\ Succeed(gone \cup {c})
          /\ role' = [Blank(role, gone, "none") EXCEPT ![c] = "attach"]
          /\ size' = Blank(size, gone, MinSize)
      BY <2>2 DEF Grant
    <3>2. gone \subseteq Clients /\ c \notin gone
      BY <1>0 DEF Ousted, TypeOK
    <3>3. \A d \in Clients \ (gone \cup {c}) : role'[d] = role[d] /\ size'[d] = size[d]
      BY <1>0, <3>1 DEF Blank, TypeOK
    <3>4. role'[c] = "attach"
      BY <1>0, <3>1 DEF Blank, TypeOK
    <3>5. Apps(table)' = Apps(table \ (gone \cup {c}))
      BY <1>0, <3>1, <3>2, <3>3, <3>4 DEF Apps
    <3>6. \A d \in Apps(table \ (gone \cup {c})) : size'[d] = size[d]
      BY <1>0, <3>3 DEF Apps
    <3> HIDE DEF gone
    <3> QED BY <3>1, <3>2, <3>5, <3>6, SucceedDrives
  <2> QED BY <1>1, <1>2, <2>1, <2>2
<1>9. ASSUME NEW c \in Clients, ClientInput(c) PROVE ForegroundDrives'
  <2>1. /\ c \in AppClients /\ c \in table /\ foreground' = c /\ effective' = size[c]
        /\ UNCHANGED <<table, role, size>>
    BY <1>9 DEF ClientInput, Promote, SizeOf
  <2> QED BY <1>0, <1>3, <2>1 DEF Roster
<1>10. ASSUME NEW c \in Clients, DetachKey(c) PROVE ForegroundDrives'
  <2>1. c \in AppClients /\ c \in table
    BY <1>10 DEF DetachKey
  <2>2. CASE c \in writer \ queueUp
    <3>1. /\ table' = table \ {c} /\ Forget({c}) /\ foreground' \in Latest(table \ {c})
          /\ effective' = SizeOf(foreground', size)
      BY <1>10, <2>2 DEF DetachKey
    <3>2. foreground' \in IF Apps(table \ {c}) = {} THEN {None} ELSE Apps(table \ {c})
      BY <3>1, LatestLeft
    <3>3. Apps(table)' = Apps(table \ {c}) /\ \A d \in Apps(table \ {c}) : size'[d] = size[d]
      BY <3>1, AppsWithout
    <3> QED BY <3>1, <3>2, <3>3, NewDriver
  <2>3. CASE c \notin writer \ queueUp
    <3>1. foreground' = c /\ effective' = size[c] /\ UNCHANGED <<table, role, size>>
      BY <1>10, <2>3 DEF DetachKey, Promote, SizeOf
    <3> QED BY <1>0, <1>3, <2>1, <3>1 DEF Roster
  <2> QED BY <2>2, <2>3
<1>11. ASSUME NEW c \in Clients, ClientDetach(c) \/ ClientDisconnected(c) \/ SendFails(c)
       PROVE  ForegroundDrives'
  BY <1>2, <1>11 DEF ClientDetach, ClientDisconnected, SendFails
<1>12. ASSUME NEW c \in Clients, WriterFails(c) PROVE ForegroundDrives'
  BY <1>1, <1>12 DEF WriterFails, rosterVars, driverVars
<1>13. ASSUME NEW t \in Terminals, TerminalDies(t) PROVE ForegroundDrives'
  <2>1. StreamsOf(t) \in SUBSET Clients /\ RemoveFrom(StreamsOf(t), Live \ {t}, pty)
    BY <1>0, <1>13 DEF TerminalDies, StreamsOf
  <2> QED BY <2>1, DrivesRemove
<1>14. ASSUME NEW t \in Terminals,
              \/ TerminalCloses(t) \/ ReadStarts(t) \/ ReadEnds(t)
              \/ \E s \in Sizes : TerminalSpawns(t, s)
       PROVE  ForegroundDrives'
  BY <1>1, <1>14 DEF TerminalCloses, ReadStarts, ReadEnds, TerminalSpawns, rosterVars, driverVars
<1>15. CASE Render
  <2>1. PICK broken \in SUBSET ({c \in writer : role[c] # "pending"} \ queueUp),
             p \in {pty, SharedResize(pty, Live, locks, effective)} :
               RemoveFrom(Orphans \cup broken, Live, p)
    BY <1>15 DEF Render
  <2>2. Orphans \cup broken \in SUBSET Clients
    BY <1>0 DEF Orphans, TypeOK
  <2> QED BY <2>1, <2>2, DrivesRemove
<1>16. ASSUME NEW b \in BOOLEAN, LiveHandoff(b) PROVE ForegroundDrives'
  BY <1>16 DEF LiveHandoff, ForegroundDrives, Apps, SizeOf
<1>17. CASE UNCHANGED vars
  BY <1>1, <1>17 DEF vars, rosterVars, driverVars
<1> QED
  BY <1>5, <1>6, <1>7, <1>8, <1>9, <1>10, <1>11, <1>12, <1>13, <1>14, <1>15, <1>16, <1>17
  DEF Next

(* Steps after which a render is due, or the foreground is not written to, *)
(* and which leave owners and the terminals they have locked alone.        *)
LEMMA SizesOwned ==
  ASSUME TerminalSizes, LocksMatchOwners, UNCHANGED owners, Live' \subseteq Live,
         \A t \in Live \cap locks : pty'[t] = pty[t],
         \A t \in Terminals : owners[t] # None => size'[owners[t]] = size[owners[t]],
         renderDue' = TRUE \/ foreground' \notin writer'
  PROVE  TerminalSizes'
<1> SUFFICES ASSUME NEW t \in Live', owners[t] # None PROVE pty'[t] = size'[owners[t]]
  BY DEF TerminalSizes
<1>1. t \in Live /\ t \in Terminals /\ t \in locks
  BY DEF LocksMatchOwners, Live
<1> QED BY <1>1 DEF TerminalSizes

(* A removal resizes the shared layout when the driver has gone or a       *)
(* terminal has become part of it, and nothing else.                       *)
LEMMA SizesRemove ==
  ASSUME Inv, ForegroundDrives, TerminalSizes, LocksMatchOwners, LocksMatchOwners',
         NEW cs \in SUBSET Clients, NEW p \in {pty, SharedResize(pty, Live, locks, effective)},
         RemoveFrom(cs, Live', p), Live' \subseteq Live,
         ~renderDue' /\ foreground \in writer => \A t \in Live' \ locks : p[t] = effective
  PROVE  TerminalSizes'
<1>0. TypeOK /\ OwnerIsAttachedClient /\ Live' \subseteq Terminals /\ Live \subseteq Terminals
  BY DEF Inv, Live
<1>1. /\ table' = table \ cs /\ writer' = writer \ cs /\ Forget(cs) /\ Succeed(cs)
      /\ owners' = OwnersWithout(cs) /\ locks' = locks \ (Freed(cs) \cap Live')
      /\ pty' = IF RemovalResizes(cs) THEN ResizeShared(p, Live', locks', foreground', effective')
                                      ELSE p
  BY DEF RemoveFrom, LocksWithout
<1> SUFFICES ASSUME NEW t \in Live'
             PROVE  IF owners'[t] # None THEN pty'[t] = size'[owners'[t]]
                    ELSE ~renderDue' /\ foreground' \in writer' => pty'[t] = effective'
  BY DEF TerminalSizes
<1>2. t \in Terminals /\ t \in Live /\ (t \in locks' <=> owners'[t] # None)
  BY <1>0 DEF LocksMatchOwners
<1>3. CASE owners'[t] # None
  <2>1. owners'[t] = owners[t] /\ owners[t] \in Clients \ cs
    BY <1>0, <1>1, <1>2, <1>3, FreedIsOwned DEF TypeOK
  <2>2. size'[owners[t]] = size[owners[t]]
    BY <1>0, <1>1, <2>1, ForgetOthers
  <2>3. t \in locks' /\ t \in locks
    BY <1>1, <1>2, <1>3
  <2>4. p[t] = pty[t]
    BY <1>2, <2>3 DEF SharedResize
  <2>5. pty'[t] = p[t]
    BY <1>0, <1>1, <1>2, <2>3 DEF ResizeShared, SharedResize
  <2>6. pty[t] = size[owners[t]]
    BY <1>2, <1>3, <2>1 DEF TerminalSizes
  <2> QED BY <1>3, <2>1, <2>2, <2>4, <2>5, <2>6
<1>4. CASE owners'[t] = None /\ ~renderDue' /\ foreground' \in writer'
  <2>1. t \notin locks' /\ foreground' # None
    BY <1>0, <1>1, <1>2, <1>4 DEF TypeOK
  <2>2. CASE RemovalResizes(cs)
    BY <1>1, <1>2, <1>4, <2>1, <2>2 DEF ResizeShared, SharedResize
  <2>3. CASE ~RemovalResizes(cs)
    <3>1. foreground \notin cs
      <4>1. foreground \in cs => foreground \in cs \cap table
        BY DEF ForegroundDrives, Apps
      <4> QED BY <2>3, <4>1 DEF RemovalResizes
    <3>2. foreground' = foreground /\ effective' = effective /\ foreground \in writer
      BY <1>1, <1>4, <3>1 DEF Succeed
    <3>3. Freed(cs) = {}
      BY <2>1, <2>3, <3>2 DEF Freed, RemovalResizes
    <3>4. t \in Live' \ locks /\ pty'[t] = p[t]
      BY <1>1, <2>1, <2>3, <3>3
    <3> QED BY <1>4, <3>2, <3>4
  <2> QED BY <2>2, <2>3
<1> QED BY <1>3, <1>4

LEMMA SizesNext ==
  ASSUME Inv, Exclusive, Exclusive', ForegroundDrives, TerminalSizes, [Next]_vars
  PROVE  TerminalSizes'
<1>0. /\ TypeOK /\ Roster /\ OwnerIsAttachedClient /\ Live \subseteq Terminals
      /\ LocksMatchOwners /\ LocksMatchOwners' /\ UnbornIsFree
  BY DEF Inv, Exclusive, Live
<1>1. ASSUME UNCHANGED <<writer, size, foreground, effective, owners, life, pty, renderDue>>
      PROVE  TerminalSizes'
  BY <1>1 DEF TerminalSizes, Live
(* The owners are none of the app clients, nor of those yet to be listed.  *)
<1>2. \A t \in Terminals : owners[t] # None =>
        /\ owners[t] \in table /\ role[owners[t]] = "attach" /\ owners[t] \notin AppClients
        /\ conn[owners[t]] # "new"
  BY <1>0 DEF OwnerIsAttachedClient, Roster, TypeOK
<1>3. \A t \in Live \ locks : owners[t] = None
  BY <1>0 DEF LocksMatchOwners
<1>4. ASSUME NEW c \in Clients, Remove({c}), life' = life, renderDue' = TRUE \/ renderDue' = renderDue
      PROVE  TerminalSizes'
  <2>1. Live' = Live
    BY <1>4 DEF Live
  <2>2. ~renderDue' /\ foreground \in writer => \A t \in Live' \ locks : pty[t] = effective
    BY <1>3, <1>4, <2>1 DEF TerminalSizes
  <2>3. RemoveFrom({c}, Live', pty)
    BY <1>4, <2>1 DEF Remove
  <2> QED BY <1>0, <2>1, <2>2, <2>3, SizesRemove
<1>5. ASSUME NEW c \in Clients, NEW s \in Sizes, ClientConnected(c, s) PROVE TerminalSizes'
  <2>1. CASE handoff
    BY <1>1, <1>5, <2>1 DEF ClientConnected, rosterVars, driverVars, attachVars
  <2>2. CASE ~handoff
    <3>1. /\ size' = [size EXCEPT ![c] = s] /\ conn[c] = "new" /\ renderDue' = TRUE
          /\ pty' = ResizeShared(pty, Live, locks, foreground', effective')
          /\ UNCHANGED <<owners, life>>
      BY <1>5, <2>2 DEF ClientConnected, attachVars
    <3>2. \A t \in Terminals : owners[t] # None => size'[owners[t]] = size[owners[t]]
      BY <1>0, <1>2, <3>1 DEF TypeOK
    <3>3. \A t \in Live \cap locks : pty'[t] = pty[t]
      BY <1>0, <3>1 DEF ResizeShared, SharedResize
    <3> QED BY <1>0, <3>1, <3>2, <3>3, SizesOwned DEF Live
  <2> QED BY <2>1, <2>2
<1>6. ASSUME NEW c \in Clients, NEW s \in Sizes, ClientResize(c, s) PROVE TerminalSizes'
  <2>1. /\ UNCHANGED <<owners, life>> /\ renderDue' = TRUE
        /\ \/ /\ pty' = ResizeShared(pty, Live, locks, foreground, effective)
              /\ UNCHANGED size
           \/ c \in table /\ role[c] = "attach" /\ ResizeAttached(c, s)
           \/ c \in table /\ role[c] = "observe" /\ ResizeObserver(c, s)
           \/ c \in table /\ role[c] \notin {"attach", "observe"} /\ ResizeApp(c, s)
    BY <1>6 DEF ClientResize, attachVars
  <2>2. CASE pty' = ResizeShared(pty, Live, locks, foreground, effective) /\ UNCHANGED size
    <3>1. \A t \in Live \cap locks : pty'[t] = pty[t]
      BY <1>0, <2>2 DEF ResizeShared, SharedResize
    <3> QED BY <1>0, <2>1, <2>2, <3>1, SizesOwned DEF Live
  <2>3. CASE c \in table /\ role[c] = "attach" /\ ResizeAttached(c, s)
    <3>1. /\ size' = [size EXCEPT ![c] = s]
          /\ pty' = IF term[c] \in Live THEN [pty EXCEPT ![term[c]] = s] ELSE pty
      BY <2>3 DEF ResizeAttached
    <3> SUFFICES ASSUME NEW t \in Live, owners[t] # None PROVE pty'[t] = size'[owners[t]]
      BY <2>1 DEF TerminalSizes, Live
    <3>2. t \in Terminals /\ pty[t] = size[owners[t]] /\ owners[t] \in Clients
      BY <1>0 DEF TerminalSizes, TypeOK
    <3>3. owners[t] = c <=> term[c] = t
      BY <1>0, <2>3, <3>2 DEF OwnerIsAttachedClient
    <3>4. CASE owners[t] = c
      BY <1>0, <3>1, <3>2, <3>3, <3>4 DEF TypeOK
    <3>5. CASE owners[t] # c
      BY <1>0, <3>1, <3>2, <3>3, <3>5 DEF TypeOK
    <3> QED BY <3>4, <3>5
  <2>4. CASE c \in table /\ role[c] # "attach" /\ size' = [size EXCEPT ![c] = s]
             /\ \A t \in Live \cap locks : pty'[t] = pty[t]
    <3>1. \A t \in Terminals : owners[t] # None => size'[owners[t]] = size[owners[t]]
      BY <1>0, <1>2, <2>4 DEF TypeOK
    <3> QED BY <1>0, <2>1, <2>4, <3>1, SizesOwned DEF Live
  <2>5. ResizeObserver(c, s) \/ ResizeApp(c, s) =>
          /\ size' = [size EXCEPT ![c] = s]
          /\ \A t \in Live \cap locks : pty'[t] = pty[t]
    BY <1>0 DEF ResizeObserver, ResizeApp, ResizeShared, SharedResize
  <2> QED BY <2>1, <2>2, <2>3, <2>4, <2>5
<1>7. ASSUME NEW c \in Clients, NEW t \in Terminals, ObserveTerminal(c, t) PROVE TerminalSizes'
  <2>1. \/ UNCHANGED <<writer, size, foreground, effective, owners, life, pty, renderDue>>
        \/ renderDue' = TRUE /\ UNCHANGED <<size, owners, life, pty>>
        \/ Remove({c}) /\ UNCHANGED <<life, renderDue>>
    BY <1>7 DEF ObserveTerminal, Refuse, rosterVars, driverVars, attachVars, termVars
  <2>2. CASE renderDue' = TRUE /\ UNCHANGED <<size, owners, life, pty>>
    BY <1>0, <2>2, SizesOwned DEF Live
  <2> QED BY <1>1, <1>4, <2>1, <2>2
<1>8. ASSUME NEW c \in Clients, NEW t \in Terminals, NEW b \in BOOLEAN, AttachTerminal(c, t, b)
      PROVE  TerminalSizes'
  <2>1. \/ UNCHANGED <<writer, size, foreground, effective, owners, life, pty, renderDue>>
        \/ Pending(c) /\ Grant(c, t)
        \/ Remove({c}) /\ UNCHANGED <<life, renderDue>>
    BY <1>8 DEF AttachTerminal, Refuse, rosterVars, driverVars, attachVars, termVars
  <2>2. ASSUME Pending(c), Grant(c, t) PROVE TerminalSizes'
    <3> DEFINE gone  == Ousted(c, t)
               left  == LocksWithout(gone, Live)
               freed == IF RemovalResizes(gone)
                        THEN ResizeShared(pty, Live, left, foreground, effective) ELSE pty
    <3>1. /\ size' = Blank(size, gone, MinSize) /\ owners' = [OwnersWithout(gone) EXCEPT ![t] = c]
          /\ pty' = [freed EXCEPT ![t] = size[c]] /\ renderDue' = TRUE /\ life' = life
      BY <2>2 DEF Grant
    <3>2. gone \in SUBSET Clients /\ c \notin gone
      BY <1>0 DEF Ousted, TypeOK
    <3>3. \A u \in Terminals : owners'[u] = IF u = t THEN c
                                            ELSE IF owners[u] \in gone THEN None ELSE owners[u]
      BY <1>0, <3>1, <3>2, FreedIsOwned DEF OwnersWithout
    <3>4. \A d \in Clients \ gone : size'[d] = size[d]
      BY <1>0, <3>1 DEF Blank, TypeOK
    <3>5. DOMAIN freed = Terminals
      BY <1>0 DEF ResizeShared, SharedResize, TypeOK
    <3>6. \A u \in Live : owners[u] # None /\ owners[u] \notin gone => freed[u] = pty[u]
      <4> TAKE u \in Live
      <4> HAVE owners[u] # None /\ owners[u] \notin gone
      <4>1. u \in Terminals /\ u \in locks /\ u \notin Freed(gone)
        BY <1>0, <3>2, FreedIsOwned DEF LocksMatchOwners
      <4>2. u \in left
        BY <4>1 DEF LocksWithout
      <4> HIDE DEF left
      <4> QED BY <1>0, <4>1, <4>2 DEF ResizeShared, SharedResize
    <3> HIDE DEF gone, freed, left
    <3> SUFFICES ASSUME NEW u \in Live, owners'[u] # None PROVE pty'[u] = size'[owners'[u]]
      BY <3>1 DEF TerminalSizes, Live
    <3>7. u \in Terminals
      BY <1>0
    <3>8. CASE u = t
      BY <3>1, <3>2, <3>3, <3>4, <3>5, <3>7, <3>8
    <3>9. CASE u # t
      <4>1. owners'[u] = owners[u] /\ owners[u] \notin gone /\ owners[u] # None
            /\ owners[u] \in Clients
        BY <1>0, <3>3, <3>7, <3>9 DEF TypeOK
      <4>2. pty'[u] = pty[u]
        BY <3>1, <3>5, <3>6, <3>7, <3>9, <4>1
      <4> QED BY <3>4, <4>1, <4>2 DEF TerminalSizes
    <3> QED BY <3>8, <3>9
  <2> QED BY <1>1, <1>4, <2>1, <2>2
<1>9. ASSUME NEW c \in Clients, ClientInput(c) PROVE TerminalSizes'
  <2>1. /\ renderDue' = TRUE /\ UNCHANGED <<size, owners, life>>
        /\ pty' = IF foreground = c THEN pty ELSE ResizeShared(pty, Live, locks, c, effective')
    BY <1>9 DEF ClientInput, attachVars
  <2>2. \A t \in Live \cap locks : pty'[t] = pty[t]
    BY <1>0, <2>1 DEF ResizeShared, SharedResize
  <2> QED BY <1>0, <2>1, <2>2, SizesOwned DEF Live
<1>10. ASSUME NEW c \in Clients, DetachKey(c) PROVE TerminalSizes'
  <2> DEFINE p == IF foreground = c THEN pty ELSE ResizeShared(pty, Live, locks, c, size[c])
  <2>1. c \in AppClients /\ writer' = writer \ {c} /\ UNCHANGED <<owners, locks, life>>
    BY <1>10 DEF DetachKey, attachVars
  <2>2. \A t \in Live \cap locks : p[t] = pty[t]
    BY <1>0 DEF ResizeShared, SharedResize
  <2>3. CASE c \in writer \ queueUp
    <3>1. /\ Forget({c}) /\ pty' = ResizeShared(p, Live, locks, foreground', effective')
      BY <1>10, <2>3 DEF DetachKey
    <3> HIDE DEF p
    <3>2. \A t \in Live \cap locks : pty'[t] = pty[t]
      BY <1>0, <2>2, <3>1 DEF ResizeShared, SharedResize
    <3>3. \A t \in Terminals : owners[t] # None => size'[owners[t]] = size[owners[t]]
      <4> TAKE t \in Terminals
      <4> HAVE owners[t] # None
      <4>1. owners[t] \in Clients \ {c}
        BY <1>0, <1>2, <2>1 DEF TypeOK
      <4> QED BY <1>0, <3>1, <4>1, ForgetOthers
    <3> SUFFICES ASSUME NEW t \in Live
                 PROVE  IF owners[t] # None THEN pty'[t] = size'[owners[t]]
                        ELSE foreground' \in writer' => pty'[t] = effective'
      BY <2>1 DEF TerminalSizes, Live
    <3>4. CASE owners[t] # None
      BY <1>0, <3>2, <3>3, <3>4 DEF TerminalSizes, LocksMatchOwners
    <3>5. CASE owners[t] = None /\ foreground' \in writer'
      <4>1. t \in Live \ locks /\ foreground' # None
        BY <1>0, <2>1, <3>5 DEF LocksMatchOwners, TypeOK
      <4> QED BY <1>0, <3>1, <3>5, <4>1 DEF ResizeShared, SharedResize
    <3> QED BY <3>4, <3>5
  <2>4. CASE c \notin writer \ queueUp
    <3>1. pty' = p /\ size' = size /\ foreground' = c
      BY <1>10, <2>4 DEF DetachKey, Promote
    <3> HIDE DEF p
    <3> QED BY <1>0, <2>1, <2>2, <3>1, SizesOwned DEF Live
  <2> QED BY <2>3, <2>4
<1>11. ASSUME NEW c \in Clients, ClientDetach(c) \/ ClientDisconnected(c) \/ SendFails(c)
       PROVE  TerminalSizes'
  BY <1>4, <1>11 DEF ClientDetach, ClientDisconnected, SendFails
<1>12. ASSUME NEW c \in Clients, WriterFails(c) PROVE TerminalSizes'
  BY <1>1, <1>12 DEF WriterFails, rosterVars, driverVars, attachVars, termVars
<1>13. ASSUME NEW t \in Terminals, TerminalDies(t) PROVE TerminalSizes'
  <2>1. /\ Live' = Live \ {t} /\ renderDue' = TRUE /\ StreamsOf(t) \in SUBSET Clients
        /\ RemoveFrom(StreamsOf(t), Live \ {t}, pty)
    BY <1>0, <1>13 DEF TerminalDies, Live, StreamsOf, TypeOK
  <2> QED BY <1>0, <2>1, SizesRemove
<1>14. ASSUME NEW t \in Terminals, TerminalCloses(t) PROVE TerminalSizes'
  <2>1. Live' \subseteq Live /\ renderDue' = TRUE /\ UNCHANGED <<size, owners, pty>>
    BY <1>0, <1>14 DEF TerminalCloses, Live, rosterVars, TypeOK
  <2> QED BY <1>0, <2>1, SizesOwned
<1>15. ASSUME NEW t \in Terminals, NEW s \in Sizes, TerminalSpawns(t, s) PROVE TerminalSizes'
  <2>1. /\ life[t] = "unborn" /\ Live' = Live \cup {t} /\ renderDue' = TRUE
        /\ pty' = [pty EXCEPT ![t] = s] /\ UNCHANGED <<size, owners>>
    BY <1>0, <1>15 DEF TerminalSpawns, Live, rosterVars, attachVars, TypeOK
  <2>2. t \notin Live /\ owners[t] = None
    BY <1>0, <2>1 DEF UnbornIsFree, Live
  <2>3. \A u \in Live : pty'[u] = pty[u]
    BY <1>0, <2>1, <2>2 DEF TypeOK
  <2> QED BY <2>1, <2>2, <2>3 DEF TerminalSizes
<1>16. ASSUME NEW t \in Terminals, ReadStarts(t) \/ ReadEnds(t) PROVE TerminalSizes'
  BY <1>1, <1>16 DEF ReadStarts, ReadEnds, rosterVars, driverVars, attachVars
<1>17. CASE Render
  <2> DEFINE targets == {c \in writer : role[c] # "pending"}
  <2>1. PICK broken \in SUBSET (targets \ queueUp),
             p \in {pty, SharedResize(pty, Live, locks, effective)} :
               /\ foreground \in targets => p = SharedResize(pty, Live, locks, effective)
               /\ RemoveFrom(Orphans \cup broken, Live, p)
    BY <1>17 DEF Render
  <2>2. Orphans \cup broken \in SUBSET Clients /\ Live' = Live
    BY <1>0, <1>17 DEF Orphans, TypeOK, Render, Live
  <2>3. foreground \in writer => foreground \in targets
    BY <1>0 DEF ForegroundDrives, Apps, TypeOK
  <2>4. foreground \in writer => \A t \in Live' \ locks : p[t] = effective
    BY <1>0, <2>1, <2>2, <2>3 DEF SharedResize
  <2> HIDE DEF targets
  <2> QED BY <1>0, <2>1, <2>2, <2>4, SizesRemove
<1>18. ASSUME NEW b \in BOOLEAN, LiveHandoff(b) PROVE TerminalSizes'
  <2>1. \A t \in Terminals : owners'[t] = None
    <3>1. owners' = OwnersWithout(table) /\ table \in SUBSET Clients
      BY <1>0, <1>18 DEF LiveHandoff, TypeOK
    <3> QED BY <1>0, <1>2, <3>1, FreedIsOwned
  <2>2. renderDue' = TRUE /\ Live' \subseteq Terminals
    BY <1>18 DEF LiveHandoff, Live
  <2> QED BY <2>1, <2>2 DEF TerminalSizes
<1>19. CASE UNCHANGED vars
  BY <1>1, <1>19 DEF vars, rosterVars, driverVars, attachVars, termVars
<1> QED
  BY <1>5, <1>6, <1>7, <1>8, <1>9, <1>10, <1>11, <1>12, <1>13, <1>14, <1>15, <1>16, <1>17, <1>18,
     <1>19
  DEF Next

(* A terminal always has the size of whoever drives it: an attached one    *)
(* its owner's, the others the foreground client's once the render that is *)
(* due is made, and the foreground is an app client while one is listed.   *)
THEOREM SizesStayWithDrivers == Spec => []SizesFollowDrivers
<1> DEFINE I == Inv /\ Exclusive /\ Asked /\ SizesFollowDrivers
<1>1. Init => I
  <2> SUFFICES ASSUME Init PROVE I
    OBVIOUS
  <2>1. Asked
    BY DEF Init, Asked
  <2>2. ForegroundDrives
    BY DEF Init, ForegroundDrives, Apps, SizeOf
  <2>3. TerminalSizes
    BY DEF Init, TerminalSizes, Live
  <2> QED BY <2>1, <2>2, <2>3, InvInit, ExclusiveInit DEF SizesFollowDrivers
<1>2. I /\ [Next]_vars => I'
  BY InvNext, ExclusiveNext, AskedNext, DrivesNext, SizesNext DEF SizesFollowDrivers
<1>3. I => SizesFollowDrivers
  OBVIOUS
<1> QED BY <1>1, <1>2, <1>3, PTL DEF Spec
================================================================================
