--------------------------- MODULE AltScreenRead_proofs --------------------------
(***************************************************************************)
(* AltScreenRead proved for every size of steps, pages and transcript: the *)
(* types of a read (ReadTypeOK), and that after a read that nothing        *)
(* excuses the application is where it was (ViewportReturns).              *)
(*                                                                         *)
(* Everything is said of Rest, where the application will be once it has   *)
(* handled the wheel reports under way.  The first lemmas say how Rest     *)
(* goes on: it stays as a report is handled, and moves by n as n are sent. *)
(* The inductive invariant OnCourse says where it is in each phase.  At    *)
(* the bottom the distance sent upward bounds it, so that sending as much  *)
(* downward ends there; further up a probe in time finds the application   *)
(* moved, and what is sent back undoes exactly the probe.                  *)
(***************************************************************************)
EXTENDS AltScreenRead, SequenceTheorems, WellFoundedInduction, TLAPS

(* The places of an application at first at a, as it handles the reports p. *)
Course(n, a, p, f) == f = [k \in 0 .. n |-> IF k = 0 THEN a ELSE Moved(f[k - 1], p[k])]
Places(n, a, p, f) == f[0] = a /\ \A k \in 1 .. n : f[k] = Moved(f[k - 1], p[k])

LEMMA Least ==
  ASSUME NEW S, S \subseteq Nat, S # {}
  PROVE  \E n \in S : n = 0 \/ (n - 1 \in Nat /\ n - 1 \notin S)
<1> DEFINE R == OpToRel(<, Nat)
<1>1. IsWellFoundedOn(R, Nat)
  BY NatLessThanWellFounded
<1>2. \E n \in S : \A m \in S : <<m, n>> \notin R
  <2> HIDE DEF R
  <2> QED BY <1>1, WFMin
<1>3. PICK n \in S : \A m \in S : <<m, n>> \notin R
  BY <1>2
<1>4. \A m \in S : ~(m < n)
  BY <1>3 DEF OpToRel
<1> QED BY <1>4

LEMMA CourseExists ==
  ASSUME NEW a, NEW p
  PROVE  \A n \in Nat : \E f : Course(n, a, p, f)
<1> DEFINE S == {n \in Nat : ~\E f : Course(n, a, p, f)}
<1> SUFFICES ASSUME S # {} PROVE FALSE
  OBVIOUS
<1>1. PICK n \in S : n = 0 \/ (n - 1 \in Nat /\ n - 1 \notin S)
  <2> S \subseteq Nat
    OBVIOUS
  <2> HIDE DEF S
  <2> QED BY Least
<1>2. CASE n = 0
  <2> DEFINE f == [k \in 0 .. 0 |-> a]
  <2>1. Course(0, a, p, f)
    BY DEF Course
  <2> QED BY <1>2, <2>1
<1>3. CASE n # 0
  <2>1. n \in Nat /\ n - 1 \in Nat
    BY <1>1, <1>3
  <2>2. PICK g : Course(n - 1, a, p, g)
    BY <1>1, <1>3
  <2> DEFINE f == [k \in 0 .. n |-> IF k = n THEN Moved(g[n - 1], p[n]) ELSE g[k]]
  <2>3. \A k \in 0 .. n - 1 : f[k] = g[k] /\ g[k] = IF k = 0 THEN a ELSE Moved(g[k - 1], p[k])
    BY <2>1, <2>2 DEF Course
  <2>4. f[n] = Moved(f[n - 1], p[n])
    BY <2>1, <2>3
  <2>5. \A k \in 0 .. n : f[k] = IF k = 0 THEN a ELSE Moved(f[k - 1], p[k])
    <3> SUFFICES ASSUME NEW k \in 0 .. n PROVE f[k] = IF k = 0 THEN a ELSE Moved(f[k - 1], p[k])
      OBVIOUS
    <3>1. CASE k = n
      BY <3>1, <2>4, <1>3
    <3>2. CASE k # n /\ k = 0
      <4>1. k \in 0 .. n - 1
        BY <2>1, <3>2
      <4> QED BY <4>1, <3>2, <2>3
    <3>3. CASE k # n /\ k # 0
      <4>1. k \in 0 .. n - 1 /\ k - 1 \in 0 .. n - 1
        BY <2>1, <3>3
      <4>2. f[k] = g[k] /\ f[k - 1] = g[k - 1] /\ g[k] = Moved(g[k - 1], p[k])
        BY <4>1, <3>3, <2>3
      <4> QED BY <4>2, <3>3
    <3> QED BY <3>1, <3>2, <3>3
  <2>6. Course(n, a, p, f)
    <3>1. f = [k \in 0 .. n |-> f[k]]
      OBVIOUS
    <3> HIDE DEF f
    <3> QED BY <3>1, <2>5 DEF Course
  <2> QED BY <2>6
<1> QED BY <1>2, <1>3

LEMMA CourseIsPlaces ==
  ASSUME NEW a, NEW p, NEW n \in Nat, NEW f, Course(n, a, p, f)
  PROVE  Places(n, a, p, f)
<1>1. \A k \in 0 .. n : f[k] = IF k = 0 THEN a ELSE Moved(f[k - 1], p[k])
  BY DEF Course
<1>2. 0 \in 0 .. n /\ \A k \in 1 .. n : k \in 0 .. n /\ k # 0
  OBVIOUS
<1> QED BY <1>1, <1>2 DEF Places

LEMMA AfterIsPlace ==
  ASSUME NEW a, NEW p, NEW n \in Nat, n = Len(p)
  PROVE  \E f : Places(n, a, p, f) /\ After(a, p) = f[n]
<1> DEFINE c == CHOOSE f : Course(n, a, p, f)
<1>1. Course(n, a, p, c)
  BY CourseExists
<1>2. After(a, p) = c[n]
  BY DEF After, Course
<1>3. Places(n, a, p, c)
  BY <1>1, CourseIsPlaces
<1> QED BY <1>2, <1>3

(* Applications that handle the same reports from the same place agree. *)
LEMMA PlacesAgree ==
  ASSUME NEW n \in Nat, NEW a, NEW f, NEW g, NEW p, NEW q,
         Places(n, a, p, f), Places(n, a, q, g), \A k \in 1 .. n : p[k] = q[k]
  PROVE  f[n] = g[n]
<1> DEFINE S == {k \in 0 .. n : f[k] # g[k]}
<1> SUFFICES ASSUME S # {} PROVE FALSE
  OBVIOUS
<1>1. PICK k \in S : k = 0 \/ (k - 1 \in Nat /\ k - 1 \notin S)
  <2> S \subseteq Nat
    OBVIOUS
  <2> HIDE DEF S
  <2> QED BY Least
<1>2. k \in 0 .. n /\ f[k] # g[k]
  OBVIOUS
<1>3. k # 0
  BY <1>2 DEF Places
<1>4. k \in 1 .. n /\ k - 1 \in 0 .. n
  BY <1>2, <1>3
<1>5. f[k - 1] = g[k - 1]
  BY <1>1, <1>4, <1>3
<1>6. f[k] = Moved(f[k - 1], p[k]) /\ g[k] = Moved(g[k - 1], q[k]) /\ p[k] = q[k]
  BY <1>4 DEF Places
<1> QED BY <1>2, <1>5, <1>6

LEMMA AfterNothing ==
  ASSUME NEW a
  PROVE  After(a, <<>>) = a
<1> DEFINE z == Len(<<>>)
<1>1. z = 0 /\ z \in Nat
  OBVIOUS
<1>2. PICK f : Places(z, a, <<>>, f) /\ After(a, <<>>) = f[z]
  BY <1>1, AfterIsPlace
<1> HIDE DEF z
<1> QED BY <1>1, <1>2 DEF Places

LEMMA AfterFirst ==
  ASSUME NEW S, NEW a, NEW p \in Seq(S), p # <<>>
  PROVE  After(a, p) = After(Moved(a, Head(p)), Tail(p))
<1> DEFINE n == Len(p)
           l == n - 1
           q == Tail(p)
           w == Moved(a, Head(p))
<1>1. /\ n \in Nat /\ n = Len(p) /\ l \in Nat /\ l = Len(q) /\ n = l + 1 /\ l = n - 1
      /\ Head(p) = p[1] /\ \A k \in 1 .. l : q[k] = p[k + 1]
  <2>1. Len(p) \in Nat /\ Len(p) # 0
    BY EmptySeq, LenProperties
  <2>2. Len(Tail(p)) = Len(p) - 1 /\ Head(p) = p[1]
    BY HeadTailProperties
  <2>3. \A k \in 1 .. Len(p) - 1 : Tail(p)[k] = p[k + 1]
    BY <2>1
  <2> QED BY <2>1, <2>2, <2>3
<1>w. w = Moved(a, p[1])
  <2>1. Head(p) = p[1]
    BY <1>1
  <2> QED BY <2>1
<1> HIDE DEF n, l, q, w
<1>2. PICK f : Places(n, a, p, f) /\ After(a, p) = f[n]
  <2>1. n \in Nat /\ n = Len(p)
    BY <1>1
  <2> QED BY ONLY <2>1, AfterIsPlace
<1>3. PICK g : Places(l, w, q, g) /\ After(w, q) = g[l]
  <2>1. l \in Nat /\ l = Len(q)
    BY <1>1
  <2> QED BY ONLY <2>1, AfterIsPlace
<1> DEFINE h == [k \in 0 .. l |-> f[k + 1]]
<1>4. Places(l, w, q, h)
  <2>1. f[0] = a /\ f[1] = Moved(f[1 - 1], p[1])
    BY <1>1, <1>2 DEF Places
  <2>2. h[0] = w
    BY <2>1, <1>1, <1>w
  <2>3. \A k \in 1 .. l : h[k] = Moved(h[k - 1], q[k])
    <3> SUFFICES ASSUME NEW k \in 1 .. l PROVE h[k] = Moved(h[k - 1], q[k])
      OBVIOUS
    <3>1. /\ k + 1 \in 1 .. n /\ (k + 1) - 1 = k
          /\ k \in 0 .. l /\ k - 1 \in 0 .. l /\ (k - 1) + 1 = k
      BY <1>1
    <3>2. h[k] = f[k + 1] /\ h[k - 1] = f[k]
      BY <3>1
    <3>3. f[k + 1] = Moved(f[(k + 1) - 1], p[k + 1])
      BY <3>1, <1>2 DEF Places
    <3>4. f[k + 1] = Moved(f[k], q[k])
      BY <3>1, <3>3, <1>1
    <3> QED BY <3>2, <3>4
  <2> HIDE DEF h
  <2> QED BY <2>2, <2>3 DEF Places
<1>5. h[l] = f[n]
  BY <1>1
<1>6. h[l] = g[l]
  <2> HIDE DEF h
  <2>1. \A k \in 1 .. l : q[k] = q[k]
    OBVIOUS
  <2> QED BY ONLY <2>1, <1>1, <1>3, <1>4, PlacesAgree
<1>7. After(a, p) = After(w, q)
  BY <1>2, <1>3, <1>5, <1>6
<1> QED BY <1>7 DEF w, q

LEMMA MovedInRange ==
  ASSUME ReadAssumption, NEW a \in 0 .. Top, NEW r
  PROVE  Moved(a, r) \in 0 .. Top
  BY DEF ReadAssumption, Moved

LEMMA PlacesInRange ==
  ASSUME ReadAssumption, NEW a \in 0 .. Top, NEW p, NEW n \in Nat, NEW f, Places(n, a, p, f)
  PROVE  \A k \in 0 .. n : f[k] \in 0 .. Top
<1> DEFINE S == {k \in 0 .. n : f[k] \notin 0 .. Top}
<1> SUFFICES ASSUME S # {} PROVE FALSE
  OBVIOUS
<1>1. PICK k \in S : k = 0 \/ (k - 1 \in Nat /\ k - 1 \notin S)
  <2> S \subseteq Nat
    OBVIOUS
  <2> HIDE DEF S
  <2> QED BY Least
<1>2. k \in 0 .. n /\ f[k] \notin 0 .. Top
  OBVIOUS
<1>3. k # 0
  BY <1>2 DEF Places
<1>4. k \in 1 .. n /\ k - 1 \in 0 .. n
  BY <1>2, <1>3
<1>5. f[k - 1] \in 0 .. Top
  BY <1>1, <1>4, <1>3
<1>6. f[k] = Moved(f[k - 1], p[k])
  BY <1>4 DEF Places
<1> QED BY <1>2, <1>5, <1>6, MovedInRange

LEMMA AfterInRange ==
  ASSUME ReadAssumption, NEW a \in 0 .. Top, NEW S, NEW p \in Seq(S)
  PROVE  After(a, p) \in 0 .. Top
<1>1. Len(p) \in Nat
  BY LenProperties
<1>2. PICK f : Places(Len(p), a, p, f) /\ After(a, p) = f[Len(p)]
  <2> DEFINE n == Len(p)
  <2>1. n \in Nat /\ n = Len(p)
    BY <1>1
  <2> HIDE DEF n
  <2>2. \E f : Places(n, a, p, f) /\ After(a, p) = f[n]
    BY ONLY <2>1, AfterIsPlace
  <2> QED BY <2>2 DEF n
<1>3. \A k \in 0 .. Len(p) : f[k] \in 0 .. Top
  BY <1>1, <1>2, PlacesInRange
<1> QED BY <1>1, <1>2, <1>3

(* n more reports of one kind. *)
Shifted(x, report, n) ==
  IF report = "up" THEN (IF x + n < Top THEN x + n ELSE Top) ELSE (IF x > n THEN x - n ELSE 0)

LEMMA ShiftedStep ==
  ASSUME ReadAssumption, NEW x \in 0 .. Top, NEW r, NEW n \in Nat, n # 0
  PROVE  Shifted(x, r, n) = Moved(Shifted(x, r, n - 1), r) /\ Shifted(x, r, 0) = x
  BY DEF ReadAssumption, Moved, Shifted

LEMMA AfterMore ==
  ASSUME ReadAssumption, NEW a \in 0 .. Top, NEW p \in Seq({"up", "down"}),
         NEW r \in {"up", "down"}, NEW n \in Nat
  PROVE  After(a, p \o [i \in 1 .. n |-> r]) = Shifted(After(a, p), r, n)
<1> DEFINE l == Len(p)
           m == l + n
           q == p \o [i \in 1 .. n |-> r]
           x == After(a, p)
<1>1. /\ l \in Nat /\ l = Len(p) /\ m \in Nat /\ m = Len(q) /\ m = l + n
      /\ \A k \in 1 .. l : q[k] = p[k]
      /\ \A k \in 1 .. n : q[l + k] = r
  <2> DEFINE t == [i \in 1 .. n |-> r]
  <2>1. t \in Seq({"up", "down"}) /\ Len(t) = n /\ \A k \in 1 .. n : t[k] = r
    OBVIOUS
  <2> HIDE DEF t
  <2>2. /\ Len(p) \in Nat /\ Len(p \o t) = Len(p) + Len(t)
        /\ \A i \in 1 .. Len(p) + Len(t) :
             (p \o t)[i] = IF i <= Len(p) THEN p[i] ELSE t[i - Len(p)]
    BY <2>1, ConcatProperties, LenProperties
  <2>3. \A k \in 1 .. l : (p \o t)[k] = p[k]
    BY <2>1, <2>2
  <2>4. \A k \in 1 .. n : (p \o t)[l + k] = r
    <3> SUFFICES ASSUME NEW k \in 1 .. n PROVE (p \o t)[l + k] = r
      OBVIOUS
    <3>1. l + k \in 1 .. Len(p) + Len(t) /\ ~(l + k <= Len(p)) /\ (l + k) - Len(p) = k
      BY <2>1, <2>2
    <3> QED BY <2>1, <2>2, <3>1
  <2> QED BY <2>1, <2>2, <2>3, <2>4 DEF t
<1>x. x \in 0 .. Top
  BY AfterInRange
<1> HIDE DEF l, m, q, x
<1>2. PICK f : Places(l, a, p, f) /\ After(a, p) = f[l]
  <2>1. l \in Nat /\ l = Len(p)
    BY <1>1
  <2> QED BY ONLY <2>1, AfterIsPlace
<1>3. PICK g : Places(m, a, q, g) /\ After(a, q) = g[m]
  <2>1. m \in Nat /\ m = Len(q)
    BY <1>1
  <2> QED BY ONLY <2>1, AfterIsPlace
<1>4. g[l] = x
  <2>1. Places(l, a, q, g)
    BY <1>1, <1>3 DEF Places
  <2>2. \A k \in 1 .. l : q[k] = p[k]
    BY <1>1
  <2>3. g[l] = f[l]
    BY ONLY <2>1, <2>2, <1>1, <1>2, PlacesAgree
  <2> QED BY <2>3, <1>2 DEF x
<1> DEFINE S == {k \in 0 .. n : g[l + k] # Shifted(x, r, k)}
<1>5. S = {}
  <2> SUFFICES ASSUME S # {} PROVE FALSE
    OBVIOUS
  <2>1. PICK k \in S : k = 0 \/ (k - 1 \in Nat /\ k - 1 \notin S)
    <3> S \subseteq Nat
      OBVIOUS
    <3> HIDE DEF S
    <3> QED BY Least
  <2>2. k \in 0 .. n /\ g[l + k] # Shifted(x, r, k)
    OBVIOUS
  <2>3. k # 0
    <3>1. Shifted(x, r, 0) = x /\ l + 0 = l
      BY <1>x, <1>1, ShiftedStep
    <3> QED BY <2>2, <3>1, <1>4
  <2>4. k \in 1 .. n /\ k - 1 \in 0 .. n /\ k \in Nat /\ l + k \in 1 .. m /\ (l + k) - 1 = l + (k - 1)
    BY <2>2, <2>3, <1>1
  <2>5. g[l + (k - 1)] = Shifted(x, r, k - 1)
    BY <2>1, <2>4, <2>3
  <2>6. g[l + k] = Moved(g[l + (k - 1)], r)
    <3>1. g[l + k] = Moved(g[(l + k) - 1], q[l + k])
      BY <2>4, <1>3 DEF Places
    <3>2. q[l + k] = r
      BY <1>1, <2>4
    <3> QED BY <3>1, <3>2, <2>4
  <2>7. Shifted(x, r, k) = Moved(Shifted(x, r, k - 1), r)
    BY <1>x, <2>3, <2>4, ShiftedStep
  <2> QED BY <2>2, <2>5, <2>6, <2>7
<1>6. g[m] = Shifted(x, r, n)
  <2>1. n \in 0 .. n /\ n \notin S
    BY <1>5
  <2> QED BY <2>1, <1>1
<1>7. After(a, q) = Shifted(x, r, n)
  BY <1>3, <1>6
<1> QED BY <1>7 DEF q, x

----------------------------------------------------------------------------
(* Wheel reports that are sent are wheel reports. *)
LEMMA WheelSent ==
  ASSUME NEW p \in Seq({"up", "down"}), NEW r \in {"up", "down"}, NEW n \in Nat
  PROVE  p \o [i \in 1 .. n |-> r] \in Seq({"up", "down"})
<1>1. [i \in 1 .. n |-> r] \in Seq({"up", "down"})
  BY IsASeq
<1> QED BY <1>1, ConcatProperties

LEMMA HalfPage ==
  ASSUME ReadAssumption
  PROVE  (IF Page > 1 THEN Page \div 2 ELSE 1) \in Nat
<1>1. Page \in Nat \ {0}
  BY DEF ReadAssumption
<1> QED BY <1>1

LEMMA ScreenTyped ==
  ASSUME ReadTypeOK
  PROVE  /\ offset \in 0 .. Top /\ version \in 0 .. MaxVersion
         /\ Screen.at = offset /\ Screen.version = version
  BY DEF ReadTypeOK, Screen, Screens

LEMMA TypeInit == ReadAssumption /\ Init => ReadTypeOK
<1> SUFFICES ASSUME ReadAssumption, Init PROVE ReadTypeOK
  OBVIOUS
<1>1. wheel \in Seq({"up", "down"})
  BY DEF Init
<1>2. Screen \in Screens
  BY DEF Init, Screen, Screens, ReadAssumption
<1>3. initial \in Screens /\ previous \in Screens
  BY <1>2 DEF Init
<1>4. /\ phase = "none" /\ checks = 0 /\ valid = TRUE /\ wanted = 0 /\ upward = 0 /\ old = FALSE
      /\ restoring = "no" /\ reads = 0 /\ home \in 0 .. Top /\ lagged = FALSE /\ excused = FALSE
  BY DEF Init
<1>5. checks \in 0 .. Unaligned /\ wanted \in 0 .. Top + 1 /\ upward \in Nat /\ reads \in 0 .. MaxReads
  BY <1>4 DEF ReadAssumption
<1>6. /\ phase \in Phases /\ restoring \in {"no", "yes", "old"}
      /\ (restoring # "no") = (phase \in {"RestoreProbe", "Restore"})
  BY <1>4 DEF Phases
<1> QED BY <1>1, <1>2, <1>3, <1>4, <1>5, <1>6 DEF ReadTypeOK

(* What a poll, which leaves the application alone, may disturb. *)
Timed == (restoring # "no") = (phase \in {"RestoreProbe", "Restore"})
ReadTyped ==
  /\ wheel \in Seq({"up", "down"})
  /\ phase \in Phases /\ checks \in 0 .. Unaligned /\ valid \in BOOLEAN
  /\ initial \in Screens /\ previous \in Screens /\ wanted \in 0 .. Top + 1
  /\ upward \in Nat /\ old \in BOOLEAN /\ restoring \in {"no", "yes", "old"}
  /\ Timed

LEMMA TypedParts ==
  ReadTypeOK <=> /\ ReadTyped /\ Screen \in Screens /\ reads \in 0 .. MaxReads
                 /\ home \in 0 .. Top /\ lagged \in BOOLEAN /\ excused \in BOOLEAN
  BY DEF ReadTypeOK, ReadTyped, Timed

LEMMA CompleteTyped ==
  ASSUME ReadAssumption, ReadTyped, Screen \in Screens, Complete
  PROVE  ReadTyped'
<1>1. /\ phase' = "none" /\ checks' = 0 /\ valid' = TRUE /\ initial' = Screen /\ previous' = Screen
      /\ wanted' = 0 /\ upward' = 0 /\ old' = FALSE /\ restoring' = "no" /\ wheel' = wheel
  BY DEF Complete
<1>2. checks' \in 0 .. Unaligned /\ wanted' \in 0 .. Top + 1 /\ upward' \in Nat
  BY <1>1 DEF ReadAssumption
<1>3. phase' \in Phases /\ restoring' \in {"no", "yes", "old"} /\ Timed'
  BY <1>1 DEF Phases, Timed
<1>4. wheel' \in Seq({"up", "down"})
  BY <1>1 DEF ReadTyped
<1> QED BY <1>1, <1>2, <1>3, <1>4 DEF ReadTyped

LEMMA HarvestTyped ==
  ASSUME ReadAssumption, ReadTyped, Screen \in Screens, NEW s \in Screens, StartHarvest(s),
         restoring = "no"
  PROVE  ReadTyped'
<1>1. CASE WheelFails
  BY <1>1, CompleteTyped DEF WheelFails
<1>2. CASE ~WheelFails
  <2>1. /\ wheel' = wheel \o [i \in 1 .. Step |-> "up"] /\ upward' = upward + Step
        /\ phase' = "Harvest" /\ checks' = 0 /\ previous' = s
        /\ UNCHANGED <<valid, initial, restoring, wanted, old>>
    BY <1>2 DEF StartHarvest, Wheel, Continue
  <2>2. wheel' \in Seq({"up", "down"})
    <3>1. Step \in Nat /\ wheel \in Seq({"up", "down"})
      BY DEF ReadAssumption, ReadTyped
    <3> QED BY <2>1, <3>1, WheelSent
  <2>3. checks' \in 0 .. Unaligned /\ upward' \in Nat
    BY <2>1 DEF ReadAssumption, ReadTyped
  <2>4. phase' \in Phases /\ restoring' \in {"no", "yes", "old"} /\ Timed'
    BY <2>1 DEF Phases, Timed
  <2> QED BY <2>1, <2>2, <2>3, <2>4 DEF ReadTyped
<1> QED BY <1>1, <1>2

LEMMA RestoreTyped ==
  ASSUME ReadAssumption, ReadTyped, Screen \in Screens, NEW s \in Screens, NEW v \in BOOLEAN,
         StartRestore(v, s)
  PROVE  ReadTyped'
<1>1. CASE Complete
  BY <1>1, CompleteTyped
<1>2. CASE ~Complete
  <2>1. /\ wheel' = wheel \o [i \in 1 .. upward |-> "down"]
        /\ phase' = "Restore" /\ checks' = 0 /\ previous' = s /\ valid' = v /\ restoring' = "yes"
        /\ UNCHANGED <<initial, upward, wanted, old>>
    BY <1>2 DEF StartRestore, WheelFails, Wheel, Continue
  <2>2. wheel' \in Seq({"up", "down"})
    <3>1. upward \in Nat /\ wheel \in Seq({"up", "down"})
      BY DEF ReadTyped
    <3> QED BY <2>1, <3>1, WheelSent
  <2>3. checks' \in 0 .. Unaligned
    BY <2>1 DEF ReadAssumption
  <2>4. phase' \in Phases /\ restoring' \in {"no", "yes", "old"} /\ Timed'
    BY <2>1 DEF Phases, Timed
  <2> QED BY <2>1, <2>2, <2>3, <2>4 DEF ReadTyped
<1> QED BY <1>1, <1>2

LEMMA SettleTyped ==
  ASSUME ReadAssumption, ReadTyped, Screen \in Screens, NEW found \in Founds, SettleInitial(found)
  PROVE  ReadTyped'
<1>0. phase = "SettleInitial" /\ restoring = "no"
  BY DEF SettleInitial, Polled, ReadTyped, Timed
<1>1. CASE Complete
  BY <1>1, CompleteTyped
<1>2. CASE Screen # initial
  <2>1. /\ initial' = Screen /\ previous' = Screen /\ phase' = "SettleInitial" /\ checks' = 0
        /\ UNCHANGED <<valid, upward, restoring, wheel, wanted, old>>
    BY <1>2 DEF SettleInitial, Continue
  <2>2. checks' \in 0 .. Unaligned
    BY <2>1 DEF ReadAssumption
  <2>3. phase' \in Phases /\ Timed'
    BY <2>1, <1>0 DEF Phases, Timed
  <2> QED BY <2>1, <2>2, <2>3 DEF ReadTyped
<1>3. CASE Screen = initial /\ checks = 0
  <2>1. /\ phase' = "SettleInitial" /\ checks' = 1
        /\ UNCHANGED <<valid, initial, previous, upward, restoring, wheel, wanted, old>>
    BY <1>3 DEF SettleInitial, Continue
  <2>2. checks' \in 0 .. Unaligned
    BY <2>1 DEF ReadAssumption
  <2>3. phase' \in Phases /\ Timed'
    BY <2>1, <1>0 DEF Phases, Timed
  <2> QED BY <2>1, <2>2, <2>3 DEF ReadTyped
<1>4. CASE Screen = initial /\ checks # 0 /\ ~Complete
  <2>1. /\ wheel' = wheel \o [i \in 1 .. Step |-> "down"] /\ phase' = "ProbeBottom" /\ checks' = 0
        /\ UNCHANGED <<valid, initial, previous, upward, restoring, wanted, old>>
    BY <1>4 DEF SettleInitial, Continue, Wheel, WheelFails
  <2>2. checks' \in 0 .. Unaligned
    BY <2>1 DEF ReadAssumption
  <2>3. phase' \in Phases /\ Timed'
    BY <2>1, <1>0 DEF Phases, Timed
  <2>4. wheel' \in Seq({"up", "down"})
    <3>1. Step \in Nat /\ wheel \in Seq({"up", "down"})
      BY DEF ReadAssumption, ReadTyped
    <3> QED BY <2>1, <3>1, WheelSent
  <2> QED BY <2>1, <2>2, <2>3, <2>4 DEF ReadTyped
<1> QED BY <1>1, <1>2, <1>3, <1>4

LEMMA ProbeTyped ==
  ASSUME ReadAssumption, ReadTyped, Screen \in Screens, NEW found \in Founds, ProbeBottom(found)
  PROVE  ReadTyped'
<1> DEFINE ok == valid /\ found.idle
<1>0. phase = "ProbeBottom" /\ restoring = "no" /\ ok \in BOOLEAN
  BY DEF ProbeBottom, Polled, ReadTyped, Timed, Founds
<1>1. CASE Complete
  BY <1>1, CompleteTyped
<1>2. CASE Screen = initial /\ ok /\ StartHarvest(previous)
  <2>1. previous \in Screens
    BY DEF ReadTyped
  <2> QED BY <1>0, <1>2, <2>1, HarvestTyped
<1>3. CASE ~(Screen = initial) /\ ~Complete
  <2>1. /\ wheel' = wheel \o [i \in 1 .. Step |-> "up"] /\ phase' = "RestoreProbe" /\ checks' = 0
        /\ valid' = ok /\ restoring' = "yes" /\ UNCHANGED <<initial, previous, upward, wanted, old>>
    BY <1>3 DEF ProbeBottom, Continue, Wheel, WheelFails
  <2>2. checks' \in 0 .. Unaligned
    BY <2>1 DEF ReadAssumption
  <2>3. phase' \in Phases /\ restoring' \in {"no", "yes", "old"} /\ Timed'
    BY <2>1 DEF Phases, Timed
  <2>4. wheel' \in Seq({"up", "down"})
    <3>1. Step \in Nat /\ wheel \in Seq({"up", "down"})
      BY DEF ReadAssumption, ReadTyped
    <3> QED BY <2>1, <3>1, WheelSent
  <2> HIDE DEF ok
  <2> QED BY <1>0, <2>1, <2>2, <2>3, <2>4 DEF ReadTyped
<1> QED BY <1>1, <1>2, <1>3 DEF ProbeBottom

LEMMA RestoreProbeTyped ==
  ASSUME ReadAssumption, ReadTyped, Screen \in Screens, NEW found \in Founds, RestoreProbe(found)
  PROVE  ReadTyped'
<1>1. CASE Complete
  BY <1>1, CompleteTyped
<1>2. CASE ~Complete
  <2>1. /\ phase = "RestoreProbe" /\ phase' = "RestoreProbe" /\ checks' = 0
        /\ valid' = (valid /\ found.idle)
        /\ UNCHANGED <<initial, previous, upward, restoring, wheel, wanted, old>>
    BY <1>2 DEF RestoreProbe, Polled, Continue
  <2>2. checks' \in 0 .. Unaligned
    BY <2>1 DEF ReadAssumption
  <2>3. phase' \in Phases /\ Timed' /\ valid' \in BOOLEAN
    BY <2>1 DEF Phases, Timed, ReadTyped
  <2> QED BY <2>1, <2>2, <2>3 DEF ReadTyped
<1> QED BY <1>1, <1>2

LEMMA HarvestStepTyped ==
  ASSUME ReadAssumption, ReadTyped, Screen \in Screens, NEW found \in Founds, Harvest(found)
  PROVE  ReadTyped'
<1>0. /\ phase = "Harvest" /\ restoring = "no" /\ previous \in Screens /\ valid \in BOOLEAN
      /\ FALSE \in BOOLEAN
  BY DEF Harvest, Polled, ReadTyped, Timed
<1>1. CASE StartHarvest(Screen)
  BY <1>0, <1>1, HarvestTyped
<1>2. CASE StartRestore(valid, Screen)
  BY <1>0, <1>2, RestoreTyped
<1>3. CASE StartRestore(valid, previous)
  BY <1>0, <1>3, RestoreTyped
<1>4. CASE StartRestore(FALSE, previous)
  BY <1>0, <1>4, RestoreTyped
<1>5. CASE /\ checks + 1 < Unaligned /\ Continue("Harvest", checks + 1)
           /\ UNCHANGED <<valid, initial, previous, upward, restoring, wheel, excused>>
  <2>1. /\ phase' = "Harvest" /\ checks' = checks + 1
        /\ UNCHANGED <<valid, initial, previous, upward, restoring, wheel, wanted, old>>
    BY <1>5 DEF Continue
  <2>2. checks' \in 0 .. Unaligned
    BY <1>5, <2>1 DEF ReadAssumption, ReadTyped
  <2>3. phase' \in Phases /\ Timed'
    BY <1>0, <2>1 DEF Phases, Timed
  <2> QED BY <2>1, <2>2, <2>3 DEF ReadTyped
<1> QED BY <1>1, <1>2, <1>3, <1>4, <1>5 DEF Harvest

LEMMA RestoreStepTyped ==
  ASSUME ReadAssumption, ReadTyped, Screen \in Screens, NEW found \in Founds, Restore(found)
  PROVE  ReadTyped'
<1> DEFINE ok == valid /\ found.idle
           half == IF Page > 1 THEN Page \div 2 ELSE 1
<1>0. phase = "Restore" /\ ok \in BOOLEAN /\ half \in Nat
  BY HalfPage DEF Restore, Polled, ReadTyped, Founds
<1>1. CASE Complete
  BY <1>1, CompleteTyped
<1>2. CASE Screen = previous /\ ~Complete
  <2>1. /\ phase' = "Restore" /\ checks' = 1 /\ valid' = ok
        /\ UNCHANGED <<initial, previous, upward, restoring, wheel, wanted, old>>
    BY <1>2 DEF Restore, Continue
  <2> HIDE DEF ok
  <2>2. checks' \in 0 .. Unaligned
    BY <2>1 DEF ReadAssumption
  <2>3. phase' \in Phases /\ Timed' /\ valid' \in BOOLEAN
    BY <1>0, <2>1 DEF Phases, Timed, ReadTyped
  <2> QED BY <2>1, <2>2, <2>3 DEF ReadTyped
<1>3. CASE Screen # previous /\ ~Complete
  <2>1. /\ wheel' = wheel \o [i \in 1 .. half |-> "down"] /\ previous' = Screen
        /\ phase' = "Restore" /\ checks' = 0 /\ valid' = ok
        /\ UNCHANGED <<initial, upward, restoring, wanted, old>>
    BY <1>3 DEF Restore, Continue, Wheel, WheelFails
  <2> HIDE DEF ok, half
  <2>2. checks' \in 0 .. Unaligned
    BY <2>1 DEF ReadAssumption
  <2>3. phase' \in Phases /\ Timed' /\ valid' \in BOOLEAN
    BY <1>0, <2>1 DEF Phases, Timed, ReadTyped
  <2>4. wheel' \in Seq({"up", "down"})
    <3>1. wheel \in Seq({"up", "down"})
      BY DEF ReadTyped
    <3> QED BY <1>0, <2>1, <3>1, WheelSent
  <2> QED BY <2>1, <2>2, <2>3, <2>4 DEF ReadTyped
<1> QED BY <1>1, <1>2, <1>3

LEMMA AbortTyped ==
  ASSUME ReadAssumption, ReadTyped, Screen \in Screens, NEW found \in Founds, Abort(found)
  PROVE  ReadTyped'
<1>1. CASE Complete
  BY <1>1, CompleteTyped
<1>2. CASE StartRestore(FALSE, previous)
  <2>1. previous \in Screens /\ FALSE \in BOOLEAN
    BY DEF ReadTyped
  <2> QED BY <1>2, <2>1, RestoreTyped
<1> QED BY <1>1, <1>2 DEF Abort

LEMMA DoubtTyped ==
  ASSUME ReadTyped, NEW found, Doubt(found)
  PROVE  ReadTyped'
<1>1. /\ valid' = FALSE
      /\ UNCHANGED <<wheel, phase, checks, initial, previous, wanted, upward, old, restoring>>
  BY DEF Doubt, clocks
<1>2. Timed'
  BY <1>1 DEF ReadTyped, Timed
<1> QED BY <1>1, <1>2 DEF ReadTyped

LEMMA PollTyped ==
  ASSUME ReadAssumption, ReadTypeOK, NEW found \in Founds, Poll(found)
  PROVE  ReadTypeOK'
<1>0. ReadTyped /\ Screen \in Screens /\ lagged \in BOOLEAN /\ excused \in BOOLEAN
  BY TypedParts
<1>1. ReadTyped'
  <2>1. CASE Abort(found)
    BY <1>0, <2>1, AbortTyped
  <2>2. CASE Doubt(found)
    BY <1>0, <2>2, DoubtTyped
  <2>3. CASE GiveUp(found)
    BY <1>0, <2>3, CompleteTyped DEF GiveUp
  <2>4. CASE Expire(found)
    <3>1. previous \in Screens /\ FALSE \in BOOLEAN
      BY <1>0 DEF ReadTyped
    <3> QED BY <1>0, <2>4, <3>1, RestoreTyped DEF Expire
  <2>5. CASE SettleInitial(found)
    BY <1>0, <2>5, SettleTyped
  <2>6. CASE ProbeBottom(found)
    BY <1>0, <2>6, ProbeTyped
  <2>7. CASE RestoreProbe(found)
    BY <1>0, <2>7, RestoreProbeTyped
  <2>8. CASE Harvest(found)
    BY <1>0, <2>8, HarvestStepTyped
  <2>9. CASE Restore(found)
    BY <1>0, <2>9, RestoreStepTyped
  <2> QED BY <2>1, <2>2, <2>3, <2>4, <2>5, <2>6, <2>7, <2>8, <2>9 DEF Poll
<1>2. Screen' \in Screens /\ reads' \in 0 .. MaxReads /\ home' \in 0 .. Top
  BY <1>0, TypedParts DEF Poll, Screen, screenVars
<1>3. lagged' \in BOOLEAN
  <2>1. lagged' = lagged \/ lagged' = (lagged \/ wheel # <<>>)
    BY DEF Poll, Abort, Doubt, GiveUp, Expire, SettleInitial, ProbeBottom, RestoreProbe, Harvest,
           Restore, Polled, Look
  <2> QED BY <1>0, <2>1
<1>4. excused' \in BOOLEAN
  <2>1. excused' = excused \/ \E why \in BOOLEAN : excused' = (excused \/ why)
    BY DEF Poll, Abort, Doubt, GiveUp, Expire, SettleInitial, ProbeBottom, RestoreProbe, Harvest,
           Restore, StartHarvest, StartRestore, WheelFails, Excuse
  <2> QED BY <1>0, <2>1
<1>5. ReadTyped' /\ Screen' \in Screens /\ reads' \in 0 .. MaxReads /\ home' \in 0 .. Top
      /\ lagged' \in BOOLEAN /\ excused' \in BOOLEAN
  BY <1>1, <1>2, <1>3, <1>4
<1> QED BY <1>5 DEF ReadTypeOK, ReadTyped, Timed

LEMMA HandleReportTyped ==
  ASSUME ReadAssumption, ReadTypeOK, HandleReport
  PROVE  ReadTypeOK'
<1>1. /\ offset' = Moved(offset, Head(wheel)) /\ wheel' = Tail(wheel) /\ wheel # <<>>
      /\ UNCHANGED <<version, phase, checks, valid, initial, previous, wanted, upward, old, restoring,
                     reads, home, lagged, excused>>
  BY DEF HandleReport, readVars, clocks, history
<1>2. offset' \in 0 .. Top
  BY <1>1, ScreenTyped, MovedInRange
<1>3. Screen' \in Screens
  BY <1>1, <1>2, ScreenTyped DEF Screen, Screens
<1>4. wheel' \in Seq({"up", "down"})
  BY <1>1, HeadTailProperties DEF ReadTypeOK
<1> QED BY <1>1, <1>3, <1>4 DEF ReadTypeOK

LEMMA TextChangesTyped ==
  ASSUME ReadAssumption, ReadTypeOK, TextChanges
  PROVE  ReadTypeOK'
<1>1. /\ version < MaxVersion /\ version' = version + 1 /\ excused' = (excused \/ phase = "ProbeBottom")
      /\ UNCHANGED <<offset, wheel, phase, checks, valid, initial, previous, wanted, upward, old,
                     restoring, reads, home, lagged>>
  BY DEF TextChanges, readVars, clocks, Excuse
<1>2. version' \in 0 .. MaxVersion
  BY <1>1, ScreenTyped DEF ReadAssumption
<1>3. Screen' \in Screens
  BY <1>1, <1>2, ScreenTyped DEF Screen, Screens
<1>4. excused' \in BOOLEAN
  BY <1>1 DEF ReadTypeOK
<1> QED BY <1>1, <1>3, <1>4 DEF ReadTypeOK

LEMMA AgesTyped ==
  ASSUME ReadTypeOK, Ages
  PROVE  ReadTypeOK'
<1>1. UNCHANGED <<offset, version, wheel, phase, checks, valid, initial, previous, wanted, upward,
                  reads, home, lagged, excused>>
  BY DEF Ages, screenVars, history
<1>2. Screen' \in Screens
  BY <1>1, ScreenTyped DEF Screen, Screens
<1>3. /\ old' \in BOOLEAN /\ restoring' \in {"no", "yes", "old"}
      /\ (restoring' # "no") = (restoring # "no")
  BY DEF Ages, ReadTypeOK
<1> QED BY <1>1, <1>2, <1>3 DEF ReadTypeOK

LEMMA RestInRange ==
  ASSUME ReadAssumption, ReadTypeOK
  PROVE  Rest \in 0 .. Top
<1>1. offset \in 0 .. Top /\ wheel \in Seq({"up", "down"})
  BY ScreenTyped DEF ReadTypeOK
<1> QED BY <1>1, AfterInRange DEF Rest

LEMMA StartTyped ==
  ASSUME ReadAssumption, ReadTypeOK, NEW lines \in 1 .. Top + 1, Start(lines)
  PROVE  ReadTypeOK'
<1>1. /\ reads < MaxReads /\ phase' = "SettleInitial" /\ checks' = 0 /\ valid' = TRUE
      /\ initial' = Screen /\ previous' = Screen /\ wanted' = lines /\ upward' = 0 /\ old' = FALSE
      /\ restoring' = "no" /\ reads' = reads + 1 /\ home' = Rest /\ lagged' = FALSE
      /\ excused' = (wheel # <<>> \/ Rest \in 1 .. Step - 1)
      /\ UNCHANGED <<offset, version, wheel>>
  BY DEF Start, screenVars
<1>2. Screen' \in Screens
  BY <1>1, ScreenTyped DEF Screen, Screens
<1>3. checks' \in 0 .. Unaligned /\ wanted' \in 0 .. Top + 1 /\ upward' \in Nat
      /\ reads' \in 0 .. MaxReads
  BY <1>1 DEF ReadAssumption, ReadTypeOK
<1>4. /\ phase' \in Phases /\ restoring' \in {"no", "yes", "old"}
      /\ (restoring' # "no") = (phase' \in {"RestoreProbe", "Restore"})
  BY <1>1 DEF Phases
<1>5. home' \in 0 .. Top /\ lagged' \in BOOLEAN /\ excused' \in BOOLEAN
  BY <1>1, RestInRange
<1>6. initial' \in Screens /\ previous' \in Screens /\ wheel' \in Seq({"up", "down"})
      /\ valid' \in BOOLEAN /\ old' \in BOOLEAN
  BY <1>1 DEF ReadTypeOK
<1> QED BY <1>2, <1>3, <1>4, <1>5, <1>6 DEF ReadTypeOK

LEMMA TypeNext == ReadAssumption /\ ReadTypeOK /\ [Next]_vars => ReadTypeOK'
<1> SUFFICES ASSUME ReadAssumption, ReadTypeOK, [Next]_vars PROVE ReadTypeOK'
  OBVIOUS
<1>1. CASE HandleReport
  BY <1>1, HandleReportTyped
<1>2. CASE TextChanges
  BY <1>2, TextChangesTyped
<1>3. CASE Ages
  BY <1>3, AgesTyped
<1>4. ASSUME NEW found \in Founds, Poll(found) PROVE ReadTypeOK'
  BY <1>4, PollTyped
<1>5. ASSUME NEW lines \in 1 .. Top + 1, Start(lines) PROVE ReadTypeOK'
  BY <1>5, StartTyped
<1>6. CASE UNCHANGED vars
  <2>1. UNCHANGED <<offset, version, wheel, phase, checks, valid, initial, previous, wanted, upward,
                    old, restoring, reads, home, lagged, excused>>
    BY <1>6 DEF vars, screenVars, readVars, clocks, history
  <2>2. Screen' \in Screens
    BY <2>1, ScreenTyped DEF Screen, Screens
  <2> QED BY <2>1, <2>2 DEF ReadTypeOK
<1> QED BY <1>1, <1>2, <1>3, <1>4, <1>5, <1>6 DEF Next, Application

----------------------------------------------------------------------------
(* The inductive invariant: of a read that is not excused, where the        *)
(* application will be once it has handled what was sent, in each phase.    *)
Aligned == phase # "none" => home = 0 \/ home >= Step

Answered ==
  phase = "none" =>
    /\ home = 0 \/ ~lagged => Rest = home
    /\ ~lagged => offset = home /\ wheel = <<>>

Settling ==
  phase = "SettleInitial" => wheel = <<>> /\ offset = home /\ initial.at = home /\ upward = 0

Probing ==
  phase = "ProbeBottom" =>
    /\ initial = [at |-> home, version |-> version] /\ upward = 0
    /\ home = 0 => offset = 0 /\ Rest = 0 /\ \A i \in 1 .. Len(wheel) : wheel[i] = "down"
    /\ home # 0 => Rest = home - Step

Unprobing == phase = "RestoreProbe" => home # 0 /\ (~lagged => Rest = home)

Harvesting ==
  phase = "Harvest" =>
    /\ upward > 0 /\ (home = 0 \/ lagged)
    /\ home = 0 => Rest <= upward

Restoring ==
  phase = "Restore" =>
    /\ home = 0 \/ lagged
    /\ home = 0 => Rest = 0

AllCourses == Aligned /\ Answered /\ Settling /\ Probing /\ Unprobing /\ Harvesting /\ Restoring
OnCourse == ~excused => AllCourses

LEMMA RestAtRest ==
  ASSUME wheel = <<>>
  PROVE  Rest = offset
  BY AfterNothing DEF Rest

LEMMA RestStays ==
  ASSUME UNCHANGED <<offset, wheel>>
  PROVE  Rest' = Rest
<1>1. offset' = offset /\ wheel' = wheel
  OBVIOUS
<1> QED BY <1>1 DEF Rest, After, Moved

(* Handling a report changes where the application is, not where it will be. *)
LEMMA RestHandled ==
  ASSUME ReadTypeOK, HandleReport
  PROVE  Rest' = Rest
<1>1. /\ wheel # <<>> /\ offset' = Moved(offset, Head(wheel)) /\ wheel' = Tail(wheel)
      /\ wheel \in Seq({"up", "down"})
  BY DEF HandleReport, ReadTypeOK
<1>2. After(offset, wheel) = After(Moved(offset, Head(wheel)), Tail(wheel))
  BY ONLY <1>1, AfterFirst
<1>3. Rest' = After(offset', wheel')
  BY DEF Rest, After, Moved
<1> QED BY <1>1, <1>2, <1>3 DEF Rest

LEMMA RestSent ==
  ASSUME ReadAssumption, ReadTypeOK, NEW r \in {"up", "down"}, NEW n \in Nat,
         wheel' = wheel \o [i \in 1 .. n |-> r], offset' = offset
  PROVE  Rest' = Shifted(Rest, r, n)
<1>1. offset \in 0 .. Top /\ wheel \in Seq({"up", "down"})
  BY ScreenTyped DEF ReadTypeOK
<1>2. After(offset, wheel \o [i \in 1 .. n |-> r]) = Shifted(After(offset, wheel), r, n)
  BY <1>1, AfterMore
<1>3. Rest' = After(offset', wheel')
  BY DEF Rest, After, Moved
<1> QED BY <1>2, <1>3 DEF Rest

(* What a look at the screen finds when nothing is under way. *)
LEMMA Looked ==
  ASSUME NEW found, Look(found)
  PROVE  ~lagged' => ~lagged /\ wheel = <<>> /\ Rest = offset
  BY RestAtRest DEF Look

LEMMA CompleteCourse ==
  ASSUME Complete, UNCHANGED <<offset, version, home>>,
         home = 0 \/ ~lagged' => Rest = home, ~lagged' => offset = home /\ wheel = <<>>
  PROVE  AllCourses'
<1>1. phase' = "none" /\ wheel' = wheel /\ Rest' = Rest
  BY RestStays DEF Complete
<1>2. Answered'
  BY <1>1 DEF Answered
<1> QED BY <1>1, <1>2 DEF AllCourses, Aligned, Settling, Probing, Unprobing, Harvesting, Restoring

LEMMA HarvestCourse ==
  ASSUME ReadAssumption, ReadTypeOK, UNCHANGED <<offset, version, home>>, NEW s, StartHarvest(s), ~excused',
         phase # "SettleInitial", Aligned, phase # "none",
         home = 0 \/ lagged', home = 0 => Rest <= upward
  PROVE  AllCourses'
<1>1. /\ wheel' = wheel \o [i \in 1 .. Step |-> "up"] /\ upward' = upward + Step
      /\ phase' = "Harvest" /\ home' = home
  BY DEF StartHarvest, WheelFails, Excuse, Wheel, Continue
<1>2. Step \in Nat \ {0} /\ upward \in Nat /\ Rest \in 0 .. Top /\ Top \in Nat
  BY RestInRange DEF ReadAssumption, ReadTypeOK
<1>3. Rest' = Shifted(Rest, "up", Step)
  BY <1>1, <1>2, RestSent
<1>4. Rest' <= Rest + Step
  BY <1>2, <1>3 DEF Shifted
<1>5. Rest' \in Nat
  BY <1>2, <1>3 DEF Shifted
<1>6. Harvesting'
  <2>1. upward' > 0 /\ (home' = 0 \/ lagged')
    BY <1>1, <1>2
  <2>2. home' = 0 => Rest' <= upward'
    BY <1>1, <1>2, <1>4, <1>5
  <2> QED BY <2>1, <2>2 DEF Harvesting
<1>7. Aligned'
  BY <1>1 DEF Aligned
<1> QED BY <1>1, <1>6, <1>7 DEF AllCourses, Answered, Settling, Probing, Unprobing, Restoring

LEMMA RestoreCourse ==
  ASSUME ReadAssumption, ReadTypeOK, UNCHANGED <<offset, version, home>>, NEW v, NEW s,
         StartRestore(v, s), ~excused', phase = "Harvest", upward # 0, Aligned,
         home = 0 \/ lagged', home = 0 => Rest <= upward
  PROVE  AllCourses'
<1>1. /\ wheel' = wheel \o [i \in 1 .. upward |-> "down"] /\ phase' = "Restore" /\ home' = home
  BY DEF StartRestore, WheelFails, Excuse, Wheel, Continue
<1>2. upward \in Nat /\ Rest \in 0 .. Top /\ Top \in Nat
  BY RestInRange DEF ReadAssumption, ReadTypeOK
<1>3. Rest' = Shifted(Rest, "down", upward)
  BY <1>1, <1>2, RestSent
<1>4. home' = 0 => Rest' = 0
  BY <1>1, <1>2, <1>3 DEF Shifted
<1>5. Restoring' /\ Aligned'
  BY <1>1, <1>4 DEF Restoring, Aligned
<1> QED BY <1>1, <1>5 DEF AllCourses, Answered, Settling, Probing, Unprobing, Harvesting

(* Nothing takes an excuse back. *)
LEMMA FailureExcuses ==
  ASSUME WheelFails, ~excused'
  PROVE  ~excused /\ phase = "SettleInitial"
  BY DEF WheelFails, Excuse

LEMMA HarvestExcuses ==
  ASSUME NEW s, StartHarvest(s), ~excused'
  PROVE  ~excused
<1>1. CASE excused' = excused
  BY <1>1
<1>2. CASE WheelFails
  BY <1>2, FailureExcuses
<1> QED BY <1>1, <1>2 DEF StartHarvest

LEMMA RestoreExcuses ==
  ASSUME NEW v, NEW s, StartRestore(v, s), ~excused'
  PROVE  ~excused
<1>1. CASE excused' = excused
  BY <1>1
<1>2. CASE WheelFails
  BY <1>2, FailureExcuses
<1> QED BY <1>1, <1>2 DEF StartRestore

LEMMA CourseInit == Init => OnCourse
<1> SUFFICES ASSUME Init PROVE OnCourse
  OBVIOUS
<1>1. phase = "none" /\ wheel = <<>> /\ home = offset
  BY DEF Init
<1>2. Rest = offset
  BY <1>1, RestAtRest
<1> QED BY <1>1, <1>2 DEF OnCourse, AllCourses, Aligned, Answered, Settling, Probing, Unprobing,
                          Harvesting, Restoring

LEMMA HandleReportCourse ==
  ASSUME ReadAssumption, ReadTypeOK, OnCourse, HandleReport
  PROVE  OnCourse'
<1> SUFFICES ASSUME ~excused' PROVE AllCourses'
  BY DEF OnCourse
<1>1. /\ offset' = Moved(offset, Head(wheel)) /\ wheel' = Tail(wheel) /\ wheel # <<>>
      /\ UNCHANGED <<version, phase, initial, upward, home, lagged, excused>>
      /\ wheel \in Seq({"up", "down"})
  BY DEF HandleReport, readVars, history, ReadTypeOK
<1>2. Rest' = Rest /\ AllCourses
  BY <1>1, RestHandled DEF OnCourse
<1>3. Probing'
  <2> SUFFICES ASSUME phase = "ProbeBottom"
               PROVE  /\ initial' = [at |-> home', version |-> version'] /\ upward' = 0
                      /\ home' = 0 => offset' = 0 /\ Rest' = 0
                                      /\ \A i \in 1 .. Len(wheel') : wheel'[i] = "down"
                      /\ home' # 0 => Rest' = home' - Step
    BY <1>1 DEF Probing
  <2>1. /\ initial = [at |-> home, version |-> version] /\ upward = 0
        /\ home = 0 => offset = 0 /\ Rest = 0 /\ \A i \in 1 .. Len(wheel) : wheel[i] = "down"
        /\ home # 0 => Rest = home - Step
    BY <1>2 DEF AllCourses, Probing
  <2>2. ASSUME home = 0
        PROVE  offset' = 0 /\ Rest' = 0 /\ \A i \in 1 .. Len(wheel') : wheel'[i] = "down"
    <3>1. /\ Len(wheel') = Len(wheel) - 1 /\ Len(wheel) \in Nat \ {0} /\ Head(wheel) = wheel[1]
          /\ \A i \in 1 .. Len(wheel') : wheel'[i] = wheel[i + 1]
      BY <1>1
    <3>2. \A i \in 1 .. Len(wheel') : wheel'[i] = "down"
      BY <2>1, <2>2, <3>1
    <3>3. Head(wheel) = "down"
      BY <2>1, <2>2, <3>1
    <3>4. offset' = 0
      BY <1>1, <2>1, <2>2, <3>3 DEF Moved
    <3> QED BY <1>2, <2>1, <2>2, <3>2, <3>4
  <2> QED BY <1>1, <1>2, <2>1, <2>2
<1>4. Answered'
  BY <1>1, <1>2 DEF AllCourses, Answered
<1>5. Settling'
  BY <1>1, <1>2 DEF AllCourses, Settling
<1>6. Aligned' /\ Unprobing' /\ Harvesting' /\ Restoring'
  BY <1>1, <1>2 DEF AllCourses, Aligned, Unprobing, Harvesting, Restoring
<1> QED BY <1>3, <1>4, <1>5, <1>6 DEF AllCourses

LEMMA TextChangesCourse ==
  ASSUME OnCourse, TextChanges
  PROVE  OnCourse'
<1> SUFFICES ASSUME ~excused' PROVE AllCourses'
  BY DEF OnCourse
<1>1. /\ phase # "ProbeBottom" /\ ~excused
      /\ UNCHANGED <<offset, wheel, phase, initial, upward, home, lagged>>
  BY DEF TextChanges, Excuse, readVars
<1>2. Rest' = Rest /\ AllCourses
  BY <1>1, RestStays DEF OnCourse
<1> QED BY <1>1, <1>2 DEF AllCourses, Aligned, Answered, Settling, Probing, Unprobing, Harvesting, Restoring

LEMMA SameCourse ==
  ASSUME OnCourse, UNCHANGED <<offset, version, wheel, phase, initial, upward, home, lagged, excused>>
  PROVE  OnCourse'
<1>1. Rest' = Rest
  BY RestStays
<1> QED BY <1>1 DEF OnCourse, AllCourses, Aligned, Answered, Settling, Probing, Unprobing, Harvesting,
                    Restoring

LEMMA StartCourse ==
  ASSUME ReadAssumption, ReadTypeOK, OnCourse, NEW lines, Start(lines)
  PROVE  OnCourse'
<1> SUFFICES ASSUME ~excused' PROVE AllCourses'
  BY DEF OnCourse
<1>1. /\ phase' = "SettleInitial" /\ initial' = Screen /\ upward' = 0 /\ home' = Rest
      /\ ~(wheel # <<>> \/ Rest \in 1 .. Step - 1) /\ UNCHANGED <<offset, version, wheel>>
  BY DEF Start, screenVars
<1>2. Rest = offset /\ Screen.at = offset
  BY <1>1, RestAtRest, ScreenTyped
<1>3. home' = 0 \/ home' >= Step
  <2>1. Rest \in 0 .. Top /\ Step \in Nat \ {0} /\ Top \in Nat
    BY RestInRange DEF ReadAssumption
  <2> QED BY <1>1, <2>1
<1> QED BY <1>1, <1>2, <1>3 DEF AllCourses, Aligned, Answered, Settling, Probing, Unprobing, Harvesting,
                               Restoring

LEMMA AbortCourse ==
  ASSUME ReadAssumption, ReadTypeOK, OnCourse, UNCHANGED <<offset, version, home>>, NEW found, Abort(found)
  PROVE  OnCourse'
<1> SUFFICES ASSUME ~excused' PROVE AllCourses'
  BY DEF OnCourse
<1>1. CASE phase = "SettleInitial"
  <2>1. Complete /\ ~excused /\ lagged' = lagged
    BY <1>1 DEF Abort
  <2>2. wheel = <<>> /\ offset = home /\ Rest = offset
    BY <1>1, <2>1, RestAtRest DEF OnCourse, AllCourses, Settling
  <2> QED BY <2>1, <2>2, CompleteCourse
<1>2. CASE phase = "Harvest"
  <2>1. StartRestore(FALSE, previous) /\ lagged' = lagged
    BY <1>2 DEF Abort, Excuse
  <2>2. ~excused
    BY <2>1 DEF StartRestore, WheelFails, Excuse
  <2>3. Aligned /\ upward # 0 /\ (home = 0 \/ lagged') /\ (home = 0 => Rest <= upward)
    BY <1>2, <2>1, <2>2 DEF OnCourse, AllCourses, Harvesting
  <2> QED BY <1>2, <2>1, <2>3, RestoreCourse
<1> QED BY <1>1, <1>2 DEF Abort, Aborted

LEMMA DoubtCourse ==
  ASSUME OnCourse, UNCHANGED <<offset, version, home>>, NEW found, Doubt(found)
  PROVE  OnCourse'
  BY SameCourse DEF Doubt

LEMMA GiveUpCourse ==
  ASSUME ReadTypeOK, OnCourse, UNCHANGED <<offset, version, home>>, NEW found, GiveUp(found)
  PROVE  OnCourse'
<1> SUFFICES ASSUME ~excused' PROVE AllCourses'
  BY DEF OnCourse
<1>1. /\ Complete /\ Look(found) /\ Lost(found) /\ ~excused
      /\ found.app = "ready" \/ phase = "SettleInitial"
  BY DEF GiveUp, Excuse
<1>2. ~lagged' => ~lagged /\ wheel = <<>> /\ Rest = offset
  BY <1>1, Looked
<1>3. AllCourses
  BY <1>1 DEF OnCourse
<1>4. phase \in {"SettleInitial", "RestoreProbe", "Restore"}
  BY <1>1 DEF Lost, ReadTypeOK
<1>5. (home = 0 \/ ~lagged' => Rest = home) /\ (~lagged' => offset = home /\ wheel = <<>>)
  <2>1. CASE phase = "SettleInitial"
    BY <2>1, <1>3, RestAtRest DEF AllCourses, Settling
  <2>2. CASE phase = "RestoreProbe"
    BY <2>2, <1>2, <1>3 DEF AllCourses, Unprobing
  <2>3. CASE phase = "Restore"
    <3>1. (home = 0 \/ lagged) /\ (home = 0 => Rest = 0)
      BY <2>3, <1>3 DEF AllCourses, Restoring
    <3> QED BY <3>1, <1>2
  <2> QED BY <1>4, <2>1, <2>2, <2>3
<1> QED BY <1>1, <1>5, CompleteCourse

LEMMA ExpireCourse ==
  ASSUME ReadAssumption, ReadTypeOK, OnCourse, UNCHANGED <<offset, version, home>>, NEW found, Expire(found)
  PROVE  OnCourse'
<1> SUFFICES ASSUME ~excused' PROVE AllCourses'
  BY DEF OnCourse
<1>0. /\ Look(found) /\ TooLong /\ StartRestore(FALSE, previous)
      /\ lagged' = (lagged \/ wheel # <<>>)
  BY DEF Expire, Look
<1>1. ~excused /\ AllCourses
  BY <1>0, RestoreExcuses DEF OnCourse
<1>2. CASE phase = "SettleInitial"
  <2>1. wheel = <<>> /\ offset = home /\ upward = 0 /\ Rest = offset
    BY <1>1, <1>2, RestAtRest DEF AllCourses, Settling
  <2>2. Complete
    BY <1>0, <2>1 DEF StartRestore
  <2> QED BY <2>1, <2>2, CompleteCourse
<1>3. CASE phase = "Harvest"
  <2>1. Aligned /\ upward # 0 /\ (home = 0 \/ lagged) /\ (home = 0 => Rest <= upward)
    BY <1>1, <1>3 DEF AllCourses, Harvesting
  <2>2. home = 0 \/ lagged'
    BY <1>0, <2>1
  <2> QED BY <1>0, <1>3, <2>1, <2>2, RestoreCourse
<1> QED BY <1>0, <1>2, <1>3 DEF TooLong

LEMMA SettleCourse ==
  ASSUME ReadAssumption, ReadTypeOK, OnCourse, UNCHANGED <<offset, version, home>>, NEW found,
         SettleInitial(found)
  PROVE  OnCourse'
<1> SUFFICES ASSUME ~excused' PROVE AllCourses'
  BY DEF OnCourse
<1>0. phase = "SettleInitial" /\ ~excused
  <2>1. phase = "SettleInitial"
    BY DEF SettleInitial, Polled
  <2>2. excused' = excused \/ WheelFails
    BY DEF SettleInitial
  <2> QED BY <2>1, <2>2, FailureExcuses
<1>1. /\ wheel = <<>> /\ offset = home /\ initial.at = home /\ upward = 0 /\ Rest = offset
      /\ home = 0 \/ home >= Step
  BY <1>0, RestAtRest DEF OnCourse, AllCourses, Settling, Aligned
<1>2. CASE Complete
  BY <1>1, <1>2, CompleteCourse
<1>3. CASE phase' = "SettleInitial"
  <2>1. wheel' = wheel /\ upward' = upward /\ initial' \in {Screen, initial}
    BY <1>3 DEF SettleInitial, WheelFails, Complete, Continue
  <2>2. initial'.at = home
    BY <1>1, <2>1, ScreenTyped
  <2> QED BY <1>1, <1>3, <2>1, <2>2
          DEF AllCourses, Aligned, Answered, Settling, Probing, Unprobing, Harvesting, Restoring
<1>4. CASE phase' = "ProbeBottom"
  <2>1. /\ Screen = initial /\ wheel' = wheel \o [i \in 1 .. Step |-> "down"]
        /\ initial' = initial /\ upward' = upward
    BY <1>4 DEF SettleInitial, WheelFails, Complete, Continue, Wheel
  <2>2. initial' = [at |-> home', version |-> version']
    BY <1>1, <2>1 DEF Screen
  <2>3. Step \in Nat \ {0} /\ Rest \in 0 .. Top /\ Top \in Nat
    BY RestInRange DEF ReadAssumption
  <2>4. Rest' = Shifted(Rest, "down", Step)
    BY <2>1, <2>3, RestSent
  <2>5. (home = 0 => Rest' = 0) /\ (home # 0 => Rest' = home - Step)
    BY <1>1, <2>3, <2>4 DEF Shifted
  <2>6. \A i \in 1 .. Len(wheel') : wheel'[i] = "down"
    BY <1>1, <2>1, <2>3
  <2>7. Probing'
    BY <1>1, <2>1, <2>2, <2>5, <2>6 DEF Probing
  <2>8. Aligned'
    BY <1>1 DEF Aligned
  <2> QED BY <1>4, <2>7, <2>8 DEF AllCourses, Answered, Settling, Unprobing, Harvesting, Restoring
<1> QED BY <1>2, <1>3, <1>4 DEF SettleInitial, WheelFails, Continue

LEMMA ProbeCourse ==
  ASSUME ReadAssumption, ReadTypeOK, OnCourse, UNCHANGED <<offset, version, home>>, NEW found,
         ProbeBottom(found)
  PROVE  OnCourse'
<1> SUFFICES ASSUME ~excused' PROVE AllCourses'
  BY DEF OnCourse
<1>0. phase = "ProbeBottom" /\ Look(found) /\ ~excused /\ AllCourses
  <2>1. phase = "ProbeBottom" /\ Look(found)
    BY DEF ProbeBottom, Polled
  <2>2. excused' = excused \/ WheelFails \/ StartHarvest(previous)
    BY DEF ProbeBottom
  <2>3. ~excused
    BY <2>2, FailureExcuses, HarvestExcuses
  <2> QED BY <2>1, <2>3 DEF OnCourse
<1>1. /\ initial = [at |-> home, version |-> version] /\ upward = 0
      /\ home = 0 => offset = 0 /\ Rest = 0
      /\ home # 0 => Rest = home - Step
      /\ home = 0 \/ home >= Step
      /\ Aligned
  BY <1>0 DEF AllCourses, Probing, Aligned
<1>2. ~lagged' => ~lagged /\ wheel = <<>> /\ Rest = offset
  BY <1>0, Looked
<1>3. Step \in Nat \ {0} /\ Rest \in 0 .. Top /\ Top \in Nat /\ home \in 0 .. Top
  BY RestInRange DEF ReadAssumption, ReadTypeOK
<1>4. Screen = initial <=> offset = home
  BY <1>1 DEF Screen
<1>5. CASE Screen = initial
  <2>1. home = 0 \/ lagged'
    BY <1>1, <1>2, <1>3, <1>4, <1>5
  <2>2. CASE Complete
    <3>1. (home = 0 \/ ~lagged' => Rest = home) /\ (~lagged' => offset = home /\ wheel = <<>>)
      BY <1>1, <1>2, <1>4, <1>5, <2>1
    <3> QED BY <2>2, <3>1, CompleteCourse
  <2>3. CASE StartHarvest(previous)
    <3>1. home = 0 => Rest <= upward
      BY <1>1
    <3> QED BY <1>0, <1>1, <2>1, <2>3, <3>1, HarvestCourse
  <2> QED BY <1>5, <2>2, <2>3 DEF ProbeBottom
<1>6. CASE Screen # initial
  <2>1. /\ wheel' = wheel \o [i \in 1 .. Step |-> "up"] /\ phase' = "RestoreProbe"
    BY <1>0, <1>6 DEF ProbeBottom, WheelFails, Excuse, Wheel, Continue
  <2>2. home # 0
    BY <1>1, <1>4, <1>6
  <2>3. Rest' = Shifted(Rest, "up", Step)
    BY <1>3, <2>1, RestSent
  <2>4. Rest' = home
    BY <1>1, <1>3, <2>2, <2>3 DEF Shifted
  <2>5. Unprobing' /\ Aligned'
    BY <1>1, <2>2, <2>4 DEF Unprobing, Aligned
  <2> QED BY <2>1, <2>5 DEF AllCourses, Answered, Settling, Probing, Harvesting, Restoring
<1> QED BY <1>5, <1>6

LEMMA RestoreProbeCourse ==
  ASSUME ReadTypeOK, OnCourse, UNCHANGED <<offset, version, home>>, NEW found, RestoreProbe(found)
  PROVE  OnCourse'
<1> SUFFICES ASSUME ~excused' PROVE AllCourses'
  BY DEF OnCourse
<1>0. phase = "RestoreProbe" /\ Look(found) /\ excused' = excused
  BY DEF RestoreProbe, Polled
<1>1. home # 0 /\ (~lagged => Rest = home) /\ Aligned
  BY <1>0 DEF OnCourse, AllCourses, Unprobing
<1>2. ~lagged' => ~lagged /\ wheel = <<>> /\ Rest = offset
  BY <1>0, Looked
<1>3. CASE Complete
  BY <1>1, <1>2, <1>3, CompleteCourse
<1>4. CASE ~Complete
  <2>1. phase' = "RestoreProbe" /\ wheel' = wheel
    BY <1>4 DEF RestoreProbe, Continue
  <2>2. Rest' = Rest
    BY <2>1, RestStays
  <2>3. Unprobing' /\ Aligned'
    BY <1>0, <1>1, <1>2, <2>2 DEF Unprobing, Aligned
  <2> QED BY <2>1, <2>3 DEF AllCourses, Answered, Settling, Probing, Harvesting, Restoring
<1> QED BY <1>3, <1>4

LEMMA HarvestStepCourse ==
  ASSUME ReadAssumption, ReadTypeOK, OnCourse, UNCHANGED <<offset, version, home>>, NEW found, Harvest(found)
  PROVE  OnCourse'
<1> SUFFICES ASSUME ~excused' PROVE AllCourses'
  BY DEF OnCourse
<1>0. phase = "Harvest" /\ lagged' = (lagged \/ wheel # <<>>) /\ ~excused
  <2>1. phase = "Harvest" /\ lagged' = (lagged \/ wheel # <<>>)
    BY DEF Harvest, Polled, Look
  <2>2. excused' = excused \/ (\E s : StartHarvest(s)) \/ (\E v, s : StartRestore(v, s))
    BY DEF Harvest
  <2>3. ~excused
    BY <2>2, HarvestExcuses, RestoreExcuses
  <2> QED BY <2>1, <2>3
<1>1. Aligned /\ upward > 0 /\ (home = 0 \/ lagged) /\ (home = 0 => Rest <= upward)
  BY <1>0 DEF OnCourse, AllCourses, Harvesting
<1>2. upward # 0 /\ (home = 0 \/ lagged')
  <2>1. upward \in Nat
    BY DEF ReadTypeOK
  <2>2. upward # 0
    BY <1>1, <2>1
  <2>3. home = 0 \/ lagged'
    BY <1>0, <1>1
  <2> QED BY <2>2, <2>3
<1>3. CASE \E s : StartHarvest(s)
  BY <1>0, <1>1, <1>2, <1>3, HarvestCourse
<1>4. CASE \E v, s : StartRestore(v, s)
  BY <1>0, <1>1, <1>2, <1>4, RestoreCourse
<1>5. CASE Continue("Harvest", checks + 1) /\ UNCHANGED <<upward, wheel>>
  <2>1. phase' = "Harvest" /\ upward' = upward /\ Rest' = Rest
    BY <1>5, RestStays DEF Continue
  <2>2. Harvesting' /\ Aligned'
    BY <1>0, <1>1, <1>2, <2>1 DEF Harvesting, Aligned
  <2> QED BY <2>1, <2>2 DEF AllCourses, Answered, Settling, Probing, Unprobing, Restoring
<1> QED BY <1>3, <1>4, <1>5 DEF Harvest

LEMMA RestoreStepCourse ==
  ASSUME ReadAssumption, ReadTypeOK, OnCourse, UNCHANGED <<offset, version, home>>, NEW found, Restore(found)
  PROVE  OnCourse'
<1> SUFFICES ASSUME ~excused' PROVE AllCourses'
  BY DEF OnCourse
<1>0. phase = "Restore" /\ Look(found) /\ lagged' = (lagged \/ wheel # <<>>) /\ ~excused
  <2>1. phase = "Restore" /\ Look(found) /\ lagged' = (lagged \/ wheel # <<>>)
    BY DEF Restore, Polled, Look
  <2>2. excused' = excused \/ WheelFails
    BY DEF Restore
  <2> QED BY <2>1, <2>2, FailureExcuses
<1>1. Aligned /\ (home = 0 \/ lagged) /\ (home = 0 => Rest = 0)
  BY <1>0 DEF OnCourse, AllCourses, Restoring
<1>2. ~lagged' => ~lagged /\ wheel = <<>> /\ Rest = offset
  BY <1>0, Looked
<1>3. CASE Complete
  <2>1. (home = 0 \/ ~lagged' => Rest = home) /\ (~lagged' => offset = home /\ wheel = <<>>)
    BY <1>1, <1>2
  <2> QED BY <1>3, <2>1, CompleteCourse
<1>4. CASE ~Complete
  <2> DEFINE half == IF Page > 1 THEN Page \div 2 ELSE 1
  <2>0. half \in Nat /\ Rest \in 0 .. Top /\ Top \in Nat
    BY HalfPage, RestInRange DEF ReadAssumption
  <2>1. phase' = "Restore" /\ (wheel' = wheel \/ wheel' = wheel \o [i \in 1 .. half |-> "down"])
    BY <1>4 DEF Restore, Continue, Wheel, WheelFails
  <2> HIDE DEF half
  <2>2. home = 0 => Rest' = 0
    <3>1. CASE wheel' = wheel
      BY <1>1, <3>1, RestStays
    <3>2. CASE wheel' = wheel \o [i \in 1 .. half |-> "down"]
      <4>1. Rest' = Shifted(Rest, "down", half)
        BY <2>0, <3>2, RestSent
      <4> QED BY <1>1, <2>0, <4>1 DEF Shifted
    <3> QED BY <2>1, <3>1, <3>2
  <2>3. Restoring' /\ Aligned'
    BY <1>0, <1>1, <2>2 DEF Restoring, Aligned
  <2> QED BY <2>1, <2>3 DEF AllCourses, Answered, Settling, Probing, Unprobing, Harvesting
<1> QED BY <1>3, <1>4

LEMMA CourseNext == ReadAssumption /\ ReadTypeOK /\ OnCourse /\ [Next]_vars => OnCourse'
<1> SUFFICES ASSUME ReadAssumption, ReadTypeOK, OnCourse, [Next]_vars PROVE OnCourse'
  OBVIOUS
<1>1. CASE HandleReport
  BY <1>1, HandleReportCourse
<1>2. CASE TextChanges
  BY <1>2, TextChangesCourse
<1>3. CASE Ages
  BY <1>3, SameCourse DEF Ages, screenVars, history
<1>4. ASSUME NEW found \in Founds, Poll(found) PROVE OnCourse'
  <2>1. UNCHANGED <<offset, version, home>>
    BY <1>4 DEF Poll, screenVars
  <2> QED BY <1>4, <2>1, AbortCourse, DoubtCourse, GiveUpCourse, ExpireCourse, SettleCourse, ProbeCourse,
             RestoreProbeCourse, HarvestStepCourse, RestoreStepCourse DEF Poll
<1>5. ASSUME NEW lines \in 1 .. Top + 1, Start(lines) PROVE OnCourse'
  BY <1>5, StartCourse
<1>6. CASE UNCHANGED vars
  BY <1>6, SameCourse DEF vars, screenVars, readVars, history
<1> QED BY <1>1, <1>2, <1>3, <1>4, <1>5, <1>6 DEF Next, Application

LEMMA CourseIsViewport == OnCourse => ViewportReturns
  BY DEF OnCourse, AllCourses, Answered, ViewportReturns

----------------------------------------------------------------------------
(* Every variable of a read has its type, and a read has a deadline for     *)
(* moving the application back exactly while it does so.                    *)
THEOREM ReadsAreTyped == Spec => []ReadTypeOK
<1>1. Init => ReadTypeOK
  BY ReadAssumption, TypeInit
<1>2. ReadTypeOK /\ [Next]_vars => ReadTypeOK'
  BY ReadAssumption, TypeNext
<1> QED BY <1>1, <1>2, PTL DEF Spec

(* After a read that nothing excuses the application is where it was: one   *)
(* that was at the bottom will be there whenever it handles what it was     *)
(* sent, for all sizes of the steps, the pages and the transcript.          *)
THEOREM ReadsPutBack == Spec => []ViewportReturns
<1>1. Init => ReadTypeOK /\ OnCourse
  BY ReadAssumption, TypeInit, CourseInit
<1>2. ReadTypeOK /\ OnCourse /\ [Next]_vars => ReadTypeOK' /\ OnCourse'
  BY ReadAssumption, TypeNext, CourseNext
<1>3. OnCourse => ViewportReturns
  BY CourseIsViewport
<1> QED BY <1>1, <1>2, <1>3, PTL DEF Spec
=============================================================================
