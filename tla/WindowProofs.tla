----------------------------- MODULE WindowProofs -----------------------------
(***************************************************************************)
(* Proofs about the windows: Compositor's tables of them, and which Wine   *)
(* process each is tied to by ProcessRegistry.  For every number of        *)
(* windows and processes and every interleaving of the threads.            *)
(***************************************************************************)
EXTENDS Compositor, ProcessRegistry, FiniteSetTheorems, SequenceTheorems, WellFoundedInduction, TLAPS

\* Every set of numbers has a least one: the induction the orders need.
LEMMA SmallestNat ==
  ASSUME NEW T \in SUBSET Nat, T # {}
  PROVE  \E x \in T : \A y \in T : x <= y
<1> DEFINE R == OpToRel(<, Nat)
<1>1. IsWellFoundedOn(R, Nat)
  BY NatLessThanWellFounded
<1>2. \E x \in T : \A y \in T : ~(<<y, x>> \in R)
  <2> HIDE DEF R
  <2> QED
    BY <1>1, WFMin
<1>3. \A x, y \in Nat : ~(<<y, x>> \in R) => x <= y
  BY DEF OpToRel
<1> HIDE DEF R
<1> QED
  BY <1>2, <1>3

\* What a sequence lists.
LEMMA SeqFacts ==
  ASSUME NEW S, NEW s \in Seq(S)
  PROVE  /\ Len(s) \in Nat /\ DOMAIN s = 1..Len(s) /\ ToSet(s) \subseteq S
         /\ \A i \in DOMAIN s : s[i] \in S /\ s[i] \in ToSet(s)
BY DEF ToSet

LEMMA SeqIsFunction ==
  ASSUME NEW S, NEW s \in Seq(S)
  PROVE  s = [k \in 1..Len(s) |-> s[k]]
BY LenProperties

\* Rank is the place of a listed window, and 0 for another.
LEMMA RankFacts ==
  ASSUME NEW S, NEW s \in Seq(S)
  PROVE  /\ \A u \in ToSet(s) : Rank(u, s) \in DOMAIN s /\ s[Rank(u, s)] = u
         /\ IsInjective(s) => \A i \in DOMAIN s : Rank(s[i], s) = i
         /\ \A u : u \notin ToSet(s) => Rank(u, s) = 0
<1>1. ASSUME NEW u \in ToSet(s) PROVE Rank(u, s) \in DOMAIN s /\ s[Rank(u, s)] = u
  <2>1. \E i \in DOMAIN s : s[i] = u
    BY DEF ToSet
  <2> QED
    BY <2>1 DEF Rank
<1>2. ASSUME IsInjective(s), NEW i \in DOMAIN s PROVE Rank(s[i], s) = i
  <2>1. s[i] \in ToSet(s)
    BY DEF ToSet
  <2> QED
    BY <1>1, <1>2, <2>1 DEF IsInjective
<1> QED
  BY <1>1, <1>2 DEF Rank

\* A window that is not listed is listed last.
LEMMA Appended ==
  ASSUME NEW S, NEW s \in Seq(S), NEW e \in S, IsInjective(s), e \notin ToSet(s)
  PROVE  /\ Append(s, e) \in Seq(S) /\ IsInjective(Append(s, e))
         /\ ToSet(Append(s, e)) = ToSet(s) \cup {e}
         /\ Rank(e, Append(s, e)) = Len(s) + 1
         /\ \A u \in ToSet(s) : Rank(u, Append(s, e)) = Rank(u, s) /\ Rank(u, s) \in 1..Len(s)
<1> DEFINE t == Append(s, e)
<1>1. t \in Seq(S) /\ Len(t) = Len(s) + 1 /\ DOMAIN t = 1..Len(s) + 1 /\ t[Len(s) + 1] = e
      /\ \A i \in 1..Len(s) : t[i] = s[i]
  OBVIOUS
<1>2. \A i \in 1..Len(s) : s[i] # e
  BY DEF ToSet
<1>3. Len(s) \in Nat /\ DOMAIN s = 1..Len(s) /\ DOMAIN t = DOMAIN s \cup {Len(s) + 1}
  BY <1>1
<1> HIDE DEF t
<1>4. IsInjective(t)
  BY <1>1, <1>2, <1>3 DEF IsInjective
<1>5. ToSet(t) = ToSet(s) \cup {e}
  BY <1>1, <1>3 DEF ToSet
<1>6. Rank(e, t) = Len(s) + 1
  BY <1>1, <1>3, <1>4, RankFacts
<1>7. ASSUME NEW u \in ToSet(s) PROVE Rank(u, t) = Rank(u, s) /\ Rank(u, s) \in 1..Len(s)
  <2>1. Rank(u, s) \in 1..Len(s) /\ s[Rank(u, s)] = u
    BY <1>3, RankFacts
  <2> QED
    BY <1>1, <1>3, <1>4, <2>1, RankFacts
<1> QED
  BY <1>1, <1>4, <1>5, <1>6, <1>7 DEF t

\* RemoveFirst closes the gap at the one place of the window.
LEMMA RemovedAt ==
  ASSUME NEW S, NEW s \in Seq(S), NEW e, IsInjective(s), e \in ToSet(s)
  PROVE  \E p \in 1..Len(s) : /\ s[p] = e
           /\ RemoveFirst(s, e) = [k \in 1..Len(s) - 1 |-> IF k < p THEN s[k] ELSE s[k + 1]]
<1> DEFINE I == {i \in 1..Len(s) : s[i] = e}
<1>1. PICK p \in 1..Len(s) : s[p] = e
  BY DEF ToSet
<1>2. I = {p}
  BY <1>1 DEF IsInjective
<1>3. SelectInSeq(s, LAMBDA v : v = e) = p
  <2>1. SelectInSeq(s, LAMBDA v : v = e) = IF I # {} THEN Min(I) ELSE 0
    BY DEF SelectInSeq
  <2>2. Min({p}) = p
    BY DEF Min
  <2> HIDE DEF I
  <2> QED
    BY <1>2, <2>1, <2>2
<1>4. RemoveFirst(s, e) = RemoveAt(s, p)
  BY <1>1, <1>3 DEF RemoveFirst
<1>5. RemoveAt(s, p) = [k \in 1..Len(s) - 1 |-> IF k < p THEN s[k] ELSE s[k + 1]]
  <2> DEFINE a == SubSeq(s, 1, p - 1)
             b == SubSeq(s, p + 1, Len(s))
  <2>0. Len(s) \in Nat /\ p \in 1..Len(s)
    OBVIOUS
  <2>1. a \in Seq(S) /\ Len(a) = p - 1 /\ \A k \in 1..p - 1 : a[k] = s[k]
    BY <2>0
  <2>2. b \in Seq(S) /\ Len(b) = Len(s) - p /\ \A k \in 1..Len(s) - p : b[k] = s[k + p]
    BY <2>0
  <2>3. RemoveAt(s, p) = a \o b
    BY DEF RemoveAt
  <2> HIDE DEF a, b
  <2>4. /\ a \o b \in Seq(S) /\ Len(a \o b) = Len(a) + Len(b)
        /\ \A k \in 1..Len(a) + Len(b) : (a \o b)[k] = IF k <= Len(a) THEN a[k] ELSE b[k - Len(a)]
    BY <2>1, <2>2, ConcatProperties, Zenon
  <2>5. Len(a \o b) = Len(s) - 1
    BY <2>0, <2>1, <2>2, <2>4
  <2>6. ASSUME NEW k \in 1..Len(s) - 1 PROVE (a \o b)[k] = IF k < p THEN s[k] ELSE s[k + 1]
    <3>1. k \in 1..Len(a) + Len(b)
      BY <2>0, <2>1, <2>2
    <3>2. (a \o b)[k] = IF k <= Len(a) THEN a[k] ELSE b[k - Len(a)]
      BY <2>4, <3>1
    <3>3. CASE k < p
      BY <2>0, <2>1, <3>2, <3>3
    <3>4. CASE ~(k < p)
      <4>1. k - Len(a) \in 1..Len(s) - p /\ k - Len(a) + p = k + 1 /\ ~(k <= Len(a))
        BY <2>0, <2>1, <3>4
      <4> QED
        BY <2>2, <3>2, <3>4, <4>1
    <3> QED
      BY <3>3, <3>4
  <2>7. a \o b = [k \in 1..Len(s) - 1 |-> (a \o b)[k]]
    BY <2>4, <2>5, SeqIsFunction, Zenon
  <2> QED
    BY <2>3, <2>6, <2>7
<1> QED
  BY <1>1, <1>4, <1>5

\* What is left keeps its order.
LEMMA Removed ==
  ASSUME NEW S, NEW s \in Seq(S), NEW e, IsInjective(s)
  PROVE  /\ RemoveFirst(s, e) \in Seq(S) /\ IsInjective(RemoveFirst(s, e))
         /\ ToSet(RemoveFirst(s, e)) = ToSet(s) \ {e}
         /\ \A u, v \in ToSet(s) \ {e} :
              Rank(u, RemoveFirst(s, e)) < Rank(v, RemoveFirst(s, e)) <=> Rank(u, s) < Rank(v, s)
<1>1. CASE e \notin ToSet(s)
  <2>1. RemoveFirst(s, e) = s
    BY <1>1 DEF RemoveFirst, ToSet
  <2> QED
    BY <1>1, <2>1
<1>2. CASE e \in ToSet(s)
  <2> DEFINE t == RemoveFirst(s, e)
  <2>1. PICK p \in 1..Len(s) : /\ s[p] = e
           /\ t = [k \in 1..Len(s) - 1 |-> IF k < p THEN s[k] ELSE s[k + 1]]
    BY <1>2, RemovedAt
  <2>2. Len(s) \in Nat /\ DOMAIN s = 1..Len(s) /\ p \in Nat /\ Len(s) - 1 \in Nat
    OBVIOUS
  <2> HIDE DEF t
  <2>3. t \in Seq(S) /\ DOMAIN t = 1..Len(s) - 1
    BY <2>1, <2>2
  <2>4. IsInjective(t)
    <3> SUFFICES ASSUME NEW a \in 1..Len(s) - 1, NEW b \in 1..Len(s) - 1, t[a] = t[b] PROVE a = b
      BY <2>3 DEF IsInjective
    <3>1. PICK x \in DOMAIN s : x = (IF a < p THEN a ELSE a + 1) /\ t[a] = s[x]
      BY <2>1, <2>2
    <3>2. PICK y \in DOMAIN s : y = (IF b < p THEN b ELSE b + 1) /\ t[b] = s[y]
      BY <2>1, <2>2
    <3>3. x = y
      BY <3>1, <3>2 DEF IsInjective
    <3> QED
      BY <2>2, <3>1, <3>2, <3>3
  <2>5. \A i \in DOMAIN s \ {p} : LET k == IF i < p THEN i ELSE i - 1 IN k \in DOMAIN t /\ t[k] = s[i]
    BY <2>1, <2>2, <2>3
  <2>6. \A k \in DOMAIN t : LET i == IF k < p THEN k ELSE k + 1 IN i \in DOMAIN s \ {p} /\ t[k] = s[i]
    BY <2>1, <2>2, <2>3
  <2>7. \A i \in DOMAIN s : s[i] = e <=> i = p
    BY <2>1, <2>2 DEF IsInjective
  <2>8. ToSet(t) = ToSet(s) \ {e}
    <3>1. ASSUME NEW x \in ToSet(t) PROVE x \in ToSet(s) \ {e}
      BY <2>6, <2>7 DEF ToSet
    <3>2. ASSUME NEW x \in ToSet(s) \ {e} PROVE x \in ToSet(t)
      <4>1. PICK i \in DOMAIN s : s[i] = x
        BY DEF ToSet
      <4> QED
        BY <2>5, <2>7, <4>1 DEF ToSet
    <3> QED
      BY <3>1, <3>2
  <2>9. ASSUME NEW u \in ToSet(s) \ {e}
        PROVE  LET i == Rank(u, s) IN i \in DOMAIN s \ {p} /\ Rank(u, t) = IF i < p THEN i ELSE i - 1
    <3>1. Rank(u, s) \in DOMAIN s \ {p} /\ s[Rank(u, s)] = u
      BY <2>7, RankFacts
    <3> QED
      BY <2>3, <2>4, <2>5, <3>1, RankFacts
  <2>10. ASSUME NEW u \in ToSet(s) \ {e}, NEW v \in ToSet(s) \ {e}
         PROVE  Rank(u, t) < Rank(v, t) <=> Rank(u, s) < Rank(v, s)
    BY <2>2, <2>9
  <2> QED
    BY <2>3, <2>4, <2>8, <2>10 DEF t
<1> QED
  BY <1>1, <1>2

-----------------------------------------------------------------------------
(***************************************************************************)
(* The compositor's tables.  A window with a full-screen number has been   *)
(* entered and the other way round, and of two windows the user has not    *)
(* chosen the later of them is the one with the higher number: numbered    *)
(* and entered differ by what was chosen only.                             *)
(***************************************************************************)
Orders(n, e, c) ==
  /\ n \in Seq(Window) /\ e \in Seq(Window) /\ c \subseteq Window
  /\ IsInjective(n) /\ IsInjective(e) /\ ToSet(n) = ToSet(e)
  /\ \A u \in ToSet(n) \ c, v \in ToSet(n) : Rank(v, n) < Rank(u, n) => Rank(v, e) < Rank(u, e)

OrderInv == Orders(numbered, entered, chosen)

ZOrderInv ==
  /\ known \subseteq Window
  /\ zorder \in Seq(Window) /\ IsInjective(zorder)
  /\ ToSet(zorder) \cap known \subseteq ToSet(numbered)
  /\ mutex = None => ToSet(zorder) \subseteq known

TableInv == OrderInv /\ ZOrderInv

\* A window is numbered and entered for the first time, or has been before.
LEMMA OrdersTaken ==
  ASSUME NEW n, NEW e, NEW c, Orders(n, e, c), NEW w \in Window
  PROVE  /\ Orders(TakeNumber(w, n), Enter(w, e), c)
         /\ ToSet(TakeNumber(w, n)) = ToSet(n) \cup {w}
<1> USE DEF Orders
<1>1. CASE w \in ToSet(n)
  <2>1. TakeNumber(w, n) = n /\ Enter(w, e) = e
    BY <1>1 DEF TakeNumber, Enter
  <2> QED
    BY <1>1, <2>1
<1>2. CASE w \notin ToSet(n)
  <2> DEFINE m == Append(n, w)
             f == Append(e, w)
  <2>1. TakeNumber(w, n) = m /\ Enter(w, e) = f
    BY <1>2 DEF TakeNumber, Enter
  <2>2. /\ m \in Seq(Window) /\ IsInjective(m) /\ ToSet(m) = ToSet(n) \cup {w} /\ Rank(w, m) = Len(n) + 1
        /\ \A u \in ToSet(n) : Rank(u, m) = Rank(u, n) /\ Rank(u, n) \in 1..Len(n)
    BY <1>2, Appended
  <2>3. /\ f \in Seq(Window) /\ IsInjective(f) /\ ToSet(f) = ToSet(e) \cup {w} /\ Rank(w, f) = Len(e) + 1
        /\ \A u \in ToSet(e) : Rank(u, f) = Rank(u, e) /\ Rank(u, e) \in 1..Len(e)
    BY <1>2, Appended
  <2>4. Len(n) \in Nat /\ Len(e) \in Nat
    OBVIOUS
  <2> HIDE DEF m, f
  <2>5. ASSUME NEW u \in ToSet(m) \ c, NEW v \in ToSet(m), Rank(v, m) < Rank(u, m)
        PROVE  Rank(v, f) < Rank(u, f)
    <3>1. v # w
      BY <2>2, <2>4, <2>5
    <3>2. CASE u = w
      BY <2>2, <2>3, <2>4, <3>1, <3>2
    <3>3. CASE u # w
      BY <2>2, <2>3, <2>5, <3>1, <3>3
    <3> QED
      BY <3>2, <3>3
  <2> QED
    BY <2>1, <2>2, <2>3, <2>5
<1> QED
  BY <1>1, <1>2

\* The user chooses a window: its number becomes the highest.
LEMMA OrdersChosen ==
  ASSUME NEW n, NEW e, NEW c, Orders(n, e, c), NEW w \in ToSet(n)
  PROVE  /\ Orders(Append(RemoveFirst(n, w), w), e, c \cup {w})
         /\ ToSet(Append(RemoveFirst(n, w), w)) = ToSet(n)
<1> USE DEF Orders
<1> DEFINE r == RemoveFirst(n, w)
           m == Append(r, w)
<1>0. w \in Window
  BY SeqFacts
<1>1. /\ r \in Seq(Window) /\ IsInjective(r) /\ ToSet(r) = ToSet(n) \ {w}
      /\ \A u, v \in ToSet(n) \ {w} : Rank(u, r) < Rank(v, r) <=> Rank(u, n) < Rank(v, n)
  BY Removed
<1>2. w \notin ToSet(r)
  BY <1>1
<1> HIDE DEF r
<1>3. /\ m \in Seq(Window) /\ IsInjective(m) /\ ToSet(m) = ToSet(r) \cup {w} /\ Rank(w, m) = Len(r) + 1
      /\ \A u \in ToSet(r) : Rank(u, m) = Rank(u, r) /\ Rank(u, r) \in 1..Len(r)
  BY <1>0, <1>1, <1>2, Appended
<1>4. Len(r) \in Nat
  BY <1>1
<1> HIDE DEF m
<1>5. ASSUME NEW u \in ToSet(m) \ (c \cup {w}), NEW v \in ToSet(m), Rank(v, m) < Rank(u, m)
      PROVE  Rank(v, e) < Rank(u, e)
  <2>1. u \in ToSet(r) /\ v # w
    BY <1>3, <1>4, <1>5
  <2>2. u \in ToSet(n) \ {w} /\ v \in ToSet(n) \ {w}
    BY <1>1, <1>3, <2>1
  <2>3. Rank(v, n) < Rank(u, n)
    BY <1>1, <1>3, <1>5, <2>1, <2>2
  <2> QED
    BY <1>5, <2>2, <2>3
<1>6. ToSet(m) = ToSet(n)
  BY <1>1, <1>3
<1>7. Orders(m, e, c \cup {w})
  BY <1>0, <1>3, <1>5, <1>6
<1> QED
  BY <1>6, <1>7 DEF m, r

\* A window that is gone loses its number and its place.
LEMMA OrdersDropped ==
  ASSUME NEW n, NEW e, NEW c, Orders(n, e, c), NEW w
  PROVE  /\ Orders(RemoveFirst(n, w), RemoveFirst(e, w), c \ {w})
         /\ ToSet(RemoveFirst(n, w)) = ToSet(n) \ {w}
<1> USE DEF Orders
<1> DEFINE m == RemoveFirst(n, w)
           f == RemoveFirst(e, w)
<1>1. /\ m \in Seq(Window) /\ IsInjective(m) /\ ToSet(m) = ToSet(n) \ {w}
      /\ \A u, v \in ToSet(n) \ {w} : Rank(u, m) < Rank(v, m) <=> Rank(u, n) < Rank(v, n)
  BY Removed
<1>2. /\ f \in Seq(Window) /\ IsInjective(f) /\ ToSet(f) = ToSet(e) \ {w}
      /\ \A u, v \in ToSet(e) \ {w} : Rank(u, f) < Rank(v, f) <=> Rank(u, e) < Rank(v, e)
  BY Removed
<1> HIDE DEF m, f
<1>3. ASSUME NEW u \in ToSet(m) \ (c \ {w}), NEW v \in ToSet(m), Rank(v, m) < Rank(u, m)
      PROVE  Rank(v, f) < Rank(u, f)
  <2>1. u \in ToSet(n) \ c /\ u # w /\ v \in ToSet(n) /\ v # w
    BY <1>1
  <2>2. Rank(v, n) < Rank(u, n)
    BY <1>1, <1>3, <2>1
  <2> QED
    BY <1>2, <2>1, <2>2
<1>4. Orders(m, f, c \ {w})
  BY <1>1, <1>2, <1>3
<1> QED
  BY <1>1, <1>4 DEF m, f

\* A window is put on top, whether it was in the z-order or not.
LEMMA PutOnTop ==
  ASSUME NEW z \in Seq(Window), IsInjective(z), NEW w \in Window
  PROVE  OnTop(w, z) \in Seq(Window) /\ IsInjective(OnTop(w, z)) /\ ToSet(OnTop(w, z)) = ToSet(z) \cup {w}
<1> DEFINE r == RemoveFirst(z, w)
<1>1. r \in Seq(Window) /\ IsInjective(r) /\ ToSet(r) = ToSet(z) \ {w}
  BY Removed
<1> HIDE DEF r
<1>2. Append(r, w) \in Seq(Window) /\ IsInjective(Append(r, w)) /\ ToSet(Append(r, w)) = ToSet(r) \cup {w}
  BY <1>1, Appended
<1> QED
  BY <1>1, <1>2 DEF OnTop, r

LEMMA RaiseKeepsTables ==
  ASSUME TableInv, mutex = None, mutex' = None, taskbar \in Window \cup {None},
         NEW w \in Window, NEW byUser, Raise(w, byUser)
  PROVE  TableInv'
<1> DEFINE bump == byUser /\ win[w].fullscreen
           pin == taskbar \notin {None, w} /\ ~win[w].fullscreen
           once == TakeNumber(w, numbered)
           here == Enter(w, entered)
           z == OnTop(w, zorder)
<1> USE DEF TableInv, OrderInv, ZOrderInv
<1>1. Orders(once, here, chosen) /\ ToSet(once) = ToSet(numbered) \cup {w}
  BY OrdersTaken
<1>2. z \in Seq(Window) /\ IsInjective(z) /\ ToSet(z) = ToSet(zorder) \cup {w}
  BY PutOnTop
<1>3. CASE bump
  <2>1. /\ zorder' = z /\ numbered' = Append(RemoveFirst(once, w), w) /\ entered' = here
        /\ known' = known \cup {w} /\ chosen' = chosen \cup {w}
    BY <1>3 DEF Raise
  <2> HIDE DEF once, here, z
  <2>2. Orders(numbered', entered', chosen') /\ ToSet(numbered') = ToSet(once)
    BY <1>1, <2>1, OrdersChosen
  <2> QED
    BY <1>1, <1>2, <2>1, <2>2
<1>4. CASE ~bump /\ pin
  <2>1. /\ zorder' = OnTop(taskbar, z) /\ numbered' = TakeNumber(taskbar, once)
        /\ entered' = Enter(taskbar, here)
        /\ known' = known \cup {w} \cup {taskbar} /\ chosen' = chosen
    BY <1>4 DEF Raise
  <2>2. taskbar \in Window
    BY <1>4
  <2> HIDE DEF once, here, z
  <2>3. Orders(numbered', entered', chosen') /\ ToSet(numbered') = ToSet(once) \cup {taskbar}
    BY <1>1, <2>1, <2>2, OrdersTaken
  <2>4. zorder' \in Seq(Window) /\ IsInjective(zorder') /\ ToSet(zorder') = ToSet(z) \cup {taskbar}
    BY <1>2, <2>1, <2>2, PutOnTop
  <2> QED
    BY <1>1, <1>2, <2>1, <2>2, <2>3, <2>4
<1>5. CASE ~bump /\ ~pin
  <2>1. /\ zorder' = z /\ numbered' = once /\ entered' = here
        /\ known' = known \cup {w} /\ chosen' = chosen
    BY <1>5 DEF Raise
  <2> HIDE DEF once, here, z
  <2> QED
    BY <1>1, <1>2, <2>1
<1> QED
  BY <1>3, <1>4, <1>5

LEMMA DestroyedKeepsTables ==
  ASSUME TableInv, NEW t \in Thread, NEW w \in Window, Destroyed(t, w)
  PROVE  TableInv'
<1> USE DEF TableInv, OrderInv, ZOrderInv
<1>1. /\ mutex = None /\ known' = known \ {w} /\ chosen' = chosen \ {w}
      /\ numbered' = RemoveFirst(numbered, w) /\ entered' = RemoveFirst(entered, w)
  BY DEF Destroyed
<1>2. Orders(numbered', entered', chosen') /\ ToSet(numbered') = ToSet(numbered) \ {w}
  BY <1>1, OrdersDropped
<1>3. CASE grab = w
  <2>1. mutex' # None /\ zorder' = zorder
    BY <1>3, CompositorAssumption DEF Destroyed
  <2> QED
    BY <1>1, <1>2, <2>1
<1>4. CASE grab # w
  <2>1. mutex' = None /\ zorder' = RemoveFirst(zorder, w)
    BY <1>4 DEF Destroyed
  <2>2. zorder' \in Seq(Window) /\ IsInjective(zorder') /\ ToSet(zorder') = ToSet(zorder) \ {w}
    BY <2>1, Removed
  <2> QED
    BY <1>1, <1>2, <2>1, <2>2
<1> QED
  BY <1>3, <1>4

LEMMA CommitKeepsTables ==
  ASSUME TableInv, NEW w \in Window, NEW to, NEW large, Commit(w, to, large)
  PROVE  TableInv'
<1> USE DEF TableInv, OrderInv, ZOrderInv
<1>1. mutex = None /\ mutex' = mutex /\ known' = known \cup {w} /\ chosen' = chosen
  BY DEF Commit, Set, OnLoop, Free
<1>2. CASE w # root /\ w \notin ToSet(zorder)
  <2>1. zorder' = Append(zorder, w) /\ numbered' = TakeNumber(w, numbered) /\ entered' = Enter(w, entered)
    BY <1>2 DEF Commit
  <2>2. Orders(numbered', entered', chosen') /\ ToSet(numbered') = ToSet(numbered) \cup {w}
    BY <1>1, <2>1, OrdersTaken
  <2>3. zorder' \in Seq(Window) /\ IsInjective(zorder') /\ ToSet(zorder') = ToSet(zorder) \cup {w}
    BY <1>2, <2>1, Appended
  <2> QED
    BY <1>1, <2>1, <2>2, <2>3
<1>3. CASE ~(w # root /\ w \notin ToSet(zorder))
  <2>1. UNCHANGED <<zorder, numbered, entered>>
    BY <1>3 DEF Commit
  <2> QED
    BY <1>1, <2>1
<1> QED
  BY <1>2, <1>3

\* A request of several sections is about a window.
CallsHaveWindows == \A t \in Thread : pc[t].at # "idle" => pc[t].of \in Window

\* The steps that leave the orders alone: at most an entry is added.
EntryStep ==
  /\ UNCHANGED <<zorder, numbered, entered, chosen, mutex>>
  /\ known \subseteq known' /\ known' \subseteq Window
  /\ mutex = None \/ known' = known

LEMMA EntryKeepsTables == ASSUME TableInv, EntryStep PROVE TableInv'
BY DEF TableInv, OrderInv, ZOrderInv, EntryStep

\* Every other step is one of four kinds.
TableStep ==
  \/ EntryStep
  \/ mutex = None /\ mutex' = mutex /\ \E w \in Window, byUser \in BOOLEAN : Raise(w, byUser)
  \/ \E t \in Thread, w \in Window : Destroyed(t, w)
  \/ \E w \in Window, to \in Place, large \in BOOLEAN : Commit(w, to, large)

LEMMA NextIsTableStep == ASSUME TypeOK, CallsHaveWindows, [Next]_vars PROVE TableStep
<1> USE DEF TypeOK, CallsHaveWindows
<1> USE DEF Free, OnLoop, OnUi, Set, Background, Idle
<1>1. ASSUME NEW w \in Window, GetToplevel(w) PROVE TableStep
  BY <1>1 DEF GetToplevel, tables, TableStep, EntryStep
<1>2. ASSUME NEW w \in Window, \E to \in Place, large \in BOOLEAN : Commit(w, to, large) PROVE TableStep
  BY <1>2 DEF TableStep
<1>3. ASSUME NEW w \in Window, StartGrab(w) PROVE TableStep
  BY <1>3 DEF StartGrab, tables, TableStep, EntryStep
<1>4. ASSUME NEW w \in Window, SetMinimized(w) PROVE TableStep
  BY <1>4 DEF SetMinimized, TableStep, EntryStep
<1>5. ASSUME NEW w \in Window, SetMaximized(w) PROVE TableStep
  BY <1>5 DEF SetMaximized, TableStep, EntryStep
<1>6. ASSUME NEW w \in Window, SetFullscreen(w) PROVE TableStep
  BY <1>6 DEF SetFullscreen, TableStep, EntryStep
<1>24. CASE LookFullscreen
  BY <1>24 DEF LookFullscreen, tables, TableStep, EntryStep
<1>25. CASE Fill \/ Leave
  <2>1. pc["loop"].of \in Window
    BY <1>25 DEF Fill, Leave, Thread
  <2> QED
    BY <1>25, <2>1 DEF Fill, Leave, TableStep, EntryStep
<1>7. ASSUME NEW w \in Window, UnsetFullscreen(w) PROVE TableStep
  BY <1>7 DEF UnsetFullscreen, tables, TableStep, EntryStep
<1>8. ASSUME NEW w \in Window, DestroyRole(w) \/ DestroySurface(w) PROVE TableStep
  BY <1>8 DEF DestroyRole, DestroySurface, TableStep, Thread
<1>9. ASSUME NEW w \in Window, LoseSurface(w) PROVE TableStep
  BY <1>9 DEF LoseSurface, tables, TableStep, EntryStep
<1>10. ASSUME NEW w \in Window, NEW byUser \in BOOLEAN, RaiseByUser(w, byUser) PROVE TableStep
  BY <1>10 DEF RaiseByUser, TableStep
<1>11. ASSUME NEW w \in Window, RestoreByUser(w) PROVE TableStep
  BY <1>11 DEF RestoreByUser, TableStep, EntryStep
<1>12. ASSUME NEW w \in Window, KillProgram(w) \/ TakeDown(w) PROVE TableStep
  BY <1>12 DEF KillProgram, TakeDown, TableStep, Thread
<1>13. CASE RegisterTaskbar
  BY <1>13 DEF RegisterTaskbar, tables, TableStep, EntryStep
<1>14. CASE RaiseFullscreen
  <2>1. pc["loop"].of \in Window /\ mutex = None /\ mutex' = mutex /\ Raise(pc["loop"].of, FALSE)
    BY <1>14 DEF RaiseFullscreen, Thread
  <2> QED
    BY <2>1 DEF TableStep
<1>15. CASE EndGrab
  BY <1>15 DEF EndGrab, tables, TableStep, EntryStep
<1>16. CASE Promote
  BY <1>16 DEF Promote, TableStep, EntryStep
<1>17. ASSUME NEW titled \in BOOLEAN, CheckRoot(titled) PROVE TableStep
  <2>1. /\ UNCHANGED <<zorder, numbered, entered, chosen, mutex>> /\ mutex = None
        /\ \E w \in Window : known' \in {known, known \cup {w}}
    BY <1>17 DEF CheckRoot, Thread
  <2> QED
    BY <2>1 DEF TableStep, EntryStep
<1>18. ASSUME NEW origin \in BOOLEAN, GrabMotion(origin) PROVE TableStep
  BY <1>18 DEF GrabMotion, TableStep, EntryStep
<1>19. ASSUME NEW t \in Thread, ResetSession(t) PROVE TableStep
  BY <1>19 DEF ResetSession, tables, TableStep, EntryStep
<1>20. ASSUME NEW on \in BOOLEAN, SetRecognition(on) PROVE TableStep
  BY <1>20 DEF SetRecognition, tables, TableStep, EntryStep
<1>21. CASE Stop
  BY <1>21 DEF Stop, tables, TableStep, EntryStep
<1>22. CASE Restart
  BY <1>22 DEF Restart, tables, TableStep, EntryStep
<1>23. CASE UNCHANGED vars
  BY <1>23 DEF vars, tables, TableStep, EntryStep
<1> QED
  BY <1>1, <1>2, <1>3, <1>4, <1>5, <1>6, <1>7, <1>8, <1>9, <1>10, <1>11, <1>12, <1>13, <1>14, <1>15,
     <1>16, <1>17, <1>18, <1>19, <1>20, <1>21, <1>22, <1>23, <1>24, <1>25 DEF Next

\* The orders and the z-order stay sound, whatever is taken, chosen or dropped.
LEMMA TableStepKeeps ==
  ASSUME TableInv, TypeOK, CallsHaveWindows, [Next]_vars
  PROVE  TableInv'
<1>1. CASE EntryStep
  BY <1>1, EntryKeepsTables
<1>2. ASSUME mutex = None, mutex' = mutex, NEW w \in Window, NEW byUser \in BOOLEAN, Raise(w, byUser)
      PROVE  TableInv'
  BY <1>2, RaiseKeepsTables DEF TypeOK
<1>3. ASSUME NEW t \in Thread, NEW w \in Window, Destroyed(t, w) PROVE TableInv'
  BY <1>3, DestroyedKeepsTables
<1>4. ASSUME NEW w \in Window, NEW to \in Place, NEW large \in BOOLEAN, Commit(w, to, large) PROVE TableInv'
  BY <1>4, CommitKeepsTables
<1> QED
  BY <1>1, <1>2, <1>3, <1>4, NextIsTableStep DEF TableStep

(***************************************************************************)
(* Types, step by step.                                                    *)
(***************************************************************************)
Entry == [shown : BOOLEAN, minimized : BOOLEAN, background : BOOLEAN, fullscreen : BOOLEAN, astray : BOOLEAN]
Calls == [at : {"idle", "rooting", "looking", "filling", "raising", "leaving", "locking", "resetting"},
          of : Window \cup {None}]

\* The types of all that is in no order.
PlainTypes ==
  /\ surface \in [Window -> {"unborn", "live", "bare", "again", "killed", "gone"}]
  /\ kind \in [Window -> Kind]
  /\ former \subseteq Window /\ todo \subseteq Window
  /\ win \in [Window -> Entry]
  /\ mutex \in Thread \cup {None}
  /\ {root, pending, taskbar, grab} \subseteq Window \cup {None}
  /\ recognition \in BOOLEAN
  /\ session \in {"up", "stopping"}
  /\ pc \in [Thread -> Calls]

LEMMA DestroyedTypes ==
  ASSUME PlainTypes, CallsHaveWindows, NEW t \in Thread, NEW w \in Window, Destroyed(t, w), pc[t] = Idle
  PROVE  /\ win' \in [Window -> Entry] /\ former' \subseteq Window /\ mutex' \in Thread \cup {None}
         /\ {root', pending', taskbar', grab'} \subseteq Window \cup {None} /\ recognition' = recognition
         /\ pc' \in [Thread -> Calls] /\ CallsHaveWindows'
         /\ \A v \in Window : win'[v] = IF v = w THEN Fresh ELSE win[v]
<1> USE DEF PlainTypes, CallsHaveWindows
<1>1. Fresh \in Entry
  BY DEF Fresh, Entry
<1>2. win' = [win EXCEPT ![w] = Fresh]
  BY DEF Destroyed
<1>3. win' \in [Window -> Entry] /\ \A v \in Window : win'[v] = IF v = w THEN Fresh ELSE win[v]
  BY <1>1, <1>2
<1>4. [at |-> "locking", of |-> w] \in Calls /\ [at |-> "resetting", of |-> w] \in Calls
  BY DEF Calls
<1>5. pc' \in {pc, [pc EXCEPT ![t] = [at |-> "locking", of |-> w]],
            [pc EXCEPT ![t] = [at |-> "resetting", of |-> w]]}
  BY DEF Destroyed
<1>6. pc' \in [Thread -> Calls] /\ CallsHaveWindows'
  BY <1>4, <1>5
<1>7. former' \subseteq Window /\ mutex' \in Thread \cup {None} /\ recognition' = recognition
      /\ {root', pending', taskbar', grab'} \subseteq Window \cup {None}
  BY DEF Destroyed
<1> QED
  BY <1>3, <1>6, <1>7

LEMMA SetTypes ==
  ASSUME PlainTypes, NEW w \in Window, NEW e \in Entry, win' = [win EXCEPT ![w] = e]
  PROVE  /\ win' \in [Window -> Entry]
         /\ \A v \in Window : win'[v] = IF v = w THEN e ELSE win[v]
BY DEF PlainTypes

\* A changed entry is an entry.
LEMMA EntryChanges ==
  ASSUME NEW e \in Entry, NEW a \in BOOLEAN, NEW b \in BOOLEAN, NEW c \in BOOLEAN
  PROVE  /\ [e EXCEPT !.minimized = a] \in Entry
         /\ [e EXCEPT !.background = a] \in Entry
         /\ [e EXCEPT !.astray = a] \in Entry
         /\ [e EXCEPT !.fullscreen = a, !.astray = b] \in Entry
         /\ [e EXCEPT !.shown = a, !.minimized = b, !.astray = c] \in Entry
BY DEF Entry

LEMMA EntryKept ==
  ASSUME NEW e \in Entry, NEW a \in BOOLEAN
  PROVE  /\ [e EXCEPT !.minimized = a].shown = e.shown /\ [e EXCEPT !.minimized = a].background = e.background
         /\ [e EXCEPT !.background = a].shown = e.shown /\ [e EXCEPT !.background = a].background = a
BY DEF Entry

LEMMA EntryBits ==
  ASSUME PlainTypes, NEW w \in Window
  PROVE  /\ win[w] \in Entry /\ win[w].shown \in BOOLEAN /\ win[w].minimized \in BOOLEAN
         /\ win[w].background \in BOOLEAN /\ win[w].fullscreen \in BOOLEAN /\ win[w].astray \in BOOLEAN
BY DEF PlainTypes, Entry

LEMMA CallTypes ==
  ASSUME PlainTypes, CallsHaveWindows, NEW t \in Thread,
         NEW c \in Calls, c.at # "idle" => c.of \in Window, pc' = [pc EXCEPT ![t] = c]
  PROVE  pc' \in [Thread -> Calls] /\ CallsHaveWindows'
BY DEF PlainTypes, CallsHaveWindows

LEMMA IdleType == Idle \in Calls /\ Idle.at = "idle"
BY DEF Idle, Calls

LEMMA TypeStep ==
  ASSUME PlainTypes, known \subseteq Window, CallsHaveWindows, [Next]_vars
  PROVE  PlainTypes' /\ CallsHaveWindows'
<1> USE DEF PlainTypes, CallsHaveWindows
<1>1. ASSUME NEW w \in Window, GetToplevel(w) PROVE PlainTypes' /\ CallsHaveWindows'
  BY <1>1 DEF GetToplevel, tables, roots, server
<1>2. ASSUME NEW w \in Window, NEW to \in Place, NEW large \in BOOLEAN, Commit(w, to, large)
      PROVE  PlainTypes' /\ CallsHaveWindows'
  <2> DEFINE e == [win[w] EXCEPT !.shown = TRUE, !.minimized = @ /\ ~large,
                     !.astray = IF ~win[w].shown \/ (to # "same" /\ ~(win[w].minimized /\ large))
                                THEN win[w].fullscreen /\ to = "away" ELSE @]
  <2>1. win' = [win EXCEPT ![w] = e]
    BY <1>2 DEF Commit, Set
  <2>2. e \in Entry
    BY EntryBits, EntryChanges
  <2> HIDE DEF e
  <2>3. win' \in [Window -> Entry]
    BY <2>1, <2>2, SetTypes
  <2>4. pc' = pc \/ pc' = [pc EXCEPT !["loop"] = [at |-> "rooting", of |-> w]]
    BY <1>2 DEF Commit
  <2>5. [at |-> "rooting", of |-> w] \in Calls /\ "loop" \in Thread
    BY DEF Calls, Thread
  <2>6. pc' \in [Thread -> Calls] /\ CallsHaveWindows'
    BY <2>4, <2>5, CallTypes
  <2> QED
    BY <1>2, <2>3, <2>6 DEF Commit, clients, roots, server
<1>3. ASSUME NEW w \in Window, StartGrab(w) PROVE PlainTypes' /\ CallsHaveWindows'
  BY <1>3 DEF StartGrab, clients, tables, roots, server
<1>4. ASSUME NEW w \in Window, SetMinimized(w) PROVE PlainTypes' /\ CallsHaveWindows'
  <2>1. [win[w] EXCEPT !.minimized = TRUE] \in Entry
    BY EntryBits, EntryChanges
  <2>2. win' \in [Window -> Entry]
    BY <1>4, <2>1, SetTypes DEF SetMinimized, Set
  <2> QED
    BY <1>4, <2>2 DEF SetMinimized, clients, roots, server
<1>5. ASSUME NEW w \in Window, SetMaximized(w) PROVE PlainTypes' /\ CallsHaveWindows'
  <2>1. [win[w] EXCEPT !.minimized = FALSE] \in Entry
    BY EntryBits, EntryChanges
  <2>2. win' \in [Window -> Entry]
    BY <1>5, <2>1, SetTypes DEF SetMaximized, Set
  <2> QED
    BY <1>5, <2>2 DEF SetMaximized, clients, roots, server
<1>0. ASSUME NEW w \in Window, NEW at \in {"looking", "filling", "raising", "leaving"}, Continue(at, w)
      PROVE  pc' \in [Thread -> Calls] /\ CallsHaveWindows'
  <2>1. [at |-> at, of |-> w] \in Calls /\ [at |-> at, of |-> w].of \in Window /\ "loop" \in Thread
    BY DEF Calls, Thread
  <2> QED
    BY <1>0, <2>1, CallTypes DEF Continue
<1>6. ASSUME NEW w \in Window, SetFullscreen(w) PROVE PlainTypes' /\ CallsHaveWindows'
  <2>1. [win[w] EXCEPT !.minimized = FALSE] \in Entry
    BY EntryBits, EntryChanges
  <2>2. win' = [win EXCEPT ![w] = [win[w] EXCEPT !.minimized = FALSE]]
    BY <1>6 DEF SetFullscreen
  <2>3. win' \in [Window -> Entry]
    BY <2>1, <2>2, SetTypes
  <2>4. pc' \in [Thread -> Calls] /\ CallsHaveWindows'
    BY <1>0, <1>6 DEF SetFullscreen
  <2> QED
    BY <1>6, <2>3, <2>4 DEF SetFullscreen, clients, roots, server
<1>7. ASSUME NEW w \in Window, UnsetFullscreen(w) PROVE PlainTypes' /\ CallsHaveWindows'
  <2>1. pc' \in [Thread -> Calls] /\ CallsHaveWindows'
    BY <1>0, <1>7 DEF UnsetFullscreen
  <2> QED
    BY <1>7, <2>1 DEF UnsetFullscreen, clients, tables, roots, server
<1>24. CASE LookFullscreen
  <2>1. pc["loop"].of \in Window /\ "loop" \in Thread
    BY <1>24 DEF LookFullscreen, Thread
  <2>2. pc' \in [Thread -> Calls] /\ CallsHaveWindows'
    BY <1>0, <1>24, <2>1, CallTypes, IdleType DEF LookFullscreen
  <2> QED
    BY <1>24, <2>2 DEF LookFullscreen, clients, tables, roots, server
<1>25. CASE Fill \/ Leave
  <2>1. PICK w \in Window : w = pc["loop"].of
    BY <1>25 DEF Fill, Leave, Thread
  <2>2. ASSUME NEW on \in BOOLEAN PROVE [win[w] EXCEPT !.fullscreen = on, !.astray = FALSE] \in Entry
    BY EntryBits, EntryChanges
  <2>3. \E on \in BOOLEAN : win' = [win EXCEPT ![w] = [win[w] EXCEPT !.fullscreen = on, !.astray = FALSE]]
    BY <1>25, <2>1 DEF Fill, Leave, Set
  <2>4. win' \in [Window -> Entry]
    BY <2>2, <2>3, SetTypes
  <2>5. pc' \in [Thread -> Calls] /\ CallsHaveWindows'
    BY <1>0, <1>25, <2>1, CallTypes, IdleType DEF Fill, Leave, Thread
  <2> QED
    BY <1>25, <2>4, <2>5 DEF Fill, Leave, clients, roots, server
<1>8. ASSUME NEW w \in Window, DestroyRole(w) \/ DestroySurface(w) PROVE PlainTypes' /\ CallsHaveWindows'
  <2>1. "loop" \in Thread /\ Destroyed("loop", w) /\ pc["loop"] = Idle
    BY <1>8 DEF DestroyRole, DestroySurface, OnLoop, Free, Thread
  <2> QED
    BY <1>8, <2>1, DestroyedTypes DEF DestroyRole, DestroySurface, server
<1>9. ASSUME NEW w \in Window, LoseSurface(w) PROVE PlainTypes' /\ CallsHaveWindows'
  BY <1>9 DEF LoseSurface, tables, roots, server
<1>10. ASSUME NEW w \in Window, NEW byUser \in BOOLEAN, RaiseByUser(w, byUser) PROVE PlainTypes' /\ CallsHaveWindows'
  BY <1>10 DEF RaiseByUser, clients, roots, server
<1>11. ASSUME NEW w \in Window, RestoreByUser(w) PROVE PlainTypes' /\ CallsHaveWindows'
  <2>1. [win[w] EXCEPT !.minimized = FALSE] \in Entry
    BY EntryBits, EntryChanges
  <2>2. win' \in [Window -> Entry]
    BY <1>11, <2>1, SetTypes DEF RestoreByUser, Set
  <2> QED
    BY <1>11, <2>2 DEF RestoreByUser, clients, roots, server
<1>12. ASSUME NEW w \in Window, KillProgram(w) \/ TakeDown(w) PROVE PlainTypes' /\ CallsHaveWindows'
  <2>1. "ui" \in Thread /\ Destroyed("ui", w) /\ pc["ui"] = Idle
    BY <1>12 DEF KillProgram, TakeDown, OnUi, Free, Thread
  <2> QED
    BY <1>12, <2>1, DestroyedTypes DEF KillProgram, TakeDown, clients, server
<1>13. CASE RegisterTaskbar
  <2>1. "loop" \in Thread /\ pc["loop"].of \in Window
    BY <1>13 DEF RegisterTaskbar, Thread
  <2>2. pc' \in [Thread -> Calls] /\ CallsHaveWindows'
    BY <1>13, <2>1, CallTypes, IdleType DEF RegisterTaskbar
  <2> QED
    BY <1>13, <2>1, <2>2 DEF RegisterTaskbar, clients, tables, server
<1>14. CASE RaiseFullscreen
  <2>1. pc' \in [Thread -> Calls] /\ CallsHaveWindows'
    BY <1>14, CallTypes, IdleType DEF RaiseFullscreen, Thread
  <2> QED
    BY <1>14, <2>1 DEF RaiseFullscreen, clients, roots, server
<1>15. CASE EndGrab
  BY <1>15 DEF EndGrab, clients, tables, roots, server
<1>16. CASE Promote
  <2>1. ASSUME NEW v \in Window
        PROVE  /\ [win[v] EXCEPT !.background = FALSE] \in Entry
               /\ [win[v] EXCEPT !.background = TRUE] \in Entry
    BY EntryBits, EntryChanges
  <2>2. win' \in [Window -> Entry]
    <3>1. CASE win' = win
      BY <3>1
    <3>2. CASE win' # win
      <4>1. win' = [v \in Window |-> IF v = pending THEN [win[v] EXCEPT !.background = FALSE]
                                     ELSE IF v \in {root} \ {None} THEN [win[v] EXCEPT !.background = TRUE]
                                     ELSE win[v]]
        BY <1>16, <3>2 DEF Promote
      <4> QED
        BY <2>1, <4>1
    <3> QED
      BY <3>1, <3>2
  <2>3. pending \in Window /\ former' \subseteq Window /\ {root', pending'} \subseteq Window \cup {None}
    BY <1>16 DEF Promote
  <2> QED
    BY <1>16, <2>2, <2>3 DEF Promote, clients, server
<1>17. ASSUME NEW titled \in BOOLEAN, CheckRoot(titled) PROVE PlainTypes' /\ CallsHaveWindows'
  <2>1. "loop" \in Thread /\ pc["loop"].of \in Window
    BY <1>17 DEF CheckRoot, Thread
  <2>2. pc' \in [Thread -> Calls] /\ CallsHaveWindows'
    BY <1>17, <2>1, CallTypes, IdleType DEF CheckRoot
  <2>3. \A v \in Window, on \in BOOLEAN : [win[v] EXCEPT !.background = on] \in Entry
    BY EntryBits, EntryChanges
  <2>4. win' = win \/ \E v \in Window, on \in BOOLEAN :
                         win' = [win EXCEPT ![v] = [win[v] EXCEPT !.background = on]]
    BY <1>17, <2>1 DEF CheckRoot, Background, Set
  <2>5. win' \in [Window -> Entry]
    BY <2>3, <2>4
  <2>6. former' \subseteq Window /\ {root', pending'} \subseteq Window \cup {None}
    BY <1>17, <2>1 DEF CheckRoot
  <2> QED
    BY <1>17, <2>2, <2>5, <2>6 DEF CheckRoot, clients, server
<1>18. ASSUME NEW origin \in BOOLEAN, GrabMotion(origin) PROVE PlainTypes' /\ CallsHaveWindows'
  <2>1. CASE grab \in Window
    <3>1. [win[grab] EXCEPT !.astray = win[grab].fullscreen /\ ~origin] \in Entry
      BY <2>1, EntryBits, EntryChanges
    <3>2. win' \in [Window -> Entry]
      BY <1>18, <2>1, <3>1, SetTypes DEF GrabMotion, Set
    <3> QED
      BY <1>18, <3>2 DEF GrabMotion, clients, roots, server
  <2>2. CASE grab \notin Window
    <3>1. win' = win
      BY <1>18, <2>2 DEF GrabMotion, Set
    <3> QED
      BY <1>18, <3>1 DEF GrabMotion, clients, roots, server
  <2> QED
    BY <2>1, <2>2
<1>19. ASSUME NEW t \in Thread, ResetSession(t) PROVE PlainTypes' /\ CallsHaveWindows'
  <2>1. pc' \in [Thread -> Calls] /\ CallsHaveWindows'
    BY <1>19, CallTypes, IdleType DEF ResetSession
  <2> QED
    BY <1>19, <2>1 DEF ResetSession, clients, tables, roots, server
<1>20. ASSUME NEW on \in BOOLEAN, SetRecognition(on) PROVE PlainTypes' /\ CallsHaveWindows'
  BY <1>20 DEF SetRecognition, clients, tables, server
<1>21. CASE Stop
  BY <1>21 DEF Stop, clients, tables, roots
<1>22. CASE Restart
  BY <1>22 DEF Restart, tables, roots
<1>23. CASE UNCHANGED vars
  BY <1>23 DEF vars, clients, tables, roots, server
<1> QED
  BY <1>1, <1>2, <1>3, <1>4, <1>5, <1>6, <1>7, <1>8, <1>9, <1>10, <1>11, <1>12, <1>13, <1>14, <1>15,
     <1>16, <1>17, <1>18, <1>19, <1>20, <1>21, <1>22, <1>23, <1>24, <1>25 DEF Next

(***************************************************************************)
(* The desktop.  A window that is unborn is in no table.  While the server *)
(* is up a window of a living client that is, was or is about to become    *)
(* the desktop has been shown; one about to become it is neither the root  *)
(* nor in waiting, and a window that has not been shown is not hidden      *)
(* either.  A surface that lost its role can still commit, and is no       *)
(* exception.                                                              *)
(***************************************************************************)
Rooting(w) == pc["loop"].at = "rooting" /\ pc["loop"].of = w
Desktops == {root, pending} \cup former

Mapped(w) == surface[w] \in {"live", "bare", "again"}

Unmapped(w) ==
  surface[w] = "unborn" =>
    ~win[w].shown /\ ~win[w].background /\ w \notin Desktops /\ ~Rooting(w)

InSight(w) ==
  session = "up" /\ Mapped(w) =>
    /\ w \in Desktops \/ Rooting(w) => w \in known /\ win[w].shown
    /\ Rooting(w) /\ kind[w] = "shell" => w \notin Desktops /\ ~win[w].background
    /\ win[w].background => win[w].shown
    /\ w \in former => win[w].background
    /\ w \in {root, pending} => ~win[w].background
    /\ ~(w = root /\ w = pending)

DesktopInv == \A w \in Window : Unmapped(w) /\ InSight(w)

\* What a step leaves alone: the window v, and its part in the desktop.
Untouched(v) ==
  /\ surface'[v] = surface[v] /\ kind' = kind /\ session' = session
  /\ win'[v].shown = win[v].shown /\ win'[v].background = win[v].background
  /\ v \in known => v \in known'
  /\ (v = root' => v = root) /\ (v = pending' => v = pending) /\ (v \in former' => v \in former)
  /\ Rooting(v)' => Rooting(v)

LEMMA UntouchedStays ==
  ASSUME NEW v \in Window, Unmapped(v), InSight(v), Untouched(v)
  PROVE  Unmapped(v)' /\ InSight(v)'
BY DEF Unmapped, InSight, Untouched, Desktops, Mapped

\* A window that is taken down leaves the desktop, and the others as they are.
LEMMA DestroyedDesktop ==
  ASSUME PlainTypes, CallsHaveWindows, NEW t \in Thread, NEW w \in Window, Destroyed(t, w), pc[t] = Idle
  PROVE  /\ \A v \in Window \ {w} :
              surface'[v] = surface[v] /\ kind' = kind /\ session' = session => Untouched(v)
         /\ ~win'[w].shown /\ ~win'[w].background /\ w \notin Desktops'
         /\ Rooting(w)' => Rooting(w) /\ t # "loop"
<1>1. \A v \in Window : win'[v] = IF v = w THEN Fresh ELSE win[v]
  BY DestroyedTypes
<1>2. pc' \in {pc, [pc EXCEPT ![t] = [at |-> "locking", of |-> w]],
            [pc EXCEPT ![t] = [at |-> "resetting", of |-> w]]}
  BY DEF Destroyed
<1>3. \A v \in Window : Rooting(v)' => Rooting(v) /\ t # "loop"
  BY <1>2 DEF Rooting, Idle, Thread, PlainTypes
<1>4. /\ known' = known \ {w} /\ former' = former \ {w}
      /\ root' = (IF root = w THEN None ELSE root) /\ pending' = (IF pending = w THEN None ELSE pending)
  BY DEF Destroyed
<1>5. w \notin Desktops'
  BY <1>4, CompositorAssumption DEF Desktops
<1>6. ASSUME NEW v \in Window \ {w}, surface'[v] = surface[v], kind' = kind, session' = session
      PROVE  Untouched(v)
  BY <1>1, <1>3, <1>4, <1>6, CompositorAssumption DEF Untouched
<1> QED
  BY <1>1, <1>3, <1>5, <1>6 DEF Fresh

\* A step that keeps the windows' clients, and hides and shows nothing.
LEMMA QuietStep ==
  ASSUME DesktopInv, NEW v \in Window, UNCHANGED <<surface, kind, session, root, pending, former>>,
         win'[v].shown = win[v].shown, win'[v].background = win[v].background,
         v \in known => v \in known', Rooting(v)' => Rooting(v)
  PROVE  Unmapped(v)' /\ InSight(v)'
BY UntouchedStays DEF DesktopInv, Untouched

\* A window is minimized, restored, moved or made full screen.
LEMMA ChangedStep ==
  ASSUME PlainTypes, DesktopInv, NEW w \in Window, NEW e \in Entry, Set(w, e),
         e.shown = win[w].shown, e.background = win[w].background,
         UNCHANGED <<surface, kind, session, root, pending, former>>,
         \A v \in Window : Rooting(v)' => Rooting(v)
  PROVE  DesktopInv'
<1>1. \A v \in Window : win'[v] = IF v = w THEN e ELSE win[v]
  BY SetTypes DEF Set
<1>2. known \subseteq known'
  BY DEF Set
<1>3. ASSUME NEW v \in Window PROVE Unmapped(v)' /\ InSight(v)'
  BY <1>1, <1>2, QuietStep
<1> QED
  BY <1>3 DEF DesktopInv

\* The first frame of a shell is checked next, and it is no desktop yet.
LEMMA CommitDesktop ==
  ASSUME PlainTypes, DesktopInv, NEW w \in Window, NEW to \in Place, NEW large \in BOOLEAN, Commit(w, to, large)
  PROVE  DesktopInv'
<1> USE DEF PlainTypes
<1> DEFINE e == [win[w] EXCEPT !.shown = TRUE, !.minimized = @ /\ ~large,
                   !.astray = IF ~win[w].shown \/ (to # "same" /\ ~(win[w].minimized /\ large))
                              THEN win[w].fullscreen /\ to = "away" ELSE @]
<1>1. win' = [win EXCEPT ![w] = e] /\ known' = known \cup {w}
  BY DEF Commit, Set
<1>2. e \in Entry /\ e.shown /\ e.background = win[w].background
  <2>1. e \in Entry
    BY EntryBits, EntryChanges
  <2>2. e.shown /\ e.background = win[w].background
    BY EntryBits DEF Entry
  <2> QED
    BY <2>1, <2>2
<1> HIDE DEF e
<1>3. \A v \in Window : win'[v] = IF v = w THEN e ELSE win[v]
  BY <1>1, <1>2, SetTypes
<1>4. UNCHANGED <<surface, kind, session, root, pending, former>> /\ pc["loop"] = Idle
  BY DEF Commit, clients, roots, server, OnLoop, Free
<1>5. /\ pc' = pc \/ pc' = [pc EXCEPT !["loop"] = [at |-> "rooting", of |-> w]]
      /\ pc' # pc => kind[w] = "bar" \/ (kind[w] = "shell" /\ ~win[w].shown)
  BY DEF Commit
<1>6. \A v \in Window : Rooting(v)' => v = w /\ (kind[w] = "bar" \/ (kind[w] = "shell" /\ ~win[w].shown))
  BY <1>4, <1>5 DEF Rooting, Idle, Thread
<1>7. ASSUME NEW v \in Window \ {w} PROVE Unmapped(v)' /\ InSight(v)'
  BY <1>1, <1>3, <1>4, <1>6, QuietStep
<1>8. surface[w] # "unborn"
  BY DEF Commit, Asks
<1>9. Unmapped(w)'
  BY <1>4, <1>8 DEF Unmapped
<1>10. InSight(w)'
  <2> SUFFICES ASSUME session' = "up", Mapped(w)' PROVE InSight(w)'
    BY DEF InSight
  <2>1. session = "up" /\ Mapped(w)
    BY <1>4 DEF Mapped
  <2>2. Desktops' = Desktops /\ kind'[w] = kind[w] /\ win'[w].shown /\ win'[w].background = win[w].background
    BY <1>2, <1>3, <1>4 DEF Desktops
  <2>3. kind[w] = "shell" /\ Rooting(w)' => ~win[w].shown
    BY <1>6
  <2> QED
    BY <1>1, <1>4, <2>1, <2>2, <2>3 DEF InSight, DesktopInv, Desktops
<1> QED
  BY <1>7, <1>9, <1>10 DEF DesktopInv

\* The shell in waiting takes the place of the root, which is hidden.
LEMMA PromoteDesktop == ASSUME PlainTypes, DesktopInv, Promote PROVE DesktopInv'
<1> USE DEF PlainTypes
<1>0. PICK w \in Window : w = pending
  BY DEF Promote
<1> DEFINE usable == w \in known /\ win[w].shown /\ root # w
           old == {root} \ {None}
<1>1. UNCHANGED <<surface, kind, session, pc>> /\ pending' = None
  BY DEF Promote, clients, server
<1>2. \A v \in Window : /\ Rooting(v)' <=> Rooting(v)
                        /\ Mapped(v)' <=> Mapped(v)
  BY <1>1 DEF Rooting, Mapped
<1>3. CASE ~usable
  <2>1. UNCHANGED <<known, win, root, former>>
    BY <1>0, <1>3 DEF Promote
  <2>2. ASSUME NEW v \in Window PROVE Untouched(v)
    BY <1>1, <1>2, <2>1, CompositorAssumption DEF Untouched
  <2> QED
    BY <2>2, UntouchedStays DEF DesktopInv
<1>4. CASE usable
  <2>1. known' = known \cup old /\ root' = w /\ former' = (former \cup old) \ {w}
    BY <1>0, <1>4 DEF Promote
  <2>2. win' = [v \in Window |-> IF v = w THEN [win[v] EXCEPT !.background = FALSE]
                                 ELSE IF v \in old THEN [win[v] EXCEPT !.background = TRUE] ELSE win[v]]
    BY <1>0, <1>4 DEF Promote
  <2>3. ASSUME NEW v \in Window
        PROVE  /\ win'[v].shown = win[v].shown
               /\ win'[v].background = IF v = w THEN FALSE ELSE IF v \in old THEN TRUE ELSE win[v].background
    BY <2>2, EntryBits DEF Entry
  <2> HIDE DEF old
  <2>4. ASSUME NEW v \in Window, v # w, v \notin old PROVE Unmapped(v)' /\ InSight(v)'
    <3>1. Untouched(v)
      BY <1>1, <1>2, <2>1, <2>3, <2>4, CompositorAssumption DEF Untouched
    <3> QED
      BY <3>1, UntouchedStays DEF DesktopInv
  <2>5. Unmapped(w)' /\ InSight(w)'
    <3>1. Unmapped(w) /\ InSight(w) /\ w \in Desktops
      BY <1>0 DEF DesktopInv, Desktops
    <3>2. /\ win'[w].shown = win[w].shown /\ ~win'[w].background /\ w \in known'
          /\ w = root' /\ w # pending' /\ w \notin former'
      BY <1>1, <1>4, <2>1, <2>3, CompositorAssumption
    <3>3. surface'[w] # "unborn"
      BY <1>1, <3>1 DEF Unmapped
    <3> QED
      BY <1>1, <1>2, <1>4, <3>1, <3>2, <3>3 DEF Unmapped, InSight
  <2>6. ASSUME NEW r \in Window, r \in old PROVE Unmapped(r)' /\ InSight(r)'
    <3>1. r = root /\ r # w
      BY <1>4, <2>6 DEF old
    <3>2. Unmapped(r) /\ InSight(r) /\ r \in Desktops
      BY <3>1 DEF DesktopInv, Desktops
    <3>3. /\ r \notin {root', pending'} /\ r \in former' /\ r \in known'
          /\ win'[r].shown = win[r].shown /\ win'[r].background
      BY <1>1, <2>1, <2>3, <2>6, <3>1, CompositorAssumption
    <3>4. surface'[r] # "unborn"
      BY <1>1, <3>2 DEF Unmapped
    <3> QED
      BY <1>1, <1>2, <3>2, <3>3, <3>4 DEF Unmapped, InSight
  <2> QED
    BY <2>4, <2>5, <2>6 DEF DesktopInv
<1> QED
  BY <1>3, <1>4

\* A checked shell is hidden, kept waiting, or the root, which hides the one before.
LEMMA CheckRootDesktop ==
  ASSUME PlainTypes, CallsHaveWindows, DesktopInv, NEW titled \in BOOLEAN, CheckRoot(titled)
  PROVE  DesktopInv'
<1> USE DEF PlainTypes
<1>0. PICK w \in Window : w = pc["loop"].of
  BY DEF CheckRoot, CallsHaveWindows, Thread
<1>1. UNCHANGED <<surface, kind, session, mutex>> /\ pc' = [pc EXCEPT !["loop"] = Idle]
  BY DEF CheckRoot, clients, server
<1>2. \A v \in Window : /\ ~Rooting(v)'
                        /\ Mapped(v)' <=> Mapped(v)
  BY <1>1 DEF Rooting, Mapped, Idle, Thread
<1>3. Unmapped(w) /\ InSight(w) /\ Rooting(w) /\ kind[w] = "shell" /\ kind'[w] = "shell"
  BY <1>0, <1>1 DEF CheckRoot, DesktopInv, Rooting
<1>4. surface'[w] # "unborn"
  BY <1>1, <1>3 DEF Unmapped
\* Only the window itself and the root before are touched.
<1>5. ASSUME NEW v \in Window, v # w, win'[v] = win[v], known \subseteq known', root' \in {root, w},
             pending' \in {pending, w, None}, former' \subseteq former
      PROVE  Unmapped(v)' /\ InSight(v)'
  <2>1. Untouched(v)
    BY <1>1, <1>2, <1>5, CompositorAssumption DEF Untouched
  <2> QED
    BY <2>1, UntouchedStays DEF DesktopInv
\* One window is shown or hidden.
<1>6. ASSUME NEW x \in Window, NEW on \in BOOLEAN, Background(x, on)
      PROVE  /\ known' = known \cup {x} /\ \A v \in Window \ {x} : win'[v] = win[v]
             /\ win'[x].shown = win[x].shown /\ win'[x].background = on
  <2>0. PICK e \in Entry : e = win[x]
    BY EntryBits
  <2>1. [e EXCEPT !.background = on] \in Entry
    BY EntryChanges
  <2>2. [e EXCEPT !.background = on].shown = e.shown /\ [e EXCEPT !.background = on].background = on
    BY EntryKept
  <2>3. known' = known \cup {x} /\ win' = [win EXCEPT ![x] = [e EXCEPT !.background = on]]
    BY <1>6, <2>0 DEF Background, Set
  <2>4. \A v \in Window : win'[v] = IF v = x THEN [e EXCEPT !.background = on] ELSE win[v]
    BY <2>1, <2>3, SetTypes
  <2> QED
    BY <2>0, <2>2, <2>3, <2>4
<1>7. CASE ~titled \/ (recognition /\ root = None /\ pending \notin {None, w})
  <2>1. Background(w, TRUE) /\ UNCHANGED <<root, pending, former>>
    BY <1>0, <1>7 DEF CheckRoot
  <2>2. known' = known \cup {w} /\ (\A v \in Window \ {w} : win'[v] = win[v]) /\ win'[w].shown = win[w].shown
    BY <1>6, <2>1
  <2>3. ASSUME NEW v \in Window, v # w PROVE Unmapped(v)' /\ InSight(v)'
    BY <1>5, <2>1, <2>2, <2>3
  <2>4. Unmapped(w)' /\ InSight(w)'
    BY <1>1, <1>2, <1>3, <1>4, <2>1, <2>2 DEF Unmapped, InSight, Desktops
  <2> QED
    BY <2>3, <2>4 DEF DesktopInv
<1>8. CASE titled /\ ~recognition
  <2>1. Background(w, FALSE) /\ pending' = w /\ UNCHANGED <<root, former>>
    BY <1>0, <1>8 DEF CheckRoot
  <2>2. /\ known' = known \cup {w} /\ \A v \in Window \ {w} : win'[v] = win[v]
        /\ win'[w].shown = win[w].shown /\ ~win'[w].background
    BY <1>6, <2>1
  <2>3. ASSUME NEW v \in Window, v # w PROVE Unmapped(v)' /\ InSight(v)'
    BY <1>5, <2>1, <2>2, <2>3
  <2>4. Unmapped(w)' /\ InSight(w)'
    BY <1>1, <1>2, <1>3, <1>4, <2>1, <2>2 DEF Unmapped, InSight, Desktops
  <2> QED
    BY <2>3, <2>4 DEF DesktopInv
<1>9. CASE titled /\ recognition /\ root = None /\ pending \in {None, w}
  <2>1. root' = w /\ pending' = None /\ former' = former \ {w} /\ UNCHANGED <<known, win>>
    BY <1>0, <1>9 DEF CheckRoot
  <2>3. ASSUME NEW v \in Window, v # w PROVE Unmapped(v)' /\ InSight(v)'
    BY <1>5, <2>1, <2>3
  <2>4. Unmapped(w)' /\ InSight(w)'
    BY <1>1, <1>2, <1>3, <1>4, <2>1, CompositorAssumption DEF Unmapped, InSight, Desktops
  <2> QED
    BY <2>3, <2>4 DEF DesktopInv
<1>10. CASE titled /\ recognition /\ root # None
  <2>0. PICK r \in Window : r = root
    BY <1>10
  <2>1. Background(r, TRUE) /\ root' = w /\ former' = (former \cup {r}) \ {w} /\ pending' = pending
    BY <1>0, <1>10, <2>0 DEF CheckRoot
  <2>2. /\ known' = known \cup {r} /\ \A v \in Window \ {r} : win'[v] = win[v]
        /\ win'[r].shown = win[r].shown /\ win'[r].background
    BY <1>6, <2>1
  <2>3. ASSUME NEW v \in Window, v # w, v # r PROVE Unmapped(v)' /\ InSight(v)'
    <3>1. Untouched(v)
      BY <1>1, <1>2, <2>0, <2>1, <2>2, <2>3 DEF Untouched
    <3> QED
      BY <3>1, UntouchedStays DEF DesktopInv
  <2>4. Unmapped(w)'
    BY <1>4 DEF Unmapped
  <2>5. InSight(w)'
    <3>1. CASE w # r
      BY <1>1, <1>2, <1>3, <2>0, <2>1, <2>2, <3>1 DEF InSight, Desktops
    <3>2. CASE w = r
      <4>1. ~(session = "up" /\ Mapped(w))
        BY <1>3, <2>0, <3>2 DEF InSight, Desktops
      <4> QED
        BY <1>1, <1>2, <4>1 DEF InSight
    <3> QED
      BY <3>1, <3>2
  <2>6. ASSUME r # w PROVE Unmapped(r)' /\ InSight(r)'
    <3>1. Unmapped(r) /\ InSight(r) /\ r \in Desktops
      BY <2>0 DEF DesktopInv, Desktops
    <3>2. r # root' /\ r \in former' /\ r \in known' /\ pending' = pending
      BY <2>0, <2>1, <2>2, <2>6
    <3>3. surface'[r] # "unborn"
      BY <1>1, <3>1 DEF Unmapped
    <3>4. session = "up" /\ Mapped(r) => r # pending
      BY <2>0, <3>1 DEF InSight
    <3> QED
      BY <1>1, <1>2, <2>0, <2>2, <3>1, <3>2, <3>3, <3>4 DEF Unmapped, InSight
  <2> QED
    BY <2>3, <2>4, <2>5, <2>6 DEF DesktopInv
<1> QED
  BY <1>7, <1>8, <1>9, <1>10 DEF CheckRoot

LEMMA DesktopStep ==
  ASSUME PlainTypes, known \subseteq Window, CallsHaveWindows, DesktopInv, [Next]_vars
  PROVE  DesktopInv'
<1> USE DEF PlainTypes
<1>0. ASSUME \A v \in Window : Untouched(v) PROVE DesktopInv'
  BY <1>0, UntouchedStays DEF DesktopInv
<1>1. ASSUME NEW w \in Window, GetToplevel(w) PROVE DesktopInv'
  <2>1. UNCHANGED <<kind, session, known, win, root, pending, former, pc>>
    BY <1>1 DEF GetToplevel, tables, roots, server
  <2>2. ASSUME NEW v \in Window, v # w PROVE Unmapped(v)' /\ InSight(v)'
    <3>1. Untouched(v)
      BY <1>1, <2>1, <2>2 DEF GetToplevel, Untouched, Rooting
    <3> QED
      BY <3>1, UntouchedStays DEF DesktopInv
  <2>3. surface[w] = "unborn" \/ Mapped(w)
    BY <1>1 DEF GetToplevel, Mapped
  <2>4. surface'[w] # "unborn"
    BY <1>1 DEF GetToplevel
  <2>5. Unmapped(w) /\ InSight(w)
    BY DEF DesktopInv
  <2>6. Unmapped(w)' /\ InSight(w)'
    BY <2>1, <2>3, <2>4, <2>5 DEF Unmapped, InSight, Desktops, Rooting
  <2> QED
    BY <2>2, <2>6 DEF DesktopInv
<1>2. ASSUME NEW w \in Window, NEW to \in Place, NEW large \in BOOLEAN, Commit(w, to, large) PROVE DesktopInv'
  BY <1>2, CommitDesktop
<1>3. ASSUME NEW w \in Window, StartGrab(w) PROVE DesktopInv'
  BY <1>0, <1>3 DEF StartGrab, clients, tables, roots, server, Untouched, Rooting
<1>4. ASSUME NEW w \in Window, SetMinimized(w) PROVE DesktopInv'
  <2>1. UNCHANGED <<surface, kind, session, root, pending, former, pc>>
    BY <1>4 DEF SetMinimized, clients, roots, server
  <2>2. [win[w] EXCEPT !.minimized = TRUE].shown = win[w].shown
        /\ [win[w] EXCEPT !.minimized = TRUE].background = win[w].background
        /\ [win[w] EXCEPT !.minimized = TRUE] \in Entry
    BY EntryBits, EntryChanges, EntryKept
  <2> QED
    BY <1>4, <2>1, <2>2, ChangedStep DEF SetMinimized, Rooting
<1>5. ASSUME NEW w \in Window, SetMaximized(w) \/ RestoreByUser(w) PROVE DesktopInv'
  <2>1. UNCHANGED <<surface, kind, session, root, pending, former, pc>>
    BY <1>5 DEF SetMaximized, RestoreByUser, clients, roots, server
  <2>2. [win[w] EXCEPT !.minimized = FALSE].shown = win[w].shown
        /\ [win[w] EXCEPT !.minimized = FALSE].background = win[w].background
        /\ [win[w] EXCEPT !.minimized = FALSE] \in Entry
    BY EntryBits, EntryChanges, EntryKept
  <2> QED
    BY <1>5, <2>1, <2>2, ChangedStep DEF SetMaximized, RestoreByUser, Rooting
<1>6. ASSUME NEW w \in Window, SetFullscreen(w) PROVE DesktopInv'
  <2> DEFINE e == [win[w] EXCEPT !.minimized = FALSE]
  <2>1. UNCHANGED <<surface, kind, session, known, root, pending, former>>
    BY <1>6 DEF SetFullscreen, clients, roots, server
  <2>2. \A v \in Window : ~Rooting(v)'
    BY <1>6 DEF SetFullscreen, Continue, Rooting, Thread
  <2>3. e.shown = win[w].shown /\ e.background = win[w].background /\ e \in Entry
    BY EntryBits, EntryChanges, EntryKept
  <2>4. win' = [win EXCEPT ![w] = e]
    BY <1>6 DEF SetFullscreen
  <2> HIDE DEF e
  <2>5. \A v \in Window : win'[v] = IF v = w THEN e ELSE win[v]
    BY <2>3, <2>4, SetTypes
  <2>6. ASSUME NEW v \in Window PROVE Untouched(v)
    BY <2>1, <2>2, <2>3, <2>5 DEF Untouched
  <2> QED
    BY <1>0, <2>6
<1>7. ASSUME NEW w \in Window, UnsetFullscreen(w) PROVE DesktopInv'
  BY <1>0, <1>7 DEF UnsetFullscreen, Continue, clients, tables, roots, server, Untouched, Rooting, Thread
<1>22. CASE LookFullscreen
  BY <1>0, <1>22 DEF LookFullscreen, Continue, clients, tables, roots, server, Untouched, Rooting, Idle, Thread
<1>23. CASE Fill \/ Leave
  <2>1. PICK w \in Window : w = pc["loop"].of
    BY <1>23 DEF Fill, Leave, CallsHaveWindows, Thread
  <2>2. PICK on \in BOOLEAN : Set(w, [win[w] EXCEPT !.fullscreen = on, !.astray = FALSE])
    BY <1>23, <2>1 DEF Fill, Leave
  <2> DEFINE e == [win[w] EXCEPT !.fullscreen = on, !.astray = FALSE]
  <2>3. UNCHANGED <<surface, kind, session, root, pending, former>>
    BY <1>23 DEF Fill, Leave, clients, roots, server
  <2>4. \A v \in Window : ~Rooting(v)'
    BY <1>23 DEF Fill, Leave, Continue, Rooting, Idle, Thread
  <2>5. e.shown = win[w].shown /\ e.background = win[w].background
    BY EntryBits DEF Entry
  <2>6. e \in Entry
    BY EntryBits, EntryChanges
  <2> HIDE DEF e
  <2> QED
    BY <2>2, <2>3, <2>4, <2>5, <2>6, ChangedStep DEF e
<1>8. ASSUME NEW w \in Window, DestroyRole(w) \/ DestroySurface(w) \/ KillProgram(w) \/ TakeDown(w)
      PROVE  DesktopInv'
  <2>1. PICK t \in Thread : Destroyed(t, w) /\ pc[t] = Idle /\ (DestroyRole(w) => t = "loop")
    BY <1>8 DEF DestroyRole, DestroySurface, KillProgram, TakeDown, OnLoop, OnUi, Free, Thread
  <2>2. kind' = kind /\ session' = session /\ \A v \in Window \ {w} : surface'[v] = surface[v]
    BY <1>8 DEF DestroyRole, DestroySurface, KillProgram, TakeDown, clients, server
  <2>3. ASSUME NEW v \in Window, v # w PROVE Unmapped(v)' /\ InSight(v)'
    <3>1. Untouched(v)
      BY <2>1, <2>2, <2>3, DestroyedDesktop
    <3> QED
      BY <3>1, UntouchedStays DEF DesktopInv
  <2>4. /\ ~win'[w].shown /\ ~win'[w].background /\ w \notin Desktops'
        /\ Rooting(w)' => Rooting(w) /\ t # "loop"
    BY <2>1, DestroyedDesktop
  <2>5. Unmapped(w)'
    BY <1>8, <2>4 DEF Unmapped, DesktopInv, DestroyRole, DestroySurface, KillProgram, TakeDown, clients
  <2>6. InSight(w)'
    <3>1. CASE DestroyRole(w)
      BY <2>1, <2>4, <3>1 DEF InSight, Desktops
    <3>2. CASE DestroySurface(w) \/ KillProgram(w) \/ TakeDown(w)
      BY <3>2 DEF InSight, Mapped, DestroySurface, KillProgram, TakeDown
    <3> QED
      BY <1>8, <3>1, <3>2
  <2> QED
    BY <2>3, <2>5, <2>6 DEF DesktopInv
<1>9. ASSUME NEW w \in Window, LoseSurface(w) PROVE DesktopInv'
  <2>1. UNCHANGED <<kind, session, known, win, root, pending, former, pc>>
        /\ surface' = [surface EXCEPT ![w] = "gone"]
    BY <1>9 DEF LoseSurface, tables, roots, server
  <2>2. Unmapped(w)' /\ InSight(w)'
    BY <2>1 DEF Unmapped, InSight, Mapped
  <2>3. ASSUME NEW v \in Window, v # w PROVE Unmapped(v)' /\ InSight(v)'
    <3>1. Untouched(v)
      BY <2>1, <2>3 DEF Untouched, Rooting
    <3> QED
      BY <3>1, UntouchedStays DEF DesktopInv
  <2> QED
    BY <2>2, <2>3 DEF DesktopInv
<1>10. ASSUME NEW w \in Window, NEW byUser \in BOOLEAN, RaiseByUser(w, byUser) PROVE DesktopInv'
  BY <1>0, <1>10 DEF RaiseByUser, Raise, clients, roots, server, Untouched, Rooting
<1>11. CASE RegisterTaskbar
  BY <1>0, <1>11 DEF RegisterTaskbar, clients, tables, server, Untouched, Rooting, Idle, Thread
<1>12. CASE RaiseFullscreen
  BY <1>0, <1>12 DEF RaiseFullscreen, Raise, clients, roots, server, Untouched, Rooting, Idle, Thread
<1>13. CASE EndGrab
  BY <1>0, <1>13 DEF EndGrab, clients, tables, roots, server, Untouched, Rooting
<1>14. CASE Promote
  BY <1>14, PromoteDesktop
<1>15. ASSUME NEW titled \in BOOLEAN, CheckRoot(titled) PROVE DesktopInv'
  BY <1>15, CheckRootDesktop
<1>16. ASSUME NEW origin \in BOOLEAN, GrabMotion(origin) PROVE DesktopInv'
  <2> DEFINE e == [win[grab] EXCEPT !.astray = win[grab].fullscreen /\ ~origin]
  <2>1. UNCHANGED <<surface, kind, session, root, pending, former, pc>>
    BY <1>16 DEF GrabMotion, clients, roots, server
  <2>2. grab \in Window /\ Set(grab, e)
    BY <1>16 DEF GrabMotion
  <2>3. e.shown = win[grab].shown /\ e.background = win[grab].background
    BY <2>2, EntryBits DEF Entry
  <2>4. e \in Entry
    BY <2>2, EntryBits, EntryChanges
  <2> HIDE DEF e
  <2> QED
    BY <2>1, <2>2, <2>3, <2>4, ChangedStep DEF Rooting
<1>17. ASSUME NEW t \in Thread, ResetSession(t) PROVE DesktopInv'
  BY <1>0, <1>17 DEF ResetSession, clients, tables, roots, server, Untouched, Rooting, Idle, Thread
<1>18. ASSUME NEW on \in BOOLEAN, SetRecognition(on) PROVE DesktopInv'
  BY <1>0, <1>18 DEF SetRecognition, clients, tables, server, Untouched, Rooting
<1>19. CASE Stop
  BY <1>19 DEF Stop, clients, tables, roots, DesktopInv, Unmapped, InSight, Desktops, Rooting
<1>20. CASE Restart
  <2>1. UNCHANGED <<kind, known, win, root, pending, former, pc>>
        /\ surface' = [w \in Window |-> IF surface[w] = "unborn" THEN "unborn" ELSE "gone"]
    BY <1>20 DEF Restart, tables, roots
  <2>2. ASSUME NEW v \in Window PROVE Unmapped(v)' /\ InSight(v)'
    BY <2>1 DEF DesktopInv, Unmapped, InSight, Desktops, Rooting, Mapped
  <2> QED
    BY <2>2 DEF DesktopInv
<1>21. CASE UNCHANGED vars
  BY <1>0, <1>21 DEF vars, clients, tables, roots, server, Untouched, Rooting
<1> QED
  BY <1>1, <1>2, <1>3, <1>4, <1>5, <1>6, <1>7, <1>8, <1>9, <1>10, <1>11, <1>12, <1>13, <1>14, <1>15,
     <1>16, <1>17, <1>18, <1>19, <1>20, <1>21, <1>22, <1>23 DEF Next

\* All of it together.
CompositorInv == TypeOK /\ PlainTypes /\ CallsHaveWindows /\ TableInv /\ DesktopInv

LEMMA InitCompositor == Init => PlainTypes /\ CallsHaveWindows /\ TableInv /\ DesktopInv
<1> SUFFICES ASSUME Init PROVE PlainTypes /\ CallsHaveWindows /\ TableInv /\ DesktopInv
  OBVIOUS
<1>1. Fresh \in Entry /\ ~Fresh.shown /\ ~Fresh.background
  BY DEF Fresh, Entry
<1>2. PlainTypes /\ CallsHaveWindows
  BY <1>1, CompositorAssumption, IdleType DEF Init, PlainTypes, CallsHaveWindows
<1>3. <<>> \in Seq(Window) /\ ToSet(<<>>) = {} /\ IsInjective(<<>>)
  BY DEF ToSet, IsInjective
<1>4. TableInv
  BY <1>3 DEF Init, TableInv, OrderInv, ZOrderInv, Orders
<1>5. DesktopInv
  BY <1>1, CompositorAssumption DEF Init, DesktopInv, Unmapped, InSight, Desktops, Rooting, Idle, Mapped, Thread
<1> QED
  BY <1>2, <1>4, <1>5

LEMMA TypesAgree == PlainTypes /\ TableInv => TypeOK
BY DEF PlainTypes, TableInv, OrderInv, Orders, ZOrderInv, TypeOK, Entry, Calls

LEMMA CompositorInvariance == Spec => []CompositorInv
<1>1. Init => CompositorInv
  BY InitCompositor, TypesAgree DEF CompositorInv
<1>2. CompositorInv /\ [Next]_vars => CompositorInv'
  <2> SUFFICES ASSUME CompositorInv, [Next]_vars PROVE CompositorInv'
    OBVIOUS
  <2>1. known \subseteq Window
    BY DEF CompositorInv, TypeOK
  <2>2. PlainTypes' /\ CallsHaveWindows'
    BY <2>1, TypeStep DEF CompositorInv
  <2>3. TableInv'
    BY TableStepKeeps DEF CompositorInv
  <2>4. DesktopInv'
    BY <2>1, DesktopStep DEF CompositorInv
  <2>5. TypeOK'
    BY <2>2, <2>3 DEF PlainTypes, TableInv, OrderInv, Orders, ZOrderInv, TypeOK, Entry, Calls
  <2> QED
    BY <2>2, <2>3, <2>4, <2>5 DEF CompositorInv
<1> QED
  BY <1>1, <1>2, PTL DEF Spec

(***************************************************************************)
(* The z-order lists a window once and no window without an entry,         *)
(* whenever a thread may look (ToplevelManager: AddToZOrder,               *)
(* RemoveFromZOrder, OnToplevelDestroyed).                                 *)
(***************************************************************************)
THEOREM TablesStaySound == Spec => []TablesAreSound
<1>1. CompositorInv => TablesAreSound
  BY DEF CompositorInv, TableInv, ZOrderInv, TablesAreSound
<1> QED
  BY CompositorInvariance, <1>1, PTL

\* A full-screen window in sight has a number, and one of them the highest.
LEMMA PickedIsHighest ==
  ASSUME TableInv, FullScreen # {}
  PROVE  /\ FullScreen \subseteq ToSet(numbered)
         /\ Picked \in FullScreen /\ \A v \in FullScreen : Rank(v, numbered) <= Rank(Picked, numbered)
<1> USE DEF TableInv, OrderInv, Orders, ZOrderInv
<1>1. FullScreen \subseteq ToSet(numbered)
  BY DEF FullScreen, Visible
<1>2. Len(numbered) \in Nat /\ \A v \in FullScreen : Rank(v, numbered) \in 1..Len(numbered)
  BY <1>1, RankFacts, SeqFacts
<1> DEFINE below == {Len(numbered) - Rank(v, numbered) : v \in FullScreen}
<1>3. below \in SUBSET Nat /\ below # {}
  BY <1>2
<1>4. PICK x \in below : \A y \in below : x <= y
  BY <1>3, SmallestNat
<1>5. PICK w \in FullScreen : x = Len(numbered) - Rank(w, numbered)
  BY <1>4
<1>6. ASSUME NEW v \in FullScreen PROVE Rank(v, numbered) <= Rank(w, numbered)
  <2>1. Len(numbered) - Rank(v, numbered) \in below
    OBVIOUS
  <2>2. x <= Len(numbered) - Rank(v, numbered)
    BY <1>4, <2>1
  <2> QED
    BY <1>2, <1>5, <2>2
<1> QED
  BY <1>1, <1>5, <1>6 DEF Picked

(***************************************************************************)
(* The full-screen window drawn and given the input is the newest of those *)
(* in sight, or one the user chose (PickFullscreenToplevelLocked).         *)
(***************************************************************************)
THEOREM NewestStaysInFront == Spec => []NewestFullscreenIsInFront
<1>1. CompositorInv => NewestFullscreenIsInFront
  <2> SUFFICES ASSUME CompositorInv, NEW w \in FullScreen \ {Picked}, Picked \notin chosen
               PROVE  Rank(w, entered) < Rank(Picked, entered)
    BY DEF NewestFullscreenIsInFront
  <2> USE DEF CompositorInv, TableInv, OrderInv, Orders
  <2>1. /\ w \in ToSet(numbered) /\ Picked \in ToSet(numbered)
        /\ Rank(w, numbered) <= Rank(Picked, numbered)
    BY PickedIsHighest
  <2>2. Rank(w, numbered) # Rank(Picked, numbered) /\ Rank(w, numbered) \in Nat /\ Rank(Picked, numbered) \in Nat
    BY <2>1, RankFacts, SeqFacts
  <2>3. Rank(w, numbered) < Rank(Picked, numbered)
    BY <2>1, <2>2
  <2> QED
    BY <2>1, <2>3
<1> QED
  BY CompositorInvariance, <1>1, PTL

(***************************************************************************)
(* A desktop that was replaced is out of sight, the root and the shell in  *)
(* waiting are not, whoever promotes, registers or dies in between         *)
(* (DesktopRootManager: CheckRootLocked, PromotePending).                  *)
(***************************************************************************)
THEOREM OneDesktopStaysInSight == Spec => []OneDesktopInSight
<1>1. CompositorInv => OneDesktopInSight
  BY DEF CompositorInv, TypeOK, DesktopInv, InSight, Mapped, OneDesktopInSight
<1> QED
  BY CompositorInvariance, <1>1, PTL

-----------------------------------------------------------------------------
(***************************************************************************)
(* Erasing from a sequence.  The k-th place that is kept is the one with   *)
(* k kept places up to itself: that numbers the kept places without a gap, *)
(* so what is left is a part of the sequence with each of them once.       *)
(***************************************************************************)
LEMMA PlacesAreNumbered ==
  ASSUME NEW n \in Nat, NEW I \in SUBSET (1..n)
  PROVE  /\ Cardinality(I) \in Nat /\ Cardinality(I) <= n
         /\ \A i, j \in I : i # j =>
              Cardinality({x \in I : x <= i}) # Cardinality({x \in I : x <= j})
         /\ \A k \in 1..Cardinality(I) : \E i \in I : Cardinality({x \in I : x <= i}) = k
<1> DEFINE Upto(i) == {x \in I : x <= i}
           r == [i \in I |-> Cardinality(Upto(i))]
<1>1. IsFiniteSet(I) /\ Cardinality(I) <= n
  <2>1. IsFiniteSet(1..n) /\ Cardinality(1..n) = n
    BY FS_Interval
  <2> QED
    BY <2>1, FS_Subset
<1>2. Cardinality(I) \in Nat
  BY <1>1, FS_CardinalityType
<1>3. ASSUME NEW i \in I PROVE IsFiniteSet(Upto(i)) /\ Cardinality(Upto(i)) \in 1..Cardinality(I)
  <2>1. Upto(i) \in SUBSET I /\ i \in Upto(i)
    OBVIOUS
  <2> HIDE DEF Upto
  <2>2. IsFiniteSet(Upto(i)) /\ Cardinality(Upto(i)) <= Cardinality(I)
    BY <1>1, <2>1, FS_Subset
  <2>3. Cardinality(Upto(i)) \in Nat /\ Cardinality(Upto(i)) # 0
    BY <2>1, <2>2, FS_CardinalityType, FS_EmptySet
  <2> QED
    BY <1>2, <2>2, <2>3
<1>4. ASSUME NEW i \in I, NEW j \in I, i < j PROVE Cardinality(Upto(i)) # Cardinality(Upto(j))
  <2>0. (\A x \in I : x <= i => x <= j) /\ j <= j /\ ~(j <= i)
    BY <1>4
  <2>1. Upto(i) \in SUBSET Upto(j) /\ j \in Upto(j) /\ j \notin Upto(i)
    BY <2>0, Zenon
  <2>2. IsFiniteSet(Upto(j))
    BY <1>3
  <2> HIDE DEF Upto
  <2> QED
    BY <2>1, <2>2, FS_Subset
<1>5. ASSUME NEW i \in I, NEW j \in I, i # j PROVE Cardinality(Upto(i)) # Cardinality(Upto(j))
  <2>1. i < j \/ j < i
    BY <1>5
  <2> HIDE DEF Upto
  <2>2. CASE i < j
    BY <1>4, <2>2
  <2>3. CASE j < i
    BY <1>4, <2>3
  <2> QED
    BY <2>1, <2>2, <2>3
<1>6. r \in Injection(I, 1..Cardinality(I))
  <2> HIDE DEF Upto
  <2> QED
    BY <1>3, <1>5 DEF Injection, IsInjective
<1>7. IsFiniteSet(1..Cardinality(I)) /\ Cardinality(1..Cardinality(I)) = Cardinality(I)
  BY <1>2, FS_Interval
<1>8. r \in Surjection(I, 1..Cardinality(I))
  <2> HIDE DEF r
  <2> QED
    BY <1>6, <1>7, FS_Injection
<1>9. ASSUME NEW k \in 1..Cardinality(I) PROVE \E i \in I : Cardinality(Upto(i)) = k
  <2> HIDE DEF Upto
  <2> QED
    BY <1>8 DEF Surjection
<1> QED
  BY <1>1, <1>2, <1>5, <1>9

\* t lists, in whatever order, some places of s, none of them twice.
PartOf(t, s, places) ==
  \E f \in [DOMAIN t -> places] : /\ \A a, b \in DOMAIN t : f[a] = f[b] => a = b
                                  /\ \A k \in DOMAIN t : t[k] = s[f[k]]

LEMMA KeptFacts ==
  ASSUME NEW S, NEW s \in Seq(S), NEW I \in SUBSET DOMAIN s
  PROVE  /\ Kept(s, I) \in Seq(S) /\ Len(Kept(s, I)) <= Len(s)
         /\ PartOf(Kept(s, I), s, I)
         /\ \A i \in I : \E k \in DOMAIN Kept(s, I) : Kept(s, I)[k] = s[i]
<1> DEFINE c == Cardinality(I)
           Upto(i) == Cardinality({j \in I : j <= i})
           f == [k \in 1..c |-> CHOOSE i \in I : Upto(i) = k]
           t == Kept(s, I)
<1>1. Len(s) \in Nat /\ I \in SUBSET (1..Len(s)) /\ \A i \in I : s[i] \in S
  OBVIOUS
<1>2. c \in Nat /\ c <= Len(s)
  BY <1>1, PlacesAreNumbered
<1>3. \A i, j \in I : i # j => Upto(i) # Upto(j)
  BY <1>1, PlacesAreNumbered
<1>4. \A k \in 1..c : \E i \in I : Upto(i) = k
  BY <1>1, PlacesAreNumbered
<1>5. t = [k \in 1..c |-> s[f[k]]]
  BY DEF Kept
<1>6. \A k \in 1..c : f[k] \in I /\ Upto(f[k]) = k
  <2> SUFFICES ASSUME NEW k \in 1..c PROVE f[k] \in I /\ Upto(f[k]) = k
    OBVIOUS
  <2>1. \E i \in I : Upto(i) = k
    BY <1>4
  <2>2. f[k] = CHOOSE i \in I : Upto(i) = k
    OBVIOUS
  <2> HIDE DEF Upto, f
  <2> QED
    BY <2>1, <2>2, Zenon
<1>7. \A i \in I : Upto(i) \in 1..c
  <2> SUFFICES ASSUME NEW i \in I PROVE Upto(i) \in 1..c
    OBVIOUS
  <2>1. IsFiniteSet(I)
    <3>1. IsFiniteSet(1..Len(s))
      BY <1>1, FS_Interval
    <3> QED
      BY <1>1, <3>1, FS_Subset
  <2> DEFINE U == {j \in I : j <= i}
  <2>2. U \in SUBSET I /\ i \in U
    BY <1>1
  <2> HIDE DEF U
  <2>3. IsFiniteSet(U) /\ Cardinality(U) <= c
    BY <2>1, <2>2, FS_Subset
  <2>4. Cardinality(U) \in Nat /\ Cardinality(U) # 0
    BY <2>2, <2>3, FS_CardinalityType, FS_EmptySet
  <2> QED
    BY <1>2, <2>3, <2>4 DEF U
<1> HIDE DEF c, Upto, t, f
<1>8. t \in Seq(S) /\ DOMAIN t = 1..c /\ Len(t) = c
  BY <1>1, <1>2, <1>5, <1>6
<1>9. PartOf(t, s, I)
  <2>1. f \in [DOMAIN t -> I]
    BY <1>6, <1>8 DEF f
  <2>2. \A a, b \in DOMAIN t : f[a] = f[b] => a = b
    BY <1>6, <1>8
  <2>3. \A k \in DOMAIN t : t[k] = s[f[k]]
    BY <1>5, <1>8
  <2> QED
    BY <2>1, <2>2, <2>3 DEF PartOf
<1>10. ASSUME NEW i \in I PROVE \E k \in DOMAIN t : t[k] = s[i]
  <2>1. f[Upto(i)] = i
    BY <1>3, <1>6, <1>7
  <2> QED
    BY <1>5, <1>7, <1>8, <2>1
<1> QED
  BY <1>1, <1>2, <1>8, <1>9, <1>10 DEF t

-----------------------------------------------------------------------------
(***************************************************************************)
(* The registry's two tables, as functions of the state they are read      *)
(* with: ws the windows, open those that may be in a table, o the          *)
(* processes.                                                              *)
(***************************************************************************)
RegisteredEntry ==
  [pid : Pid, session : Session, toplevel : Toplevel \cup {NoToplevel}, running : BOOLEAN]

PendingWindow == [client : Pid, session : Session \cup {NoSession}, toplevel : Toplevel]

EntrySound(e, ws, open) ==
  e.toplevel # NoToplevel =>
    /\ e.toplevel \in open
    /\ \/ ws[e.toplevel].session = e.session
       \/ e.pid = ws[e.toplevel].client \/ e.pid \in ToSet(Ancestry[ws[e.toplevel].client])

PendingSound(w, ws, open) ==
  /\ w.toplevel \in open
  /\ ws[w.toplevel].client = w.client /\ ws[w.toplevel].session = w.session

\* WaitsFor, as the processes are.
Claims(e, w, o) ==
  \/ w.session # NoSession /\ w.session = e.session
  \/ e.pid = w.client
  \/ \E d \in DOMAIN Ancestry[w.client] :
       /\ d < MaxDepth /\ e.pid = Ancestry[w.client][d]
       /\ o[w.client] = "alive" /\ \A i \in 1..d : o[Ancestry[w.client][i]] = "alive"

Distinct(table) ==
  \A i, j \in DOMAIN table :
    table[i].toplevel = table[j].toplevel /\ table[i].toplevel # NoToplevel => i = j

OnePerPid(table) == \A i, j \in DOMAIN table : table[i].pid = table[j].pid => i = j

Sound(r, q, ws, open, o) ==
  /\ r \in Seq(RegisteredEntry) /\ q \in Seq(PendingWindow)
  /\ OnePerPid(r) /\ Distinct(r) /\ Distinct(q)
  /\ \A i \in DOMAIN r : EntrySound(r[i], ws, open)
  /\ \A j \in DOMAIN q : PendingSound(q[j], ws, open)
  /\ \A i \in DOMAIN r, j \in DOMAIN q : r[i].toplevel # q[j].toplevel /\ ~Claims(r[i], q[j], o)

\* What a part of a table has of the table.
LEMMA PartFacts ==
  ASSUME NEW t, NEW s, NEW I \in SUBSET DOMAIN s, PartOf(t, s, I)
  PROVE  /\ \A k \in DOMAIN t : \E i \in I : t[k] = s[i]
         /\ Distinct(s) => Distinct(t)
         /\ OnePerPid(s) => OnePerPid(t)
<1>1. PICK f \in [DOMAIN t -> I] : /\ \A a, b \in DOMAIN t : f[a] = f[b] => a = b
                                   /\ \A k \in DOMAIN t : t[k] = s[f[k]]
  BY DEF PartOf
<1>2. \A k \in DOMAIN t : f[k] \in I /\ f[k] \in DOMAIN s
  OBVIOUS
<1>3. ASSUME Distinct(s) PROVE Distinct(t)
  BY <1>1, <1>2, <1>3 DEF Distinct
<1>4. ASSUME OnePerPid(s) PROVE OnePerPid(t)
  BY <1>1, <1>2, <1>4 DEF OnePerPid
<1> QED
  BY <1>1, <1>2, <1>3, <1>4

\* A part of a part.
LEMMA PartOfPart ==
  ASSUME NEW u, NEW t, NEW s, NEW I \in SUBSET DOMAIN s, NEW J \in SUBSET DOMAIN t,
         PartOf(u, t, J), PartOf(t, s, I)
  PROVE  PartOf(u, s, I)
<1>1. PICK f \in [DOMAIN t -> I] : /\ \A a, b \in DOMAIN t : f[a] = f[b] => a = b
                                   /\ \A k \in DOMAIN t : t[k] = s[f[k]]
  BY DEF PartOf
<1>2. PICK g \in [DOMAIN u -> J] : /\ \A a, b \in DOMAIN u : g[a] = g[b] => a = b
                                   /\ \A k \in DOMAIN u : u[k] = t[g[k]]
  BY DEF PartOf
<1> DEFINE h == [k \in DOMAIN u |-> f[g[k]]]
<1>3. \A k \in DOMAIN u : g[k] \in DOMAIN t
  BY <1>2
<1>4. h \in [DOMAIN u -> I]
  BY <1>1, <1>2, <1>3
<1>5. /\ \A a, b \in DOMAIN u : h[a] = h[b] => a = b
      /\ \A k \in DOMAIN u : u[k] = s[h[k]]
  BY <1>1, <1>2, <1>3
<1> HIDE DEF h
<1> QED
  BY <1>4, <1>5 DEF PartOf

\* The fields of the records in the tables, one update at a time.
LEMMA EntryFields ==
  /\ \A e \in RegisteredEntry : /\ e.pid \in Pid /\ e.session \in Session
                                /\ e.toplevel \in Toplevel \cup {NoToplevel} /\ e.running \in BOOLEAN
  /\ \A w \in PendingWindow : /\ w.client \in Pid /\ w.session \in Session \cup {NoSession}
                              /\ w.toplevel \in Toplevel /\ w.toplevel # NoToplevel
BY ConstantsDiffer DEF RegisteredEntry, PendingWindow

LEMMA EntryMarked ==
  ASSUME NEW e \in RegisteredEntry
  PROVE  LET d == [e EXCEPT !.running = FALSE] IN
         /\ d \in RegisteredEntry /\ d.pid = e.pid /\ d.session = e.session /\ d.toplevel = e.toplevel
         /\ ~d.running
BY DEF RegisteredEntry

LEMMA EntryGiven ==
  ASSUME NEW e \in RegisteredEntry, NEW t \in Toplevel \cup {NoToplevel}
  PROVE  LET d == [e EXCEPT !.toplevel = t] IN
         /\ d \in RegisteredEntry /\ d.pid = e.pid /\ d.session = e.session /\ d.toplevel = t
         /\ d.running = e.running
BY DEF RegisteredEntry

\* A process is registered: its earlier entry and some ended ones are gone,
\* it takes the windows it claims out of the queue and owns one of them.
LEMMA SoundAdded ==
  ASSUME NEW r, NEW q, NEW ws, NEW open, NEW o, Sound(r, q, ws, open, o),
         NEW p \in Pid, NEW e \in RegisteredEntry, e.pid = p,
         NEW base \in Seq(RegisteredEntry), PartOf(base, r, {i \in DOMAIN r : r[i].pid # p}),
         NEW q2 \in Seq(PendingWindow), PartOf(q2, q, {j \in DOMAIN q : ~Claims(e, q[j], o)}),
         \/ e.toplevel = NoToplevel
         \/ \E j \in DOMAIN q : e.toplevel = q[j].toplevel /\ Claims(e, q[j], o)
  PROVE  Sound(Append(base, e), q2, ws, open, o)
<1> DEFINE r2 == Append(base, e)
           n == Len(base) + 1
<1>1. /\ r2 \in Seq(RegisteredEntry) /\ DOMAIN r2 = DOMAIN base \cup {n}
      /\ r2[n] = e /\ \A i \in DOMAIN base : r2[i] = base[i]
      /\ n \notin DOMAIN base
  OBVIOUS
<1> HIDE DEF r2, n
<1>2. \A k \in DOMAIN base : \E i \in DOMAIN r : r[i].pid # p /\ base[k] = r[i]
  BY PartFacts
<1>3. \A k \in DOMAIN q2 : \E j \in DOMAIN q : ~Claims(e, q[j], o) /\ q2[k] = q[j]
  BY PartFacts
<1>4. OnePerPid(base) /\ Distinct(base) /\ Distinct(q2)
  BY PartFacts DEF Sound
<1>5. \A i \in DOMAIN base : /\ base[i].pid # p /\ EntrySound(base[i], ws, open)
                             /\ base[i].toplevel # NoToplevel => base[i].toplevel # e.toplevel
  <2> SUFFICES ASSUME NEW k \in DOMAIN base
               PROVE  /\ base[k].pid # p /\ EntrySound(base[k], ws, open)
                      /\ base[k].toplevel # NoToplevel => base[k].toplevel # e.toplevel
    OBVIOUS
  <2>1. PICK i \in DOMAIN r : r[i].pid # p /\ base[k] = r[i]
    BY <1>2
  <2> QED
    BY <2>1 DEF Sound
<1>6. OnePerPid(r2)
  BY <1>1, <1>4, <1>5 DEF OnePerPid
<1>7. Distinct(r2)
  BY <1>1, <1>4, <1>5 DEF Distinct
<1>8. \A k \in DOMAIN q2 : PendingSound(q2[k], ws, open)
  BY <1>3 DEF Sound
<1>9. EntrySound(e, ws, open)
  <2>1. CASE e.toplevel = NoToplevel
    BY <2>1 DEF EntrySound
  <2>2. ASSUME NEW j \in DOMAIN q, e.toplevel = q[j].toplevel, Claims(e, q[j], o)
        PROVE  EntrySound(e, ws, open)
    <3>1. PendingSound(q[j], ws, open)
      BY DEF Sound
    <3> QED
      BY <2>2, <3>1 DEF EntrySound, PendingSound, Claims, ToSet
  <2> QED
    BY <2>1, <2>2
<1>10. ASSUME NEW k \in DOMAIN q2 PROVE e.toplevel # q2[k].toplevel /\ ~Claims(e, q2[k], o)
  <2>1. PICK j \in DOMAIN q : ~Claims(e, q[j], o) /\ q2[k] = q[j]
    BY <1>3
  <2>2. q[j].toplevel # NoToplevel
    BY EntryFields DEF Sound
  <2> QED
    BY <2>1, <2>2 DEF Sound, Distinct
<1>11. ASSUME NEW i \in DOMAIN base, NEW k \in DOMAIN q2
       PROVE  base[i].toplevel # q2[k].toplevel /\ ~Claims(base[i], q2[k], o)
  <2>1. PICK a \in DOMAIN r : base[i] = r[a]
    BY <1>2
  <2>2. PICK j \in DOMAIN q : q2[k] = q[j]
    BY <1>3
  <2> QED
    BY <2>1, <2>2 DEF Sound
<1>12. \A i \in DOMAIN r2 : EntrySound(r2[i], ws, open)
  BY <1>1, <1>5, <1>9
<1>13. \A i \in DOMAIN r2, k \in DOMAIN q2 : r2[i].toplevel # q2[k].toplevel /\ ~Claims(r2[i], q2[k], o)
  BY <1>1, <1>10, <1>11
<1> QED
  BY <1>1, <1>4, <1>6, <1>7, <1>8, <1>12, <1>13 DEF Sound, r2

\* An entry is changed where it stands: marked ended, or without its window.
LEMMA SoundChanged ==
  ASSUME NEW r, NEW q, NEW ws, NEW open, NEW o, Sound(r, q, ws, open, o),
         NEW r2 \in [DOMAIN r -> RegisteredEntry],
         \A i \in DOMAIN r : /\ r2[i].pid = r[i].pid /\ r2[i].session = r[i].session
                             /\ r2[i].toplevel \in {r[i].toplevel, NoToplevel}
  PROVE  Sound(r2, q, ws, open, o)
<1>1. r2 \in Seq(RegisteredEntry) /\ DOMAIN r2 = DOMAIN r
  <2>1. Len(r) \in Nat /\ DOMAIN r = 1..Len(r)
    BY DEF Sound
  <2> QED
    BY <2>1
<1>2. OnePerPid(r2)
  BY <1>1 DEF Sound, OnePerPid
<1>3. Distinct(r2)
  BY <1>1 DEF Sound, Distinct
<1>4. ASSUME NEW i \in DOMAIN r2 PROVE EntrySound(r2[i], ws, open)
  <2>1. EntrySound(r[i], ws, open)
    BY <1>1 DEF Sound
  <2> QED
    BY <1>1, <2>1 DEF EntrySound
<1>5. ASSUME NEW i \in DOMAIN r2, NEW j \in DOMAIN q
      PROVE  r2[i].toplevel # q[j].toplevel /\ ~Claims(r2[i], q[j], o)
  <2>1. r[i].toplevel # q[j].toplevel /\ ~Claims(r[i], q[j], o) /\ q[j] \in PendingWindow
    BY <1>1 DEF Sound
  <2>2. q[j].toplevel # NoToplevel
    BY <2>1, EntryFields
  <2> QED
    BY <1>1, <2>1, <2>2 DEF Claims
<1> QED
  BY <1>1, <1>2, <1>3, <1>4, <1>5 DEF Sound

\* Processes are born or end, windows are opened and closed: what is listed
\* stays open and no pending window is claimed that was not.
LEMMA SoundElsewhere ==
  ASSUME NEW r, NEW q, NEW ws, NEW open, NEW o, Sound(r, q, ws, open, o),
         NEW ws2, NEW open2, NEW o2,
         \A i \in DOMAIN r : r[i].toplevel # NoToplevel => r[i].toplevel \in open2,
         \A j \in DOMAIN q : q[j].toplevel \in open2,
         \A t \in open2 \cap open : ws2[t].client = ws[t].client /\ ws2[t].session = ws[t].session,
         \A i \in DOMAIN r, j \in DOMAIN q : Claims(r[i], q[j], o2) => Claims(r[i], q[j], o)
  PROVE  Sound(r, q, ws2, open2, o2)
<1>1. ASSUME NEW i \in DOMAIN r PROVE EntrySound(r[i], ws2, open2)
  <2>1. EntrySound(r[i], ws, open)
    BY DEF Sound
  <2> QED
    BY <2>1 DEF EntrySound
<1>2. ASSUME NEW j \in DOMAIN q PROVE PendingSound(q[j], ws2, open2)
  <2>1. PendingSound(q[j], ws, open)
    BY DEF Sound
  <2> QED
    BY <2>1 DEF PendingSound
<1> QED
  BY <1>1, <1>2 DEF Sound

\* An entry without a window takes one that is in neither table.
LEMMA SoundTaken ==
  ASSUME NEW r, NEW q, NEW ws, NEW open, NEW o, Sound(r, q, ws, open, o),
         NEW f \in DOMAIN r, r[f].toplevel = NoToplevel, NEW t \in Toplevel, t \notin open,
         Claims(r[f], [client |-> ws[t].client, toplevel |-> t, session |-> ws[t].session], o)
  PROVE  Sound([r EXCEPT ![f].toplevel = t], q, ws, open \cup {t}, o)
<1> DEFINE r2 == [r EXCEPT ![f].toplevel = t]
           open2 == open \cup {t}
<1>1. r \in Seq(RegisteredEntry) /\ t # NoToplevel /\ Len(r) \in Nat /\ DOMAIN r = 1..Len(r)
  BY ConstantsDiffer DEF Sound
<1>2. /\ r2[f] = [r[f] EXCEPT !.toplevel = t]
      /\ \A i \in DOMAIN r : i # f => r2[i] = r[i]
      /\ DOMAIN r2 = DOMAIN r
  BY <1>1
<1>3. /\ r2[f] \in RegisteredEntry /\ r2[f].pid = r[f].pid /\ r2[f].session = r[f].session
      /\ r2[f].toplevel = t
  BY <1>1, <1>2, EntryGiven
<1>4. r2 \in Seq(RegisteredEntry)
  <2>1. \A i \in DOMAIN r : r2[i] \in RegisteredEntry
    BY <1>1, <1>2, <1>3
  <2>2. r2 = [i \in DOMAIN r |-> r2[i]]
    OBVIOUS
  <2> HIDE DEF r2
  <2> QED
    BY <1>1, <2>1, <2>2
<1> HIDE DEF r2
<1>5. /\ \A i \in DOMAIN r : r[i].toplevel # t
      /\ \A j \in DOMAIN q : q[j].toplevel # t
  BY <1>1 DEF Sound, EntrySound, PendingSound
<1>6. OnePerPid(r2)
  BY <1>2, <1>3 DEF Sound, OnePerPid
<1>7. Distinct(r2)
  <2>1. Distinct(r)
    BY DEF Sound
  <2>2. \A i \in DOMAIN r : i # f => r2[i].toplevel = r[i].toplevel /\ r2[i].toplevel # t
    BY <1>2, <1>5
  <2> SUFFICES ASSUME NEW i \in DOMAIN r, NEW j \in DOMAIN r, r2[i].toplevel = r2[j].toplevel,
                      r2[i].toplevel # NoToplevel, i # j
               PROVE  FALSE
    BY <1>2 DEF Distinct
  <2>3. CASE i # f /\ j # f
    BY <2>1, <2>2, <2>3 DEF Distinct
  <2>4. CASE i = f \/ j = f
    BY <1>3, <2>2, <2>4
  <2> QED
    BY <2>3, <2>4
<1>8. ASSUME NEW i \in DOMAIN r2 PROVE EntrySound(r2[i], ws, open2)
  <2>1. CASE i = f
    BY <1>3, <2>1 DEF EntrySound, Claims, ToSet
  <2>2. CASE i # f
    <3>1. r2[i] = r[i] /\ EntrySound(r[i], ws, open)
      BY <1>2, <2>2 DEF Sound
    <3> QED
      BY <3>1 DEF EntrySound
  <2> QED
    BY <2>1, <2>2
<1>9. ASSUME NEW j \in DOMAIN q PROVE PendingSound(q[j], ws, open2)
  BY DEF Sound, PendingSound
<1>10. ASSUME NEW i \in DOMAIN r2, NEW j \in DOMAIN q
       PROVE  r2[i].toplevel # q[j].toplevel /\ ~Claims(r2[i], q[j], o)
  <2>1. r[i].toplevel # q[j].toplevel /\ ~Claims(r[i], q[j], o)
    BY <1>2 DEF Sound
  <2>2. r2[i].pid = r[i].pid /\ r2[i].session = r[i].session /\ r2[i].toplevel \in {r[i].toplevel, t}
    BY <1>2, <1>3
  <2> QED
    BY <1>5, <2>1, <2>2 DEF Claims
<1> QED
  BY <1>4, <1>6, <1>7, <1>8, <1>9, <1>10 DEF Sound, r2

\* A window that no entry claims is queued; the oldest may fall out.
LEMMA SoundQueued ==
  ASSUME NEW r, NEW q, NEW ws, NEW open, NEW o, Sound(r, q, ws, open, o),
         NEW w \in PendingWindow, w.toplevel \notin open,
         ws[w.toplevel].client = w.client, ws[w.toplevel].session = w.session,
         \A i \in DOMAIN r : ~Claims(r[i], w, o)
  PROVE  /\ Sound(r, Append(q, w), ws, open \cup {w.toplevel}, o)
         /\ Sound(r, Tail(Append(q, w)), ws, open \cup {w.toplevel}, o)
         /\ Len(Append(q, w)) = Len(q) + 1 /\ Len(Tail(Append(q, w))) = Len(q)
<1> DEFINE q2 == Append(q, w)
           q3 == Tail(q2)
           n == Len(q) + 1
           open2 == open \cup {w.toplevel}
<1>1. /\ q \in Seq(PendingWindow) /\ n \in Nat \ {0} /\ DOMAIN q = 1..n - 1
      /\ w.toplevel # NoToplevel
  BY EntryFields DEF Sound
<1>2. /\ q2 \in Seq(PendingWindow) /\ Len(q2) = n /\ DOMAIN q2 = DOMAIN q \cup {n} /\ q2[n] = w
      /\ n \notin DOMAIN q /\ \A j \in DOMAIN q : q2[j] = q[j]
  BY <1>1
<1>3. \A j \in DOMAIN q : q[j].toplevel # w.toplevel
  BY DEF Sound, PendingSound
<1>4. \A i \in DOMAIN r : r[i].toplevel # w.toplevel
  BY <1>1 DEF Sound, EntrySound
<1> HIDE DEF q2, n
<1>5. Sound(r, q2, ws, open2, o)
  <2>1. Distinct(q2)
    <3>1. Distinct(q)
      BY DEF Sound
    <3> QED
      BY <1>2, <1>3, <3>1 DEF Distinct
  <2>2. ASSUME NEW i \in DOMAIN r PROVE EntrySound(r[i], ws, open2)
    BY DEF Sound, EntrySound
  <2>3. ASSUME NEW j \in DOMAIN q2 PROVE PendingSound(q2[j], ws, open2)
    <3>1. CASE j = n
      BY <1>2, <3>1 DEF PendingSound
    <3>2. CASE j # n
      <4>1. q2[j] = q[j] /\ PendingSound(q[j], ws, open)
        BY <1>2, <3>2 DEF Sound
      <4> QED
        BY <4>1 DEF PendingSound
    <3> QED
      BY <3>1, <3>2
  <2>4. ASSUME NEW i \in DOMAIN r, NEW j \in DOMAIN q2
        PROVE  r[i].toplevel # q2[j].toplevel /\ ~Claims(r[i], q2[j], o)
    <3>1. CASE j = n
      BY <1>2, <1>4, <3>1
    <3>2. CASE j # n
      BY <1>2, <3>2 DEF Sound
    <3> QED
      BY <3>1, <3>2
  <2> QED
    BY <1>2, <2>1, <2>2, <2>3, <2>4 DEF Sound
<1>6. /\ q3 \in Seq(PendingWindow) /\ Len(q3) = n - 1
      /\ \A j \in DOMAIN q3 : j + 1 \in DOMAIN q2 /\ q3[j] = q2[j + 1]
      /\ DOMAIN q3 \subseteq Nat
  BY <1>1, <1>2
<1> HIDE DEF q3
<1>7. Sound(r, q3, ws, open2, o)
  <2>1. Distinct(q3)
    <3>1. Distinct(q2)
      BY <1>5 DEF Sound
    <3> QED
      BY <1>6, <3>1 DEF Distinct
  <2> QED
    BY <1>5, <1>6, <2>1 DEF Sound
<1> QED
  BY <1>1, <1>2, <1>5, <1>6, <1>7 DEF q2, q3, n

\* A window is gone: it is taken out of both tables.
LEMMA SoundWithout ==
  ASSUME NEW r, NEW q, NEW ws, NEW open, NEW o, Sound(r, q, ws, open, o),
         NEW t, NEW r2 \in [DOMAIN r -> RegisteredEntry],
         \A i \in DOMAIN r : /\ r2[i].pid = r[i].pid /\ r2[i].session = r[i].session
                             /\ r2[i].toplevel \in {r[i].toplevel, NoToplevel} \ {t},
         NEW J \in SUBSET DOMAIN q, \A j \in J : q[j].toplevel # t,
         NEW q2 \in Seq(PendingWindow), PartOf(q2, q, J)
  PROVE  Sound(r2, q2, ws, open \ {t}, o)
<1>1. \A k \in DOMAIN q2 : \E j \in DOMAIN q : q[j].toplevel # t /\ q2[k] = q[j]
  BY PartFacts
<1>2. Distinct(q2)
  BY PartFacts DEF Sound
<1>3. Sound(r, q2, ws, open, o)
  BY <1>1, <1>2 DEF Sound
<1>4. Sound(r2, q2, ws, open, o)
  BY <1>3, SoundChanged
<1>5. \A i \in DOMAIN r2 : r2[i].toplevel # NoToplevel => r2[i].toplevel \in open \ {t}
  BY <1>4 DEF Sound, EntrySound
<1>6. \A k \in DOMAIN q2 : q2[k].toplevel \in open \ {t}
  BY <1>1 DEF Sound, PendingSound
<1> QED
  BY <1>4, <1>5, <1>6, SoundElsewhere

\* Nothing is pending any more.
LEMMA SoundEmptied ==
  ASSUME NEW r, NEW q, NEW ws, NEW open, NEW o, Sound(r, q, ws, open, o)
  PROVE  Sound(r, <<>>, ws, open, o)
BY DEF Sound, Distinct

-----------------------------------------------------------------------------
(***************************************************************************)
(* The inductive invariant.  A window is in a table only while it is live  *)
(* and not between its two calls; whoever opened a window has been born,   *)
(* and so have its ancestors, so no later birth puts a process above a     *)
(* pending window's client.                                                *)
(***************************************************************************)
Opened == {t \in Toplevel : windows[t].state = "live" /\ t # wayland.toplevel}

BrokerThread == [pc : {"idle", "inherit", "register", "reply", "done"},
                 peer : Pid \cup {App, Nobody}, session : Session \cup {NoSession}]

ThreadsOK ==
  /\ os \in [Pid -> {"unborn", "alive", "exited"}] /\ broker \in [Pid -> BrokerThread]
  /\ notices \subseteq Pid /\ monitor \in Seq(Pid) /\ stopper \in Pid \cup {Nobody}
  /\ wayland \in [pc : {"idle", "associate"}, toplevel : Toplevel \cup {NoToplevel}]
  /\ windows \in [Toplevel -> [state : {"none", "live", "gone"}, client : Pid \cup {Nobody},
                               session : Session \cup {NoSession}]]

ClientInv ==
  /\ wayland.pc = "associate" =>
       wayland.toplevel \in Toplevel /\ windows[wayland.toplevel].state = "live"
  /\ \A t \in Toplevel : windows[t].state # "none" => windows[t].client \in Pid
  /\ \A t \in Toplevel : windows[t].client \in Pid => os[windows[t].client] # "unborn"
  /\ \A p \in Pid : os[p] # "unborn" => \A i \in DOMAIN Ancestry[p] : os[Ancestry[p][i]] # "unborn"

TablesInv ==
  /\ Sound(registry, pendingToplevels, windows, Opened, os)
  /\ Len(pendingToplevels) <= MaxPending

RegistryInv == ThreadsOK /\ ClientInv /\ TablesInv

\* The constants the cases are told apart by.
LEMMA RegistryConstants ==
  /\ \A p \in Pid : p # Nobody /\ p # App /\ p # NoSession /\ p \in Session
  /\ Engine \in Session /\ NoSession \notin Session
  /\ \A p \in Pid : /\ DOMAIN Ancestry[p] \subseteq Nat /\ 0 \notin DOMAIN Ancestry[p]
                   /\ \A i \in DOMAIN Ancestry[p] : Ancestry[p][i] \in Pid /\ 1..i \subseteq DOMAIN Ancestry[p]
BY ConstantsDiffer, AncestryIsALine DEF Session

\* Above a process are the one that forked it and those above that.
LEMMA AncestorsOfForked ==
  ASSUME NEW p \in Pid, NEW i \in DOMAIN Ancestry[p]
  PROVE  LET h == Head(Ancestry[p]) IN
         h \in Pid /\ (Ancestry[p][i] = h \/ \E k \in DOMAIN Ancestry[h] : Ancestry[p][i] = Ancestry[h][k])
<1> DEFINE s == Ancestry[p]
<1>1. s \in Seq(Pid) /\ i \in 1..Len(s) /\ s # <<>>
  BY AncestryIsALine
<1>2. Head(s) \in Pid /\ Head(s) = s[1]
  BY <1>1
<1>3. CASE i = 1
  BY <1>2, <1>3
<1>4. CASE i # 1
  <2>1. i - 1 \in DOMAIN Tail(s) /\ s[i] = Tail(s)[i - 1]
    BY <1>1, <1>4
  <2>2. Tail(s) = Ancestry[Head(s)]
    BY <1>1, AncestryIsALine
  <2> QED
    BY <1>2, <2>1, <2>2
<1> QED
  BY <1>3, <1>4

\* A window waits for the process it claims, as the processes are now.
LEMMA ClaimsAreWaits ==
  ASSUME ThreadsOK, NEW w, w.client \in Pid, NEW e
  PROVE  WaitsFor(w, e) <=> Claims(e, w, os)
BY DEF WaitsFor, Claims, IsProcessOrDescendant, WalkedUp, Above

LEMMA FirstIsOne ==
  ASSUME NEW I \in SUBSET Nat, I # {}
  PROVE  First(I) \in I
BY SmallestNat DEF First

\* A window or a process inherits the session of an entry, or none.
LEMMA FoundSession ==
  ASSUME TablesInv, NEW c
  PROVE  FindSessionIdForClientPid(c) \in Session \cup {NoSession}
<1> DEFINE SessionOf(p) == registry[First(RunningEntries(p))].session
           found == {d \in WalkedUp(c) : RunningEntries(Ancestry[c][d]) # {}}
<1>1. ASSUME NEW p, RunningEntries(p) # {} PROVE SessionOf(p) \in Session
  <2>1. registry \in Seq(RegisteredEntry)
    BY DEF TablesInv, Sound
  <2>2. RunningEntries(p) \in SUBSET DOMAIN registry /\ DOMAIN registry \subseteq Nat
    BY <2>1 DEF RunningEntries
  <2>3. First(RunningEntries(p)) \in DOMAIN registry
    BY <1>1, <2>2, FirstIsOne
  <2>4. registry[First(RunningEntries(p))] \in RegisteredEntry
    BY <2>1, <2>3
  <2> QED
    BY <2>4, EntryFields
<1>2. FindSessionIdForClientPid(c) =
        IF RunningEntries(c) # {} THEN SessionOf(c)
        ELSE IF found = {} THEN NoSession ELSE SessionOf(Ancestry[c][First(found)])
  BY DEF FindSessionIdForClientPid
<1>3. found # {} => RunningEntries(Ancestry[c][First(found)]) # {}
  <2>1. found \in SUBSET Nat
    BY RegistryConstants DEF WalkedUp, Above
  <2> QED
    BY <2>1, FirstIsOne
<1> HIDE DEF SessionOf, found
<1> QED
  BY <1>1, <1>2, <1>3

-----------------------------------------------------------------------------
\* Trimming erases ended entries only.
LEMMA TrimFacts ==
  ASSUME NEW r \in Seq(RegisteredEntry)
  PROVE  /\ Trim(r) \in Seq(RegisteredEntry) /\ PartOf(Trim(r), r, DOMAIN r)
         /\ \A i \in DOMAIN r : r[i].running => \E k \in DOMAIN Trim(r) : Trim(r)[k] = r[i]
<1> DEFINE surplus == Len(r) - MaxEntries + 1
           EndedUpTo(i) == Cardinality({j \in 1..i : ~r[j].running})
           I == {i \in DOMAIN r : r[i].running \/ EndedUpTo(i) > surplus}
<1>1. Trim(r) = Kept(r, I)
  BY DEF Trim
<1>2. I \in SUBSET DOMAIN r /\ \A i \in DOMAIN r : r[i].running => i \in I
  OBVIOUS
<1> HIDE DEF I
<1>3. /\ Kept(r, I) \in Seq(RegisteredEntry) /\ PartOf(Kept(r, I), r, I)
      /\ \A i \in I : \E k \in DOMAIN Kept(r, I) : Kept(r, I)[k] = r[i]
  BY <1>2, KeptFacts
<1>4. PartOf(Kept(r, I), r, DOMAIN r)
  BY <1>2, <1>3 DEF PartOf
<1> QED
  BY <1>1, <1>2, <1>3, <1>4

\* What registering p leaves of the registry: no entry of p, and every running
\* entry of another process.
LEMMA BaseFacts ==
  ASSUME registry \in Seq(RegisteredEntry), NEW p
  PROVE  /\ Trim(Others(p)) \in Seq(RegisteredEntry)
         /\ PartOf(Trim(Others(p)), registry, {i \in DOMAIN registry : registry[i].pid # p})
         /\ \A i \in DOMAIN registry : registry[i].running /\ registry[i].pid # p =>
              \E k \in DOMAIN Trim(Others(p)) : Trim(Others(p))[k] = registry[i]
<1> DEFINE I == {i \in DOMAIN registry : registry[i].pid # p}
<1>1. Others(p) = Kept(registry, I) /\ I \in SUBSET DOMAIN registry
  BY DEF Others
<1>2. \A i \in DOMAIN registry : registry[i].pid # p => i \in I
  OBVIOUS
<1> HIDE DEF I
<1>3. /\ Others(p) \in Seq(RegisteredEntry) /\ PartOf(Others(p), registry, I)
      /\ \A i \in I : \E k \in DOMAIN Others(p) : Others(p)[k] = registry[i]
  BY <1>1, KeptFacts
<1>4. /\ Trim(Others(p)) \in Seq(RegisteredEntry)
      /\ PartOf(Trim(Others(p)), Others(p), DOMAIN Others(p))
      /\ \A i \in DOMAIN Others(p) : Others(p)[i].running =>
           \E k \in DOMAIN Trim(Others(p)) : Trim(Others(p))[k] = Others(p)[i]
  BY <1>3, TrimFacts
<1>5. PartOf(Trim(Others(p)), registry, I)
  BY <1>1, <1>3, <1>4, PartOfPart
<1>6. ASSUME NEW i \in DOMAIN registry, registry[i].running, registry[i].pid # p
      PROVE  \E k \in DOMAIN Trim(Others(p)) : Trim(Others(p))[k] = registry[i]
  <2>1. PICK k \in DOMAIN Others(p) : Others(p)[k] = registry[i]
    BY <1>2, <1>3, <1>6
  <2> QED
    BY <1>4, <1>6, <2>1
<1> QED
  BY <1>4, <1>5, <1>6 DEF I

\* The pending windows that an entry claims are those that wait for it.
LEMMA ClaimedFacts ==
  ASSUME ThreadsOK, TablesInv, NEW e
  PROVE  /\ Claimed(e) = {j \in DOMAIN pendingToplevels : Claims(e, pendingToplevels[j], os)}
         /\ Unclaimed(e) \in Seq(PendingWindow) /\ Len(Unclaimed(e)) <= MaxPending
         /\ PartOf(Unclaimed(e), pendingToplevels,
                   {j \in DOMAIN pendingToplevels : ~Claims(e, pendingToplevels[j], os)})
         /\ Claimed(e) # {} => First(Claimed(e)) \in Claimed(e)
<1> DEFINE q == pendingToplevels
           I == {j \in DOMAIN q : ~Claims(e, q[j], os)}
<1>1. q \in Seq(PendingWindow) /\ Len(q) <= MaxPending
  BY DEF TablesInv, Sound
<1>2. \A j \in DOMAIN q : q[j].client \in Pid
  BY <1>1, EntryFields
<1>3. \A j \in DOMAIN q : WaitsFor(q[j], e) <=> Claims(e, q[j], os)
  BY <1>2, ClaimsAreWaits
<1>4. Claimed(e) = {j \in DOMAIN q : Claims(e, q[j], os)}
  BY <1>3 DEF Claimed
<1>5. Unclaimed(e) = Kept(q, I) /\ I \in SUBSET DOMAIN q
  BY <1>4 DEF Unclaimed
<1>6. Claimed(e) \in SUBSET Nat
  BY <1>1, <1>4
<1> HIDE DEF I
<1>7. Kept(q, I) \in Seq(PendingWindow) /\ Len(Kept(q, I)) <= Len(q) /\ PartOf(Kept(q, I), q, I)
  BY <1>1, <1>5, KeptFacts
<1>8. Len(Kept(q, I)) <= MaxPending
  <2>1. Len(Kept(q, I)) \in Nat /\ Len(q) \in Nat /\ MaxPending \in Nat
    BY <1>1, <1>7, BoundsArePositive
  <2> QED
    BY <1>1, <1>7, <2>1
<1> QED
  BY <1>4, <1>5, <1>6, <1>7, <1>8, FirstIsOne DEF I

\* AddProcess, by the broker or by the application.
LEMMA ProcessAdded ==
  ASSUME ThreadsOK, TablesInv, NEW p \in Pid, NEW name \in Session, AddProcess(p, name),
         os' = os, windows' = windows, wayland' = wayland
  PROVE  TablesInv'
<1> DEFINE e == [pid |-> p, session |-> name, toplevel |-> NoToplevel, running |-> TRUE]
           x == pendingToplevels[First(Claimed(e))].toplevel
           d == IF Claimed(e) = {} THEN e ELSE [e EXCEPT !.toplevel = x]
<1>1. registry' = Append(Trim(Others(p)), d) /\ pendingToplevels' = Unclaimed(e)
  BY DEF AddProcess
<1>2. e \in RegisteredEntry
  BY DEF RegisteredEntry
<1>3. Claimed(e) # {} => x \in Toplevel
  <2> HIDE DEF e
  <2>1. Claimed(e) # {} => First(Claimed(e)) \in DOMAIN pendingToplevels
    BY ClaimedFacts
  <2>2. pendingToplevels \in Seq(PendingWindow)
    BY DEF TablesInv, Sound
  <2>3. \A j \in DOMAIN pendingToplevels : pendingToplevels[j].toplevel \in Toplevel
    BY <2>2, EntryFields
  <2> QED
    BY <2>1, <2>3
<1>4. d \in RegisteredEntry /\ d.pid = p /\ d.session = name
      /\ d.toplevel = IF Claimed(e) = {} THEN NoToplevel ELSE x
  <2> HIDE DEF x
  <2>1. CASE Claimed(e) = {}
    BY <1>2, <2>1
  <2>2. CASE Claimed(e) # {}
    <3>1. LET z == [e EXCEPT !.toplevel = x] IN
          z \in RegisteredEntry /\ z.pid = e.pid /\ z.session = e.session /\ z.toplevel = x
      <4> HIDE DEF e
      <4> QED
        BY <1>2, <1>3, <2>2, EntryGiven
    <3> QED
      BY <2>2, <3>1
  <2> QED
    BY <2>1, <2>2
<1>5. \A w : Claims(d, w, os) <=> Claims(e, w, os)
  BY <1>4 DEF Claims
<1> HIDE DEF d
<1>6. \/ d.toplevel = NoToplevel
      \/ \E j \in DOMAIN pendingToplevels :
           d.toplevel = pendingToplevels[j].toplevel /\ Claims(d, pendingToplevels[j], os)
  BY <1>4, <1>5, ClaimedFacts
<1> HIDE DEF e, x
<1>7. Unclaimed(e) \in Seq(PendingWindow) /\ Len(Unclaimed(e)) <= MaxPending
      /\ PartOf(Unclaimed(e), pendingToplevels,
                {j \in DOMAIN pendingToplevels : ~Claims(d, pendingToplevels[j], os)})
  BY <1>5, ClaimedFacts
<1>8. /\ Trim(Others(p)) \in Seq(RegisteredEntry)
      /\ PartOf(Trim(Others(p)), registry, {i \in DOMAIN registry : registry[i].pid # p})
  BY BaseFacts DEF TablesInv, Sound
<1>9. Sound(registry, pendingToplevels, windows, Opened, os)
  BY DEF TablesInv
<1>10. Sound(Append(Trim(Others(p)), d), Unclaimed(e), windows, Opened, os)
  BY <1>4, <1>6, <1>7, <1>8, <1>9, SoundAdded
<1>11. Opened' = Opened
  BY DEF Opened
<1> QED
  BY <1>1, <1>7, <1>10, <1>11 DEF TablesInv

\* RemoveProcess, by an exit callback, the monitor or StopWineSession.
LEMMA ProcessRemoved ==
  ASSUME TablesInv, NEW p, RemoveProcess(p),
         UNCHANGED <<os, windows, wayland, pendingToplevels>>
  PROVE  TablesInv'
<1>1. Sound(registry, pendingToplevels, windows, Opened, os)
  BY DEF TablesInv
<1> DEFINE r2 == [i \in DOMAIN registry |->
                    IF registry[i].pid = p THEN [registry[i] EXCEPT !.running = FALSE]
                    ELSE registry[i]]
<1>2. \A i \in DOMAIN registry : registry[i] \in RegisteredEntry
  BY <1>1 DEF Sound
<1>3. ASSUME NEW i \in DOMAIN registry
      PROVE  /\ r2[i] \in RegisteredEntry
             /\ r2[i].pid = registry[i].pid /\ r2[i].session = registry[i].session
             /\ r2[i].toplevel \in {registry[i].toplevel, NoToplevel}
  <2> DEFINE d == [registry[i] EXCEPT !.running = FALSE]
  <2>1. d \in RegisteredEntry /\ d.pid = registry[i].pid /\ d.session = registry[i].session
        /\ d.toplevel = registry[i].toplevel
    BY <1>2, EntryMarked
  <2>2. r2[i] = IF registry[i].pid = p THEN d ELSE registry[i]
    OBVIOUS
  <2> HIDE DEF d, r2
  <2> QED
    BY <1>2, <2>1, <2>2
<1>4. r2 \in [DOMAIN registry -> RegisteredEntry]
  BY <1>3
<1>5. registry' = r2
  BY DEF RemoveProcess
<1> HIDE DEF r2
<1>6. Sound(r2, pendingToplevels, windows, Opened, os)
  BY <1>1, <1>3, <1>4, SoundChanged
<1> QED
  BY <1>5, <1>6 DEF TablesInv, Opened

\* The second call of xs_get_toplevel: an entry takes the window or it waits.
LEMMA ToplevelAssociated ==
  ASSUME ThreadsOK, ClientInv, TablesInv, Associate
  PROVE  TablesInv'
<1> DEFINE t == wayland.toplevel
           w == [client |-> windows[t].client, toplevel |-> t, session |-> windows[t].session]
           takers == {i \in DOMAIN registry : WaitsFor(w, registry[i])}
           f == First(takers)
<1>1. t \in Toplevel /\ windows[t].state = "live" /\ windows[t].client \in Pid /\ t # NoToplevel
  BY ConstantsDiffer DEF Associate, ClientInv
<1>2. w \in PendingWindow
  BY <1>1 DEF PendingWindow, ThreadsOK
<1>3. t \notin Opened /\ Opened' = Opened \cup {t}
  <2>1. windows' = windows /\ wayland'.toplevel = NoToplevel /\ NoToplevel \notin Toplevel
    BY ConstantsDiffer DEF Associate
  <2> QED
    BY <1>1, <2>1 DEF Opened
<1>4. \A e : WaitsFor(w, e) <=> Claims(e, w, os)
  BY <1>1, ClaimsAreWaits
<1>5. Sound(registry, pendingToplevels, windows, Opened, os)
  BY DEF TablesInv
<1>6. AssociateToplevelWithSession(w) /\ windows' = windows /\ os' = os
  BY DEF Associate
<1>7. takers \in SUBSET Nat /\ DOMAIN registry \subseteq Nat
  BY <1>5 DEF Sound
<1> HIDE DEF w
<1>8. CASE takers # {}
  <2>1. f \in takers
    BY <1>7, <1>8, FirstIsOne
  <2>2. f \in DOMAIN registry /\ Claims(registry[f], w, os)
    BY <1>4, <2>1
  <2>3. /\ registry' = IF registry[f].toplevel # NoToplevel THEN registry
                       ELSE [registry EXCEPT ![f].toplevel = t]
        /\ pendingToplevels' = pendingToplevels
    BY <1>6, <1>8 DEF AssociateToplevelWithSession, w
  <2> HIDE DEF f, takers
  <2>4. CASE registry[f].toplevel # NoToplevel
    <3>1. Sound(registry, pendingToplevels, windows, Opened \cup {t}, os)
      <4>1. \A i \in DOMAIN registry : registry[i].toplevel # NoToplevel => registry[i].toplevel \in Opened \cup {t}
        BY <1>5 DEF Sound, EntrySound
      <4>2. \A j \in DOMAIN pendingToplevels : pendingToplevels[j].toplevel \in Opened \cup {t}
        BY <1>5 DEF Sound, PendingSound
      <4> QED
        BY <1>5, <4>1, <4>2, SoundElsewhere
    <3> QED
      BY <1>3, <1>6, <2>3, <2>4, <3>1 DEF TablesInv
  <2>5. CASE registry[f].toplevel = NoToplevel
    <3>1. Sound([registry EXCEPT ![f].toplevel = t], pendingToplevels, windows, Opened \cup {t}, os)
      BY <1>1, <1>3, <1>5, <2>2, <2>5, SoundTaken DEF w
    <3> QED
      BY <1>3, <1>6, <2>3, <2>5, <3>1 DEF TablesInv
  <2> QED
    BY <2>4, <2>5
<1>9. CASE takers = {}
  <2>1. pendingToplevels' = Enqueue(w) /\ registry' = registry
    BY <1>6, <1>9 DEF AssociateToplevelWithSession
  <2>2. \A i \in DOMAIN registry : ~Claims(registry[i], w, os)
    BY <1>4, <1>9
  <2>3. w.toplevel = t /\ windows[w.toplevel].client = w.client /\ windows[w.toplevel].session = w.session
    BY DEF w
  <2> DEFINE q == pendingToplevels
  <2>4. /\ Sound(registry, Append(q, w), windows, Opened \cup {t}, os)
        /\ Sound(registry, Tail(Append(q, w)), windows, Opened \cup {t}, os)
        /\ Len(Append(q, w)) = Len(q) + 1 /\ Len(Tail(Append(q, w))) = Len(q)
    BY <1>2, <1>3, <1>5, <2>2, <2>3, SoundQueued
  <2>5. Len(q) \in Nat /\ Len(q) <= MaxPending /\ MaxPending \in Nat
    BY <1>5, BoundsArePositive DEF Sound, TablesInv
  <2>6. Sound(registry, Enqueue(w), windows, Opened \cup {t}, os) /\ Len(Enqueue(w)) <= MaxPending
    BY <2>4, <2>5 DEF Enqueue
  <2> QED
    BY <1>3, <1>6, <2>1, <2>6 DEF TablesInv
<1> QED
  BY <1>8, <1>9

\* xs_destroy: the window is forgotten wherever it was.
LEMMA ToplevelDestroyed ==
  ASSUME ThreadsOK, TablesInv, NEW t \in Toplevel, DestroyToplevel(t)
  PROVE  TablesInv'
<1>1. Sound(registry, pendingToplevels, windows, Opened, os) /\ t # NoToplevel
  BY ConstantsDiffer DEF TablesInv
<1> DEFINE r2 == [i \in DOMAIN registry |->
                    IF registry[i].toplevel = t
                    THEN [registry[i] EXCEPT !.toplevel = NoToplevel] ELSE registry[i]]
           J == {j \in DOMAIN pendingToplevels : pendingToplevels[j].toplevel # t}
           q2 == Kept(pendingToplevels, J)
<1>2. registry' = r2 /\ pendingToplevels' = q2
  BY DEF DestroyToplevel, RemoveToplevelAssociation
<1>3. \A i \in DOMAIN registry : registry[i] \in RegisteredEntry
  BY <1>1 DEF Sound
<1>4. ASSUME NEW i \in DOMAIN registry
      PROVE  /\ r2[i] \in RegisteredEntry
             /\ r2[i].pid = registry[i].pid /\ r2[i].session = registry[i].session
             /\ r2[i].toplevel = IF registry[i].toplevel = t THEN NoToplevel ELSE registry[i].toplevel
  <2> DEFINE d == [registry[i] EXCEPT !.toplevel = NoToplevel]
  <2>1. d \in RegisteredEntry /\ d.pid = registry[i].pid /\ d.session = registry[i].session
        /\ d.toplevel = NoToplevel
    BY <1>3, EntryGiven
  <2>2. r2[i] = IF registry[i].toplevel = t THEN d ELSE registry[i]
    OBVIOUS
  <2> HIDE DEF d, r2
  <2> QED
    BY <1>3, <2>1, <2>2
<1>5. r2 \in [DOMAIN registry -> RegisteredEntry]
  BY <1>4
<1>6. J \in SUBSET DOMAIN pendingToplevels
  OBVIOUS
<1> HIDE DEF r2
<1>7. /\ q2 \in Seq(PendingWindow) /\ Len(q2) <= Len(pendingToplevels)
      /\ PartOf(q2, pendingToplevels, J)
  <2> HIDE DEF J
  <2> QED
    BY <1>1, <1>6, KeptFacts DEF Sound
<1> HIDE DEF q2
<1>8. Sound(r2, q2, windows, Opened \ {t}, os)
  <2>1. \A i \in DOMAIN registry :
          /\ r2[i].pid = registry[i].pid /\ r2[i].session = registry[i].session
          /\ r2[i].toplevel \in {registry[i].toplevel, NoToplevel} \ {t}
    BY <1>1, <1>4
  <2>2. \A j \in J : pendingToplevels[j].toplevel # t
    OBVIOUS
  <2> HIDE DEF J
  <2> QED
    BY <1>1, <1>5, <1>6, <1>7, <2>1, <2>2, SoundWithout
<1>9. /\ windows' = [windows EXCEPT ![t].state = "gone"] /\ os' = os /\ wayland' = wayland
  BY DEF DestroyToplevel
<1>10. Opened' = Opened \ {t}
  BY <1>9 DEF Opened, ThreadsOK
<1>11. \A u \in Opened \ {t} : windows'[u].client = windows[u].client /\ windows'[u].session = windows[u].session
  BY <1>9 DEF Opened, ThreadsOK
<1>12. Sound(r2, q2, windows', Opened \ {t}, os)
  <2>1. \A i \in DOMAIN r2 : r2[i].toplevel # NoToplevel => r2[i].toplevel \in Opened \ {t}
    BY <1>8 DEF Sound, EntrySound
  <2>2. \A j \in DOMAIN q2 : q2[j].toplevel \in Opened \ {t}
    BY <1>8 DEF Sound, PendingSound
  <2> QED
    BY <1>8, <1>11, <2>1, <2>2, SoundElsewhere
<1>13. Len(q2) <= MaxPending
  <2>1. Len(q2) \in Nat /\ Len(pendingToplevels) \in Nat /\ MaxPending \in Nat
    BY <1>1, <1>7, BoundsArePositive DEF Sound
  <2> QED
    BY <1>7, <2>1 DEF TablesInv
<1> QED
  BY <1>2, <1>9, <1>10, <1>12, <1>13 DEF TablesInv

-----------------------------------------------------------------------------
\* Processes end: nobody gains a descendant.
LEMMA ProcessesDied ==
  ASSUME ThreadsOK, ClientInv, TablesInv,
         NEW dying \in SUBSET Pid, \A p \in dying : os[p] = "alive", Die(dying),
         registry' = registry, pendingToplevels' \in {pendingToplevels, <<>>},
         windows' = windows, wayland' = wayland
  PROVE  /\ os' \in [Pid -> {"unborn", "alive", "exited"}] /\ notices' \subseteq Pid
         /\ ClientInv' /\ TablesInv'
<1>1. os' = [p \in Pid |-> IF p \in dying THEN "exited" ELSE os[p]]
  BY DEF Die
<1>2. os' \in [Pid -> {"unborn", "alive", "exited"}]
  BY <1>1 DEF ThreadsOK
<1>3. notices' \subseteq Pid
  BY DEF Die, ThreadsOK
<1>4. \A p \in Pid : /\ os'[p] = "unborn" <=> os[p] = "unborn"
                     /\ os'[p] = "alive" => os[p] = "alive"
  BY <1>1
<1>5. ClientInv'
  <2>1. \A t \in Toplevel : windows[t].client \in Pid => os'[windows[t].client] # "unborn"
    BY <1>4 DEF ClientInv
  <2>2. \A p \in Pid : os'[p] # "unborn" => \A i \in DOMAIN Ancestry[p] : os'[Ancestry[p][i]] # "unborn"
    BY <1>4, RegistryConstants DEF ClientInv
  <2> QED
    BY <2>1, <2>2 DEF ClientInv
<1>6. Sound(registry, pendingToplevels, windows, Opened, os)
  BY DEF TablesInv
<1>7. Sound(registry, pendingToplevels, windows, Opened, os')
  <2>1. ASSUME NEW i \in DOMAIN registry, NEW j \in DOMAIN pendingToplevels,
               Claims(registry[i], pendingToplevels[j], os')
        PROVE  Claims(registry[i], pendingToplevels[j], os)
    <3>1. pendingToplevels[j].client \in Pid
      BY <1>6, EntryFields DEF Sound
    <3> QED
      BY <1>4, <2>1, <3>1, RegistryConstants DEF Claims
  <2>2. \A i \in DOMAIN registry : registry[i].toplevel # NoToplevel => registry[i].toplevel \in Opened
    BY <1>6 DEF Sound, EntrySound
  <2>3. \A j \in DOMAIN pendingToplevels : pendingToplevels[j].toplevel \in Opened
    BY <1>6 DEF Sound, PendingSound
  <2> QED
    BY <1>6, <2>1, <2>2, <2>3, SoundElsewhere
<1>8. Sound(registry, <<>>, windows, Opened, os')
  BY <1>7, SoundEmptied
<1>9. Opened' = Opened
  BY DEF Opened
<1>10. Len(<<>>) <= MaxPending
  BY BoundsArePositive
<1> QED
  BY <1>2, <1>3, <1>5, <1>7, <1>8, <1>9, <1>10 DEF TablesInv

\* A process starts: it is nobody's parent yet, and has opened nothing.
LEMMA ProcessBorn ==
  ASSUME ThreadsOK, ClientInv, TablesInv, NEW p \in Pid, os[p] = "unborn",
         Ancestry[p] # <<>> => os[Head(Ancestry[p])] = "alive", os' = [os EXCEPT ![p] = "alive"],
         UNCHANGED <<registry, pendingToplevels, windows, wayland>>
  PROVE  /\ os' \in [Pid -> {"unborn", "alive", "exited"}]
         /\ ClientInv' /\ TablesInv'
<1>1. os' \in [Pid -> {"unborn", "alive", "exited"}]
  BY DEF ThreadsOK
<1>2. os'[p] = "alive" /\ \A x \in Pid : x # p => os'[x] = os[x]
  BY DEF ThreadsOK
<1>3. ClientInv'
  <2>1. \A t \in Toplevel : windows[t].client \in Pid => os'[windows[t].client] # "unborn"
    BY <1>2 DEF ClientInv
  <2>2. ASSUME NEW x \in Pid, os'[x] # "unborn", NEW i \in DOMAIN Ancestry[x]
        PROVE  os'[Ancestry[x][i]] # "unborn"
    <3>1. Ancestry[x][i] \in Pid /\ Ancestry[x] # <<>>
      BY RegistryConstants
    <3>2. CASE x = p
      <4>1. PICK h \in Pid : /\ os[h] = "alive"
                             /\ Ancestry[x][i] = h \/ \E k \in DOMAIN Ancestry[h] : Ancestry[x][i] = Ancestry[h][k]
        BY <3>1, <3>2, AncestorsOfForked
      <4>2. os[h] # "unborn"
        BY <4>1
      <4>3. \A k \in DOMAIN Ancestry[h] : os[Ancestry[h][k]] # "unborn"
        BY <4>2 DEF ClientInv
      <4> QED
        BY <1>2, <3>1, <4>1, <4>2, <4>3
    <3>3. CASE x # p
      <4>1. os[Ancestry[x][i]] # "unborn"
        BY <1>2, <2>2, <3>3 DEF ClientInv
      <4> QED
        BY <1>2, <3>1, <4>1
    <3> QED
      BY <3>2, <3>3
  <2> QED
    BY <2>1, <2>2 DEF ClientInv
<1>4. Sound(registry, pendingToplevels, windows, Opened, os)
  BY DEF TablesInv
<1>5. Sound(registry, pendingToplevels, windows, Opened, os')
  <2>1. ASSUME NEW i \in DOMAIN registry, NEW j \in DOMAIN pendingToplevels,
               Claims(registry[i], pendingToplevels[j], os')
        PROVE  Claims(registry[i], pendingToplevels[j], os)
    <3> DEFINE c == pendingToplevels[j].client
               t == pendingToplevels[j].toplevel
    <3>1. c \in Pid /\ t \in Toplevel /\ windows[t].client = c
      BY <1>4, EntryFields DEF Sound, PendingSound
    <3>2. os[c] # "unborn" /\ c # p
      BY <3>1 DEF ClientInv
    <3>3. \A d \in DOMAIN Ancestry[c] : \A k \in 1..d :
            os'[Ancestry[c][k]] = os[Ancestry[c][k]]
      <4>1. \A k \in DOMAIN Ancestry[c] : Ancestry[c][k] \in Pid /\ Ancestry[c][k] # p
        BY <3>1, <3>2, RegistryConstants DEF ClientInv
      <4> QED
        BY <1>2, <3>1, <4>1, RegistryConstants
    <3> QED
      BY <1>2, <2>1, <3>1, <3>2, <3>3 DEF Claims
  <2>2. \A i \in DOMAIN registry : registry[i].toplevel # NoToplevel => registry[i].toplevel \in Opened
    BY <1>4 DEF Sound, EntrySound
  <2>3. \A j \in DOMAIN pendingToplevels : pendingToplevels[j].toplevel \in Opened
    BY <1>4 DEF Sound, PendingSound
  <2> QED
    BY <1>4, <2>1, <2>2, <2>3, SoundElsewhere
<1>6. Opened' = Opened
  BY DEF Opened
<1> QED
  BY <1>1, <1>3, <1>5, <1>6 DEF TablesInv

\* The first call of xs_get_toplevel: the window is in no table yet.
LEMMA ToplevelOpened ==
  ASSUME ThreadsOK, ClientInv, TablesInv, NEW p \in Pid, NEW t \in Toplevel, OpenToplevel(p, t)
  PROVE  RegistryInv'
<1>1. FindSessionIdForClientPid(p) \in Session \cup {NoSession}
  BY FoundSession
<1> DEFINE w == [state |-> "live", client |-> p, session |-> FindSessionIdForClientPid(p)]
<1>2. /\ windows[t].state = "none" /\ os[p] = "alive" /\ windows' = [windows EXCEPT ![t] = w]
      /\ wayland' = [pc |-> "associate", toplevel |-> t]
      /\ UNCHANGED <<os, broker, registry, pendingToplevels, notices, monitor, stopper>>
  BY DEF OpenToplevel
<1>3. w.client = p /\ w.state = "live"
      /\ w \in [state : {"none", "live", "gone"}, client : Pid \cup {Nobody},
                session : Session \cup {NoSession}]
  BY <1>1
<1> HIDE DEF w
<1>4. windows' \in [Toplevel -> [state : {"none", "live", "gone"}, client : Pid \cup {Nobody},
                                 session : Session \cup {NoSession}]]
      /\ windows'[t] = w /\ \A u \in Toplevel : u # t => windows'[u] = windows[u]
  BY <1>2, <1>3 DEF ThreadsOK
<1>5. ThreadsOK'
  BY <1>2, <1>4 DEF ThreadsOK
<1>6. ClientInv'
  BY <1>2, <1>3, <1>4 DEF ClientInv
<1>7. Sound(registry, pendingToplevels, windows, Opened, os) /\ t \notin Opened
  BY <1>2 DEF TablesInv, Opened
<1>8. \A u \in Opened : u \in Opened' /\ windows'[u] = windows[u]
  BY <1>2, <1>4, <1>7 DEF Opened
<1>9. Sound(registry, pendingToplevels, windows', Opened', os)
  <2>1. \A i \in DOMAIN registry : registry[i].toplevel # NoToplevel => registry[i].toplevel \in Opened'
    BY <1>7, <1>8 DEF Sound, EntrySound
  <2>2. \A j \in DOMAIN pendingToplevels : pendingToplevels[j].toplevel \in Opened'
    BY <1>7, <1>8 DEF Sound, PendingSound
  <2> QED
    BY <1>7, <1>8, <2>1, <2>2, SoundElsewhere
<1> QED
  BY <1>2, <1>5, <1>6, <1>9 DEF TablesInv, RegistryInv

-----------------------------------------------------------------------------
\* A thread's own variables, when the rest is left alone.
LEMMA ThreadMoves ==
  ASSUME ThreadsOK, ClientInv, UNCHANGED <<os, windows, wayland>>,
         broker' \in [Pid -> BrokerThread],
         notices' \subseteq Pid, monitor' \in Seq(Pid), stopper' \in Pid \cup {Nobody}
  PROVE  ThreadsOK' /\ ClientInv'
BY DEF ThreadsOK, ClientInv

LEMMA TablesStay ==
  ASSUME TablesInv, UNCHANGED <<registry, pendingToplevels, os, windows, wayland>>
  PROVE  TablesInv'
BY DEF TablesInv, Opened

LEMMA RegistryInitially == RegistryInit => RegistryInv
<1> SUFFICES ASSUME RegistryInit PROVE RegistryInv
  OBVIOUS
<1>1. ThreadsOK
  BY DEF RegistryInit, ThreadsOK, BrokerThread
<1>2. ClientInv
  BY RegistryConstants, ConstantsDiffer DEF RegistryInit, ClientInv
<1>3. TablesInv
  BY BoundsArePositive DEF RegistryInit, TablesInv, Sound, Distinct, OnePerPid
<1> QED
  BY <1>1, <1>2, <1>3 DEF RegistryInv

LEMMA RegistrySteps == RegistryInv /\ [RegistryNext]_registryVars => RegistryInv'
<1> SUFFICES ASSUME RegistryInv, [RegistryNext]_registryVars PROVE RegistryInv'
  OBVIOUS
<1> USE DEF RegistryInv
<1>0. /\ notices \subseteq Pid /\ monitor \in Seq(Pid) /\ stopper \in Pid \cup {Nobody}
      /\ broker \in [Pid -> BrokerThread]
  BY DEF ThreadsOK
<1>1. ASSUME NEW p \in Pid, NEW peer \in Pid \cup {App}, StartNativeChildProcess(p, peer) PROVE RegistryInv'
  <2>1. os' \in [Pid -> {"unborn", "alive", "exited"}] /\ ClientInv' /\ TablesInv'
    BY <1>1, ProcessBorn DEF StartNativeChildProcess
  <2>2. broker' \in [Pid -> BrokerThread]
    BY <1>0, <1>1 DEF StartNativeChildProcess, BrokerThread
  <2> QED
    BY <1>1, <2>1, <2>2 DEF StartNativeChildProcess, ThreadsOK
<1>2. ASSUME NEW p \in Pid, InheritSession(p) PROVE RegistryInv'
  <2>1. FindSessionIdForClientPid(broker[p].peer) \in Session \cup {NoSession}
    BY FoundSession
  <2>2. broker' \in [Pid -> BrokerThread]
    BY <1>0, <1>2, <2>1 DEF InheritSession, BrokerThread
  <2> QED
    BY <1>0, <1>2, <2>2, ThreadMoves, TablesStay DEF InheritSession
<1>3. ASSUME NEW p \in Pid, RegisterChild(p) PROVE RegistryInv'
  <2>1. (IF broker[p].session = NoSession THEN p ELSE broker[p].session) \in Session
    BY <1>0, RegistryConstants DEF Session, BrokerThread
  <2>2. broker' \in [Pid -> BrokerThread]
    BY <1>0, <1>3 DEF RegisterChild, BrokerThread
  <2>3. TablesInv'
    BY <1>3, <2>1, ProcessAdded DEF RegisterChild
  <2> QED
    BY <1>0, <1>3, <2>2, <2>3, ThreadMoves DEF RegisterChild
<1>4. ASSUME NEW p \in Pid, NEW name \in {p, Engine}, RegisterAgain(p, name) PROVE RegistryInv'
  <2>1. name \in Session
    BY RegistryConstants
  <2>2. broker' \in [Pid -> BrokerThread]
    BY <1>0, <1>4 DEF RegisterAgain, BrokerThread
  <2>3. TablesInv'
    BY <1>4, <2>1, ProcessAdded DEF RegisterAgain
  <2> QED
    BY <1>0, <1>4, <2>2, <2>3, ThreadMoves DEF RegisterAgain
<1>5. ASSUME NEW p \in Pid, Fork(p) PROVE RegistryInv'
  <2>1. os' \in [Pid -> {"unborn", "alive", "exited"}] /\ ClientInv' /\ TablesInv'
    BY <1>5, ProcessBorn DEF Fork
  <2> QED
    BY <1>5, <2>1 DEF Fork, ThreadsOK
<1>6. ASSUME NEW p \in Pid, Exit(p) PROVE RegistryInv'
  <2>1. {p} \in SUBSET Pid /\ (\A x \in {p} : os[x] = "alive") /\ Die({p})
    BY <1>6 DEF Exit
  <2>2. UNCHANGED <<broker, registry, pendingToplevels, monitor, wayland, windows, stopper>>
    BY <1>6 DEF Exit
  <2>3. /\ os' \in [Pid -> {"unborn", "alive", "exited"}] /\ notices' \subseteq Pid
        /\ ClientInv' /\ TablesInv'
    BY <2>1, <2>2, ProcessesDied
  <2> QED
    BY <2>2, <2>3 DEF ThreadsOK
<1>7. ASSUME NEW p \in Pid, NoticeExit(p) PROVE RegistryInv'
  BY <1>0, <1>7, ProcessRemoved, ThreadMoves DEF NoticeExit
<1>8. ASSUME NEW p \in Pid, NEW t \in Toplevel, OpenToplevel(p, t) PROVE RegistryInv'
  BY <1>8, ToplevelOpened
<1>9. ASSUME MonitorLooks PROVE RegistryInv'
  <2> DEFINE I == {i \in DOMAIN registry : registry[i].running /\ os[registry[i].pid] = "exited"}
             gone == Kept(registry, I)
  <2>1. monitor' = [i \in DOMAIN gone |-> gone[i].pid]
    BY <1>9 DEF MonitorLooks
  <2>2. I \in SUBSET DOMAIN registry /\ registry \in Seq(RegisteredEntry)
    BY DEF TablesInv, Sound
  <2> HIDE DEF I
  <2>3. gone \in Seq(RegisteredEntry)
    BY <2>2, KeptFacts
  <2> HIDE DEF gone
  <2>4. monitor' \in Seq(Pid)
    <3>1. Len(gone) \in Nat /\ DOMAIN gone = 1..Len(gone)
      BY <2>3
    <3>2. \A i \in DOMAIN gone : gone[i].pid \in Pid
      BY <2>3, EntryFields
    <3> QED
      BY <2>1, <3>1, <3>2
  <2> QED
    BY <1>0, <1>9, <2>4, ThreadMoves, TablesStay DEF MonitorLooks
<1>10. ASSUME MonitorMarks PROVE RegistryInv'
  <2>1. monitor' \in Seq(Pid)
    BY <1>0, <1>10 DEF MonitorMarks
  <2> QED
    BY <1>0, <1>10, <2>1, ProcessRemoved, ThreadMoves DEF MonitorMarks
<1>11. ASSUME StopMarks PROVE RegistryInv'
  BY <1>0, <1>11, ProcessRemoved, ThreadMoves DEF StopMarks
<1>12. ASSUME KillAllProcesses PROVE RegistryInv'
  <2> DEFINE D == {p \in Pid : os[p] = "alive" /\ IsProcessRegisteredRunning(p)}
  <2>1. D \in SUBSET Pid /\ (\A x \in D : os[x] = "alive") /\ Die(D)
    BY <1>12 DEF KillAllProcesses
  <2>2. UNCHANGED <<broker, registry, monitor, wayland, windows, stopper>> /\ pendingToplevels' = <<>>
    BY <1>12 DEF KillAllProcesses
  <2> HIDE DEF D
  <2>3. /\ os' \in [Pid -> {"unborn", "alive", "exited"}] /\ notices' \subseteq Pid
        /\ ClientInv' /\ TablesInv'
    BY <2>1, <2>2, ProcessesDied
  <2> QED
    BY <2>2, <2>3 DEF ThreadsOK
<1>13. ASSUME NEW p \in Pid, StopKills(p) PROVE RegistryInv'
  <2> DEFINE D == Tree(p)
  <2>1. D \in SUBSET Pid /\ (\A x \in D : os[x] = "alive") /\ Die(D)
    BY <1>13 DEF StopKills, Tree
  <2>2. UNCHANGED <<broker, registry, pendingToplevels, monitor, wayland, windows>> /\ stopper' = p
    BY <1>13 DEF StopKills
  <2> HIDE DEF D
  <2>3. /\ os' \in [Pid -> {"unborn", "alive", "exited"}] /\ notices' \subseteq Pid
        /\ ClientInv' /\ TablesInv'
    BY <2>1, <2>2, ProcessesDied
  <2> QED
    BY <2>2, <2>3 DEF ThreadsOK
<1>14. ASSUME Associate PROVE RegistryInv'
  <2>1. TablesInv'
    BY <1>14, ToplevelAssociated
  <2>2. ClientInv' /\ ThreadsOK'
    BY <1>14 DEF Associate, ClientInv, ThreadsOK
  <2> QED
    BY <2>1, <2>2
<1>15. ASSUME NEW t \in Toplevel, DestroyToplevel(t) PROVE RegistryInv'
  <2>1. TablesInv'
    BY <1>15, ToplevelDestroyed
  <2>2. /\ windows' = [windows EXCEPT ![t].state = "gone"]
        /\ windows[t].state = "live" /\ wayland.pc = "idle"
        /\ UNCHANGED <<os, broker, notices, monitor, wayland, stopper>>
    BY <1>15 DEF DestroyToplevel
  <2>3. /\ windows' \in [Toplevel -> [state : {"none", "live", "gone"}, client : Pid \cup {Nobody},
                                      session : Session \cup {NoSession}]]
        /\ \A u \in Toplevel : windows'[u].client = windows[u].client
        /\ \A u \in Toplevel : windows'[u].state # "none" => windows[u].state # "none"
    BY <2>2 DEF ThreadsOK
  <2>4. ClientInv' /\ ThreadsOK'
    BY <2>2, <2>3 DEF ClientInv, ThreadsOK
  <2> QED
    BY <2>1, <2>4
<1>16. CASE UNCHANGED registryVars
  BY <1>0, <1>16, ThreadMoves, TablesStay DEF registryVars
<1>17. \A e \in ToSet(registry) : e.pid \in Pid
  BY EntryFields DEF TablesInv, Sound, ToSet
<1> QED
  BY <1>1, <1>2, <1>3, <1>4, <1>5, <1>6, <1>7, <1>8, <1>9, <1>10, <1>11, <1>12, <1>13, <1>14, <1>15,
     <1>16, <1>17 DEF RegistryNext, BrokerStep, AppStep, MonitorStep

\* A set of at most one place.
LEMMA AtMostOne ==
  ASSUME NEW I, \A i, j \in I : i = j
  PROVE  /\ Cardinality(I) \in {0, 1}
         /\ I = {} => Cardinality(I) = 0
<1>1. CASE I = {}
  BY <1>1, FS_EmptySet
<1>2. CASE I # {}
  <2>1. PICK i \in I : TRUE
    BY <1>2
  <2>2. I = {i}
    BY <2>1
  <2> QED
    BY <1>2, <2>2, FS_Singleton
<1> QED
  BY <1>1, <1>2

LEMMA RegistryInvariant == RegistrySpec => []RegistryInv
<1> QED
  BY RegistryInitially, RegistrySteps, PTL DEF RegistrySpec

LEMMA SoundTypes == RegistryInv => RegistryIsSound
<1> SUFFICES ASSUME RegistryInv PROVE RegistryIsSound
  OBVIOUS
<1>1. registry \in Seq(RegisteredEntry) /\ pendingToplevels \in Seq(PendingWindow)
  BY DEF RegistryInv, TablesInv, Sound
<1>2. RegistryTypeOK
  BY <1>1 DEF RegistryInv, ThreadsOK, TablesInv, RegistryTypeOK, RegisteredEntry,
              PendingWindow, BrokerThread
<1>3. OneEntryPerProcess
  BY DEF RegistryInv, TablesInv, Sound, OnePerPid, OneEntryPerProcess
<1> QED
  BY <1>2, <1>3 DEF RegistryIsSound

LEMMA OnePlace == RegistryInv => WindowHasOnePlace
<1> SUFFICES ASSUME RegistryInv, NEW t \in Toplevel
             PROVE  LET owners == Cardinality({i \in DOMAIN registry : registry[i].toplevel = t})
                        waiting == Cardinality({i \in DOMAIN pendingToplevels :
                                                  pendingToplevels[i].toplevel = t})
                    IN owners + waiting <= IF windows[t].state = "live" THEN 1 ELSE 0
  BY DEF WindowHasOnePlace
<1> DEFINE I == {i \in DOMAIN registry : registry[i].toplevel = t}
           J == {i \in DOMAIN pendingToplevels : pendingToplevels[i].toplevel = t}
<1>1. Sound(registry, pendingToplevels, windows, Opened, os) /\ t # NoToplevel
  BY ConstantsDiffer DEF RegistryInv, TablesInv
<1>2. (\A i, j \in I : i = j) /\ (\A i, j \in J : i = j)
  BY <1>1 DEF Sound, Distinct
<1>3. I = {} \/ J = {}
  BY <1>1 DEF Sound
<1>4. windows[t].state # "live" => I = {} /\ J = {}
  BY <1>1 DEF Sound, EntrySound, PendingSound, Opened
<1> HIDE DEF I, J
<1>5. /\ Cardinality(I) \in {0, 1} /\ Cardinality(J) \in {0, 1}
      /\ I = {} => Cardinality(I) = 0
      /\ J = {} => Cardinality(J) = 0
  BY <1>2, AtMostOne
<1>6. Cardinality(I) + Cardinality(J) <= IF windows[t].state = "live" THEN 1 ELSE 0
  BY <1>3, <1>4, <1>5
<1> QED
  BY <1>6 DEF I, J

LEMMA PendingAreUnclaimed == RegistryInv => PendingWindowsHaveNoProcess
<1> SUFFICES ASSUME RegistryInv, NEW w \in ToSet(pendingToplevels), NEW e \in ToSet(registry)
             PROVE  ~WaitsFor(w, e)
  BY DEF PendingWindowsHaveNoProcess, Entries
<1>1. Sound(registry, pendingToplevels, windows, Opened, os)
  BY DEF RegistryInv, TablesInv
<1>2. PICK j \in DOMAIN pendingToplevels : w = pendingToplevels[j]
  BY DEF ToSet
<1>3. PICK i \in DOMAIN registry : e = registry[i]
  BY DEF ToSet
<1>4. w.client \in Pid /\ ~Claims(e, w, os)
  BY <1>1, <1>2, <1>3, EntryFields DEF Sound
<1> QED
  BY <1>4, ClaimsAreWaits DEF RegistryInv

LEMMA Belongs == RegistryInv => WindowBelongsToSession
<1> SUFFICES ASSUME RegistryInv, NEW e \in ToSet(registry), e.toplevel # NoToplevel
             PROVE  LET w == windows[e.toplevel] IN
                    w.session = e.session \/ e.pid = w.client \/ e.pid \in ToSet(Ancestry[w.client])
  BY DEF WindowBelongsToSession, Entries
<1>1. PICK i \in DOMAIN registry : e = registry[i]
  BY DEF ToSet
<1>2. EntrySound(e, windows, Opened)
  BY <1>1 DEF RegistryInv, TablesInv, Sound
<1> QED
  BY <1>2 DEF EntrySound

\* Whatever is done to the registry, the entry of a running process stays.
LEMMA RunningStay ==
  ASSUME RegistryInv, [RegistryNext]_registryVars, NEW p \in Pid, IsProcessRegisteredRunning(p)
  PROVE  \E i \in DOMAIN registry' : registry'[i].pid = p
<1>1. PICK k \in DOMAIN registry : registry[k].pid = p /\ registry[k].running
  BY DEF IsProcessRegisteredRunning, RunningEntries
<1>2. registry \in Seq(RegisteredEntry)
  BY DEF RegistryInv, TablesInv, Sound
<1>3. ASSUME registry' = registry PROVE \E i \in DOMAIN registry' : registry'[i].pid = p
  BY <1>1, <1>3
<1>4. ASSUME NEW c, RemoveProcess(c) PROVE \E i \in DOMAIN registry' : registry'[i].pid = p
  <2>1. [registry[k] EXCEPT !.running = FALSE].pid = p
    BY <1>1, <1>2, EntryMarked
  <2>2. k \in DOMAIN registry' /\ registry'[k] \in {registry[k], [registry[k] EXCEPT !.running = FALSE]}
    BY <1>1, <1>4 DEF RemoveProcess
  <2> QED
    BY <1>1, <2>1, <2>2
<1>5. ASSUME NEW c \in Pid, NEW name \in Session, AddProcess(c, name)
      PROVE  \E i \in DOMAIN registry' : registry'[i].pid = p
  <2> DEFINE base == Trim(Others(c))
             d == [pid |-> c, session |-> name, toplevel |-> NoToplevel, running |-> TRUE]
             x == pendingToplevels[First(Claimed(d))].toplevel
             last == IF Claimed(d) = {} THEN d ELSE [d EXCEPT !.toplevel = x]
  <2>1. registry' = Append(base, last) /\ last.pid = c
    BY <1>5 DEF AddProcess
  <2>2. base \in Seq(RegisteredEntry)
    BY <1>2, BaseFacts
  <2>3. registry[k].pid # c => \E i \in DOMAIN base : base[i] = registry[k]
    BY <1>1, <1>2, BaseFacts
  <2> HIDE DEF base, last
  <2>4. /\ DOMAIN registry' = DOMAIN base \cup {Len(base) + 1} /\ registry'[Len(base) + 1] = last
        /\ \A i \in DOMAIN base : registry'[i] = base[i]
    BY <2>1, <2>2
  <2> QED
    BY <1>1, <2>1, <2>3, <2>4
<1>6. ASSUME \A i \in DOMAIN registry : registry'[i].pid = registry[i].pid, DOMAIN registry' = DOMAIN registry
      PROVE  \E i \in DOMAIN registry' : registry'[i].pid = p
  BY <1>1, <1>6
<1>7. ASSUME Associate PROVE \E i \in DOMAIN registry' : registry'[i].pid = p
  <2> DEFINE t == wayland.toplevel
             w == [client |-> windows[t].client, toplevel |-> t, session |-> windows[t].session]
  <2>1. registry' = registry
        \/ \E f \in DOMAIN registry : registry' = [registry EXCEPT ![f].toplevel = t]
    <3> DEFINE takers == {i \in DOMAIN registry : WaitsFor(w, registry[i])}
    <3>1. takers \in SUBSET Nat
      BY <1>2
    <3>2. AssociateToplevelWithSession(w)
      BY <1>7 DEF Associate
    <3>3. CASE takers = {}
      BY <3>2, <3>3 DEF AssociateToplevelWithSession
    <3>4. CASE takers # {}
      <4>1. First(takers) \in DOMAIN registry
        BY <3>1, <3>4, FirstIsOne
      <4>2. registry' = IF registry[First(takers)].toplevel # NoToplevel THEN registry
                        ELSE [registry EXCEPT ![First(takers)].toplevel = w.toplevel]
        BY <3>2, <3>4 DEF AssociateToplevelWithSession
      <4> HIDE DEF takers
      <4> QED
        BY <4>1, <4>2
    <3> QED
      BY <3>3, <3>4
  <2> HIDE DEF t
  <2>2. ASSUME NEW f \in DOMAIN registry, registry' = [registry EXCEPT ![f].toplevel = t]
        PROVE  DOMAIN registry' = DOMAIN registry /\ \A i \in DOMAIN registry : registry'[i].pid = registry[i].pid
    <3>1. registry[f] \in RegisteredEntry
      BY <1>2
    <3>2. [registry[f] EXCEPT !.toplevel = t].pid = registry[f].pid
      BY <3>1 DEF RegisteredEntry
    <3>3. DOMAIN registry' = DOMAIN registry /\ registry'[f] = [registry[f] EXCEPT !.toplevel = t]
          /\ \A i \in DOMAIN registry : i # f => registry'[i] = registry[i]
      BY <1>2, <2>2
    <3> QED
      BY <3>2, <3>3
  <2> QED
    BY <1>3, <1>6, <2>1, <2>2
<1>8. ASSUME NEW t \in Toplevel, DestroyToplevel(t) PROVE \E i \in DOMAIN registry' : registry'[i].pid = p
  <2>1. [registry[k] EXCEPT !.toplevel = NoToplevel].pid = p
    BY <1>1, <1>2, EntryGiven
  <2>2. k \in DOMAIN registry'
        /\ registry'[k] \in {registry[k], [registry[k] EXCEPT !.toplevel = NoToplevel]}
    BY <1>1, <1>8 DEF DestroyToplevel, RemoveToplevelAssociation
  <2> QED
    BY <1>1, <2>1, <2>2
<1>9. ASSUME NEW c \in Pid, RegisterChild(c) PROVE \E i \in DOMAIN registry' : registry'[i].pid = p
  <2>1. (IF broker[c].session = NoSession THEN c ELSE broker[c].session) \in Session
    BY RegistryConstants DEF Session, RegistryInv, ThreadsOK, BrokerThread
  <2> QED
    BY <1>5, <1>9, <2>1 DEF RegisterChild
<1>10. ASSUME NEW c \in Pid, NEW name \in {c, Engine}, RegisterAgain(c, name)
       PROVE  \E i \in DOMAIN registry' : registry'[i].pid = p
  BY <1>5, <1>10, RegistryConstants DEF RegisterAgain
<1>11. CASE UNCHANGED registry
  BY <1>3, <1>11
<1>12. ASSUME NEW c \in Pid, NoticeExit(c) PROVE \E i \in DOMAIN registry' : registry'[i].pid = p
  BY <1>4, <1>12 DEF NoticeExit
<1>13. ASSUME MonitorMarks \/ StopMarks PROVE \E i \in DOMAIN registry' : registry'[i].pid = p
  BY <1>4, <1>13 DEF MonitorMarks, StopMarks
<1>14. \/ UNCHANGED registry
       \/ \E c \in Pid : RegisterChild(c) \/ (\E name \in {c, Engine} : RegisterAgain(c, name)) \/ NoticeExit(c)
       \/ MonitorMarks \/ StopMarks \/ Associate
       \/ \E t \in Toplevel : DestroyToplevel(t)
  BY DEF RegistryNext, registryVars, StartNativeChildProcess, BrokerStep, InheritSession, AppStep, Fork, Exit,
         OpenToplevel, MonitorStep, MonitorLooks, KillAllProcesses, StopKills
<1> QED
  BY <1>7, <1>8, <1>9, <1>10, <1>11, <1>12, <1>13, <1>14

-----------------------------------------------------------------------------
(***************************************************************************)
(* The tables hold what they may hold, and a process has one entry however *)
(* often and by whomever it is registered.                                 *)
(***************************************************************************)
THEOREM RegistryStaysSound == RegistrySpec => []RegistryIsSound
<1> QED
  BY RegistryInvariant, SoundTypes, PTL

(***************************************************************************)
(* A window is in one table at most and only while it lives, and a window  *)
(* that waits has no registered process to wait for.                       *)
(***************************************************************************)
THEOREM WindowsStayPlaced == RegistrySpec => []WindowsArePlaced
<1>1. RegistryInv => WindowsArePlaced
  BY OnePlace, PendingAreUnclaimed DEF WindowsArePlaced
<1> QED
  BY <1>1, RegistryInvariant, PTL

(***************************************************************************)
(* The window of an entry was opened in the entry's session, by its        *)
(* process or by a descendant of it.                                       *)
(***************************************************************************)
THEOREM WindowsStayInTheirSession == RegistrySpec => []WindowBelongsToSession
<1> QED
  BY RegistryInvariant, Belongs, PTL

(***************************************************************************)
(* However full the registry is, no step drops the entry of a process that *)
(* is marked running.                                                      *)
(***************************************************************************)
THEOREM RunningEntriesAreKept == RegistrySpec => RunningEntriesStay
<1>1. RegistryInv /\ [RegistryNext]_registryVars =>
        [\A p \in Pid : IsProcessRegisteredRunning(p) =>
           \E i \in DOMAIN registry' : registry'[i].pid = p]_registryVars
  BY RunningStay
<1> QED
  BY <1>1, RegistryInvariant, PTL DEF RegistrySpec, RunningEntriesStay
=============================================================================
