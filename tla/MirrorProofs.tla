---------------------------- MODULE MirrorProofs ----------------------------
(***************************************************************************)
(* What is proved about the budget across reboots (BudgetMirror): that the *)
(* window, the figure and the off-time of a duty-cycle row outlive every   *)
(* reboot, crash and deep sleep of the model but for what is lost, and     *)
(* that a start grants at most one budget.                                 *)
(*                                                                         *)
(* The invariant of the governor does not survive a boot by itself: the    *)
(* ring is then what loraitp_gov_import() makes of the RTC snapshot.  So   *)
(* the invariant says the same of the snapshot as of the ring: there are   *)
(* real times behind the ages, and a ring imported now (or at the planned  *)
(* wake-up, of a board that sleeps) would count every frame the snapshot   *)
(* has heard of.                                                           *)
(***************************************************************************)
EXTENDS BudgetMirror, GovernorProofs

LEMMA MirrorFacts ==
  /\ SnapSlots \in Nat /\ SnapSlots >= 1 /\ SnapSlots <= Slots
  /\ MaxBoots \in Nat /\ SleepFor \subseteq Nat
  BY MirrorAssumption

----------------------------------------------------------------------------
(***************************************************************************)
(* The import, entry by entry.                                             *)
(***************************************************************************)
Entry == [age : Int, toa : Nat \ {0}]
Snap(s) ==
  /\ s.valid \in BOOLEAN /\ s.away \in Nat /\ s.blocked \in 0..(Wrap - 1)
  /\ s.entries \in Seq(Entry) /\ Len(s.entries) <= SnapSlots

Aged(s, i) == s.entries[i].age + s.away
Import(s, i, q) ==
  IF Aged(s, i) >= Window THEN q
  ELSE Append(q, [end |-> (0 - Aged(s, i)) % Wrap, toa |-> s.entries[i].toa])
ImportOf(s, f) ==
  f = [i \in 0..Len(s.entries) |-> IF i = 0 THEN <<>> ELSE Import(s, i, f[i - 1])]

LEMMA EntryFields ==
  ASSUME NEW s, Snap(s)
  PROVE  /\ Len(s.entries) \in Nat /\ DOMAIN s.entries = 1..Len(s.entries)
         /\ \A i \in 1..Len(s.entries) :
              /\ s.entries[i].age \in Int /\ s.entries[i].toa \in Nat /\ s.entries[i].toa > 0
              /\ Aged(s, i) \in Int
<1>1. /\ Len(s.entries) \in Nat /\ DOMAIN s.entries = 1..Len(s.entries)
      /\ \A i \in 1..Len(s.entries) : s.entries[i] \in Entry
  BY Elements DEF Snap
<1>2. \A e \in Entry : e.age \in Int /\ e.toa \in Nat /\ e.toa > 0
  BY DEF Entry
<1>3. s.away \in Nat
  BY DEF Snap
<1>4. \A i \in 1..Len(s.entries) :
        /\ s.entries[i].age \in Int /\ s.entries[i].toa \in Nat /\ s.entries[i].toa > 0
  BY <1>1, <1>2, Zenon
<1>5. \A i \in 1..Len(s.entries) : Aged(s, i) \in Int
  BY <1>3, <1>4 DEF Aged
<1>6. QED
  BY <1>1, <1>4, <1>5

LEMMA ImportAppends ==
  ASSUME NEW s, Snap(s), NEW i \in 1..Len(s.entries), NEW q \in Seq(Slot)
  PROVE  /\ Import(s, i, q) \in Seq(Slot)
         /\ Aged(s, i) < Window =>
              /\ [end |-> (0 - Aged(s, i)) % Wrap, toa |-> s.entries[i].toa] \in Slot
              /\ Len(Import(s, i, q)) = Len(q) + 1
              /\ Import(s, i, q)[Len(q) + 1]
                   = [end |-> (0 - Aged(s, i)) % Wrap, toa |-> s.entries[i].toa]
              /\ \A j \in 1..Len(q) : Import(s, i, q)[j] = q[j]
         /\ ~(Aged(s, i) < Window) => Import(s, i, q) = q
<1> DEFINE a == Aged(s, i)
           e == [end |-> (0 - a) % Wrap, toa |-> s.entries[i].toa]
<1>1. a \in Int /\ s.entries[i].toa \in Nat /\ s.entries[i].toa > 0 /\ Window \in Nat
  BY EntryFields, WrapFacts
<1> HIDE DEF a
<1>2. 0 - a \in Int
  BY <1>1
<1>3. (0 - a) % Wrap \in 0..(Wrap - 1)
  BY <1>2, Residue
<1>4. e \in Slot
  BY <1>1, <1>3 DEF Slot
<1>5. Import(s, i, q) = IF a >= Window THEN q ELSE Append(q, e)
  BY DEF Import, a
<1> HIDE DEF e
<1>6. /\ Append(q, e) \in Seq(Slot) /\ Len(Append(q, e)) = Len(q) + 1
      /\ Append(q, e)[Len(q) + 1] = e /\ \A j \in 1..Len(q) : Append(q, e)[j] = q[j]
  BY <1>4
<1>7. a < Window <=> ~(a >= Window)
  BY <1>1
<1>8. QED
  BY <1>4, <1>5, <1>6, <1>7, Zenon DEF a, e

LEMMA ImportExists ==
  ASSUME NEW s, Snap(s)
  PROVE  ImportOf(s, Imported(s))
<1> DEFINE N == Len(s.entries)
           Runs(n, f) == /\ f \in [0..n -> Seq(Slot)] /\ f[0] = <<>>
                         /\ \A i \in 1..n : f[i] = Import(s, i, f[i - 1])
           P(n) == n <= N => \E f : Runs(n, f)
           S == {n \in Nat : P(n)}
<1>0. N \in Nat
  BY EntryFields
<1> HIDE DEF N
<1>1. 0 \in S
  <2>1. Runs(0, [i \in 0..0 |-> <<>>])
    OBVIOUS
  <2> HIDE DEF Runs
  <2>2. QED
    BY <2>1
<1>2. ASSUME NEW n \in S PROVE n + 1 \in S
  <2>1. n \in Nat /\ P(n)
    OBVIOUS
  <2>2. ASSUME n + 1 <= N PROVE \E f : Runs(n + 1, f)
    <3>1. PICK f : Runs(n, f)
      <4>1. n <= N
        BY <1>0, <2>1, <2>2
      <4> HIDE DEF Runs
      <4>2. QED
        BY <2>1, <4>1
    <3>2. PICK x : x = Import(s, n + 1, f[n])
      OBVIOUS
    <3>3. x \in Seq(Slot) /\ \A i \in 0..n : f[i] \in Seq(Slot)
      <4>1. n + 1 \in 1..Len(s.entries) /\ n \in 0..n
        BY <1>0, <2>1, <2>2 DEF N
      <4>2. \A i \in 0..n : f[i] \in Seq(Slot)
        BY <3>1
      <4>3. f[n] \in Seq(Slot)
        BY <4>1, <4>2
      <4>4. QED
        BY <3>2, <4>1, <4>2, <4>3, ImportAppends
    <3> DEFINE g == [i \in 0..(n + 1) |-> IF i <= n THEN f[i] ELSE x]
    <3>4. g \in [0..(n + 1) -> Seq(Slot)] /\ g[0] = <<>>
      <4>1. \A i \in 0..(n + 1) : i <= n => i \in 0..n
        BY <2>1
      <4>2. 0 \in 0..(n + 1) /\ 0 <= n
        BY <2>1
      <4>3. \A i \in 0..(n + 1) : (IF i <= n THEN f[i] ELSE x) \in Seq(Slot)
        BY <3>3, <4>1, Zenon
      <4>4. g[0] = f[0] /\ f[0] = <<>>
        BY <3>1, <4>2
      <4>5. QED
        BY <4>3, <4>4
    <3>5. ASSUME NEW i \in 1..(n + 1) PROVE g[i] = Import(s, i, g[i - 1])
      <4>1. CASE i = n + 1
        <5>1. g[n + 1] = x /\ g[n] = f[n] /\ (n + 1) - 1 = n
          BY <2>1
        <5> HIDE DEF g
        <5>2. QED
          BY <3>2, <4>1, <5>1
      <4>2. CASE i \in 1..n
        <5>1. g[i] = f[i] /\ g[i - 1] = f[i - 1]
          BY <2>1, <4>2
        <5>2. f[i] = Import(s, i, f[i - 1])
          BY <3>1, <4>2
        <5> HIDE DEF g
        <5>3. QED
          BY <5>1, <5>2
      <4>3. QED
        BY <2>1, <4>1, <4>2
    <3>6. Runs(n + 1, g)
      <4> HIDE DEF g
      <4>1. QED
        BY <3>4, <3>5
    <3>7. QED
      BY <3>6, Zenon
  <2> HIDE DEF Runs
  <2>3. P(n + 1) /\ n + 1 \in Nat
    BY <2>1, <2>2
  <2> HIDE DEF P
  <2>4. QED
    BY <2>3
<1> HIDE DEF S
<1>3. N \in S
  <2>1. S \in SUBSET Nat
    BY DEF S
  <2>2. QED
    BY <1>0, <1>1, <1>2, <2>1, Counting, Zenon
<1>4. PICK f : Runs(N, f)
  <2> HIDE DEF Runs
  <2>1. N <= N
    BY <1>0
  <2>2. P(N)
    BY <1>3 DEF S
  <2>3. QED
    BY <2>1, <2>2
<1>5. ImportOf(s, f)
  <2>1. \A i \in 0..N : f[i] = IF i = 0 THEN <<>> ELSE Import(s, i, f[i - 1])
    <3>1. \A i \in 0..N : i = 0 \/ i \in 1..N
      BY <1>0
    <3>2. QED
      BY <1>4, <3>1
  <2>2. f = [i \in 0..N |-> f[i]]
    BY <1>4
  <2>3. QED
    BY <2>1, <2>2 DEF ImportOf, N
<1>6. ImportOf(s, CHOOSE g : ImportOf(s, g))
  BY <1>5
<1>7. QED
  BY <1>6 DEF Imported, ImportOf, Import, Aged

\* What the proofs use of the import.
LEMMA ImportSteps ==
  ASSUME NEW s, Snap(s)
  PROVE  /\ Imported(s)[0] = <<>>
         /\ \A i \in 1..Len(s.entries) : Imported(s)[i] = Import(s, i, Imported(s)[i - 1])
<1>1. Imported(s) = [i \in 0..Len(s.entries) |->
                       IF i = 0 THEN <<>> ELSE Import(s, i, Imported(s)[i - 1])]
  BY ImportExists DEF ImportOf
<1>2. Len(s.entries) \in Nat
  BY EntryFields
<1>3. \A f : f = [i \in 0..Len(s.entries) |-> IF i = 0 THEN <<>> ELSE Import(s, i, f[i - 1])]
        => /\ f[0] = <<>>
           /\ \A i \in 1..Len(s.entries) : f[i] = Import(s, i, f[i - 1])
  BY <1>2
<1>4. QED
  BY <1>1, <1>3, Zenon

LEMMA ImportType ==
  ASSUME NEW s, Snap(s), NEW n \in 0..Len(s.entries)
  PROVE  Imported(s)[n] \in Seq(Slot) /\ Len(Imported(s)[n]) \in 0..n
<1> DEFINE N == Len(s.entries)
           f == Imported(s)
           P(i) == f[i] \in Seq(Slot) /\ Len(f[i]) \in 0..i
           S == {i \in Nat : i <= N => P(i)}
<1>0. N \in Nat
  BY EntryFields
<1>1. f[0] = <<>> /\ \A i \in 1..N : f[i] = Import(s, i, f[i - 1])
  BY ImportSteps
<1> HIDE DEF N, f
<1>2. 0 \in S
  <2>1. <<>> \in Seq(Slot) /\ Len(<<>>) = 0 /\ 0 \in 0..0
    OBVIOUS
  <2>2. P(0)
    BY <1>1, <2>1, Zenon
  <2> HIDE DEF P
  <2>3. QED
    BY <2>2
<1>3. ASSUME NEW i \in S PROVE i + 1 \in S
  <2>1. ASSUME i + 1 <= N PROVE P(i + 1)
    <3>1. i \in Nat /\ i <= N /\ i + 1 \in 1..N /\ (i + 1) - 1 = i
      BY <1>0, <2>1
    <3>2. f[i] \in Seq(Slot) /\ Len(f[i]) \in 0..i
      BY <3>1
    <3>3. f[i + 1] = Import(s, i + 1, f[i])
      BY <1>1, <3>1
    <3>4. PICK q : q = f[i]
      OBVIOUS
    <3>5. /\ Import(s, i + 1, q) \in Seq(Slot)
          /\ (Len(Import(s, i + 1, q)) = Len(q) + 1 \/ Import(s, i + 1, q) = q)
      BY <3>1, <3>2, <3>4, ImportAppends DEF N
    <3>6. PICK x : x = f[i + 1]
      OBVIOUS
    <3>7. x \in Seq(Slot) /\ (Len(x) = Len(q) + 1 \/ x = q) /\ Len(q) \in 0..i
      BY <3>2, <3>3, <3>4, <3>5, <3>6
    <3>8. Len(x) \in 0..(i + 1)
      BY <3>1, <3>7
    <3>9. QED
      BY <3>6, <3>7, <3>8
  <2>2. QED
    BY <2>1
<1>4. n \in S
  <2> HIDE DEF P
  <2>1. S \in SUBSET Nat /\ n \in Nat
    BY <1>0 DEF N
  <2> HIDE DEF S
  <2>2. QED
    BY <1>2, <1>3, <2>1, Counting, Zenon
<1>5. n <= N
  BY <1>0 DEF N
<1>6. QED
  BY <1>4, <1>5 DEF f

LEMMA RestoredType ==
  ASSUME NEW s, Snap(s)
  PROVE  /\ ImportedRing(s) \in Seq(Slot) /\ Len(ImportedRing(s)) <= Slots
         /\ ImportedBlocked(s) \in 0..(Wrap - 1)
         /\ \/ ImportedBlocked(s) = 0 /\ s.blocked - s.away <= 0
            \/ ImportedBlocked(s) = s.blocked - s.away
<1>1. Len(s.entries) \in Nat /\ Len(s.entries) <= SnapSlots
  BY EntryFields DEF Snap
<1>2. Len(s.entries) \in 0..Len(s.entries)
  BY <1>1
<1>3. ImportedRing(s) \in Seq(Slot) /\ Len(ImportedRing(s)) \in 0..Len(s.entries)
  BY <1>2, ImportType DEF ImportedRing
<1>4. Len(ImportedRing(s)) <= Slots
  BY <1>1, <1>3, MirrorFacts, WrapFacts
<1>5. s.blocked \in 0..(Wrap - 1) /\ s.away \in Nat
  BY DEF Snap
<1>6. PICK a, b : a = s.blocked - s.away /\ b = ImportedBlocked(s)
  OBVIOUS
<1>7. a \in Int /\ 0 \in Int /\ a <= Wrap - 1
  BY <1>5, <1>6, WrapFacts
<1>8. b \in {0, a} /\ b >= 0 /\ b >= a
  BY <1>6, <1>7, GreaterOf DEF ImportedBlocked
<1>9. b \in 0..(Wrap - 1) /\ ((b = 0 /\ a <= 0) \/ b = a)
  BY <1>7, <1>8, WrapFacts
<1>10. QED
  BY <1>3, <1>4, <1>6, <1>9

\* What a snapshot counts, when its entries end at F.
LEMMA WeightType ==
  ASSUME NEW s, Snap(s), NEW F \in Seq(Int), NEW T
  PROVE  /\ Counted(s.entries, F, T) \in Seq(Nat)
         /\ Len(Counted(s.entries, F, T)) = Len(s.entries)
         /\ \A i \in 1..Len(s.entries) :
              Counted(s.entries, F, T)[i] = IF F[i] > T THEN s.entries[i].toa ELSE 0
<1> DEFINE w == [i \in 1..Len(s.entries) |-> IF F[i] > T THEN s.entries[i].toa ELSE 0]
<1>1. Counted(s.entries, F, T) = w
  BY EntryFields DEF Counted
<1>2. \A i \in 1..Len(s.entries) : (IF F[i] > T THEN s.entries[i].toa ELSE 0) \in Nat
  BY EntryFields
<1>3. PICK n : n = Len(s.entries)
  OBVIOUS
<1>4. n \in Nat
  BY <1>3, EntryFields
<1>5. w \in [1..n -> Nat] /\ \A i \in 1..n : w[i] = IF F[i] > T THEN s.entries[i].toa ELSE 0
  BY <1>2, <1>3
<1>6. \A f \in [1..n -> Nat] : f \in Seq(Nat) /\ Len(f) = n
  BY <1>4
<1>7. QED
  BY <1>1, <1>3, <1>5, <1>6, Zenon

LEMMA NothingCounted ==
  ASSUME NEW T \in Int
  PROVE  Total(Counted(<<>>, <<>>, T)) = 0
<1>1. <<>> \in Seq(Slot) /\ <<>> \in Seq(Int) /\ Len(<<>>) = 0
  OBVIOUS
<1>2. Counted(<<>>, <<>>, T) \in Seq(Nat) /\ Len(Counted(<<>>, <<>>, T)) = 0
  BY <1>1, CountedType, Zenon
<1>3. \A w \in Seq(Nat) : Len(w) = 0 => Running(w)[Len(w)] = 0
  <2>1. SUFFICES ASSUME NEW w \in Seq(Nat), Len(w) = 0 PROVE Running(w)[Len(w)] = 0
    OBVIOUS
  <2>2. QED
    BY <2>1, RunningStep
<1>4. QED
  BY <1>2, <1>3, Zenon DEF Total

\* An appended slot counts if it ends late enough.
LEMMA CountedAppend ==
  ASSUME NEW q \in Seq(Slot), NEW C \in Seq(Int), Len(C) = Len(q),
         NEW p \in Seq(Slot), Len(p) = Len(q) + 1, \A j \in 1..Len(q) : p[j] = q[j],
         NEW D \in Seq(Int), Len(D) = Len(p), \A j \in 1..Len(q) : D[j] = C[j],
         NEW T \in Int
  PROVE  Total(Counted(p, D, T))
           = Total(Counted(q, C, T)) + (IF D[Len(p)] > T THEN p[Len(p)].toa ELSE 0)
<1>1. Len(q) \in Nat /\ Len(p) \in 1..Len(p) /\ \A j \in 1..Len(q) : j \in 1..Len(p)
  BY SlotFields
<1>2. /\ Counted(q, C, T) \in Seq(Nat) /\ Len(Counted(q, C, T)) = Len(q)
      /\ \A j \in 1..Len(q) : Counted(q, C, T)[j] = IF C[j] > T THEN q[j].toa ELSE 0
  BY CountedType
<1>3. /\ Counted(p, D, T) \in Seq(Nat) /\ Len(Counted(p, D, T)) = Len(p)
      /\ \A j \in 1..Len(p) : Counted(p, D, T)[j] = IF D[j] > T THEN p[j].toa ELSE 0
  BY CountedType
<1>4. PICK u, v, y : /\ u = Counted(p, D, T) /\ v = Counted(q, C, T)
                     /\ y = (IF D[Len(p)] > T THEN p[Len(p)].toa ELSE 0)
  OBVIOUS
<1>5. y \in Nat
  BY <1>1, <1>4, SlotFields
<1>6. /\ u \in Seq(Nat) /\ v \in Seq(Nat) /\ Len(u) = Len(v) + 1 /\ u[Len(v) + 1] = y
      /\ \A j \in 1..Len(v) : u[j] = v[j]
  BY <1>1, <1>2, <1>3, <1>4
<1>7. Total(u) = Total(v) + y
  BY <1>5, <1>6, TotalAppend
<1>8. QED
  BY <1>4, <1>7, Zenon

(***************************************************************************)
(* The import keeps what the window of a time h still needs of a snapshot  *)
(* whose entries end at F: it only drops what has left it.                 *)
(***************************************************************************)
Stamps(r, C, h) == Len(C) = Len(r) /\ \A j \in 1..Len(r) : r[j].end = (C[j] - h) % Wrap
Follows(s, F, h, i, C) ==
  /\ Stamps(Imported(s)[i], C, h) /\ Sorted(C)
  /\ \A j \in 1..Len(C) : \E k \in 1..i : C[j] = F[k]
  /\ \A T \in Int : T >= h - Window =>
       Total(Counted(Imported(s)[i], C, T)) = Running(Counted(s.entries, F, T))[i]

LEMMA FollowsOn ==
  ASSUME NEW s, Snap(s), NEW F \in Seq(Int), Len(F) = Len(s.entries), Sorted(F), NEW h \in Int,
         NEW i \in Nat, i + 1 <= Len(s.entries), NEW C \in Seq(Int), Follows(s, F, h, i, C),
         (0 - Aged(s, i + 1)) % Wrap = (F[i + 1] - h) % Wrap,
         Aged(s, i + 1) >= Window => F[i + 1] <= h - Window
  PROVE  \E D \in Seq(Int) : Follows(s, F, h, i + 1, D)
<1> DEFINE w(T) == Counted(s.entries, F, T)
<1>1. PICK n, q, p, e :
        /\ n = Len(s.entries) /\ q = Imported(s)[i] /\ p = Imported(s)[i + 1] /\ e = F[i + 1]
  OBVIOUS
<1>2. /\ n \in Nat /\ i \in 0..n /\ i + 1 \in 1..n /\ (i + 1) - 1 = i
      /\ \A k \in 1..i : k \in 1..(i + 1) /\ k \in 1..n /\ k <= i + 1
  BY <1>1, EntryFields
<1>3. q \in Seq(Slot) /\ Len(q) \in Nat
  <2>1. i \in 0..Len(s.entries)
    BY <1>1, <1>2
  <2>2. q \in Seq(Slot)
    BY <1>1, <2>1, ImportType
  <2>3. QED
    BY <2>2, SlotFields
<1>4. p = Import(s, i + 1, q)
  BY <1>1, <1>2, ImportSteps
<1>5. e \in Int /\ \A k \in 1..i : F[k] \in Int /\ F[k] <= e
  BY <1>1, <1>2, Elements DEF Sorted
<1>6. /\ Len(C) = Len(q) /\ \A j \in 1..Len(q) : q[j].end = (C[j] - h) % Wrap
      /\ Sorted(C) /\ \A j \in 1..Len(C) : \E k \in 1..i : C[j] = F[k]
      /\ \A T \in Int : T >= h - Window => Total(Counted(q, C, T)) = Running(w(T))[i]
  BY <1>1 DEF Follows, Stamps
<1>7. \A T \in Int :
        Running(w(T))[i + 1] = Running(w(T))[i] + (IF e > T THEN s.entries[i + 1].toa ELSE 0)
  <2>1. SUFFICES ASSUME NEW T \in Int
                 PROVE Running(w(T))[i + 1]
                         = Running(w(T))[i] + (IF e > T THEN s.entries[i + 1].toa ELSE 0)
    OBVIOUS
  <2>2. PICK v : v = w(T)
    OBVIOUS
  <2>3. /\ v \in Seq(Nat) /\ Len(v) = n
        /\ v[i + 1] = IF e > T THEN s.entries[i + 1].toa ELSE 0
    BY <1>1, <1>2, <2>2, WeightType
  <2>4. Running(v)[i + 1] = Running(v)[i] + v[i + 1]
    BY <1>2, <2>3, RunningStep
  <2>5. QED
    BY <2>2, <2>3, <2>4
<1>8. CASE ~(Aged(s, i + 1) < Window)
  <2>1. p = q
    BY <1>1, <1>2, <1>3, <1>4, <1>8, ImportAppends
  <2>2. e <= h - Window
    BY <1>1, <1>2, <1>8, EntryFields, WrapFacts
  <2>3. \A T \in Int : T >= h - Window =>
          Total(Counted(p, C, T)) = Running(w(T))[i + 1]
    <3>1. SUFFICES ASSUME NEW T \in Int, T >= h - Window
                   PROVE Total(Counted(p, C, T)) = Running(w(T))[i + 1]
      OBVIOUS
    <3>2. ~(e > T)
      BY <1>5, <2>2, <3>1, WrapFacts
    <3>3. PICK y : y = Running(w(T))[i]
      OBVIOUS
    <3>4. y \in Nat
      <4>1. PICK v : v = w(T)
        OBVIOUS
      <4>2. v \in Seq(Nat) /\ Len(v) = n
        BY <1>1, <4>1, WeightType
      <4>3. QED
        BY <1>2, <3>3, <4>1, <4>2, RunningGrows
    <3>5. Running(w(T))[i + 1] = y + 0
      BY <1>7, <3>2, <3>3
    <3>6. QED
      BY <1>6, <2>1, <3>1, <3>3, <3>4, <3>5
  <2>4. Follows(s, F, h, i + 1, C)
    BY <1>1, <1>2, <1>6, <2>1, <2>3 DEF Follows, Stamps
  <2>5. QED
    BY <2>4
<1>9. CASE Aged(s, i + 1) < Window
  <2>1. /\ p \in Seq(Slot) /\ Len(p) = Len(q) + 1 /\ \A j \in 1..Len(q) : p[j] = q[j]
        /\ p[Len(p)].end = (e - h) % Wrap /\ p[Len(p)].toa = s.entries[i + 1].toa
    <3>1. i + 1 \in 1..Len(s.entries)
      BY <1>1, <1>2
    <3>2. PICK z : z = [end |-> (0 - Aged(s, i + 1)) % Wrap, toa |-> s.entries[i + 1].toa]
      OBVIOUS
    <3>3. /\ p \in Seq(Slot) /\ Len(p) = Len(q) + 1 /\ p[Len(q) + 1] = z
          /\ \A j \in 1..Len(q) : p[j] = q[j]
      <4>1. /\ Import(s, i + 1, q) \in Seq(Slot) /\ Len(Import(s, i + 1, q)) = Len(q) + 1
            /\ Import(s, i + 1, q)[Len(q) + 1]
                 = [end |-> (0 - Aged(s, i + 1)) % Wrap, toa |-> s.entries[i + 1].toa]
            /\ \A j \in 1..Len(q) : Import(s, i + 1, q)[j] = q[j]
        BY <1>3, <1>9, <3>1, ImportAppends
      <4>2. QED
        BY <1>4, <3>2, <4>1, Zenon
    <3>4. z.end = (e - h) % Wrap /\ z.toa = s.entries[i + 1].toa
      BY <1>1, <3>2
    <3>5. QED
      BY <3>3, <3>4
  <2>2. PICK D : D = Append(C, e)
    OBVIOUS
  <2>3. /\ D \in Seq(Int) /\ Len(D) = Len(p)
        /\ D[Len(p)] = e /\ \A j \in 1..Len(q) : D[j] = C[j]
        /\ \A T \in Int : Total(Counted(p, D, T))
             = Total(Counted(q, C, T)) + (IF e > T THEN p[Len(p)].toa ELSE 0)
    <3>1. /\ p \in Seq(Slot) /\ Len(p) = Len(q) + 1 /\ \A j \in 1..Len(q) : p[j] = q[j]
          /\ Len(C) = Len(q) /\ e \in Int /\ q \in Seq(Slot) /\ Len(q) \in Nat
      BY <1>3, <1>5, <1>6, <2>1
    <3>2. /\ D \in Seq(Int) /\ Len(D) = Len(p)
          /\ D[Len(p)] = e /\ \A j \in 1..Len(q) : D[j] = C[j]
      BY <2>2, <3>1
    <3>3. \A T \in Int : Total(Counted(p, D, T))
             = Total(Counted(q, C, T)) + (IF D[Len(p)] > T THEN p[Len(p)].toa ELSE 0)
      BY ZenonT(30), <3>1, <3>2, CountedAppend
    <3>4. QED
      BY <3>2, <3>3, Zenon
  <2>4. \A j \in 1..Len(p) : j \in 1..Len(q) \/ j = Len(p)
    BY <1>3, <2>1
  <2>5. \A j \in 1..Len(p) : p[j].end = (D[j] - h) % Wrap
    BY <1>6, <2>1, <2>3, <2>4
  <2>6. \A j \in 1..Len(q) : C[j] \in Int /\ C[j] <= e
    BY <1>5, <1>6
  <2>7. Sorted(D)
    <3>1. SUFFICES ASSUME NEW j \in 1..Len(p), NEW k \in 1..Len(p), j <= k PROVE D[j] <= D[k]
      BY <2>3 DEF Sorted
    <3>2. CASE k = Len(p)
      BY SMTT(60), <1>5, <2>3, <2>4, <2>6, <3>2
    <3>3. CASE k \in 1..Len(q)
      <4>1. j \in 1..Len(q)
        BY <1>3, <2>1, <3>1, <3>3
      <4>2. C[j] <= C[k]
        BY <1>6, <3>1, <3>3, <4>1 DEF Sorted
      <4>3. QED
        BY <2>3, <3>3, <4>1, <4>2
    <3>4. QED
      BY <2>4, <3>2, <3>3
  <2>8. \A j \in 1..Len(D) : \E k \in 1..(i + 1) : D[j] = F[k]
    <3>1. SUFFICES ASSUME NEW j \in 1..Len(D) PROVE \E k \in 1..(i + 1) : D[j] = F[k]
      OBVIOUS
    <3>2. CASE j \in 1..Len(q)
      <4>1. PICK k \in 1..i : C[j] = F[k]
        BY <1>6, <3>2
      <4>2. QED
        BY <1>2, <2>3, <3>2, <4>1
    <3>3. CASE j = Len(p)
      <4>1. D[j] = F[i + 1] /\ i + 1 \in 1..(i + 1)
        BY <1>1, <1>2, <2>3, <3>3
      <4>2. QED
        BY <4>1
    <3>4. QED
      BY <2>3, <2>4, <3>2, <3>3
  <2>9. \A T \in Int : T >= h - Window => Total(Counted(p, D, T)) = Running(w(T))[i + 1]
    BY SMTT(60), <1>6, <1>7, <2>1, <2>3
  <2>10. Follows(s, F, h, i + 1, D)
    BY <1>1, <2>3, <2>5, <2>7, <2>8, <2>9 DEF Follows, Stamps
  <2>11. QED
    BY <2>3, <2>10
<1>10. QED
  BY <1>8, <1>9

LEMMA ImportKeeps ==
  ASSUME NEW s, Snap(s), NEW F \in Seq(Int), Len(F) = Len(s.entries), Sorted(F), NEW h \in Int,
         \A i \in 1..Len(F) : (0 - Aged(s, i)) % Wrap = (F[i] - h) % Wrap,
         \A i \in 1..Len(F) : Aged(s, i) >= Window => F[i] <= h - Window
  PROVE  \E C \in Seq(Int) :
           /\ Stamps(ImportedRing(s), C, h) /\ Sorted(C)
           /\ \A j \in 1..Len(C) : \E k \in 1..Len(F) : C[j] = F[k]
           /\ \A T \in Int : T >= h - Window =>
                Total(Counted(ImportedRing(s), C, T)) = Total(Counted(s.entries, F, T))
<1> DEFINE N == Len(s.entries)
           P(i) == \E C \in Seq(Int) : Follows(s, F, h, i, C)
           S == {i \in Nat : i <= N => P(i)}
<1>0. N \in Nat
  BY EntryFields
<1>1. 0 \in S
  <2>1. Imported(s)[0] = <<>>
    BY ImportSteps
  <2>2. \A T \in Int : Running(Counted(s.entries, F, T))[0] = 0
    BY WeightType, RunningStep
  <2>3. \A T \in Int : Total(Counted(<<>>, <<>>, T)) = 0
    BY NothingCounted
  <2>4. PICK C : C = <<>>
    OBVIOUS
  <2>5. C \in Seq(Int) /\ Len(C) = 0 /\ Stamps(<<>>, C, h) /\ Sorted(C)
    BY <2>4 DEF Stamps, Sorted
  <2>6. Follows(s, F, h, 0, C)
    BY <2>1, <2>2, <2>3, <2>4, <2>5 DEF Follows
  <2>7. QED
    BY <2>5, <2>6
<1>2. ASSUME NEW i \in S PROVE i + 1 \in S
  <2>1. ASSUME i + 1 <= N PROVE P(i + 1)
    <3>1. i \in Nat /\ i <= N /\ i + 1 \in 1..Len(F)
      BY <1>0, <2>1
    <3>2. PICK C \in Seq(Int) : Follows(s, F, h, i, C)
      BY <3>1
    <3>3. QED
      BY <2>1, <3>1, <3>2, FollowsOn
  <2>2. QED
    BY <2>1
<1> HIDE DEF P
<1>3. N \in S
  <2>1. S \in SUBSET Nat
    OBVIOUS
  <2> HIDE DEF S, N
  <2>2. QED
    BY <1>0, <1>1, <1>2, <2>1, Counting, Zenon
<1>4. PICK C \in Seq(Int) : Follows(s, F, h, N, C)
  BY <1>0, <1>3 DEF P
<1>5. \A T \in Int : Running(Counted(s.entries, F, T))[N] = Total(Counted(s.entries, F, T))
  BY WeightType DEF Total
<1>6. QED
  BY <1>4, <1>5 DEF Follows, ImportedRing

----------------------------------------------------------------------------
(***************************************************************************)
(* The export.  The oldest slots are folded onto the first one kept, which *)
(* ends no earlier than they do.                                           *)
(***************************************************************************)
LEMMA FirstAdds ==
  ASSUME NEW u \in Seq(Nat), NEW v \in Seq(Nat), Len(u) = Len(v), Len(v) >= 1,
         NEW a \in Nat, u[1] = v[1] + a, \A i \in 2..Len(v) : u[i] = v[i]
  PROVE  Total(v) + a <= Total(u)
<1>1. PICK n : n = Len(v) - 1
  OBVIOUS
<1>2. n \in Nat /\ 1 + n = Len(u) /\ 1 + n = Len(v) /\ Len(v) \in Nat
  BY <1>1
<1>3. \A i \in 1..n : v[1 + i] <= u[1 + i]
  <2>1. \A i \in 1..n : 1 + i \in 2..Len(v) /\ 1 + i \in 1..Len(v)
    BY <1>2
  <2>2. \A i \in 1..Len(v) : v[i] \in Nat
    BY Elements, Zenon
  <2>3. QED
    BY <2>1, <2>2
<1>4. 1 \in Nat /\ 1 + n <= Len(v) /\ 1 + n <= Len(u)
  BY <1>2
<1>5. Running(v)[1 + n] - Running(v)[1] <= Running(u)[1 + n] - Running(u)[1]
  BY <1>2, <1>3, <1>4, Compare, Zenon
<1>6. Running(v)[1] = v[1] /\ Running(u)[1] = u[1] /\ v[1] \in Nat
  <2>1. 1 \in 1..Len(v) /\ 1 \in 1..Len(u) /\ 1 - 1 = 0
    BY <1>2
  <2>2. v[1] \in Nat /\ u[1] \in Nat
    BY <2>1, Elements, Zenon
  <2>3. /\ Running(v)[1] = Running(v)[0] + v[1] /\ Running(v)[0] = 0
        /\ Running(u)[1] = Running(u)[0] + u[1] /\ Running(u)[0] = 0
    BY <2>1, RunningStep
  <2>4. QED
    BY <2>2, <2>3
<1>7. PICK x, y, z : x = Total(v) /\ y = Total(u) /\ z = v[1]
  OBVIOUS
<1>8. x \in Nat /\ y \in Nat /\ z \in Nat
  BY <1>6, <1>7, TotalType
<1>9. x - z <= y - (z + a)
  BY <1>2, <1>5, <1>6, <1>7 DEF Total
<1>10. x + a <= y
  BY <1>8, <1>9
<1>11. QED
  BY <1>7, <1>10, Zenon

\* What the fold drops, and what it leaves.
Skipped(r) == Max({0, Len(r) - SnapSlots})
FoldedAir(r) == Airtime(SubSeq(r, 1, Skipped(r)))

LEMMA SkippedIs ==
  ASSUME NEW r \in Seq(Slot)
  PROVE  /\ Skipped(r) \in Nat /\ Skipped(r) + 1 \in 1..(Len(r) + 1)
         /\ Skipped(r) \in 0..Len(r)
         /\ Len(r) - Skipped(r) <= SnapSlots /\ Len(r) - Skipped(r) \in Nat
         /\ Len(r) >= 1 => Len(r) - Skipped(r) >= 1
<1>1. PICK n, k : n = Len(r) /\ k = Skipped(r)
  OBVIOUS
<1>2. n \in Nat /\ SnapSlots \in Nat /\ SnapSlots >= 1
  BY <1>1, SlotFields, MirrorFacts
<1>3. n - SnapSlots \in Int /\ 0 \in Int
  BY <1>2
<1>4. k \in {0, n - SnapSlots} /\ k >= 0 /\ k >= n - SnapSlots
  BY <1>1, <1>3, GreaterOf DEF Skipped
<1>5. /\ k \in Nat /\ k + 1 \in 1..(n + 1) /\ n - k <= SnapSlots /\ n - k \in Nat
      /\ k \in 0..n /\ (n >= 1 => n - k >= 1)
  BY <1>2, <1>4
<1>6. QED
  BY <1>1, <1>5, Zenon

LEMMA SnapFoldIs ==
  ASSUME NEW r \in Seq(Slot)
  PROVE  LET m == Len(r) - Skipped(r)
             q == SubSeq(r, Skipped(r) + 1, Len(r))
         IN /\ FoldedAir(r) \in Nat /\ SubSeq(r, 1, Skipped(r)) \in Seq(Slot)
            /\ SnapFold(r) \in Seq(Slot) /\ Len(SnapFold(r)) = m
            /\ \A j \in 1..m :
                 /\ SnapFold(r)[j].end = q[j].end
                 /\ SnapFold(r)[j].toa = IF j = 1 THEN q[1].toa + FoldedAir(r) ELSE q[j].toa
<1> DEFINE q == SubSeq(r, Skipped(r) + 1, Len(r))
           a == FoldedAir(r)
           f(j) == IF j = 1 THEN [q[1] EXCEPT !.toa = @ + a] ELSE q[j]
<1>1. PICK m : m = Len(r) - Skipped(r)
  OBVIOUS
<1>2. m \in Nat /\ Skipped(r) \in Nat /\ Skipped(r) + 1 \in 1..(Len(r) + 1)
      /\ (Skipped(r) + 1) - 1 = Skipped(r) /\ Skipped(r) \in 0..Len(r)
  BY <1>1, SkippedIs
<1>3. q \in Seq(Slot) /\ Len(q) = m
  BY <1>1, <1>2, Rest
<1>4. SubSeq(r, 1, Skipped(r)) \in Seq(Slot)
  <2>1. Len(r) \in Nat
    BY SlotFields
  <2>2. \A k \in 0..Len(r) : SubSeq(r, 1, k) \in Seq(Slot)
    BY <2>1
  <2>3. QED
    BY <1>2, <2>2
<1>5. a \in Nat
  BY <1>4, AirtimeType DEF FoldedAir
<1>6. SnapFold(r) = [j \in DOMAIN q |-> f(j)]
  BY DEF SnapFold, FoldedAir, Skipped
<1> HIDE DEF q, a
<1>7. DOMAIN q = 1..m /\ \A j \in 1..m : q[j] \in Slot
  BY <1>3, SlotFields, Zenon
<1>8. \A s \in Slot : /\ [s EXCEPT !.toa = @ + a] \in Slot
                      /\ [s EXCEPT !.toa = @ + a].end = s.end
                      /\ [s EXCEPT !.toa = @ + a].toa = s.toa + a
  <2>1. SUFFICES ASSUME NEW s \in Slot
                 PROVE  /\ [s EXCEPT !.toa = @ + a] \in Slot
                        /\ [s EXCEPT !.toa = @ + a].end = s.end
                        /\ [s EXCEPT !.toa = @ + a].toa = s.toa + a
    OBVIOUS
  <2>2. s.toa \in Nat \ {0} /\ s.end \in 0..(Wrap - 1)
    BY DEF Slot
  <2>3. s.toa + a \in Nat \ {0}
    BY <1>5, <2>2
  <2>4. QED
    BY <2>2, <2>3 DEF Slot
<1>9. \A j \in 1..m : /\ f(j) \in Slot /\ f(j).end = q[j].end
                      /\ f(j).toa = IF j = 1 THEN q[1].toa + a ELSE q[j].toa
  BY <1>7, <1>8
<1> HIDE DEF f
<1>10. SnapFold(r) \in [1..m -> Slot] /\ \A j \in 1..m : SnapFold(r)[j] = f(j)
  BY <1>6, <1>7, <1>9
<1>11. \A g \in [1..m -> Slot] : g \in Seq(Slot) /\ Len(g) = m
  BY <1>2
<1>12. SnapFold(r) \in Seq(Slot) /\ Len(SnapFold(r)) = m
  BY <1>10, <1>11, Zenon
<1>13. \A j \in 1..m : /\ SnapFold(r)[j].end = q[j].end
                       /\ SnapFold(r)[j].toa = IF j = 1 THEN q[1].toa + a ELSE q[j].toa
  BY <1>9, <1>10
<1>14. QED
  BY <1>1, <1>4, <1>5, <1>12, <1>13 DEF q, a

LEMMA SnapFoldCounts ==
  ASSUME NEW r \in Seq(Slot), NEW F \in Seq(Int), Stamped(r, F), Sorted(F)
  PROVE  \E G \in Seq(Int) :
           /\ SnapFold(r) \in Seq(Slot) /\ Len(SnapFold(r)) <= SnapSlots
           /\ Stamped(SnapFold(r), G) /\ Sorted(G)
           /\ \A j \in 1..Len(G) : \E k \in 1..Len(F) : G[j] = F[k]
           /\ \A T \in Int : Total(Counted(r, F, T)) <= Total(Counted(SnapFold(r), G, T))
<1> DEFINE q == SubSeq(r, Skipped(r) + 1, Len(r))
           G == SubSeq(F, Skipped(r) + 1, Len(F))
           p == SnapFold(r)
<1>1. PICK n, k, m, a : n = Len(r) /\ k = Skipped(r) /\ m = n - k /\ a = FoldedAir(r)
  OBVIOUS
<1>2. /\ n \in Nat /\ k \in Nat /\ k + 1 \in 1..(n + 1) /\ m \in Nat /\ m <= SnapSlots
      /\ k \in 0..n /\ (k + 1) - 1 = k /\ Len(F) = n /\ n - ((k + 1) - 1) = m
      /\ (n >= 1 => m >= 1) /\ (m = 0 => n = 0)
  <2>1. n \in Nat /\ Len(F) = n
    BY <1>1, SlotFields DEF Stamped
  <2>2. k \in Nat /\ k + 1 \in 1..(n + 1) /\ m \in Nat /\ m <= SnapSlots /\ k \in 0..n
        /\ (n >= 1 => m >= 1)
    BY <1>1, SkippedIs, Zenon
  <2>3. QED
    BY <1>1, <2>1, <2>2
<1>3. /\ q \in Seq(Slot) /\ Len(q) = m
      /\ \A j \in 1..m : q[j] = r[k + j] /\ k + j \in 1..n
  <2>1. k + 1 \in 1..(Len(r) + 1) /\ q = SubSeq(r, k + 1, Len(r))
    BY <1>1, <1>2
  <2> HIDE DEF q
  <2>2. /\ q \in Seq(Slot) /\ Len(q) = Len(r) - ((k + 1) - 1)
        /\ \A j \in 1..(Len(r) - ((k + 1) - 1)) :
             q[j] = r[((k + 1) - 1) + j] /\ ((k + 1) - 1) + j \in 1..Len(r)
    BY <2>1, Rest
  <2>3. QED
    BY <1>1, <1>2, <2>2
<1>4. G \in Seq(Int) /\ Len(G) = m /\ \A j \in 1..m : G[j] = F[k + j] /\ G[j] \in Int
  <2>1. k + 1 \in 1..(Len(F) + 1) /\ G = SubSeq(F, k + 1, Len(F))
    BY <1>1, <1>2
  <2> HIDE DEF G
  <2>2. /\ G \in Seq(Int) /\ Len(G) = Len(F) - ((k + 1) - 1)
        /\ \A j \in 1..(Len(F) - ((k + 1) - 1)) : G[j] = F[((k + 1) - 1) + j]
    BY <2>1, Rest
  <2>3. \A j \in 1..Len(G) : G[j] \in Int
    BY <2>2, Elements, Zenon
  <2>4. QED
    BY <1>1, <1>2, <2>2, <2>3
<1>5. /\ p \in Seq(Slot) /\ Len(p) = m /\ a \in Nat /\ SubSeq(r, 1, k) \in Seq(Slot)
      /\ \A j \in 1..m : /\ p[j].end = q[j].end
                         /\ p[j].toa = IF j = 1 THEN q[1].toa + a ELSE q[j].toa
  BY <1>1, SnapFoldIs, Zenon
<1> HIDE DEF q, G, p
<1>6. Stamped(p, G)
  <2>1. SUFFICES ASSUME NEW j \in 1..m PROVE p[j].end = Millis(G[j])
    BY <1>4, <1>5 DEF Stamped
  <2>2. p[j].end = q[j].end /\ q[j] = r[k + j] /\ k + j \in 1..Len(r) /\ G[j] = F[k + j]
    BY <1>1, <1>3, <1>4, <1>5
  <2>3. r[k + j].end = Millis(F[k + j])
    BY <2>2 DEF Stamped
  <2>4. QED
    BY <2>2, <2>3
<1>7. Sorted(G)
  <2>1. SUFFICES ASSUME NEW i \in 1..m, NEW j \in 1..m, i <= j PROVE G[i] <= G[j]
    BY <1>4 DEF Sorted
  <2>2. k + i \in 1..n /\ k + j \in 1..n /\ k + i <= k + j
    <3>1. k + i \in 1..n /\ k + j \in 1..n
      BY <1>3
    <3>2. i \in Int /\ j \in Int
      BY <1>2
    <3>3. k + i <= k + j
      BY <1>2, <2>1, <3>2
    <3>4. QED
      BY <3>1, <3>3
  <2>3. F[k + i] <= F[k + j]
    BY <1>2, <2>2 DEF Sorted
  <2>4. QED
    BY <1>4, <2>3
<1>8. \A j \in 1..Len(G) : \E i \in 1..Len(F) : G[j] = F[i]
  BY <1>2, <1>3, <1>4
<1>9. ASSUME NEW T \in Int PROVE Total(Counted(r, F, T)) <= Total(Counted(p, G, T))
  <2> DEFINE c == Counted(r, F, T)
             u == Counted(q, G, T)
             v == Counted(p, G, T)
             s == Toas(SubSeq(r, 1, k))
  <2>1. /\ c \in Seq(Nat) /\ Len(c) = n
        /\ \A j \in 1..n : /\ c[j] = IF F[j] > T THEN r[j].toa ELSE 0
                           /\ c[j] <= r[j].toa
    <3>1. Len(F) = Len(r) /\ Len(r) = n
      BY <1>1, <1>2
    <3>2. /\ c \in Seq(Nat) /\ Len(c) = Len(r)
          /\ \A j \in 1..Len(r) : /\ c[j] = IF F[j] > T THEN r[j].toa ELSE 0
                                  /\ Toas(r)[j] = r[j].toa /\ c[j] <= Toas(r)[j]
      BY <3>1, CountedType, Zenon
    <3>3. QED
      BY <3>1, <3>2, Zenon
  <2>2. /\ u \in Seq(Nat) /\ Len(u) = m
        /\ \A j \in 1..m : u[j] = IF G[j] > T THEN q[j].toa ELSE 0
    <3>1. q \in Seq(Slot) /\ G \in Seq(Int) /\ Len(G) = Len(q)
      BY <1>3, <1>4, Zenon
    <3>2. /\ u \in Seq(Nat) /\ Len(u) = Len(q)
          /\ \A j \in 1..Len(q) : u[j] = IF G[j] > T THEN q[j].toa ELSE 0
      BY <3>1, CountedType, Zenon
    <3>3. QED
      BY <1>3, <3>2
  <2>3. /\ v \in Seq(Nat) /\ Len(v) = m
        /\ \A j \in 1..m : v[j] = IF G[j] > T THEN p[j].toa ELSE 0
    BY SMTT(60), <1>4, <1>5, CountedType
  <2>4. /\ s \in Seq(Nat) /\ Len(s) = k /\ \A j \in 1..k : s[j] = r[j].toa
    <3>1. PICK z : z = SubSeq(r, 1, k)
      OBVIOUS
    <3>2. z \in Seq(Slot) /\ Len(z) = k /\ \A j \in 1..k : z[j] = r[j]
      BY SMTT(60), <1>1, <1>2, <1>5, <3>1
    <3>3. Toas(z) \in Seq(Nat) /\ Len(Toas(z)) = Len(z)
          /\ \A j \in 1..Len(z) : Toas(z)[j] = z[j].toa
      BY <3>2, AirtimeType
    <3>4. QED
      BY <3>1, <3>2, <3>3
  <2>5. a = Total(s)
    BY <1>1 DEF FoldedAir, Airtime
  <2> HIDE DEF c, u, v, s
  <2>6. \A j \in 1..m : u[j] = c[k + j]
    <3>1. SUFFICES ASSUME NEW j \in 1..m PROVE u[j] = c[k + j]
      OBVIOUS
    <3>2. q[j] = r[k + j] /\ k + j \in 1..n /\ G[j] = F[k + j]
      BY <1>3, <1>4, Zenon
    <3>3. c[k + j] = IF F[k + j] > T THEN r[k + j].toa ELSE 0
      BY <2>1, <3>2, Zenon
    <3>4. u[j] = IF G[j] > T THEN q[j].toa ELSE 0
      BY <2>2, Zenon
    <3>5. QED
      BY <3>2, <3>3, <3>4
  <2>7. Total(u) = Total(c) - Running(c)[k]
    <3>1. /\ k + 1 \in 1..(Len(c) + 1) /\ Len(u) = Len(c) - ((k + 1) - 1)
          /\ \A j \in 1..Len(u) : u[j] = c[((k + 1) - 1) + j]
      BY <1>2, <2>1, <2>2, <2>6
    <3>2. Total(u) = Total(c) - Running(c)[(k + 1) - 1]
      BY <2>1, <2>2, <3>1, TotalSuffix, Zenon
    <3>3. QED
      BY <1>2, <3>2
  <2>8. PICK x, y, z, w : x = Total(c) /\ y = Total(u) /\ z = Total(v) /\ w = Running(c)[k]
    OBVIOUS
  <2>9. x \in Nat /\ y \in Nat /\ z \in Nat /\ w \in Nat /\ y = x - w
    <3>1. k \in 0..Len(c)
      BY <1>2, <2>1
    <3>2. w \in Nat /\ x \in Nat
      BY <2>1, <2>8, <3>1, RunningGrows
    <3>3. y \in Nat /\ z \in Nat
      BY <2>2, <2>3, <2>8, TotalType
    <3>4. QED
      BY <2>7, <2>8, <3>2, <3>3
  <2>10. CASE m = 0
    <3>1. k = 0
      BY <1>2, <2>10
    <3>2. w = 0
      BY <2>1, <2>8, <3>1, RunningStep
    <3>3. y <= z
      <4>1. Len(u) = Len(v) /\ \A j \in 1..Len(u) : u[j] <= v[j]
        BY <2>2, <2>3, <2>10
      <4>2. QED
        BY <2>2, <2>3, <2>8, <4>1, TotalGrows
    <3>4. x <= z
      BY <2>9, <3>2, <3>3
    <3>5. QED
      BY <2>8, <3>4 DEF c, v
  <2>11. CASE m >= 1 /\ G[1] > T
    <3>1. 1 \in 1..m
      BY <1>2, <2>11
    <3>2. w <= a
      <4>1. /\ 0 \in Nat /\ 0 + k <= Len(c) /\ 0 + k <= Len(s) /\ 0 + k = k
            /\ \A j \in 1..k : 0 + j = j /\ j \in 1..n
        BY <1>2, <2>1, <2>4
      <4>2. \A j \in 1..k : c[0 + j] <= s[0 + j]
        BY <2>1, <2>4, <4>1
      <4>3. Running(c)[0 + k] - Running(c)[0] <= Running(s)[0 + k] - Running(s)[0]
        BY <1>2, <2>1, <2>4, <4>1, <4>2, Compare, Zenon
      <4>4. Running(c)[0] = 0 /\ Running(s)[0] = 0
        BY <2>1, <2>4, RunningStep
      <4>5. Running(c)[k] = w /\ Running(s)[k] = a
        BY <2>4, <2>5, <2>8 DEF Total
      <4>6. w - 0 <= a - 0
        BY <4>1, <4>3, <4>4, <4>5, Zenon
      <4>7. QED
        BY <1>5, <2>9, <4>6
    <3>3. u[1] = q[1].toa /\ v[1] = p[1].toa /\ p[1].toa = q[1].toa + a
      BY <1>5, <2>2, <2>3, <2>11, <3>1
    <3>4. \A j \in 2..Len(u) : v[j] = u[j]
      <4>1. \A j \in 2..Len(u) : j \in 1..m /\ j # 1
        BY <1>2, <2>2
      <4>2. SUFFICES ASSUME NEW j \in 2..Len(u) PROVE v[j] = u[j]
        OBVIOUS
      <4>3. j \in 1..m /\ j # 1
        BY <4>1
      <4>4. p[j].toa = q[j].toa
        BY <1>5, <4>3
      <4>5. QED
        BY <2>2, <2>3, <4>3, <4>4
    <3>5. y + a <= z
      <4>1. Len(v) = Len(u) /\ Len(u) >= 1 /\ v[1] = u[1] + a
        BY <2>2, <2>3, <2>11, <3>3
      <4>2. Total(u) + a <= Total(v)
        BY <1>5, <2>2, <2>3, <3>4, <4>1, FirstAdds
      <4>3. QED
        BY <2>8, <4>2
    <3>6. x <= z
      BY <1>5, <2>9, <3>2, <3>5
    <3>7. QED
      BY <2>8, <3>6 DEF c, v
  <2>12. CASE m >= 1 /\ ~(G[1] > T)
    <3>1. 1 \in 1..m /\ k + 1 \in 1..n
      BY <1>2, <1>3, <2>12
    <3>2. \A j \in 1..k : c[j] = 0
      <4>1. SUFFICES ASSUME NEW j \in 1..k PROVE c[j] = 0
        OBVIOUS
      <4>2. j \in 1..n /\ j <= k + 1
        BY <1>2
      <4>3. F[j] <= F[k + 1] /\ F[j] \in Int /\ F[k + 1] \in Int
        BY <1>2, <3>1, <4>2, Elements DEF Sorted
      <4>4. ~(F[j] > T)
        BY <1>4, <2>12, <3>1, <4>3
      <4>5. QED
        BY <2>1, <4>2, <4>4
    <3>3. w = 0
      <4>1. k \in 0..Len(c)
        BY <1>2, <2>1
      <4>2. QED
        BY <2>1, <2>8, <3>2, <4>1, RunningZero
    <3>4. y <= z
      <4>1. \A j \in 1..m : u[j] <= v[j]
        <5>1. SUFFICES ASSUME NEW j \in 1..m PROVE u[j] <= v[j]
          OBVIOUS
        <5>2. CASE j = 1
          BY <2>2, <2>3, <2>12, <5>2
        <5>3. CASE j # 1
          <6>1. u[j] = v[j] /\ u[j] \in Nat
            <7>1. u[j] \in Nat
              BY <2>2, Elements, Zenon
            <7>2. QED
              BY <1>5, <2>2, <2>3, <5>3, <7>1
          <6>2. QED
            BY <6>1
        <5>4. QED
          BY <5>2, <5>3
      <4>2. Len(u) = Len(v) /\ \A j \in 1..Len(u) : u[j] <= v[j]
        BY <2>2, <2>3, <4>1
      <4>3. QED
        BY <2>2, <2>3, <2>8, <4>2, TotalGrows
    <3>5. x <= z
      BY <2>9, <3>3, <3>4
    <3>6. QED
      BY <2>8, <3>5 DEF c, v
  <2>13. QED
    BY <1>2, <2>10, <2>11, <2>12
<1>10. QED
  BY <1>2, <1>4, <1>5, <1>6, <1>7, <1>8, <1>9 DEF p

----------------------------------------------------------------------------
(***************************************************************************)
(* Ages are differences of stamps: what the import makes of them is the    *)
(* stamp of the same time again, relative to the boot.                     *)
(***************************************************************************)
LEMMA SameStamp ==
  ASSUME NEW x \in Int, NEW y \in Int, NEW k \in Int, x = y + k * Wrap
  PROVE  x % Wrap = y % Wrap
<1>1. Wrap \in Nat \ {0}
  BY WrapFacts
<1>2. PICK i \in Int : x = i * Wrap + (x % Wrap)
  BY Residue
<1>3. PICK j \in Int : y = j * Wrap + (y % Wrap)
  BY Residue
<1>4. PICK a, b : a = x % Wrap /\ b = y % Wrap
  OBVIOUS
<1>5. a \in 0..(Wrap - 1) /\ b \in 0..(Wrap - 1)
  BY <1>4, Residue
<1>6. /\ ((j - i) + k) * Wrap = j * Wrap - i * Wrap + k * Wrap
      /\ i * Wrap \in Int /\ j * Wrap \in Int /\ k * Wrap \in Int
  BY <1>1
<1>7. (j - i) + k \in Int
  OBVIOUS
<1>8. x = i * Wrap + a /\ y = j * Wrap + b
  BY <1>2, <1>3, <1>4, Zenon
<1>9. a - b = ((j - i) + k) * Wrap
  BY <1>1, <1>5, <1>6, <1>8
<1>10. a = b
  BY <1>5, <1>7, <1>9, SameResidue, Zenon
<1>11. QED
  BY <1>4, <1>10, Zenon

LEMMA DeltaIs ==
  ASSUME NEW p \in Int, NEW q \in Int
  PROVE  /\ Delta(p, q) \in Int /\ Delta(p, q) <= Wrap - 1
         /\ \E k \in Int : Delta(p, q) = (p - q) + k * Wrap
<1>1. PICK d, h, x : d = (p - q) % Wrap /\ h = Wrap \div 2 /\ x = Delta(p, q)
  OBVIOUS
<1>2. Wrap \in Nat \ {0} /\ h \in Nat /\ p - q \in Int
  BY <1>1, WrapFacts
<1>3. d \in 0..(Wrap - 1) /\ \E k \in Int : p - q = k * Wrap + d
  BY <1>1, <1>2, Residue
<1>4. PICK k \in Int : p - q = k * Wrap + d
  BY <1>3
<1>5. x = IF d < h THEN d ELSE d - Wrap
  BY <1>1 DEF Delta
<1>6. x \in Int /\ x <= Wrap - 1
  BY <1>2, <1>3, <1>5
<1>7. \E m \in Int : x = (p - q) + m * Wrap
  <2>1. /\ (0 - k) * Wrap = 0 - k * Wrap /\ (0 - k - 1) * Wrap = 0 - k * Wrap - Wrap
        /\ k * Wrap \in Int /\ 0 - k \in Int /\ 0 - k - 1 \in Int
    BY <1>2
  <2>2. CASE d < h
    <3>1. x = (p - q) + (0 - k) * Wrap
      BY <1>3, <1>4, <1>5, <2>1, <2>2
    <3>2. QED
      BY <2>1, <3>1, Zenon
  <2>3. CASE ~(d < h)
    <3>1. x = (p - q) + (0 - k - 1) * Wrap
      BY <1>2, <1>3, <1>4, <1>5, <2>1, <2>3
    <3>2. QED
      BY <2>1, <3>1, Zenon
  <2>4. QED
    BY <2>2, <2>3
<1>8. QED
  BY <1>1, <1>6, <1>7, Zenon

\* The difference of two stamps, as a difference of their times.
LEMMA DeltaTimes ==
  ASSUME NEW a \in Int, NEW b \in Int, epoch \in Int
  PROVE  /\ Delta(Millis(a), Millis(b)) \in Int /\ Delta(Millis(a), Millis(b)) <= Wrap - 1
         /\ \E k \in Int : Delta(Millis(a), Millis(b)) = (a - b) + k * Wrap
<1>1. Wrap \in Nat \ {0}
  BY WrapFacts
<1>2. PICK i \in Int : a - epoch = i * Wrap + Millis(a)
  <2>1. a - epoch \in Int
    OBVIOUS
  <2>2. QED
    BY <2>1, Residue, Zenon DEF Millis
<1>3. PICK j \in Int : b - epoch = j * Wrap + Millis(b)
  <2>1. b - epoch \in Int
    OBVIOUS
  <2>2. QED
    BY <2>1, Residue, Zenon DEF Millis
<1>4. PICK p, q : p = Millis(a) /\ q = Millis(b)
  OBVIOUS
<1>5. p \in Int /\ q \in Int
  BY <1>1, <1>4, MillisType
<1>6. /\ Delta(p, q) \in Int /\ Delta(p, q) <= Wrap - 1
      /\ \E k \in Int : Delta(p, q) = (p - q) + k * Wrap
  BY <1>5, DeltaIs
<1>7. PICK k \in Int : Delta(p, q) = (p - q) + k * Wrap
  BY <1>6
<1>8. PICK x : x = Delta(p, q)
  OBVIOUS
<1>9. /\ (k + (j - i)) * Wrap = k * Wrap + j * Wrap - i * Wrap
      /\ k * Wrap \in Int /\ j * Wrap \in Int /\ i * Wrap \in Int /\ k + (j - i) \in Int
  BY <1>1
<1>10. x = (a - b) + (k + (j - i)) * Wrap
  <2>1. a - epoch = i * Wrap + p /\ b - epoch = j * Wrap + q /\ x = (p - q) + k * Wrap
    BY <1>2, <1>3, <1>4, <1>7, <1>8, Zenon
  <2>2. QED
    BY <1>5, <1>9, <2>1
<1>11. QED
  BY <1>4, <1>6, <1>8, <1>9, <1>10, Zenon

\* The snapshot of a ring.
LEMMA SnapshotIs ==
  ASSUME TypeOK, NEW r \in Seq(Slot), Len(SnapFold(r)) <= SnapSlots,
         SnapFold(r) \in Seq(Slot), NEW d \in Nat
  PROVE  LET s == Snapshot(r, d)
         IN /\ Snap(s) /\ s.valid = TRUE /\ s.away = d
            /\ s.blocked = Max({0, Delta(blocked, Millis(now))})
            /\ Len(s.entries) = Len(SnapFold(r))
            /\ \A i \in 1..Len(SnapFold(r)) :
                 /\ s.entries[i].age = Delta(Millis(now), SnapFold(r)[i].end)
                 /\ s.entries[i].toa = SnapFold(r)[i].toa
<1> DEFINE s == Snapshot(r, d)
           e(i) == [age |-> Delta(Millis(now), SnapFold(r)[i].end), toa |-> SnapFold(r)[i].toa]
<1>1. PICK p, m : p = SnapFold(r) /\ m = Len(p)
  OBVIOUS
<1>2. /\ p \in Seq(Slot) /\ m \in Nat /\ DOMAIN p = 1..m
      /\ \A i \in 1..m : p[i].end \in 0..(Wrap - 1) /\ p[i].toa \in Nat /\ p[i].toa > 0
  BY <1>1, SlotFields
<1>3. Millis(now) \in Int /\ blocked \in Int
  BY StampTypes
<1>4. \A i \in 1..m : Delta(Millis(now), p[i].end) \in Int
  <2>1. \A i \in 1..m : p[i].end \in Int
    BY <1>2, WrapFacts
  <2>2. QED
    BY <1>3, <2>1, DeltaType
<1>5. \A i \in 1..m : e(i) \in Entry
  BY <1>1, <1>2, <1>4 DEF Entry
<1>6. s.entries = [i \in 1..m |-> e(i)]
  BY <1>1, <1>2 DEF Snapshot
<1>7. s.valid = TRUE /\ s.away = d /\ s.blocked = Max({0, Delta(blocked, Millis(now))})
  BY DEF Snapshot
<1>8. \A i \in 1..m : e(i).age = Delta(Millis(now), p[i].end) /\ e(i).toa = p[i].toa
  BY <1>1
<1> HIDE DEF e, s
<1>9. s.entries \in [1..m -> Entry] /\ \A i \in 1..m : s.entries[i] = e(i)
  BY <1>5, <1>6
<1>10. \A g \in [1..m -> Entry] : g \in Seq(Entry) /\ Len(g) = m
  BY <1>2
<1>11. s.entries \in Seq(Entry) /\ Len(s.entries) = m
  BY <1>9, <1>10, Zenon
<1>12. s.blocked \in 0..(Wrap - 1)
  <2>1. PICK x : x = Delta(blocked, Millis(now))
    OBVIOUS
  <2>2. x \in Int /\ x <= Wrap - 1 /\ 0 \in Int
    BY SMTT(60), <1>3, <2>1, DeltaIs
  <2>3. s.blocked \in {0, x} /\ s.blocked >= 0
    BY <1>7, <2>1, <2>2, GreaterOf
  <2>4. QED
    BY <2>2, <2>3, WrapFacts
<1>13. Snap(s)
  BY <1>1, <1>7, <1>11, <1>12 DEF Snap
<1>14. \A i \in 1..m : /\ s.entries[i].age = Delta(Millis(now), p[i].end)
                       /\ s.entries[i].toa = p[i].toa
  BY <1>8, <1>9
<1>15. QED
  BY <1>1, <1>7, <1>11, <1>13, <1>14, Zenon DEF s

\* What the code restores, from a valid snapshot or from none.
RestoredRing(s) == IF s.valid THEN ImportedRing(s) ELSE <<>>
RestoredBlocked(s) == IF s.valid THEN ImportedBlocked(s) ELSE 0

\* The ring restored from s at h has the real ends C, its off-time ends at D.
Restores(s, h, C, D) ==
  /\ Stamps(RestoredRing(s), C, h) /\ Sorted(C) /\ \A j \in 1..Len(C) : C[j] <= D
  /\ RestoredBlocked(s) = (D - h) % Wrap /\ D <= h + Window + Ratio * Overrun

\* The off-time a snapshot keeps.
LEMMA ExportBlocked ==
  ASSUME ClockFits, epoch \in Int, now \in Int, NEW B \in Int, blocked = Millis(B),
         B <= now + Window + Ratio * Overrun,
         NEW s, s.blocked = Max({0, Delta(blocked, Millis(now))}), s.away \in Nat
  PROVE  \E D \in Int :
           /\ D >= B /\ (D = B \/ D = now + s.away)
           /\ ImportedBlocked(s) = (D - (now + s.away)) % Wrap
           /\ D <= now + s.away + Window + Ratio * Overrun
<1>1. PICK x, y, z, d, f, g :
        /\ x = Delta(Millis(B), Millis(now)) /\ y = s.blocked /\ z = ImportedBlocked(s)
        /\ d = s.away /\ f = Ratio * Overrun /\ g = Wrap \div 2
  OBVIOUS
<1>2. /\ Wrap \in Nat \ {0} /\ Window \in Nat /\ f \in Nat /\ g \in Nat /\ d \in Nat
      /\ 2 * Window + f < g
  BY <1>1, ClockRoom, WrapFacts
<1>3. B - now < g
  BY <1>1, <1>2
<1>4. x \in Int /\ x <= Wrap - 1 /\ x >= B - now
  BY <1>1, <1>3, DeltaTimes, DeltaStamps
<1>5. PICK k \in Int : x = (B - now) + k * Wrap
  BY <1>1, DeltaTimes
<1>6. y \in {0, x} /\ y >= 0 /\ y >= x
  <2>1. y = Max({0, x}) /\ 0 \in Int
    BY <1>1
  <2>2. QED
    BY <1>4, <2>1, GreaterOf
<1>7. y - d \in Int
  BY <1>2, <1>4, <1>6
<1>8. z \in {0, y - d} /\ z >= 0 /\ z >= y - d
  <2>1. z = Max({0, y - d}) /\ 0 \in Int
    BY <1>1 DEF ImportedBlocked
  <2>2. QED
    BY <1>7, <2>1, GreaterOf
<1>9. z \in Int /\ 0 <= z /\ z <= Wrap - 1
  BY <1>2, <1>4, <1>6, <1>8
<1>10. \A u \in Int : 0 <= u /\ u <= Wrap - 1 => u % Wrap = u
  BY <1>2
<1>11. CASE z > 0
  <2>1. z = (B - (now + d)) + k * Wrap
    <3>1. y = x /\ z = x - d
      BY <1>2, <1>4, <1>6, <1>8, <1>11
    <3>2. k * Wrap \in Int
      BY <1>2
    <3>3. QED
      BY <1>2, <1>5, <3>1, <3>2
  <2>2. B - (now + d) \in Int
    BY <1>2
  <2>3. z % Wrap = (B - (now + d)) % Wrap
    BY <1>9, <2>1, <2>2, SameStamp
  <2>4. z = (B - (now + d)) % Wrap
    BY <1>9, <1>10, <2>3
  <2>5. B >= B /\ B <= now + d + Window + f
    BY <1>1, <1>2
  <2>6. QED
    BY <1>1, <2>4, <2>5, Zenon
<1>12. CASE ~(z > 0)
  <2>1. z = 0 /\ x <= d
    BY <1>2, <1>4, <1>6, <1>8, <1>12
  <2>2. now + d >= B /\ now + d \in Int /\ now + d <= now + d + Window + f
    BY <1>2, <1>4, <2>1
  <2>3. (now + d) - (now + d) = 0 /\ 0 % Wrap = 0
    BY <1>2, <1>10
  <2>4. z = ((now + d) - (now + d)) % Wrap
    BY <2>1, <2>3, Zenon
  <2>5. QED
    BY <1>1, <2>2, <2>4, Zenon
<1>13. QED
  BY <1>9, <1>11, <1>12

\* A snapshot of a ring whose slots end at F restores no less than the ring
\* counts, now or after a sleep of d.
LEMMA ExportKeeps ==
  ASSUME ClockFits, TypeOK, NEW r \in Seq(Slot), NEW F \in Seq(Int), Stamped(r, F), Sorted(F),
         NEW B \in Int, \A j \in 1..Len(F) : F[j] <= B, blocked = Millis(B),
         B <= now + Window + Ratio * Overrun, NEW d \in Nat
  PROVE  LET s == Snapshot(r, d)
             h == now + d
         IN /\ Snap(s)
            /\ \E C \in Seq(Int), D \in Int :
                 /\ Restores(s, h, C, D) /\ D >= B
                 /\ \A T \in Int : T >= h - Window =>
                      Total(Counted(r, F, T)) <= Total(Counted(RestoredRing(s), C, T))
<1> DEFINE p == SnapFold(r)
<1>1. PICK s, h, f, g : s = Snapshot(r, d) /\ h = now + d /\ f = Ratio * Overrun /\ g = Wrap \div 2
  OBVIOUS
<1>2. /\ now \in Int /\ epoch \in Int /\ h \in Int /\ Window \in Nat /\ f \in Nat /\ g \in Nat
      /\ Wrap \in Nat \ {0} /\ 2 * Window + f < g
  <2>1. now \in Nat /\ epoch \in Nat
    BY StampTypes
  <2>2. Window \in Nat /\ f \in Nat /\ g \in Nat /\ Wrap \in Nat \ {0} /\ 2 * Window + f < g
    BY <1>1, ClockRoom, WrapFacts
  <2>3. QED
    BY <1>1, <2>1, <2>2
<1>3. PICK G \in Seq(Int) :
        /\ p \in Seq(Slot) /\ Len(p) <= SnapSlots /\ Stamped(p, G) /\ Sorted(G)
        /\ \A j \in 1..Len(G) : \E k \in 1..Len(F) : G[j] = F[k]
        /\ \A T \in Int : Total(Counted(r, F, T)) <= Total(Counted(p, G, T))
  BY SnapFoldCounts
<1> HIDE DEF p
<1>4. /\ Snap(s) /\ s.valid = TRUE /\ s.away = d
      /\ s.blocked = Max({0, Delta(blocked, Millis(now))})
      /\ Len(s.entries) = Len(p)
      /\ \A i \in 1..Len(p) : /\ s.entries[i].age = Delta(Millis(now), p[i].end)
                              /\ s.entries[i].toa = p[i].toa
  <2>1. SnapFold(r) \in Seq(Slot) /\ Len(SnapFold(r)) <= SnapSlots
    BY <1>3, Zenon DEF p
  <2>2. /\ Snap(Snapshot(r, d)) /\ Snapshot(r, d).valid = TRUE /\ Snapshot(r, d).away = d
        /\ Snapshot(r, d).blocked = Max({0, Delta(blocked, Millis(now))})
        /\ Len(Snapshot(r, d).entries) = Len(SnapFold(r))
        /\ \A i \in 1..Len(SnapFold(r)) :
             /\ Snapshot(r, d).entries[i].age = Delta(Millis(now), SnapFold(r)[i].end)
             /\ Snapshot(r, d).entries[i].toa = SnapFold(r)[i].toa
    BY <2>1, SnapshotIs, Zenon
  <2>3. QED
    BY <1>1, <2>2, Zenon DEF p
<1>5. PICK n : n = Len(p)
  OBVIOUS
<1>6. Len(G) = n /\ Len(s.entries) = n /\ \A i \in 1..n : p[i].end = Millis(G[i])
  BY <1>3, <1>4, <1>5 DEF Stamped
<1>7. \A i \in 1..n : G[i] \in Int /\ G[i] <= B
  <2>1. \A i \in 1..n : G[i] \in Int
    BY <1>6, Elements
  <2>2. QED
    BY <1>3, <1>6, <2>1
<1>8. ASSUME NEW i \in 1..n
      PROVE  /\ (0 - Aged(s, i)) % Wrap = (G[i] - h) % Wrap
             /\ Aged(s, i) >= Window => G[i] <= h - Window
  <2>1. PICK e, x, a : e = G[i] /\ x = Delta(Millis(now), Millis(e)) /\ a = Aged(s, i)
    OBVIOUS
  <2>2. e \in Int /\ e <= B
    BY <1>7, <2>1
  <2>3. a = x + d
    <3>1. s.entries[i].age = Delta(Millis(now), p[i].end) /\ p[i].end = Millis(G[i])
      BY <1>4, <1>5, <1>6
    <3>2. QED
      BY <1>4, <2>1, <3>1 DEF Aged
  <2>4. now - e >= -g
    BY <1>1, <1>2, <2>2
  <2>5. x \in Int /\ x <= now - e
    BY <1>1, <1>2, <2>1, <2>2, <2>4, DeltaStamps
  <2>6. PICK k \in Int : x = (now - e) + k * Wrap
    <3>1. \E k \in Int : Delta(Millis(now), Millis(e)) = (now - e) + k * Wrap
      BY <1>2, <2>2, DeltaTimes
    <3>2. QED
      BY <2>1, <3>1, Zenon
  <2>7. 0 - a = (e - h) + (0 - k) * Wrap
    <3>1. k * Wrap \in Int /\ (0 - k) * Wrap = 0 - k * Wrap
      BY <1>2
    <3>2. QED
      BY <1>1, <1>2, <2>2, <2>3, <2>5, <2>6, <3>1
  <2>8. 0 - a \in Int /\ e - h \in Int /\ 0 - k \in Int
    BY <1>2, <2>2, <2>3, <2>5
  <2>9. (0 - a) % Wrap = (e - h) % Wrap
    BY <2>7, <2>8, SameStamp, Zenon
  <2>10. a >= Window => e <= h - Window
    BY <1>1, <1>2, <2>2, <2>3, <2>5
  <2>11. QED
    BY <2>1, <2>9, <2>10, Zenon
<1>9. PICK C \in Seq(Int) :
        /\ Stamps(ImportedRing(s), C, h) /\ Sorted(C)
        /\ \A j \in 1..Len(C) : \E k \in 1..Len(G) : C[j] = G[k]
        /\ \A T \in Int : T >= h - Window =>
             Total(Counted(ImportedRing(s), C, T)) = Total(Counted(s.entries, G, T))
  <2>1. /\ \A i \in 1..Len(G) : (0 - Aged(s, i)) % Wrap = (G[i] - h) % Wrap
        /\ \A i \in 1..Len(G) : Aged(s, i) >= Window => G[i] <= h - Window
        /\ Len(G) = Len(s.entries)
    BY <1>6, <1>8
  <2>2. QED
    BY <1>2, <1>3, <1>4, <2>1, ImportKeeps
<1>10. \A T : Counted(s.entries, G, T) = Counted(p, G, T)
  <2>1. DOMAIN p = 1..n /\ DOMAIN s.entries = 1..n
    <3>1. DOMAIN p = 1..n
      BY <1>3, <1>5, SlotFields, Zenon
    <3>2. DOMAIN s.entries = 1..Len(s.entries)
      BY <1>4, EntryFields, Zenon
    <3>3. QED
      BY <1>6, <3>1, <3>2, Zenon
  <2>2. \A i \in 1..n : s.entries[i].toa = p[i].toa
    BY <1>4, <1>5
  <2>3. QED
    BY <2>1, <2>2 DEF Counted
<1>11. RestoredRing(s) = ImportedRing(s) /\ RestoredBlocked(s) = ImportedBlocked(s)
  BY <1>4 DEF RestoredRing, RestoredBlocked
<1>12. PICK D \in Int :
         /\ D >= B /\ ImportedBlocked(s) = (D - h) % Wrap
         /\ D <= h + Window + Ratio * Overrun
  <2>1. /\ epoch \in Int /\ now \in Int /\ s.away = d /\ s.away \in Nat
        /\ s.blocked = Max({0, Delta(blocked, Millis(now))})
    BY <1>2, <1>4, Zenon
  <2>2. PICK D \in Int :
          /\ D >= B /\ ImportedBlocked(s) = (D - (now + s.away)) % Wrap
          /\ D <= now + s.away + Window + Ratio * Overrun
    BY <2>1, ExportBlocked, Zenon
  <2>3. QED
    BY <1>1, <2>1, <2>2, Zenon
<1>13. \A j \in 1..Len(C) : C[j] <= D
  <2>1. SUFFICES ASSUME NEW j \in 1..Len(C) PROVE C[j] <= D
    OBVIOUS
  <2>2. PICK k \in 1..Len(G) : C[j] = G[k]
    BY <1>9
  <2>3. G[k] \in Int /\ G[k] <= B
    BY <1>6, <1>7
  <2>4. QED
    BY <1>12, <2>2, <2>3
<1>14. Restores(s, h, C, D)
  BY <1>9, <1>11, <1>12, <1>13 DEF Restores
<1>15. \A T \in Int : T >= h - Window =>
         Total(Counted(r, F, T)) <= Total(Counted(RestoredRing(s), C, T))
  BY <1>3, <1>9, <1>10, <1>11
<1>16. QED
  BY <1>1, <1>4, <1>12, <1>14, <1>15, Zenon

----------------------------------------------------------------------------
(***************************************************************************)
(* Types and shape, on every row: where the mirror finds transmit(), and   *)
(* what a reboot leaves of the history.                                    *)
(***************************************************************************)
LEMMA NoSnapshotIs ==
  Snap(NoSnapshot)
<1>1. 0 \in 0..(Wrap - 1) /\ <<>> \in Seq(Entry) /\ Len(<<>>) <= SnapSlots
  BY WrapFacts, MirrorFacts
<1>2. QED
  BY <1>1 DEF Snap, NoSnapshot

LEMMA RestoredFacts ==
  ASSUME NEW s, Snap(s)
  PROVE  /\ RestoredRing(s) \in Seq(Slot) /\ Len(RestoredRing(s)) <= Slots
         /\ RestoredBlocked(s) \in 0..(Wrap - 1)
<1>1. CASE s.valid
  BY <1>1, RestoredType DEF RestoredRing, RestoredBlocked
<1>2. CASE ~s.valid
  <2>1. <<>> \in Seq(Slot) /\ Len(<<>>) <= Slots /\ 0 \in 0..(Wrap - 1)
    BY WrapFacts
  <2>2. QED
    BY <1>2, <2>1 DEF RestoredRing, RestoredBlocked
<1>3. QED
  BY <1>1, <1>2

\* A frame cut short by a crash was not on the air for longer.
Cut(l, t) == [l EXCEPT ![Len(l)].stop = t]

LEMMA CutFrame ==
  ASSUME NEW l \in Seq(Frame), WellTimed(l), Len(l) >= 1, NEW t \in Nat,
         l[Len(l)].start <= t, t <= l[Len(l)].stop
  PROVE  LET q == Cut(l, t)
             n == Len(l)
         IN /\ q \in Seq(Frame) /\ WellTimed(q) /\ Len(q) = n
            /\ q[n].start = l[n].start /\ q[n].stop = t
            /\ \A i \in 1..(n - 1) : q[i] = l[i]
            /\ \A u \in Int : Total(Parts(q, n, u)) <= Total(Parts(l, n, u))
            /\ \A u \in Int : Total(Parts(q, n - 1, u)) <= Total(Parts(l, n - 1, u))
<1> DEFINE e == [l[Len(l)] EXCEPT !.stop = t]
<1>1. PICK n, q : n = Len(l) /\ q = Cut(l, t)
  OBVIOUS
<1>2. /\ n \in Nat /\ n >= 1 /\ n \in 1..n /\ n \in Int /\ n - 1 \in Int
      /\ \A i \in 1..n : i = n \/ i \in 1..(n - 1)
      /\ \A i \in 1..(n - 1) : i \in 1..n /\ i # n
  BY <1>1, FrameFields
<1>3. l[n] \in Frame /\ l[n].start \in Nat /\ l[n].stop \in Nat
  BY <1>1, <1>2, FrameFields
<1>4. e \in Frame /\ e.start = l[n].start /\ e.stop = t
  BY <1>1, <1>3 DEF Frame
<1>5. q = [l EXCEPT ![n] = e]
  BY <1>1 DEF Cut
<1> HIDE DEF e
<1>6. q \in Seq(Frame) /\ Len(q) = n /\ q[n] = e /\ \A i \in 1..(n - 1) : q[i] = l[i]
  BY <1>1, <1>2, <1>4, <1>5
<1>7. WellTimed(q)
  <2>1. \A i \in 1..n : q[i].start <= q[i].stop
    BY <1>1, <1>2, <1>4, <1>6 DEF WellTimed
  <2>2. QED
    BY <1>6, <2>1 DEF WellTimed
<1>8. ASSUME NEW u \in Int PROVE Part(e, u) <= Part(l[n], u)
  <2>1. PICK a, b, x, y, z :
          /\ a = Part(e, u) /\ b = Part(l[n], u)
          /\ x = l[n].start /\ y = l[n].stop /\ z = u - Window
    OBVIOUS
  <2>2. x \in Nat /\ y \in Nat /\ z \in Int /\ t <= y
    BY <1>1, <1>3, <2>1, WrapFacts
  <2>3. a = LET f == IF t <= u THEN t ELSE u
                g == IF x >= z THEN x ELSE z
            IN  IF f >= g THEN f - g ELSE 0
    BY <1>4, <2>1, PartIs, Zenon
  <2>4. b = LET f == IF y <= u THEN y ELSE u
                g == IF x >= z THEN x ELSE z
            IN  IF f >= g THEN f - g ELSE 0
    BY <1>3, <2>1, PartIs, Zenon
  <2>5. a <= b
    BY <2>2, <2>3, <2>4
  <2>6. QED
    BY <2>1, <2>5, Zenon
<1>9. ASSUME NEW u \in Int, NEW k \in {n, n - 1}
      PROVE  Total(Parts(q, k, u)) <= Total(Parts(l, k, u))
  <2>1. k \in Int
    BY <1>2
  <2>2. Counts(l, k, u) /\ Counts(q, k, u)
    BY <1>6, <1>7, <2>1, PartsType, Zenon
  <2>3. \A i \in 1..n : Part(q[i], u) <= Part(l[i], u)
    <3>1. SUFFICES ASSUME NEW i \in 1..n PROVE Part(q[i], u) <= Part(l[i], u)
      OBVIOUS
    <3>2. CASE i = n
      BY <1>6, <1>8, <3>2
    <3>3. CASE i # n
      <4>1. q[i] = l[i]
        BY <1>2, <1>6, <3>3
      <4>2. l[i] \in Frame /\ l[i].start <= l[i].stop
        BY <1>1, FrameFields DEF WellTimed
      <4>3. Part(l[i], u) \in Nat
        BY <4>2, PartFacts
      <4>4. QED
        BY <4>1, <4>3
    <3>4. QED
      BY <3>2, <3>3
  <2>4. \A i \in 1..n : Parts(q, k, u)[i] <= Parts(l, k, u)[i]
    BY <1>1, <1>6, <2>2, <2>3 DEF Counts
  <2>5. /\ Parts(q, k, u) \in Seq(Nat) /\ Parts(l, k, u) \in Seq(Nat)
        /\ Len(Parts(q, k, u)) = n /\ Len(Parts(l, k, u)) = n
    BY <1>1, <1>6, <2>2 DEF Counts
  <2>6. QED
    BY <2>4, <2>5, TotalGrows
<1>10. QED
  BY <1>1, <1>4, <1>6, <1>7, <1>9

MirrorShape ==
  /\ TypeOK /\ FrameInv /\ Snap(rtc)
  /\ power \in {"on", "mirror", "remirror", "asleep"} /\ wake \in Nat
  /\ boots \in 0..MaxBoots
  /\ power = "asleep" => pc = "idle" /\ now <= wake
  /\ power \in {"mirror", "remirror"} => pc \in {"idle", "resume"}
  /\ power = "remirror" => pc = "idle"
  /\ power = "mirror" => log # <<>> /\ LastOf(log).start < LastOf(log).stop

Reboots == TimerWakes \/ EarlyReset \/ Crash \/ CrashUnmirrored

\* A reboot adds no airtime to the history, and changes it only if it adds to
\* what is lost.
LEMMA RebootKeeps ==
  ASSUME MirrorShape, Reboots
  PROVE  /\ \E s : Boot(s) /\ Snap(s)
         /\ log' \in Seq(Frame) /\ WellTimed(log') /\ Len(log') = Len(log)
         /\ \A i \in 1..Len(log') : log'[i].stop <= now
         /\ lost' \in Nat /\ lost' >= lost /\ (lost' = lost => log' = log)
         /\ \A t \in Int : Total(Parts(log', Len(log'), t)) <= Total(Parts(log, Len(log), t))
<1>1. /\ TypeOK /\ FrameInv /\ Snap(rtc) /\ Snap(NoSnapshot)
      /\ power \in {"on", "mirror", "remirror", "asleep"}
      /\ (power = "asleep" => pc = "idle")
      /\ (power \in {"mirror", "remirror"} => pc \in {"idle", "resume"})
      /\ (power = "mirror" => log # <<>> /\ LastOf(log).start < LastOf(log).stop)
  BY NoSnapshotIs DEF MirrorShape
<1>2. /\ log \in Seq(Frame) /\ WellTimed(log) /\ now \in Nat /\ lost \in Nat
      /\ Len(log) \in Nat /\ OnAir \in Nat
  BY <1>1, StampTypes, OnAirIs
<1>3. \A i \in 1..Len(log) : i <= Finished => log[i].stop <= now
  BY <1>1 DEF FrameInv
<1>4. \A t \in Int : Total(Parts(log, Len(log), t)) \in Nat
  BY <1>2, PartsTotal
<1>5. \E s : Boot(s) /\ Snap(s)
  BY <1>1 DEF Reboots, TimerWakes, EarlyReset, Crash, CrashUnmirrored
<1>6. CASE log' = log /\ pc # "air" /\ lost' \in Nat /\ lost' >= lost
  <2>1. \A i \in 1..Len(log) : i <= Len(log)
    BY <1>2
  <2>2. \A i \in 1..Len(log') : log'[i].stop <= now
    BY <1>3, <1>6, <2>1 DEF Finished
  <2>3. \A t \in Int : Total(Parts(log', Len(log'), t)) <= Total(Parts(log, Len(log), t))
    BY <1>4, <1>6
  <2>4. QED
    BY <1>2, <1>5, <1>6, <2>2, <2>3
<1>7. CASE pc = "air"
  <2>1. /\ log # <<>> /\ LastOf(log).stop = until /\ now <= until /\ est # 0
        /\ LastOf(log).start <= now /\ LastOf(log).start + est <= until
        /\ est \in Nat
    <3>1. est \in Nat
      BY <1>1, StampTypes
    <3>2. QED
      BY <1>1, <1>7, <3>1 DEF FrameInv
  <2>2. PICK n : n = Len(log)
    OBVIOUS
  <2>3. n \in Nat /\ n >= 1 /\ n \in 1..n
    BY <1>2, <2>1, <2>2
  <2>4. /\ log[n].start \in Nat /\ log[n].stop \in Nat /\ log[n] = LastOf(log)
        /\ Last(log) = LastOf(log)
    BY <1>2, <2>2, <2>3, FrameFields DEF LastOf, Last
  <2>5. log[n].start <= now /\ now <= log[n].stop /\ log[n].stop - log[n].start \in Nat
        /\ log[n].stop - log[n].start > 0
    BY <2>1, <2>4
  <2>6. log' = Cut(log, now) /\ power = "on" /\ lost' = lost + LastAirtime
    <3>1. CrashUnmirrored
      BY <1>1, <1>7 DEF Reboots, TimerWakes, EarlyReset, Crash
    <3>2. power = "on"
      BY <1>1, <1>7
    <3>3. QED
      BY <1>7, <3>1, <3>2 DEF CrashUnmirrored, Cut
  <2>7. LastAirtime = log[n].stop - log[n].start
    BY <2>4 DEF LastAirtime
  <2>8. lost' \in Nat /\ lost' > lost
    <3>1. PICK x : x = LastAirtime
      OBVIOUS
    <3>2. x \in Nat /\ x > 0 /\ lost' = lost + x
      BY <2>5, <2>6, <2>7, <3>1
    <3>3. QED
      BY <1>2, <3>2
  <2>9. /\ log' \in Seq(Frame) /\ WellTimed(log') /\ Len(log') = n
        /\ log'[n].stop = now /\ \A i \in 1..(n - 1) : log'[i] = log[i]
        /\ \A u \in Int : Total(Parts(log', n, u)) <= Total(Parts(log, n, u))
    BY <1>2, <2>2, <2>3, <2>5, <2>6, CutFrame
  <2>10. \A i \in 1..n : log'[i].stop <= now
    <3>1. \A i \in 1..n : i = n \/ (i \in 1..(n - 1) /\ i <= n - 1)
      BY <2>3
    <3>2. \A i \in 1..(n - 1) : i \in 1..n /\ log[i].stop <= now
      BY <1>3, <1>7, <2>2, <2>3 DEF Finished
    <3>3. QED
      BY <1>2, <2>9, <3>1, <3>2
  <2>11. QED
    BY <1>2, <1>5, <2>2, <2>8, <2>9, <2>10
<1>8. CASE pc # "air"
  <2>1. CASE CrashUnmirrored
    <3>1. log' = log /\ power \in {"mirror", "remirror"}
      BY <1>8, <2>1 DEF CrashUnmirrored
    <3>2. CASE lost' = lost + OnAir
      <4>1. lost' \in Nat /\ lost' >= lost
        BY <1>2, <3>2
      <4>2. QED
        BY <1>6, <1>8, <3>1, <4>1
    <3>3. CASE power = "remirror" /\ lost' = lost + 0
      <4>1. lost' \in Nat /\ lost' >= lost
        BY <1>2, <3>3
      <4>2. QED
        BY <1>6, <1>8, <3>1, <4>1
    <3>4. CASE power = "mirror" /\ lost' = lost + LastAirtime
      <4>1. log # <<>> /\ Len(log) \in 1..Len(log)
        BY <1>1, <1>2, <3>4
      <4>2. /\ Last(log) = LastOf(log) /\ LastOf(log).start \in Nat /\ LastOf(log).stop \in Nat
            /\ LastOf(log).start < LastOf(log).stop
        BY <1>1, <1>2, <3>4, <4>1, FrameFields DEF LastOf, Last
      <4>3. PICK x : x = LastAirtime
        OBVIOUS
      <4>4. x \in Nat /\ lost' = lost + x
        BY <3>4, <4>2, <4>3 DEF LastAirtime
      <4>5. lost' \in Nat /\ lost' >= lost
        BY <1>2, <4>4
      <4>6. QED
        BY <1>6, <1>8, <3>1, <4>5
    <3>5. QED
      BY <2>1, <3>1, <3>2, <3>3, <3>4 DEF CrashUnmirrored
  <2>2. CASE ~CrashUnmirrored
    <3>1. log' = log /\ (lost' = lost \/ lost' = lost + OnAir)
      BY <2>2 DEF Reboots, TimerWakes, EarlyReset, Crash
    <3>2. lost' \in Nat /\ lost' >= lost
      BY <1>2, <3>1
    <3>3. QED
      BY <1>6, <1>8, <3>1, <3>2
  <2>3. QED
    BY <2>1, <2>2
<1>9. QED
  BY <1>7, <1>8

LEMMA SnapshotTyped ==
  ASSUME TypeOK, NEW r \in Seq(Slot), NEW d \in Nat
  PROVE  Snap(Snapshot(r, d))
<1>1. SnapFold(r) \in Seq(Slot) /\ Len(SnapFold(r)) <= SnapSlots
  <2>1. SnapFold(r) \in Seq(Slot) /\ Len(SnapFold(r)) = Len(r) - Skipped(r)
    BY SnapFoldIs, Zenon
  <2>2. QED
    BY <2>1, SkippedIs
<1>2. QED
  BY <1>1, SnapshotIs

LEMMA BootShape ==
  ASSUME MirrorShape, NEW s, Snap(s), Boot(s),
         log' \in Seq(Frame), WellTimed(log'), \A i \in 1..Len(log') : log'[i].stop <= now,
         lost' \in Nat
  PROVE  MirrorShape'
<1>1. /\ now \in Nat /\ row \in Rows /\ called \in Nat \cup {-1} /\ boots \in 0..MaxBoots
      /\ MaxBoots \in Nat
  BY MirrorFacts DEF MirrorShape, TypeOK
<1>2. /\ boots < MaxBoots /\ boots' = boots + 1 /\ epoch' = now /\ power' = "on" /\ wake' = 0
      /\ ring' = RestoredRing(s) /\ blocked' = RestoredBlocked(s)
      /\ pc' = "idle" /\ held' = 0 /\ est' = 0 /\ until' = 0
      /\ ident' = [has |-> FALSE, at |-> 0] /\ row' = row /\ called' = called
      /\ rtc' = s /\ now' = now
  BY DEF Boot, RestoredRing, RestoredBlocked
<1>3. /\ RestoredRing(s) \in Seq(Slot) /\ Len(RestoredRing(s)) <= Slots
      /\ RestoredBlocked(s) \in 0..(Wrap - 1)
  BY RestoredFacts
<1>4. ident' \in [has : BOOLEAN, at : 0..(Wrap - 1)] /\ now \in 0..now
  BY <1>1, <1>2, WrapFacts
<1>5. TypeOK'
  BY <1>1, <1>2, <1>3, <1>4 DEF TypeOK, Frame
<1>6. FrameInv'
  BY <1>2 DEF FrameInv, WellTimed
<1>7. boots' \in 0..MaxBoots
  BY <1>1, <1>2
<1>8. QED
  BY <1>2, <1>5, <1>6, <1>7 DEF MirrorShape

LEMMA ShapeInit ==
  ASSUME MirrorInit
  PROVE  MirrorShape
<1>1. TypeOK /\ FrameInv
  BY InitBasic DEF MirrorInit
<1>2. 0 \in 0..MaxBoots
  BY MirrorFacts
<1>3. QED
  BY <1>1, <1>2, NoSnapshotIs DEF MirrorInit, MirrorShape

LEMMA ShapeNext ==
  ASSUME MirrorShape, [MirrorNext]_allVars
  PROVE  MirrorShape'
<1>1. /\ TypeOK /\ FrameInv /\ Snap(rtc) /\ wake \in Nat /\ boots \in 0..MaxBoots
      /\ power = "asleep" => pc = "idle" /\ now <= wake
      /\ power \in {"mirror", "remirror"} => pc \in {"idle", "resume"}
      /\ now \in Nat
  BY StampTypes DEF MirrorShape
<1>2. CASE UNCHANGED allVars
  <2>1. /\ vars' = vars /\ power' = power /\ wake' = wake /\ rtc' = rtc /\ boots' = boots
    BY <1>2 DEF allVars, mirrorVars
  <2>2. TypeOK' /\ FrameInv'
    BY <1>1, <2>1, NextBasic
  <2>3. pc' = pc /\ now' = now /\ log' = log
    BY <2>1 DEF vars, txVars
  <2>4. QED
    BY <1>1, <2>1, <2>2, <2>3 DEF MirrorShape, LastOf
<1>3. CASE Work
  <2>1. /\ power = "on" /\ power' = "on" /\ wake' = wake /\ rtc' = rtc /\ boots' = boots
        /\ Next
    BY <1>3 DEF Work, mirrorVars, Next
  <2>2. TypeOK' /\ FrameInv'
    BY <1>1, <2>1, NextBasic
  <2>3. QED
    BY <1>1, <2>1, <2>2 DEF MirrorShape
<1>4. CASE RecordAndMirror
  <2>1. /\ power' = "mirror" /\ wake' = wake /\ rtc' = rtc /\ boots' = boots /\ Record
    BY <1>4 DEF RecordAndMirror
  <2>2. TypeOK' /\ FrameInv'
    BY <1>1, <2>1, NextBasic DEF Next
  <2>3. pc = "air" /\ now = until /\ pc' \in {"idle", "resume"} /\ log' = log
    BY <2>1 DEF Record, Sent
  <2>4. log # <<>> /\ LastOf(log).start < LastOf(log).stop
    <3>1. Len(log) >= 1 /\ LastOf(log).stop = now /\ LastOf(log).start < now
      BY <1>1, <2>3, SentFrame
    <3>2. log \in Seq(Frame)
      BY <1>1, StampTypes
    <3>3. QED
      BY <3>1, <3>2
  <2>5. QED
    BY <1>1, <2>1, <2>2, <2>3, <2>4 DEF MirrorShape, LastOf
<1>5. CASE IdleMirror
  <2>1. /\ power' = "remirror" /\ wake' = wake /\ rtc' = rtc /\ boots' = boots /\ vars' = vars
        /\ pc = "idle"
    BY <1>5 DEF IdleMirror
  <2>2. TypeOK' /\ FrameInv'
    BY <1>1, <2>1, NextBasic
  <2>3. pc' = pc
    BY <2>1 DEF vars, txVars
  <2>4. QED
    BY <1>1, <2>1, <2>2, <2>3 DEF MirrorShape
<1>6. CASE Mirrored
  <2>1. /\ power' = "on" /\ wake' = wake /\ boots' = boots /\ rtc' = Snapshot(ring', 0)
        /\ ring' = Prune(ring, Millis(now))
        /\ UNCHANGED <<now, epoch, blocked, txVars, identVars, log, lost>>
    BY <1>6 DEF Mirrored
  <2>2. TypeOK' /\ FrameInv'
    BY <1>1, <2>1, PruneStep
  <2>3. ring' \in Seq(Slot) /\ 0 \in Nat
    BY <1>1, <2>1, PruneType, StampTypes
  <2>4. Snap(rtc')
    BY <1>1, <2>1, <2>3, SnapshotTyped
  <2>5. QED
    BY <1>1, <2>1, <2>2, <2>4 DEF MirrorShape
<1>7. CASE DeepSleep
  <2>1. PICK d \in SleepFor :
          /\ ring' = Prune(ring, Millis(now)) /\ rtc' = Snapshot(ring', d) /\ wake' = now + d
    BY <1>7 DEF DeepSleep
  <2>2. /\ power' = "asleep" /\ pc = "idle" /\ boots' = boots
        /\ UNCHANGED <<now, epoch, blocked, txVars, identVars, log, lost>>
    BY <1>7 DEF DeepSleep
  <2>3. TypeOK' /\ FrameInv'
    BY <1>1, <2>1, <2>2, PruneStep
  <2>4. ring' \in Seq(Slot) /\ d \in Nat
    BY <1>1, <2>1, PruneType, StampTypes, MirrorFacts
  <2>5. Snap(rtc')
    BY <1>1, <2>1, <2>4, SnapshotTyped
  <2>6. wake' \in Nat /\ now' <= wake' /\ pc' = "idle"
    BY <1>1, <2>1, <2>2, <2>4 DEF txVars
  <2>7. QED
    BY <1>1, <2>2, <2>3, <2>5, <2>6 DEF MirrorShape
<1>8. CASE Asleep
  <2>1. /\ power = "asleep" /\ now < wake /\ now' = now + 1 /\ log' = Recent(log, now')
        /\ UNCHANGED <<epoch, govVars, txVars, identVars, lost, mirrorVars>>
    BY <1>8 DEF Asleep
  <2>2. TimePasses /\ pc' = "idle"
    BY <1>1, <2>1 DEF TimePasses, txVars
  <2>3. TypeOK' /\ FrameInv'
    BY <1>1, <2>2, TimeStep
  <2>4. power' = power /\ wake' = wake /\ rtc' = rtc /\ boots' = boots
    BY <2>1 DEF mirrorVars
  <2>5. now' <= wake'
    BY <1>1, <2>1, <2>4
  <2>6. QED
    BY <1>1, <2>1, <2>2, <2>3, <2>4, <2>5 DEF MirrorShape
<1>9. CASE Reboots
  <2>1. PICK s : Boot(s) /\ Snap(s)
    BY <1>9, RebootKeeps
  <2>2. /\ log' \in Seq(Frame) /\ WellTimed(log') /\ lost' \in Nat
        /\ \A i \in 1..Len(log') : log'[i].stop <= now
    BY <1>9, RebootKeeps
  <2>3. QED
    BY <2>1, <2>2, BootShape
<1>10. QED
  BY <1>2, <1>3, <1>4, <1>5, <1>6, <1>7, <1>8, <1>9 DEF MirrorNext, Reboots

LEMMA ShapeAlways ==
  MirrorSpec => []MirrorShape
<1>1. MirrorInit => MirrorShape
  BY ShapeInit
<1>2. MirrorShape /\ [MirrorNext]_allVars => MirrorShape'
  BY ShapeNext
<1>3. QED
  BY <1>1, <1>2, PTL DEF MirrorSpec

\* The types, through every reboot.  The snapshot always fits the entries the
\* RTC memory has for it, and what is imported always fits the ring.
THEOREM MirrorTypes == MirrorSpec => []MirrorTypeOK
<1>1. MirrorShape => MirrorTypeOK
  BY WrapFacts DEF MirrorShape, MirrorTypeOK, Snap, Entry
<1>2. QED
  BY <1>1, ShapeAlways, PTL

----------------------------------------------------------------------------
(***************************************************************************)
(* The invariant of a duty-cycle row.  What is restored from s at h counts *)
(* what the first n frames of l had of every window from h on - but for x, *)
(* the airtime lost - and, if s has heard of all of l and nothing is lost, *)
(* its off-time lasts as long as the one after the last frame.             *)
(***************************************************************************)
OffFits == \A toa \in FrameToa : (Ratio - 1) * (toa + Overrun) <= Window

Stands(s, h, l, n, x) ==
  \E C \in Seq(Int), D \in Int :
    /\ Restores(s, h, C, D)
    /\ \A t \in Int : t >= h =>
         Total(Parts(l, n, t)) <= Total(Counted(RestoredRing(s), C, t - Window)) + x
    /\ x = 0 /\ n = Len(l) /\ l # <<>> =>
         FreeFrom(LastOf(l)) <= D \/ FreeFrom(LastOf(l)) <= h

\* How many frames the snapshot has heard of, and when it may be imported.
Covered == IF power = "mirror" THEN Len(log) - 1 ELSE Finished
Horizon == IF power = "asleep" THEN wake ELSE now

SnapInv == Stands(rtc, Horizon, log, Covered, lost)

\* The last frame was on the air, and its off-time is over within the window.
LastInv ==
  row = "duty" /\ lost = 0 /\ log # <<>> =>
    /\ LastOf(log).start < LastOf(log).stop
    /\ (Ratio - 1) * (LastOf(log).stop - LastOf(log).start) <= Window

LEMMA FreeType ==
  ASSUME NEW l \in Seq(Frame), l # <<>>
  PROVE  /\ LastOf(l).start \in Nat /\ LastOf(l).stop \in Nat /\ Len(l) >= 1
         /\ FreeFrom(LastOf(l)) \in Int
<1>1. Len(l) \in 1..Len(l) /\ Len(l) >= 1
  OBVIOUS
<1>2. LastOf(l).start \in Nat /\ LastOf(l).stop \in Nat
  BY <1>1, FrameFields DEF LastOf
<1>3. FreeFrom(LastOf(l)) \in Int
  BY <1>2, WrapFacts DEF FreeFrom
<1>4. QED
  BY <1>1, <1>2, <1>3

LEMMA RestoredTotal ==
  ASSUME NEW s, Snap(s), NEW C \in Seq(Int), Len(C) = Len(RestoredRing(s)), NEW T \in Int
  PROVE  Total(Counted(RestoredRing(s), C, T)) \in Nat
<1>1. RestoredRing(s) \in Seq(Slot)
  BY RestoredFacts
<1>2. Counted(RestoredRing(s), C, T) \in Seq(Nat)
  BY <1>1, CountedType
<1>3. QED
  BY <1>2, TotalType

\* A snapshot stands when it counts more than is asked, or more is lost.
LEMMA StandsLess ==
  ASSUME NEW s, Snap(s), NEW h \in Int,
         NEW l \in Seq(Frame), WellTimed(l), NEW n \in Int, NEW x \in Nat,
         NEW m \in Seq(Frame), WellTimed(m), NEW k \in Int, NEW y \in Nat,
         \A t \in Int : t >= h => Total(Parts(m, k, t)) + x <= Total(Parts(l, n, t)) + y,
         y = 0 /\ k = Len(m) /\ m # <<>> =>
           x = 0 /\ n = Len(l) /\ l # <<>> /\ LastOf(m) = LastOf(l),
         Stands(s, h, l, n, x)
  PROVE  Stands(s, h, m, k, y)
<1>1. PICK C \in Seq(Int), D \in Int :
        /\ Restores(s, h, C, D)
        /\ \A t \in Int : t >= h =>
             Total(Parts(l, n, t)) <= Total(Counted(RestoredRing(s), C, t - Window)) + x
        /\ x = 0 /\ n = Len(l) /\ l # <<>> =>
             FreeFrom(LastOf(l)) <= D \/ FreeFrom(LastOf(l)) <= h
  BY DEF Stands
<1>2. ASSUME NEW t \in Int, t >= h
      PROVE  Total(Parts(m, k, t)) <= Total(Counted(RestoredRing(s), C, t - Window)) + y
  <2>1. PICK a, b, c :
          /\ a = Total(Parts(m, k, t)) /\ b = Total(Parts(l, n, t))
          /\ c = Total(Counted(RestoredRing(s), C, t - Window))
    OBVIOUS
  <2>2. a \in Nat /\ b \in Nat
    BY <2>1, PartsTotal
  <2>3. c \in Nat
    <3>1. Len(C) = Len(RestoredRing(s)) /\ t - Window \in Int
      BY <1>1, WrapFacts DEF Restores, Stamps
    <3>2. QED
      BY <2>1, <3>1, RestoredTotal
  <2>4. a + x <= b + y /\ b <= c + x
    BY <1>1, <1>2, <2>1
  <2>5. a <= c + y
    BY <2>2, <2>3, <2>4
  <2>6. QED
    BY <2>1, <2>5, Zenon
<1>3. y = 0 /\ k = Len(m) /\ m # <<>> => FreeFrom(LastOf(m)) <= D \/ FreeFrom(LastOf(m)) <= h
  BY <1>1
<1>4. QED
  BY <1>1, <1>2, <1>3 DEF Stands

\* It stands as well when all of the window is lost.
LEMMA StandsLost ==
  ASSUME NEW s, Snap(s), NEW h \in Int, NEW C \in Seq(Int), NEW D \in Int, Restores(s, h, C, D),
         NEW l \in Seq(Frame), WellTimed(l), NEW n \in Int, NEW x \in Nat,
         \A t \in Int : t >= h => Total(Parts(l, n, t)) <= x,
         x = 0 /\ l # <<>> => FreeFrom(LastOf(l)) <= h
  PROVE  Stands(s, h, l, n, x)
<1>1. ASSUME NEW t \in Int, t >= h
      PROVE  Total(Parts(l, n, t)) <= Total(Counted(RestoredRing(s), C, t - Window)) + x
  <2>1. PICK a, c :
          a = Total(Parts(l, n, t)) /\ c = Total(Counted(RestoredRing(s), C, t - Window))
    OBVIOUS
  <2>2. a \in Nat /\ a <= x
    BY <1>1, <2>1, PartsTotal
  <2>3. c \in Nat
    <3>1. Len(C) = Len(RestoredRing(s)) /\ t - Window \in Int
      BY WrapFacts DEF Restores, Stamps
    <3>2. QED
      BY <2>1, <3>1, RestoredTotal
  <2>4. a <= c + x
    BY <2>2, <2>3
  <2>5. QED
    BY <2>1, <2>4, Zenon
<1>2. QED
  BY <1>1 DEF Stands

\* Restored k later, everything ends k later.
Delayed(C, F, k) == Len(F) = Len(C) /\ \A j \in 1..Len(C) : F[j] = C[j] + k

LEMMA RestoresShift ==
  ASSUME NEW s, NEW h \in Int, NEW C \in Seq(Int), NEW D \in Int, Restores(s, h, C, D),
         NEW k \in Int, NEW g \in Int, g = h + k, NEW B \in Int, B = D + k
  PROVE  \E F \in Seq(Int) : Restores(s, g, F, B) /\ Delayed(C, F, k)
<1> DEFINE F == [j \in 1..Len(C) |-> C[j] + k]
<1>1. PICK n : n = Len(C)
  OBVIOUS
<1>2. n \in Nat /\ \A j \in 1..n : C[j] \in Int
  BY <1>1, Elements
<1>3. F \in Seq(Int) /\ Len(F) = n /\ \A j \in 1..n : F[j] = C[j] + k
  <2>1. F \in [1..n -> Int] /\ \A j \in 1..n : F[j] = C[j] + k
    BY <1>1, <1>2
  <2>2. \A f \in [1..n -> Int] : f \in Seq(Int) /\ Len(f) = n
    BY <1>2
  <2>3. QED
    BY <2>1, <2>2, Zenon
<1> HIDE DEF F
<1>4. PICK q : q = RestoredRing(s)
  OBVIOUS
<1>5. Len(q) = n /\ \A j \in 1..n : q[j].end = (C[j] - h) % Wrap
  BY <1>1, <1>4 DEF Restores, Stamps
<1>6. \A a \in Int : (a + k) - (h + k) = a - h
  OBVIOUS
<1>7. Stamps(q, F, h + k)
  <2>1. \A j \in 1..n : q[j].end = (F[j] - (h + k)) % Wrap
    BY <1>2, <1>3, <1>5, <1>6
  <2>2. QED
    BY <1>3, <1>5, <2>1 DEF Stamps
<1>8. Sorted(F)
  <2>1. SUFFICES ASSUME NEW i \in 1..n, NEW j \in 1..n, i <= j PROVE F[i] <= F[j]
    BY <1>3 DEF Sorted
  <2>2. C[i] <= C[j] /\ C[i] \in Int /\ C[j] \in Int
    BY <1>1, <1>2, <2>1 DEF Restores, Sorted
  <2>3. QED
    BY SMTT(60), <1>3, <2>2
<1>9. \A j \in 1..n : F[j] <= D + k
  <2>1. SUFFICES ASSUME NEW j \in 1..n PROVE F[j] <= D + k
    OBVIOUS
  <2>2. C[j] <= D /\ C[j] \in Int
    BY <1>1, <1>2 DEF Restores
  <2>3. QED
    BY <1>3, <2>2
<1>10. RestoredBlocked(s) = ((D + k) - (h + k)) % Wrap
  BY <1>6 DEF Restores
<1>11. D + k <= h + k + Window + Ratio * Overrun
  <2>1. PICK f : f = Ratio * Overrun
    OBVIOUS
  <2>2. f \in Nat /\ Window \in Nat /\ D <= h + Window + f
    BY <2>1, WrapFacts DEF Restores
  <2>3. QED
    BY <2>1, <2>2
<1>12. Restores(s, g, F, B)
  BY <1>3, <1>4, <1>7, <1>8, <1>9, <1>10, <1>11 DEF Restores
<1>13. Delayed(C, F, k)
  BY <1>1, <1>3 DEF Delayed
<1>14. QED
  BY <1>3, <1>12, <1>13

LEMMA StandsLater ==
  ASSUME NEW s, Snap(s), NEW h \in Int, NEW l \in Seq(Frame), WellTimed(l), NEW n \in Int,
         NEW x \in Nat, Stands(s, h, l, n, x)
  PROVE  Stands(s, h + 1, l, n, x)
<1>1. PICK C \in Seq(Int), D \in Int :
        /\ Restores(s, h, C, D)
        /\ \A t \in Int : t >= h =>
             Total(Parts(l, n, t)) <= Total(Counted(RestoredRing(s), C, t - Window)) + x
        /\ x = 0 /\ n = Len(l) /\ l # <<>> =>
             FreeFrom(LastOf(l)) <= D \/ FreeFrom(LastOf(l)) <= h
  BY DEF Stands
<1>2. PICK F \in Seq(Int) :
        /\ Restores(s, h + 1, F, D + 1)
        /\ Len(F) = Len(C) /\ \A j \in 1..Len(C) : F[j] = C[j] + 1
  <2>1. PICK k, g, B : k = 1 /\ g = h + k /\ B = D + k
    OBVIOUS
  <2>2. k \in Int /\ g \in Int /\ B \in Int
    BY <1>1, <2>1
  <2>3. \E F \in Seq(Int) : Restores(s, g, F, B) /\ Delayed(C, F, k)
    BY <1>1, <2>1, <2>2, RestoresShift
  <2>4. QED
    BY <2>1, <2>3 DEF Delayed
<1>3. ASSUME NEW t \in Int, t >= h + 1
      PROVE  Total(Parts(l, n, t)) <= Total(Counted(RestoredRing(s), F, t - Window)) + x
  <2>1. PICK q, T : q = RestoredRing(s) /\ T = t - Window
    OBVIOUS
  <2>2. q \in Seq(Slot) /\ T \in Int /\ Len(C) = Len(q) /\ Len(F) = Len(q) /\ t >= h
    <3>1. Len(C) = Len(q) /\ Len(F) = Len(q)
      BY <1>1, <1>2, <2>1 DEF Restores, Stamps
    <3>2. q \in Seq(Slot) /\ T \in Int
      BY <2>1, RestoredFacts, WrapFacts
    <3>3. QED
      BY <1>3, <3>1, <3>2
  <2>3. \A j \in 1..Len(q) : C[j] > T => F[j] > T
    <3>1. \A j \in 1..Len(q) : C[j] \in Int /\ F[j] = C[j] + 1
      BY <1>2, <2>2, Elements
    <3>2. QED
      BY <2>2, <3>1
  <2>4. Total(Counted(q, C, T)) <= Total(Counted(q, F, T))
    BY <2>2, <2>3, CountedAges
  <2>5. Total(Counted(q, C, T)) \in Nat /\ Total(Counted(q, F, T)) \in Nat
    BY <2>1, <2>2, RestoredTotal
  <2>6. Total(Parts(l, n, t)) <= Total(Counted(q, C, T)) + x
    BY <1>1, <2>1, <2>2
  <2>7. QED
    <3>1. PICK a, b, c : /\ a = Total(Parts(l, n, t)) /\ b = Total(Counted(q, C, T))
                         /\ c = Total(Counted(q, F, T))
      OBVIOUS
    <3>2. a <= b + x /\ b <= c /\ b \in Nat /\ c \in Nat
      BY <2>4, <2>5, <2>6, <3>1
    <3>5. a \in Nat
      BY <1>3, <3>1, PartsTotal
    <3>3. a <= c + x
      BY <3>2, <3>5
    <3>4. QED
      BY <2>1, <3>1, <3>3, Zenon
<1>4. ASSUME x = 0, n = Len(l), l # <<>>
      PROVE  FreeFrom(LastOf(l)) <= D + 1 \/ FreeFrom(LastOf(l)) <= h + 1
  <2>1. PICK y : y = FreeFrom(LastOf(l))
    OBVIOUS
  <2>2. y \in Int
    BY <1>4, <2>1, FreeType
  <2>3. y <= D \/ y <= h
    BY <1>1, <1>4, <2>1
  <2>4. y <= D + 1 \/ y <= h + 1
    BY <2>2, <2>3
  <2>5. QED
    BY <2>1, <2>4
<1>5. D + 1 \in Int
  OBVIOUS
<1>6. QED
  BY <1>2, <1>3, <1>4, <1>5 DEF Stands

LEMMA NothingRestores ==
  ASSUME NEW h \in Int
  PROVE  <<>> \in Seq(Int) /\ Restores(NoSnapshot, h, <<>>, h)
<1>1. RestoredRing(NoSnapshot) = <<>> /\ RestoredBlocked(NoSnapshot) = 0
  BY DEF RestoredRing, RestoredBlocked, NoSnapshot
<1>2. h - h = 0 /\ 0 % Wrap = 0
  BY WrapFacts, DivisionUnique
<1>3. h <= h + Window + Ratio * Overrun
  <2>1. PICK f : f = Ratio * Overrun
    OBVIOUS
  <2>2. f \in Nat /\ Window \in Nat
    BY <2>1, WrapFacts
  <2>3. QED
    BY <2>1, <2>2
<1>4. <<>> \in Seq(Int) /\ Len(<<>>) = 0
  OBVIOUS
<1>5. Stamps(<<>>, <<>>, h) /\ Sorted(<<>>)
  BY <1>4 DEF Stamps, Sorted
<1>6. QED
  BY <1>1, <1>2, <1>3, <1>4, <1>5 DEF Restores

\* What a window has of frames that are over is never more than it has now.
LEMMA OnAirLater ==
  ASSUME TypeOK, FrameInv, \A i \in 1..Len(log) : log[i].stop <= now, NEW t \in Int, t >= now
  PROVE  Total(Parts(log, Len(log), t)) <= OnAir
<1>1. log \in Seq(Frame) /\ WellTimed(log) /\ now \in Int /\ now <= t
  BY StampTypes DEF FrameInv
<1>2. Len(log) \in Int
  BY <1>1, FrameFields
<1>3. Total(Parts(log, Len(log), t)) <= Total(Parts(log, Len(log), now))
  BY <1>1, <1>2, LogAges
<1>4. QED
  BY <1>3, OnAirIs

\* With nothing on the air during the whole window, the last off-time is over.
LEMMA QuietWindow ==
  ASSUME TypeOK, FrameInv, LastInv, row = "duty", lost = 0, OnAir = 0, log # <<>>,
         \A i \in 1..Len(log) : log[i].stop <= now
  PROVE  FreeFrom(LastOf(log)) <= now
<1>1. PICK n, e : n = Len(log) /\ e = LastOf(log)
  OBVIOUS
<1>2. /\ log \in Seq(Frame) /\ WellTimed(log) /\ now \in Nat /\ Window \in Nat
      /\ n \in Nat /\ n >= 1 /\ n \in 1..n
  <2>1. log \in Seq(Frame) /\ WellTimed(log) /\ now \in Nat /\ Window \in Nat
    BY StampTypes, WrapFacts DEF FrameInv
  <2>2. QED
    BY <1>1, <2>1, FreeType
<1>3. /\ e \in Frame /\ e.start \in Nat /\ e.stop \in Nat /\ e.start < e.stop /\ e.stop <= now
      /\ (Ratio - 1) * (e.stop - e.start) <= Window /\ e = log[n]
  BY <1>1, <1>2, FrameFields DEF LastInv, LastOf
<1>4. Part(e, now) = 0
  <2>1. now \in Int /\ n \in Int
    BY <1>2
  <2>2. Counts(log, n, now)
    BY <1>2, <2>1, PartsType, Zenon
  <2>3. PICK w : w = Parts(log, n, now)
    OBVIOUS
  <2>4. w \in Seq(Nat) /\ Len(w) = n /\ w[n] = Part(e, now)
    BY <1>1, <1>2, <1>3, <2>2, <2>3 DEF Counts
  <2>5. Running(w)[n] = Running(w)[n - 1] + w[n] /\ Running(w)[n - 1] \in Nat /\ w[n] \in Nat
    <3>1. n - 1 \in 0..Len(w) /\ n \in 1..Len(w)
      BY <1>2, <2>4
    <3>2. Running(w)[n - 1] \in Nat
      BY <2>4, <3>1, RunningGrows
    <3>3. w[n] \in Nat
      BY <2>4, <3>1, Elements
    <3>4. QED
      BY <2>4, <3>1, <3>2, <3>3, RunningStep
  <2>6. Running(w)[n] = 0
    BY <1>1, <2>3, <2>4, OnAirIs DEF Total
  <2>7. w[n] = 0
    BY <2>5, <2>6
  <2>8. QED
    BY <2>4, <2>7
<1>5. e.stop <= now - Window
  <2>1. e.stop <= now /\ e.stop > now - Window /\ e.start < e.stop => Part(e, now) > 0
    <3>1. now \in Int /\ e.start <= e.stop
      BY <1>2, <1>3
    <3>2. QED
      BY <1>3, <3>1, PartFacts
  <2>2. ~(e.stop > now - Window)
    BY <1>3, <1>4, <2>1
  <2>3. QED
    BY <1>2, <1>3, <2>2
<1>6. PICK y, z : y = (Ratio - 1) * (e.stop - e.start) /\ z = e.stop
  OBVIOUS
<1>7. y \in Int /\ z \in Nat
  BY <1>3, <1>6, WrapFacts
<1>8. z + y <= now
  <2>1. y <= Window /\ z <= now - Window
    BY <1>3, <1>5, <1>6
  <2>2. QED
    BY <1>2, <1>7, <2>1
<1>9. QED
  BY <1>1, <1>6, <1>8, Zenon DEF FreeFrom


LEMMA MirrorRow ==
  ASSUME [MirrorNext]_allVars
  PROVE  row' = row
<1>1. Work \/ RecordAndMirror \/ IdleMirror \/ UNCHANGED allVars => [Next]_vars
  BY DEF Work, RecordAndMirror, IdleMirror, Next, allVars
<1>2. [Next]_vars => row' = row
  BY RowStays
<1>3. Mirrored \/ DeepSleep \/ Asleep => row' = row
  BY DEF Mirrored, DeepSleep, Asleep, identVars
<1>4. TimerWakes \/ EarlyReset \/ Crash \/ CrashUnmirrored => row' = row
  BY DEF TimerWakes, EarlyReset, Crash, CrashUnmirrored, Boot
<1>5. QED
  BY <1>1, <1>2, <1>3, <1>4 DEF MirrorNext

\* What a step does to the frames of the history, on a duty-cycle row.
LEMMA MirrorSteps ==
  ASSUME MirrorShape, row = "duty", [MirrorNext]_allVars
  PROVE  \/ Emit \/ SendFailed \/ TimePasses \/ Reboots
         \/ log' = log /\ lost' = lost
<1>1. TypeOK /\ FrameInv /\ (power = "asleep" => pc = "idle")
  BY DEF MirrorShape
<1>2. UNCHANGED allVars \/ IdleMirror => log' = log /\ lost' = lost
  BY DEF IdleMirror, allVars, vars
<1>3. Mirrored \/ DeepSleep \/ RecordAndMirror => log' = log /\ lost' = lost
  BY DEF Mirrored, DeepSleep, RecordAndMirror, Record, Sent
<1>4. Ask \/ AskIdent \/ Resume \/ Query => log' = log /\ lost' = lost
  BY DEF Ask, AskIdent, Resume, AskFor, Query
<1>5. Tick => TimePasses
  BY DEF Tick, TimePasses
<1>6. Asleep => TimePasses
  BY <1>1 DEF Asleep, TimePasses
<1>7. QED
  BY <1>2, <1>3, <1>4, <1>5, <1>6 DEF MirrorNext, Work, Reboots

LEMMA LastInit ==
  ASSUME MirrorInit
  PROVE  LastInv
  BY DEF MirrorInit, Init, LastInv

LEMMA LastNext ==
  ASSUME OffFits, MirrorShape, LastInv, [MirrorNext]_allVars
  PROVE  LastInv'
<1>1. TypeOK /\ FrameInv /\ lost \in Nat /\ row' = row
  BY StampTypes, MirrorRow DEF MirrorShape
<1>2. SUFFICES ASSUME row = "duty", lost' = 0, log' # <<>>
               PROVE  /\ LastOf(log').start < LastOf(log').stop
                      /\ (Ratio - 1) * (LastOf(log').stop - LastOf(log').start) <= Window
  BY <1>1 DEF LastInv
<1>3. CASE log' = log /\ lost' = lost
  BY <1>2, <1>3 DEF LastInv
<1>4. CASE TimePasses
  <2>1. lost' = lost /\ log # <<>> /\ LastOf(log') = LastOf(log)
    BY <1>1, <1>2, <1>4, TimeStep DEF TimePasses, LastOf
  <2>2. QED
    BY <1>2, <2>1 DEF LastInv
<1>5. CASE SendFailed
  <2>1. pc = "air" /\ now = until /\ lost' = lost + (now - Last(log).start)
    BY <1>5 DEF SendFailed, Sent
  <2>2. Last(log) = LastOf(log) /\ now - LastOf(log).start \in Nat /\ now - LastOf(log).start > 0
    BY <1>1, <2>1, SentFrame
  <2>3. PICK x : x = now - Last(log).start
    OBVIOUS
  <2>4. x \in Nat /\ x > 0 /\ lost' = lost + x
    BY <2>1, <2>2, <2>3
  <2>5. QED
    BY <1>1, <1>2, <2>4
<1>6. CASE Reboots
  <2>1. lost' >= lost /\ (lost' = lost => log' = log)
    BY <1>6, RebootKeeps
  <2>2. log' = log /\ lost' = lost
    BY <1>1, <1>2, <2>1
  <2>3. QED
    BY <1>3, <2>2
<1>7. CASE Emit
  <2>1. TypeOK' /\ FrameInv' /\ pc' = "air" /\ est' = est /\ pc = "wait"
    BY <1>1, <1>7, EmitStep DEF Emit
  <2>2. est \in FrameToa /\ est \in Nat /\ est > 0
    BY <1>1, <1>2, <2>1, WrapFacts DEF FrameInv
  <2>3. /\ LastOf(log').stop = until' /\ LastOf(log').start + est <= until'
        /\ until' <= LastOf(log').start + est + Overrun
    BY <2>1 DEF FrameInv, LastOf
  <2>4. LastOf(log').start \in Nat /\ until' \in Nat
    <3>1. log' \in Seq(Frame) /\ until' \in Nat
      BY <2>1 DEF TypeOK, Frame
    <3>2. QED
      BY <1>2, <3>1, FreeType
  <2>5. PICK d, k, m :
          /\ d = LastOf(log').stop - LastOf(log').start /\ k = Ratio - 1 /\ m = est + Overrun
    OBVIOUS
  <2>6. k \in Nat /\ m \in Nat /\ d \in Nat /\ d > 0 /\ d <= m
    BY <2>2, <2>3, <2>4, <2>5, WrapFacts
  <2>7. k * d <= k * m
    <3>1. \A a, x, y \in Nat : a * (x + y) = a * x + a * y /\ a * x \in Nat /\ a * y \in Nat
      OBVIOUS
    <3>2. PICK z : z = m - d
      OBVIOUS
    <3>3. z \in Nat /\ m = d + z
      BY <2>6, <3>2
    <3>4. k * m = k * d + k * z /\ k * d \in Nat /\ k * z \in Nat
      BY <2>6, <3>1, <3>3
    <3>5. QED
      BY <3>4
  <2>8. k * m <= Window
    BY <2>2, <2>5 DEF OffFits
  <2>9. k * d \in Int /\ k * m \in Int /\ Window \in Int
    BY <2>6, WrapFacts
  <2>10. k * d <= Window
    BY <2>7, <2>8, <2>9
  <2>11. LastOf(log').start < LastOf(log').stop
    BY <2>2, <2>3, <2>4
  <2>12. QED
    BY <2>5, <2>10, <2>11
<1>8. QED
  BY <1>2, <1>3, <1>4, <1>5, <1>6, <1>7, MirrorSteps

LEMMA SnapTypes ==
  ASSUME MirrorShape
  PROVE  /\ TypeOK /\ FrameInv /\ Snap(rtc) /\ log \in Seq(Frame) /\ WellTimed(log)
         /\ Len(log) \in Nat /\ lost \in Nat /\ now \in Nat /\ wake \in Nat
         /\ Finished \in Int /\ Covered \in Int /\ Horizon \in Int
<1>1. TypeOK /\ FrameInv /\ Snap(rtc) /\ wake \in Nat
  BY DEF MirrorShape
<1>2. log \in Seq(Frame) /\ lost \in Nat /\ now \in Nat /\ WellTimed(log)
  BY <1>1, StampTypes DEF FrameInv
<1>3. Len(log) \in Nat
  BY <1>2, FrameFields
<1>4. QED
  BY <1>1, <1>2, <1>3 DEF Finished, Covered, Horizon

\* A snapshot of the ring stands for it, whatever time the board is away.
LEMMA ExportStands ==
  ASSUME ClockFits, TypeOK, FrameInv, pc # "air", DutyInv, NEW d \in Nat,
         NEW s, s = Snapshot(Prune(ring, Millis(now)), d), NEW h, h = now + d
  PROVE  Snap(s) /\ Stands(s, h, log, Len(log), lost)
<1>1. PICK X : Charges(X) /\ Accounted(X) /\ \A t \in Int : X[t] <= lost
  BY DEF DutyInv, Charges
<1>2. PICK E \in Seq(Int), B \in Int : RingInv(E, B) /\ CountInv(E, X) /\ WaitInv(E, B, X)
  BY <1>1 DEF Accounted
<1>3. /\ now \in Nat /\ h \in Nat /\ now <= h /\ lost \in Nat /\ Window \in Nat
      /\ log \in Seq(Frame) /\ WellTimed(log) /\ Finished = Len(log) /\ ring \in Seq(Slot)
  BY StampTypes, WrapFacts DEF FrameInv, Finished
<1>4. PICK q : q = Prune(ring, Millis(now))
  OBVIOUS
<1>5. q \in Seq(Slot) /\ \E F \in Seq(Int) :
        /\ Stamped(q, F) /\ Sorted(F) /\ \A j \in 1..Len(F) : F[j] <= B
        /\ \A T \in Int : T >= now - Window =>
             Total(Counted(q, F, T)) = Total(Counted(ring, E, T))
  BY <1>2, <1>4, PruneKeeps
<1>6. PICK F \in Seq(Int) :
        /\ Stamped(q, F) /\ Sorted(F) /\ \A j \in 1..Len(F) : F[j] <= B
        /\ \A T \in Int : T >= now - Window =>
             Total(Counted(q, F, T)) = Total(Counted(ring, E, T))
  BY <1>5
<1>7. blocked = Millis(B) /\ B <= now + Window + Ratio * Overrun
  BY <1>2 DEF RingInv
<1>8. Snap(s) /\ \E C \in Seq(Int), D \in Int :
        /\ Restores(s, h, C, D) /\ D >= B
        /\ \A T \in Int : T >= h - Window =>
             Total(Counted(q, F, T)) <= Total(Counted(RestoredRing(s), C, T))
  <2>1. s = Snapshot(q, d)
    BY <1>4
  <2>2. /\ Snap(Snapshot(q, d))
        /\ \E C \in Seq(Int), D \in Int :
             /\ Restores(Snapshot(q, d), now + d, C, D) /\ D >= B
             /\ \A T \in Int : T >= (now + d) - Window =>
                  Total(Counted(q, F, T)) <= Total(Counted(RestoredRing(Snapshot(q, d)), C, T))
    BY <1>5, <1>6, <1>7, ExportKeeps, Zenon
  <2>3. QED
    BY <2>1, <2>2, Zenon
<1>9. PICK C \in Seq(Int), D \in Int :
        /\ Restores(s, h, C, D) /\ D >= B
        /\ \A T \in Int : T >= h - Window =>
             Total(Counted(q, F, T)) <= Total(Counted(RestoredRing(s), C, T))
  BY <1>8
<1>10. ASSUME NEW t \in Int, t >= h
       PROVE  Total(Parts(log, Len(log), t)) <= Total(Counted(RestoredRing(s), C, t - Window)) + lost
  <2>1. t >= now /\ t - Window \in Int /\ t - Window >= now - Window /\ t - Window >= h - Window
    BY <1>3, <1>10
  <2>2. PICK T : T = t - Window
    OBVIOUS
  <2>3. Total(Parts(log, Len(log), t)) <= Total(Counted(ring, E, T)) + X[t]
    BY <1>2, <1>3, <2>1, <2>2 DEF CountInv
  <2>4. Total(Counted(q, F, T)) = Total(Counted(ring, E, T))
    BY <1>6, <2>1, <2>2
  <2>5. Total(Counted(q, F, T)) <= Total(Counted(RestoredRing(s), C, T))
    BY <1>9, <2>1, <2>2
  <2>6. Total(Counted(q, F, T)) \in Nat
    BY <1>5, <1>6, <2>1, <2>2, CountedTotal
  <2>7. Total(Counted(RestoredRing(s), C, T)) \in Nat
    <3>1. Len(C) = Len(RestoredRing(s))
      BY <1>9 DEF Restores, Stamps
    <3>2. QED
      BY <1>8, <2>1, <2>2, <3>1, RestoredTotal
  <2>8. X[t] \in Nat /\ X[t] <= lost
    BY <1>1 DEF Charges
  <2>9. Total(Parts(log, Len(log), t)) \in Nat
    <3>1. Len(log) \in Int
      BY <1>3, FrameFields
    <3>2. QED
      BY <1>3, <3>1, PartsTotal
  <2>10. PICK a, b, c, x :
           /\ a = Total(Parts(log, Len(log), t)) /\ b = Total(Counted(q, F, T))
           /\ c = Total(Counted(RestoredRing(s), C, T)) /\ x = X[t]
    OBVIOUS
  <2>11. a \in Nat /\ b \in Nat /\ c \in Nat /\ x \in Nat /\ a <= b + x /\ b <= c /\ x <= lost
    BY <2>3, <2>4, <2>5, <2>6, <2>7, <2>8, <2>9, <2>10, Zenon
  <2>12. a <= c + lost
    BY <1>3, <2>11
  <2>13. QED
    BY <2>2, <2>10, <2>12, Zenon
<1>11. ASSUME lost = 0, log # <<>>
       PROVE  FreeFrom(LastOf(log)) <= D \/ FreeFrom(LastOf(log)) <= h
  <2>1. PICK y : y = FreeFrom(LastOf(log))
    OBVIOUS
  <2>2. y \in Int
    BY <1>3, <1>11, <2>1, FreeType
  <2>3. y <= B \/ y <= now
    BY <1>2, <1>11, <2>1 DEF WaitInv
  <2>4. y <= D \/ y <= h
    BY <1>3, <1>9, <2>2, <2>3
  <2>5. QED
    BY <2>1, <2>4
<1>12. QED
  BY <1>8, <1>9, <1>10, <1>11 DEF Stands

\* At a boot the snapshot is imported now, and has heard of every frame it
\* will ever hear of.
LEMMA BootSnap ==
  ASSUME NEW s, Boot(s), Stands(s, now, log', Len(log'), lost')
  PROVE  SnapInv'
BY DEF Boot, SnapInv, Horizon, Covered, Finished

\* The snapshot has not heard of the last frame, and the frame is lost.
LEMMA StandsWithoutLast ==
  ASSUME NEW s, Snap(s), NEW h \in Int, NEW l \in Seq(Frame), WellTimed(l), Len(l) >= 1,
         NEW x \in Nat, NEW y \in Nat, NEW m \in Seq(Frame), WellTimed(m), Len(m) = Len(l),
         \A t \in Int : Total(Parts(m, Len(m), t)) <= Total(Parts(l, Len(l), t)),
         LastOf(l).start < LastOf(l).stop, y = x + (LastOf(l).stop - LastOf(l).start),
         Stands(s, h, l, Len(l) - 1, x)
  PROVE  Stands(s, h, m, Len(m), y)
<1>1. PICK n : n = Len(l)
  OBVIOUS
<1>2. PICK d : d = LastOf(l).stop - LastOf(l).start
  OBVIOUS
<1>3. n \in Nat /\ n - 1 \in Int /\ n \in Int /\ d \in Nat /\ d > 0 /\ y > 0
  <2>1. n \in Nat /\ n \in 1..n
    BY <1>1, FrameFields
  <2>2. LastOf(l).start \in Nat /\ LastOf(l).stop \in Nat
    BY <1>1, <2>1, FrameFields DEF LastOf
  <2>3. d \in Nat /\ d > 0
    BY <1>2, <2>2
  <2>4. y > 0
    BY <1>2, <2>3
  <2>5. QED
    BY <2>1, <2>3, <2>4
<1>4. ASSUME NEW t \in Int
      PROVE  Total(Parts(m, n, t)) + x <= Total(Parts(l, n - 1, t)) + y
  <2>1. PICK a, b, c : /\ a = Total(Parts(m, n, t)) /\ b = Total(Parts(l, n, t))
                       /\ c = Total(Parts(l, n - 1, t))
    OBVIOUS
  <2>2. a \in Nat /\ b \in Nat /\ c \in Nat
    BY <1>3, <2>1, PartsTotal
  <2>3. a <= b
    BY <1>1, <2>1
  <2>4. b <= c + (IF LastOf(l).stop > t - Window THEN d ELSE 0)
    BY <1>1, <1>2, <2>1, LastFrame DEF LastOf
  <2>5. b <= c + d
    BY <1>3, <2>2, <2>4
  <2>6. a + x <= c + y
    BY <1>2, <1>3, <2>2, <2>3, <2>5
  <2>7. QED
    BY <2>1, <2>6, Zenon
<1>5. Stands(s, h, l, n - 1, x)
  BY <1>1
<1>6. Stands(s, h, m, n, y)
  BY <1>3, <1>4, <1>5, StandsLess
<1>7. QED
  BY <1>1, <1>6

LEMMA SnapTime ==
  ASSUME MirrorShape, row = "duty", SnapInv,
         (Tick /\ power = "on" /\ UNCHANGED mirrorVars) \/ Asleep
  PROVE  SnapInv'
<1>1. /\ TypeOK /\ FrameInv /\ Snap(rtc) /\ log \in Seq(Frame) /\ WellTimed(log)
      /\ Len(log) \in Nat /\ lost \in Nat /\ now \in Nat /\ wake \in Nat
      /\ Finished \in Int /\ Covered \in Int /\ Horizon \in Int
  BY SnapTypes
<1>2. TimePasses /\ UNCHANGED mirrorVars /\ power \in {"on", "asleep"}
  <2>1. power = "asleep" => pc = "idle"
    BY DEF MirrorShape
  <2>2. QED
    BY <2>1 DEF Tick, Asleep, TimePasses
<1>3. /\ power' = power /\ wake' = wake /\ rtc' = rtc /\ now' = now + 1
      /\ pc' = pc /\ lost' = lost
  BY <1>2 DEF TimePasses, mirrorVars, txVars
<1>4. /\ TypeOK' /\ FrameInv'
      /\ log' # <<>> => log # <<>> /\ LastOf(log') = LastOf(log)
      /\ \A t \in Int : Total(Parts(log', Finished', t)) <= Total(Parts(log, Finished, t))
  BY <1>1, <1>2, TimeStep DEF LastOf
<1>5. log' \in Seq(Frame) /\ WellTimed(log') /\ Len(log') \in Nat /\ Finished' \in Int
  <2>1. log' \in Seq(Frame) /\ WellTimed(log')
    BY <1>4 DEF TypeOK, FrameInv, Frame, WellTimed
  <2>2. Len(log') \in Nat
    BY <2>1, FrameFields
  <2>3. QED
    BY <2>1, <2>2 DEF Finished
<1>6. Covered = Finished /\ Covered' = Finished'
  BY <1>2, <1>3 DEF Covered
<1>7. PICK l, m, n, k : l = log /\ m = log' /\ n = Finished /\ k = Finished'
  OBVIOUS
<1>8. k = Len(m) => n = Len(l)
  BY <1>3, <1>5, <1>7 DEF Finished
<1>9. PICK h : h = Horizon
  OBVIOUS
<1>10. \A t \in Int : t >= h => Total(Parts(m, k, t)) + lost <= Total(Parts(l, n, t)) + lost
  <2>1. SUFFICES ASSUME NEW t \in Int
                 PROVE  Total(Parts(m, k, t)) + lost <= Total(Parts(l, n, t)) + lost
    OBVIOUS
  <2>2. PICK a, b : a = Total(Parts(m, k, t)) /\ b = Total(Parts(l, n, t))
    OBVIOUS
  <2>3. a \in Nat /\ b \in Nat
    BY <1>1, <1>5, <1>7, <2>2, PartsTotal
  <2>4. a <= b
    BY <1>4, <1>7, <2>2
  <2>5. a + lost <= b + lost
    BY <1>1, <2>3, <2>4
  <2>6. QED
    BY <2>2, <2>5, Zenon
<1>11. Stands(rtc, h, l, n, lost)
  BY <1>6, <1>7, <1>9 DEF SnapInv
<1>12. Stands(rtc, h, m, k, lost)
  BY <1>1, <1>4, <1>5, <1>7, <1>8, <1>9, <1>10, <1>11, StandsLess
<1>13. CASE power = "asleep"
  <2>1. Horizon' = h
    BY <1>3, <1>9, <1>13 DEF Horizon
  <2>2. QED
    BY <1>3, <1>6, <1>7, <1>12, <2>1 DEF SnapInv
<1>14. CASE power = "on"
  <2>1. h = now /\ Horizon' = h + 1
    BY <1>3, <1>9, <1>14 DEF Horizon
  <2>2. Stands(rtc, h + 1, m, k, lost)
    BY <1>1, <1>5, <1>7, <1>9, <1>12, StandsLater
  <2>3. QED
    BY <1>3, <1>6, <1>7, <2>1, <2>2 DEF SnapInv
<1>15. QED
  BY <1>2, <1>13, <1>14

\* A frame that begins is not the snapshot's business yet, and one that failed
\* never will be.
LEMMA SnapSends ==
  ASSUME MirrorShape, row = "duty", SnapInv, power = "on", Emit \/ SendFailed, UNCHANGED mirrorVars
  PROVE  SnapInv'
<1>1. /\ TypeOK /\ FrameInv /\ Snap(rtc) /\ log \in Seq(Frame) /\ WellTimed(log)
      /\ Len(log) \in Nat /\ lost \in Nat /\ now \in Nat
  BY SnapTypes
<1>2. power' = power /\ rtc' = rtc /\ now' = now
  BY DEF mirrorVars, Emit, SendFailed, Sent
<1>3. Horizon = now /\ Horizon' = now /\ Covered = Finished /\ Covered' = Finished'
  BY <1>2 DEF Horizon, Covered
<1>4. Stands(rtc, now, log, Finished, lost)
  BY <1>3 DEF SnapInv
<1>5. CASE Emit
  <2>1. pc = "wait" /\ pc' = "air" /\ lost' = lost /\ now = until
    BY <1>5 DEF Emit
  <2>2. PICK e : e = [start |-> now, stop |-> until']
    OBVIOUS
  <2>3. e \in Frame /\ e.start <= e.stop /\ log' = Append(log, e)
    <3>1. TypeOK' /\ FrameInv' /\ log' = Append(log, e) /\ log # log' /\ e.stop = until' /\ e.start = now
      <4>1. TypeOK' /\ FrameInv' /\ log' = Append(log, e)
        BY <1>1, <1>5, <2>2, EmitStep DEF Emit
      <4>2. Len(Append(log, e)) = Len(log) + 1
        BY <1>1
      <4>3. log # log'
        BY <1>1, <4>1, <4>2
      <4>4. QED
        BY <2>2, <4>1, <4>3
    <3>2. until' \in Nat /\ now' <= until'
      BY <2>1, <3>1 DEF TypeOK, FrameInv
    <3>3. QED
      BY <1>1, <1>2, <2>2, <3>1, <3>2 DEF Frame
  <2>4. PICK l, m, n : l = log /\ m = log' /\ n = Len(log)
    OBVIOUS
  <2>5. /\ m \in Seq(Frame) /\ WellTimed(m) /\ Len(m) = n + 1
        /\ \A t \in Int : Total(Parts(m, n, t)) = Total(Parts(l, n, t))
    BY <1>1, <2>3, <2>4, LogAppends
  <2>6. n \in Int /\ n # Len(m) /\ n = Finished /\ n = Finished'
    BY <1>1, <2>1, <2>4, <2>5 DEF Finished
  <2>7. \A t \in Int : t >= now => Total(Parts(m, n, t)) + lost <= Total(Parts(l, n, t)) + lost
    <3>1. SUFFICES ASSUME NEW t \in Int
                   PROVE  Total(Parts(m, n, t)) + lost <= Total(Parts(l, n, t)) + lost
      OBVIOUS
    <3>2. PICK b : b = Total(Parts(l, n, t))
      OBVIOUS
    <3>3. b \in Nat
      BY <1>1, <2>4, <2>6, <3>2, PartsTotal
    <3>4. b + lost <= b + lost
      BY <1>1, <3>3
    <3>5. QED
      BY <2>5, <3>2, <3>4, Zenon
  <2>8. Stands(rtc, now, l, n, lost) /\ now \in Int
    BY <1>1, <1>4, <2>4, <2>6
  <2>9. Stands(rtc, now, m, n, lost)
    BY <1>1, <2>4, <2>5, <2>6, <2>7, <2>8, StandsLess
  <2>10. QED
    BY <1>2, <1>3, <2>1, <2>4, <2>6, <2>9 DEF SnapInv
<1>6. CASE SendFailed
  <2>1. /\ pc = "air" /\ now = until /\ pc' # "air" /\ log' = log
        /\ lost' = lost + (now - Last(log).start)
    BY <1>6 DEF SendFailed, Sent
  <2>2. /\ Len(log) >= 1 /\ Last(log) = LastOf(log) /\ LastOf(log).stop = now
        /\ LastOf(log).start < now /\ now - LastOf(log).start \in Nat
    BY <1>1, <2>1, SentFrame
  <2>3. Finished = Len(log) - 1 /\ Finished' = Len(log)
    BY <2>1 DEF Finished
  <2>4. PICK y, l : y = lost' /\ l = log
    OBVIOUS
  <2>5. y \in Nat /\ y = lost + (LastOf(l).stop - LastOf(l).start)
    <3>1. PICK d : d = now - LastOf(log).start
      OBVIOUS
    <3>2. d \in Nat /\ y = lost + d /\ d = LastOf(l).stop - LastOf(l).start
      BY <2>1, <2>2, <2>4, <3>1
    <3>3. QED
      BY <1>1, <3>2
  <2>6. LastOf(l).start < LastOf(l).stop /\ now \in Int
    BY <1>1, <2>2, <2>4
  <2>7. Stands(rtc, now, l, Len(l) - 1, lost)
    BY <1>4, <2>3, <2>4
  <2>8. \A t \in Int : Total(Parts(l, Len(l), t)) <= Total(Parts(l, Len(l), t))
    <3>1. \A t \in Int : Total(Parts(l, Len(l), t)) \in Nat
      BY <1>1, <2>4, PartsTotal
    <3>2. QED
      BY <3>1
  <2>9. Stands(rtc, now, l, Len(l), y)
    BY <1>1, <2>2, <2>4, <2>5, <2>6, <2>7, <2>8, StandsWithoutLast
  <2>10. QED
    BY <1>2, <1>3, <2>1, <2>3, <2>4, <2>9 DEF SnapInv
<1>7. QED
  BY <1>5, <1>6

\* What was lost accounts for all that the window still had.
LEMMA WindowLost ==
  ASSUME MirrorShape, LastInv, row = "duty", pc # "air", NEW x, x = lost + OnAir,
         NEW s, Snap(s), NEW C \in Seq(Int), NEW D \in Int, Restores(s, now, C, D)
  PROVE  Stands(s, now, log, Len(log), x)
<1>1. /\ TypeOK /\ FrameInv /\ log \in Seq(Frame) /\ WellTimed(log)
      /\ Len(log) \in Nat /\ Len(log) \in Int /\ lost \in Nat /\ now \in Int /\ OnAir \in Nat
  BY SnapTypes, OnAirIs
<1>2. \A i \in 1..Len(log) : log[i].stop <= now
  BY <1>1 DEF FrameInv, Finished
<1>3. PICK o : o = OnAir
  OBVIOUS
<1>4. o \in Nat /\ x \in Nat /\ x = lost + o
  BY <1>1, <1>3
<1>5. \A t \in Int : t >= now => Total(Parts(log, Len(log), t)) <= x
  <2>1. SUFFICES ASSUME NEW t \in Int, t >= now
                 PROVE  Total(Parts(log, Len(log), t)) <= x
    OBVIOUS
  <2>2. PICK a : a = Total(Parts(log, Len(log), t))
    OBVIOUS
  <2>3. a \in Nat /\ a <= o
    BY <1>1, <1>2, <1>3, <2>1, <2>2, PartsTotal, OnAirLater
  <2>4. a <= x
    BY <1>1, <1>4, <2>3
  <2>5. QED
    BY <2>2, <2>4
<1>6. x = 0 /\ log # <<>> => FreeFrom(LastOf(log)) <= now
  <2>1. SUFFICES ASSUME x = 0, log # <<>> PROVE FreeFrom(LastOf(log)) <= now
    OBVIOUS
  <2>2. lost = 0 /\ OnAir = 0
    BY <1>1, <1>3, <1>4, <2>1
  <2>3. QED
    BY <1>1, <1>2, <2>1, <2>2, QuietWindow
<1>7. PICK l : l = log
  OBVIOUS
<1>8. Stands(s, now, l, Len(l), x)
  BY <1>1, <1>4, <1>5, <1>6, <1>7, StandsLost
<1>9. QED
  BY <1>7, <1>8

\* What a boot imports stands for the history as the reboot leaves it.
LEMMA RebootStands ==
  ASSUME OffFits, MirrorShape, LastInv, row = "duty", SnapInv, Reboots
  PROVE  \E s : Boot(s) /\ Snap(s) /\ Stands(s, now, log', Len(log'), lost')
<1>1. /\ TypeOK /\ FrameInv /\ Snap(rtc) /\ log \in Seq(Frame) /\ WellTimed(log)
      /\ Len(log) \in Nat /\ lost \in Nat /\ now \in Nat /\ now \in Int /\ wake \in Nat
      /\ Finished \in Int
  BY SnapTypes
<1>2. /\ (power = "asleep" => pc = "idle")
      /\ (power \in {"mirror", "remirror"} => pc \in {"idle", "resume"})
      /\ (power = "mirror" => log # <<>> /\ LastOf(log).start < LastOf(log).stop)
  BY DEF MirrorShape
<1>3. /\ log' \in Seq(Frame) /\ WellTimed(log') /\ Len(log') = Len(log) /\ lost' \in Nat
      /\ \A t \in Int : Total(Parts(log', Len(log'), t)) <= Total(Parts(log, Len(log), t))
  BY RebootKeeps
<1>4. CASE TimerWakes
  <2>1. Boot(rtc) /\ log' = log /\ lost' = lost /\ power = "asleep" /\ now = wake
    BY <1>4 DEF TimerWakes
  <2>2. Horizon = now /\ Covered = Len(log)
    BY <1>2, <2>1 DEF Horizon, Covered, Finished
  <2>3. QED
    BY <1>1, <2>1, <2>2 DEF SnapInv
<1>5. CASE Crash
  <2>1. Boot(rtc) /\ log' = log /\ lost' = lost /\ power = "on" /\ pc # "air"
    BY <1>5 DEF Crash
  <2>2. Horizon = now /\ Covered = Len(log)
    BY <2>1 DEF Horizon, Covered, Finished
  <2>3. QED
    BY <1>1, <2>1, <2>2 DEF SnapInv
<1>6. CASE EarlyReset
  <2>1. Boot(rtc) /\ log' = log /\ lost' = lost + OnAir /\ power = "asleep"
    BY <1>6 DEF EarlyReset
  <2>2. Horizon = wake
    BY <2>1 DEF Horizon
  <2>3. PICK C \in Seq(Int), D \in Int : Restores(rtc, wake, C, D)
    BY <2>2 DEF SnapInv, Stands
  <2>4. PICK k, B : k = now - wake /\ B = D + k
    OBVIOUS
  <2>5. k \in Int /\ B \in Int /\ now = wake + k
    BY <1>1, <2>3, <2>4
  <2>6. wake \in Int
    BY <1>1
  <2>7. PICK F \in Seq(Int) : Restores(rtc, now, F, B)
    BY <1>1, <2>3, <2>4, <2>5, <2>6, RestoresShift
  <2>8. Stands(rtc, now, log, Len(log), lost')
    BY <1>1, <1>2, <2>1, <2>5, <2>7, WindowLost
  <2>9. QED
    BY <1>1, <2>1, <2>8
<1>7. CASE CrashUnmirrored
  <2>1. power \in {"mirror", "remirror"} \/ pc = "air"
    BY <1>7 DEF CrashUnmirrored
  <2>2. CASE /\ pc # "air" /\ Boot(NoSnapshot) /\ lost' = lost + OnAir
    <3>1. log' = log
      BY <1>7, <2>2 DEF CrashUnmirrored
    <3>2. Snap(NoSnapshot) /\ <<>> \in Seq(Int) /\ Restores(NoSnapshot, now, <<>>, now)
      BY <1>1, NoSnapshotIs, NothingRestores
    <3>3. PICK s, C : s = NoSnapshot /\ C = <<>>
      OBVIOUS
    <3>4. Stands(s, now, log, Len(log), lost')
      BY <1>1, <2>2, <3>2, <3>3, WindowLost
    <3>5. QED
      BY <2>2, <3>1, <3>2, <3>3, <3>4
  <2>3. CASE /\ Boot(rtc) /\ power = "remirror" /\ pc # "air" /\ lost' = lost + 0
    <3>1. log' = log /\ lost' = lost
      BY <1>1, <1>7, <2>3 DEF CrashUnmirrored
    <3>2. Horizon = now /\ Covered = Len(log)
      BY <2>3 DEF Horizon, Covered, Finished
    <3>3. QED
      BY <1>1, <2>3, <3>1, <3>2 DEF SnapInv
  <2>4. CASE /\ Boot(rtc) /\ (power = "mirror" \/ pc = "air")
             /\ lost' = lost + LastAirtime
    <3>1. log # <<>> /\ LastOf(log).start < LastOf(log).stop /\ power # "asleep"
      <4>1. CASE pc = "air"
        <5>1. /\ log # <<>> /\ LastOf(log).stop = until /\ est # 0 /\ est \in Nat
              /\ LastOf(log).start + est <= until /\ power # "asleep"
          BY <1>1, <1>2, <4>1, StampTypes DEF FrameInv
        <5>2. LastOf(log).start \in Nat /\ LastOf(log).stop \in Nat
          BY <1>1, <5>1, FreeType
        <5>3. QED
          BY <5>1, <5>2
      <4>2. QED
        BY <1>2, <2>4, <4>1
    <3>2. Horizon = now /\ Covered = Len(log) - 1
      <4>1. power = "mirror" => pc # "air"
        BY <1>2
      <4>2. QED
        BY <2>4, <3>1, <4>1 DEF Horizon, Covered, Finished
    <3>3. Len(log) >= 1 /\ Last(log) = LastOf(log)
      BY <1>1, <3>1, FreeType DEF Last, LastOf
    <3>4. PICK l, m, x, y : l = log /\ m = log' /\ x = lost /\ y = lost'
      OBVIOUS
    <3>5. Stands(rtc, now, l, Len(l) - 1, x)
      BY <3>2, <3>4 DEF SnapInv
    <3>6. y = x + (LastOf(l).stop - LastOf(l).start)
      BY <2>4, <3>3, <3>4 DEF LastAirtime
    <3>7. /\ l \in Seq(Frame) /\ WellTimed(l) /\ Len(l) >= 1 /\ x \in Nat /\ y \in Nat
          /\ m \in Seq(Frame) /\ WellTimed(m) /\ Len(m) = Len(l)
          /\ LastOf(l).start < LastOf(l).stop
          /\ \A t \in Int : Total(Parts(m, Len(m), t)) <= Total(Parts(l, Len(l), t))
      BY <1>1, <1>3, <3>1, <3>3, <3>4
    <3>8. Stands(rtc, now, m, Len(m), y)
      BY <1>1, <3>5, <3>6, <3>7, StandsWithoutLast
    <3>9. Stands(rtc, now, log', Len(log'), lost')
      BY <3>4, <3>8
    <3>10. Boot(rtc)
      BY <2>4
    <3>11. QED
      BY <1>1, <3>9, <3>10
  <2>5. QED
    BY <1>2, <1>7, <2>1, <2>2, <2>3, <2>4 DEF CrashUnmirrored
<1>8. QED
  BY <1>4, <1>5, <1>6, <1>7 DEF Reboots

LEMMA SnapInit ==
  ASSUME MirrorInit
  PROVE  SnapInv
<1>1. /\ log = <<>> /\ lost = 0 /\ now = 0 /\ power = "on" /\ pc = "idle" /\ rtc = NoSnapshot
  BY DEF MirrorInit, Init
<1>2. PICK s, C, l, h : s = NoSnapshot /\ C = <<>> /\ l = <<>> /\ h = 0
  OBVIOUS
<1>3. /\ h \in Int /\ C \in Seq(Int) /\ l \in Seq(Frame) /\ Len(l) = 0 /\ 0 \in Int /\ 0 \in Nat
      /\ WellTimed(l)
  BY <1>2 DEF WellTimed
<1>4. Snap(s) /\ Restores(s, h, C, h)
  BY <1>2, <1>3, NoSnapshotIs, NothingRestores
<1>5. \A t \in Int : t >= h => Total(Parts(l, 0, t)) <= 0
  <2>1. SUFFICES ASSUME NEW t \in Int PROVE Total(Parts(l, 0, t)) <= 0
    OBVIOUS
  <2>2. Parts(l, 0, t) \in Seq(Nat) /\ Len(Parts(l, 0, t)) = 0
    BY <1>3, PartsType DEF Counts
  <2>3. Total(Parts(l, 0, t)) = 0
    BY <2>2, RunningStep DEF Total
  <2>4. QED
    BY <2>3
<1>6. Stands(s, h, l, 0, 0)
  BY <1>2, <1>3, <1>4, <1>5, StandsLost
<1>7. Horizon = h /\ Covered = 0
  BY <1>1, <1>2, <1>3 DEF Horizon, Covered, Finished
<1>8. QED
  BY <1>1, <1>2, <1>6, <1>7 DEF SnapInv

LEMMA SnapNext ==
  ASSUME ClockFits, OffFits, MirrorShape, LastInv, row = "duty", DutyInv, SnapInv,
         [MirrorNext]_allVars
  PROVE  SnapInv'
<1>1. /\ TypeOK /\ FrameInv /\ now \in Nat
      /\ (power = "asleep" => pc = "idle")
      /\ (power \in {"mirror", "remirror"} => pc \in {"idle", "resume"})
  BY SnapTypes DEF MirrorShape
<1>2. CASE UNCHANGED allVars
  BY <1>2 DEF allVars, vars, mirrorVars, txVars, SnapInv, Horizon, Covered, Finished
<1>3. CASE IdleMirror
  <2>1. power = "on" /\ power' = "remirror" /\ UNCHANGED <<vars, rtc>>
    BY <1>3 DEF IdleMirror
  <2>2. Horizon' = Horizon /\ Covered' = Covered /\ log' = log /\ lost' = lost /\ rtc' = rtc
    BY <2>1 DEF vars, txVars, Horizon, Covered, Finished
  <2>3. QED
    BY <2>2 DEF SnapInv
<1>4. CASE RecordAndMirror
  <2>1. /\ power = "on" /\ power' = "mirror" /\ pc = "air" /\ rtc' = rtc /\ now' = now
        /\ log' = log /\ lost' = lost
    BY <1>4 DEF RecordAndMirror, Record, Sent
  <2>2. Horizon' = Horizon /\ Covered' = Covered
    BY <2>1 DEF Horizon, Covered, Finished
  <2>3. QED
    BY <2>1, <2>2 DEF SnapInv
<1>5. CASE Work
  <2>1. power = "on" /\ UNCHANGED mirrorVars /\ power' = power /\ rtc' = rtc
    BY <1>5 DEF Work, mirrorVars
  <2>2. CASE Ask \/ Query
    <3>1. pc # "air" /\ pc' # "air" /\ now' = now /\ log' = log /\ lost' = lost
      BY <2>2 DEF Ask, AskFor, Query, txVars
    <3>2. Horizon' = Horizon /\ Covered' = Covered
      BY <2>1, <3>1 DEF Horizon, Covered, Finished
    <3>3. QED
      BY <2>1, <3>1, <3>2 DEF SnapInv
  <2>3. CASE Emit \/ SendFailed
    BY <2>1, <2>3, SnapSends
  <2>4. CASE Tick
    BY <2>1, <2>4, SnapTime
  <2>5. QED
    BY <1>1, <1>5, <2>2, <2>3, <2>4, DutyAsks DEF Work
<1>6. CASE Asleep
  BY <1>6, SnapTime
<1>7. CASE Mirrored
  <2>1. /\ power \in {"mirror", "remirror"} /\ power' = "on" /\ ring' = Prune(ring, Millis(now))
        /\ rtc' = Snapshot(ring', 0) /\ now' = now /\ log' = log /\ lost' = lost /\ pc' = pc
    BY <1>7 DEF Mirrored, txVars
  <2>2. pc # "air" /\ Horizon' = now /\ Covered' = Len(log)
    BY <1>1, <2>1 DEF Horizon, Covered, Finished
  <2>3. PICK s, h, d : s = Snapshot(Prune(ring, Millis(now)), d) /\ h = now + d /\ d = 0
    OBVIOUS
  <2>4. h = now /\ d \in Nat /\ s = rtc'
    BY <1>1, <2>1, <2>3
  <2>5. Stands(s, h, log, Len(log), lost)
    BY <1>1, <2>2, <2>3, <2>4, ExportStands
  <2>6. QED
    BY <2>1, <2>2, <2>4, <2>5 DEF SnapInv
<1>8. CASE DeepSleep
  <2>1. /\ power' = "asleep" /\ pc = "idle" /\ now' = now /\ log' = log /\ lost' = lost /\ pc' = pc
    BY <1>8 DEF DeepSleep, txVars
  <2>2. PICK d \in SleepFor :
          ring' = Prune(ring, Millis(now)) /\ rtc' = Snapshot(ring', d) /\ wake' = now + d
    BY <1>8 DEF DeepSleep
  <2>3. d \in Nat /\ Horizon' = now + d /\ Covered' = Len(log)
    BY <2>1, <2>2, MirrorFacts DEF Horizon, Covered, Finished
  <2>4. PICK s, h : s = Snapshot(Prune(ring, Millis(now)), d) /\ h = now + d
    OBVIOUS
  <2>5. Stands(s, h, log, Len(log), lost)
    BY <1>1, <2>1, <2>3, <2>4, ExportStands
  <2>6. QED
    BY <2>1, <2>2, <2>3, <2>4, <2>5 DEF SnapInv
<1>9. CASE Reboots
  <2>1. PICK s : Boot(s) /\ Stands(s, now, log', Len(log'), lost')
    BY <1>9, RebootStands
  <2>2. QED
    BY <2>1, BootSnap
<1>10. QED
  BY <1>2, <1>3, <1>4, <1>5, <1>6, <1>7, <1>8, <1>9 DEF MirrorNext, Reboots

----------------------------------------------------------------------------
(***************************************************************************)
(* The governor's own invariant, through the reboots: what is restored     *)
(* counts the history as the ring did that was lost.                       *)
(***************************************************************************)
LEMMA BootAccounted ==
  ASSUME now \in Nat, NEW s, Boot(s), NEW C \in Seq(Int), NEW D \in Int, Restores(s, now, C, D),
         NEW Y,
         \A t \in Int : t >= now =>
           Total(Parts(log', Len(log'), t))
             <= Total(Counted(RestoredRing(s), C, t - Window)) + Y[t],
         \A t \in Int : t >= now => Total(Parts(log', Len(log'), t)) <= Budget + Overrun + Y[t],
         lost' = 0 /\ log' # <<>> =>
           FreeFrom(LastOf(log')) <= D \/ FreeFrom(LastOf(log')) <= now
  PROVE  Accounted(Y)'
<1>1. /\ now' = now /\ epoch' = now /\ ring' = RestoredRing(s) /\ blocked' = RestoredBlocked(s)
      /\ pc' = "idle" /\ Finished' = Len(log')
  BY DEF Boot, RestoredRing, RestoredBlocked, Finished
<1>2. RingInv(C, D)'
  <2>1. Stamped(ring, C)'
    BY <1>1 DEF Restores, Stamps, Stamped, Millis
  <2>2. blocked' = Millis(D)' /\ D <= now' + Window + Ratio * Overrun
    BY <1>1 DEF Restores, Millis
  <2>3. Sorted(C) /\ \A j \in 1..Len(C) : C[j] <= D
    BY DEF Restores
  <2>4. QED
    BY <2>1, <2>2, <2>3 DEF RingInv, Stamped
<1>3. CountInv(C, Y)'
  BY <1>1 DEF CountInv
<1>4. WaitInv(C, D, Y)'
  BY <1>1 DEF WaitInv
<1>5. QED
  BY <1>2, <1>3, <1>4 DEF Accounted

LEMMA StepAccounted ==
  ASSUME FramesFit, ClockFits, MirrorShape, row = "duty", NEW X, Charges(X), Accounted(X),
         [MirrorNext]_allVars, ~Reboots, ~SendFailed
  PROVE  Accounted(X)' /\ lost' = lost /\ boots' = boots /\ now' \in Nat /\ now' >= now
<1>1. /\ TypeOK /\ FrameInv /\ now \in Nat
      /\ (power = "asleep" => pc = "idle")
      /\ (power \in {"mirror", "remirror"} => pc \in {"idle", "resume"})
      /\ pc # "resume"
  BY SnapTypes DEF MirrorShape, FrameInv
<1>2. PICK E \in Seq(Int), B \in Int : RingInv(E, B) /\ CountInv(E, X) /\ WaitInv(E, B, X)
  BY DEF Accounted
<1>3. CASE Work \/ RecordAndMirror \/ IdleMirror \/ UNCHANGED allVars
  <2>1. [Next]_vars /\ boots' = boots
    BY <1>3 DEF Work, RecordAndMirror, IdleMirror, Next, allVars, mirrorVars
  <2>2. now' = now \/ now' = now + 1
    BY <2>1 DEF Next, Ask, AskIdent, Resume, AskFor, Emit, Record, SendFailed, Sent, Query,
                Tick, vars
  <2>3. QED
    BY <1>1, <2>1, <2>2, NextAccounted
<1>4. CASE Mirrored \/ DeepSleep
  <2>1. /\ pc = "idle" /\ ring' = Prune(ring, Millis(now)) /\ boots' = boots
        /\ UNCHANGED <<now, epoch, blocked, txVars, identVars, log, lost>>
    BY <1>1, <1>4 DEF Mirrored, DeepSleep
  <2>2. Accounted(X)'
    BY <1>1, <1>2, <2>1, QueryDuty
  <2>3. QED
    BY <1>1, <2>1, <2>2
<1>5. CASE Asleep
  <2>1. TimePasses /\ boots' = boots /\ now' = now + 1
    BY <1>1, <1>5 DEF Asleep, TimePasses, mirrorVars
  <2>2. Accounted(X)'
    BY <1>1, <1>2, <2>1, TimeDuty
  <2>3. QED
    BY <1>1, <2>1, <2>2 DEF TimePasses
<1>6. QED
  BY <1>3, <1>4, <1>5 DEF MirrorNext, Reboots

\* A reboot: what was charged before does not count the window; all that is
\* restored does, and what Y charges.
LEMMA RebootAccounted ==
  ASSUME OffFits, MirrorShape, LastInv, row = "duty", SnapInv, Reboots,
         NEW X, Charges(X), Accounted(X), NEW Y, Charges(Y),
         \/ \A t \in Int : Y[t] = lost' /\ X[t] <= lost
         \/ \A t \in Int : Y[t] = Total(Parts(log', Len(log'), t))
  PROVE  Accounted(Y)'
<1>1. /\ TypeOK /\ FrameInv /\ lost \in Nat /\ now \in Nat /\ Window \in Nat
      /\ log \in Seq(Frame) /\ WellTimed(log) /\ Len(log) \in Int /\ now \in Int
  BY SnapTypes, WrapFacts
<1>2. PICK s : Boot(s) /\ Snap(s) /\ Stands(s, now, log', Len(log'), lost')
  BY RebootStands
<1>3. PICK C \in Seq(Int), D \in Int :
        /\ Restores(s, now, C, D)
        /\ \A t \in Int : t >= now =>
             Total(Parts(log', Len(log'), t))
               <= Total(Counted(RestoredRing(s), C, t - Window)) + lost'
        /\ lost' = 0 /\ Len(log') = Len(log') /\ log' # <<>> =>
             FreeFrom(LastOf(log')) <= D \/ FreeFrom(LastOf(log')) <= now
  BY <1>2 DEF Stands
<1>4. /\ log' \in Seq(Frame) /\ WellTimed(log') /\ Len(log') \in Int /\ lost' \in Nat
      /\ lost' >= lost
      /\ \A t \in Int : Total(Parts(log', Len(log'), t)) <= Total(Parts(log, Len(log), t))
  <2>1. /\ log' \in Seq(Frame) /\ WellTimed(log') /\ lost' \in Nat /\ lost' >= lost
        /\ \A t \in Int : Total(Parts(log', Len(log'), t)) <= Total(Parts(log, Len(log), t))
    BY RebootKeeps
  <2>2. Len(log') \in Int
    BY <2>1, FrameFields
  <2>3. QED
    BY <2>1, <2>2
<1>5. Budget \in Nat /\ Overrun \in Nat
  BY WrapFacts
<1>6. ASSUME NEW t \in Int, t >= now
      PROVE  /\ Total(Parts(log', Len(log'), t))
                  <= Total(Counted(RestoredRing(s), C, t - Window)) + Y[t]
             /\ Total(Parts(log', Len(log'), t)) <= Budget + Overrun + Y[t]
  <2>1. PICK a, b, c, x, y, z :
          /\ a = Total(Parts(log', Len(log'), t)) /\ b = Total(Parts(log, Len(log), t))
          /\ c = Total(Counted(RestoredRing(s), C, t - Window))
          /\ x = X[t] /\ y = Y[t] /\ z = lost'
    OBVIOUS
  <2>2. a \in Nat /\ b \in Nat /\ a <= b
    BY <1>1, <1>4, <2>1, PartsTotal
  <2>3. c \in Nat
    <3>1. Len(C) = Len(RestoredRing(s)) /\ t - Window \in Int
      BY <1>1, <1>3 DEF Restores, Stamps
    <3>2. QED
      BY <1>2, <2>1, <3>1, RestoredTotal
  <2>4. x \in Nat /\ y \in Nat /\ z \in Nat /\ z >= lost
    BY <1>4, <2>1 DEF Charges
  <2>5. a <= c + z
    BY <1>3, <1>6, <2>1, Zenon
  <2>6. b <= Budget + Overrun + x
    BY <1>1, <1>6, <2>1, WindowSum
  <2>7. (y = z /\ x <= lost) \/ y = a
    BY <2>1
  <2>8. a <= c + y
    BY <2>2, <2>3, <2>4, <2>5, <2>7
  <2>9. a <= Budget + Overrun + y
    BY <1>1, <1>5, <2>2, <2>4, <2>6, <2>7
  <2>10. QED
    BY <2>1, <2>8, <2>9, Zenon
<1>7. lost' = 0 /\ log' # <<>> => FreeFrom(LastOf(log')) <= D \/ FreeFrom(LastOf(log')) <= now
  BY <1>3
<1>8. QED
  BY <1>1, <1>2, <1>3, <1>6, <1>7, BootAccounted

LEMMA DutyNext ==
  ASSUME FramesFit, ClockFits, OffFits, MirrorShape, LastInv, row = "duty", DutyInv, SnapInv,
         [MirrorNext]_allVars
  PROVE  DutyInv'
<1>1. PICK X : Charges(X) /\ Accounted(X) /\ \A t \in Int : X[t] <= lost
  BY DEF DutyInv, Charges
<1>2. CASE ~Reboots /\ ~SendFailed
  <2>1. Accounted(X)' /\ lost' = lost
    BY <1>1, <1>2, StepAccounted
  <2>2. QED
    BY <1>1, <2>1 DEF DutyInv, Charges
<1>3. CASE SendFailed
  BY <1>3, NextDuty DEF Next, MirrorShape
<1>4. CASE Reboots
  <2>1. lost' \in Nat
    BY <1>4, RebootKeeps
  <2>2. PICK Y : Charges(Y) /\ \A t \in Int : Y[t] = lost'
    <3> DEFINE Z == [t \in Int |-> lost']
    <3>1. Charges(Z) /\ \A t \in Int : Z[t] = lost'
      BY <2>1 DEF Charges
    <3>2. QED
      BY <3>1, Zenon
  <2>3. Accounted(Y)'
    BY <1>1, <1>4, <2>2, RebootAccounted
  <2>4. \A t \in Int : Y[t] <= lost'
    BY <2>1, <2>2
  <2>5. QED
    BY <2>2, <2>3, <2>4 DEF DutyInv, Charges
<1>5. QED
  BY <1>2, <1>3, <1>4

----------------------------------------------------------------------------
(***************************************************************************)
(* The theorems.                                                           *)
(***************************************************************************)
MirrorInv == MirrorShape /\ LastInv /\ (row = "duty" => DutyInv /\ SnapInv)

\* The inductive invariant, through every step of the governor and every reboot.
THEOREM MirrorInvariant == FramesFit /\ ClockFits /\ OffFits /\ MirrorSpec => []MirrorInv
<1> SUFFICES ASSUME FramesFit, ClockFits, OffFits PROVE MirrorSpec => []MirrorInv
  OBVIOUS
<1>1. MirrorInit => MirrorInv
  BY ShapeInit, LastInit, SnapInit, InitDuty DEF MirrorInit, MirrorInv
<1>2. MirrorInv /\ [MirrorNext]_allVars => MirrorInv'
  <2>1. SUFFICES ASSUME MirrorInv, [MirrorNext]_allVars PROVE MirrorInv'
    OBVIOUS
  <2>2. MirrorShape' /\ LastInv' /\ row' = row
    BY <2>1, ShapeNext, LastNext, MirrorRow DEF MirrorInv
  <2>3. row = "duty" => DutyInv' /\ SnapInv'
    BY <2>1, DutyNext, SnapNext DEF MirrorInv
  <2>4. QED
    BY <2>2, <2>3 DEF MirrorInv
<1>3. QED
  BY <1>1, <1>2, PTL DEF MirrorSpec

\* trace_cb() and budget_restore(): whatever the faults, what the governor
\* works with after a boot is short of the truth by no more than what is lost.
THEOREM FrameBehind ==
  FramesFit /\ ClockFits /\ OffFits /\ MirrorSpec => []OneFrameBehind
<1> SUFFICES ASSUME ClockFits PROVE FramesFit /\ OffFits /\ MirrorSpec => []OneFrameBehind
  OBVIOUS
<1>1. MirrorInv => OneFrameBehind
  BY FigureHolds DEF MirrorInv, MirrorShape, OneFrameBehind
<1>2. QED
  BY <1>1, MirrorInvariant, PTL

\* The window is kept through every reboot, up to what is lost.
THEOREM WindowAcrossBoots ==
  FramesFit /\ ClockFits /\ OffFits /\ MirrorSpec => []WindowKept
<1>1. MirrorInv => WindowKept
  BY WindowHolds DEF MirrorInv, MirrorShape, WindowKept
<1>2. QED
  BY <1>1, MirrorInvariant, PTL

\* The off-time of the last frame survives the reboot with the snapshot.
THEOREM OffTimeAcrossBoots ==
  FramesFit /\ ClockFits /\ OffFits /\ MirrorSpec => OffTimeKept
<1> DEFINE Free == row = "duty" /\ pc = "wait" /\ pc' = "air" /\ log # <<>> /\ lost = 0 =>
                     now >= Last(log).stop + (Ratio - 1) * (Last(log).stop - Last(log).start)
<1>1. MirrorInv /\ [MirrorNext]_allVars => [Free]_vars
  <2>1. SUFFICES ASSUME MirrorInv, MirrorNext \/ UNCHANGED allVars, row = "duty", pc = "wait",
                        pc' = "air", log # <<>>, lost = 0
                 PROVE  now >= Last(log).stop
                                 + (Ratio - 1) * (Last(log).stop - Last(log).start)
    OBVIOUS
  <2>2. TypeOK /\ FrameInv /\ DutyInv
    BY <2>1 DEF MirrorInv, MirrorShape
  <2>3. ~UNCHANGED allVars /\ Work
    <3>1. ~UNCHANGED allVars /\ ~RecordAndMirror /\ ~IdleMirror /\ ~Mirrored /\ ~DeepSleep /\ ~Asleep
      BY <2>1 DEF RecordAndMirror, Record, Sent, IdleMirror, Mirrored, DeepSleep, Asleep,
                  allVars, vars, txVars
    <3>2. ~TimerWakes /\ ~EarlyReset /\ ~Crash /\ ~CrashUnmirrored
      BY <2>1 DEF TimerWakes, EarlyReset, Crash, CrashUnmirrored, Boot
    <3>3. QED
      BY <2>1, <3>1, <3>2 DEF MirrorNext
  <2>4. Emit
    BY <2>1, <2>3 DEF Work, Ask, AskIdent, Resume, AskFor, SendFailed, Sent, Query, Tick, txVars
  <2>5. QED
    BY <2>1, <2>2, <2>4, FreeWhenSent
<1>2. QED
  BY <1>1, MirrorInvariant, PTL DEF MirrorSpec, OffTimeKept

\* docs/duty-cycle.md: a restored window is "stricter, never looser" as long as
\* the board is switched off only by its own schedule or between two frames,
\* with the mirror complete, and no send fails.
THEOREM StricterUnlessLost ==
  /\ FramesFit /\ ClockFits /\ OffFits /\ Faults \subseteq {"crash"} /\ MaxLost = 0
  /\ MirrorSpec
  => [](row = "duty" => NeverLooser)
<1> SUFFICES ASSUME FramesFit, ClockFits, OffFits, Faults \subseteq {"crash"}, MaxLost = 0
             PROVE  MirrorSpec => [](row = "duty" => NeverLooser)
  OBVIOUS
<1> DEFINE NoneLost == lost = 0
<1>1. MirrorSpec => []NoneLost
  <2>1. MirrorInit => NoneLost
    BY DEF MirrorInit, Init
  <2>2. NoneLost /\ [MirrorNext]_allVars => NoneLost'
    <3>1. SUFFICES ASSUME lost = 0, [MirrorNext]_allVars PROVE lost' = 0
      OBVIOUS
    <3>2. ~SendFailed /\ ~EarlyReset /\ ~CrashUnmirrored
      BY <3>1 DEF SendFailed, EarlyReset, CrashUnmirrored
    <3>3. QED
      BY <3>1, <3>2 DEF MirrorNext, Work, RecordAndMirror, IdleMirror, Mirrored, DeepSleep,
         Asleep, TimerWakes, Crash, Ask, AskIdent, Resume, AskFor, Emit, Query, Tick, Record,
         allVars, vars
  <2> HIDE DEF NoneLost
  <2>3. QED
    BY <2>1, <2>2, PTL DEF MirrorSpec
<1>2. MirrorInv /\ NoneLost => (row = "duty" => NeverLooser)
  <2>1. SUFFICES ASSUME MirrorInv, lost = 0, row = "duty", power = "on", pc # "air"
                 PROVE  OnAir <= Airtime(Prune(ring, Millis(now)))
    BY DEF NeverLooser
  <2>2. TypeOK /\ FrameInv /\ DutyInv
    BY <2>1 DEF MirrorInv, MirrorShape
  <2>3. OnAir <= Airtime(Prune(ring, Millis(now))) + lost
    BY <2>1, <2>2, FigureHolds
  <2>4. Airtime(Prune(ring, Millis(now))) \in Nat
    BY <2>2, StampTypes, PruneType, AirtimeType
  <2>5. PICK a : a = Airtime(Prune(ring, Millis(now)))
    OBVIOUS
  <2>6. QED
    BY <2>1, <2>3, <2>4, <2>5
<1> HIDE DEF NoneLost
<1>3. QED
  BY <1>1, <1>2, MirrorInvariant, PTL

----------------------------------------------------------------------------
(***************************************************************************)
(* One budget per boot.  Each boot charges the governor anew with all that *)
(* is still in the window: no more than one budget above what was charged  *)
(* before.                                                                 *)
(***************************************************************************)
FreshInv ==
  \E X : /\ Charges(X) /\ Accounted(X)
         /\ \A t \in Int : t >= now => X[t] <= boots * (Budget + Overrun)

PerBootInv == row = "duty" => FreshInv

LEMMA FreshInit ==
  ASSUME MirrorInit
  PROVE  FreshInv
<1>1. DutyInv /\ lost = 0 /\ boots = 0
  BY InitDuty DEF MirrorInit, Init
<1>2. PICK X : Charges(X) /\ Accounted(X) /\ \A t \in Int : X[t] <= lost
  BY <1>1 DEF DutyInv, Charges
<1>3. 0 * (Budget + Overrun) = 0
  <2>1. Budget \in Nat /\ Overrun \in Nat
    BY WrapFacts
  <2>2. QED
    BY <2>1
<1>4. QED
  BY <1>1, <1>2, <1>3 DEF FreshInv

LEMMA FreshNext ==
  ASSUME FramesFit, ClockFits, OffFits, MaxLost = 0, MirrorInv, row = "duty", FreshInv,
         [MirrorNext]_allVars
  PROVE  FreshInv'
<1>1. PICK X : /\ Charges(X) /\ Accounted(X)
               /\ \A t \in Int : t >= now => X[t] <= boots * (Budget + Overrun)
  BY DEF FreshInv
<1>2. /\ MirrorShape /\ LastInv /\ SnapInv /\ TypeOK /\ FrameInv /\ lost \in Nat /\ now \in Nat
      /\ log \in Seq(Frame) /\ WellTimed(log) /\ Len(log) \in Int /\ boots \in Nat
  BY SnapTypes DEF MirrorInv, MirrorShape
<1>3. ~SendFailed
  BY <1>2 DEF SendFailed
<1>4. CASE ~Reboots
  <2>1. Accounted(X)' /\ boots' = boots /\ now' \in Nat /\ now' >= now
    BY <1>1, <1>2, <1>3, <1>4, StepAccounted
  <2>2. \A t \in Int : t >= now' => t >= now
    BY <1>2, <2>1
  <2>3. \A t \in Int : t >= now' => X[t] <= boots' * (Budget + Overrun)
    BY <1>1, <2>1, <2>2
  <2>4. QED
    BY <1>1, <2>1, <2>3 DEF FreshInv
<1>5. CASE Reboots
  <2>1. /\ log' \in Seq(Frame) /\ WellTimed(log')
        /\ \A t \in Int : Total(Parts(log', Len(log'), t)) <= Total(Parts(log, Len(log), t))
        /\ \E s : Boot(s)
    BY <1>2, <1>5, RebootKeeps
  <2>2. boots' = boots + 1 /\ now' = now
    BY <2>1 DEF Boot
  <2>3. Len(log') \in Int
    BY <2>1, FrameFields
  <2>4. PICK Y : Charges(Y) /\ \A t \in Int : Y[t] = Total(Parts(log', Len(log'), t))
    <3> DEFINE Z == [t \in Int |-> Total(Parts(log', Len(log'), t))]
    <3>1. \A t \in Int : Total(Parts(log', Len(log'), t)) \in Nat
      BY <2>1, <2>3, PartsTotal
    <3>2. Charges(Z) /\ \A t \in Int : Z[t] = Total(Parts(log', Len(log'), t))
      BY <3>1 DEF Charges
    <3>3. QED
      BY <3>2, Zenon
  <2>5. Accounted(Y)'
    BY <1>1, <1>2, <1>5, <2>4, RebootAccounted
  <2>6. ASSUME NEW t \in Int, t >= now
        PROVE  Y[t] <= (boots + 1) * (Budget + Overrun)
    <3>1. PICK b, k, x, y :
            /\ b = Total(Parts(log, Len(log), t)) /\ k = Budget + Overrun /\ x = X[t] /\ y = Y[t]
      OBVIOUS
    <3>2. x \in Nat /\ y \in Nat /\ k \in Nat /\ Budget \in Nat /\ Overrun \in Nat
      <4>1. Budget \in Nat /\ Overrun \in Nat
        BY WrapFacts
      <4>2. QED
        BY <1>1, <2>4, <3>1, <4>1 DEF Charges
    <3>3. y <= b
      BY <2>1, <2>4, <3>1
    <3>4. b <= k + x
      <4>1. b <= Budget + Overrun + x
        BY <1>1, <1>2, <2>6, <3>1, WindowSum
      <4>2. QED
        BY <3>1, <3>2, <4>1
    <3>5. x <= boots * k
      BY <1>1, <2>6, <3>1
    <3>6. b \in Nat
      BY <1>2, <3>1, PartsTotal
    <3>7. (boots + 1) * k = boots * k + k /\ boots * k \in Nat
      BY <1>2, <3>2
    <3>8. y <= (boots + 1) * k
      <4>1. PICK p : p = boots * k
        OBVIOUS
      <4>2. p \in Nat /\ x <= p /\ (boots + 1) * k = p + k
        BY <3>5, <3>7, <4>1
      <4>3. y <= p + k
        BY <3>2, <3>3, <3>4, <3>6, <4>2
      <4>4. QED
        BY <4>2, <4>3
    <3>9. QED
      BY <3>1, <3>8
  <2>7. QED
    BY <2>2, <2>4, <2>5, <2>6 DEF FreshInv
<1>6. QED
  BY <1>4, <1>5

\* A station whose radio reports what it sends is never on the air for more
\* than a budget per boot, however and how often it is reset.
THEOREM BudgetPerBoot ==
  FramesFit /\ ClockFits /\ OffFits /\ MaxLost = 0 /\ MirrorSpec => []OneBudgetPerBoot
<1> SUFFICES ASSUME FramesFit, ClockFits, OffFits, MaxLost = 0
             PROVE  MirrorSpec => []OneBudgetPerBoot
  OBVIOUS
<1>1. MirrorSpec => []PerBootInv
  <2>1. MirrorInit => PerBootInv
    BY FreshInit DEF PerBootInv
  <2>2. MirrorInv /\ PerBootInv /\ [MirrorNext]_allVars => PerBootInv'
    BY FreshNext, MirrorRow DEF PerBootInv
  <2>3. QED
    BY <2>1, <2>2, MirrorInvariant, PTL DEF MirrorSpec
<1>2. MirrorInv /\ PerBootInv => OneBudgetPerBoot
  <2>1. SUFFICES ASSUME MirrorInv, FreshInv
                 PROVE  OnAir <= (boots + 1) * (Budget + Overrun)
    BY DEF OneBudgetPerBoot, PerBootInv
  <2>2. TypeOK /\ FrameInv /\ now \in Nat /\ boots \in Nat
    BY <2>1, SnapTypes DEF MirrorInv, MirrorShape
  <2>3. PICK X : /\ Charges(X) /\ Accounted(X)
                 /\ \A t \in Int : t >= now => X[t] <= boots * (Budget + Overrun)
    BY <2>1 DEF FreshInv
  <2>4. PICK o, x, k : o = OnAir /\ x = X[now] /\ k = Budget + Overrun
    OBVIOUS
  <2>5. now \in Int /\ now >= now
    BY <2>2
  <2>6. o \in Nat /\ x \in Nat /\ k \in Nat /\ Budget \in Nat /\ Overrun \in Nat
    <3>1. Budget \in Nat /\ Overrun \in Nat
      BY WrapFacts
    <3>2. o \in Nat
      BY <2>2, <2>4, OnAirIs
    <3>3. x \in Nat
      BY <2>3, <2>4, <2>5 DEF Charges
    <3>4. QED
      BY <2>4, <3>1, <3>2, <3>3
  <2>7. o <= Budget + Overrun + x
    BY <2>2, <2>3, <2>4, <2>5, WindowSum, OnAirIs
  <2>8. x <= boots * k
    BY <2>3, <2>4, <2>5
  <2>9. (boots + 1) * k = boots * k + k /\ boots * k \in Nat
    BY <2>2, <2>6
  <2>10. PICK p : p = boots * k
    OBVIOUS
  <2>11. o <= p + k
    BY <2>4, <2>6, <2>7, <2>8, <2>9, <2>10
  <2>12. QED
    BY <2>4, <2>9, <2>10, <2>11
<1>3. QED
  BY <1>1, <1>2, MirrorInvariant, PTL

=============================================================================
