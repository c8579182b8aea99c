--------------------------- MODULE GovernorProofs ---------------------------
(***************************************************************************)
(* What is proved about the duty-cycle governor of Governor: that its own  *)
(* figure never understates what was on the air, that no window carries    *)
(* more than the budget, and that every off-time is kept - for every       *)
(* window, duty cycle, ring size and mix of frames.                        *)
(* Further that no frame waits longer than the window and a frame, and     *)
(* that an amateur station identifies itself in time, both for a station   *)
(* that is not silent for half a turn of the counter.                      *)
(*                                                                         *)
(* The code keeps wrapped stamps in a ring that folds and prunes itself.   *)
(* The invariant ties them to real time: a sequence E of real end times    *)
(* behind the slots, a real end B of the off-time behind blocked_until,    *)
(* and, for every window that ends now or later, a count of the slots that *)
(* end in it which is no less than what the finished frames had of it.     *)
(* Folding two slots moves the older one's end later and pruning drops     *)
(* only what no window needs, so both keep the count.  The count has to be *)
(* for every later window and not just for the one that ends now: a frame  *)
(* is sent when its wait is over, and it is the window of that moment      *)
(* which the wait was computed for.                                        *)
(***************************************************************************)
EXTENDS Governor, FiniteIntegers

\* The natural numbers are the only set of them that has 0 and, with each
\* number, the next.
LEMMA Counting ==
  ASSUME NEW S \in SUBSET Nat, 0 \in S, \A n \in S : n + 1 \in S, NEW n \in Nat
  PROVE  n \in S
<1> SUFFICES ASSUME n \notin S PROVE FALSE
  OBVIOUS
<1> DEFINE Out == {m \in 0..n : m \notin S}
<1>1. IsFiniteSet(Out)
  <2>1. IsFiniteSet(0..n) /\ Out \in SUBSET (0..n)
    BY FS_Interval
  <2>2. QED
    BY <2>1, FS_Subset, Zenon
<1>2. Out \in SUBSET Int /\ n \in Out
  OBVIOUS
<1>3. PICK x \in Out : \A y \in Out : x <= y
  BY <1>1, <1>2, HasMinimum, Zenon
<1>4. x - 1 \in 0..n /\ ~(x <= x - 1)
  OBVIOUS
<1>5. x - 1 \in S
  BY <1>3, <1>4
<1>6. (x - 1) + 1 = x
  OBVIOUS
<1>7. QED
  BY <1>5, <1>6

\* What the provers need of a sequence.
LEMMA Elements ==
  ASSUME NEW S, NEW r \in Seq(S)
  PROVE  Len(r) \in Nat /\ DOMAIN r = 1..Len(r) /\ \A j \in 1..Len(r) : r[j] \in S
  OBVIOUS

----------------------------------------------------------------------------
(***************************************************************************)
(* Sums.  Running(w) is a function that satisfies its own definition, and  *)
(* its differences compare as the numbers do that are added.               *)
(***************************************************************************)
SumOf(w, f) == f = [i \in 0..Len(w) |-> IF i = 0 THEN 0 ELSE f[i - 1] + w[i]]

LEMMA RunningExists ==
  ASSUME NEW w \in Seq(Nat)
  PROVE  SumOf(w, Running(w))
<1> DEFINE Sums(n, f) == /\ f \in [0..n -> Nat] /\ f[0] = 0
                         /\ \A i \in 1..n : f[i] = f[i - 1] + w[i]
           P(n) == n <= Len(w) => \E f : Sums(n, f)
           S == {n \in Nat : P(n)}
<1>1. 0 \in S
  <2>1. Sums(0, [i \in 0..0 |-> 0])
    OBVIOUS
  <2> HIDE DEF Sums
  <2>2. QED
    BY <2>1
<1>2. ASSUME NEW n \in S PROVE n + 1 \in S
  <2>1. n \in Nat /\ P(n)
    OBVIOUS
  <2>2. ASSUME n + 1 <= Len(w) PROVE \E f : Sums(n + 1, f)
    <3>1. PICK f : Sums(n, f)
      <4>1. n <= Len(w)
        BY <2>1, <2>2
      <4> HIDE DEF Sums
      <4>2. QED
        BY <2>1, <4>1
    <3> DEFINE g == [i \in 0..(n + 1) |-> IF i <= n THEN f[i] ELSE f[n] + w[n + 1]]
    <3>2. w[n + 1] \in Nat /\ \A i \in 0..n : f[i] \in Nat
      BY <2>1, <2>2, <3>1
    <3>3. g \in [0..(n + 1) -> Nat] /\ g[0] = 0
      <4>1. \A i \in 0..(n + 1) : i <= n => i \in 0..n
        BY <2>1
      <4>2. n \in 0..n /\ 0 \in 0..(n + 1) /\ 0 <= n
        BY <2>1
      <4>3. f[n] + w[n + 1] \in Nat
        BY <3>2, <4>2
      <4>4. \A i \in 0..(n + 1) : (IF i <= n THEN f[i] ELSE f[n] + w[n + 1]) \in Nat
        BY <3>2, <4>1, <4>3, Zenon
      <4>5. g[0] = f[0] /\ f[0] = 0
        BY <3>1, <4>2
      <4>6. QED
        BY <4>4, <4>5
    <3>4. ASSUME NEW i \in 1..(n + 1) PROVE g[i] = g[i - 1] + w[i]
      <4>1. CASE i = n + 1
        <5>1. g[n + 1] = f[n] + w[n + 1] /\ g[n] = f[n] /\ (n + 1) - 1 = n
          BY <2>1
        <5>2. QED
          BY <4>1, <5>1
      <4>2. CASE i \in 1..n
        <5>1. g[i] = f[i] /\ g[i - 1] = f[i - 1]
          BY <2>1, <4>2
        <5>2. QED
          BY <3>1, <4>2, <5>1
      <4>3. QED
        BY <2>1, <4>1, <4>2
    <3>5. Sums(n + 1, g)
      <4> HIDE DEF g
      <4>1. QED
        BY <3>3, <3>4
    <3>6. QED
      BY <3>5, Zenon
  <2> HIDE DEF Sums
  <2>3. P(n + 1) /\ n + 1 \in Nat
    BY <2>1, <2>2
  <2> HIDE DEF P
  <2>4. QED
    BY <2>3
<1> HIDE DEF S
<1>3. Len(w) \in S
  <2>1. S \in SUBSET Nat /\ Len(w) \in Nat
    BY DEF S
  <2>2. QED
    BY <1>1, <1>2, <2>1, Counting, Zenon
<1>4. PICK f \in [0..Len(w) -> Nat] :
        f[0] = 0 /\ \A i \in 1..Len(w) : f[i] = f[i - 1] + w[i]
  <2>1. P(Len(w)) /\ Len(w) <= Len(w)
    BY <1>3 DEF S
  <2>2. QED
    BY <2>1
<1>5. SumOf(w, f)
  <2>1. \A i \in 0..Len(w) : f[i] = IF i = 0 THEN 0 ELSE f[i - 1] + w[i]
    BY <1>4
  <2>2. QED
    BY <2>1 DEF SumOf
<1>6. SumOf(w, CHOOSE g : SumOf(w, g))
  BY <1>5
<1>7. QED
  BY <1>6 DEF Running, SumOf

\* What the proofs use of a running sum.
LEMMA RunningStep ==
  ASSUME NEW w \in Seq(Nat)
  PROVE  /\ Running(w) \in [0..Len(w) -> Nat]
         /\ Running(w)[0] = 0
         /\ \A i \in 1..Len(w) : Running(w)[i] = Running(w)[i - 1] + w[i]
<1> DEFINE f == Running(w)
           S == {n \in Nat : n <= Len(w) => f[n] \in Nat}
<1>1. f = [i \in 0..Len(w) |-> IF i = 0 THEN 0 ELSE f[i - 1] + w[i]]
  BY RunningExists DEF SumOf
<1>2. DOMAIN f = 0..Len(w) /\ \A i \in 0..Len(w) : f[i] = IF i = 0 THEN 0 ELSE f[i - 1] + w[i]
  BY <1>1
<1> HIDE DEF f
<1>3. f[0] = 0
  BY <1>2
<1>4. \A i \in 1..Len(w) : f[i] = f[i - 1] + w[i]
  BY <1>2
<1>5. 0 \in S
  BY <1>3
<1>6. ASSUME NEW n \in S PROVE n + 1 \in S
  <2>1. ASSUME n + 1 <= Len(w) PROVE f[n + 1] \in Nat
    <3>1. n \in Nat /\ n + 1 \in 1..Len(w) /\ (n + 1) - 1 = n /\ f[n] \in Nat
      BY <2>1
    <3>2. w[n + 1] \in Nat
      BY <3>1, Elements, Zenon
    <3>3. f[n + 1] = f[n] + w[n + 1]
      BY <1>4, <3>1
    <3>4. QED
      BY <3>1, <3>2, <3>3
  <2>2. QED
    BY <2>1
<1> HIDE DEF S
<1>7. \A n \in Nat : n \in S
  <2>1. S \in SUBSET Nat
    BY DEF S
  <2>2. QED
    BY <1>5, <1>6, <2>1, Counting, Zenon
<1>8. \A i \in 0..Len(w) : f[i] \in Nat
  BY <1>7 DEF S
<1>9. f \in [0..Len(w) -> Nat]
  BY <1>1, <1>2, <1>8
<1>10. QED
  BY <1>3, <1>4, <1>9 DEF f

LEMMA Compare ==
  ASSUME NEW u \in Seq(Nat), NEW v \in Seq(Nat), NEW a \in Nat, NEW b \in Nat,
         NEW n \in Nat, a + n <= Len(u), b + n <= Len(v),
         \A i \in 1..n : u[a + i] <= v[b + i]
  PROVE  Running(u)[a + n] - Running(u)[a] <= Running(v)[b + n] - Running(v)[b]
<1> DEFINE f == Running(u)
           g == Running(v)
           P(m) == m <= n => f[a + m] - f[a] <= g[b + m] - g[b]
           S == {m \in Nat : P(m)}
<1>1. /\ f \in [0..Len(u) -> Nat] /\ \A i \in 1..Len(u) : f[i] = f[i - 1] + u[i]
      /\ g \in [0..Len(v) -> Nat] /\ \A i \in 1..Len(v) : g[i] = g[i - 1] + v[i]
  BY RunningStep
<1> HIDE DEF f, g
<1>2. Len(u) \in Nat /\ Len(v) \in Nat
  OBVIOUS
<1>3. \A i \in 0..Len(u) : f[i] \in Nat
  BY <1>1
<1>4. \A i \in 0..Len(v) : g[i] \in Nat
  BY <1>1
<1>5. 0 \in S
  <2>1. a \in 0..Len(u) /\ b \in 0..Len(v) /\ a + 0 = a /\ b + 0 = b
    BY <1>2
  <2>2. f[a] \in Nat /\ g[b] \in Nat
    BY <1>3, <1>4, <2>1
  <2>3. QED
    BY <2>1, <2>2
<1>6. ASSUME NEW m \in S PROVE m + 1 \in S
  <2>0. m \in Nat /\ P(m) /\ m + 1 \in Nat
    OBVIOUS
  <2> HIDE DEF S
  <2> SUFFICES ASSUME m + 1 <= n PROVE f[a + (m + 1)] - f[a] <= g[b + (m + 1)] - g[b]
    BY <2>0 DEF S
  <2>1. f[a + m] - f[a] <= g[b + m] - g[b]
    BY <2>0
  <2> HIDE DEF P
  <2>2. a + (m + 1) \in 1..Len(u) /\ b + (m + 1) \in 1..Len(v) /\ m + 1 \in 1..n
    BY <1>2, <2>0
  <2>3. f[a + (m + 1)] = f[a + m] + u[a + (m + 1)] /\ g[b + (m + 1)] = g[b + m] + v[b + (m + 1)]
    <3>1. (a + (m + 1)) - 1 = a + m /\ (b + (m + 1)) - 1 = b + m
      BY <2>0
    <3>2. /\ f[a + (m + 1)] = f[(a + (m + 1)) - 1] + u[a + (m + 1)]
          /\ g[b + (m + 1)] = g[(b + (m + 1)) - 1] + v[b + (m + 1)]
      BY <1>1, <2>2, Zenon
    <3>3. QED
      BY <3>1, <3>2
  <2>4. u[a + (m + 1)] <= v[b + (m + 1)]
    BY <2>2
  <2>5. /\ f[a + m] \in Nat /\ f[a] \in Nat /\ g[b + m] \in Nat /\ g[b] \in Nat
        /\ u[a + (m + 1)] \in Nat /\ v[b + (m + 1)] \in Nat
    <3>1. /\ a + m \in 0..Len(u) /\ a \in 0..Len(u)
          /\ b + m \in 0..Len(v) /\ b \in 0..Len(v)
      BY <1>2, <2>0, <2>2
    <3>2. u[a + (m + 1)] \in Nat /\ v[b + (m + 1)] \in Nat
      <4>1. \A i \in 1..Len(u) : u[i] \in Nat
        OBVIOUS
      <4>2. \A i \in 1..Len(v) : v[i] \in Nat
        OBVIOUS
      <4>3. QED
        BY <2>2, <4>1, <4>2, Zenon
    <3>3. QED
      BY <1>3, <1>4, <3>1, <3>2
  <2>6. \A p, q, r, s, x, y \in Nat :
          p - q <= r - s /\ x <= y => (p + x) - q <= (r + y) - s
    OBVIOUS
  <2>7. QED
    BY <2>1, <2>3, <2>4, <2>5, <2>6, Zenon
<1> HIDE DEF S
<1>7. n \in S
  <2>1. S \in SUBSET Nat
    BY DEF S
  <2>2. QED
    BY <1>5, <1>6, <2>1, Counting, Zenon
<1>8. QED
  <2>1. P(n) /\ n <= n
    BY <1>7 DEF S
  <2>2. QED
    BY <2>1 DEF f, g

\* A running sum grows.
LEMMA RunningGrows ==
  ASSUME NEW w \in Seq(Nat), NEW k \in 0..Len(w)
  PROVE  Running(w)[k] \in Nat /\ Total(w) \in Nat /\ Running(w)[k] <= Total(w)
<1> DEFINE f == Running(w)
           P(n) == k + n <= Len(w) => f[k] <= f[k + n]
           S == {n \in Nat : P(n)}
<1>1. /\ f \in [0..Len(w) -> Nat] /\ \A i \in 1..Len(w) : f[i] = f[i - 1] + w[i]
      /\ k \in Nat /\ Len(w) \in Nat /\ \A i \in 1..Len(w) : w[i] \in Nat
  BY RunningStep
<1> HIDE DEF f
<1>2. \A i \in 0..Len(w) : f[i] \in Nat
  BY <1>1
<1>3. 0 \in S
  BY <1>1, <1>2
<1>4. ASSUME NEW n \in S PROVE n + 1 \in S
  <2>1. n \in Nat /\ P(n)
    OBVIOUS
  <2>2. ASSUME k + (n + 1) <= Len(w) PROVE f[k] <= f[k + (n + 1)]
    <3>1. f[k] <= f[k + n]
      BY <1>1, <2>1, <2>2
    <3>2. k + (n + 1) \in 1..Len(w) /\ (k + (n + 1)) - 1 = k + n /\ k + n \in 0..Len(w)
      BY <1>1, <2>1, <2>2
    <3>3. f[k + (n + 1)] = f[k + n] + w[k + (n + 1)] /\ w[k + (n + 1)] \in Nat
      BY <1>1, <3>2
    <3>4. QED
      BY <1>1, <1>2, <3>1, <3>2, <3>3
  <2>3. P(n + 1) /\ n + 1 \in Nat
    BY <2>1, <2>2
  <2> HIDE DEF P
  <2>4. QED
    BY <2>3
<1> HIDE DEF S
<1>5. Len(w) - k \in S
  <2>1. S \in SUBSET Nat /\ Len(w) - k \in Nat
    BY <1>1 DEF S
  <2>2. QED
    BY <1>3, <1>4, <2>1, Counting, Zenon
<1>6. P(Len(w) - k) /\ k + (Len(w) - k) = Len(w)
  BY <1>1, <1>5 DEF S
<1>7. QED
  BY <1>1, <1>2, <1>6 DEF Total, f

\* Numbers that are 0 add up to 0.
LEMMA RunningZero ==
  ASSUME NEW w \in Seq(Nat), NEW k \in 0..Len(w), \A i \in 1..k : w[i] = 0
  PROVE  Running(w)[k] = 0
<1> DEFINE f == Running(w)
           P(n) == n <= k => f[n] = 0
           S == {n \in Nat : P(n)}
<1>1. /\ f \in [0..Len(w) -> Nat] /\ \A i \in 1..Len(w) : f[i] = f[i - 1] + w[i]
      /\ k \in Nat /\ Len(w) \in Nat /\ k <= Len(w) /\ f[0] = 0
  BY RunningStep
<1> HIDE DEF f
<1>2. 0 \in S
  BY <1>1
<1>3. ASSUME NEW n \in S PROVE n + 1 \in S
  <2>1. n \in Nat /\ P(n)
    OBVIOUS
  <2>2. ASSUME n + 1 <= k PROVE f[n + 1] = 0
    <3>1. n + 1 \in 1..Len(w) /\ n + 1 \in 1..k /\ (n + 1) - 1 = n /\ f[n] = 0
      BY <1>1, <2>1, <2>2
    <3>2. f[n + 1] = f[n] + w[n + 1] /\ w[n + 1] = 0
      BY <1>1, <3>1
    <3>3. QED
      BY <3>1, <3>2
  <2>3. P(n + 1) /\ n + 1 \in Nat
    BY <2>1, <2>2
  <2> HIDE DEF P
  <2>4. QED
    BY <2>3
<1> HIDE DEF S
<1>4. k \in S
  <2>1. S \in SUBSET Nat
    BY DEF S
  <2>2. QED
    BY <1>1, <1>2, <1>3, <2>1, Counting, Zenon
<1>5. P(k) /\ k <= k
  BY <1>1, <1>4 DEF S
<1>6. QED
  BY <1>5 DEF f

LEMMA TotalGrows ==
  ASSUME NEW u \in Seq(Nat), NEW v \in Seq(Nat), Len(u) = Len(v),
         \A i \in 1..Len(u) : u[i] <= v[i]
  PROVE  Total(u) <= Total(v)
<1>1. Len(u) \in Nat /\ 0 + Len(u) = Len(u) /\ \A i \in 1..Len(u) : 0 + i = i
  OBVIOUS
<1>2. Running(u)[0 + Len(u)] - Running(u)[0] <= Running(v)[0 + Len(u)] - Running(v)[0]
  <2>1. \A i \in 1..Len(u) : u[0 + i] <= v[0 + i]
    BY <1>1
  <2>2. 0 \in Nat /\ 0 + Len(u) <= Len(u) /\ 0 + Len(u) <= Len(v)
    BY <1>1
  <2>3. QED
    BY <1>1, <2>1, <2>2, Compare, Zenon
<1>3. Running(u)[0] = 0 /\ Running(v)[0] = 0
  BY RunningStep
<1>4. Total(u) \in Nat /\ Total(v) \in Nat
  BY <1>1, RunningGrows
<1>5. QED
  BY <1>1, <1>2, <1>3, <1>4 DEF Total

\* What is left of a sum when the first numbers are dropped.
LEMMA TotalSuffix ==
  ASSUME NEW w \in Seq(Nat), NEW k \in 1..(Len(w) + 1),
         NEW u \in Seq(Nat), Len(u) = Len(w) - (k - 1),
         \A i \in 1..Len(u) : u[i] = w[(k - 1) + i]
  PROVE  Total(u) = Total(w) - Running(w)[k - 1]
<1> DEFINE n == Len(w) - (k - 1)
<1>1. n \in Nat /\ k \in Nat /\ k - 1 \in Nat /\ Len(w) \in Nat /\ (k - 1) + n = Len(w)
  OBVIOUS
<1>2. u \in Seq(Nat) /\ Len(u) = n /\ \A i \in 1..n : u[0 + i] = w[(k - 1) + i]
  <2>1. \A i \in 1..n : 0 + i = i
    BY <1>1
  <2>2. QED
    BY <2>1
<1> HIDE DEF n
<1>3. \A i \in 1..n : u[0 + i] \in Nat /\ w[(k - 1) + i] \in Nat
  <2>1. \A i \in 1..n : 0 + i \in 1..Len(u) /\ (k - 1) + i \in 1..Len(w)
    BY <1>1, <1>2
  <2>2. \A i \in 1..Len(w) : w[i] \in Nat
    BY Elements, Zenon
  <2>3. \A i \in 1..Len(u) : u[i] \in Nat
    BY <1>2, Elements, Zenon
  <2>4. QED
    BY <2>1, <2>2, <2>3, Zenon
<1>4. 0 \in Nat /\ 0 + n <= Len(u) /\ (k - 1) + n <= Len(w) /\ 0 + n = n
  BY <1>1, <1>2
<1>5. \A i \in 1..n : u[0 + i] <= w[(k - 1) + i] /\ w[(k - 1) + i] <= u[0 + i]
  <2>1. \A p, q \in Nat : p = q => p <= q /\ q <= p
    OBVIOUS
  <2>2. QED
    BY <1>2, <1>3, <2>1, Zenon
<1>6. Running(u)[0 + n] - Running(u)[0] <= Running(w)[(k - 1) + n] - Running(w)[k - 1]
  BY <1>1, <1>2, <1>4, <1>5, Compare, Zenon
<1>7. Running(w)[(k - 1) + n] - Running(w)[k - 1] <= Running(u)[0 + n] - Running(u)[0]
  BY <1>1, <1>2, <1>4, <1>5, Compare, Zenon
<1>8. Running(u)[0] = 0
  BY <1>2, RunningStep
<1>9. Running(w)[k - 1] \in Nat /\ Total(w) \in Nat
  <2>1. k - 1 \in 0..Len(w)
    BY <1>1
  <2>2. QED
    BY <2>1, RunningGrows
<1>10. Total(u) \in Nat
  <2>1. 0 \in 0..Len(u)
    BY <1>1, <1>2
  <2>2. QED
    BY <1>2, <2>1, RunningGrows
<1>11. Total(u) = Running(u)[0 + n] /\ Total(w) = Running(w)[(k - 1) + n]
  BY <1>1, <1>2, <1>4 DEF Total
<1>12. \A p, q, x, y \in Nat : p - 0 <= x - y /\ x - y <= p - 0 => p = x - y
  OBVIOUS
<1>13. QED
  BY <1>6, <1>7, <1>8, <1>9, <1>10, <1>11, <1>12, Zenon

\* The last number, and the two first ones as one.
LEMMA TotalAppend ==
  ASSUME NEW w \in Seq(Nat), NEW x \in Nat,
         NEW u \in Seq(Nat), Len(u) = Len(w) + 1, u[Len(w) + 1] = x,
         \A i \in 1..Len(w) : u[i] = w[i]
  PROVE  Total(u) = Total(w) + x
<1> DEFINE n == Len(w)
<1>1. u \in Seq(Nat) /\ Len(u) = n + 1 /\ u[n + 1] = x /\ n \in Nat
  OBVIOUS
<1>2. \A i \in 1..n : u[0 + i] = w[0 + i] /\ w[0 + i] \in Nat
  <2>1. \A i \in 1..n : u[i] = w[i] /\ w[i] \in Nat /\ 0 + i = i
    OBVIOUS
  <2>2. QED
    BY <2>1
<1>3. 0 \in Nat /\ 0 + n <= Len(u) /\ 0 + n <= Len(w) /\ 0 + n = n
  BY <1>1
<1>4. \A i \in 1..n : u[0 + i] <= w[0 + i] /\ w[0 + i] <= u[0 + i]
  BY <1>2
<1>5. Running(u)[0 + n] - Running(u)[0] <= Running(w)[0 + n] - Running(w)[0]
  BY <1>1, <1>3, <1>4, Compare, Zenon
<1>6. Running(w)[0 + n] - Running(w)[0] <= Running(u)[0 + n] - Running(u)[0]
  BY <1>1, <1>3, <1>4, Compare, Zenon
<1>7. Running(u)[0] = 0 /\ Running(w)[0] = 0
  BY <1>1, RunningStep
<1>8. Running(u)[n] \in Nat /\ Running(w)[n] \in Nat
  <2>1. n \in 0..Len(u) /\ n \in 0..Len(w)
    BY <1>1
  <2>2. QED
    BY <1>1, <2>1, RunningGrows
<1>9. Running(u)[n] = Running(w)[n]
  BY <1>3, <1>5, <1>6, <1>7, <1>8
<1>10. Running(u)[n + 1] = Running(u)[n] + x
  <2>1. n + 1 \in 1..Len(u) /\ (n + 1) - 1 = n
    BY <1>1
  <2>2. Running(u)[n + 1] = Running(u)[(n + 1) - 1] + u[n + 1]
    BY <1>1, <2>1, RunningStep
  <2>3. QED
    BY <1>1, <2>1, <2>2
<1>11. QED
  BY <1>1, <1>9, <1>10 DEF Total

LEMMA TotalMerged ==
  ASSUME NEW w \in Seq(Nat), Len(w) >= 2,
         NEW u \in Seq(Nat), Len(u) = Len(w) - 1, u[1] = w[1] + w[2],
         \A i \in 2..Len(u) : u[i] = w[i + 1]
  PROVE  Total(u) = Total(w)
<1> DEFINE n == Len(w) - 2
<1>1. n \in Nat /\ 1 + n = Len(u) /\ 2 + n = Len(w) /\ 1 \in Nat /\ 2 \in Nat
  OBVIOUS
<1>2. \A i \in 1..n : u[1 + i] = w[2 + i] /\ w[2 + i] \in Nat
  <2>1. \A i \in 1..n : 1 + i \in 2..Len(u) /\ (1 + i) + 1 = 2 + i /\ 2 + i \in 1..Len(w)
    BY <1>1
  <2>2. \A i \in 1..Len(w) : w[i] \in Nat
    BY Elements, Zenon
  <2>3. QED
    BY <2>1, <2>2
<1>3. \A i \in 1..n : u[1 + i] <= w[2 + i] /\ w[2 + i] <= u[1 + i]
  <2>1. \A p, q \in Nat : p = q => p <= q /\ q <= p
    OBVIOUS
  <2>2. QED
    BY <1>2, <2>1, Zenon
<1>4. 1 + n <= Len(u) /\ 2 + n <= Len(w)
  BY <1>1
<1> HIDE DEF n
<1>5. Running(u)[1 + n] - Running(u)[1] <= Running(w)[2 + n] - Running(w)[2]
  BY <1>1, <1>3, <1>4, Compare, Zenon
<1>6. Running(w)[2 + n] - Running(w)[2] <= Running(u)[1 + n] - Running(u)[1]
  BY <1>1, <1>3, <1>4, Compare, Zenon
<1>7. Running(u)[1] = w[1] + w[2]
  <2>1. 1 \in 1..Len(u) /\ 1 - 1 = 0
    BY <1>1
  <2>2. Running(u)[1] = Running(u)[0] + u[1] /\ Running(u)[0] = 0
    BY <2>1, RunningStep
  <2>3. w[1] \in Nat /\ w[2] \in Nat
    OBVIOUS
  <2>4. QED
    BY <2>2, <2>3
<1>8. Running(w)[2] = w[1] + w[2]
  <2>1. 1 \in 1..Len(w) /\ 2 \in 1..Len(w) /\ 1 - 1 = 0 /\ 2 - 1 = 1
    BY <1>1
  <2>2. /\ Running(w)[1] = Running(w)[0] + w[1] /\ Running(w)[0] = 0
        /\ Running(w)[2] = Running(w)[1] + w[2]
    BY <2>1, RunningStep
  <2>3. w[1] \in Nat /\ w[2] \in Nat
    OBVIOUS
  <2>4. QED
    BY <2>2, <2>3
<1>9. Total(u) \in Nat /\ Total(w) \in Nat /\ Running(w)[2] \in Nat
  <2>1. 0 \in 0..Len(u) /\ 2 \in 0..Len(w)
    BY <1>1
  <2>2. QED
    BY <2>1, RunningGrows
<1>10. Total(u) = Running(u)[1 + n] /\ Total(w) = Running(w)[2 + n]
  BY <1>1 DEF Total
<1>11. PICK a, b, c :
          a = Running(u)[1 + n] /\ b = Running(w)[2 + n] /\ c = Running(w)[2]
  OBVIOUS
<1>12. a \in Nat /\ b \in Nat /\ c \in Nat /\ a - c <= b - c /\ b - c <= a - c
  BY <1>5, <1>6, <1>7, <1>8, <1>9, <1>10, <1>11, Zenon
<1>13. a = b
  BY <1>12
<1>14. QED
  BY <1>10, <1>11, <1>13, Zenon

----------------------------------------------------------------------------
(***************************************************************************)
(* The wrapped counter.  A signed difference of counter values never tells *)
(* a time less than it is unless that is half a period away, nor more.     *)
(***************************************************************************)
LEMMA WrapFacts ==
  /\ Wrap \in Nat \ {0} /\ Window \in Nat \ {0} /\ Ratio \in Nat \ {0}
  /\ Budget \in Nat /\ Overrun \in Nat /\ Slots \in Nat /\ Slots >= 2
  /\ \A toa \in FrameToa : toa \in Nat /\ toa > 0
  /\ IdentToa \in Nat /\ IdentToa > 0
  /\ Wrap \div 2 \in Nat /\ 2 * (Wrap \div 2) <= Wrap /\ Wrap <= 2 * (Wrap \div 2) + 1
<1>1. Wrap \in Nat \ {0} /\ Window \in Nat \ {0} /\ Ratio \in Nat \ {0}
  BY GovernorAssumption DEF GovernorAssumption
<1>2. Budget \in Nat
  BY <1>1, Division DEF Budget
<1>3. Wrap \div 2 \in Nat /\ 2 * (Wrap \div 2) <= Wrap /\ Wrap <= 2 * (Wrap \div 2) + 1
  <2>1. 2 \in Nat \ {0} /\ Wrap \in Nat
    BY <1>1
  <2>2. Wrap \div 2 \in Nat /\ Wrap % 2 \in 0..1 /\ Wrap = 2 * (Wrap \div 2) + (Wrap % 2)
    BY <2>1
  <2>3. QED
    BY <2>1, <2>2
<1>4. QED
  BY <1>1, <1>2, <1>3, GovernorAssumption DEF GovernorAssumption

LEMMA Residue ==
  ASSUME NEW a \in Int
  PROVE  a % Wrap \in 0..(Wrap - 1) /\ \E k \in Int : a = k * Wrap + (a % Wrap)
<1>1. Wrap \in Nat \ {0}
  BY WrapFacts
<1> HIDE DEF Delta
<1>2. a % Wrap \in 0..(Wrap - 1)
  BY <1>1
<1>3. a \div Wrap \in Int /\ a = (a \div Wrap) * Wrap + (a % Wrap)
  BY <1>1
<1>4. QED
  BY <1>2, <1>3

LEMMA PaceFacts ==
  IdentEvery \in Nat /\ IdentEvery > 0 /\ MaxIdle \in Nat
<1>1. QED
  BY GovernorAssumption DEF GovernorAssumption

LEMMA MillisType ==
  ASSUME NEW t \in Int, epoch \in Int
  PROVE  Millis(t) \in 0..(Wrap - 1)
<1>1. t - epoch \in Int
  OBVIOUS
<1>2. QED
  BY <1>1, Residue DEF Millis

LEMMA DeltaOf ==
  ASSUME NEW p \in Int, NEW q \in Int, NEW t \in Int, NEW k \in Int,
         p - q = t + k * Wrap
  PROVE  /\ Delta(p, q) \in Int
         /\ t < Wrap \div 2 => Delta(p, q) >= t
         /\ t >= -(Wrap \div 2) => Delta(p, q) <= t
<1> DEFINE h == Wrap \div 2
           d == (p - q) % Wrap
           r == Delta(p, q)
<1>1. Wrap \in Nat \ {0} /\ h \in Nat /\ 2 * h <= Wrap
  BY WrapFacts
<1>2. d \in 0..(Wrap - 1) /\ \E j \in Int : p - q = j * Wrap + d
  <2>1. p - q \in Int
    OBVIOUS
  <2>2. QED
    BY <2>1, Residue, Zenon
<1>3. PICK j \in Int : p - q = j * Wrap + d
  BY <1>2
<1>4. r = IF d < h THEN d ELSE d - Wrap
  BY DEF Delta
<1> HIDE DEF d, h, r
<1>5. d \in Int /\ 0 <= d /\ d < Wrap
  BY <1>1, <1>2
<1>6. PICK m \in Int : r = t + m * Wrap /\ -(Wrap - h) <= r /\ r < h
  <2>1. t + k * Wrap = j * Wrap + d
    BY <1>3
  <2>2. d = t + (k - j) * Wrap
    <3>1. (k - j) * Wrap = k * Wrap - j * Wrap
      BY <1>1
    <3>2. k * Wrap \in Int /\ j * Wrap \in Int
      BY <1>1
    <3>3. QED
      BY <1>5, <2>1, <3>1, <3>2
  <2>3. CASE d < h
    BY <1>1, <1>4, <1>5, <2>2, <2>3
  <2>4. CASE ~(d < h)
    <3>1. d - Wrap = t + (k - j - 1) * Wrap
      <4>1. (k - j - 1) * Wrap = (k - j) * Wrap - Wrap /\ (k - j) * Wrap \in Int
        BY <1>1
      <4>2. QED
        BY <1>1, <1>5, <2>2, <4>1
    <3>2. r = d - Wrap /\ -(Wrap - h) <= r /\ r < h
      BY <1>1, <1>4, <1>5, <2>4
    <3>3. QED
      BY <3>1, <3>2
  <2>5. QED
    BY <2>3, <2>4
<1>7. m >= 0 => m * Wrap >= 0
  BY <1>1
<1>8. m <= -1 => m * Wrap <= -Wrap
  BY <1>1
<1>9. m <= 0 => m * Wrap <= 0
  BY <1>1
<1>10. m >= 1 => m * Wrap >= Wrap
  BY <1>1
<1>11. m * Wrap \in Int /\ r \in Int
  BY <1>1, <1>6
<1>12. t < h => r >= t
  BY <1>1, <1>6, <1>7, <1>8, <1>11
<1>13. t >= -h => r <= t
  BY <1>1, <1>6, <1>9, <1>10, <1>11
<1>14. QED
  BY <1>11, <1>12, <1>13 DEF h, r

LEMMA DeltaStamps ==
  ASSUME NEW a \in Int, NEW b \in Int, epoch \in Int
  PROVE  /\ Delta(Millis(a), Millis(b)) \in Int
         /\ a - b < Wrap \div 2 => Delta(Millis(a), Millis(b)) >= a - b
         /\ a - b >= -(Wrap \div 2) => Delta(Millis(a), Millis(b)) <= a - b
<1>1. Wrap \in Nat \ {0}
  BY WrapFacts
<1>2. PICK i \in Int : a - epoch = i * Wrap + Millis(a)
  <2>1. a - epoch \in Int
    OBVIOUS
  <2>2. QED
    BY <2>1, Residue, Zenon DEF Millis
<1>3. PICK j \in Int : b - epoch = j * Wrap + Millis(b)
  <2>1. b - epoch \in Int
    OBVIOUS
  <2>2. QED
    BY <2>1, Residue, Zenon DEF Millis
<1>4. Millis(a) \in Int /\ Millis(b) \in Int
  BY <1>1, MillisType
<1>5. (j - i) * Wrap = j * Wrap - i * Wrap /\ j * Wrap \in Int /\ i * Wrap \in Int
  BY <1>1
<1>6. Millis(a) - Millis(b) = (a - b) + (j - i) * Wrap
  BY <1>2, <1>3, <1>4, <1>5
<1>7. a - b \in Int /\ j - i \in Int
  OBVIOUS
<1>8. QED
  BY <1>4, <1>6, <1>7, DeltaOf, Zenon

\* The stamp of a time a window later.
LEMMA DeltaAfter ==
  ASSUME NEW a \in Int, NEW b \in Int, epoch \in Int, NEW w \in Int
  PROVE  /\ Delta((Millis(a) + w) % Wrap, Millis(b)) \in Int
         /\ a + w - b < Wrap \div 2 =>
              Delta((Millis(a) + w) % Wrap, Millis(b)) >= a + w - b
         /\ a + w - b >= -(Wrap \div 2) =>
              Delta((Millis(a) + w) % Wrap, Millis(b)) <= a + w - b
<1>1. Wrap \in Nat \ {0}
  BY WrapFacts
<1>2. PICK i \in Int : a - epoch = i * Wrap + Millis(a)
  <2>1. a - epoch \in Int
    OBVIOUS
  <2>2. QED
    BY <2>1, Residue, Zenon DEF Millis
<1>3. PICK j \in Int : b - epoch = j * Wrap + Millis(b)
  <2>1. b - epoch \in Int
    OBVIOUS
  <2>2. QED
    BY <2>1, Residue, Zenon DEF Millis
<1>4. Millis(a) \in Int /\ Millis(b) \in Int
  BY <1>1, MillisType
<1> DEFINE s == Millis(a) + w
           p == s % Wrap
<1>5. s \in Int
  BY <1>4
<1>6. PICK k \in Int : s = k * Wrap + p
  BY <1>5, Residue, Zenon
<1>7. p \in Int
  BY <1>1, <1>5, Residue
<1> HIDE DEF p
<1>8. /\ ((j - i) - k) * Wrap = j * Wrap - i * Wrap - k * Wrap
      /\ j * Wrap \in Int /\ i * Wrap \in Int /\ k * Wrap \in Int
  BY <1>1
<1>9. p - Millis(b) = (a + w - b) + ((j - i) - k) * Wrap
  BY <1>2, <1>3, <1>4, <1>6, <1>7, <1>8
<1>10. a + w - b \in Int /\ (j - i) - k \in Int
  OBVIOUS
<1>11. /\ Delta(p, Millis(b)) \in Int
       /\ a + w - b < Wrap \div 2 => Delta(p, Millis(b)) >= a + w - b
       /\ a + w - b >= -(Wrap \div 2) => Delta(p, Millis(b)) <= a + w - b
  BY <1>4, <1>7, <1>9, <1>10, DeltaOf, Zenon
<1>12. QED
  BY <1>11 DEF p

----------------------------------------------------------------------------
(***************************************************************************)
(* The operators of the governor.                                          *)
(***************************************************************************)
LEMMA LeastOf ==
  ASSUME NEW S \in SUBSET Int, S # {}, IsFiniteSet(S)
  PROVE  Min(S) \in S /\ \A y \in S : Min(S) <= y
<1>1. \E x \in S : \A y \in S : x <= y
  BY HasMinimum
<1>2. QED
  BY <1>1 DEF Min

LEMMA GreaterOf ==
  ASSUME NEW a \in Int, NEW b \in Int
  PROVE  Max({a, b}) \in {a, b} /\ Max({a, b}) >= a /\ Max({a, b}) >= b
<1>1. \E x \in {a, b} : \A y \in {a, b} : x >= y
  <2>1. CASE a >= b
    BY <2>1
  <2>2. CASE ~(a >= b)
    BY <2>2
  <2>3. QED
    BY <2>1, <2>2
<1>2. Max({a, b}) \in {a, b} /\ \A y \in {a, b} : Max({a, b}) >= y
  BY <1>1 DEF Max
<1>3. QED
  BY <1>2

LEMMA LesserOf ==
  ASSUME NEW a \in Int, NEW b \in Int
  PROVE  Min({a, b}) \in {a, b} /\ Min({a, b}) <= a /\ Min({a, b}) <= b
<1>1. \E x \in {a, b} : \A y \in {a, b} : x <= y
  <2>1. CASE a <= b
    BY <2>1
  <2>2. CASE ~(a <= b)
    BY <2>2
  <2>3. QED
    BY <2>1, <2>2
<1>2. Min({a, b}) \in {a, b} /\ \A y \in {a, b} : Min({a, b}) <= y
  BY <1>1 DEF Min
<1>3. QED
  BY <1>2

\* The rest of a sequence from a place on.
LEMMA Rest ==
  ASSUME NEW S, NEW r \in Seq(S), NEW k \in 1..(Len(r) + 1)
  PROVE  /\ SubSeq(r, k, Len(r)) \in Seq(S)
         /\ Len(SubSeq(r, k, Len(r))) = Len(r) - (k - 1)
         /\ \A j \in 1..(Len(r) - (k - 1)) :
              SubSeq(r, k, Len(r))[j] = r[(k - 1) + j] /\ (k - 1) + j \in 1..Len(r)
<1>1. k \in Nat /\ Len(r) \in Nat
  OBVIOUS
<1>2. SubSeq(r, k, Len(r)) \in Seq(S) /\ Len(SubSeq(r, k, Len(r))) = Len(r) - (k - 1)
  BY <1>1
<1>3. \A j \in 1..(Len(r) - (k - 1)) : (k - 1) + j \in 1..Len(r)
  BY <1>1
<1>4. \A j \in 1..(Len(r) - (k - 1)) : SubSeq(r, k, Len(r))[j] = r[(k - 1) + j]
  BY <1>1
<1>5. QED
  BY <1>2, <1>3, <1>4

\* prune() drops slots from the head, and only those out of the window.
LEMMA PruneDrops ==
  ASSUME NEW r \in Seq(Slot), NEW ms \in Int,
         \A j \in 1..Len(r) : Delta(ms, r[j].end) \in Int
  PROVE  \E k \in 1..(Len(r) + 1) :
           /\ Prune(r, ms) = SubSeq(r, k, Len(r))
           /\ \A j \in 1..(k - 1) : Delta(ms, r[j].end) >= Window
<1> DEFINE young == {i \in DOMAIN r : Delta(ms, r[i].end) < Window}
           S == young \cup {Len(r) + 1}
           k == Min(S)
<1>1. Len(r) \in Nat /\ DOMAIN r = 1..Len(r)
  BY Elements
<1>2. S \in SUBSET (1..(Len(r) + 1)) /\ Len(r) + 1 \in S
  BY <1>1
<1>3. IsFiniteSet(S)
  <2>1. IsFiniteSet(1..(Len(r) + 1))
    BY <1>1, FS_Interval
  <2>2. QED
    BY <1>2, <2>1, FS_Subset, Zenon
<1>4. S \in SUBSET Int /\ S # {}
  BY <1>1, <1>2
<1> HIDE DEF S
<1>5. k \in S /\ \A y \in S : k <= y
  BY <1>3, <1>4, LeastOf
<1>6. k \in 1..(Len(r) + 1)
  BY <1>2, <1>5
<1> HIDE DEF k
<1>7. ASSUME NEW j \in 1..(k - 1) PROVE Delta(ms, r[j].end) >= Window
  <2>1. j \in 1..Len(r) /\ ~(k <= j)
    BY <1>1, <1>6
  <2>2. j \notin S
    BY <1>5, <2>1
  <2>3. ~(Delta(ms, r[j].end) < Window)
    BY <1>1, <2>1, <2>2 DEF S
  <2>4. Delta(ms, r[j].end) \in Int /\ Window \in Int
    BY <2>1, WrapFacts
  <2>5. QED
    BY <2>3, <2>4
<1>8. Prune(r, ms) = SubSeq(r, k, Len(r))
  BY DEF Prune, k, S
<1>9. QED
  BY <1>6, <1>7, <1>8

(***************************************************************************)
(* The ring in real time: E holds the times its slots really end at, and   *)
(* Counted(r, E, T) the airtime it counts as still in the window that      *)
(* begins at T.                                                            *)
(***************************************************************************)
Stamped(r, E) == Len(E) = Len(r) /\ \A j \in 1..Len(r) : r[j].end = Millis(E[j])
Counted(r, E, T) == [j \in DOMAIN r |-> IF E[j] > T THEN r[j].toa ELSE 0]

LEMMA SlotFields ==
  ASSUME NEW r \in Seq(Slot)
  PROVE  /\ Len(r) \in Nat /\ DOMAIN r = 1..Len(r)
         /\ \A j \in 1..Len(r) : /\ r[j] \in Slot /\ r[j].end \in 0..(Wrap - 1)
                                 /\ r[j].toa \in Nat /\ r[j].toa > 0
<1>1. Len(r) \in Nat /\ DOMAIN r = 1..Len(r) /\ \A j \in 1..Len(r) : r[j] \in Slot
  BY Elements, Zenon
<1>2. \A s \in Slot : s.end \in 0..(Wrap - 1) /\ s.toa \in Nat /\ s.toa > 0
  BY DEF Slot
<1>3. QED
  BY <1>1, <1>2, Zenon

LEMMA CountedType ==
  ASSUME NEW r \in Seq(Slot), NEW E \in Seq(Int), Len(E) = Len(r), NEW T \in Int
  PROVE  /\ Counted(r, E, T) \in Seq(Nat) /\ Len(Counted(r, E, T)) = Len(r)
         /\ Toas(r) \in Seq(Nat) /\ Len(Toas(r)) = Len(r)
         /\ \A j \in 1..Len(r) :
              /\ Counted(r, E, T)[j] = IF E[j] > T THEN r[j].toa ELSE 0
              /\ Toas(r)[j] = r[j].toa /\ Counted(r, E, T)[j] <= Toas(r)[j]
<1> DEFINE n == Len(r)
           c == [j \in 1..n |-> IF E[j] > T THEN r[j].toa ELSE 0]
           t == [j \in 1..n |-> r[j].toa]
<1>1. n \in Nat /\ DOMAIN r = 1..n /\ \A j \in 1..n : r[j].toa \in Nat
  BY SlotFields, Zenon
<1>2. Counted(r, E, T) = c /\ Toas(r) = t
  BY <1>1 DEF Counted, Toas
<1> HIDE DEF n
<1>3. \A j \in 1..n : c[j] \in Nat /\ t[j] \in Nat /\ c[j] <= t[j]
  BY <1>1
<1>4. c \in [1..n -> Nat] /\ t \in [1..n -> Nat]
  BY <1>1
<1>5. \A f \in [1..n -> Nat] : f \in Seq(Nat) /\ Len(f) = n
  BY <1>1
<1>6. c \in Seq(Nat) /\ t \in Seq(Nat) /\ Len(c) = n /\ Len(t) = n
  BY <1>4, <1>5, Zenon
<1>7. \A j \in 1..n : c[j] = (IF E[j] > T THEN r[j].toa ELSE 0) /\ t[j] = r[j].toa
  OBVIOUS
<1> HIDE DEF c, t
<1>8. QED
  BY <1>2, <1>3, <1>6, <1>7 DEF n

\* Slots dropped from the head that the window no longer counts: nothing is
\* forgotten.
LEMMA CountedRest ==
  ASSUME NEW r \in Seq(Slot), NEW E \in Seq(Int), Len(E) = Len(r), NEW T \in Int,
         NEW k \in 1..(Len(r) + 1), \A j \in 1..(k - 1) : E[j] <= T
  PROVE  Total(Counted(SubSeq(r, k, Len(r)), SubSeq(E, k, Len(E)), T))
           = Total(Counted(r, E, T))
<1> DEFINE q == SubSeq(r, k, Len(r))
           F == SubSeq(E, k, Len(E))
           w == Counted(r, E, T)
           u == Counted(q, F, T)
           m == Len(r) - (k - 1)
<1>1. Len(r) \in Nat /\ k \in Nat /\ k - 1 \in Nat /\ m \in Nat
  BY SlotFields
<1>2. q \in Seq(Slot) /\ Len(q) = m
      /\ \A j \in 1..m : q[j] = r[(k - 1) + j] /\ (k - 1) + j \in 1..Len(r)
  BY Rest
<1>3. F \in Seq(Int) /\ Len(F) = m /\ \A j \in 1..m : F[j] = E[(k - 1) + j]
  BY Rest
<1> HIDE DEF q, F
<1>4. /\ w \in Seq(Nat) /\ Len(w) = Len(r)
      /\ \A j \in 1..Len(r) : w[j] = IF E[j] > T THEN r[j].toa ELSE 0
  BY CountedType
<1>5. /\ u \in Seq(Nat) /\ Len(u) = m
      /\ \A j \in 1..m : u[j] = IF F[j] > T THEN q[j].toa ELSE 0
  <2>1. Len(F) = Len(q)
    BY <1>2, <1>3
  <2>2. /\ u \in Seq(Nat) /\ Len(u) = Len(q)
        /\ \A j \in 1..Len(q) : u[j] = IF F[j] > T THEN q[j].toa ELSE 0
    BY <1>2, <1>3, <2>1, CountedType, Zenon
  <2>3. QED
    BY <1>2, <2>2
<1> HIDE DEF w, u
<1>6. \A j \in 1..Len(u) : u[j] = w[(k - 1) + j]
  BY <1>2, <1>3, <1>4, <1>5
<1>7. Total(u) = Total(w) - Running(w)[k - 1]
  BY <1>4, <1>5, <1>6, TotalSuffix
<1>8. Running(w)[k - 1] = 0
  <2>1. \A j \in 1..(k - 1) : w[j] = 0
    <3>1. \A j \in 1..(k - 1) : j \in 1..Len(r) /\ E[j] \in Int /\ ~(E[j] > T)
      BY <1>1
    <3>2. QED
      BY <1>4, <3>1
  <2>2. k - 1 \in 0..Len(w)
    BY <1>1, <1>4
  <2>3. QED
    BY <1>4, <2>1, <2>2, RunningZero
<1>9. Total(w) \in Nat
  <2>1. 0 \in 0..Len(w)
    BY <1>1, <1>4
  <2>2. QED
    BY <1>4, <2>1, RunningGrows
<1>10. QED
  BY <1>7, <1>8, <1>9 DEF u, w, q, F

\* What prune() drops has really left the window, whatever the age of the
\* stamps: a wrap only makes a slot stay.
LEMMA PruneSafe ==
  ASSUME NEW r \in Seq(Slot), NEW E \in Seq(Int), Stamped(r, E),
         epoch \in Int, NEW t \in Int,
         \A j \in 1..Len(r) : E[j] - t <= Wrap \div 2
  PROVE  \E k \in 1..(Len(r) + 1) :
           /\ Prune(r, Millis(t)) = SubSeq(r, k, Len(r))
           /\ \A j \in 1..(k - 1) : E[j] <= t - Window
<1>1. Len(r) \in Nat /\ Len(E) = Len(r) /\ \A j \in 1..Len(r) : r[j].end = Millis(E[j])
  BY SlotFields DEF Stamped
<1>2. \A j \in 1..Len(r) : E[j] \in Int
  BY <1>1
<1>3. Window \in Int /\ Wrap \div 2 \in Int
  BY WrapFacts
<1>4. \A j \in 1..Len(r) : /\ Delta(Millis(t), r[j].end) \in Int
                           /\ Delta(Millis(t), r[j].end) <= t - E[j]
  <2> SUFFICES ASSUME NEW j \in 1..Len(r)
               PROVE  /\ Delta(Millis(t), Millis(E[j])) \in Int
                      /\ Delta(Millis(t), Millis(E[j])) <= t - E[j]
    BY <1>1
  <2>1. E[j] \in Int /\ E[j] - t <= Wrap \div 2
    BY <1>2
  <2>2. t - E[j] >= -(Wrap \div 2)
    BY <1>3, <2>1
  <2>3. QED
    BY <2>1, <2>2, DeltaStamps
<1>5. Millis(t) \in Int
  BY MillisType, WrapFacts
<1>6. PICK k \in 1..(Len(r) + 1) :
        /\ Prune(r, Millis(t)) = SubSeq(r, k, Len(r))
        /\ \A j \in 1..(k - 1) : Delta(Millis(t), r[j].end) >= Window
  BY <1>4, <1>5, PruneDrops
<1>7. ASSUME NEW j \in 1..(k - 1) PROVE E[j] <= t - Window
  <2>1. j \in 1..Len(r)
    BY <1>1
  <2>2. /\ Delta(Millis(t), r[j].end) >= Window
        /\ Delta(Millis(t), r[j].end) <= t - E[j] /\ Delta(Millis(t), r[j].end) \in Int
    BY <1>4, <1>6, <2>1
  <2>3. E[j] \in Int /\ Window \in Int /\ t \in Int
    BY <1>2, <1>3, <2>1
  <2> DEFINE x == Delta(Millis(t), r[j].end)
  <2> HIDE DEF x
  <2>4. x \in Int /\ x >= Window /\ x <= t - E[j]
    BY <2>2 DEF x
  <2>5. QED
    BY <2>3, <2>4
<1>8. QED
  BY <1>6, <1>7

(***************************************************************************)
(* The wait.  Frames fit the budget (src/src/loraitp.h caps them at two    *)
(* seconds, the least budget of the region table is 3.6), and the counter  *)
(* is long enough that two windows and the off-time of an overrun are less *)
(* than half of it.                                                        *)
(***************************************************************************)
FramesFit == \A toa \in FrameToa : toa <= Budget
ClockFits == 2 * (2 * Window + Ratio * Overrun + 1) <= Wrap

LEMMA DeltaType ==
  ASSUME NEW p \in Int, NEW q \in Int
  PROVE  Delta(p, q) \in Int
<1>1. p - q \in Int /\ 0 \in Int /\ p - q = (p - q) + 0 * Wrap
  BY WrapFacts
<1>2. QED
  BY <1>1, DeltaOf, Zenon

LEMMA AirtimeType ==
  ASSUME NEW r \in Seq(Slot)
  PROVE  /\ Toas(r) \in Seq(Nat) /\ Len(Toas(r)) = Len(r) /\ Airtime(r) \in Nat
         /\ \A j \in 1..Len(r) : Toas(r)[j] = r[j].toa
         /\ \A j \in 0..Len(r) : Running(Toas(r))[j] \in Nat
<1> DEFINE E == [j \in 1..Len(r) |-> 0]
<1>1. Len(r) \in Nat
  BY SlotFields
<1>2. E \in Seq(Int) /\ Len(E) = Len(r) /\ 0 \in Int
  BY <1>1
<1> HIDE DEF E
<1>3. /\ Toas(r) \in Seq(Nat) /\ Len(Toas(r)) = Len(r)
      /\ \A j \in 1..Len(r) : Toas(r)[j] = r[j].toa
  BY <1>2, CountedType, Zenon
<1>4. 0 \in 0..Len(Toas(r)) /\ Len(Toas(r)) = Len(r)
  BY <1>1, <1>3
<1>5. Total(Toas(r)) \in Nat /\ \A j \in 0..Len(Toas(r)) : Running(Toas(r))[j] \in Nat
  BY <1>3, <1>4, RunningGrows
<1>6. QED
  BY <1>3, <1>4, <1>5, Zenon DEF Airtime

LEMMA OffTimeAtLeast ==
  ASSUME NEW b \in Int, NEW ms \in Int
  PROVE  OffTimeWait(b, ms) \in Nat /\ OffTimeWait(b, ms) >= Delta(b, ms)
<1>1. Delta(b, ms) \in Int
  BY DeltaType
<1>2. Max({0, Delta(b, ms)}) \in {0, Delta(b, ms)} /\ Max({0, Delta(b, ms)}) >= 0
      /\ Max({0, Delta(b, ms)}) >= Delta(b, ms)
  BY <1>1, GreaterOf
<1>3. QED
  BY <1>1, <1>2 DEF OffTimeWait

Need(r, toa) == Airtime(r) + toa - Budget
Enough(r, toa) == {i \in DOMAIN r : Running(Toas(r))[i] >= Need(r, toa)}

LEMMA WindowWaitIs ==
  ASSUME NEW r \in Seq(Slot), NEW ms \in Int, NEW toa \in Int
  PROVE  /\ WindowWait(r, ms, toa) \in Nat
         /\ \/ Need(r, toa) <= 0
            \/ Enough(r, toa) = {}
            \/ \E m \in Enough(r, toa) :
                 WindowWait(r, ms, toa) >= Delta((r[m].end + Window) % Wrap, ms)
<1> DEFINE m == Min(Enough(r, toa))
<1>1. WindowWait(r, ms, toa) =
        IF Need(r, toa) <= 0 \/ Enough(r, toa) = {} THEN 0
        ELSE Max({0, Delta((r[m].end + Window) % Wrap, ms)})
  BY DEF WindowWait, Need, Enough
<1>2. CASE Need(r, toa) <= 0 \/ Enough(r, toa) = {}
  BY <1>1, <1>2
<1>3. CASE ~(Need(r, toa) <= 0 \/ Enough(r, toa) = {})
  <2>1. DOMAIN r = 1..Len(r) /\ Len(r) \in Nat
    BY SlotFields
  <2>2. Enough(r, toa) \in SUBSET (1..Len(r))
    BY <2>1 DEF Enough
  <2>3. Enough(r, toa) \in SUBSET Int /\ IsFiniteSet(Enough(r, toa))
    <3>1. IsFiniteSet(1..Len(r)) /\ (1..Len(r)) \subseteq Int
      BY <2>1, FS_Interval
    <3>2. QED
      BY <2>2, <3>1, FS_Subset, Zenon
  <2>4. m \in Enough(r, toa)
    BY <1>3, <2>3, LeastOf
  <2> HIDE DEF m
  <2>5. r[m].end \in Int
    BY <2>2, <2>4, SlotFields
  <2>6. (r[m].end + Window) % Wrap \in Int
    BY <2>5, WrapFacts
  <2> DEFINE d == Delta((r[m].end + Window) % Wrap, ms)
  <2>7. d \in Int
    BY <2>6, DeltaType
  <2> HIDE DEF d
  <2>8. Max({0, d}) \in {0, d} /\ Max({0, d}) >= 0 /\ Max({0, d}) >= d
    <3>1. 0 \in Int
      OBVIOUS
    <3>2. QED
      BY <2>7, <3>1, GreaterOf, Zenon
  <2>9. WindowWait(r, ms, toa) = Max({0, d})
    BY <1>1, <1>3 DEF d
  <2>10. WindowWait(r, ms, toa) \in Nat /\ WindowWait(r, ms, toa) >= d
    BY <2>7, <2>8, <2>9
  <2>11. QED
    BY <2>4, <2>10 DEF d
<1>4. QED
  BY <1>2, <1>3

LEMMA DelayIs ==
  ASSUME NEW r \in Seq(Slot), NEW b \in Int, NEW ms \in Int, NEW toa \in Int
  PROVE  /\ DelayMs(r, b, ms, toa) \in Nat
         /\ row # "amateur" => /\ DelayMs(r, b, ms, toa) >= OffTimeWait(b, ms)
                               /\ DelayMs(r, b, ms, toa) >= WindowWait(r, ms, toa)
                               /\ DelayMs(r, b, ms, toa) \in
                                    {OffTimeWait(b, ms), WindowWait(r, ms, toa)}
<1> DEFINE x == OffTimeWait(b, ms)
           y == WindowWait(r, ms, toa)
<1>1. x \in Nat /\ y \in Nat
  BY OffTimeAtLeast, WindowWaitIs
<1>2. DelayMs(r, b, ms, toa) = IF row = "amateur" THEN 0 ELSE Max({x, y})
  BY DEF DelayMs
<1> HIDE DEF x, y
<1>3. Max({x, y}) \in {x, y} /\ Max({x, y}) >= x /\ Max({x, y}) >= y
  <2>1. x \in Int /\ y \in Int
    BY <1>1
  <2>2. QED
    BY <2>1, GreaterOf, Zenon
<1>4. QED
  BY <1>1, <1>2, <1>3 DEF x, y

\* After the wait the off-time is over, and what the ring still counts leaves
\* room for the frame.
LEMMA WaitSuffices ==
  ASSUME FramesFit, ClockFits, row # "amateur",
         NEW r \in Seq(Slot), NEW E \in Seq(Int), Stamped(r, E),
         NEW B \in Int, epoch \in Int, NEW t \in Int,
         \A j \in 1..Len(r) : E[j] <= B,
         \A j, k \in 1..Len(r) : j <= k => E[j] <= E[k],
         B <= t + Window + Ratio * Overrun,
         NEW toa \in FrameToa,
         NEW d, d = DelayMs(r, Millis(B), Millis(t), toa)
  PROVE  /\ d \in Nat /\ t + d >= B
         /\ Total(Counted(r, E, t + d - Window)) + toa <= Budget
<1> DEFINE h == Wrap \div 2
<1>1. /\ Wrap \in Nat \ {0} /\ Window \in Nat \ {0} /\ Ratio \in Nat \ {0}
      /\ Overrun \in Nat /\ Budget \in Nat /\ toa \in Nat /\ toa <= Budget
      /\ h \in Nat /\ Wrap <= 2 * h + 1
  BY WrapFacts DEF FramesFit
<1>2. 2 * Window + Ratio * Overrun < h /\ Ratio * Overrun \in Nat
  <2>1. Ratio * Overrun \in Nat
    BY <1>1
  <2>2. 2 * (2 * Window + Ratio * Overrun + 1) <= 2 * h + 1
    BY <1>1, <2>1 DEF ClockFits
  <2> HIDE DEF h
  <2>3. QED
    BY <1>1, <2>1, <2>2
<1> HIDE DEF h
<1>3. Millis(B) \in Int /\ Millis(t) \in Int
  BY <1>1, MillisType
<1>4. /\ d \in Nat /\ d >= OffTimeWait(Millis(B), Millis(t))
      /\ d >= WindowWait(r, Millis(t), toa)
  BY <1>1, <1>3, DelayIs
<1>5. t + d >= B
  <2>1. B - t < h /\ B - t \in Int
    BY <1>1, <1>2
  <2>2. Delta(Millis(B), Millis(t)) \in Int /\ Delta(Millis(B), Millis(t)) >= B - t
    BY <2>1, DeltaStamps DEF h
  <2>3. OffTimeWait(Millis(B), Millis(t)) >= Delta(Millis(B), Millis(t))
        /\ OffTimeWait(Millis(B), Millis(t)) \in Nat
    BY <1>3, OffTimeAtLeast
  <2>4. QED
    BY <1>4, <2>2, <2>3
<1> DEFINE T == t + d - Window
           w == Counted(r, E, T)
           s == Toas(r)
<1>6. T \in Int
  BY <1>1, <1>4
<1> HIDE DEF T
<1>7. Len(r) \in Nat /\ DOMAIN r = 1..Len(r) /\ Len(E) = Len(r)
      /\ \A j \in 1..Len(r) : r[j].end = Millis(E[j]) /\ E[j] \in Int
  BY SlotFields DEF Stamped
<1>8. /\ w \in Seq(Nat) /\ Len(w) = Len(r) /\ s \in Seq(Nat) /\ Len(s) = Len(r)
      /\ \A j \in 1..Len(r) : /\ w[j] = IF E[j] > T THEN r[j].toa ELSE 0
                              /\ w[j] <= s[j]
  BY <1>6, <1>7, CountedType, Zenon
<1> HIDE DEF w, s
<1>9. Airtime(r) = Total(s) /\ Airtime(r) \in Nat
  BY AirtimeType DEF s, Airtime
<1>10. Total(w) \in Nat
  <2>1. 0 \in 0..Len(w)
    BY <1>7, <1>8
  <2>2. QED
    BY <1>8, <2>1, RunningGrows
<1>11. CASE Need(r, toa) <= 0
  <2>1. Total(w) <= Total(s)
    BY <1>8, TotalGrows
  <2>2. Total(s) + toa <= Budget
    BY <1>1, <1>9, <1>11 DEF Need
  <2>3. Total(s) \in Nat
    BY <1>9
  <2>4. Total(w) + toa <= Budget
    BY <1>1, <1>10, <2>1, <2>2, <2>3
  <2>5. QED
    BY <1>4, <1>5, <2>4, Zenon DEF w, T
<1>12. CASE ~(Need(r, toa) <= 0) /\ Enough(r, toa) = {}
  <2>1. Len(r) # 0
    <3>1. SUFFICES ASSUME Len(r) = 0 PROVE FALSE
      OBVIOUS
    <3>2. Total(s) = 0
      BY <1>8, <3>1, RunningStep DEF Total
    <3>3. QED
      BY <1>1, <1>9, <1>12, <3>2 DEF Need
  <2>2. Len(r) \in DOMAIN r /\ Running(Toas(r))[Len(r)] = Airtime(r)
    BY <1>7, <1>8, <1>9, <2>1 DEF s, Total
  <2>3. ~(Airtime(r) >= Need(r, toa))
    BY <1>12, <2>2 DEF Enough
  <2>4. QED
    BY <1>1, <1>9, <2>3 DEF Need
<1>13. CASE ~(Need(r, toa) <= 0) /\ Enough(r, toa) # {}
  <2>1. PICK m \in Enough(r, toa) :
          WindowWait(r, Millis(t), toa) >= Delta((r[m].end + Window) % Wrap, Millis(t))
    BY <1>1, <1>3, <1>13, WindowWaitIs
  <2>2. m \in 1..Len(r) /\ Running(s)[m] >= Need(r, toa)
    BY <1>7 DEF Enough, s
  <2>3. E[m] \in Int /\ E[m] <= B /\ r[m].end = Millis(E[m])
    BY <1>7, <2>2
  <2>4. E[m] + Window - t < h
    BY <1>1, <1>2, <2>3
  <2>5. /\ Delta((r[m].end + Window) % Wrap, Millis(t)) \in Int
        /\ Delta((r[m].end + Window) % Wrap, Millis(t)) >= E[m] + Window - t
    <3>1. Window \in Int
      BY <1>1
    <3>2. /\ Delta((Millis(E[m]) + Window) % Wrap, Millis(t)) \in Int
          /\ Delta((Millis(E[m]) + Window) % Wrap, Millis(t)) >= E[m] + Window - t
      BY <2>3, <2>4, <3>1, DeltaAfter, Zenon DEF h
    <3>3. QED
      BY <2>3, <3>2, Zenon
  <2>6. d >= E[m] + Window - t
    <3>1. WindowWait(r, Millis(t), toa) \in Nat
      BY <1>1, <1>3, WindowWaitIs
    <3>2. PICK x, y, e : /\ x = WindowWait(r, Millis(t), toa)
                         /\ y = Delta((r[m].end + Window) % Wrap, Millis(t))
                         /\ e = E[m] + Window - t
      OBVIOUS
    <3>3. E[m] + Window - t \in Int
      BY <1>1, <2>3
    <3>4. /\ x \in Nat /\ y \in Int /\ e \in Int /\ d \in Nat
          /\ d >= x /\ x >= y /\ y >= e
      BY <1>4, <2>1, <2>5, <3>1, <3>2, <3>3, Zenon
    <3>5. d >= e
      BY <3>4
    <3>6. QED
      BY <3>2, <3>5, Zenon
  <2>7. E[m] <= T
    <3>1. PICK e : e = E[m]
      OBVIOUS
    <3>2. e \in Int /\ d >= e + Window - t /\ d \in Nat /\ Window \in Nat
      BY <1>1, <1>4, <2>3, <2>6, <3>1, Zenon
    <3>3. e <= t + d - Window
      BY <3>2
    <3>4. QED
      BY <3>1, <3>3, Zenon DEF T
  <2>8. \A j \in 1..m : w[j] = 0
    <3>1. SUFFICES ASSUME NEW j \in 1..m PROVE w[j] = 0
      OBVIOUS
    <3>2. j \in 1..Len(r) /\ j <= m
      BY <1>7, <2>2
    <3>3. E[j] <= E[m] /\ E[j] \in Int
      BY <1>7, <2>2, <3>2
    <3>4. ~(E[j] > T)
      BY <1>6, <2>3, <2>7, <3>3
    <3>5. QED
      BY <1>8, <3>2, <3>4
  <2>9. Running(w)[m] = 0
    <3>1. m \in 0..Len(w)
      BY <1>7, <1>8, <2>2
    <3>2. QED
      BY <1>8, <2>8, <3>1, RunningZero
  <2>10. Running(w)[m + (Len(r) - m)] - Running(w)[m]
           <= Running(s)[m + (Len(r) - m)] - Running(s)[m]
    <3> DEFINE n == Len(r) - m
    <3>1. n \in Nat /\ m \in Nat /\ m + n <= Len(w) /\ m + n <= Len(s)
      BY <1>7, <1>8, <2>2
    <3>2. \A i \in 1..n : m + i \in 1..Len(r)
      BY <1>7, <2>2
    <3>3. \A i \in 1..n : w[m + i] <= s[m + i]
      BY <1>8, <3>2
    <3> HIDE DEF n
    <3>4. Running(w)[m + n] - Running(w)[m] <= Running(s)[m + n] - Running(s)[m]
      BY <1>8, <3>1, <3>3, Compare, Zenon
    <3>5. QED
      BY <3>4 DEF n
  <2>11. Total(w) = Running(w)[m + (Len(r) - m)] /\ Total(s) = Running(s)[m + (Len(r) - m)]
    <3>1. m + (Len(r) - m) = Len(r)
      BY <1>7, <2>2
    <3>2. QED
      BY <1>8, <3>1 DEF Total
  <2>12. Running(s)[m] \in Nat
    <3>1. m \in 0..Len(s)
      BY <1>7, <1>8, <2>2
    <3>2. QED
      BY <1>8, <3>1, RunningGrows
  <2>13. Total(w) <= Airtime(r) - Need(r, toa)
    <3>1. Need(r, toa) \in Int
      BY <1>1, <1>9 DEF Need
    <3>2. \A a, b, c, p, q \in Int : a - b <= p - q /\ b = 0 /\ q >= c => a <= p - c
      OBVIOUS
    <3>3. 0 \in Int /\ \A x \in Nat : x \in Int
      OBVIOUS
    <3>4. QED
      BY <1>9, <1>10, <2>2, <2>9, <2>10, <2>11, <2>12, <3>1, <3>2, <3>3, Zenon
  <2>14. Total(w) + toa <= Budget
    BY <1>1, <1>9, <1>10, <2>13 DEF Need
  <2>15. QED
    BY <1>4, <1>5, <2>14 DEF w, T
<1>14. QED
  BY <1>11, <1>12, <1>13

(***************************************************************************)
(* The record.  Folding the two oldest slots never lets the ring count     *)
(* less: the airtime of the older stays as long as the younger's.          *)
(***************************************************************************)
Sorted(E) == \A j, k \in 1..Len(E) : j <= k => E[j] <= E[k]
FoldedEnds(E) == IF Len(E) = Slots THEN Tail(E) ELSE E

LEMMA FoldIs ==
  ASSUME NEW r \in Seq(Slot), NEW E \in Seq(Int), Len(E) = Len(r), Len(r) = Slots
  PROVE  /\ Fold(r) \in Seq(Slot) /\ Len(Fold(r)) = Len(r) - 1
         /\ Fold(r)[1].end = r[2].end /\ Fold(r)[1].toa = r[1].toa + r[2].toa
         /\ \A i \in 2..(Len(r) - 1) : Fold(r)[i] = r[i + 1]
         /\ FoldedEnds(E) \in Seq(Int) /\ Len(FoldedEnds(E)) = Len(r) - 1
         /\ \A i \in 1..(Len(r) - 1) : FoldedEnds(E)[i] = E[i + 1]
<1> DEFINE s == [end |-> r[2].end, toa |-> r[1].toa + r[2].toa]
           q == SubSeq(r, 3, Len(r))
           n == Len(r)
<1>1. n \in Nat /\ n >= 2 /\ 1 \in 1..n /\ 2 \in 1..n /\ 3 \in 1..(n + 1)
  BY SlotFields, WrapFacts
<1>2. s \in Slot /\ s.end = r[2].end /\ s.toa = r[1].toa + r[2].toa
  <2>1. /\ r[1].toa \in Nat /\ r[1].toa > 0 /\ r[2].toa \in Nat
        /\ r[2].end \in 0..(Wrap - 1)
    BY <1>1, SlotFields
  <2>2. r[1].toa + r[2].toa \in Nat \ {0}
    <3>1. \A a, b \in Nat : a > 0 => a + b \in Nat \ {0}
      OBVIOUS
    <3>2. QED
      BY <2>1, <3>1, Zenon
  <2>3. QED
    BY <2>1, <2>2 DEF Slot
<1>3. /\ q \in Seq(Slot) /\ Len(q) = n - 2
      /\ \A j \in 1..(n - 2) : q[j] = r[2 + j]
  <2>1. /\ q \in Seq(Slot) /\ Len(q) = n - (3 - 1)
        /\ \A j \in 1..(n - (3 - 1)) : q[j] = r[(3 - 1) + j]
    BY <1>1, Rest, Zenon
  <2>2. 3 - 1 = 2
    OBVIOUS
  <2>3. QED
    BY <2>1, <2>2
<1>4. Fold(r) = <<s>> \o q
  BY DEF Fold
<1> HIDE DEF s, q
<1>5. /\ <<s>> \o q \in Seq(Slot) /\ Len(<<s>> \o q) = n - 1 /\ (<<s>> \o q)[1] = s
      /\ \A i \in 2..(n - 1) : (<<s>> \o q)[i] = q[i - 1]
  BY <1>1, <1>2, <1>3
<1>6. \A i \in 2..(n - 1) : i - 1 \in 1..(n - 2) /\ 2 + (i - 1) = i + 1
  BY <1>1
<1>7. \A i \in 2..(n - 1) : (<<s>> \o q)[i] = r[i + 1]
  BY <1>3, <1>5, <1>6
<1>8. FoldedEnds(E) = Tail(E)
  BY DEF FoldedEnds
<1>9. /\ Tail(E) \in Seq(Int) /\ Len(Tail(E)) = n - 1
      /\ \A i \in 1..(n - 1) : Tail(E)[i] = E[i + 1]
  BY <1>1
<1>10. QED
  BY <1>2, <1>4, <1>5, <1>7, <1>8, <1>9, Zenon

LEMMA FoldCounts ==
  ASSUME NEW r \in Seq(Slot), NEW E \in Seq(Int), Stamped(r, E), Sorted(E),
         Len(r) <= Slots
  PROVE  /\ Fold(r) \in Seq(Slot) /\ Len(Fold(r)) < Slots
         /\ FoldedEnds(E) \in Seq(Int) /\ Stamped(Fold(r), FoldedEnds(E))
         /\ Sorted(FoldedEnds(E))
         /\ \A j \in 1..Len(FoldedEnds(E)) : \E k \in 1..Len(E) : FoldedEnds(E)[j] = E[k]
         /\ \A T \in Int : Total(Counted(r, E, T)) <= Total(Counted(Fold(r), FoldedEnds(E), T))
<1>1. Len(r) \in Nat /\ Len(E) = Len(r) /\ \A j \in 1..Len(r) : r[j].end = Millis(E[j])
  BY SlotFields DEF Stamped
<1>2. CASE Len(r) # Slots
  <2>1. Fold(r) = r /\ FoldedEnds(E) = E
    BY <1>1, <1>2 DEF Fold, FoldedEnds
  <2>2. \A T \in Int : Total(Counted(r, E, T)) <= Total(Counted(r, E, T))
    <3>1. SUFFICES ASSUME NEW T \in Int
                   PROVE Total(Counted(r, E, T)) <= Total(Counted(r, E, T))
      OBVIOUS
    <3>2. Counted(r, E, T) \in Seq(Nat) /\ Len(Counted(r, E, T)) = Len(r)
      BY <1>1, CountedType
    <3>3. 0 \in 0..Len(Counted(r, E, T))
      BY <1>1, <3>2
    <3>4. Total(Counted(r, E, T)) \in Nat
      BY <3>2, <3>3, RunningGrows
    <3>5. QED
      BY <3>4
  <2>3. Len(r) < Slots
    BY <1>1, <1>2, WrapFacts
  <2>4. QED
    BY <1>1, <2>1, <2>2, <2>3
<1>3. CASE Len(r) = Slots
  <2> DEFINE q == Fold(r)
             F == FoldedEnds(E)
             n == Len(r)
  <2>1. /\ q \in Seq(Slot) /\ Len(q) = n - 1
        /\ q[1].end = r[2].end /\ q[1].toa = r[1].toa + r[2].toa
        /\ \A i \in 2..(n - 1) : q[i] = r[i + 1]
        /\ F \in Seq(Int) /\ Len(F) = n - 1
        /\ \A i \in 1..(n - 1) : F[i] = E[i + 1]
    BY <1>1, <1>3, FoldIs
  <2> HIDE DEF q, F
  <2>2. n \in Nat /\ n >= 2 /\ n = Slots
    BY <1>3, WrapFacts
  <2>3. Stamped(q, F)
    <3>1. SUFFICES ASSUME NEW j \in 1..(n - 1) PROVE q[j].end = Millis(F[j])
      BY <2>1 DEF Stamped
    <3>2. j + 1 \in 1..n /\ (j = 1 => j + 1 = 2) /\ (j # 1 => j \in 2..(n - 1))
      BY <2>2
    <3>3. F[j] = E[j + 1] /\ r[j + 1].end = Millis(E[j + 1])
      BY <1>1, <2>1, <3>2
    <3>4. q[j].end = r[j + 1].end
      BY <2>1, <3>2
    <3>5. QED
      BY <3>3, <3>4
  <2>4. Sorted(F)
    <3>1. SUFFICES ASSUME NEW j \in 1..(n - 1), NEW k \in 1..(n - 1), j <= k
                   PROVE F[j] <= F[k]
      BY <2>1 DEF Sorted
    <3>2. j + 1 \in 1..Len(E) /\ k + 1 \in 1..Len(E) /\ j + 1 <= k + 1
      BY <1>1, <2>2, <3>1
    <3>3. E[j + 1] <= E[k + 1]
      BY <3>2 DEF Sorted
    <3>4. QED
      BY <2>1, <3>3
  <2>5. \A j \in 1..Len(F) : \E k \in 1..Len(E) : F[j] = E[k]
    <3>1. SUFFICES ASSUME NEW j \in 1..(n - 1) PROVE \E k \in 1..Len(E) : F[j] = E[k]
      BY <2>1
    <3>2. j + 1 \in 1..Len(E) /\ F[j] = E[j + 1]
      BY <1>1, <2>1, <2>2
    <3>3. QED
      BY <3>2
  <2>6. ASSUME NEW T \in Int
        PROVE Total(Counted(r, E, T)) <= Total(Counted(q, F, T))
    <3> DEFINE w == Counted(r, E, T)
               v == Counted(q, F, T)
               u == [i \in 1..(n - 1) |-> IF i = 1 THEN w[1] + w[2] ELSE w[i + 1]]
    <3>1. /\ w \in Seq(Nat) /\ Len(w) = n
          /\ \A j \in 1..n : w[j] = IF E[j] > T THEN r[j].toa ELSE 0
      BY <1>1, CountedType
    <3>2. /\ v \in Seq(Nat) /\ Len(v) = n - 1
          /\ \A j \in 1..(n - 1) : v[j] = IF F[j] > T THEN q[j].toa ELSE 0
      <4>1. Len(F) = Len(q)
        BY <2>1
      <4>2. /\ v \in Seq(Nat) /\ Len(v) = Len(q)
            /\ \A j \in 1..Len(q) : v[j] = IF F[j] > T THEN q[j].toa ELSE 0
        BY <2>1, <4>1, CountedType, Zenon
      <4>3. QED
        BY <2>1, <4>2
    <3> HIDE DEF w, v
    <3>3. \A j \in 1..n : w[j] \in Nat
      BY <3>1
    <3>4. u \in [1..(n - 1) -> Nat]
      <4>1. 1 \in 1..n /\ 2 \in 1..n /\ \A i \in 1..(n - 1) : i + 1 \in 1..n
        BY <2>2
      <4>2. w[1] + w[2] \in Nat /\ \A i \in 1..(n - 1) : w[i + 1] \in Nat
        BY <3>3, <4>1
      <4>3. QED
        BY <4>2
    <3>5. u \in Seq(Nat) /\ Len(u) = Len(w) - 1
      <4>1. n - 1 \in Nat
        BY <2>2
      <4>2. \A m \in Nat : \A f \in [1..m -> Nat] : f \in Seq(Nat) /\ Len(f) = m
        OBVIOUS
      <4>3. QED
        BY <3>1, <3>4, <4>1, <4>2, Zenon
    <3>6. u[1] = w[1] + w[2] /\ \A i \in 2..Len(u) : u[i] = w[i + 1]
      <4>1. Len(u) = n - 1 /\ 1 \in 1..(n - 1)
        <5>1. Len(u) = n - 1
          BY <3>1, <3>5, Zenon
        <5>2. 1 \in 1..(n - 1)
          BY <2>2
        <5>3. QED
          BY <5>1, <5>2
      <4>2. \A i \in 2..(n - 1) : i \in 1..(n - 1) /\ i # 1
        BY <2>2
      <4>3. u[1] = w[1] + w[2]
        BY <4>1
      <4>4. \A i \in 2..(n - 1) : u[i] = w[i + 1]
        BY <4>2
      <4>5. QED
        BY <4>1, <4>3, <4>4
    <3> HIDE DEF u
    <3>7. Total(u) = Total(w)
      BY <2>2, <3>1, <3>5, <3>6, TotalMerged
    <3>8. ASSUME NEW i \in 1..Len(u) PROVE u[i] <= v[i]
      <4>1. i \in 1..(n - 1) /\ i + 1 \in 1..n /\ F[i] = E[i + 1]
        BY <2>1, <2>2, <3>1, <3>5
      <4>2. v[i] = IF E[i + 1] > T THEN q[i].toa ELSE 0
        BY <3>2, <4>1
      <4>3. CASE i # 1
        <5>1. u[i] = w[i + 1] /\ q[i] = r[i + 1]
          BY <2>1, <2>2, <3>6, <4>1, <4>3
        <5>2. u[i] = v[i] /\ w[i + 1] \in Nat
          BY <3>1, <3>3, <4>1, <4>2, <5>1
        <5>3. QED
          BY <5>1, <5>2
      <4>4. CASE i = 1
        <5>1. 1 \in 1..n /\ 2 \in 1..n /\ i + 1 = 2
          BY <2>2, <4>4
        <5>2. E[1] <= E[2] /\ E[1] \in Int /\ E[2] \in Int
          BY <1>1, <5>1 DEF Sorted
        <5>3. w[1] = (IF E[1] > T THEN r[1].toa ELSE 0) /\ w[2] = (IF E[2] > T THEN r[2].toa ELSE 0)
          BY <3>1, <5>1
        <5>4. r[1].toa \in Nat /\ r[2].toa \in Nat
          BY <5>1, SlotFields
        <5>5. u[1] = w[1] + w[2] /\ v[1] = IF E[2] > T THEN r[1].toa + r[2].toa ELSE 0
          BY <2>1, <3>6, <4>2, <4>4, <5>1
        <5>6. \A a, b \in Nat : \A x, y, t \in Int : x <= y =>
                (IF x > t THEN a ELSE 0) + (IF y > t THEN b ELSE 0)
                  <= (IF y > t THEN a + b ELSE 0)
          OBVIOUS
        <5>7. (IF E[1] > T THEN r[1].toa ELSE 0) + (IF E[2] > T THEN r[2].toa ELSE 0)
                <= (IF E[2] > T THEN r[1].toa + r[2].toa ELSE 0)
          BY <5>2, <5>4, <5>6, ZenonT(30)
        <5>8. QED
          BY <4>4, <5>3, <5>5, <5>7, Zenon
      <4>5. QED
        BY <4>3, <4>4
    <3>9. Total(u) <= Total(v)
      BY <3>1, <3>2, <3>5, <3>8, TotalGrows
    <3>10. QED
      BY <3>7, <3>9 DEF w, v
  <2>7. Len(q) < Slots
    BY <2>1, <2>2
  <2>8. QED
    BY <2>1, <2>3, <2>4, <2>5, <2>6, <2>7 DEF q, F
<1>4. QED
  BY <1>2, <1>3

LEMMA SameResidue ==
  ASSUME NEW x \in 0..(Wrap - 1), NEW y \in 0..(Wrap - 1), NEW k \in Int,
         x - y = k * Wrap
  PROVE  x = y
<1>1. Wrap \in Nat \ {0}
  BY WrapFacts
<1>2. k >= 1 => k * Wrap >= Wrap
  BY <1>1
<1>3. k <= -1 => k * Wrap <= -Wrap
  BY <1>1
<1>4. k = 0 => k * Wrap = 0
  BY <1>1
<1>5. k * Wrap \in Int
  BY <1>1
<1>6. QED
  BY <1>1, <1>2, <1>3, <1>4, <1>5

LEMMA StampLater ==
  ASSUME NEW t \in Int, NEW a \in Int, epoch \in Int
  PROVE  (Millis(t) + a) % Wrap = Millis(t + a)
<1>1. Wrap \in Nat \ {0}
  BY WrapFacts
<1>2. PICK i \in Int : t - epoch = i * Wrap + Millis(t)
  <2>1. t - epoch \in Int
    OBVIOUS
  <2>2. QED
    BY <2>1, Residue, Zenon DEF Millis
<1>3. PICK j \in Int : (t + a) - epoch = j * Wrap + Millis(t + a)
  <2>1. (t + a) - epoch \in Int
    OBVIOUS
  <2>2. QED
    BY <2>1, Residue, Zenon DEF Millis
<1>4. Millis(t) \in 0..(Wrap - 1) /\ Millis(t + a) \in 0..(Wrap - 1)
  <2>1. t + a \in Int
    OBVIOUS
  <2>2. QED
    BY <2>1, MillisType
<1> DEFINE s == Millis(t) + a
           p == s % Wrap
<1>5. s \in Int
  BY <1>1, <1>4
<1>6. PICK k \in Int : s = k * Wrap + p
  BY <1>5, Residue, Zenon
<1>7. p \in 0..(Wrap - 1)
  BY <1>5, Residue, Zenon
<1> HIDE DEF p
<1>8. /\ ((j - i) - k) * Wrap = j * Wrap - i * Wrap - k * Wrap
      /\ j * Wrap \in Int /\ i * Wrap \in Int /\ k * Wrap \in Int
  BY <1>1
<1>9. p - Millis(t + a) = ((j - i) - k) * Wrap
  BY <1>1, <1>2, <1>3, <1>4, <1>6, <1>7, <1>8
<1>10. (j - i) - k \in Int
  OBVIOUS
<1>11. p = Millis(t + a)
  BY <1>4, <1>7, <1>9, <1>10, SameResidue, Zenon
<1>12. QED
  BY <1>11 DEF p

\* A frame of toa recorded at t is counted until t + toa + Window, and no
\* other frame for a shorter time than before.
LEMMA RecordCounts ==
  ASSUME NEW r \in Seq(Slot), NEW E \in Seq(Int), Stamped(r, E), Sorted(E),
         Len(r) <= Slots, epoch \in Int, NEW t \in Int, NEW toa \in Nat, toa > 0,
         \A j \in 1..Len(E) : E[j] <= t + toa
  PROVE  LET q == Recorded(r, Millis(t), toa)
         IN /\ q \in Seq(Slot) /\ Len(q) <= Slots
            /\ \E F \in Seq(Int) :
                 /\ Stamped(q, F) /\ Sorted(F) /\ \A j \in 1..Len(F) : F[j] <= t + toa
                 /\ \A j \in 1..Len(F) : F[j] = t + toa \/ \E k \in 1..Len(E) : F[j] = E[k]
                 /\ \A T \in Int :
                      Total(Counted(r, E, T)) + (IF t + toa > T THEN toa ELSE 0)
                        <= Total(Counted(q, F, T))
<1> DEFINE f == Fold(r)
           D == FoldedEnds(E)
           e == t + toa
           s == [end |-> (Millis(t) + toa) % Wrap, toa |-> toa]
           n == Len(f)
<1>1. /\ f \in Seq(Slot) /\ Len(f) < Slots
      /\ D \in Seq(Int) /\ Stamped(f, D) /\ Sorted(D)
      /\ \A j \in 1..Len(D) : \E k \in 1..Len(E) : D[j] = E[k]
      /\ \A T \in Int : Total(Counted(r, E, T)) <= Total(Counted(f, D, T))
  BY FoldCounts
<1> HIDE DEF f, D
<1>2. s \in Slot /\ s.end = Millis(e) /\ s.toa = toa
  <2>1. (Millis(t) + toa) % Wrap = Millis(e) /\ Millis(e) \in 0..(Wrap - 1)
    <3>1. e \in Int /\ toa \in Int
      OBVIOUS
    <3>2. QED
      BY <3>1, StampLater, MillisType
  <2>2. toa \in Nat \ {0}
    OBVIOUS
  <2>3. QED
    BY <2>1, <2>2 DEF Slot
<1>3. e \in Int
  OBVIOUS
<1>4. Recorded(r, Millis(t), toa) = Append(f, s)
  BY DEF Recorded, f
<1>5. n \in Nat /\ Len(D) = n /\ \A j \in 1..n : f[j].end = Millis(D[j])
  BY <1>1, SlotFields DEF Stamped
<1>6. \A j \in 1..n : D[j] \in Int /\ D[j] <= e
  <2>1. SUFFICES ASSUME NEW j \in 1..n PROVE D[j] \in Int /\ D[j] <= e
    OBVIOUS
  <2>2. PICK k \in 1..Len(E) : D[j] = E[k]
    BY <1>1, <1>5
  <2>3. E[k] <= e /\ E[k] \in Int
    OBVIOUS
  <2>4. QED
    BY <2>2, <2>3
<1> HIDE DEF e, s
<1> DEFINE q == Append(f, s)
           F == Append(D, e)
<1>7. /\ q \in Seq(Slot) /\ Len(q) = n + 1 /\ q[n + 1] = s
      /\ \A j \in 1..n : q[j] = f[j]
  BY <1>1, <1>2, <1>5
<1>8. /\ F \in Seq(Int) /\ Len(F) = n + 1 /\ F[n + 1] = e
      /\ \A j \in 1..n : F[j] = D[j]
  BY <1>1, <1>3, <1>5
<1> HIDE DEF q, F
<1>9. \A j \in 1..(n + 1) : j = n + 1 \/ j \in 1..n
  BY <1>5
<1>10. Stamped(q, F)
  <2>1. \A j \in 1..(n + 1) : q[j].end = Millis(F[j])
    BY <1>2, <1>5, <1>7, <1>8, <1>9
  <2>2. QED
    BY <1>7, <1>8, <2>1 DEF Stamped
<1>11. \A j \in 1..Len(F) : F[j] <= e
  BY <1>3, <1>6, <1>8, <1>9
<1>16. \A j \in 1..Len(F) : F[j] = e \/ \E k \in 1..Len(E) : F[j] = E[k]
  <2>1. \A j \in 1..n : F[j] = D[j] /\ \E k \in 1..Len(E) : D[j] = E[k]
    BY <1>1, <1>5, <1>8
  <2>2. QED
    BY <1>8, <1>9, <2>1
<1>12. Sorted(F)
  <2>1. SUFFICES ASSUME NEW j \in 1..(n + 1), NEW k \in 1..(n + 1), j <= k
                 PROVE F[j] <= F[k]
    BY <1>8 DEF Sorted
  <2>2. CASE k = n + 1
    BY <1>8, <1>11, <2>2
  <2>3. CASE k \in 1..n
    <3>1. j \in 1..n
      BY <1>5, <2>1, <2>3
    <3>2. D[j] <= D[k]
      BY <1>1, <1>5, <2>1, <2>3, <3>1 DEF Sorted
    <3>3. QED
      BY <1>8, <2>3, <3>1, <3>2
  <2>4. QED
    BY <1>9, <2>2, <2>3
<1>13. ASSUME NEW T \in Int
       PROVE  Total(Counted(r, E, T)) + (IF e > T THEN toa ELSE 0) <= Total(Counted(q, F, T))
  <2> DEFINE w == Counted(f, D, T)
             u == Counted(q, F, T)
             x == IF e > T THEN toa ELSE 0
             v == Counted(r, E, T)
  <2>1. /\ w \in Seq(Nat) /\ Len(w) = n
        /\ \A j \in 1..n : w[j] = IF D[j] > T THEN f[j].toa ELSE 0
    BY <1>1, <1>5, CountedType
  <2>2. Len(F) = Len(q)
    BY <1>7, <1>8
  <2>3. /\ u \in Seq(Nat) /\ Len(u) = Len(q)
        /\ \A j \in 1..Len(q) : u[j] = IF F[j] > T THEN q[j].toa ELSE 0
    BY <1>7, <1>8, <2>2, CountedType, Zenon
  <2>4. v \in Seq(Nat)
    <3>1. Len(E) = Len(r)
      BY DEF Stamped
    <3>2. QED
      BY <3>1, CountedType, Zenon
  <2> HIDE DEF w, u, v
  <2>5. \A j \in 1..n : u[j] = w[j] /\ j \in 1..Len(q)
    <3>1. \A j \in 1..n : j \in 1..Len(q)
      BY <1>5, <1>7
    <3>2. QED
      BY <1>7, <1>8, <2>1, <2>3, <3>1
  <2>6. u[n + 1] = x /\ x \in Nat
    <3>1. n + 1 \in 1..Len(q)
      BY <1>5, <1>7
    <3>2. u[n + 1] = IF F[n + 1] > T THEN q[n + 1].toa ELSE 0
      BY <2>3, <3>1
    <3>3. QED
      BY <1>2, <1>7, <1>8, <3>2
  <2> HIDE DEF x
  <2>7. Total(u) = Total(w) + x
    <3>1. Len(u) = Len(w) + 1 /\ u[Len(w) + 1] = x /\ \A i \in 1..Len(w) : u[i] = w[i]
      BY <1>7, <2>1, <2>3, <2>5, <2>6
    <3>2. QED
      BY <2>1, <2>3, <2>6, <3>1, TotalAppend, Zenon
  <2>8. Total(v) <= Total(w)
    BY <1>1 DEF v, w
  <2>9. Total(w) \in Nat /\ Total(v) \in Nat
    <3>1. \A y \in Seq(Nat) : 0 \in 0..Len(y)
      OBVIOUS
    <3>2. QED
      BY <2>1, <2>4, <3>1, RunningGrows
  <2>10. QED
    BY <2>6, <2>7, <2>8, <2>9 DEF u, v, x
<1>14. Len(q) <= Slots
  BY <1>1, <1>5, <1>7, WrapFacts
<1>15. QED
  BY <1>4, <1>7, <1>8, <1>10, <1>11, <1>12, <1>13, <1>14, <1>16, Zenon DEF q, e

----------------------------------------------------------------------------
(***************************************************************************)
(* What was on the air.  Part(e, t) is the part of frame e in the window   *)
(* that ends at t; Parts counts the first n frames of a log by it.         *)
(***************************************************************************)
Frame == [start : Nat, stop : Nat]
Part(e, t) == Max({0, Min({e.stop, t}) - Max({e.start, t - Window})})
Parts(l, n, t) == [i \in DOMAIN l |-> IF i <= n THEN Part(l[i], t) ELSE 0]
WellTimed(l) == \A i \in 1..Len(l) : l[i].start <= l[i].stop

LEMMA PartIs ==
  ASSUME NEW e \in Frame, NEW t \in Int
  PROVE  LET a == IF e.stop <= t THEN e.stop ELSE t
             b == IF e.start >= t - Window THEN e.start ELSE t - Window
         IN  Part(e, t) = (IF a >= b THEN a - b ELSE 0) /\ Part(e, t) \in Nat
<1> DEFINE x == e.stop
           y == e.start
           z == t - Window
           a == IF x <= t THEN x ELSE t
           b == IF y >= z THEN y ELSE z
<1>1. x \in Nat /\ y \in Nat /\ z \in Int
  BY WrapFacts DEF Frame
<1>2. Part(e, t) = Max({0, Min({x, t}) - Max({y, z})})
  BY DEF Part
<1> HIDE DEF x, y, z
<1>3. Min({x, t}) \in {x, t} /\ Min({x, t}) <= x /\ Min({x, t}) <= t
  <2>1. x \in Int
    BY <1>1
  <2>2. QED
    BY <2>1, LesserOf, Zenon
<1>4. Max({y, z}) \in {y, z} /\ Max({y, z}) >= y /\ Max({y, z}) >= z
  <2>1. y \in Int
    BY <1>1
  <2>2. QED
    BY <1>1, <2>1, GreaterOf, Zenon
<1>5. Min({x, t}) = a
  BY <1>1, <1>3
<1>6. Max({y, z}) = b
  BY <1>1, <1>4
<1>7. a \in Int /\ b \in Int
  BY <1>1
<1> HIDE DEF a, b
<1>8. a - b \in Int /\ 0 \in Int
  BY <1>7
<1>9. Max({0, a - b}) \in {0, a - b} /\ Max({0, a - b}) >= 0 /\ Max({0, a - b}) >= a - b
  BY <1>8, GreaterOf, Zenon
<1>10. Part(e, t) = Max({0, a - b})
  BY <1>2, <1>5, <1>6
<1>11. Part(e, t) = (IF a >= b THEN a - b ELSE 0) /\ Part(e, t) \in Nat
  BY <1>7, <1>9, <1>10
<1>12. QED
  BY <1>11 DEF a, b, x, y, z

LEMMA PartFacts ==
  ASSUME NEW e \in Frame, NEW t \in Int, e.start <= e.stop
  PROVE  /\ Part(e, t) \in Nat /\ Part(e, t) <= e.stop - e.start
         /\ e.stop - e.start \in Nat
         /\ ~(e.stop > t - Window) => Part(e, t) = 0
         /\ e.stop <= t /\ e.stop > t - Window /\ e.start < e.stop => Part(e, t) > 0
         /\ e.start >= t => Part(e, t) = 0
<1>1. e.stop \in Nat /\ e.start \in Nat /\ Window \in Nat
  BY WrapFacts DEF Frame
<1>2. LET a == IF e.stop <= t THEN e.stop ELSE t
          b == IF e.start >= t - Window THEN e.start ELSE t - Window
      IN  Part(e, t) = (IF a >= b THEN a - b ELSE 0)
  BY PartIs, Zenon
<1>3. QED
  BY <1>1, <1>2

\* Time only takes from the part of a frame that is over.
LEMMA PartAges ==
  ASSUME NEW e \in Frame, NEW t \in Int, NEW u \in Int, t <= u, e.stop <= t
  PROVE  Part(e, u) <= Part(e, t) /\ Part(e, u) \in Nat /\ Part(e, t) \in Nat
<1>1. e.stop \in Nat /\ e.start \in Nat /\ Window \in Nat
  BY WrapFacts DEF Frame
<1>2. LET a == IF e.stop <= t THEN e.stop ELSE t
          b == IF e.start >= t - Window THEN e.start ELSE t - Window
      IN  Part(e, t) = (IF a >= b THEN a - b ELSE 0)
  BY PartIs, Zenon
<1>3. LET a == IF e.stop <= u THEN e.stop ELSE u
          b == IF e.start >= u - Window THEN e.start ELSE u - Window
      IN  Part(e, u) = (IF a >= b THEN a - b ELSE 0)
  BY PartIs, Zenon
<1>4. QED
  BY <1>1, <1>2, <1>3

LEMMA FrameFields ==
  ASSUME NEW l \in Seq(Frame)
  PROVE  /\ Len(l) \in Nat /\ DOMAIN l = 1..Len(l)
         /\ \A i \in 1..Len(l) : l[i] \in Frame /\ l[i].start \in Nat /\ l[i].stop \in Nat
<1>1. Len(l) \in Nat /\ DOMAIN l = 1..Len(l) /\ \A i \in 1..Len(l) : l[i] \in Frame
  BY Elements, Zenon
<1>2. \A e \in Frame : e.start \in Nat /\ e.stop \in Nat
  BY DEF Frame
<1>3. QED
  BY <1>1, <1>2, Zenon

Counts(l, n, t) ==
  /\ Parts(l, n, t) \in Seq(Nat) /\ Len(Parts(l, n, t)) = Len(l)
  /\ \A i \in 1..Len(l) : Parts(l, n, t)[i] = IF i <= n THEN Part(l[i], t) ELSE 0

LEMMA PartsType ==
  ASSUME NEW l \in Seq(Frame), WellTimed(l), NEW n \in Int, NEW t \in Int
  PROVE  Counts(l, n, t)
<1> DEFINE m == Len(l)
           p == [i \in 1..m |-> IF i <= n THEN Part(l[i], t) ELSE 0]
<1>1. m \in Nat /\ DOMAIN l = 1..m
  BY FrameFields
<1>2. \A i \in 1..m : Part(l[i], t) \in Nat
  <2>1. SUFFICES ASSUME NEW i \in 1..m PROVE Part(l[i], t) \in Nat
    OBVIOUS
  <2>2. l[i] \in Frame /\ l[i].start <= l[i].stop
    BY FrameFields DEF WellTimed
  <2>3. QED
    BY <2>2, PartFacts
<1>3. Parts(l, n, t) = p
  BY <1>1 DEF Parts
<1> HIDE DEF m
<1>4. p \in [1..m -> Nat]
  BY <1>1, <1>2
<1>5. \A f \in [1..m -> Nat] : f \in Seq(Nat) /\ Len(f) = m
  BY <1>1
<1>6. p \in Seq(Nat) /\ Len(p) = m
  BY <1>4, <1>5, Zenon
<1>7. \A i \in 1..m : p[i] = (IF i <= n THEN Part(l[i], t) ELSE 0)
  OBVIOUS
<1> HIDE DEF p
<1>8. QED
  BY <1>3, <1>6, <1>7 DEF m, Counts

LEMMA TotalType ==
  ASSUME NEW w \in Seq(Nat)
  PROVE  Total(w) \in Nat
<1>1. 0 \in 0..Len(w)
  OBVIOUS
<1>2. QED
  BY <1>1, RunningGrows

LEMMA PartsTotal ==
  ASSUME NEW l \in Seq(Frame), WellTimed(l), NEW n \in Int, NEW t \in Int
  PROVE  Total(Parts(l, n, t)) \in Nat
<1>1. Counts(l, n, t)
  BY PartsType, Zenon
<1>2. QED
  BY <1>1, TotalType DEF Counts

\* The last number of a list may be larger by x.
LEMMA LastAdds ==
  ASSUME NEW v \in Seq(Nat), NEW w \in Seq(Nat), Len(v) = Len(w), Len(v) >= 1,
         NEW x \in Nat, v[Len(v)] <= w[Len(v)] + x,
         \A i \in 1..(Len(v) - 1) : v[i] <= w[i]
  PROVE  Total(v) <= Total(w) + x
<1> DEFINE n == Len(v)
           u == [i \in 1..n |-> IF i = n THEN w[n] + x ELSE w[i]]
<1>1. n \in Nat /\ n >= 1 /\ \A i \in 1..n : w[i] \in Nat /\ v[i] \in Nat
  OBVIOUS
<1>2. n \in 1..n /\ n - 1 \in 0..n /\ \A i \in 1..n : i = n \/ i \in 1..(n - 1)
  BY <1>1
<1> HIDE DEF n
<1>3. u \in [1..n -> Nat]
  <2>1. w[n] + x \in Nat
    BY <1>1, <1>2
  <2>2. \A i \in 1..n : (IF i = n THEN w[n] + x ELSE w[i]) \in Nat
    BY <1>1, <2>1
  <2>3. QED
    BY <2>2
<1>4. u \in Seq(Nat) /\ Len(u) = n
  <2>1. \A m \in Nat : \A f \in [1..m -> Nat] : f \in Seq(Nat) /\ Len(f) = m
    OBVIOUS
  <2>2. QED
    BY <1>1, <1>3, <2>1, Zenon
<1>5. u[n] = w[n] + x /\ \A i \in 1..(n - 1) : u[i] = w[i]
  BY <1>1, <1>2
<1> HIDE DEF u
<1>6. Total(v) <= Total(u)
  <2>1. \A i \in 1..n : v[i] <= u[i]
    BY <1>1, <1>2, <1>5 DEF n
  <2>2. QED
    BY <1>4, <2>1, TotalGrows DEF n
<1>7. Running(u)[n - 1] = Running(w)[n - 1]
  <2>1. \A i \in 1..(n - 1) : u[0 + i] <= w[0 + i] /\ w[0 + i] <= u[0 + i]
    <3>1. \A i \in 1..(n - 1) : 0 + i = i /\ i \in 1..n
      BY <1>1
    <3>2. \A p, q \in Nat : p = q => p <= q /\ q <= p
      OBVIOUS
    <3>3. \A i \in 1..(n - 1) : u[i] = w[i] /\ w[i] \in Nat
      BY <1>1, <1>5, <3>1, Zenon
    <3>4. QED
      BY <3>1, <3>2, <3>3
  <2>2. 0 \in Nat /\ n - 1 \in Nat /\ 0 + (n - 1) <= Len(u) /\ 0 + (n - 1) <= Len(w)
        /\ 0 + (n - 1) = n - 1
    BY <1>1, <1>4 DEF n
  <2>3. Running(u)[0 + (n - 1)] - Running(u)[0] <= Running(w)[0 + (n - 1)] - Running(w)[0]
    BY <1>4, <2>1, <2>2, Compare, Zenon
  <2>4. Running(w)[0 + (n - 1)] - Running(w)[0] <= Running(u)[0 + (n - 1)] - Running(u)[0]
    BY <1>4, <2>1, <2>2, Compare, Zenon
  <2>5. Running(u)[0] = 0 /\ Running(w)[0] = 0
    BY <1>4, RunningStep
  <2>6. Running(u)[n - 1] \in Nat /\ Running(w)[n - 1] \in Nat
    <3>1. n - 1 \in 0..Len(u) /\ n - 1 \in 0..Len(w)
      BY <1>2, <1>4 DEF n
    <3>2. QED
      BY <1>4, <3>1, RunningGrows
  <2>7. QED
    BY <2>2, <2>3, <2>4, <2>5, <2>6
<1>8. Total(u) = Total(w) + x
  <2>1. n \in 1..Len(u) /\ n \in 1..Len(w) /\ Len(w) = n
    BY <1>2, <1>4 DEF n
  <2>2. Running(u)[n] = Running(u)[n - 1] + u[n] /\ Running(w)[n] = Running(w)[n - 1] + w[n]
    BY <1>4, <2>1, RunningStep
  <2>3. Running(w)[n - 1] \in Nat
    <3>1. n - 1 \in 0..Len(w)
      BY <1>2, <2>1
    <3>2. QED
      BY <3>1, RunningGrows
  <2>4. w[n] \in Nat
    BY <1>1, <1>2
  <2>5. Total(u) = Running(u)[n] /\ Total(w) = Running(w)[n]
    BY <1>4, <2>1 DEF Total
  <2>6. QED
    BY <1>5, <1>7, <2>2, <2>3, <2>4, <2>5
<1>9. QED
  BY <1>4, <1>6, <1>8, TotalType

\* The log forgets, from its head, only frames that have left the window, and
\* never the last one.
LEMMA RecentIs ==
  ASSUME NEW l \in Seq(Frame), NEW t \in Int
  PROVE  \E k \in 1..(Len(l) + 1) :
           /\ Recent(l, t) = SubSeq(l, k, Len(l))
           /\ l # <<>> => k <= Len(l)
           /\ row = "duty" => \A i \in 1..(k - 1) : l[i].stop <= t - Window
<1> DEFINE inside == {i \in DOMAIN l : row = "duty" /\ l[i].stop > t - Window}
           last == Max({Len(l), 1})
           S == inside \cup {last}
           k == Min(S)
<1>1. Len(l) \in Nat /\ DOMAIN l = 1..Len(l) /\ \A i \in 1..Len(l) : l[i].stop \in Nat
  BY FrameFields
<1>2. last \in {Len(l), 1} /\ last >= Len(l) /\ last >= 1
  <2>1. Len(l) \in Int /\ 1 \in Int
    BY <1>1
  <2>2. QED
    BY <2>1, GreaterOf, Zenon
<1> HIDE DEF last
<1>3. S \in SUBSET (1..(Len(l) + 1)) /\ last \in S
  BY <1>1, <1>2
<1>4. IsFiniteSet(S)
  <2>1. IsFiniteSet(1..(Len(l) + 1))
    BY <1>1, FS_Interval
  <2>2. QED
    BY <1>3, <2>1, FS_Subset, Zenon
<1>5. S \in SUBSET Int /\ S # {}
  BY <1>1, <1>3
<1> HIDE DEF S
<1>6. k \in S /\ \A y \in S : k <= y
  BY <1>4, <1>5, LeastOf
<1>7. k \in 1..(Len(l) + 1)
  BY <1>3, <1>6
<1> HIDE DEF k
<1>8. ASSUME l # <<>> PROVE k <= Len(l)
  <2>1. Len(l) >= 1
    BY <1>1, <1>8
  <2>2. last = Len(l)
    BY <1>1, <1>2, <2>1
  <2>3. QED
    BY <1>3, <1>6, <2>2
<1>9. ASSUME row = "duty", NEW i \in 1..(k - 1) PROVE l[i].stop <= t - Window
  <2>1. i \in 1..(Len(l) + 1) /\ ~(k <= i)
    BY <1>1, <1>7
  <2>2. i \notin S
    BY <1>6, <2>1
  <2>3. i # last
    BY <1>3, <2>2
  <2>4. i \in 1..Len(l)
    <3>1. k <= last
      BY <1>3, <1>6
    <3>2. QED
      BY <1>1, <1>2, <1>7, <2>1, <2>3, <3>1
  <2>5. ~(l[i].stop > t - Window)
    BY <1>1, <1>9, <2>2, <2>4 DEF S
  <2>6. QED
    BY <1>1, <2>4, <2>5, WrapFacts
<1>10. Recent(l, t) = SubSeq(l, k, Len(l))
  BY DEF Recent, k, S, last
<1>11. QED
  BY <1>7, <1>8, <1>9, <1>10

LEMMA LogRest ==
  ASSUME NEW l \in Seq(Frame), WellTimed(l), NEW k \in 1..(Len(l) + 1),
         NEW n \in Int, k - 1 <= n, NEW t \in Int
  PROVE  LET q == SubSeq(l, k, Len(l))
         IN /\ q \in Seq(Frame) /\ Len(q) = Len(l) - (k - 1) /\ WellTimed(q)
            /\ \A i \in 1..Len(q) : q[i] = l[(k - 1) + i] /\ (k - 1) + i \in 1..Len(l)
            /\ Total(Parts(q, n - (k - 1), t)) <= Total(Parts(l, n, t))
<1> DEFINE q == SubSeq(l, k, Len(l))
           m == n - (k - 1)
<1>1. Len(l) \in Nat /\ k \in Nat /\ k - 1 \in Nat /\ m \in Int
  BY FrameFields
<1>2. /\ q \in Seq(Frame) /\ Len(q) = Len(l) - (k - 1)
      /\ \A i \in 1..Len(q) : q[i] = l[(k - 1) + i] /\ (k - 1) + i \in 1..Len(l)
  BY Rest
<1> HIDE DEF q
<1>3. WellTimed(q)
  BY <1>2 DEF WellTimed
<1>4. /\ Parts(l, n, t) \in Seq(Nat) /\ Len(Parts(l, n, t)) = Len(l)
      /\ \A i \in 1..Len(l) : Parts(l, n, t)[i] = IF i <= n THEN Part(l[i], t) ELSE 0
  <2>1. Counts(l, n, t)
    BY PartsType, Zenon
  <2>2. QED
    BY <2>1, Zenon DEF Counts
<1>5. /\ Parts(q, m, t) \in Seq(Nat) /\ Len(Parts(q, m, t)) = Len(q)
      /\ \A i \in 1..Len(q) : Parts(q, m, t)[i] = IF i <= m THEN Part(q[i], t) ELSE 0
  <2>1. Counts(q, m, t)
    BY <1>1, <1>2, <1>3, PartsType, Zenon
  <2>2. QED
    BY <2>1, Zenon DEF Counts
<1>6. \A i \in 1..Len(q) : i <= m <=> (k - 1) + i <= n
  BY <1>1, <1>2
<1> HIDE DEF m
<1>7. \A i \in 1..Len(q) : Parts(q, m, t)[i] = Parts(l, n, t)[(k - 1) + i]
  <2>1. SUFFICES ASSUME NEW i \in 1..Len(q)
                 PROVE Parts(q, m, t)[i] = Parts(l, n, t)[(k - 1) + i]
    OBVIOUS
  <2>2. q[i] = l[(k - 1) + i] /\ (k - 1) + i \in 1..Len(l)
    BY <1>2
  <2>3. QED
    BY <1>4, <1>5, <1>6, <2>2, Zenon
<1>8. Total(Parts(q, m, t)) <= Total(Parts(l, n, t))
  <2> DEFINE u == Parts(q, m, t)
             w == Parts(l, n, t)
  <2>1. u \in Seq(Nat) /\ w \in Seq(Nat) /\ Len(u) = Len(q) /\ Len(w) = Len(l)
        /\ \A i \in 1..Len(q) : u[i] = w[(k - 1) + i]
    BY <1>4, <1>5, <1>7, Zenon
  <2> HIDE DEF u, w
  <2>2. k \in 1..(Len(w) + 1) /\ Len(u) = Len(w) - (k - 1)
        /\ \A i \in 1..Len(u) : u[i] = w[(k - 1) + i]
    BY <1>1, <1>2, <2>1
  <2>3. Total(u) = Total(w) - Running(w)[k - 1]
    BY <2>1, <2>2, TotalSuffix
  <2>4. Running(w)[k - 1] \in Nat
    <3>1. k - 1 \in 0..Len(w)
      BY <1>1, <2>1
    <3>2. QED
      BY <2>1, <3>1, RunningGrows
  <2>5. Total(u) <= Total(w)
    BY <2>1, <2>3, <2>4, TotalType
  <2>6. QED
    BY <2>5 DEF u, w
<1>9. QED
  BY <1>2, <1>3, <1>8 DEF q, m

\* Frames that are over: time only takes from their parts.
LEMMA LogAges ==
  ASSUME NEW l \in Seq(Frame), WellTimed(l), NEW n \in Int, NEW t \in Int,
         NEW u \in Int, t <= u, \A i \in 1..Len(l) : i <= n => l[i].stop <= t
  PROVE  Total(Parts(l, n, u)) <= Total(Parts(l, n, t))
<1>1. Counts(l, n, t) /\ Counts(l, n, u)
  BY PartsType, Zenon
<1>2. \A i \in 1..Len(l) : Parts(l, n, u)[i] <= Parts(l, n, t)[i]
  <2>1. SUFFICES ASSUME NEW i \in 1..Len(l) PROVE Parts(l, n, u)[i] <= Parts(l, n, t)[i]
    OBVIOUS
  <2>2. l[i] \in Frame
    BY FrameFields
  <2>3. CASE i <= n
    <3>1. Part(l[i], u) <= Part(l[i], t)
      BY <2>2, <2>3, PartAges
    <3>2. QED
      BY <1>1, <2>3, <3>1 DEF Counts
  <2>4. CASE ~(i <= n)
    <3>1. Parts(l, n, t)[i] = 0 /\ Parts(l, n, u)[i] = 0
      BY <1>1, <2>4 DEF Counts
    <3>2. QED
      BY <3>1
  <2>5. QED
    BY <2>3, <2>4
<1>3. QED
  BY <1>1, <1>2, TotalGrows DEF Counts

\* The last frame, when it is counted as well.
LEMMA LastFrame ==
  ASSUME NEW l \in Seq(Frame), WellTimed(l), Len(l) >= 1, NEW t \in Int
  PROVE  LET n == Len(l)
             e == l[Len(l)]
         IN /\ e.stop - e.start \in Nat
            /\ Total(Parts(l, n, t))
                 <= Total(Parts(l, n - 1, t))
                      + (IF e.stop > t - Window THEN e.stop - e.start ELSE 0)
<1> DEFINE n == Len(l)
           e == l[n]
           d == e.stop - e.start
           x == IF e.stop > t - Window THEN d ELSE 0
<1>1. n \in Nat /\ n >= 1 /\ n \in 1..n /\ n \in Int /\ n - 1 \in Int
  BY FrameFields
<1>2. e \in Frame /\ e.start <= e.stop
  BY <1>1, FrameFields DEF WellTimed
<1>10. /\ Part(e, t) \in Nat /\ Part(e, t) <= d /\ d \in Nat
       /\ ~(e.stop > t - Window) => Part(e, t) = 0
  BY <1>2, PartFacts
<1> HIDE DEF n, e, d
<1>3. Part(e, t) \in Nat /\ Part(e, t) <= x /\ d \in Nat /\ x \in Nat
  BY <1>10
<1> HIDE DEF x
<1>4. /\ Parts(l, n, t) \in Seq(Nat) /\ Len(Parts(l, n, t)) = n
      /\ \A i \in 1..n : Parts(l, n, t)[i] = IF i <= n THEN Part(l[i], t) ELSE 0
  <2>1. Counts(l, n, t)
    BY <1>1, PartsType, Zenon
  <2>2. QED
    BY <2>1, Zenon DEF Counts, n
<1>5. /\ Parts(l, n - 1, t) \in Seq(Nat) /\ Len(Parts(l, n - 1, t)) = n
      /\ \A i \in 1..n : Parts(l, n - 1, t)[i] = IF i <= n - 1 THEN Part(l[i], t) ELSE 0
  <2>1. Counts(l, n - 1, t)
    BY <1>1, PartsType, Zenon
  <2>2. QED
    BY <2>1, Zenon DEF Counts, n
<1>6. Parts(l, n, t)[n] = Part(e, t) /\ Parts(l, n - 1, t)[n] = 0
  <2>1. n <= n /\ ~(n <= n - 1)
    BY <1>1
  <2>2. QED
    BY <1>1, <1>4, <1>5, <2>1 DEF e
<1>7. \A i \in 1..(n - 1) : Parts(l, n, t)[i] = Parts(l, n - 1, t)[i]
  <2>1. \A i \in 1..(n - 1) : i \in 1..n /\ i <= n /\ i <= n - 1
    BY <1>1
  <2>2. QED
    BY <1>4, <1>5, <2>1
<1>8. Total(Parts(l, n, t)) <= Total(Parts(l, n - 1, t)) + x
  <2> DEFINE v == Parts(l, n, t)
             w == Parts(l, n - 1, t)
  <2> HIDE DEF v, w
  <2>1. v \in Seq(Nat) /\ w \in Seq(Nat) /\ Len(v) = n /\ Len(w) = n
        /\ v[n] = Part(e, t) /\ w[n] = 0 /\ \A i \in 1..(n - 1) : v[i] = w[i]
    BY <1>4, <1>5, <1>6, <1>7 DEF v, w
  <2>2. \A i \in 1..(Len(v) - 1) : v[i] <= w[i]
    <3>1. \A i \in 1..(n - 1) : i \in 1..Len(w)
      BY <1>1, <2>1
    <3>2. \A i \in 1..Len(w) : w[i] \in Nat
      BY <2>1, Elements, Zenon
    <3>3. QED
      BY <2>1, <3>1, <3>2
  <2>3. v[Len(v)] <= w[Len(v)] + x /\ Len(v) >= 1
    BY <1>1, <1>3, <2>1
  <2>4. QED
    BY <1>3, <2>1, <2>2, <2>3, LastAdds DEF v, w
<1>9. QED
  BY <1>3, <1>8 DEF n, e, d, x

\* A frame just begun.
LEMMA LogAppends ==
  ASSUME NEW l \in Seq(Frame), WellTimed(l), NEW e \in Frame, e.start <= e.stop,
         NEW t \in Int
  PROVE  LET q == Append(l, e)
             n == Len(l)
         IN /\ q \in Seq(Frame) /\ WellTimed(q) /\ Len(q) = n + 1 /\ q[n + 1] = e
            /\ \A i \in 1..n : q[i] = l[i]
            /\ Total(Parts(q, n, t)) = Total(Parts(l, n, t))
<1> DEFINE q == Append(l, e)
           n == Len(l)
<1>1. n \in Nat /\ n \in Int
  BY FrameFields
<1>2. /\ q \in Seq(Frame) /\ Len(q) = n + 1 /\ q[n + 1] = e
      /\ \A i \in 1..n : q[i] = l[i]
  BY <1>1
<1> HIDE DEF q
<1>3. \A i \in 1..(n + 1) : i = n + 1 \/ i \in 1..n
  BY <1>1
<1>4. WellTimed(q)
  BY <1>2, <1>3 DEF WellTimed
<1>5. /\ Parts(l, n, t) \in Seq(Nat) /\ Len(Parts(l, n, t)) = n
      /\ \A i \in 1..n : Parts(l, n, t)[i] = IF i <= n THEN Part(l[i], t) ELSE 0
  <2>1. Counts(l, n, t)
    BY <1>1, PartsType, Zenon
  <2>2. QED
    BY <2>1, Zenon DEF Counts
<1> HIDE DEF n
<1>6. /\ Parts(q, n, t) \in Seq(Nat) /\ Len(Parts(q, n, t)) = n + 1
      /\ \A i \in 1..(n + 1) : Parts(q, n, t)[i] = IF i <= n THEN Part(q[i], t) ELSE 0
  <2>1. /\ Parts(q, n, t) \in Seq(Nat) /\ Len(Parts(q, n, t)) = Len(q)
        /\ \A i \in 1..Len(q) : Parts(q, n, t)[i] = IF i <= n THEN Part(q[i], t) ELSE 0
    <3>1. Counts(q, n, t)
      BY <1>1, <1>2, <1>4, PartsType, Zenon
    <3>2. QED
      BY <3>1, Zenon DEF Counts
  <2>2. QED
    BY <1>2, <2>1
<1>7. n + 1 \in 1..(n + 1) /\ ~(n + 1 <= n) /\ \A i \in 1..n : i \in 1..(n + 1) /\ i <= n
  BY <1>1
<1>8. Total(Parts(q, n, t)) = Total(Parts(l, n, t)) + 0
  <2> DEFINE u == Parts(q, n, t)
             w == Parts(l, n, t)
  <2>1. u[n + 1] = 0 /\ \A i \in 1..n : u[i] = w[i]
    BY <1>2, <1>5, <1>6, <1>7
  <2> HIDE DEF u, w
  <2>2. u \in Seq(Nat) /\ w \in Seq(Nat) /\ Len(u) = Len(w) + 1 /\ Len(w) = n
    BY <1>5, <1>6 DEF u, w
  <2>3. u[Len(w) + 1] = 0 /\ \A i \in 1..Len(w) : u[i] = w[i]
    BY <2>1, <2>2
  <2>4. Total(u) = Total(w) + 0
    <3>1. 0 \in Nat
      OBVIOUS
    <3>2. QED
      BY <2>2, <2>3, <3>1, TotalAppend, Zenon
  <2>5. QED
    BY <2>4 DEF u, w
<1>9. Total(Parts(l, n, t)) \in Nat
  BY <1>5, TotalType
<1>10. Total(Parts(q, n, t)) = Total(Parts(l, n, t))
  BY <1>8, <1>9
<1>11. QED
  BY <1>2, <1>4, <1>10 DEF q, n

----------------------------------------------------------------------------
(***************************************************************************)
(* The invariant.  On a duty-cycle row there are real times E and B behind *)
(* the stamps of the ring and blocked_until, and for every time t from now *)
(* on the ring counts at least what the finished frames of the log have in *)
(* the window that ends at t - but for X[t], the airtime of frames whose   *)
(* record is lost.  A wait ends when the off-time is over and the ring has *)
(* room for the frame, so the frames before the one on the air leave room  *)
(* for its estimate.                                                       *)
(***************************************************************************)
Finished == IF pc = "air" THEN Len(log) - 1 ELSE Len(log)
LastOf(l) == l[Len(l)]

FrameInv ==
  /\ WellTimed(log) /\ \A i \in 1..Len(log) : i <= Finished => log[i].stop <= now
  /\ pc \in {"wait", "air"} => est # 0 /\ now <= until
  /\ pc = "air" =>
       /\ log # <<>> /\ LastOf(log).stop = until /\ LastOf(log).start <= now
       /\ LastOf(log).start + est <= until /\ until <= LastOf(log).start + est + Overrun
  /\ pc = "resume" => held # 0
  /\ row = "duty" => held = 0 /\ est \in FrameToa \cup {0} /\ pc # "resume"

RingInv(E, B) ==
  /\ Stamped(ring, E) /\ Sorted(E) /\ \A j \in 1..Len(E) : E[j] <= B
  /\ blocked = Millis(B) /\ B <= now + Window + Ratio * Overrun

CountInv(E, X) ==
  \A t \in Int : t >= now =>
    Total(Parts(log, Finished, t)) <= Total(Counted(ring, E, t - Window)) + X[t]

\* When the off-time after a frame is over.
FreeFrom(e) == e.stop + (Ratio - 1) * (e.stop - e.start)

WaitInv(E, B, X) ==
  /\ pc = "wait" =>
       B <= until /\ Total(Counted(ring, E, until - Window)) + est <= Budget
  /\ pc = "air" => B <= LastOf(log).start
  /\ pc = "air" =>
       \A t \in Int : t >= now => Total(Parts(log, Finished, t)) + est <= Budget + X[t]
  /\ pc # "air" =>
       \A t \in Int : t >= now => Total(Parts(log, Finished, t)) <= Budget + Overrun + X[t]
  /\ pc # "air" /\ log # <<>> /\ lost = 0 =>
       FreeFrom(LastOf(log)) <= B \/ FreeFrom(LastOf(log)) <= now

Accounted(X) ==
  \E E \in Seq(Int), B \in Int : RingInv(E, B) /\ CountInv(E, X) /\ WaitInv(E, B, X)

\* Airtime for every time.
Charges(X) == X \in [Int -> Nat]

DutyInv == \E X \in [Int -> Nat] : Accounted(X) /\ \A t \in Int : X[t] <= lost

GovernorInv == TypeOK /\ FrameInv /\ (row = "duty" => DutyInv)

LEMMA PruneType ==
  ASSUME NEW r \in Seq(Slot), NEW ms \in Int
  PROVE  \E k \in 1..(Len(r) + 1) :
           /\ Prune(r, ms) = SubSeq(r, k, Len(r))
           /\ Prune(r, ms) \in Seq(Slot) /\ Len(Prune(r, ms)) = Len(r) - (k - 1)
<1>1. \A j \in 1..Len(r) : Delta(ms, r[j].end) \in Int
  <2>1. SUFFICES ASSUME NEW j \in 1..Len(r) PROVE Delta(ms, r[j].end) \in Int
    OBVIOUS
  <2>2. r[j].end \in 0..(Wrap - 1)
    BY SlotFields
  <2>3. r[j].end \in Int
    BY <2>2, WrapFacts
  <2>4. QED
    BY <2>3, DeltaType
<1>2. PICK k \in 1..(Len(r) + 1) : Prune(r, ms) = SubSeq(r, k, Len(r))
  BY <1>1, PruneDrops
<1>3. QED
  BY <1>2, Rest

LEMMA StampTypes ==
  ASSUME TypeOK
  PROVE  /\ now \in Nat /\ epoch \in Nat /\ epoch <= now /\ Millis(now) \in 0..(Wrap - 1)
         /\ Millis(now) \in Int /\ blocked \in 0..(Wrap - 1) /\ blocked \in Int
         /\ ring \in Seq(Slot) /\ log \in Seq(Frame) /\ Len(ring) <= Slots
         /\ held \in Nat /\ est \in Nat /\ lost \in Nat
<1>1. now \in Nat /\ epoch \in Nat /\ epoch <= now
  BY DEF TypeOK
<1>2. Millis(now) \in 0..(Wrap - 1)
  BY <1>1, MillisType
<1>3. held \in Nat /\ est \in Nat
  BY WrapFacts DEF TypeOK
<1>4. QED
  BY <1>1, <1>2, <1>3, WrapFacts DEF TypeOK, Frame

\* Asking for a frame of toa.
LEMMA AskTypes ==
  ASSUME TypeOK, NEW toa \in FrameToa \cup {IdentToa}, AskFor(toa)
  PROVE  /\ ring' \in Seq(Slot) /\ Len(ring') <= Slots
         /\ est' = toa /\ toa \in Nat /\ toa # 0 /\ pc' = "wait"
         /\ until' \in Nat /\ now <= until'
<1>1. /\ ring' = Prune(ring, Millis(now)) /\ est' = toa /\ pc' = "wait"
      /\ until' = now + DelayMs(ring', blocked, Millis(now), toa)
  BY DEF AskFor
<1>2. toa \in Nat /\ toa # 0
  BY WrapFacts
<1>3. ring' \in Seq(Slot) /\ Len(ring') <= Slots
  <2>1. PICK k \in 1..(Len(ring) + 1) :
          Prune(ring, Millis(now)) \in Seq(Slot)
          /\ Len(Prune(ring, Millis(now))) = Len(ring) - (k - 1)
    BY StampTypes, PruneType
  <2>2. Len(ring) \in Nat /\ Len(ring) <= Slots
    BY StampTypes, SlotFields
  <2>3. QED
    BY <1>1, <2>1, <2>2, WrapFacts
<1>4. DelayMs(ring', blocked, Millis(now), toa) \in Nat
  <2>1. blocked \in Int /\ Millis(now) \in Int /\ toa \in Int
    BY <1>2, StampTypes
  <2>2. QED
    BY <1>3, <2>1, DelayIs
<1>5. QED
  BY <1>1, <1>2, <1>3, <1>4, StampTypes

LEMMA RecordedType ==
  ASSUME NEW r \in Seq(Slot), Len(r) <= Slots, NEW ms \in Int, NEW toa \in Nat, toa > 0
  PROVE  Recorded(r, ms, toa) \in Seq(Slot) /\ Len(Recorded(r, ms, toa)) <= Slots
<1> DEFINE f == Fold(r)
           s == [end |-> (ms + toa) % Wrap, toa |-> toa]
<1>1. f \in Seq(Slot) /\ Len(f) < Slots
  <2>1. Len(r) \in Nat
    BY SlotFields
  <2>2. CASE Len(r) = Slots
    <3> DEFINE E == [j \in 1..Len(r) |-> 0]
    <3>1. E \in Seq(Int) /\ Len(E) = Len(r)
      BY <2>1
    <3> HIDE DEF E
    <3>2. Fold(r) \in Seq(Slot) /\ Len(Fold(r)) = Len(r) - 1
      BY <2>2, <3>1, FoldIs
    <3>3. QED
      BY <2>1, <2>2, <3>2
  <2>3. CASE Len(r) # Slots
    BY <2>1, <2>3, WrapFacts DEF Fold
  <2>4. QED
    BY <2>2, <2>3
<1>2. s \in Slot
  <2>1. ms + toa \in Int
    OBVIOUS
  <2>2. (ms + toa) % Wrap \in 0..(Wrap - 1)
    BY <2>1, Residue
  <2>3. QED
    BY <2>2 DEF Slot
<1>3. Recorded(r, ms, toa) = Append(f, s)
  BY DEF Recorded
<1> HIDE DEF f, s
<1>4. Len(f) \in Nat /\ Slots \in Nat
  BY <1>1, WrapFacts
<1>5. Append(f, s) \in Seq(Slot) /\ Len(Append(f, s)) = Len(f) + 1
  BY <1>1, <1>2
<1>6. QED
  BY <1>1, <1>3, <1>4, <1>5

\* Each step keeps the types and the times of the frames.
LEMMA AskStep ==
  ASSUME TypeOK, FrameInv, NEW toa \in FrameToa \cup {IdentToa}, AskFor(toa),
         pc # "air", held' \in FrameToa \cup {0},
         ident' \in [has : BOOLEAN, at : 0..(Wrap - 1)],
         row = "duty" => held' = 0 /\ toa \in FrameToa
  PROVE  TypeOK' /\ FrameInv'
<1>1. /\ ring' \in Seq(Slot) /\ Len(ring') <= Slots
      /\ est' = toa /\ toa \in Nat /\ toa # 0 /\ pc' = "wait"
      /\ until' \in Nat /\ now <= until'
  BY AskTypes
<1>2. now' = now /\ epoch' = epoch /\ row' = row /\ blocked' = blocked
      /\ called' = called /\ log' = log /\ lost' = lost
  BY DEF AskFor
<1>3. TypeOK'
  BY <1>1, <1>2 DEF TypeOK
<1>4. Finished' = Len(log) /\ Finished = Len(log)
  BY <1>1, <1>2 DEF Finished
<1>5. FrameInv'
  <2>1. WellTimed(log)' /\ \A i \in 1..Len(log') : i <= Finished' => log'[i].stop <= now'
    BY <1>2, <1>4 DEF FrameInv, WellTimed
  <2>2. est' # 0 /\ now' <= until'
    BY <1>1, <1>2
  <2>3. row' = "duty" => held' = 0 /\ est' \in FrameToa \cup {0} /\ pc' # "resume"
    BY <1>1, <1>2
  <2>4. pc' # "air" /\ pc' # "resume"
    BY <1>1
  <2>5. QED
    BY <2>1, <2>2, <2>3, <2>4 DEF FrameInv
<1>6. QED
  BY <1>3, <1>5

LEMMA EmitStep ==
  ASSUME TypeOK, FrameInv, Emit
  PROVE  TypeOK' /\ FrameInv'
<1>1. /\ pc = "wait" /\ now = until /\ pc' = "air"
      /\ log' = Append(log, [start |-> now, stop |-> until'])
      /\ called' = IF held # 0 THEN now ELSE called
      /\ now' = now /\ epoch' = epoch /\ row' = row /\ ident' = ident
      /\ ring' = ring /\ blocked' = blocked /\ held' = held /\ est' = est /\ lost' = lost
  BY DEF Emit, govVars
<1>2. PICK toa \in est..(est + Overrun) : until' = now + toa
  BY DEF Emit
<1>3. now \in Nat /\ est \in Nat /\ est # 0 /\ Overrun \in Nat /\ log \in Seq(Frame)
  BY <1>1, StampTypes, WrapFacts DEF FrameInv
<1>4. toa \in Nat /\ est <= toa /\ toa <= est + Overrun
  BY <1>3
<1> DEFINE e == [start |-> now, stop |-> until']
<1>5. e \in Frame /\ e.start = now /\ e.stop = until' /\ e.start <= e.stop
  BY <1>2, <1>3, <1>4 DEF Frame
<1> HIDE DEF e
<1>6. /\ log' \in Seq(Frame) /\ WellTimed(log') /\ Len(log') = Len(log) + 1
      /\ log'[Len(log) + 1] = e /\ \A i \in 1..Len(log) : log'[i] = log[i]
  <2>1. log' = Append(log, e)
    BY <1>1 DEF e
  <2>2. WellTimed(log)
    BY DEF FrameInv
  <2>3. now \in Int
    BY <1>3
  <2>4. QED
    BY <1>3, <1>5, <2>1, <2>2, <2>3, LogAppends
<1>7. Len(log) \in Nat
  BY <1>3, FrameFields
<1>8. Finished' = Len(log) /\ Finished = Len(log)
  BY <1>1, <1>6, <1>7 DEF Finished
<1>9. TypeOK'
  <2>1. log' \in Seq([start : Nat, stop : Nat])
    BY <1>6 DEF Frame
  <2>2. until' \in Nat /\ called' \in Nat \cup {-1}
    BY <1>1, <1>2, <1>3, <1>4 DEF TypeOK
  <2>3. QED
    BY <1>1, <2>1, <2>2 DEF TypeOK
<1>10. FrameInv'
  <2>1. WellTimed(log)'
    BY <1>6 DEF WellTimed
  <2>2. \A i \in 1..Len(log') : i <= Finished' => log'[i].stop <= now'
    <3>1. SUFFICES ASSUME NEW i \in 1..Len(log'), i <= Finished' PROVE log'[i].stop <= now'
      OBVIOUS
    <3>2. i \in 1..Len(log) /\ i <= Finished
      BY <1>6, <1>7, <1>8, <3>1
    <3>3. log'[i] = log[i] /\ log[i].stop <= now
      BY <1>6, <3>2 DEF FrameInv
    <3>4. QED
      BY <1>1, <3>3
  <2>3. est' # 0 /\ now' <= until'
    BY <1>1, <1>2, <1>3, <1>4
  <2>4. LastOf(log)' = e
    BY <1>6 DEF LastOf
  <2>5. log' # <<>>
    BY <1>6, <1>7
  <2>6. /\ LastOf(log)'.stop = until' /\ LastOf(log)'.start <= now'
        /\ LastOf(log)'.start + est' <= until'
        /\ until' <= LastOf(log)'.start + est' + Overrun
    BY <1>1, <1>2, <1>3, <1>4, <1>5, <2>4
  <2>7. row' = "duty" => held' = 0 /\ est' \in FrameToa \cup {0} /\ pc' # "resume"
    BY <1>1 DEF FrameInv
  <2>8. pc' # "resume"
    BY <1>1
  <2>9. QED
    BY <2>1, <2>2, <2>3, <2>5, <2>6, <2>7, <2>8 DEF FrameInv
<1>11. QED
  BY <1>9, <1>10

\* The frame that was on the air when radio_send() returns.
LEMMA SentFrame ==
  ASSUME TypeOK, FrameInv, pc = "air", now = until
  PROVE  /\ Len(log) \in Nat /\ Len(log) >= 1 /\ Last(log) = LastOf(log)
         /\ LastOf(log) \in Frame /\ LastOf(log).stop = now
         /\ LastOf(log).start \in Nat /\ LastOf(log).start < now
         /\ LastOf(log).stop - LastOf(log).start = now - LastOf(log).start
         /\ now - LastOf(log).start \in Nat /\ now - LastOf(log).start > 0
         /\ now - LastOf(log).start <= est + Overrun
         /\ est <= now - LastOf(log).start
<1>1. /\ log # <<>> /\ LastOf(log).stop = until /\ est # 0
      /\ LastOf(log).start + est <= until /\ until <= LastOf(log).start + est + Overrun
  BY DEF FrameInv
<1>2. log \in Seq(Frame) /\ est \in Nat /\ now \in Nat /\ Overrun \in Nat
  BY StampTypes, WrapFacts
<1>3. Len(log) \in Nat /\ Len(log) >= 1
  BY <1>1, <1>2
<1>4. LastOf(log) \in Frame /\ LastOf(log).start \in Nat
  <2>1. Len(log) \in 1..Len(log)
    BY <1>3
  <2>2. QED
    BY <1>2, <2>1, FrameFields DEF LastOf
<1>5. Last(log) = LastOf(log)
  BY DEF Last, LastOf
<1> DEFINE a == LastOf(log).start
<1>6. a \in Nat /\ a + est <= now /\ now <= a + est + Overrun
  BY <1>1, <1>4
<1> HIDE DEF a
<1>7. a < now /\ now - a \in Nat /\ now - a > 0 /\ now - a <= est + Overrun /\ est <= now - a
  BY <1>1, <1>2, <1>6
<1>8. QED
  BY <1>1, <1>3, <1>4, <1>5, <1>7 DEF a

LEMMA SentStep ==
  ASSUME TypeOK, FrameInv, Record \/ SendFailed
  PROVE  TypeOK' /\ FrameInv'
<1>1. Sent
  BY DEF Record, SendFailed
<1>2. /\ pc = "air" /\ now = until /\ pc' = IF held # 0 THEN "resume" ELSE "idle"
      /\ est' = 0 /\ until' = 0 /\ now' = now /\ epoch' = epoch /\ held' = held /\ log' = log
      /\ row' = row /\ ident' = ident /\ called' = called
  BY <1>1 DEF Sent, identVars
<1>3. /\ Len(log) \in Nat /\ Len(log) >= 1 /\ Last(log) = LastOf(log)
      /\ LastOf(log).stop = now
      /\ now - LastOf(log).start \in Nat /\ now - LastOf(log).start > 0
  BY <1>2, SentFrame
<1>4. ring' \in Seq(Slot) /\ Len(ring') <= Slots /\ blocked' \in 0..(Wrap - 1) /\ lost' \in Nat
  <2>1. CASE SendFailed
    <3>1. ring' = ring /\ blocked' = blocked /\ lost' = lost + (now - Last(log).start)
      BY <2>1 DEF SendFailed, govVars
    <3>2. QED
      BY <1>3, <3>1, StampTypes
  <2>2. CASE Record /\ row = "amateur"
    <3>1. ring' = ring /\ blocked' = blocked /\ lost' = lost
      BY <2>2 DEF Record, govVars
    <3>2. QED
      BY <3>1, StampTypes
  <2>3. CASE Record /\ row # "amateur"
    <3> DEFINE toa == now - LastOf(log).start
    <3>1. /\ ring' = Recorded(ring, Millis(now), toa)
          /\ blocked' = BlockedUntil(Millis(now), toa) /\ lost' = lost
      BY <1>3, <2>3 DEF Record
    <3>2. toa \in Nat /\ toa > 0
      BY <1>3
    <3> HIDE DEF toa
    <3>3. Recorded(ring, Millis(now), toa) \in Seq(Slot)
          /\ Len(Recorded(ring, Millis(now), toa)) <= Slots
      BY <3>2, StampTypes, RecordedType
    <3>4. Millis(now) + toa * Ratio \in Int
      BY <3>2, StampTypes, WrapFacts
    <3>5. (Millis(now) + toa * Ratio) % Wrap \in 0..(Wrap - 1)
      BY <3>4, Residue
    <3>6. QED
      BY <3>1, <3>3, <3>5, StampTypes DEF BlockedUntil
  <2>4. QED
    BY <2>1, <2>2, <2>3
<1>5. TypeOK'
  BY <1>2, <1>4 DEF TypeOK
<1>6. pc' # "air" /\ pc' # "wait" /\ Finished' = Len(log)
  BY <1>2 DEF Finished
<1>7. \A i \in 1..Len(log) : log[i].stop <= now
  <2>1. SUFFICES ASSUME NEW i \in 1..Len(log) PROVE log[i].stop <= now
    OBVIOUS
  <2>2. Finished = Len(log) - 1
    BY <1>2 DEF Finished
  <2>3. CASE i <= Len(log) - 1
    BY <2>2, <2>3 DEF FrameInv
  <2>4. CASE i = Len(log)
    BY <1>3, <2>4, StampTypes DEF LastOf
  <2>5. QED
    BY <1>3, <2>3, <2>4
<1>8. FrameInv'
  <2>1. WellTimed(log)' /\ \A i \in 1..Len(log') : i <= Finished' => log'[i].stop <= now'
    BY <1>2, <1>7 DEF FrameInv, WellTimed
  <2>2. pc' = "resume" => held' # 0
    BY <1>2
  <2>3. row' = "duty" => held' = 0 /\ est' \in FrameToa \cup {0} /\ pc' # "resume"
    BY <1>2 DEF FrameInv
  <2>4. QED
    BY <1>6, <2>1, <2>2, <2>3 DEF FrameInv
<1>9. QED
  BY <1>5, <1>8

\* A question to the governor, or a copy of its ring.
LEMMA PruneStep ==
  ASSUME TypeOK, FrameInv, ring' = Prune(ring, Millis(now)),
         UNCHANGED <<now, epoch, blocked, txVars, identVars, log, lost>>
  PROVE  TypeOK' /\ FrameInv'
<1>1. /\ now' = now /\ epoch' = epoch
      /\ blocked' = blocked /\ pc' = pc /\ held' = held /\ est' = est /\ until' = until
      /\ row' = row /\ ident' = ident /\ called' = called /\ log' = log /\ lost' = lost
  BY DEF txVars, identVars
<1>2. ring' \in Seq(Slot) /\ Len(ring') <= Slots
  <2>1. PICK k \in 1..(Len(ring) + 1) :
          Prune(ring, Millis(now)) \in Seq(Slot)
          /\ Len(Prune(ring, Millis(now))) = Len(ring) - (k - 1)
    BY StampTypes, PruneType
  <2>2. Len(ring) \in Nat /\ Len(ring) <= Slots
    BY StampTypes, SlotFields
  <2>3. QED
    BY <2>1, <2>2, WrapFacts
<1>3. TypeOK'
  BY <1>1, <1>2 DEF TypeOK
<1>4. FrameInv'
  BY <1>1 DEF FrameInv, Finished, LastOf, WellTimed
<1>5. QED
  BY <1>3, <1>4

\* A tick of the clock.
TimePasses ==
  /\ now' = now + 1 /\ log' = Recent(log, now')
  /\ pc \in {"wait", "air"} => now < until
  /\ UNCHANGED <<epoch, govVars, txVars, identVars, lost>>

LEMMA TimeStep ==
  ASSUME TypeOK, FrameInv, TimePasses
  PROVE  /\ TypeOK' /\ FrameInv'
         /\ log' # <<>> => log # <<>> /\ LastOf(log)' = LastOf(log)
         /\ \A t \in Int :
              Total(Parts(log', Finished', t)) <= Total(Parts(log, Finished, t))
<1>1. /\ now' = now + 1 /\ log' = Recent(log, now + 1) /\ epoch' = epoch
      /\ ring' = ring /\ blocked' = blocked /\ pc' = pc /\ held' = held /\ est' = est
      /\ until' = until /\ row' = row /\ ident' = ident /\ called' = called /\ lost' = lost
      /\ pc \in {"wait", "air"} => now < until
  BY DEF TimePasses, govVars, txVars, identVars
<1>2. now \in Nat /\ now + 1 \in Nat /\ now + 1 \in Int /\ log \in Seq(Frame) /\ WellTimed(log)
  BY StampTypes DEF FrameInv
<1>3. PICK k \in 1..(Len(log) + 1) :
        log' = SubSeq(log, k, Len(log)) /\ (log # <<>> => k <= Len(log))
  BY <1>1, <1>2, RecentIs
<1>4. Len(log) \in Nat /\ k - 1 \in Nat /\ k \in Nat
  BY <1>2, FrameFields
<1>5. Finished \in Int /\ k - 1 <= Finished
  <2>1. CASE pc = "air"
    <3>1. log # <<>> /\ k <= Len(log)
      BY <1>3, <2>1 DEF FrameInv
    <3>2. QED
      BY <1>4, <2>1, <3>1 DEF Finished
  <2>2. CASE pc # "air"
    BY <1>3, <1>4, <2>2 DEF Finished
  <2>3. QED
    BY <2>1, <2>2
<1>6. \A t \in Int :
        /\ log' \in Seq(Frame) /\ Len(log') = Len(log) - (k - 1) /\ WellTimed(log')
        /\ \A i \in 1..Len(log') : log'[i] = log[(k - 1) + i] /\ (k - 1) + i \in 1..Len(log)
        /\ Total(Parts(log', Finished - (k - 1), t)) <= Total(Parts(log, Finished, t))
  <2>1. SUFFICES ASSUME NEW t \in Int PROVE
        /\ log' \in Seq(Frame) /\ Len(log') = Len(log) - (k - 1) /\ WellTimed(log')
        /\ \A i \in 1..Len(log') : log'[i] = log[(k - 1) + i] /\ (k - 1) + i \in 1..Len(log)
        /\ Total(Parts(log', Finished - (k - 1), t)) <= Total(Parts(log, Finished, t))
    OBVIOUS
  <2> DEFINE n == Finished
  <2>2. n \in Int /\ k - 1 <= n
    BY <1>5
  <2> HIDE DEF n
  <2>3. LET q == SubSeq(log, k, Len(log))
        IN /\ q \in Seq(Frame) /\ Len(q) = Len(log) - (k - 1) /\ WellTimed(q)
           /\ \A i \in 1..Len(q) : q[i] = log[(k - 1) + i] /\ (k - 1) + i \in 1..Len(log)
           /\ Total(Parts(q, n - (k - 1), t)) <= Total(Parts(log, n, t))
    BY <1>2, <2>2, LogRest
  <2>4. QED
    BY <1>3, <2>3 DEF n
<1>7. /\ log' \in Seq(Frame) /\ Len(log') = Len(log) - (k - 1) /\ WellTimed(log')
      /\ \A i \in 1..Len(log') : log'[i] = log[(k - 1) + i] /\ (k - 1) + i \in 1..Len(log)
  BY <1>2, <1>6
<1>8. Finished' = Finished - (k - 1)
  BY <1>1, <1>4, <1>7 DEF Finished
<1>9. log' # <<>> => log # <<>> /\ LastOf(log') = LastOf(log)
  <2>1. SUFFICES ASSUME log' # <<>> PROVE log # <<>> /\ LastOf(log') = LastOf(log)
    OBVIOUS
  <2>2. Len(log') \in Nat /\ Len(log') # 0
    BY <1>7, <2>1
  <2>3. Len(log') \in 1..Len(log') /\ (k - 1) + Len(log') = Len(log) /\ Len(log) # 0
    BY <1>4, <1>7, <2>2
  <2>4. QED
    BY <1>7, <2>3 DEF LastOf
<1>10. log # <<>> => log' # <<>>
  <2>1. ASSUME log # <<>> PROVE Len(log') # 0
    BY <1>3, <1>4, <1>7, <2>1
  <2>2. QED
    BY <2>1
<1>11. TypeOK'
  <2>1. log' \in Seq([start : Nat, stop : Nat])
    BY <1>7 DEF Frame
  <2>2. epoch \in 0..(now + 1)
    BY <1>2, StampTypes
  <2>3. QED
    BY <1>1, <1>2, <2>1, <2>2 DEF TypeOK
<1>12. \A i \in 1..Len(log) : i <= Finished => log[i].stop <= now /\ log[i].stop <= now + 1
  <2>1. \A i \in 1..Len(log) : log[i].stop \in Nat
    BY <1>2, FrameFields
  <2>2. QED
    BY <1>2, <2>1 DEF FrameInv
<1>13. FrameInv'
  <2>1. WellTimed(log)'
    BY <1>7 DEF WellTimed
  <2>2. \A i \in 1..Len(log') : i <= Finished' => log'[i].stop <= now'
    <3>1. SUFFICES ASSUME NEW i \in 1..Len(log'), i <= Finished' PROVE log'[i].stop <= now'
      OBVIOUS
    <3>2. log'[i] = log[(k - 1) + i] /\ (k - 1) + i \in 1..Len(log)
      BY <1>7
    <3>3. (k - 1) + i <= Finished
      BY <1>4, <1>5, <1>8, <3>1
    <3>4. QED
      BY <1>1, <1>12, <3>2, <3>3
  <2>3. pc' \in {"wait", "air"} => est' # 0 /\ now' <= until'
    <3>1. until \in Nat
      BY DEF TypeOK
    <3>2. QED
      BY <1>1, <1>2, <3>1 DEF FrameInv
  <2>4. pc' = "air" =>
          /\ log' # <<>> /\ LastOf(log)'.stop = until' /\ LastOf(log)'.start <= now'
          /\ LastOf(log)'.start + est' <= until'
          /\ until' <= LastOf(log)'.start + est' + Overrun
    <3>1. SUFFICES ASSUME pc = "air"
                   PROVE  /\ log' # <<>> /\ LastOf(log).stop = until /\ LastOf(log).start <= now + 1
                          /\ LastOf(log).start + est <= until
                          /\ until <= LastOf(log).start + est + Overrun
      BY <1>1, <1>9
    <3>2. LastOf(log).start \in Nat
      <4>1. Len(log) \in 1..Len(log)
        BY <1>4, <3>1 DEF FrameInv
      <4>2. QED
        BY <1>2, <4>1, FrameFields DEF LastOf
    <3>3. /\ log # <<>> /\ LastOf(log).stop = until /\ LastOf(log).start <= now
          /\ LastOf(log).start + est <= until /\ until <= LastOf(log).start + est + Overrun
      BY <3>1 DEF FrameInv
    <3>4. QED
      BY <1>2, <1>10, <3>2, <3>3
  <2>5. pc' = "resume" => held' # 0
    BY <1>1 DEF FrameInv
  <2>6. row' = "duty" => held' = 0 /\ est' \in FrameToa \cup {0} /\ pc' # "resume"
    BY <1>1 DEF FrameInv
  <2>7. QED
    BY <2>1, <2>2, <2>3, <2>4, <2>5, <2>6 DEF FrameInv
<1>14. \A t \in Int : Total(Parts(log', Finished', t)) <= Total(Parts(log, Finished, t))
  BY <1>6, <1>8
<1>15. QED
  BY <1>9, <1>11, <1>13, <1>14

----------------------------------------------------------------------------
(***************************************************************************)
(* Each step keeps what the ring counts.                                   *)
(***************************************************************************)
LEMMA CountedTotal ==
  ASSUME NEW r \in Seq(Slot), NEW E \in Seq(Int), Stamped(r, E), NEW T \in Int
  PROVE  Total(Counted(r, E, T)) \in Nat
<1>1. Len(E) = Len(r)
  BY DEF Stamped
<1>2. Counted(r, E, T) \in Seq(Nat)
  BY <1>1, CountedType
<1>3. QED
  BY <1>2, TotalType

\* A later window counts no more, nor do earlier ends.
LEMMA CountedAges ==
  ASSUME NEW r \in Seq(Slot), NEW E \in Seq(Int), NEW F \in Seq(Int),
         Len(E) = Len(r), Len(F) = Len(r), NEW T \in Int, NEW U \in Int,
         \A j \in 1..Len(r) : F[j] > U => E[j] > T
  PROVE  Total(Counted(r, F, U)) <= Total(Counted(r, E, T))
<1>1. /\ Counted(r, F, U) \in Seq(Nat) /\ Len(Counted(r, F, U)) = Len(r)
      /\ \A j \in 1..Len(r) : Counted(r, F, U)[j] = IF F[j] > U THEN r[j].toa ELSE 0
  BY CountedType, SMTT(60)
<1>2. /\ Counted(r, E, T) \in Seq(Nat) /\ Len(Counted(r, E, T)) = Len(r)
      /\ \A j \in 1..Len(r) : Counted(r, E, T)[j] = IF E[j] > T THEN r[j].toa ELSE 0
  BY CountedType, Zenon
<1>3. \A j \in 1..Len(r) : r[j].toa \in Nat
  BY SlotFields
<1>4. \A j \in 1..Len(r) : Counted(r, F, U)[j] <= Counted(r, E, T)[j]
  <2>1. SUFFICES ASSUME NEW j \in 1..Len(r) PROVE Counted(r, F, U)[j] <= Counted(r, E, T)[j]
    OBVIOUS
  <2>2. PICK a : a = r[j].toa
    OBVIOUS
  <2>3. a \in Nat
    BY <1>3, <2>2, Zenon
  <2>4. Counted(r, F, U)[j] = (IF F[j] > U THEN a ELSE 0)
    BY <1>1, <2>2, Zenon
  <2>5. Counted(r, E, T)[j] = (IF E[j] > T THEN a ELSE 0)
    BY <1>2, <2>2, Zenon
  <2>6. F[j] > U => E[j] > T
    BY Zenon
  <2>7. QED
    BY <2>3, <2>4, <2>5, <2>6
<1>5. QED
  BY <1>1, <1>2, <1>4, TotalGrows

LEMMA LogTotals ==
  ASSUME TypeOK, FrameInv
  PROVE  /\ Finished \in Int /\ log \in Seq(Frame) /\ WellTimed(log)
         /\ \A t \in Int : Total(Parts(log, Finished, t)) \in Nat
<1>1. log \in Seq(Frame) /\ WellTimed(log)
  BY StampTypes DEF FrameInv
<1>2. Finished \in Int
  BY <1>1, FrameFields DEF Finished
<1>3. QED
  BY <1>1, <1>2, PartsTotal

LEMMA ClockRoom ==
  ASSUME ClockFits
  PROVE  /\ 2 * Window + Ratio * Overrun < Wrap \div 2
         /\ Ratio * Overrun \in Nat /\ Window \in Nat /\ Wrap \div 2 \in Nat
<1> DEFINE h == Wrap \div 2
           x == Ratio * Overrun
<1>1. x \in Nat
  BY WrapFacts
<1>2. Window \in Nat /\ h \in Nat /\ Wrap \in Nat /\ Wrap <= 2 * h + 1
  BY WrapFacts
<1>3. 2 * (2 * Window + x + 1) <= Wrap
  BY DEF ClockFits
<1> HIDE DEF h, x
<1>4. 2 * Window + x < h
  BY <1>1, <1>2, <1>3
<1>5. QED
  BY <1>1, <1>2, <1>4 DEF h, x

LEMMA PruneKeeps ==
  ASSUME ClockFits, TypeOK, NEW E \in Seq(Int), NEW B \in Int, RingInv(E, B)
  PROVE  LET q == Prune(ring, Millis(now))
         IN /\ q \in Seq(Slot)
            /\ \E F \in Seq(Int) :
                 /\ Stamped(q, F) /\ Sorted(F) /\ \A j \in 1..Len(F) : F[j] <= B
                 /\ \A T \in Int : T >= now - Window =>
                      Total(Counted(q, F, T)) = Total(Counted(ring, E, T))
<1>1. /\ now \in Int /\ epoch \in Int /\ ring \in Seq(Slot) /\ Len(ring) \in Nat
      /\ Len(E) = Len(ring) /\ Stamped(ring, E) /\ Sorted(E)
      /\ \A j \in 1..Len(ring) : E[j] \in Int /\ E[j] <= B
      /\ B <= now + Window + Ratio * Overrun
  <2>1. ring \in Seq(Slot) /\ now \in Int /\ epoch \in Int
    BY StampTypes
  <2>2. Stamped(ring, E) /\ Sorted(E) /\ \A j \in 1..Len(E) : E[j] <= B
    BY DEF RingInv
  <2>3. Len(E) = Len(ring) /\ Len(ring) \in Nat
    BY <2>1, <2>2, SlotFields DEF Stamped
  <2>4. QED
    BY <2>1, <2>2, <2>3 DEF RingInv
<1>2. \A j \in 1..Len(ring) : E[j] - now <= Wrap \div 2
  <2>1. SUFFICES ASSUME NEW j \in 1..Len(ring) PROVE E[j] - now <= Wrap \div 2
    OBVIOUS
  <2>2. E[j] \in Int /\ E[j] <= B
    BY <1>1
  <2> DEFINE x == Ratio * Overrun
             h == Wrap \div 2
  <2>3. 2 * Window + x < h /\ x \in Nat /\ Window \in Nat /\ h \in Nat
        /\ B <= now + Window + x
    BY <1>1, ClockRoom
  <2> HIDE DEF x, h
  <2>4. now \in Int /\ E[j] - now <= h
    BY <1>1, <2>2, <2>3
  <2>5. QED
    BY <2>4 DEF h
<1>3. PICK k \in 1..(Len(ring) + 1) :
        /\ Prune(ring, Millis(now)) = SubSeq(ring, k, Len(ring))
        /\ \A j \in 1..(k - 1) : E[j] <= now - Window
  BY <1>1, <1>2, PruneSafe
<1> DEFINE q == SubSeq(ring, k, Len(ring))
           F == SubSeq(E, k, Len(E))
           m == Len(ring) - (k - 1)
<1>4. /\ q \in Seq(Slot) /\ Len(q) = m
      /\ \A j \in 1..m : q[j] = ring[(k - 1) + j] /\ (k - 1) + j \in 1..Len(ring)
  BY <1>1, Rest
<1>5. F \in Seq(Int) /\ Len(F) = m /\ \A j \in 1..m : F[j] = E[(k - 1) + j]
  BY <1>1, Rest
<1>6. \A T \in Int : T >= now - Window => Total(Counted(q, F, T)) = Total(Counted(ring, E, T))
  <2>1. SUFFICES ASSUME NEW T \in Int, T >= now - Window
                 PROVE Total(Counted(q, F, T)) = Total(Counted(ring, E, T))
    OBVIOUS
  <2>2. \A j \in 1..(k - 1) : E[j] <= T
    <3>1. SUFFICES ASSUME NEW j \in 1..(k - 1) PROVE E[j] <= T
      OBVIOUS
    <3>2. j \in 1..Len(ring) /\ E[j] <= now - Window
      BY <1>1, <1>3
    <3>3. E[j] \in Int /\ now - Window \in Int
      <4>1. now \in Int /\ Window \in Nat
        BY <1>1, WrapFacts
      <4>2. QED
        BY <1>1, <3>2, <4>1
    <3>4. QED
      BY <2>1, <3>2, <3>3
  <2>3. QED
    BY <1>1, <2>2, CountedRest
<1> HIDE DEF q, F
<1>7. Stamped(q, F)
  BY <1>1, <1>4, <1>5 DEF Stamped
<1>8. \A j \in 1..Len(F) : F[j] <= B
  BY <1>1, <1>4, <1>5
<1>9. Sorted(F)
  <2>1. SUFFICES ASSUME NEW i \in 1..m, NEW j \in 1..m, i <= j PROVE F[i] <= F[j]
    BY <1>5 DEF Sorted
  <2>2. /\ (k - 1) + i \in 1..Len(E) /\ (k - 1) + j \in 1..Len(E)
        /\ (k - 1) + i <= (k - 1) + j
    BY <1>1, <1>4, <2>1
  <2>3. E[(k - 1) + i] <= E[(k - 1) + j]
    BY <1>1, <2>2 DEF Sorted
  <2>4. QED
    BY <1>5, <2>3
<1>10. Prune(ring, Millis(now)) = q
  BY <1>3 DEF q
<1>11. QED
  BY <1>4, <1>5, <1>6, <1>7, <1>8, <1>9, <1>10, Zenon

LEMMA AskDuty ==
  ASSUME FramesFit, ClockFits, TypeOK, FrameInv, row = "duty", pc # "air",
         NEW X, Charges(X), NEW E \in Seq(Int), NEW B \in Int,
         RingInv(E, B), CountInv(E, X), WaitInv(E, B, X),
         NEW toa \in FrameToa, AskFor(toa)
  PROVE  Accounted(X)'
<1>1. /\ ring' = Prune(ring, Millis(now)) /\ est' = toa /\ pc' = "wait"
      /\ until' = now + DelayMs(ring', blocked, Millis(now), toa)
      /\ now' = now /\ epoch' = epoch /\ row' = row /\ blocked' = blocked
      /\ log' = log /\ lost' = lost
  BY DEF AskFor
<1>2. PICK F \in Seq(Int) :
        /\ Stamped(ring', F) /\ Sorted(F) /\ \A j \in 1..Len(F) : F[j] <= B
        /\ \A T \in Int : T >= now - Window =>
             Total(Counted(ring', F, T)) = Total(Counted(ring, E, T))
  BY <1>1, PruneKeeps
<1>3. ring' \in Seq(Slot)
  BY AskTypes
<1>4. now \in Int /\ epoch \in Int /\ Window \in Nat
  BY StampTypes, WrapFacts
<1>5. blocked = Millis(B) /\ B <= now + Window + Ratio * Overrun
  BY DEF RingInv
<1>6. RingInv(F, B)'
  <2>1. Stamped(ring, F)'
    BY <1>1, <1>2 DEF Stamped, Millis
  <2>2. blocked' = Millis(B)'
    BY <1>1, <1>5 DEF Millis
  <2>3. Sorted(F) /\ \A j \in 1..Len(F) : F[j] <= B
    BY <1>2
  <2>4. QED
    BY <1>1, <1>5, <2>1, <2>2, <2>3 DEF RingInv
<1>7. Finished' = Finished
  BY <1>1 DEF Finished
<1>8. CountInv(F, X)'
  <2>1. SUFFICES ASSUME NEW t \in Int, t >= now
                 PROVE Total(Parts(log, Finished, t)) <= Total(Counted(ring', F, t - Window)) + X[t]
    BY <1>1, <1>7 DEF CountInv
  <2>2. t - Window \in Int /\ t - Window >= now - Window
    BY <1>4, <2>1
  <2>3. Total(Counted(ring', F, t - Window)) = Total(Counted(ring, E, t - Window))
    BY <1>2, <2>2
  <2>4. QED
    BY <2>1, <2>3 DEF CountInv
<1>12. PICK d : d = DelayMs(ring', blocked, Millis(now), toa)
  OBVIOUS
<1>9. d \in Nat /\ now + d >= B /\ Total(Counted(ring', F, now + d - Window)) + toa <= Budget
  <2>1. d = DelayMs(ring', Millis(B), Millis(now), toa)
    BY <1>5, <1>12
  <2>2. row # "amateur"
    OBVIOUS
  <2>3. Len(F) = Len(ring')
    BY <1>2 DEF Stamped
  <2>4. /\ \A j \in 1..Len(ring') : F[j] <= B
        /\ \A j, k \in 1..Len(ring') : j <= k => F[j] <= F[k]
    BY <1>2, <2>3 DEF Sorted
  <2>5. QED
    BY <1>2, <1>3, <1>4, <1>5, <2>1, <2>2, <2>4, WaitSuffices
<1>10. WaitInv(F, B, X)'
  <2>9. until' = now + d
    BY <1>1, <1>12
  <2>5. B <= until'
    <3>1. d \in Nat /\ now + d >= B
      BY <1>9
    <3>2. QED
      BY <1>4, <2>9, <3>1
  <2>6. Total(Counted(ring', F, now + d - Window)) + toa <= Budget /\ est' = toa
    BY <1>1, <1>9, Zenon
  <2>8. until' - Window = now + d - Window
    <3>1. d \in Nat
      BY <1>9
    <3>2. QED
      BY <1>4, <2>9, <3>1
  <2>7. Total(Counted(ring', F, until' - Window)) + est' <= Budget
    BY <2>6, <2>8
  <2>1. B <= until' /\ Total(Counted(ring', F, until' - Window)) + est' <= Budget
    BY <2>5, <2>7, Zenon
  <2>2. \A t \in Int : t >= now =>
          Total(Parts(log, Finished, t)) <= Budget + Overrun + X[t]
    BY DEF WaitInv
  <2>3. log # <<>> /\ lost = 0 => FreeFrom(LastOf(log)) <= B \/ FreeFrom(LastOf(log)) <= now
    BY DEF WaitInv
  <2>4. QED
    BY <1>1, <1>7, <2>1, <2>2, <2>3 DEF WaitInv
<1>11. QED
  BY <1>6, <1>8, <1>10 DEF Accounted

LEMMA QueryDuty ==
  ASSUME ClockFits, TypeOK, FrameInv, row = "duty", pc = "idle",
         NEW X, Charges(X), NEW E \in Seq(Int), NEW B \in Int,
         RingInv(E, B), CountInv(E, X), WaitInv(E, B, X),
         ring' = Prune(ring, Millis(now)),
         UNCHANGED <<now, epoch, blocked, txVars, identVars, log, lost>>
  PROVE  Accounted(X)'
<1>1. /\ now' = now /\ epoch' = epoch /\ row' = row /\ blocked' = blocked
      /\ log' = log /\ lost' = lost /\ pc' = pc /\ est' = est /\ until' = until
  BY DEF txVars, identVars
<1>2. PICK F \in Seq(Int) :
        /\ Stamped(ring', F) /\ Sorted(F) /\ \A j \in 1..Len(F) : F[j] <= B
        /\ \A T \in Int : T >= now - Window =>
             Total(Counted(ring', F, T)) = Total(Counted(ring, E, T))
  BY PruneKeeps
<1>3. RingInv(F, B)'
  <2>1. Stamped(ring, F)'
    BY <1>1, <1>2 DEF Stamped, Millis
  <2>2. blocked' = Millis(B)'
    BY <1>1 DEF Millis, RingInv
  <2>3. B <= now' + Window + Ratio * Overrun
    BY <1>1 DEF RingInv
  <2>4. Sorted(F) /\ \A j \in 1..Len(F) : F[j] <= B
    BY <1>2
  <2>5. QED
    BY <2>1, <2>2, <2>3, <2>4 DEF RingInv
<1>4. Finished' = Finished
  BY <1>1 DEF Finished
<1>5. CountInv(F, X)'
  <2>1. SUFFICES ASSUME NEW t \in Int, t >= now
                 PROVE Total(Parts(log, Finished, t)) <= Total(Counted(ring', F, t - Window)) + X[t]
    BY <1>1, <1>4 DEF CountInv
  <2>2. t - Window \in Int /\ t - Window >= now - Window
    <3>1. now \in Nat
      BY StampTypes
    <3>2. QED
      BY <2>1, <3>1, WrapFacts
  <2>3. Total(Counted(ring', F, t - Window)) = Total(Counted(ring, E, t - Window))
    BY <1>2, <2>2
  <2>4. QED
    BY <2>1, <2>3 DEF CountInv
<1>6. WaitInv(F, B, X)'
  <2>1. pc' # "wait" /\ pc' # "air"
    BY <1>1
  <2>2. \A t \in Int : t >= now =>
          Total(Parts(log, Finished, t)) <= Budget + Overrun + X[t]
    BY DEF WaitInv
  <2>3. log # <<>> /\ lost = 0 => FreeFrom(LastOf(log)) <= B \/ FreeFrom(LastOf(log)) <= now
    BY DEF WaitInv
  <2>4. QED
    BY <1>1, <1>4, <2>1, <2>2, <2>3 DEF WaitInv
<1>7. QED
  BY <1>3, <1>5, <1>6 DEF Accounted

LEMMA EmitDuty ==
  ASSUME TypeOK, FrameInv, row = "duty",
         NEW X, Charges(X), NEW E \in Seq(Int), NEW B \in Int,
         RingInv(E, B), CountInv(E, X), WaitInv(E, B, X), Emit
  PROVE  Accounted(X)'
<1> DEFINE n == Len(log)
           e == [start |-> now, stop |-> until']
<1>1. /\ pc = "wait" /\ now = until /\ pc' = "air" /\ log' = Append(log, e)
      /\ now' = now /\ epoch' = epoch /\ row' = row /\ ring' = ring /\ blocked' = blocked
      /\ est' = est /\ lost' = lost
  BY DEF Emit, govVars
<1>2. now \in Nat /\ log \in Seq(Frame) /\ lost \in Nat /\ ring \in Seq(Slot) /\ est \in Nat
  BY StampTypes
<1>3. until' \in Nat /\ now <= until'
  <2>1. Overrun \in Nat
    BY GovernorAssumption
  <2>2. PICK toa \in est..(est + Overrun) : until' = now + toa
    BY DEF Emit
  <2>3. QED
    BY <1>2, <2>1, <2>2
<1>4. e \in Frame /\ e.start = now /\ e.stop = until'
  BY <1>2, <1>3 DEF Frame
<1>5. WellTimed(log) /\ Finished = n /\ n \in Nat
  BY <1>1, <1>2 DEF FrameInv, Finished
<1> HIDE DEF e
<1>6. /\ Len(log') = n + 1 /\ log'[n + 1] = e
      /\ \A t \in Int : Total(Parts(log', n, t)) = Total(Parts(log, n, t))
  <2>1. e.start <= e.stop
    BY <1>3, <1>4
  <2>2. SUFFICES ASSUME NEW t \in Int
                 PROVE  /\ Len(log') = n + 1 /\ log'[n + 1] = e
                        /\ Total(Parts(log', n, t)) = Total(Parts(log, n, t))
    <3>1. 0 \in Int
      OBVIOUS
    <3>2. QED
      BY <3>1, Zenon
  <2>3. QED
    BY <1>1, <1>2, <1>4, <1>5, <2>1, LogAppends
<1>7. Finished' = n
  BY <1>1, <1>5, <1>6 DEF Finished
<1>8. RingInv(E, B)'
  <2>1. Stamped(ring, E)' /\ blocked' = Millis(B)'
    BY <1>1 DEF RingInv, Stamped, Millis
  <2>2. QED
    BY <1>1, <2>1 DEF RingInv
<1>9. \A t \in Int : t >= now =>
        Total(Parts(log', n, t)) <= Total(Counted(ring, E, t - Window)) + X[t]
  BY <1>5, <1>6 DEF CountInv
<1>10. CountInv(E, X)'
  BY <1>1, <1>7, <1>9 DEF CountInv
<1>11. WaitInv(E, B, X)'
  <2>1. LastOf(log)'.start = now
    BY <1>4, <1>6 DEF LastOf
  <2>2. B <= now /\ Total(Counted(ring, E, now - Window)) + est <= Budget
    BY <1>1 DEF WaitInv
  <2>3. ASSUME NEW t \in Int, t >= now
        PROVE  Total(Parts(log', n, t)) + est <= Budget + X[t]
    <3>1. /\ t - Window \in Int /\ now - Window \in Int
          /\ \A z \in Int : z > t - Window => z > now - Window
      BY <1>2, <2>3, WrapFacts
    <3>2. Stamped(ring, E) /\ Len(E) = Len(ring) /\ \A j \in 1..Len(ring) : E[j] \in Int
      BY <1>2, Elements DEF RingInv, Stamped
    <3>3. \A j \in 1..Len(ring) : E[j] > t - Window => E[j] > now - Window
      BY <3>1, <3>2
    <3>4. Total(Counted(ring, E, t - Window)) <= Total(Counted(ring, E, now - Window))
      BY <1>2, <3>1, <3>2, <3>3, CountedAges
    <3>5. /\ Total(Counted(ring, E, t - Window)) \in Nat
          /\ Total(Counted(ring, E, now - Window)) \in Nat
      BY <1>2, <3>1, <3>2, CountedTotal
    <3>6. Total(Parts(log', n, t)) \in Nat
      <4>1. Total(Parts(log, Finished, t)) \in Nat
        BY LogTotals, Zenon
      <4>2. QED
        BY <1>5, <1>6, <4>1
    <3>7. X[t] \in Nat /\ Budget \in Nat
      BY <2>3, WrapFacts DEF Charges
    <3>8. Total(Parts(log', n, t)) <= Total(Counted(ring, E, t - Window)) + X[t]
      BY <1>9, <2>3
    <3>9. PICK a, c, d, x, g :
            /\ a = Total(Parts(log', n, t)) /\ c = Total(Counted(ring, E, t - Window))
            /\ d = Total(Counted(ring, E, now - Window)) /\ x = X[t] /\ g = Budget
      OBVIOUS
    <3>10. /\ a \in Nat /\ c \in Nat /\ d \in Nat /\ x \in Nat /\ g \in Nat
           /\ a <= c + x /\ c <= d /\ d + est <= g
      BY <2>2, <3>4, <3>5, <3>6, <3>7, <3>8, <3>9, Zenon
    <3>11. a + est <= g + x
      BY <1>2, <3>10
    <3>12. QED
      BY <3>9, <3>11, Zenon
  <2>4. QED
    BY <1>1, <1>7, <2>1, <2>2, <2>3 DEF WaitInv
<1>12. QED
  BY <1>8, <1>10, <1>11 DEF Accounted

(***************************************************************************)
(* The ring after a frame of a length its estimate promised: the off-time  *)
(* it blocks is not so long that the signed difference would lose it.      *)
(***************************************************************************)
LEMMA BlockedRoom ==
  ASSUME FramesFit, NEW toa \in Nat, NEW e \in FrameToa, toa <= e + Overrun
  PROVE  /\ toa * Ratio \in Nat /\ toa <= toa * Ratio
         /\ toa * Ratio <= Window + Ratio * Overrun
         /\ (Ratio - 1) * toa = toa * Ratio - toa
<1>1. /\ Ratio \in Nat /\ Ratio >= 1 /\ Window \in Nat /\ Overrun \in Nat
      /\ Budget \in Nat /\ e \in Nat /\ e <= Budget
  BY WrapFacts DEF FramesFit
<1>2. Budget * Ratio <= Window
  <2>1. /\ Window % Ratio \in 0..(Ratio - 1)
        /\ Window = Ratio * (Window \div Ratio) + (Window % Ratio)
    BY <1>1, WrapFacts, Division
  <2>2. Ratio * Budget \in Nat /\ Budget * Ratio = Ratio * Budget
    BY <1>1
  <2>3. QED
    BY <1>1, <2>1, <2>2 DEF Budget
<1>3. \A p, q, r \in Nat : p <= q => p * r <= q * r
  OBVIOUS
<1>4. \A p, q, r \in Nat : (p + q) * r = p * r + r * q
  OBVIOUS
<1>5. toa * Ratio <= (Budget + Overrun) * Ratio
  BY <1>1, <1>3
<1>6. (Budget + Overrun) * Ratio = Budget * Ratio + Ratio * Overrun
  BY <1>1, <1>4
<1>7. toa * Ratio \in Nat /\ Budget * Ratio \in Nat /\ Ratio * Overrun \in Nat
  BY <1>1
<1>8. \A p, r \in Nat : r >= 1 => p <= p * r /\ (r - 1) * p = p * r - p
  OBVIOUS
<1>9. toa <= toa * Ratio /\ (Ratio - 1) * toa = toa * Ratio - toa
  BY <1>1, <1>8
<1>10. toa * Ratio <= Window + Ratio * Overrun
  BY <1>1, <1>2, <1>5, <1>6, <1>7
<1>11. QED
  BY <1>7, <1>9, <1>10

LEMMA RecordDuty ==
  ASSUME FramesFit, ClockFits, TypeOK, FrameInv, row = "duty",
         NEW X, Charges(X), NEW E \in Seq(Int), NEW B \in Int,
         RingInv(E, B), CountInv(E, X), WaitInv(E, B, X), Record
  PROVE  Accounted(X)'
<1>20. PICK n, toa, p, C : /\ n = Len(log) /\ toa = now - LastOf(log).start
                          /\ p = toa * Ratio /\ C = now + p
  OBVIOUS
<1>1. /\ pc = "air" /\ now = until /\ pc' \in {"idle", "resume"} /\ log' = log
      /\ now' = now /\ epoch' = epoch /\ row' = row /\ lost' = lost
  BY DEF Record, Sent, identVars
<1>2. /\ n \in Nat /\ n >= 1 /\ Last(log) = LastOf(log) /\ LastOf(log) \in Frame
      /\ LastOf(log).stop = now /\ LastOf(log).start \in Nat
      /\ LastOf(log).stop - LastOf(log).start = toa
      /\ toa \in Nat /\ toa > 0 /\ toa <= est + Overrun
  BY <1>1, <1>20, SentFrame
<1>3. /\ now \in Nat /\ epoch \in Int /\ log \in Seq(Frame) /\ lost \in Nat
      /\ ring \in Seq(Slot) /\ Len(ring) <= Slots /\ est \in Nat
  BY StampTypes
<1>4. WellTimed(log) /\ Finished = n - 1 /\ Finished' = n /\ log # <<>>
  BY <1>1, <1>2, <1>20 DEF FrameInv, Finished
<1>5. ring' = Recorded(ring, Millis(now), toa) /\ blocked' = BlockedUntil(Millis(now), toa)
  BY <1>2, <1>20 DEF Record
<1>6. est \in FrameToa
  BY <1>1 DEF FrameInv
<1>7. /\ p \in Nat /\ toa <= p /\ p <= Window + Ratio * Overrun
      /\ (Ratio - 1) * toa = p - toa
  <2>1. p = toa * Ratio
    BY <1>20
  <2>2. QED
    BY <1>2, <1>6, <2>1, BlockedRoom
<1>21. C = now + p
  BY <1>20
<1>8. LastOf(log).start <= now /\ B <= LastOf(log).start
  BY <1>1 DEF FrameInv, WaitInv
<1>9. C \in Int /\ now + toa <= C /\ C <= now + Window + Ratio * Overrun
  <2>1. Ratio * Overrun \in Nat /\ Window \in Nat
    BY ClockRoom
  <2>2. QED
    BY <1>2, <1>3, <1>7, <1>21, <2>1
<1>10. blocked' = Millis(C)
  <2>1. blocked' = (Millis(now) + p) % Wrap
    BY <1>5, <1>20 DEF BlockedUntil
  <2>2. now \in Int /\ p \in Int
    BY <1>3, <1>7
  <2>3. QED
    BY <1>3, <1>21, <2>1, <2>2, StampLater
<1>11. \A j \in 1..Len(E) : E[j] <= now + toa
  <2>1. SUFFICES ASSUME NEW j \in 1..Len(E) PROVE E[j] <= now + toa
    OBVIOUS
  <2>2. E[j] \in Int /\ E[j] <= B
    BY DEF RingInv
  <2>3. QED
    BY <1>2, <1>3, <1>8, <2>2
<1>12. Stamped(ring, E) /\ Sorted(E)
  BY DEF RingInv
<1>13. PICK F \in Seq(Int) :
         /\ Stamped(ring', F) /\ Sorted(F) /\ \A j \in 1..Len(F) : F[j] <= now + toa
         /\ \A T \in Int :
              Total(Counted(ring, E, T)) + (IF now + toa > T THEN toa ELSE 0)
                <= Total(Counted(ring', F, T))
  <2>1. now \in Int /\ toa \in Nat /\ toa > 0
    BY <1>2, <1>3
  <2>2. LET q == Recorded(ring, Millis(now), toa)
        IN \E F \in Seq(Int) :
             /\ Stamped(q, F) /\ Sorted(F) /\ \A j \in 1..Len(F) : F[j] <= now + toa
             /\ \A T \in Int :
                  Total(Counted(ring, E, T)) + (IF now + toa > T THEN toa ELSE 0)
                    <= Total(Counted(q, F, T))
    BY <1>3, <1>11, <1>12, <2>1, RecordCounts, Zenon
  <2>3. QED
    BY <1>5, <2>2
<1>14. ring' \in Seq(Slot)
  BY <1>2, <1>3, <1>5, RecordedType, StampTypes
<1>15. RingInv(F, C)'
  <2>1. Stamped(ring, F)' /\ blocked' = Millis(C)'
    BY <1>1, <1>10, <1>13 DEF Stamped, Millis
  <2>2. Sorted(F) /\ \A j \in 1..Len(F) : F[j] <= C
    <3>1. \A j \in 1..Len(F) : F[j] \in Int
      BY Elements, Zenon
    <3>2. \A z \in Int : z <= now + toa => z <= C
      BY <1>2, <1>3, <1>9
    <3>3. QED
      BY <1>13, <3>1, <3>2, Zenon
  <2>3. QED
    BY <1>1, <1>9, <2>1, <2>2 DEF RingInv
<1>16. \A t \in Int :
         /\ Total(Parts(log, n, t)) \in Nat /\ Total(Parts(log, n - 1, t)) \in Nat
         /\ Total(Parts(log, n, t))
              <= Total(Parts(log, n - 1, t)) + (IF now > t - Window THEN toa ELSE 0)
  <2>1. SUFFICES ASSUME NEW t \in Int
                 PROVE  /\ Total(Parts(log, n, t)) \in Nat /\ Total(Parts(log, n - 1, t)) \in Nat
                        /\ Total(Parts(log, n, t))
                             <= Total(Parts(log, n - 1, t)) + (IF now > t - Window THEN toa ELSE 0)
    OBVIOUS
  <2>2. n \in Int /\ n - 1 \in Int
    BY <1>2
  <2>3. Total(Parts(log, n, t)) \in Nat /\ Total(Parts(log, n - 1, t)) \in Nat
    BY <1>3, <1>4, <2>2, PartsTotal
  <2>4. QED
    BY <1>2, <1>3, <1>4, <1>20, <2>3, LastFrame DEF LastOf
<1>17. CountInv(F, X)'
  <2>1. SUFFICES ASSUME NEW t \in Int, t >= now
                 PROVE  Total(Parts(log, n, t)) <= Total(Counted(ring', F, t - Window)) + X[t]
    BY <1>1, <1>4 DEF CountInv
  <2>2. PICK T : T = t - Window
    OBVIOUS
  <2>3. T \in Int
    BY <2>2, WrapFacts
  <2>4. Total(Parts(log, n - 1, t)) <= Total(Counted(ring, E, T)) + X[t]
    BY <1>4, <2>1, <2>2 DEF CountInv
  <2>5. Total(Counted(ring, E, T)) \in Nat /\ Total(Counted(ring', F, T)) \in Nat
    <3>1. Total(Counted(ring, E, T)) \in Nat
      BY <1>3, <1>12, <2>3, CountedTotal
    <3>2. Total(Counted(ring', F, T)) \in Nat
      BY <1>13, <1>14, <2>3, CountedTotal
    <3>3. QED
      BY <3>1, <3>2
  <2>6. Total(Counted(ring, E, T)) + (IF now + toa > T THEN toa ELSE 0)
          <= Total(Counted(ring', F, T))
    BY <1>13, <2>3
  <2>7. PICK a, b, c, d, x, y, l :
          /\ a = Total(Parts(log, n, t)) /\ b = Total(Parts(log, n - 1, t))
          /\ c = Total(Counted(ring, E, T)) /\ d = Total(Counted(ring', F, T))
          /\ x = (IF now > T THEN toa ELSE 0) /\ y = (IF now + toa > T THEN toa ELSE 0)
          /\ l = X[t]
    OBVIOUS
  <2>8. /\ (IF now > T THEN toa ELSE 0) \in Nat /\ (IF now + toa > T THEN toa ELSE 0) \in Nat
        /\ (IF now > T THEN toa ELSE 0) <= (IF now + toa > T THEN toa ELSE 0)
    BY <1>2, <1>3, <2>3
  <2>9. a \in Nat /\ b \in Nat /\ a <= b + x
    BY <1>16, <2>2, <2>7
  <2>10. c \in Nat /\ d \in Nat /\ x \in Nat /\ y \in Nat /\ l \in Nat
    <3>1. X[t] \in Nat
      BY <2>1 DEF Charges
    <3>2. QED
      BY <2>5, <2>7, <2>8, <3>1, Zenon
  <2>11. b <= c + l /\ c + y <= d /\ x <= y
    BY <2>4, <2>6, <2>7, <2>8, Zenon
  <2>12. a <= d + l
    BY <2>9, <2>10, <2>11
  <2>13. QED
    BY <2>2, <2>7, <2>12, Zenon
<1>18. WaitInv(F, C, X)'
  <2>1. ASSUME NEW t \in Int, t >= now
        PROVE  Total(Parts(log, n, t)) <= Budget + Overrun + X[t]
    <3>1. Total(Parts(log, n - 1, t)) + est <= Budget + X[t]
      BY <1>1, <1>4, <2>1 DEF WaitInv
    <3>2. Total(Parts(log, n, t)) <= Total(Parts(log, n - 1, t)) + toa
      <4>1. PICK y : y = (IF now > t - Window THEN toa ELSE 0)
        OBVIOUS
      <4>2. y <= toa /\ y \in Nat
        BY <1>2, <4>1
      <4>3. PICK a, b : a = Total(Parts(log, n, t)) /\ b = Total(Parts(log, n - 1, t))
        OBVIOUS
      <4>4. a \in Nat /\ b \in Nat /\ a <= b + y
        BY <1>16, <4>1, <4>3
      <4>5. a <= b + toa
        BY <1>2, <4>2, <4>4
      <4>6. QED
        BY <4>3, <4>5, Zenon
    <3>3. PICK a, b, g, x :
            /\ a = Total(Parts(log, n, t)) /\ b = Total(Parts(log, n - 1, t)) /\ g = Budget
            /\ x = X[t]
      OBVIOUS
    <3>4. a \in Nat /\ b \in Nat /\ g \in Nat /\ Overrun \in Nat /\ x \in Nat
      BY <1>16, <2>1, <3>3, WrapFacts DEF Charges
    <3>5. b + est <= g + x /\ a <= b + toa
      BY <3>1, <3>2, <3>3, Zenon
    <3>6. a <= g + Overrun + x
      BY <1>2, <1>3, <3>4, <3>5
    <3>7. QED
      BY <3>3, <3>6, Zenon
  <2>2. FreeFrom(LastOf(log)) <= C
    <3>1. (Ratio - 1) * (LastOf(log).stop - LastOf(log).start) = p - toa
      BY <1>2, <1>7
    <3>2. QED
      BY <1>2, <1>3, <1>7, <1>21, <3>1 DEF FreeFrom
  <2>3. LastOf(log)' = LastOf(log) /\ pc' # "wait" /\ pc' # "air"
    BY <1>1 DEF LastOf
  <2>4. QED
    BY <1>1, <1>4, <2>1, <2>2, <2>3 DEF WaitInv
<1>19. QED
  BY <1>9, <1>15, <1>17, <1>18 DEF Accounted

\* A frame nobody recorded counts against what is lost.
LEMMA SendFailedDuty ==
  ASSUME TypeOK, FrameInv, row = "duty",
         NEW X, Charges(X), NEW E \in Seq(Int), NEW B \in Int,
         RingInv(E, B), CountInv(E, X), WaitInv(E, B, X), SendFailed,
         NEW Y, \A t \in Int : Y[t] = X[t] + (lost' - lost)
  PROVE  Accounted(Y)'
<1>1. PICK n, toa : n = Len(log) /\ toa = now - LastOf(log).start
  OBVIOUS
<1>2. /\ pc = "air" /\ now = until /\ pc' \in {"idle", "resume"} /\ log' = log
      /\ now' = now /\ epoch' = epoch /\ row' = row /\ ring' = ring /\ blocked' = blocked
  BY DEF SendFailed, Sent, identVars, govVars
<1>3. /\ n \in Nat /\ n >= 1 /\ Last(log) = LastOf(log)
      /\ LastOf(log).stop - LastOf(log).start = toa
      /\ toa \in Nat /\ toa > 0 /\ toa <= est + Overrun
  BY <1>1, <1>2, SentFrame
<1>4. /\ now \in Nat /\ log \in Seq(Frame) /\ lost \in Nat /\ ring \in Seq(Slot)
      /\ est \in Nat
  BY StampTypes
<1>5. WellTimed(log) /\ Finished = n - 1 /\ Finished' = n /\ Len(log) >= 1
  BY <1>1, <1>2, <1>3 DEF FrameInv, Finished
<1>6. lost' = lost + toa
  BY <1>1, <1>3 DEF SendFailed
<1>7. RingInv(E, B)'
  <2>1. Stamped(ring, E)' /\ blocked' = Millis(B)'
    BY <1>2 DEF RingInv, Stamped, Millis
  <2>2. QED
    BY <1>2, <2>1 DEF RingInv
<1>8. \A t \in Int : /\ Total(Parts(log, n - 1, t)) \in Nat /\ Total(Parts(log, n, t)) \in Nat
                     /\ Total(Parts(log, n, t)) <= Total(Parts(log, n - 1, t)) + toa
                     /\ X[t] \in Nat /\ Y[t] = X[t] + toa
  <2>1. SUFFICES ASSUME NEW t \in Int PROVE
        /\ Total(Parts(log, n - 1, t)) \in Nat /\ Total(Parts(log, n, t)) \in Nat
        /\ Total(Parts(log, n, t)) <= Total(Parts(log, n - 1, t)) + toa
        /\ X[t] \in Nat /\ Y[t] = X[t] + toa
    OBVIOUS
  <2>2. n \in Int /\ n - 1 \in Int
    BY <1>3
  <2>3. Total(Parts(log, n - 1, t)) \in Nat /\ Total(Parts(log, n, t)) \in Nat
    BY <1>4, <1>5, <2>2, PartsTotal
  <2>4. Total(Parts(log, n, t)) <= Total(Parts(log, n - 1, t))
                                     + (IF LastOf(log).stop > t - Window THEN toa ELSE 0)
    BY <1>1, <1>3, <1>4, <1>5, LastFrame DEF LastOf
  <2>5. Total(Parts(log, n, t)) <= Total(Parts(log, n - 1, t)) + toa
    BY <1>3, <2>3, <2>4
  <2>6. X[t] \in Nat /\ Y[t] = X[t] + toa
    <3>1. X[t] \in Nat /\ Y[t] = X[t] + (lost' - lost)
      BY <2>1 DEF Charges
    <3>2. lost' - lost = toa
      BY <1>3, <1>4, <1>6
    <3>3. QED
      BY <3>1, <3>2
  <2>7. QED
    BY <2>3, <2>5, <2>6
<1>9. CountInv(E, Y)'
  <2>1. SUFFICES ASSUME NEW t \in Int, t >= now
                 PROVE  Total(Parts(log, n, t)) <= Total(Counted(ring, E, t - Window)) + Y[t]
    BY <1>2, <1>5 DEF CountInv
  <2>2. Total(Parts(log, n - 1, t)) <= Total(Counted(ring, E, t - Window)) + X[t]
    BY <1>5, <2>1 DEF CountInv
  <2>3. Total(Counted(ring, E, t - Window)) \in Nat
    <3>1. t - Window \in Int
      BY WrapFacts
    <3>2. QED
      BY <1>4, <3>1, CountedTotal DEF RingInv
  <2>4. PICK a, b, c, x :
          /\ a = Total(Parts(log, n, t)) /\ b = Total(Parts(log, n - 1, t))
          /\ c = Total(Counted(ring, E, t - Window)) /\ x = X[t]
    OBVIOUS
  <2>5. a \in Nat /\ b \in Nat /\ x \in Nat /\ a <= b + toa /\ Y[t] = x + toa
    BY <1>8, <2>4
  <2>6. c \in Nat /\ b <= c + x
    BY <2>2, <2>3, <2>4, Zenon
  <2>7. a <= c + (x + toa)
    BY <1>3, <2>5, <2>6
  <2>8. QED
    BY <2>4, <2>5, <2>7, Zenon
<1>10. WaitInv(E, B, Y)'
  <2>1. ASSUME NEW t \in Int, t >= now
        PROVE  Total(Parts(log, n, t)) <= Budget + Overrun + Y[t]
    <3>1. Total(Parts(log, n - 1, t)) + est <= Budget + X[t]
      BY <1>2, <1>5, <2>1 DEF WaitInv
    <3>2. PICK a, b, g, x :
            /\ a = Total(Parts(log, n, t)) /\ b = Total(Parts(log, n - 1, t)) /\ g = Budget
            /\ x = X[t]
      OBVIOUS
    <3>3. /\ a \in Nat /\ b \in Nat /\ g \in Nat /\ Overrun \in Nat /\ x \in Nat
          /\ a <= b + toa /\ Y[t] = x + toa
      BY <1>8, <3>2, WrapFacts
    <3>4. b + est <= g + x
      BY <3>1, <3>2, Zenon
    <3>5. a <= g + Overrun + (x + toa)
      BY <1>3, <1>4, <3>3, <3>4
    <3>6. QED
      BY <3>2, <3>3, <3>5, Zenon
  <2>2. lost' # 0
    BY <1>3, <1>4, <1>6
  <2>3. QED
    BY <1>2, <1>5, <2>1, <2>2 DEF WaitInv
<1>11. QED
  BY <1>7, <1>9, <1>10 DEF Accounted

LEMMA TimeDuty ==
  ASSUME TypeOK, FrameInv, row = "duty",
         NEW X, Charges(X), NEW E \in Seq(Int), NEW B \in Int,
         RingInv(E, B), CountInv(E, X), WaitInv(E, B, X), TimePasses
  PROVE  Accounted(X)'
<1>1. /\ now' = now + 1 /\ epoch' = epoch /\ row' = row /\ ring' = ring
      /\ blocked' = blocked /\ pc' = pc /\ est' = est /\ until' = until /\ lost' = lost
  BY DEF TimePasses, govVars, txVars, identVars
<1>2. now \in Nat /\ Window \in Nat /\ Ratio * Overrun \in Nat /\ ring \in Seq(Slot) /\ est \in Nat
  BY StampTypes, WrapFacts
<1>3. /\ FrameInv' /\ TypeOK'
      /\ log' # <<>> => log # <<>> /\ LastOf(log)' = LastOf(log)
      /\ \A t \in Int : Total(Parts(log', Finished', t)) <= Total(Parts(log, Finished, t))
  BY TimeStep
<1>4. \A t \in Int : /\ Total(Parts(log, Finished, t)) \in Nat
                     /\ Total(Parts(log', Finished', t)) \in Nat
                     /\ X[t] \in Nat
  <2>1. /\ log' \in Seq(Frame) /\ WellTimed(log')
    BY <1>3 DEF TypeOK, FrameInv, Frame, WellTimed
  <2>2. Finished' \in Int
    BY <2>1, FrameFields DEF Finished
  <2>3. \A t \in Int : Total(Parts(log', Finished', t)) \in Nat
    BY <2>1, <2>2, PartsTotal
  <2>4. \A t \in Int : Total(Parts(log, Finished, t)) \in Nat
    BY LogTotals, Zenon
  <2>5. \A t \in Int : X[t] \in Nat
    BY DEF Charges
  <2>6. QED
    BY <2>3, <2>4, <2>5
<1>5. RingInv(E, B)'
  <2>1. Stamped(ring, E)' /\ blocked' = Millis(B)'
    BY <1>1 DEF RingInv, Stamped, Millis
  <2>2. B <= now' + Window + Ratio * Overrun
    BY <1>1, <1>2 DEF RingInv
  <2>3. QED
    BY <1>1, <2>1, <2>2 DEF RingInv
<1>6. \A t \in Int : t >= now' => t >= now
  BY <1>1, <1>2
<1>7. CountInv(E, X)'
  <2>1. SUFFICES ASSUME NEW t \in Int, t >= now'
                 PROVE  Total(Parts(log', Finished', t)) <= Total(Counted(ring, E, t - Window)) + X[t]
    BY <1>1 DEF CountInv
  <2>2. Total(Parts(log, Finished, t)) <= Total(Counted(ring, E, t - Window)) + X[t]
    BY <1>6, <2>1 DEF CountInv
  <2>3. Total(Counted(ring, E, t - Window)) \in Nat
    <3>1. t - Window \in Int
      BY <1>2
    <3>2. QED
      BY <1>2, <3>1, CountedTotal DEF RingInv
  <2>4. PICK a, b, c, x :
          /\ a = Total(Parts(log', Finished', t)) /\ b = Total(Parts(log, Finished, t))
          /\ c = Total(Counted(ring, E, t - Window)) /\ x = X[t]
    OBVIOUS
  <2>5. a \in Nat /\ b \in Nat /\ x \in Nat /\ a <= b
    BY <1>3, <1>4, <2>4
  <2>6. c \in Nat /\ b <= c + x
    BY <2>2, <2>3, <2>4, Zenon
  <2>7. a <= c + x
    BY <2>5, <2>6
  <2>8. QED
    BY <2>4, <2>7, Zenon
<1>8. WaitInv(E, B, X)'
  <2>1. pc' = "air" => log' # <<>> /\ LastOf(log') = LastOf(log)
    <3>1. pc' = "air" => log' # <<>>
      BY <1>3 DEF FrameInv
    <3>2. QED
      BY <1>3, <3>1
  <2>2. pc' # "air" /\ log' # <<>> /\ lost' = 0 =>
          FreeFrom(LastOf(log')) <= B \/ FreeFrom(LastOf(log')) <= now'
    <3>1. SUFFICES ASSUME pc' # "air", log' # <<>>, lost' = 0
                   PROVE  FreeFrom(LastOf(log)) <= B \/ FreeFrom(LastOf(log)) <= now + 1
      BY <1>1, <1>3
    <3>2. FreeFrom(LastOf(log)) <= B \/ FreeFrom(LastOf(log)) <= now
      BY <1>1, <1>3, <3>1 DEF WaitInv
    <3>3. FreeFrom(LastOf(log)) \in Int
      <4>1. log \in Seq(Frame) /\ Len(log) \in 1..Len(log)
        BY <1>3, <3>1, StampTypes
      <4>2. LastOf(log).stop \in Nat /\ LastOf(log).start \in Nat
        BY <4>1, FrameFields DEF LastOf
      <4>3. QED
        BY <4>2, WrapFacts DEF FreeFrom
    <3>4. QED
      BY <1>2, <3>2, <3>3
  <2>3. \A t \in Int : t >= now' /\ pc = "air" =>
          Total(Parts(log', Finished', t)) + est <= Budget + X[t]
    <3>1. SUFFICES ASSUME NEW t \in Int, t >= now', pc = "air"
                   PROVE  Total(Parts(log', Finished', t)) + est <= Budget + X[t]
      OBVIOUS
    <3>2. Total(Parts(log, Finished, t)) + est <= Budget + X[t]
      BY <1>6, <3>1 DEF WaitInv
    <3>3. PICK a, b, x :
            /\ a = Total(Parts(log', Finished', t)) /\ b = Total(Parts(log, Finished, t))
            /\ x = X[t]
      OBVIOUS
    <3>4. a \in Nat /\ b \in Nat /\ x \in Nat /\ a <= b
      BY <1>3, <1>4, <3>3
    <3>5. b + est <= Budget + x
      BY <3>2, <3>3, Zenon
    <3>6. a + est <= Budget + x
      BY <1>2, <3>4, <3>5, WrapFacts
    <3>7. QED
      BY <3>3, <3>6, Zenon
  <2>4. \A t \in Int : t >= now' /\ pc # "air" =>
          Total(Parts(log', Finished', t)) <= Budget + Overrun + X[t]
    <3>1. SUFFICES ASSUME NEW t \in Int, t >= now', pc # "air"
                   PROVE  Total(Parts(log', Finished', t)) <= Budget + Overrun + X[t]
      OBVIOUS
    <3>2. Total(Parts(log, Finished, t)) <= Budget + Overrun + X[t]
      BY <1>6, <3>1 DEF WaitInv
    <3>3. PICK a, b, x :
            /\ a = Total(Parts(log', Finished', t)) /\ b = Total(Parts(log, Finished, t))
            /\ x = X[t]
      OBVIOUS
    <3>4. a \in Nat /\ b \in Nat /\ x \in Nat /\ a <= b
      BY <1>3, <1>4, <3>3
    <3>5. b <= Budget + Overrun + x
      BY <3>2, <3>3, Zenon
    <3>6. a <= Budget + Overrun + x
      BY <3>4, <3>5, WrapFacts
    <3>7. QED
      BY <3>3, <3>6, Zenon
  <2>5. pc' = "wait" =>
          B <= until' /\ Total(Counted(ring', E, until' - Window)) + est' <= Budget
    <3>1. pc = "wait" =>
            B <= until /\ Total(Counted(ring, E, until - Window)) + est <= Budget
      BY DEF WaitInv
    <3>2. QED
      BY <1>1, <3>1
  <2>6. pc' = "air" => B <= LastOf(log').start
    <3>1. pc = "air" => B <= LastOf(log).start
      BY DEF WaitInv
    <3>2. QED
      BY <1>1, <2>1, <3>1
  <2>7. QED
    BY <1>1, <2>2, <2>3, <2>4, <2>5, <2>6 DEF WaitInv
<1>9. QED
  BY <1>5, <1>7, <1>8 DEF Accounted

(***************************************************************************)
(* The invariant: the types and the frame in hand for every row, and for a *)
(* duty-cycle row the real times behind the ring, which no variable of the *)
(* code holds.                                                             *)
(***************************************************************************)
LEMMA InitBasic ==
  ASSUME Init
  PROVE  TypeOK /\ FrameInv
<1>1. /\ now = 0 /\ epoch = 0 /\ ring = <<>> /\ blocked = 0 /\ row \in Rows
      /\ ident = [has |-> FALSE, at |-> 0] /\ called = -1 /\ pc = "idle" /\ held = 0
      /\ est = 0 /\ until = 0 /\ log = <<>> /\ lost = 0
  BY DEF Init
<1>2. 0 \in 0..(Wrap - 1) /\ 0 <= Slots
  BY WrapFacts
<1>3. TypeOK
  BY <1>1, <1>2 DEF TypeOK
<1>4. FrameInv
  BY <1>1 DEF FrameInv, WellTimed
<1>5. QED
  BY <1>3, <1>4

LEMMA InitDuty ==
  ASSUME Init
  PROVE  DutyInv
<1> DEFINE E == <<>>
           B == 0
           X == [t \in Int |-> 0]
<1>1. /\ now = 0 /\ epoch = 0 /\ ring = <<>> /\ blocked = 0 /\ pc = "idle"
      /\ log = <<>> /\ lost = 0
  BY DEF Init
<1>2. TypeOK /\ FrameInv
  BY InitBasic
<1>3. E \in Seq(Int) /\ Len(E) = 0 /\ B \in Int
  OBVIOUS
<1>4. X \in [Int -> Nat] /\ \A t \in Int : X[t] = 0 /\ X[t] <= lost
  BY <1>1
<1> HIDE DEF X
<1>5. Millis(B) = 0
  <2>1. (0 - 0) % Wrap = 0
    BY WrapFacts, DivisionUnique
  <2>2. QED
    BY <1>1, <2>1 DEF Millis
<1>6. RingInv(E, B)
  <2>1. Stamped(ring, E) /\ Sorted(E) /\ \A j \in 1..Len(E) : E[j] <= B
    BY <1>1, <1>3 DEF Stamped, Sorted
  <2>2. B <= now + Window + Ratio * Overrun
    BY <1>1, WrapFacts
  <2>3. QED
    BY <1>1, <1>5, <2>1, <2>2 DEF RingInv
<1>7. \A w \in Seq(Nat) : Len(w) = 0 => Total(w) = 0
  <2>1. SUFFICES ASSUME NEW w \in Seq(Nat), Len(w) = 0 PROVE Running(w)[Len(w)] = 0
    BY DEF Total
  <2>2. 0 \in 0..Len(w) /\ \A i \in 1..0 : w[i] = 0
    BY <2>1
  <2>3. Running(w)[0] = 0
    BY <2>2, RunningZero
  <2>4. QED
    BY <2>1, <2>3
<1>8. \A t \in Int : Total(Parts(log, Finished, t)) = 0
  <2>1. SUFFICES ASSUME NEW t \in Int PROVE Total(Parts(log, Finished, t)) = 0
    OBVIOUS
  <2>2. log \in Seq(Frame) /\ WellTimed(log) /\ Finished \in Int /\ Len(log) = 0
    <3>1. log \in Seq(Frame) /\ WellTimed(log) /\ Finished \in Int
      BY <1>2, LogTotals, Zenon
    <3>2. QED
      BY <1>1, <3>1
  <2>3. Counts(log, Finished, t)
    BY <2>2, PartsType
  <2>4. QED
    BY <1>7, <2>2, <2>3 DEF Counts
<1>9. CountInv(E, X)
  <2>1. SUFFICES ASSUME NEW t \in Int
                 PROVE  Total(Parts(log, Finished, t)) <= Total(Counted(ring, E, t - Window)) + X[t]
    BY DEF CountInv
  <2>2. Stamped(ring, E) /\ ring \in Seq(Slot) /\ t - Window \in Int
    BY <1>2, <1>6, StampTypes, WrapFacts DEF RingInv
  <2>3. Total(Counted(ring, E, t - Window)) \in Nat
    BY <1>3, <2>2, CountedTotal
  <2>4. QED
    BY <1>4, <1>8, <2>3
<1>10. WaitInv(E, B, X)
  BY <1>1, <1>4, <1>8, WrapFacts DEF WaitInv
<1>11. Accounted(X)
  BY <1>3, <1>6, <1>9, <1>10 DEF Accounted
<1>12. QED
  BY <1>4, <1>11 DEF DutyInv

\* On a duty-cycle row no IDENT is ever due.
LEMMA DutyAsks ==
  ASSUME row = "duty", FrameInv
  PROVE  ~AskIdent /\ ~Resume
<1>1. ~IdentDue(Millis(now))
  BY DEF IdentDue
<1>2. pc # "resume"
  BY DEF FrameInv
<1>3. QED
  BY <1>1, <1>2 DEF AskIdent, Resume

LEMMA NextBasic ==
  ASSUME TypeOK, FrameInv, [Next]_vars
  PROVE  TypeOK' /\ FrameInv'
<1>1. ASSUME Ask PROVE TypeOK' /\ FrameInv'
  <2>1. PICK toa \in FrameToa : AskFor(toa)
    BY <1>1 DEF Ask
  <2>2. /\ toa \in FrameToa \cup {IdentToa} /\ pc # "air"
        /\ held' = held /\ ident' = ident /\ held \in FrameToa \cup {0}
        /\ ident \in [has : BOOLEAN, at : 0..(Wrap - 1)]
    BY <1>1 DEF Ask, TypeOK
  <2>3. row = "duty" => held' = 0 /\ toa \in FrameToa
    BY <2>2 DEF FrameInv
  <2>4. QED
    BY <2>1, <2>2, <2>3, AskStep
<1>2. ASSUME AskIdent PROVE TypeOK' /\ FrameInv'
  <2>1. /\ AskFor(IdentToa) /\ pc # "air" /\ held' \in FrameToa
        /\ ident' = [has |-> TRUE, at |-> Millis(now)]
    BY <1>2 DEF AskIdent
  <2>2. ident' \in [has : BOOLEAN, at : 0..(Wrap - 1)]
    BY <2>1, StampTypes
  <2>3. row # "duty"
    BY <1>2, DutyAsks
  <2>4. IdentToa \in FrameToa \cup {IdentToa} /\ held' \in FrameToa \cup {0}
    BY <2>1
  <2>5. QED
    BY <2>1, <2>2, <2>3, <2>4, AskStep, Zenon
<1>3. ASSUME Resume PROVE TypeOK' /\ FrameInv'
  <2>1. /\ AskFor(held) /\ pc = "resume" /\ held' = 0 /\ ident' = ident
    BY <1>3 DEF Resume
  <2>2. held \in FrameToa \cup {IdentToa}
    BY <2>1 DEF TypeOK, FrameInv
  <2>3. ident' \in [has : BOOLEAN, at : 0..(Wrap - 1)]
    BY <2>1 DEF TypeOK
  <2>4. row # "duty"
    BY <1>3, DutyAsks
  <2>5. pc # "air" /\ held' \in FrameToa \cup {0}
    BY <2>1
  <2>6. QED
    BY <2>1, <2>2, <2>3, <2>4, <2>5, AskStep, Zenon
<1>4. ASSUME Tick PROVE TypeOK' /\ FrameInv'
  <2>1. TimePasses
    BY <1>4 DEF Tick, TimePasses
  <2>2. QED
    BY <2>1, TimeStep
<1>5. ASSUME UNCHANGED vars PROVE TypeOK' /\ FrameInv'
  BY <1>5 DEF vars, govVars, txVars, identVars, TypeOK, FrameInv, WellTimed, Finished, LastOf
<1>6. ASSUME Query PROVE TypeOK' /\ FrameInv'
  BY <1>6, PruneStep DEF Query
<1>7. QED
  BY <1>1, <1>2, <1>3, <1>4, <1>5, <1>6, EmitStep, SentStep DEF Next

\* No step but a failed send changes what is missing from the ring.
LEMMA NextAccounted ==
  ASSUME FramesFit, ClockFits, TypeOK, FrameInv, row = "duty",
         NEW X, Charges(X), Accounted(X), [Next]_vars, ~SendFailed
  PROVE  Accounted(X)' /\ lost' = lost
<1>1. PICK E \in Seq(Int), B \in Int : RingInv(E, B) /\ CountInv(E, X) /\ WaitInv(E, B, X)
  BY DEF Accounted
<1>2. ASSUME Ask PROVE Accounted(X)' /\ lost' = lost
  <2>1. PICK toa \in FrameToa : AskFor(toa)
    BY <1>2 DEF Ask
  <2>2. pc # "air"
    BY <1>2 DEF Ask
  <2>3. Accounted(X)'
    BY <1>1, <2>1, <2>2, AskDuty
  <2>4. QED
    BY <2>1, <2>3 DEF AskFor
<1>3. ASSUME Query PROVE Accounted(X)' /\ lost' = lost
  <2>1. /\ pc = "idle" /\ ring' = Prune(ring, Millis(now))
        /\ UNCHANGED <<now, epoch, blocked, txVars, identVars, log, lost>>
    BY <1>3 DEF Query
  <2>2. Accounted(X)'
    BY <1>1, <2>1, QueryDuty
  <2>3. QED
    BY <2>1, <2>2
<1>4. ASSUME Tick PROVE Accounted(X)' /\ lost' = lost
  <2>1. TimePasses
    BY <1>4 DEF Tick, TimePasses
  <2>2. Accounted(X)'
    BY <1>1, <2>1, TimeDuty
  <2>3. QED
    BY <2>1, <2>2 DEF TimePasses
<1>5. ASSUME UNCHANGED vars PROVE Accounted(X)' /\ lost' = lost
  <2>1. /\ RingInv(E, B)' /\ CountInv(E, X)' /\ WaitInv(E, B, X)'
    BY <1>1, <1>5 DEF vars, govVars, txVars, identVars, RingInv, CountInv, WaitInv,
                      Stamped, Millis, Finished, LastOf
  <2>2. QED
    BY <1>5, <2>1 DEF Accounted, vars
<1>6. ASSUME Emit PROVE Accounted(X)' /\ lost' = lost
  BY <1>1, <1>6, EmitDuty DEF Emit
<1>7. ASSUME Record PROVE Accounted(X)' /\ lost' = lost
  BY <1>1, <1>7, RecordDuty DEF Record
<1>8. QED
  BY <1>2, <1>3, <1>4, <1>5, <1>6, <1>7, DutyAsks DEF Next

LEMMA NextDuty ==
  ASSUME FramesFit, ClockFits, TypeOK, FrameInv, row = "duty", DutyInv, [Next]_vars
  PROVE  DutyInv'
<1>1. PICK X : Charges(X) /\ Accounted(X) /\ \A t \in Int : X[t] <= lost
  BY DEF DutyInv, Charges
<1>2. CASE ~SendFailed
  <2>1. Accounted(X)' /\ lost' = lost
    BY <1>1, <1>2, NextAccounted
  <2>2. QED
    BY <1>1, <2>1 DEF DutyInv, Charges
<1>3. CASE SendFailed
  <2>1. PICK E \in Seq(Int), B \in Int : RingInv(E, B) /\ CountInv(E, X) /\ WaitInv(E, B, X)
    BY <1>1 DEF Accounted
  <2>2. lost \in Nat /\ lost' \in Nat /\ lost' - lost \in Nat
    <3>1. pc = "air" /\ now = until /\ lost' = lost + (now - Last(log).start)
      BY <1>3 DEF SendFailed, Sent
    <3>2. Last(log) = LastOf(log) /\ now - LastOf(log).start \in Nat
      BY <3>1, SentFrame
    <3>3. PICK x : x = now - Last(log).start
      OBVIOUS
    <3>4. x \in Nat /\ lost \in Nat /\ lost' = lost + x
      BY <3>1, <3>2, <3>3, StampTypes
    <3>5. QED
      BY <3>4
  <2>3. PICK d : d = lost' - lost
    OBVIOUS
  <2> DEFINE Y == [t \in Int |-> X[t] + d]
  <2>4. Y \in [Int -> Nat] /\ \A t \in Int : Y[t] = X[t] + d /\ Y[t] <= lost'
    <3>1. \A t \in Int : X[t] \in Nat /\ X[t] <= lost
      BY <1>1 DEF Charges
    <3>2. \A x \in Nat : x <= lost => x + d \in Nat /\ x + d <= lost'
      <4>1. PICK l, m : l = lost /\ m = lost'
        OBVIOUS
      <4>2. l \in Nat /\ m \in Nat /\ m - l \in Nat /\ d = m - l
        BY <2>2, <2>3, <4>1, Zenon
      <4>3. \A x \in Nat : x <= l => x + d \in Nat /\ x + d <= m
        BY <4>2
      <4>4. QED
        BY <4>1, <4>3, Zenon
    <3>4. \A t \in Int : X[t] + d \in Nat /\ X[t] + d <= lost'
      BY <3>1, <3>2, Zenon
    <3>3. QED
      BY <3>4
  <2> HIDE DEF Y
  <2>5. Accounted(Y)'
    BY <1>1, <1>3, <2>1, <2>3, <2>4, SendFailedDuty DEF Charges
  <2>6. \A t \in Int : Y[t] <= lost'
    BY <2>4
  <2>7. QED
    BY <2>4, <2>5, <2>6 DEF DutyInv
<1>4. QED
  BY <1>2, <1>3

\* The row is chosen once.
LEMMA RowStays ==
  ASSUME [Next]_vars
  PROVE  row' = row
  BY DEF Next, vars, identVars, Ask, AskIdent, Resume, AskFor, Emit, Record, SendFailed,
         Sent, Query, Tick

----------------------------------------------------------------------------
\* Every variable keeps its type, on every row and whatever the region table
\* says.
THEOREM TypeCorrect == Spec => []TypeOK
<1> DEFINE I == TypeOK /\ FrameInv
<1>1. Init => I
  BY InitBasic
<1>2. I /\ [Next]_vars => I'
  BY NextBasic
<1>3. I => TypeOK
  OBVIOUS
<1> HIDE DEF I
<1>4. QED
  BY <1>1, <1>2, <1>3, PTL DEF Spec

\* The inductive invariant, on a region whose every frame fits its budget
\* (2 s of airtime, 3.6 s of budget at the least) and a counter that does not
\* wrap within twice two windows: 49.7 days and an hour.
THEOREM GovernorInvariant == FramesFit /\ ClockFits /\ Spec => []GovernorInv
<1> SUFFICES ASSUME FramesFit, ClockFits PROVE Spec => []GovernorInv
  OBVIOUS
<1>1. Init => GovernorInv
  BY InitBasic, InitDuty DEF GovernorInv
<1>2. GovernorInv /\ [Next]_vars => GovernorInv'
  BY NextBasic, NextDuty, RowStays DEF GovernorInv
<1>3. QED
  BY <1>1, <1>2, PTL DEF Spec

LEMMA OnAirIs ==
  ASSUME TypeOK, FrameInv
  PROVE  /\ OnAir = Total(Parts(log, Len(log), now)) /\ OnAir \in Nat
         /\ log \in Seq(Frame) /\ WellTimed(log) /\ Len(log) \in Nat
<1>1. log \in Seq(Frame) /\ WellTimed(log) /\ now \in Int
  BY StampTypes DEF FrameInv
<1>2. Len(log) \in Int /\ Len(log) \in Nat /\ DOMAIN log = 1..Len(log)
  BY <1>1, FrameFields
<1>3. [i \in DOMAIN log |-> Max({0, Min({log[i].stop, now}) - Max({log[i].start, now - Window})})]
        = Parts(log, Len(log), now)
  <2>1. \A i \in DOMAIN log : i <= Len(log)
    BY <1>2
  <2>2. QED
    BY <2>1 DEF Parts, Part
<1>4. OnAir = Total(Parts(log, Len(log), now))
  BY <1>3 DEF OnAir
<1>6. Total(Parts(log, Len(log), now)) \in Nat
  BY <1>1, <1>2, PartsTotal
<1>7. QED
  BY <1>1, <1>2, <1>4, <1>6

\* What a window holds, on the air or off it.
LEMMA WindowSum ==
  ASSUME TypeOK, FrameInv, NEW X, Charges(X), Accounted(X), NEW t \in Int, t >= now
  PROVE  Total(Parts(log, Len(log), t)) <= Budget + Overrun + X[t]
<1>1. PICK E \in Seq(Int), B \in Int : RingInv(E, B) /\ CountInv(E, X) /\ WaitInv(E, B, X)
  BY DEF Accounted
<1>2. PICK n : n = Len(log)
  OBVIOUS
<1>3. log \in Seq(Frame) /\ WellTimed(log) /\ n \in Nat
  BY <1>2, FrameFields, StampTypes DEF FrameInv
<1>4. CASE pc # "air"
  BY <1>1, <1>2, <1>4 DEF WaitInv, Finished
<1>5. CASE pc = "air"
  <2>1. log # <<>> /\ LastOf(log).stop = until /\ until <= LastOf(log).start + est + Overrun
    BY <1>5 DEF FrameInv
  <2>2. Len(log) >= 1
    BY <1>2, <1>3, <2>1
  <2>3. est \in Nat /\ Overrun \in Nat /\ Budget \in Nat /\ X[t] \in Nat
    BY StampTypes, WrapFacts DEF Charges
  <2>4. PICK s : s = LastOf(log).stop - LastOf(log).start
    OBVIOUS
  <2>5. /\ s \in Nat
        /\ Total(Parts(log, n, t))
             <= Total(Parts(log, n - 1, t)) + (IF LastOf(log).stop > t - Window THEN s ELSE 0)
    BY <1>2, <1>3, <2>2, <2>4, LastFrame DEF LastOf
  <2>6. s <= est + Overrun
    <3>1. LastOf(log).start \in Nat /\ LastOf(log).stop \in Nat
      BY <1>2, <1>3, <2>2, FrameFields DEF LastOf
    <3>2. QED
      BY <2>1, <2>3, <2>4, <3>1
  <2>7. Total(Parts(log, n - 1, t)) + est <= Budget + X[t]
    BY <1>1, <1>2, <1>5 DEF WaitInv, Finished
  <2>8. Total(Parts(log, n - 1, t)) \in Nat /\ Total(Parts(log, n, t)) \in Nat
    <3>1. n \in Int /\ n - 1 \in Int
      BY <1>3
    <3>2. QED
      BY <1>3, <3>1, PartsTotal
  <2>9. PICK a, b, g, x, y :
          /\ a = Total(Parts(log, n, t)) /\ b = Total(Parts(log, n - 1, t)) /\ g = Budget
          /\ x = X[t] /\ y = (IF LastOf(log).stop > t - Window THEN s ELSE 0)
    OBVIOUS
  <2>10. y \in Nat /\ y <= s
    BY <2>5, <2>9
  <2>11. /\ a \in Nat /\ b \in Nat /\ g \in Nat /\ x \in Nat
         /\ a <= b + y /\ b + est <= g + x
    BY <2>3, <2>5, <2>7, <2>8, <2>9, Zenon
  <2>12. a <= g + Overrun + x
    BY <2>3, <2>5, <2>6, <2>10, <2>11
  <2>13. QED
    BY <1>2, <2>9, <2>12, Zenon
<1>6. QED
  BY <1>4, <1>5

LEMMA WindowHolds ==
  ASSUME TypeOK, FrameInv, DutyInv
  PROVE  OnAir <= Budget + Overrun + lost
<1>1. PICK X \in [Int -> Nat] : Accounted(X) /\ \A t \in Int : X[t] <= lost
  BY DEF DutyInv
<1>2. now \in Int /\ now >= now /\ lost \in Nat /\ Budget \in Nat /\ Overrun \in Nat
  BY StampTypes, WrapFacts
<1>3. OnAir = Total(Parts(log, Len(log), now)) /\ OnAir \in Nat
  BY OnAirIs
<1>4. Total(Parts(log, Len(log), now)) <= Budget + Overrun + X[now]
  BY <1>1, <1>2, WindowSum DEF Charges
<1>5. X[now] \in Nat /\ X[now] <= lost
  BY <1>1, <1>2
<1>6. QED
  BY <1>2, <1>3, <1>4, <1>5

\* No window of an hour carries more than the budget, the overrun of a frame
\* and what was lost: for every region, ring size and frame mix.
THEOREM WindowIsKept == FramesFit /\ ClockFits /\ Spec => []WindowKept
<1>1. GovernorInv => WindowKept
  BY WindowHolds DEF GovernorInv, WindowKept
<1>2. QED
  BY <1>1, GovernorInvariant, PTL

\* What a pruned ring adds up to is no less than what it counts.
LEMMA FigureHolds ==
  ASSUME ClockFits, TypeOK, FrameInv, pc # "air", DutyInv
  PROVE  OnAir <= Airtime(Prune(ring, Millis(now))) + lost
<1>1. PICK X \in [Int -> Nat] : Accounted(X) /\ \A t \in Int : X[t] <= lost
  BY DEF DutyInv
<1>2. PICK E \in Seq(Int), B \in Int : RingInv(E, B) /\ CountInv(E, X) /\ WaitInv(E, B, X)
  BY <1>1 DEF Accounted
<1>3. PICK q, T : q = Prune(ring, Millis(now)) /\ T = now - Window
  OBVIOUS
<1>4. /\ now \in Int /\ now >= now /\ T \in Int /\ T >= now - Window
      /\ lost \in Nat /\ ring \in Seq(Slot) /\ X[now] \in Nat /\ X[now] <= lost
  <2>1. /\ now \in Nat /\ Window \in Nat /\ lost \in Nat /\ ring \in Seq(Slot)
    BY StampTypes, WrapFacts
  <2>2. now \in Int /\ now >= now /\ T \in Int /\ T >= now - Window
    BY <1>3, <2>1
  <2>3. X[now] \in Nat /\ X[now] <= lost
    BY <1>1, <2>2
  <2>4. QED
    BY <2>1, <2>2, <2>3, Zenon
<1>5. OnAir = Total(Parts(log, Len(log), now)) /\ OnAir \in Nat /\ Finished = Len(log)
  BY OnAirIs DEF Finished
<1>6. OnAir <= Total(Counted(ring, E, T)) + X[now]
  BY <1>2, <1>3, <1>4, <1>5 DEF CountInv
<1>7. PICK F \in Seq(Int) :
        q \in Seq(Slot) /\ Stamped(q, F) /\ Total(Counted(q, F, T)) = Total(Counted(ring, E, T))
  BY <1>2, <1>3, <1>4, PruneKeeps
<1>8. Total(Counted(q, F, T)) <= Airtime(q) /\ Airtime(q) \in Nat
      /\ Total(Counted(q, F, T)) \in Nat
  <2>1. Len(F) = Len(q)
    BY <1>7 DEF Stamped
  <2>2. /\ Counted(q, F, T) \in Seq(Nat) /\ Len(Counted(q, F, T)) = Len(q)
        /\ Toas(q) \in Seq(Nat) /\ Len(Toas(q)) = Len(q)
        /\ \A j \in 1..Len(q) : Counted(q, F, T)[j] <= Toas(q)[j]
    BY <1>4, <1>7, <2>1, CountedType, Zenon
  <2>3. Total(Counted(q, F, T)) <= Total(Toas(q))
    BY <2>2, TotalGrows
  <2>4. QED
    BY <2>2, <2>3, TotalType DEF Airtime
<1>9. PICK a, c : a = Airtime(q) /\ c = Total(Counted(q, F, T))
  OBVIOUS
<1>10. OnAir <= c + X[now] /\ c \in Nat /\ a \in Nat /\ c <= a
  BY <1>6, <1>7, <1>8, <1>9, Zenon
<1>11. OnAir <= a + lost
  <2>1. PICK x, o : x = X[now] /\ o = OnAir
    OBVIOUS
  <2>2. x \in Nat /\ x <= lost /\ lost \in Nat /\ o \in Nat /\ o <= c + x /\ c \in Nat
        /\ a \in Nat /\ c <= a
    BY <1>4, <1>5, <1>10, <2>1, Zenon
  <2>3. o <= a + lost
    BY <2>2
  <2>4. QED
    BY <2>1, <2>3, Zenon
<1>12. QED
  BY <1>3, <1>9, <1>11, Zenon

\* The figure the governor decides with is never less than what was on the
\* air, whatever slots were folded and however often the counter wrapped.
THEOREM FigureIsSafe == FramesFit /\ ClockFits /\ Spec => []NeverUnderstated
<1> SUFFICES ASSUME ClockFits PROVE FramesFit /\ Spec => []NeverUnderstated
  OBVIOUS
<1>1. GovernorInv => NeverUnderstated
  BY FigureHolds DEF GovernorInv, NeverUnderstated
<1>2. QED
  BY <1>1, GovernorInvariant, PTL

LEMMA FreeWhenSent ==
  ASSUME TypeOK, FrameInv, DutyInv, Emit, log # <<>>, lost = 0
  PROVE  now >= Last(log).stop + (Ratio - 1) * (Last(log).stop - Last(log).start)
<1>1. PICK E \in Seq(Int), B \in Int, X \in [Int -> Nat] : RingInv(E, B) /\ WaitInv(E, B, X)
  BY DEF DutyInv, Accounted
<1>2. pc = "wait" /\ now = until
  BY DEF Emit
<1>3. B <= now
  BY <1>1, <1>2 DEF WaitInv
<1>4. PICK x : x = FreeFrom(LastOf(log))
  OBVIOUS
<1>5. x <= B \/ x <= now
  BY <1>1, <1>2, <1>4 DEF WaitInv
<1>6. x \in Int /\ now \in Int /\ Last(log) = LastOf(log)
  <2>1. log \in Seq(Frame) /\ Len(log) \in 1..Len(log)
    BY StampTypes
  <2>2. LastOf(log).stop \in Nat /\ LastOf(log).start \in Nat
    BY <2>1, FrameFields DEF LastOf
  <2>3. QED
    BY <1>4, <2>2, StampTypes, WrapFacts DEF Last, LastOf, FreeFrom
<1>7. now >= x
  BY <1>3, <1>5, <1>6
<1>8. QED
  BY <1>4, <1>6, <1>7, Zenon DEF FreeFrom

\* No frame starts before the off-time of the frame before it is over.
THEOREM OffTimeIsKept == FramesFit /\ ClockFits /\ Spec => OffTimeKept
<1> DEFINE Free == row = "duty" /\ pc = "wait" /\ pc' = "air" /\ log # <<>> /\ lost = 0 =>
                     now >= Last(log).stop + (Ratio - 1) * (Last(log).stop - Last(log).start)
<1>1. GovernorInv /\ [Next]_vars => [Free]_vars
  <2>1. SUFFICES ASSUME GovernorInv, Next, row = "duty", pc = "wait", pc' = "air",
                        log # <<>>, lost = 0
                 PROVE  now >= Last(log).stop
                                 + (Ratio - 1) * (Last(log).stop - Last(log).start)
    OBVIOUS
  <2>2. TypeOK /\ FrameInv /\ DutyInv
    BY <2>1 DEF GovernorInv
  <2>3. Emit
    BY <2>1 DEF Next, Ask, AskIdent, Resume, AskFor, Record, SendFailed, Sent, Query, Tick,
                txVars
  <2>4. QED
    BY <2>1, <2>2, <2>3, FreeWhenSent
<1>2. QED
  BY <1>1, GovernorInvariant, PTL DEF Spec, OffTimeKept

----------------------------------------------------------------------------
(***************************************************************************)
(* The amateur row.  No ring decides there and no time passes between the  *)
(* question whether an IDENT is due and the frame; what could go wrong is  *)
(* that the age of the last IDENT wraps.  It cannot as long as the         *)
(* application does not leave the station silent for too long: the next    *)
(* frame is asked for before the signed difference turns over.             *)
(***************************************************************************)
IdentFits ==
  /\ IdentToa + Overrun < IdentEvery
  /\ \A toa \in FrameToa : 2 * (IdentEvery + toa + Overrun + MaxIdle + 1) <= Wrap

\* last_ident_ms is the stamp of the last IDENT that went on the air.
Known ==
  ident.has /\ called \in Nat /\ called <= now /\ ident.at = Millis(called)

IdentInv ==
  /\ pc = "idle" => held = 0
  /\ pc = "wait" => until = now
  /\ pc = "resume" => until = 0
  /\ pc \in {"wait", "air"} => IF held # 0 THEN est = IdentToa ELSE est \in FrameToa
  /\ pc = "wait" =>
       IF held # 0 THEN ident.has /\ ident.at = Millis(now)
       ELSE Known /\ now - called < IdentEvery
  /\ pc = "air" =>
       /\ Known
       /\ IF held # 0 THEN called = LastOf(log).start
          ELSE LastOf(log).start - called < IdentEvery
  /\ pc = "resume" => Known /\ now - called < IdentEvery
  /\ pc = "idle" /\ ident.has =>
       /\ Known /\ log # <<>> /\ now - LastOf(log).stop <= MaxIdle
       /\ \E toa \in FrameToa : LastOf(log).stop - called < IdentEvery + toa + Overrun


LEMMA AmateurDelay ==
  ASSUME TypeOK, row = "amateur", NEW toa, AskFor(toa)
  PROVE  /\ until' = now /\ est' = toa /\ pc' = "wait" /\ now' = now /\ epoch' = epoch
         /\ called' = called /\ log' = log /\ row' = row
<1>1. until' = now + 0
  BY DEF AskFor, DelayMs
<1>2. QED
  BY <1>1, StampTypes DEF AskFor

\* A comparison that finds the last IDENT recent enough is right.
LEMMA NotDue ==
  ASSUME TypeOK, FrameInv, IdentFits, row = "amateur", IdentInv, pc = "idle",
         ~IdentDue(Millis(now))
  PROVE  Known /\ now - called < IdentEvery
<1>1. ident.has /\ ~(Delta(Millis(now), ident.at) >= IdentEvery)
  BY DEF IdentDue
<1>2. Known /\ log # <<>> /\ now - LastOf(log).stop <= MaxIdle
  BY <1>1 DEF IdentInv
<1>3. PICK toa \in FrameToa : LastOf(log).stop - called < IdentEvery + toa + Overrun
  BY <1>1 DEF IdentInv
<1>4. 2 * (IdentEvery + toa + Overrun + MaxIdle + 1) <= Wrap
  BY DEF IdentFits
<1>5. IdentEvery \in Nat /\ MaxIdle \in Nat
  BY GovernorAssumption DEF GovernorAssumption
<1>6. /\ Overrun \in Nat /\ toa \in Nat /\ Wrap \in Nat
      /\ Wrap \div 2 \in Nat /\ Wrap <= 2 * (Wrap \div 2) + 1
  BY WrapFacts
<1>7. LastOf(log).stop \in Int
  <2>1. log \in Seq(Frame) /\ Len(log) \in 1..Len(log)
    BY <1>2, StampTypes
  <2>2. QED
    BY <2>1, FrameFields DEF LastOf
<1>8. now \in Int /\ epoch \in Int /\ called \in Int /\ ident.at = Millis(called)
  BY <1>2, StampTypes DEF Known
<1>9. now - called < Wrap \div 2
  <2> DEFINE s == LastOf(log).stop
  <2>1. s \in Int /\ now - s <= MaxIdle /\ s - called < IdentEvery + toa + Overrun
    BY <1>2, <1>3, <1>7
  <2> HIDE DEF s
  <2>2. QED
    BY <1>4, <1>5, <1>6, <1>8, <2>1
<1>10. Delta(Millis(now), Millis(called)) \in Int
       /\ Delta(Millis(now), Millis(called)) >= now - called
  BY <1>8, <1>9, DeltaStamps
<1>11. QED
  BY <1>1, <1>2, <1>5, <1>8, <1>10

LEMMA LastStays ==
  ASSUME NEW l \in Seq(Frame), l # <<>>, NEW t \in Int
  PROVE  Recent(l, t) # <<>> /\ LastOf(Recent(l, t)) = LastOf(l)
<1>1. PICK k \in 1..(Len(l) + 1) : Recent(l, t) = SubSeq(l, k, Len(l)) /\ k <= Len(l)
  BY RecentIs
<1>2. Len(l) \in Nat /\ Len(l) >= 1
  OBVIOUS
<1>3. /\ Len(SubSeq(l, k, Len(l))) = Len(l) - (k - 1)
      /\ \A j \in 1..(Len(l) - (k - 1)) : SubSeq(l, k, Len(l))[j] = l[(k - 1) + j]
  BY Rest
<1>4. Len(l) - (k - 1) \in 1..(Len(l) - (k - 1)) /\ (k - 1) + (Len(l) - (k - 1)) = Len(l)
  BY <1>1, <1>2
<1>5. SubSeq(l, k, Len(l))[Len(l) - (k - 1)] = l[Len(l)]
  BY <1>3, <1>4
<1>6. Recent(l, t) # <<>>
  <2>1. Len(Recent(l, t)) >= 1
    BY <1>1, <1>3, <1>4
  <2>2. Len(<<>>) = 0
    OBVIOUS
  <2>3. ASSUME Recent(l, t) = <<>> PROVE FALSE
    <3>1. Len(Recent(l, t)) = 0
      BY <2>2, <2>3, Zenon
    <3>2. QED
      BY <2>1, <3>1
  <2>4. QED
    BY <2>3
<1>7. QED
  BY <1>1, <1>3, <1>5, <1>6 DEF LastOf

LEMMA IdentAsks ==
  ASSUME TypeOK, FrameInv, IdentFits, row = "amateur", IdentInv, Ask \/ AskIdent \/ Resume
  PROVE  IdentInv'
<1>1. CASE Ask
  <2>1. PICK toa \in FrameToa : AskFor(toa)
    BY <1>1 DEF Ask
  <2>2. pc = "idle" /\ ident' = ident /\ held' = held /\ ~IdentDue(Millis(now))
    BY <1>1 DEF Ask
  <2>3. Known /\ now - called < IdentEvery /\ held = 0
    BY <2>2, NotDue DEF IdentInv
  <2>4. /\ until' = now /\ est' = toa /\ pc' = "wait" /\ now' = now /\ epoch' = epoch
        /\ called' = called
    BY <2>1, AmateurDelay
  <2>5. Known' /\ now' - called' < IdentEvery
    BY <2>2, <2>3, <2>4 DEF Known, Millis
  <2>6. QED
    BY <2>2, <2>3, <2>4, <2>5 DEF IdentInv
<1>2. CASE AskIdent
  <2>1. /\ AskFor(IdentToa) /\ held' \in FrameToa
        /\ ident' = [has |-> TRUE, at |-> Millis(now)]
    BY <1>2 DEF AskIdent
  <2>2. until' = now /\ est' = IdentToa /\ pc' = "wait" /\ now' = now /\ epoch' = epoch
    BY <2>1, AmateurDelay
  <2>3. held' # 0
    BY <2>1, WrapFacts
  <2>4. ident'.has /\ ident'.at = Millis(now)'
    BY <2>1, <2>2 DEF Millis
  <2>5. QED
    BY <2>2, <2>3, <2>4 DEF IdentInv
<1>3. CASE Resume
  <2>1. AskFor(held) /\ pc = "resume" /\ held' = 0 /\ ident' = ident
    BY <1>3 DEF Resume
  <2>2. Known /\ now - called < IdentEvery
    BY <2>1 DEF IdentInv
  <2>3. held \in FrameToa
    BY <2>1 DEF FrameInv, TypeOK
  <2>4. /\ until' = now /\ est' = held /\ pc' = "wait" /\ now' = now /\ epoch' = epoch
        /\ called' = called
    BY <2>1, AmateurDelay
  <2>5. Known' /\ now' - called' < IdentEvery
    BY <2>1, <2>2, <2>4 DEF Known, Millis
  <2>6. QED
    BY <2>1, <2>3, <2>4, <2>5 DEF IdentInv
<1>4. QED
  BY <1>1, <1>2, <1>3

LEMMA IdentEmits ==
  ASSUME TypeOK, FrameInv, row = "amateur", IdentInv, Emit
  PROVE  /\ IdentInv'
         /\ called' \in Nat /\ now - called' < IdentEvery
<1>1. /\ pc = "wait" /\ now = until /\ pc' = "air"
      /\ log' = Append(log, [start |-> now, stop |-> until'])
      /\ called' = IF held # 0 THEN now ELSE called
      /\ now' = now /\ epoch' = epoch /\ ident' = ident /\ held' = held /\ est' = est
  BY DEF Emit
<1>2. now \in Nat /\ log \in Seq(Frame) /\ IdentEvery \in Nat /\ IdentEvery > 0
  BY StampTypes, PaceFacts
<1>3. LastOf(log').start = now
  BY <1>1, <1>2 DEF LastOf
<1>4. Known' /\ called' \in Nat /\ now - called' < IdentEvery
  <2>1. CASE held # 0
    <3>1. ident.has /\ ident.at = Millis(now) /\ called' = now
      BY <1>1, <2>1 DEF IdentInv
    <3>2. now - now < IdentEvery
      BY <1>2
    <3>3. QED
      BY <1>1, <1>2, <3>1, <3>2 DEF Known, Millis
  <2>2. CASE held = 0
    <3>1. Known /\ now - called < IdentEvery /\ called' = called
      BY <1>1, <2>2 DEF IdentInv
    <3>2. QED
      BY <1>1, <3>1 DEF Known, Millis
  <2>3. QED
    BY <2>1, <2>2
<1>5. IF held' # 0 THEN est' = IdentToa ELSE est' \in FrameToa
  BY <1>1 DEF IdentInv
<1>6. IF held' # 0 THEN called' = LastOf(log').start
      ELSE LastOf(log').start - called' < IdentEvery
  BY <1>1, <1>3, <1>4
<1>7. IdentInv'
  BY <1>1, <1>4, <1>5, <1>6 DEF IdentInv, LastOf
<1>8. QED
  BY <1>4, <1>7

LEMMA IdentSent ==
  ASSUME TypeOK, FrameInv, IdentFits, row = "amateur", IdentInv, Record \/ SendFailed
  PROVE  IdentInv'
<1>1. /\ pc = "air" /\ now = until /\ pc' = IF held # 0 THEN "resume" ELSE "idle"
      /\ est' = 0 /\ until' = 0 /\ now' = now /\ epoch' = epoch /\ held' = held /\ log' = log
      /\ ident' = ident /\ called' = called
  BY DEF Record, SendFailed, Sent, identVars
<1>2. /\ Len(log) \in Nat /\ Len(log) >= 1 /\ LastOf(log).stop = now
      /\ LastOf(log).start \in Nat /\ now - LastOf(log).start <= est + Overrun
      /\ LastOf(log)' = LastOf(log)
  BY <1>1, SentFrame DEF LastOf
<1>3. Known' /\ Known
  BY <1>1 DEF IdentInv, Known, Millis
<1>4. /\ now \in Int /\ called \in Int /\ Overrun \in Nat /\ IdentEvery \in Nat
      /\ IdentToa \in Nat /\ MaxIdle \in Nat
  BY <1>3, StampTypes, WrapFacts, PaceFacts DEF Known
<1> DEFINE a == LastOf(log).start
<1>5. a \in Int /\ now - a <= est + Overrun
  BY <1>2
<1>6. CASE held # 0
  <2>1. est = IdentToa /\ called = a
    BY <1>1, <1>6 DEF IdentInv
  <2>2. IdentToa + Overrun < IdentEvery
    BY DEF IdentFits
  <2> HIDE DEF a
  <2>3. now - called < IdentEvery
    BY <1>4, <1>5, <2>1, <2>2
  <2>4. QED
    BY <1>1, <1>3, <1>6, <2>3 DEF IdentInv
<1>7. CASE held = 0
  <2>1. est \in FrameToa /\ a - called < IdentEvery
    BY <1>1, <1>7 DEF IdentInv
  <2>2. est \in Nat
    BY <2>1, WrapFacts
  <2> HIDE DEF a
  <2>3. now - called < IdentEvery + est + Overrun
    BY <1>4, <1>5, <2>1, <2>2
  <2>4. log # <<>> /\ now - now <= MaxIdle
    BY <1>2, <1>4
  <2>5. QED
    BY <1>1, <1>2, <1>3, <1>7, <2>1, <2>3, <2>4 DEF IdentInv
<1>8. QED
  BY <1>6, <1>7

LEMMA IdentTick ==
  ASSUME TypeOK, FrameInv, row = "amateur", IdentInv, Tick
  PROVE  IdentInv'
<1>1. /\ now' = now + 1 /\ log' = Recent(log, now') /\ epoch' = epoch
      /\ pc' = pc /\ held' = held /\ est' = est /\ until' = until
      /\ ident' = ident /\ called' = called
      /\ IF pc = "idle" THEN Quiet < MaxIdle ELSE now < until
  BY DEF Tick, txVars, identVars
<1>2. now \in Nat /\ now' \in Int /\ log \in Seq(Frame) /\ MaxIdle \in Nat
  <2>1. now \in Nat /\ log \in Seq(Frame)
    BY StampTypes
  <2>2. now' \in Int
    BY <1>1, <2>1
  <2>3. QED
    BY <2>1, <2>2, PaceFacts
<1>3. log # <<>> => LastOf(log)' = LastOf(log) /\ log' # <<>>
  <2>1. log # <<>> => Recent(log, now') # <<>> /\ LastOf(Recent(log, now')) = LastOf(log)
    BY <1>2, LastStays
  <2>2. LastOf(log)' = LastOf(log')
    BY DEF LastOf
  <2>3. QED
    BY <1>1, <2>1, <2>2
<1>4. pc \in {"idle", "air"}
  BY <1>1, <1>2 DEF IdentInv, TypeOK
<1>5. Known => Known'
  <2>1. called \in Nat /\ called <= now => called <= now + 1
    BY <1>2
  <2>2. QED
    BY <1>1, <2>1 DEF Known, Millis
<1>6. CASE pc = "air"
  <2>1. log # <<>>
    BY <1>6 DEF FrameInv
  <2>2. QED
    BY <1>1, <1>3, <1>5, <1>6, <2>1 DEF IdentInv
<1>7. CASE pc = "idle"
  <2>1. ASSUME ident.has PROVE now' - LastOf(log').stop <= MaxIdle
    <3>1. log # <<>> /\ Quiet < MaxIdle
      BY <1>1, <1>7, <2>1 DEF IdentInv
    <3>2. Quiet = now - LastOf(log).stop
      BY <3>1 DEF Quiet, Last, LastOf
    <3>3. Len(log) \in 1..Len(log)
      BY <1>2, <3>1
    <3>4. LastOf(log).stop \in Int
      BY <1>2, <3>3, FrameFields DEF LastOf
    <3>5. LastOf(log').stop = LastOf(log).stop
      BY <1>3, <3>1 DEF LastOf
    <3>6. QED
      BY <1>1, <1>2, <3>1, <3>2, <3>4, <3>5
  <2>2. QED
    BY <1>1, <1>3, <1>5, <1>7, <2>1 DEF IdentInv, LastOf
<1>8. QED
  BY <1>4, <1>6, <1>7

LEMMA IdentNext ==
  ASSUME TypeOK, FrameInv, IdentFits, row = "amateur", IdentInv, [Next]_vars
  PROVE  IdentInv'
<1>1. CASE Query
  <2>1. /\ pc' = pc /\ held' = held /\ est' = est /\ until' = until /\ now' = now
        /\ epoch' = epoch /\ ident' = ident /\ called' = called /\ log' = log
    BY <1>1 DEF Query, txVars, identVars
  <2>2. QED
    BY <2>1 DEF IdentInv, Known, Millis, LastOf
<1>2. CASE UNCHANGED vars
  BY <1>2 DEF vars, txVars, identVars, IdentInv, Known, Millis, LastOf
<1>3. QED
  BY <1>1, <1>2, IdentAsks, IdentEmits, IdentSent, IdentTick DEF Next

\* Every frame of an amateur station has its callsign within the interval
\* before it, however often the counter wraps, for a station that transmits
\* before the age of its last IDENT has made half a turn.
THEOREM CallsignFirst == IdentFits /\ Spec => Identifies
<1> SUFFICES ASSUME IdentFits PROVE Spec => Identifies
  OBVIOUS
<1> DEFINE I == TypeOK /\ FrameInv /\ (row = "amateur" => IdentInv)
           A == row = "amateur" /\ pc = "wait" /\ pc' = "air" /\ lost = 0 =>
                  called' >= 0 /\ now - called' < IdentEvery
<1>1. Init => I
  <2>1. Init => TypeOK /\ FrameInv
    BY InitBasic
  <2>2. Init => IdentInv
    BY DEF Init, IdentInv
  <2>3. QED
    BY <2>1, <2>2
<1>2. I /\ [Next]_vars => I'
  BY NextBasic, IdentNext, RowStays
<1>3. I /\ [Next]_vars => [A]_vars
  <2>1. SUFFICES ASSUME I, Next, row = "amateur", pc = "wait", pc' = "air"
                 PROVE  called' >= 0 /\ now - called' < IdentEvery
    OBVIOUS
  <2>2. Emit
    BY <2>1 DEF Next, Ask, AskIdent, Resume, AskFor, Record, SendFailed, Sent, Query, Tick,
                txVars
  <2>3. called' \in Nat /\ now - called' < IdentEvery
    BY <2>1, <2>2, IdentEmits
  <2>4. QED
    BY <2>3
<1> HIDE DEF I
<1>4. QED
  BY <1>1, <1>2, <1>3, PTL DEF Spec, Identifies

----------------------------------------------------------------------------
(***************************************************************************)
(* The longest wait.  Here the ends E behind the slots and the end B of    *)
(* the off-time must not be too old either: as long as the application     *)
(* transmits every MaxIdle, each stamp is asked about before it is half a  *)
(* turn of the counter away, and then no old stamp is taken for a future   *)
(* one.                                                                    *)
(***************************************************************************)
WaitFits ==
  /\ IsFiniteSet(FrameToa)
  /\ \A toa \in FrameToa : (Ratio - 1) * (toa + Overrun) <= Window
  /\ 2 * (2 * Window + 2 * MaxFrame + MaxIdle + 1) <= Wrap

LastStop == IF log = <<>> THEN 0 ELSE LastOf(log).stop

SilenceInv(E, B) ==
  /\ Stamped(ring, E) /\ Sorted(E) /\ \A j \in 1..Len(E) : E[j] <= B
  /\ blocked = Millis(B)
  /\ pc = "idle" =>
       /\ LastStop <= now /\ now - LastStop <= MaxIdle
       /\ LastStop <= B /\ B <= LastStop + Window + MaxFrame
       /\ \A j \in 1..Len(E) : /\ LastStop - (2 * Window + 2 * MaxFrame) <= E[j]
                               /\ E[j] <= LastStop + MaxFrame
  /\ pc = "wait" =>
       /\ B <= until
       /\ \A j \in 1..Len(E) : until - (2 * Window + MaxFrame) <= E[j]
  /\ pc = "air" =>
       /\ B <= LastOf(log).start
       /\ \A j \in 1..Len(E) : LastOf(log).start - (2 * Window + MaxFrame) <= E[j]

QuietInv ==
  lost = 0 => \E E \in Seq(Int), B \in Int : SilenceInv(E, B)

LEMMA WaitNumbers ==
  ASSUME WaitFits
  PROVE  /\ MaxFrame \in Nat /\ \A toa \in FrameToa : toa + Overrun <= MaxFrame
         /\ MaxIdle \in Nat /\ Window \in Nat /\ Wrap \div 2 \in Nat
         /\ 2 * Window + 2 * MaxFrame + MaxIdle < Wrap \div 2
<1>1. /\ MaxIdle \in Nat /\ Window \in Nat /\ Overrun \in Nat /\ IdentToa \in Nat
      /\ Wrap \in Nat /\ Wrap \div 2 \in Nat /\ Wrap <= 2 * (Wrap \div 2) + 1
      /\ \A toa \in FrameToa : toa \in Nat
  BY WrapFacts, GovernorAssumption DEF GovernorAssumption
<1> DEFINE Asked == FrameToa \cup {IdentToa}
<1>2. Asked \in SUBSET Nat /\ Asked # {}
  BY <1>1
<1>3. IsFiniteSet(Asked)
  BY FS_AddElement DEF WaitFits
<1>4. PICK x \in Asked : \A y \in Asked : x >= y
  <2>1. Asked \in SUBSET Int
    BY <1>2
  <2>2. QED
    BY <1>2, <1>3, <2>1, HasMaximum
<1>5. \A f \in Frames : \E t \in Asked : f \in t..(t + Overrun)
  BY DEF Frames
<1>6. \A t \in Asked : t + Overrun \in Frames
  <2>1. SUFFICES ASSUME NEW t \in Asked PROVE t + Overrun \in Frames
    OBVIOUS
  <2>2. t \in Nat /\ t + Overrun \in t..(t + Overrun)
    BY <1>1, <1>2
  <2>3. QED
    BY <2>2 DEF Frames
<1> HIDE DEF Asked
<1>7. Frames \in SUBSET (0..(x + Overrun))
  <2>1. SUFFICES ASSUME NEW f \in Frames PROVE f \in 0..(x + Overrun)
    OBVIOUS
  <2>2. PICK t \in Asked : f \in t..(t + Overrun)
    BY <1>5
  <2>3. t \in Nat /\ x \in Nat /\ x >= t
    BY <1>2, <1>4
  <2>4. QED
    BY <1>1, <2>2, <2>3
<1>8. IsFiniteSet(Frames) /\ Frames \in SUBSET Int /\ Frames # {}
  <2>1. x + Overrun \in Int /\ 0 \in Int
    BY <1>1, <1>2
  <2>2. IsFiniteSet(0..(x + Overrun))
    BY <2>1, FS_Interval
  <2>3. IsFiniteSet(Frames)
    BY <1>7, <2>2, FS_Subset, Zenon
  <2>4. QED
    BY <1>2, <1>6, <1>7, <2>3
<1>9. MaxFrame \in Frames /\ \A f \in Frames : MaxFrame >= f
  <2>1. \E m \in Frames : \A f \in Frames : m >= f
    BY <1>8, HasMaximum, Zenon
  <2>2. QED
    BY <2>1 DEF MaxFrame, Max
<1>10. MaxFrame \in Nat
  BY <1>1, <1>2, <1>7, <1>9
<1>11. \A toa \in FrameToa : toa + Overrun <= MaxFrame
  <2>1. SUFFICES ASSUME NEW toa \in FrameToa PROVE toa + Overrun <= MaxFrame
    OBVIOUS
  <2>2. toa + Overrun \in Frames
    BY <1>6 DEF Asked
  <2>3. toa + Overrun \in Int
    BY <1>1
  <2>4. QED
    BY <1>9, <1>10, <2>2, <2>3
<1>12. 2 * (2 * Window + 2 * MaxFrame + MaxIdle + 1) <= Wrap
  BY DEF WaitFits
<1>13. 2 * Window + 2 * MaxFrame + MaxIdle < Wrap \div 2
  BY <1>1, <1>10, <1>12
<1>14. QED
  BY <1>1, <1>10, <1>11, <1>13

\* What pruning keeps is young: all of it, if the real ends are in order.
LEMMA PruneYoung ==
  ASSUME NEW r \in Seq(Slot), NEW E \in Seq(Int), Stamped(r, E), Sorted(E),
         epoch \in Int, NEW t \in Int,
         \A j \in 1..Len(E) : t - E[j] < Wrap \div 2
  PROVE  \E F \in Seq(Int) :
           /\ Prune(r, Millis(t)) \in Seq(Slot)
           /\ Stamped(Prune(r, Millis(t)), F) /\ Sorted(F)
           /\ \A i \in 1..Len(F) : F[i] > t - Window /\ \E j \in 1..Len(E) : F[i] = E[j]
<1> DEFINE young == {i \in DOMAIN r : Delta(Millis(t), r[i].end) < Window}
           S == young \cup {Len(r) + 1}
           k == Min(S)
<1>1. Len(r) \in Nat /\ DOMAIN r = 1..Len(r) /\ Len(E) = Len(r) /\ Window \in Int
      /\ \A j \in 1..Len(r) : r[j].end = Millis(E[j]) /\ E[j] \in Int
  BY SlotFields, WrapFacts DEF Stamped
<1>2. S \in SUBSET (1..(Len(r) + 1)) /\ Len(r) + 1 \in S
  BY <1>1
<1>3. IsFiniteSet(S)
  <2>1. IsFiniteSet(1..(Len(r) + 1))
    BY <1>1, FS_Interval
  <2>2. QED
    BY <1>2, <2>1, FS_Subset, Zenon
<1>4. S \in SUBSET Int /\ S # {}
  BY <1>1, <1>2
<1>5. \A i \in S : i \in 1..Len(r) => Delta(Millis(t), r[i].end) < Window
  BY <1>1
<1>6. Prune(r, Millis(t)) = SubSeq(r, k, Len(r))
  BY DEF Prune
<1> HIDE DEF S
<1>7. k \in S
  BY <1>3, <1>4, LeastOf
<1> HIDE DEF k
<1>8. k \in 1..(Len(r) + 1)
  BY <1>2, <1>7
<1> DEFINE F == SubSeq(E, k, Len(E))
           q == SubSeq(r, k, Len(r))
           n == Len(r) - (k - 1)
<1>9. /\ q \in Seq(Slot) /\ Len(q) = n
      /\ \A i \in 1..n : q[i] = r[(k - 1) + i] /\ (k - 1) + i \in 1..Len(r)
  BY <1>8, Rest
<1>10. /\ F \in Seq(Int) /\ Len(F) = n
       /\ \A i \in 1..n : F[i] = E[(k - 1) + i] /\ (k - 1) + i \in 1..Len(E)
  <2>1. k \in 1..(Len(E) + 1)
    BY <1>1, <1>8
  <2>2. QED
    BY <1>1, <2>1, Rest
<1> HIDE DEF F, q
<1>11. Stamped(q, F)
  BY <1>1, <1>9, <1>10 DEF Stamped
<1>12. n \in Int /\ k \in Int
  BY <1>1, <1>8
<1>13. Sorted(F)
  <2>1. SUFFICES ASSUME NEW i \in 1..n, NEW j \in 1..n, i <= j PROVE F[i] <= F[j]
    BY <1>10 DEF Sorted
  <2>2. (k - 1) + i \in 1..Len(E) /\ (k - 1) + j \in 1..Len(E) /\ (k - 1) + i <= (k - 1) + j
    <3>1. (k - 1) + i \in 1..Len(E) /\ (k - 1) + j \in 1..Len(E)
      BY <1>10, Zenon
    <3>2. i \in Int /\ j \in Int
      OBVIOUS
    <3>3. (k - 1) + i <= (k - 1) + j
      BY <1>12, <2>1, <3>2
    <3>4. QED
      BY <3>1, <3>3
  <2>3. E[(k - 1) + i] <= E[(k - 1) + j]
    BY <2>2 DEF Sorted
  <2>4. QED
    BY <1>10, <2>3
<1>14. ASSUME NEW i \in 1..n PROVE F[i] > t - Window
  <2>1. k \in 1..Len(r) /\ k \in 1..Len(E) /\ (k - 1) + i \in 1..Len(E) /\ k <= (k - 1) + i
    BY <1>1, <1>8, <1>10, <1>12
  <2>2. Delta(Millis(t), Millis(E[k])) < Window
    BY <1>1, <1>5, <1>7, <2>1
  <2>3. E[k] \in Int /\ t - E[k] < Wrap \div 2
    BY <1>1, <2>1
  <2>4. Delta(Millis(t), Millis(E[k])) \in Int /\ Delta(Millis(t), Millis(E[k])) >= t - E[k]
    BY <2>3, DeltaStamps
  <2>5. E[k] <= F[i] /\ F[i] \in Int
    <3>1. E[k] <= E[(k - 1) + i] /\ E[(k - 1) + i] \in Int
      BY <1>1, <2>1 DEF Sorted
    <3>2. QED
      BY <1>10, <3>1
  <2>6. QED
    BY <1>1, <2>2, <2>3, <2>4, <2>5
<1>15. \A i \in 1..n : \E j \in 1..Len(E) : F[i] = E[j]
  BY <1>10
<1>16. Prune(r, Millis(t)) = q
  BY <1>6 DEF q
<1>17. F \in Seq(Int) /\ q \in Seq(Slot) /\ Stamped(q, F) /\ Sorted(F)
       /\ \A i \in 1..Len(F) : F[i] > t - Window /\ \E j \in 1..Len(E) : F[i] = E[j]
  <2>1. Len(F) = n
    BY <1>10
  <2>2. \A i \in 1..n : F[i] > t - Window /\ \E j \in 1..Len(E) : F[i] = E[j]
    BY <1>14, <1>15, Zenon
  <2>3. QED
    BY <1>9, <1>10, <1>11, <1>13, <2>1, <2>2, Zenon
<1>18. QED
  BY <1>16, <1>17, Zenon

\* The wait computed at t is over when the off-time and the last slot are.
LEMMA WaitAtMost ==
  ASSUME NEW r \in Seq(Slot), NEW F \in Seq(Int), Stamped(r, F),
         NEW B \in Int, epoch \in Int, NEW t \in Int, NEW toa \in Int, NEW w \in Nat,
         \A i \in 1..Len(F) : F[i] > t - Window /\ F[i] + Window - t <= w,
         B - t <= w, B - t >= -(Wrap \div 2), row # "amateur"
  PROVE  DelayMs(r, Millis(B), Millis(t), toa) <= w
<1> DEFINE ms == Millis(t)
           b == Millis(B)
<1>1. ms \in Int /\ b \in Int /\ Window \in Int /\ Wrap \div 2 \in Nat
  <2>1. ms \in 0..(Wrap - 1) /\ b \in 0..(Wrap - 1)
    BY MillisType
  <2>2. Wrap \in Nat /\ Window \in Int /\ Wrap \div 2 \in Nat
    BY WrapFacts
  <2>3. QED
    BY <2>1, <2>2
<1>2. OffTimeWait(b, ms) <= w /\ OffTimeWait(b, ms) \in Int
  <2>1. Delta(b, ms) \in Int /\ Delta(b, ms) <= B - t
    BY DeltaStamps
  <2>2. Max({0, Delta(b, ms)}) \in {0, Delta(b, ms)}
    <3>1. 0 \in Int
      OBVIOUS
    <3>2. QED
      BY <2>1, <3>1, GreaterOf, Zenon
  <2>3. OffTimeWait(b, ms) \in {0, Delta(b, ms)}
    BY <2>2 DEF OffTimeWait
  <2> HIDE DEF b, ms
  <2>4. QED
    BY <2>1, <2>3
<1>3. WindowWait(r, ms, toa) <= w /\ WindowWait(r, ms, toa) \in Int
  <2> DEFINE m == Min(Enough(r, toa))
             d == Delta((r[m].end + Window) % Wrap, ms)
  <2>1. WindowWait(r, ms, toa) =
          IF Need(r, toa) <= 0 \/ Enough(r, toa) = {} THEN 0 ELSE Max({0, d})
    BY DEF WindowWait, Need, Enough
  <2>2. CASE Need(r, toa) <= 0 \/ Enough(r, toa) = {}
    BY <2>1, <2>2
  <2>3. CASE ~(Need(r, toa) <= 0 \/ Enough(r, toa) = {})
    <3>1. DOMAIN r = 1..Len(r) /\ Len(r) \in Nat /\ Len(F) = Len(r)
          /\ \A j \in 1..Len(r) : r[j].end = Millis(F[j])
      BY SlotFields DEF Stamped
    <3>2. Enough(r, toa) \in SUBSET (1..Len(r))
      BY <3>1 DEF Enough
    <3>3. Enough(r, toa) \in SUBSET Int /\ IsFiniteSet(Enough(r, toa))
      <4>1. IsFiniteSet(1..Len(r)) /\ (1..Len(r)) \subseteq Int
        BY <3>1, FS_Interval
      <4>2. QED
        BY <3>2, <4>1, FS_Subset, Zenon
    <3>4. m \in Enough(r, toa)
      BY <2>3, <3>3, LeastOf
    <3> HIDE DEF m
    <3>5. m \in 1..Len(F) /\ r[m].end = Millis(F[m]) /\ F[m] \in Int
      BY <3>1, <3>2, <3>4
    <3>6. F[m] > t - Window /\ F[m] + Window - t <= w
      BY <3>5
    <3>7. F[m] + Window - t >= -(Wrap \div 2)
      <4>1. PICK h \in Nat : h = Wrap \div 2
        BY <1>1
      <4>2. PICK x \in Int : x = F[m]
        BY <3>5
      <4>3. PICK z \in Int : z = Window
        BY <1>1
      <4>4. x > t - z
        BY <3>6, <4>2, <4>3
      <4>5. x + z - t >= -h
        BY <4>4
      <4>6. QED
        BY <4>1, <4>2, <4>3, <4>5
    <3>8. d \in Int /\ d <= F[m] + Window - t
      <4>1. /\ Delta((Millis(F[m]) + Window) % Wrap, Millis(t)) \in Int
            /\ Delta((Millis(F[m]) + Window) % Wrap, Millis(t)) <= F[m] + Window - t
        BY <1>1, <3>5, <3>7, DeltaAfter
      <4>2. QED
        BY <3>5, <4>1
    <3> HIDE DEF d
    <3>9. Max({0, d}) \in {0, d}
      <4>1. 0 \in Int
        OBVIOUS
      <4>2. QED
        BY <3>8, <4>1, GreaterOf, Zenon
    <3>10. d <= w
      <4>1. PICK x \in Int : x = F[m] + Window - t
        <5>1. \A y, z \in Int : y + z - t \in Int
          OBVIOUS
        <5>2. F[m] + Window - t \in Int
          BY <1>1, <3>5, <5>1, Zenon
        <5>3. QED
          BY <5>2, Zenon
      <4>2. d <= x /\ x <= w
        BY <3>6, <3>8, <4>1
      <4>3. QED
        BY <3>8, <4>2
    <3>11. QED
      BY <2>1, <2>3, <3>8, <3>9, <3>10
  <2>4. QED
    BY <2>2, <2>3
<1>4. DelayMs(r, b, ms, toa) \in {OffTimeWait(b, ms), WindowWait(r, ms, toa)}
  BY <1>1, DelayIs
<1>5. QED
  BY <1>2, <1>3, <1>4


LEMMA StopType ==
  ASSUME TypeOK, FrameInv
  PROVE  /\ LastStop \in Nat
         /\ log # <<>> => LastOf(log) \in Frame /\ LastOf(log).start \in Nat
                          /\ LastOf(log).stop \in Nat
<1>1. log \in Seq(Frame)
  BY StampTypes
<1>2. CASE log = <<>>
  BY <1>2 DEF LastStop
<1>3. CASE log # <<>>
  <2>1. Len(log) \in 1..Len(log)
    BY <1>1, <1>3
  <2>2. QED
    BY <1>1, <1>3, <2>1, FrameFields DEF LastOf, LastStop
<1>4. QED
  BY <1>2, <1>3

LEMMA QuietAsk ==
  ASSUME WaitFits, TypeOK, FrameInv, row = "duty", pc = "idle",
         NEW E \in Seq(Int), NEW B \in Int, SilenceInv(E, B),
         NEW toa \in FrameToa, AskFor(toa)
  PROVE  /\ \E F \in Seq(Int) : SilenceInv(F, B)'
         /\ until' - now <= Window + MaxFrame
<1>1. /\ ring' = Prune(ring, Millis(now)) /\ pc' = "wait" /\ now' = now /\ epoch' = epoch
      /\ until' = now + DelayMs(ring', blocked, Millis(now), toa) /\ blocked' = blocked
  BY DEF AskFor
<1>2. /\ Stamped(ring, E) /\ Sorted(E) /\ blocked = Millis(B)
      /\ LastStop <= now /\ now - LastStop <= MaxIdle
      /\ LastStop <= B /\ B <= LastStop + Window + MaxFrame
      /\ \A j \in 1..Len(E) : /\ LastStop - (2 * Window + 2 * MaxFrame) <= E[j]
                              /\ E[j] <= LastStop + MaxFrame /\ E[j] <= B
  BY DEF SilenceInv
<1>3. /\ MaxFrame \in Nat /\ MaxIdle \in Nat /\ Window \in Nat /\ Wrap \div 2 \in Nat
      /\ 2 * Window + 2 * MaxFrame + MaxIdle < Wrap \div 2
  BY WaitNumbers
<1>4. now \in Int /\ epoch \in Int /\ ring \in Seq(Slot) /\ LastStop \in Int /\ toa \in Int
      /\ toa \in FrameToa \cup {IdentToa}
  BY StampTypes, StopType, WrapFacts
<1>5. PICK p \in Int : p = LastStop
  BY <1>4
<1>6. PICK h \in Nat : h = Wrap \div 2
  BY <1>3
<1>7. \A j \in 1..Len(E) : E[j] \in Int
  OBVIOUS
<1>8. \A j \in 1..Len(E) : now - E[j] < Wrap \div 2
  <2>1. SUFFICES ASSUME NEW j \in 1..Len(E) PROVE now - E[j] < Wrap \div 2
    OBVIOUS
  <2>2. PICK x \in Int : x = E[j]
    BY <1>7
  <2>3. p - (2 * Window + 2 * MaxFrame) <= x /\ now - p <= MaxIdle
    BY <1>2, <1>5, <2>2
  <2>4. now - x < h
    BY <1>3, <1>4, <1>6, <2>3
  <2>5. QED
    BY <1>6, <2>2, <2>4
<1>9. PICK F \in Seq(Int) :
        /\ ring' \in Seq(Slot) /\ Stamped(ring', F) /\ Sorted(F)
        /\ \A i \in 1..Len(F) : F[i] > now - Window /\ \E j \in 1..Len(E) : F[i] = E[j]
  BY <1>1, <1>2, <1>4, <1>8, PruneYoung
<1>10. \A i \in 1..Len(F) : /\ F[i] \in Int /\ F[i] > now - Window
                            /\ F[i] <= p + MaxFrame /\ F[i] <= B
  <2>1. SUFFICES ASSUME NEW i \in 1..Len(F)
                 PROVE  F[i] \in Int /\ F[i] > now - Window
                        /\ F[i] <= p + MaxFrame /\ F[i] <= B
    OBVIOUS
  <2>2. F[i] > now - Window /\ \E j \in 1..Len(E) : F[i] = E[j]
    BY <1>9
  <2>3. PICK j \in 1..Len(E) : F[i] = E[j]
    BY <2>2
  <2>4. E[j] <= p + MaxFrame /\ E[j] <= B /\ E[j] \in Int
    BY <1>2, <1>5, <1>7
  <2>5. QED
    BY <2>2, <2>3, <2>4
<1>11. \A i \in 1..Len(F) : F[i] > now - Window /\ F[i] + Window - now <= Window + MaxFrame
  <2>1. SUFFICES ASSUME NEW i \in 1..Len(F)
                 PROVE  F[i] > now - Window /\ F[i] + Window - now <= Window + MaxFrame
    OBVIOUS
  <2>2. PICK x \in Int : x = F[i]
    BY <1>10
  <2>3. x > now - Window /\ x <= p + MaxFrame /\ p <= now
    BY <1>2, <1>5, <1>10, <2>2
  <2>4. x + Window - now <= Window + MaxFrame
    BY <1>3, <1>4, <2>3
  <2>5. QED
    BY <2>2, <2>3, <2>4
<1>12. B - now <= Window + MaxFrame /\ B - now >= -(Wrap \div 2) /\ B - now < Wrap \div 2
  <2>1. p <= B /\ B <= p + Window + MaxFrame /\ p <= now /\ now - p <= MaxIdle
    BY <1>2, <1>5
  <2>2. B - now <= Window + MaxFrame /\ B - now >= -h /\ B - now < h
    BY <1>3, <1>4, <1>6, <2>1
  <2>3. QED
    BY <1>6, <2>2
<1> DEFINE d == DelayMs(ring', Millis(B), Millis(now), toa)
<1>13. d <= Window + MaxFrame
  <2>1. Window + MaxFrame \in Nat /\ row # "amateur"
    BY <1>3
  <2>2. QED
    BY <1>4, <1>9, <1>11, <1>12, <2>1, WaitAtMost
<1>14. d \in Nat /\ d >= B - now
  <2>1. Millis(now) \in Int /\ Millis(B) \in Int
    BY <1>2, StampTypes
  <2>2. d \in Nat /\ d >= OffTimeWait(Millis(B), Millis(now))
    BY <1>4, <1>9, <2>1, DelayIs
  <2>3. /\ OffTimeWait(Millis(B), Millis(now)) \in Nat
        /\ OffTimeWait(Millis(B), Millis(now)) >= Delta(Millis(B), Millis(now))
    BY <2>1, OffTimeAtLeast
  <2>4. Delta(Millis(B), Millis(now)) \in Int /\ Delta(Millis(B), Millis(now)) >= B - now
    BY <1>4, <1>12, DeltaStamps
  <2> HIDE DEF d
  <2>5. QED
    BY <1>4, <2>2, <2>3, <2>4
<1>15. until' = now + d
  BY <1>1, <1>2
<1> HIDE DEF d
<1>16. until' - now <= Window + MaxFrame /\ B <= until' /\ until' \in Int
  BY <1>3, <1>4, <1>13, <1>14, <1>15
<1>17. \A j \in 1..Len(F) : until' - (2 * Window + MaxFrame) <= F[j]
  <2>1. SUFFICES ASSUME NEW j \in 1..Len(F)
                 PROVE  until' - (2 * Window + MaxFrame) <= F[j]
    OBVIOUS
  <2>2. PICK x \in Int : x = F[j]
    BY <1>10
  <2>3. x > now - Window
    BY <1>10, <2>2
  <2>4. until' - (2 * Window + MaxFrame) <= x
    <3>1. PICK u \in Int : u = until'
      BY <1>16
    <3>2. u - now <= Window + MaxFrame
      BY <1>16, <3>1
    <3>3. u - (2 * Window + MaxFrame) <= x
      BY <1>3, <1>4, <2>3, <3>2
    <3>4. QED
      BY <3>1, <3>3
  <2>5. QED
    BY <2>2, <2>4
<1>18. blocked' = Millis(B)' /\ Stamped(ring, F)'
  BY <1>1, <1>2, <1>9 DEF Millis, Stamped
<1>19. SilenceInv(F, B)'
  BY <1>1, <1>9, <1>10, <1>16, <1>17, <1>18 DEF SilenceInv
<1>20. QED
  BY <1>16, <1>19

LEMMA QuietQuery ==
  ASSUME WaitFits, TypeOK, FrameInv, pc = "idle",
         NEW E \in Seq(Int), NEW B \in Int, SilenceInv(E, B), Query
  PROVE  \E F \in Seq(Int) : SilenceInv(F, B)'
<1>1. /\ ring' = Prune(ring, Millis(now)) /\ pc' = pc /\ now' = now /\ epoch' = epoch
      /\ blocked' = blocked /\ log' = log
  BY DEF Query, txVars
<1>2. /\ Stamped(ring, E) /\ Sorted(E) /\ blocked = Millis(B)
      /\ LastStop <= now /\ now - LastStop <= MaxIdle
      /\ LastStop <= B /\ B <= LastStop + Window + MaxFrame
      /\ \A j \in 1..Len(E) : /\ LastStop - (2 * Window + 2 * MaxFrame) <= E[j]
                              /\ E[j] <= LastStop + MaxFrame /\ E[j] <= B
  BY DEF SilenceInv
<1>3. /\ MaxFrame \in Nat /\ MaxIdle \in Nat /\ Window \in Nat /\ Wrap \div 2 \in Nat
      /\ 2 * Window + 2 * MaxFrame + MaxIdle < Wrap \div 2
  BY WaitNumbers
<1>4. now \in Int /\ epoch \in Int /\ ring \in Seq(Slot) /\ LastStop \in Int
  BY StampTypes, StopType
<1>5. PICK p \in Int : p = LastStop
  BY <1>4
<1>6. PICK h \in Nat : h = Wrap \div 2
  BY <1>3
<1>7. \A j \in 1..Len(E) : now - E[j] < Wrap \div 2
  <2>1. SUFFICES ASSUME NEW j \in 1..Len(E) PROVE now - E[j] < Wrap \div 2
    OBVIOUS
  <2>2. PICK x \in Int : x = E[j]
    OBVIOUS
  <2>3. p - (2 * Window + 2 * MaxFrame) <= x /\ now - p <= MaxIdle
    BY <1>2, <1>5, <2>2
  <2>4. now - x < h
    BY <1>3, <1>4, <1>6, <2>3
  <2>5. QED
    BY <1>6, <2>2, <2>4
<1>8. PICK F \in Seq(Int) :
        /\ Stamped(ring', F) /\ Sorted(F)
        /\ \A i \in 1..Len(F) : F[i] > now - Window /\ \E j \in 1..Len(E) : F[i] = E[j]
  BY <1>1, <1>2, <1>4, <1>7, PruneYoung
<1>9. \A i \in 1..Len(F) : /\ LastStop - (2 * Window + 2 * MaxFrame) <= F[i]
                           /\ F[i] <= LastStop + MaxFrame /\ F[i] <= B
  BY <1>2, <1>8
<1>10. /\ blocked' = Millis(B)' /\ Stamped(ring, F)' /\ LastStop' = LastStop
  BY <1>1, <1>2, <1>8 DEF Millis, Stamped, LastStop, LastOf
<1>11. SilenceInv(F, B)'
  BY <1>1, <1>2, <1>8, <1>9, <1>10 DEF SilenceInv
<1>12. QED
  BY <1>11

LEMMA QuietEmit ==
  ASSUME TypeOK, NEW E \in Seq(Int), NEW B \in Int, SilenceInv(E, B), Emit
  PROVE  SilenceInv(E, B)'
<1>1. /\ pc = "wait" /\ now = until /\ pc' = "air"
      /\ log' = Append(log, [start |-> now, stop |-> until'])
      /\ now' = now /\ epoch' = epoch /\ ring' = ring /\ blocked' = blocked
  BY DEF Emit, govVars
<1>2. LastOf(log').start = now
  <2>1. log \in Seq(Frame)
    BY StampTypes
  <2>2. QED
    BY <1>1, <2>1 DEF LastOf
<1>3. /\ Stamped(ring, E) /\ Sorted(E) /\ \A j \in 1..Len(E) : E[j] <= B
      /\ blocked = Millis(B) /\ B <= now
      /\ \A j \in 1..Len(E) : now - (2 * Window + MaxFrame) <= E[j]
  BY <1>1 DEF SilenceInv
<1>4. blocked' = Millis(B)' /\ Stamped(ring, E)' /\ LastOf(log)'.start = now
  BY <1>1, <1>2, <1>3 DEF Millis, Stamped, LastOf
<1>5. QED
  BY <1>1, <1>3, <1>4 DEF SilenceInv

LEMMA QuietTick ==
  ASSUME TypeOK, FrameInv, row = "duty",
         NEW E \in Seq(Int), NEW B \in Int, SilenceInv(E, B), Tick
  PROVE  SilenceInv(E, B)'
<1>1. /\ now' = now + 1 /\ log' = Recent(log, now') /\ epoch' = epoch
      /\ pc' = pc /\ until' = until /\ ring' = ring /\ blocked' = blocked
      /\ pc = "idle" => Quiet < MaxIdle
  BY DEF Tick, txVars, govVars
<1>2. now \in Nat /\ now' \in Int /\ log \in Seq(Frame) /\ MaxIdle \in Nat
  <2>1. now \in Nat /\ log \in Seq(Frame)
    BY StampTypes
  <2>2. MaxIdle \in Nat
    BY GovernorAssumption DEF GovernorAssumption
  <2>3. QED
    BY <1>1, <2>1, <2>2
<1>3. /\ log # <<>> => LastOf(log)' = LastOf(log) /\ log' # <<>>
      /\ log = <<>> => log' = <<>>
  <2>1. log # <<>> => Recent(log, now') # <<>> /\ LastOf(Recent(log, now')) = LastOf(log)
    BY <1>2, LastStays
  <2>2. LastOf(log)' = LastOf(log')
    BY DEF LastOf
  <2>3. log = <<>> => Recent(log, now') = <<>>
    <3>1. PICK k \in 1..(Len(log) + 1) : Recent(log, now') = SubSeq(log, k, Len(log))
      BY <1>2, RecentIs
    <3>2. ASSUME log = <<>> PROVE SubSeq(log, k, Len(log)) = <<>>
      <4>1. Len(log) = 0
        BY <3>2
      <4>2. k = 1
        BY <4>1
      <4>3. QED
        BY <3>2, <4>1, <4>2
    <3>3. QED
      BY <3>1, <3>2
  <2>4. QED
    BY <1>1, <2>1, <2>2, <2>3
<1>4. LastStop' = LastStop /\ LastStop \in Nat
  BY <1>3, StopType DEF LastStop, LastOf
<1>5. pc = "idle" => LastStop' <= now' /\ now' - LastStop' <= MaxIdle
  <2>1. Quiet = now - LastStop
    BY DEF Quiet, LastStop, Last, LastOf
  <2>2. pc = "idle" => LastStop <= now
    BY DEF SilenceInv
  <2>3. QED
    BY <1>1, <1>2, <1>4, <2>1, <2>2
<1>6. pc = "air" => LastOf(log)' = LastOf(log)
  BY <1>3 DEF FrameInv
<1>7. blocked' = Millis(B)' /\ Stamped(ring, E)'
  BY <1>1 DEF SilenceInv, Millis, Stamped
<1>8. QED
  BY <1>1, <1>4, <1>5, <1>6, <1>7 DEF SilenceInv


LEMMA QuietRecord ==
  ASSUME WaitFits, TypeOK, FrameInv, row = "duty",
         NEW E \in Seq(Int), NEW B \in Int, SilenceInv(E, B), Record
  PROVE  \E F \in Seq(Int), C \in Int : SilenceInv(F, C)'
<1>1. PICK toa, a, p, C : /\ toa = now - LastOf(log).start /\ a = LastOf(log).start
                          /\ p = toa * Ratio /\ C = now + p
  OBVIOUS
<1>2. /\ pc = "air" /\ now = until /\ pc' = "idle" /\ log' = log
      /\ now' = now /\ epoch' = epoch
  BY DEF Record, Sent, identVars, FrameInv
<1>3. /\ Last(log) = LastOf(log) /\ Len(log) >= 1 /\ LastOf(log).stop = now
      /\ a \in Nat /\ a < now /\ toa \in Nat /\ toa > 0 /\ toa <= est + Overrun
      /\ now = a + toa
  <2>1. /\ Last(log) = LastOf(log) /\ Len(log) >= 1 /\ LastOf(log).stop = now
        /\ a \in Nat /\ a < now /\ toa \in Nat /\ toa > 0 /\ toa <= est + Overrun
    BY <1>1, <1>2, SentFrame
  <2>2. now \in Nat
    BY StampTypes
  <2>3. QED
    BY <1>1, <2>1, <2>2
<1>4. /\ now \in Nat /\ now \in Int /\ epoch \in Int /\ ring \in Seq(Slot)
      /\ Len(ring) <= Slots /\ est \in Nat /\ Overrun \in Nat /\ Ratio \in Nat /\ Ratio >= 1
  <2>1. /\ now \in Nat /\ now \in Int /\ epoch \in Int /\ ring \in Seq(Slot)
        /\ Len(ring) <= Slots /\ est \in Nat
    BY StampTypes
  <2>2. Overrun \in Nat /\ Ratio \in Nat /\ Ratio >= 1
    BY WrapFacts
  <2>3. QED
    BY <2>1, <2>2
<1>5. /\ MaxFrame \in Nat /\ MaxIdle \in Nat /\ Window \in Nat
      /\ \A t \in FrameToa : t + Overrun <= MaxFrame
  BY WaitNumbers
<1>6. est \in FrameToa
  BY <1>2 DEF FrameInv
<1>7. toa <= MaxFrame
  <2>1. est + Overrun <= MaxFrame
    BY <1>5, <1>6
  <2>2. QED
    BY <1>3, <1>4, <1>5, <2>1
<1>8. p \in Nat /\ toa <= p /\ p <= Window + MaxFrame
  <2>1. (Ratio - 1) * (est + Overrun) <= Window
    BY <1>6 DEF WaitFits
  <2> DEFINE c == Ratio - 1
             x == est + Overrun - toa
  <2>2. c \in Nat /\ x \in Nat /\ est + Overrun = toa + x /\ Ratio = c + 1
    BY <1>3, <1>4
  <2> HIDE DEF c, x
  <2>3. c * x \in Nat /\ c * toa \in Nat
    BY <1>3, <2>2
  <2>4. c * (toa + x) = c * toa + c * x
    BY <1>3, <2>2
  <2>5. c * toa <= Window
    <3>1. c * (est + Overrun) <= Window
      BY <2>1 DEF c
    <3>2. c * toa + c * x <= Window
      BY <2>2, <2>4, <3>1
    <3>3. QED
      BY <1>5, <2>3, <3>2
  <2>6. p = c * toa + toa
    <3>1. toa * (c + 1) = c * toa + toa
      BY <1>3, <2>2
    <3>2. QED
      BY <1>1, <2>2, <3>1
  <2>7. QED
    BY <1>3, <1>5, <1>7, <2>3, <2>5, <2>6
<1>9. ring' = Recorded(ring, Millis(now), toa) /\ blocked' = BlockedUntil(Millis(now), toa)
  BY <1>1, <1>3 DEF Record
<1>10. C = now + p /\ C \in Int
  BY <1>1, <1>4, <1>8
<1>11. blocked' = Millis(C)
  <2>1. blocked' = (Millis(now) + p) % Wrap
    BY <1>1, <1>9 DEF BlockedUntil
  <2>2. p \in Int
    BY <1>8
  <2>3. QED
    BY <1>4, <1>10, <2>1, <2>2, StampLater
<1>12. /\ Stamped(ring, E) /\ Sorted(E) /\ B <= a
       /\ \A j \in 1..Len(E) : E[j] <= B /\ a - (2 * Window + MaxFrame) <= E[j]
  BY <1>1, <1>2 DEF SilenceInv
<1>13. \A j \in 1..Len(E) : /\ E[j] \in Int /\ E[j] <= now
                            /\ a - (2 * Window + MaxFrame) <= E[j]
  <2>1. SUFFICES ASSUME NEW j \in 1..Len(E)
                 PROVE  /\ E[j] \in Int /\ E[j] <= now
                        /\ a - (2 * Window + MaxFrame) <= E[j]
    OBVIOUS
  <2>2. E[j] \in Int /\ E[j] <= B /\ a - (2 * Window + MaxFrame) <= E[j]
    BY <1>12
  <2>3. QED
    BY <1>3, <1>4, <1>12, <2>2
<1>14. PICK F \in Seq(Int) :
         /\ Stamped(ring', F) /\ Sorted(F)
         /\ \A j \in 1..Len(F) : F[j] = now + toa \/ \E k \in 1..Len(E) : F[j] = E[k]
  <2>1. \A j \in 1..Len(E) : E[j] <= now + toa
    BY <1>3, <1>4, <1>13
  <2>2. LET q == Recorded(ring, Millis(now), toa)
        IN \E F \in Seq(Int) :
             /\ Stamped(q, F) /\ Sorted(F) /\ \A j \in 1..Len(F) : F[j] <= now + toa
             /\ \A j \in 1..Len(F) : F[j] = now + toa \/ \E k \in 1..Len(E) : F[j] = E[k]
             /\ \A T \in Int :
                  Total(Counted(ring, E, T)) + (IF now + toa > T THEN toa ELSE 0)
                    <= Total(Counted(q, F, T))
    BY <1>3, <1>4, <1>12, <2>1, RecordCounts, Zenon
  <2>3. PICK F \in Seq(Int) :
             /\ Stamped(Recorded(ring, Millis(now), toa), F) /\ Sorted(F)
             /\ \A j \in 1..Len(F) : F[j] = now + toa \/ \E k \in 1..Len(E) : F[j] = E[k]
    BY <2>2, Zenon
  <2>4. QED
    BY <1>9, <2>3
<1>15. \A j \in 1..Len(F) : /\ F[j] <= C /\ F[j] <= now + MaxFrame
                            /\ now - (2 * Window + 2 * MaxFrame) <= F[j]
  <2>1. SUFFICES ASSUME NEW j \in 1..Len(F)
                 PROVE  /\ F[j] <= C /\ F[j] <= now + MaxFrame
                        /\ now - (2 * Window + 2 * MaxFrame) <= F[j]
    OBVIOUS
  <2>2. PICK x \in Int : x = F[j]
    OBVIOUS
  <2>3. CASE x = now + toa
    BY <1>3, <1>4, <1>5, <1>7, <1>8, <1>10, <2>2, <2>3
  <2>4. CASE \E k \in 1..Len(E) : x = E[k]
    <3>1. x <= now /\ a - (2 * Window + MaxFrame) <= x
      BY <1>13, <2>4
    <3>2. /\ x <= C /\ x <= now + MaxFrame
          /\ now - (2 * Window + 2 * MaxFrame) <= x
      BY <1>3, <1>4, <1>5, <1>7, <1>8, <1>10, <3>1
    <3>3. QED
      BY <2>2, <3>2
  <2>5. QED
    BY <1>14, <2>2, <2>3, <2>4
<1>16. LastStop' = now
  <2>1. log # <<>>
    BY <1>3
  <2>2. QED
    BY <1>2, <1>3, <2>1 DEF LastStop, LastOf
<1>17. now <= C /\ C <= now + Window + MaxFrame /\ now - now <= MaxIdle /\ now <= now
  BY <1>4, <1>5, <1>8, <1>10
<1>18. blocked' = Millis(C)' /\ Stamped(ring, F)'
  BY <1>2, <1>11, <1>14 DEF Millis, Stamped
<1>19. SilenceInv(F, C)'
  BY <1>2, <1>14, <1>15, <1>16, <1>17, <1>18 DEF SilenceInv
<1>20. QED
  BY <1>10, <1>19

LEMMA QuietInit ==
  ASSUME WaitFits, Init
  PROVE  QuietInv
<1>1. /\ now = 0 /\ epoch = 0 /\ ring = <<>> /\ blocked = 0 /\ pc = "idle" /\ log = <<>>
  BY DEF Init
<1>2. Millis(0) = 0
  BY <1>1, WrapFacts DEF Millis
<1>3. <<>> \in Seq(Int) /\ Len(<<>>) = 0 /\ 0 \in Int
  OBVIOUS
<1>4. /\ MaxFrame \in Nat /\ Window \in Nat /\ MaxIdle \in Nat
  BY WaitNumbers
<1>5. Stamped(ring, <<>>) /\ Sorted(<<>>) /\ \A j \in 1..Len(<<>>) : FALSE
  BY <1>1, <1>3 DEF Stamped, Sorted
<1>6. LastStop = 0
  BY <1>1 DEF LastStop
<1>7. SilenceInv(<<>>, 0)
  BY <1>1, <1>2, <1>4, <1>5, <1>6 DEF SilenceInv
<1>8. QED
  BY <1>3, <1>7 DEF QuietInv

LEMMA QuietNext ==
  ASSUME WaitFits, TypeOK, FrameInv, row = "duty", QuietInv, [Next]_vars
  PROVE  QuietInv'
<1>1. SUFFICES ASSUME lost' = 0
               PROVE  \E F \in Seq(Int), C \in Int : SilenceInv(F, C)'
  BY DEF QuietInv
<1>2. lost = 0 /\ ~SendFailed
  <2>1. CASE SendFailed
    <3>1. pc = "air" /\ now = until /\ lost' = lost + (now - Last(log).start)
      BY <2>1 DEF SendFailed, Sent
    <3>2. now - LastOf(log).start \in Nat /\ now - LastOf(log).start > 0 /\ Last(log) = LastOf(log)
      BY <3>1, SentFrame
    <3>3. lost \in Nat
      BY StampTypes
    <3>4. QED
      BY <1>1, <3>1, <3>2, <3>3
  <2>2. CASE ~SendFailed
    <3>1. lost' = lost
      BY <2>2 DEF Next, vars, Ask, AskIdent, Resume, AskFor, Emit, Record, Query, Tick
    <3>2. QED
      BY <1>1, <2>2, <3>1
  <2>3. QED
    BY <2>1, <2>2
<1>3. PICK E \in Seq(Int), B \in Int : SilenceInv(E, B)
  BY <1>2 DEF QuietInv
<1>4. CASE Ask
  <2>1. pc = "idle" /\ \E toa \in FrameToa : AskFor(toa)
    BY <1>4 DEF Ask
  <2>2. QED
    BY <1>3, <2>1, QuietAsk
<1>5. CASE Query
  <2>1. pc = "idle"
    BY <1>5 DEF Query
  <2>2. QED
    BY <1>3, <1>5, <2>1, QuietQuery
<1>6. CASE UNCHANGED vars
  <2>1. SilenceInv(E, B)'
    BY <1>3, <1>6 DEF vars, govVars, txVars, SilenceInv, Stamped, Millis, LastStop, LastOf
  <2>2. QED
    BY <2>1
<1>7. CASE Emit
  BY <1>3, <1>7, QuietEmit
<1>8. CASE Tick
  BY <1>3, <1>8, QuietTick
<1>9. CASE Record
  BY <1>3, <1>9, QuietRecord
<1>10. QED
  BY <1>2, <1>4, <1>5, <1>6, <1>7, <1>8, <1>9, DutyAsks DEF Next

\* No frame waits longer than the window and a frame, on an amateur row not
\* at all: for every region whose off-times fit the window, and an application
\* that transmits before the counter has made half a turn.
THEOREM WaitIsBounded == WaitFits /\ Spec => WaitBounded
<1> SUFFICES ASSUME WaitFits PROVE Spec => WaitBounded
  OBVIOUS
<1> DEFINE I == TypeOK /\ FrameInv /\ (row = "duty" => QuietInv)
           A == pc = "idle" /\ pc' = "wait" /\ lost = 0 => until' - now <= Window + MaxFrame
<1>1. Init => I
  BY InitBasic, QuietInit
<1>2. I /\ [Next]_vars => I'
  BY NextBasic, QuietNext, RowStays
<1>3. I /\ [Next]_vars => [A]_vars
  <2>1. SUFFICES ASSUME I, Next, pc = "idle", pc' = "wait", lost = 0
                 PROVE  until' - now <= Window + MaxFrame
    OBVIOUS
  <2>2. Ask \/ AskIdent
    BY <2>1 DEF Next, Resume, Emit, Record, SendFailed, Sent, Query, Tick, txVars
  <2>3. PICK toa : AskFor(toa)
    BY <2>2 DEF Ask, AskIdent
  <2>4. CASE row = "duty"
    <3>1. PICK E \in Seq(Int), B \in Int : SilenceInv(E, B)
      BY <2>1, <2>4 DEF QuietInv
    <3>2. Ask
      BY <2>1, <2>2, <2>4, DutyAsks
    <3>3. QED
      BY <2>1, <2>4, <3>1, <3>2, QuietAsk DEF Ask
  <2>5. CASE row = "amateur"
    <3>1. until' = now
      BY <2>1, <2>3, <2>5, AmateurDelay
    <3>2. now \in Nat /\ MaxFrame \in Nat /\ Window \in Nat
      BY <2>1, WaitNumbers, StampTypes
    <3>3. QED
      BY <3>1, <3>2
  <2>6. QED
    BY <2>1, <2>4, <2>5, GovernorAssumption DEF TypeOK, GovernorAssumption
<1> HIDE DEF I
<1>4. QED
  BY <1>1, <1>2, <1>3, PTL DEF Spec, WaitBounded
=============================================================================
