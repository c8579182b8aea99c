---------------------------- MODULE BoardProofs ----------------------------
(***************************************************************************)
(* What is proved about the schedule of Board: that a sender keeps its     *)
(* period in real time, through deep sleep and restarts, to what setup()   *)
(* takes of it, and that a receiver never stops listening, for every       *)
(* interval, setup(), sleep and transfer that is no longer than half the   *)
(* millisecond counter.                                                    *)
(***************************************************************************)
EXTENDS Board, TLAPS

LEMMA WrapFacts ==
  /\ Wrap \in Nat \ {0} /\ Wrap \div 2 \in Nat
  /\ 2 * (Wrap \div 2) <= Wrap /\ Wrap <= 2 * (Wrap \div 2) + 1
  /\ \A t \in {Settle, Retry, NoInterval, MaxInterval, MaxTransfer, MaxSetup} :
       t \in Nat \ {0} /\ t < Wrap \div 2 /\ t < Wrap
  /\ Settle \in Nat \ {0} /\ Settle < Wrap \div 2 /\ Settle < Wrap /\ Retry \in Nat
  /\ MaxSetup \in Nat /\ MaxSetup < Wrap
  /\ Floor \in Nat \ {0} /\ Window \in Nat \ {0}
<1>1. Wrap \in Nat \ {0}
  BY BoardAssumption DEF BoardAssumption
<1>2. Wrap \div 2 \in Nat /\ 2 * (Wrap \div 2) <= Wrap /\ Wrap <= 2 * (Wrap \div 2) + 1
  <2>1. Wrap \div 2 \in Nat /\ Wrap % 2 \in 0..1 /\ Wrap = 2 * (Wrap \div 2) + (Wrap % 2)
    BY <1>1
  <2>2. QED
    BY <1>1, <2>1
<1>3. ASSUME NEW t \in {Settle, Retry, NoInterval, MaxInterval, MaxTransfer, MaxSetup}
      PROVE  t \in Nat \ {0} /\ t < Wrap \div 2 /\ t < Wrap
  <2>1. t \in Nat \ {0} /\ 2 * (t + 1) <= Wrap
    BY BoardAssumption DEF BoardAssumption
  <2>2. QED
    BY <1>1, <1>2, <2>1
<1>4. Floor \in Nat \ {0} /\ Window \in Nat \ {0}
  BY BoardAssumption DEF BoardAssumption
<1>5. QED
  BY <1>1, <1>2, <1>3, <1>4

----------------------------------------------------------------------------
(***************************************************************************)
(* The counter: the residues of two times are as far apart as the times,   *)
(* as long as these are within half a turn of each other.                  *)
(***************************************************************************)
LEMMA Residue ==
  ASSUME NEW a \in Int
  PROVE  a % Wrap \in 0..(Wrap - 1) /\ \E k \in Int : a = k * Wrap + (a % Wrap)
<1>1. Wrap \in Nat \ {0}
  BY WrapFacts
<1>2. a % Wrap \in 0..(Wrap - 1)
  BY <1>1
<1>3. a \div Wrap \in Int /\ a = (a \div Wrap) * Wrap + (a % Wrap)
  BY <1>1
<1>4. QED
  BY <1>2, <1>3

LEMMA ResidueUnique ==
  ASSUME NEW a \in Int, NEW c \in 0..(Wrap - 1), NEW k \in Int, a = k * Wrap + c
  PROVE  a % Wrap = c
<1>1. Wrap \in Nat \ {0}
  BY WrapFacts
<1> DEFINE d == a % Wrap
<1>2. d \in 0..(Wrap - 1)
  BY Residue
<1>3. PICK j \in Int : a = j * Wrap + d
  BY Residue
<1> HIDE DEF d
<1>4. c \in Int /\ d \in Int /\ c - d < Wrap /\ d - c < Wrap
  BY <1>1, <1>2
<1>5. (j - k) * Wrap = j * Wrap - k * Wrap /\ j * Wrap \in Int /\ k * Wrap \in Int
  BY <1>1
<1>6. (j - k) * Wrap = c - d
  BY <1>3, <1>4, <1>5
<1>7. j - k \in Int /\ (j - k >= 1 => (j - k) * Wrap >= Wrap)
      /\ (j - k <= -1 => (j - k) * Wrap <= -Wrap)
  BY <1>1
<1>8. j - k = 0
  BY <1>1, <1>4, <1>6, <1>7
<1>9. j = k
  BY <1>8
<1>10. d = c
  BY <1>3, <1>4, <1>5, <1>9
<1>11. QED
  BY <1>10 DEF d

LEMMA ResidueOfSum ==
  ASSUME NEW a \in Int, NEW t \in Int
  PROVE  ((a % Wrap) + t) % Wrap = (a + t) % Wrap
<1>1. Wrap \in Nat \ {0}
  BY WrapFacts
<1> DEFINE d == a % Wrap
           c == (a + t) % Wrap
<1>2. d \in 0..(Wrap - 1) /\ c \in 0..(Wrap - 1) /\ a + t \in Int
  BY Residue
<1>3. PICK j \in Int : a = j * Wrap + d
  BY Residue
<1>4. PICK k \in Int : a + t = k * Wrap + c
  BY <1>2, Residue
<1> HIDE DEF d, c
<1>5. d \in Int /\ c \in Int
  BY <1>1, <1>2
<1>6. (k - j) * Wrap = k * Wrap - j * Wrap /\ j * Wrap \in Int /\ k * Wrap \in Int
  BY <1>1
<1>7. d + t = (k - j) * Wrap + c /\ d + t \in Int /\ k - j \in Int
  <2>1. PICK m \in Int : m = (k - j) * Wrap /\ m = k * Wrap - j * Wrap
    BY <1>6
  <2>2. a + t = (j * Wrap + d) + t
    BY <1>3
  <2>3. (j * Wrap + d) + t = k * Wrap + c
    BY <1>4, <2>2
  <2>4. d + t = m + c
    BY <1>5, <1>6, <2>1, <2>3
  <2>5. QED
    BY <1>5, <2>1, <2>4
<1>8. (d + t) % Wrap = c
  BY <1>2, <1>7, ResidueUnique
<1>9. QED
  BY <1>8 DEF d, c

LEMMA ResidueOfCounter ==
  ASSUME NEW c \in 0..(Wrap - 1)
  PROVE  c % Wrap = c
<1>1. c \in Int /\ c = 0 * Wrap + c /\ 0 \in Int
  BY WrapFacts
<1>2. QED
  BY <1>1, ResidueUnique

LEMMA DeltaIs ==
  ASSUME NEW a \in Int, NEW b \in Int,
         a - b < Wrap \div 2, -(Wrap \div 2) <= a - b
  PROVE  Delta(a % Wrap, b % Wrap) = a - b
<1> DEFINE p == a % Wrap
           q == b % Wrap
           d == (p - q) % Wrap
           h == Wrap \div 2
           x == a - b
<1>1. Wrap \in Nat \ {0} /\ h \in Nat /\ 2 * h <= Wrap /\ Wrap <= 2 * h + 1
  BY WrapFacts
<1>2. p \in 0..(Wrap - 1) /\ q \in 0..(Wrap - 1)
  BY Residue
<1>3. PICK i \in Int : a = i * Wrap + p
  BY Residue
<1>4. PICK j \in Int : b = j * Wrap + q
  BY Residue
<1>5. p \in Int /\ q \in Int
  BY <1>1, <1>2
<1>6. Delta(p, q) = IF d < h THEN d ELSE d - Wrap
  BY DEF Delta
<1>7. x \in Int /\ x < h /\ -h <= x
  OBVIOUS
<1> HIDE DEF p, q, h
<1>8. (j - i) * Wrap = j * Wrap - i * Wrap /\ j * Wrap \in Int /\ i * Wrap \in Int
  BY <1>1
<1>9. p - q = (j - i) * Wrap + x /\ p - q \in Int /\ j - i \in Int
  BY <1>3, <1>4, <1>5, <1>8
<1>10. CASE x >= 0
  <2>1. x \in 0..(Wrap - 1)
    BY <1>1, <1>7, <1>10
  <2>2. d = x
    BY <1>9, <2>1, ResidueUnique
  <2>3. QED
    BY <1>6, <1>7, <2>2 DEF p, q
<1>11. CASE x < 0
  <2>1. x + Wrap \in 0..(Wrap - 1)
    BY <1>1, <1>7, <1>11
  <2>2. (j - i) * Wrap = (j - i - 1) * Wrap + Wrap /\ (j - i - 1) * Wrap \in Int
    BY <1>1
  <2>3. p - q = (j - i - 1) * Wrap + (x + Wrap) /\ j - i - 1 \in Int
    BY <1>1, <1>7, <1>9, <2>2
  <2>4. d = x + Wrap
    BY <1>9, <2>1, <2>3, ResidueUnique
  <2>5. ~(d < h) /\ d - Wrap = x
    BY <1>1, <1>7, <2>4
  <2>6. QED
    BY <1>6, <2>5 DEF p, q
<1>12. QED
  BY <1>7, <1>10, <1>11

----------------------------------------------------------------------------
(***************************************************************************)
(* The invariant.  While a transfer is expected, next_run_ms says when; in *)
(* a deep sleep the wake-up timer does, and it fires exactly then; setup() *)
(* makes it late by the time the counter shows when it ends; and while one *)
(* runs, the time since its start tells how much of the period is left.    *)
(***************************************************************************)
Counter == 0..(Wrap - 1)

Stored == [role : {"sender", "receiver"}, deep : BOOLEAN, interval : 0..MaxInterval,
           limited : BOOLEAN, valid : BOOLEAN, fades : BOOLEAN]

TypesHold ==
  /\ cfg \in Stored
  /\ power \in {"boot", "on", "asleep"} /\ woke \in BOOLEAN /\ ctx \in BOOLEAN
  /\ clock \in Counter /\ next \in Counter /\ started \in Counter
  /\ pc \in {"top", "transfer", "judged", "listen"}
  /\ wakeIn \in Nat
  /\ agreed \in BOOLEAN /\ due \in Int /\ spent \in Nat /\ up \in 0..Settle
  /\ press \in {"none", "heard", "raced"}

\* A transfer is expected, and nobody's press has changed when.
Expected == cfg.role = "sender" /\ agreed /\ press = "none"

\* What next_run_ms says: what setup() took is not made up for.
Left == due + spent

ScheduleInv ==
  /\ power # "on" => pc = "top"
  /\ power = "boot" => clock <= MaxSetup /\ (agreed => woke /\ cfg.deep)
  /\ power = "boot" /\ Expected => due + clock = 0
  /\ power = "asleep" => cfg.deep
  /\ power = "asleep" /\ Expected => due = wakeIn
  /\ power = "on" /\ pc \in {"top", "judged"} /\ Expected =>
       Left \in 0..Period /\ next = (clock + Left) % Wrap
  /\ pc = "judged" => cfg.role = "sender" /\ spent = 0 /\ (Expected => due > 0)
  /\ pc = "listen" => cfg.role = "receiver"
  /\ pc = "transfer" =>
       /\ cfg.role = "sender" /\ press = "none" /\ agreed /\ spent = 0
       /\ \E e \in 0..MaxTransfer :
            clock = (started + e) % Wrap /\ due = Period - e

ReceiverInv ==
  /\ power = "boot" => up = 0
  /\ power = "on" /\ cfg.role = "receiver" /\ ctx /\ pc = "top" =>
       \/ next = clock
       \/ up < Settle /\ next = (clock + (Settle - up)) % Wrap

BoardInv == TypesHold /\ ScheduleInv /\ ReceiverInv

LEMMA Zero ==
  0 \in Counter /\ 0 \in 0..Settle /\ 0 <= MaxSetup
<1>1. Wrap \in Nat \ {0} /\ Settle \in Nat /\ MaxSetup \in Nat
  BY WrapFacts
<1>2. QED
  BY <1>1 DEF Counter

LEMMA PlusZero ==
  ASSUME NEW t \in Int, NEW z, z = 0
  PROVE  t + z = t
  OBVIOUS

LEMMA PeriodType ==
  ASSUME TypesHold
  PROVE  Period \in Nat \ {0} /\ Period < Wrap \div 2 /\ Period < Wrap
<1>1. cfg.interval \in 0..MaxInterval
  BY DEF TypesHold, Stored
<1>2. \A t \in {NoInterval, MaxInterval} : t \in Nat \ {0} /\ t < Wrap \div 2 /\ t < Wrap
  BY WrapFacts
<1>3. /\ NoInterval \in Nat \ {0} /\ NoInterval < Wrap \div 2 /\ NoInterval < Wrap
      /\ MaxInterval \in Nat \ {0} /\ MaxInterval < Wrap \div 2 /\ MaxInterval < Wrap
  BY <1>2
<1>4. Period \in {NoInterval, cfg.interval} /\ (cfg.interval = 0 => Period = NoInterval)
  BY DEF Period
<1>5. Wrap \in Nat /\ Wrap \div 2 \in Nat
  BY WrapFacts
<1>6. QED
  BY <1>1, <1>3, <1>4, <1>5

\* What a start leaves to prove.
LEMMA StartStep ==
  ASSUME TypesHold, ScheduleInv, NEW byTimer \in BOOLEAN, Start(byTimer),
         cfg' \in Stored, byTimer => power = "asleep" /\ wakeIn = 0 /\ cfg' = cfg
  PROVE  BoardInv'
<1>1. /\ power' = "boot" /\ woke' = byTimer /\ ctx' = FALSE
      /\ clock' = 0 /\ next' = 0 /\ pc' = "top" /\ started' = 0 /\ wakeIn' = 0
      /\ agreed' = (byTimer /\ agreed) /\ due' = (IF byTimer THEN due ELSE 0)
      /\ spent' = 0 /\ up' = 0
      /\ press' = (IF byTimer THEN press ELSE "none")
  BY DEF Start
<1>2. 0 \in Counter /\ 0 \in 0..Settle /\ 0 <= MaxSetup
  BY Zero
<1>3. TypesHold'
  <2>1. due' \in Int /\ spent' \in Nat /\ up' \in 0..Settle /\ wakeIn' \in Nat
    BY <1>1, <1>2 DEF TypesHold
  <2>2. clock' \in Counter /\ next' \in Counter /\ started' \in Counter
    BY <1>1, <1>2, Zenon
  <2>3. power' = "boot" /\ pc' = "top" /\ woke' \in BOOLEAN /\ ctx' \in BOOLEAN
        /\ agreed' \in BOOLEAN
    BY <1>1
  <2>4. press' \in {"none", "heard", "raced"}
    BY <1>1 DEF TypesHold
  <2>5. QED
    BY <2>1, <2>2, <2>3, <2>4 DEF TypesHold, Counter
<1>4. ScheduleInv'
  <2>1. Expected' => byTimer /\ Expected
    BY <1>1 DEF Expected
  <2>2. Expected' => due' + clock' = 0
    BY <1>1, <1>2, <2>1 DEF ScheduleInv
  <2>3. agreed' => woke' /\ cfg'.deep
    BY <1>1 DEF ScheduleInv
  <2>4. QED
    BY <1>1, <1>2, <2>2, <2>3 DEF ScheduleInv
<1>5. ReceiverInv'
  BY <1>1 DEF ReceiverInv
<1>6. QED
  BY <1>3, <1>4, <1>5 DEF BoardInv

LEMMA SettingUpStep ==
  ASSUME BoardInv, SettingUp
  PROVE  BoardInv'
<1>1. /\ power = "boot" /\ clock < MaxSetup /\ clock' = clock + 1
      /\ due' = (IF agreed THEN due - 1 ELSE 0)
      /\ UNCHANGED <<cfg, power, woke, ctx, next, pc, started, wakeIn, agreed, spent,
                     up, press>>
  BY DEF SettingUp, Sooner
<1>2. TypesHold /\ pc = "top" /\ (agreed => woke /\ cfg.deep)
      /\ (Expected => due + clock = 0) /\ clock \in Counter /\ due \in Int
  BY <1>1 DEF BoardInv, ScheduleInv, TypesHold
<1>3. MaxSetup \in Nat /\ MaxSetup < Wrap /\ Wrap \in Nat
  BY WrapFacts
<1>4. clock' \in Counter /\ clock' <= MaxSetup /\ due' \in Int
  BY <1>1, <1>2, <1>3 DEF Counter
<1>5. TypesHold'
  BY <1>1, <1>2, <1>4 DEF TypesHold, Counter
<1>6. Expected' => due' + clock' = 0
  BY <1>1, <1>2 DEF Expected, Counter
<1>7. ScheduleInv'
  BY <1>1, <1>2, <1>4, <1>6 DEF ScheduleInv
<1>8. ReceiverInv'
  BY <1>1 DEF BoardInv, ReceiverInv
<1>9. QED
  BY <1>5, <1>7, <1>8 DEF BoardInv

LEMMA SetupStep ==
  ASSUME BoardInv, Setup
  PROVE  BoardInv'
<1>1. /\ power = "boot" /\ power' = "on" /\ ctx' \in BOOLEAN
      /\ next' = After(IF Headless THEN 0 ELSE Settle)
      /\ spent' = clock
      /\ UNCHANGED <<cfg, woke, clock, pc, started, wakeIn, agreed, due, up, press>>
  BY DEF Setup
<1>2. TypesHold /\ pc = "top" /\ (agreed => woke /\ cfg.deep)
      /\ (Expected => due + clock = 0)
  BY <1>1 DEF BoardInv, ScheduleInv
<1>3. clock \in Nat /\ clock \in Int /\ due \in Int /\ clock % Wrap = clock
      /\ Settle \in Nat /\ Settle > 0 /\ up \in 0..Settle
  BY <1>2, WrapFacts, ResidueOfCounter DEF TypesHold, Counter
<1>4. next' = (clock + (IF Headless THEN 0 ELSE Settle)) % Wrap /\ next' \in Counter
  <2>1. clock + (IF Headless THEN 0 ELSE Settle) \in Int
    BY <1>3
  <2>2. QED
    BY <1>1, <2>1, Residue DEF After, Counter
<1>5. TypesHold'
  BY <1>1, <1>2, <1>3, <1>4 DEF TypesHold, Counter
<1>6. ScheduleInv'
  <2>1. ASSUME Expected' PROVE Left' \in 0..Period' /\ next' = (clock' + Left') % Wrap
    <3>1. Expected /\ Headless /\ due + clock = 0
      BY <1>1, <1>2, <2>1 DEF Expected, Headless
    <3>2. Left' = 0
      BY <1>1, <1>3, <3>1 DEF Left
    <3>3. Period' = Period /\ Period \in Nat
      BY <1>1, <1>2, PeriodType DEF Period
    <3>4. QED
      BY <1>1, <1>4, <3>1, <3>2, <3>3
  <2>2. QED
    BY <1>1, <1>2, <2>1 DEF ScheduleInv
<1>7. ReceiverInv'
  <2>1. CASE Headless
    <3>1. clock + 0 = clock
      BY <1>3
    <3>2. next' = clock'
      BY <1>1, <1>3, <1>4, <2>1, <3>1
    <3>3. QED
      BY <1>1, <3>2 DEF ReceiverInv
  <2>2. CASE ~Headless
    <3>1. up = 0
      BY <1>1 DEF BoardInv, ReceiverInv
    <3>2. Settle - up' = Settle /\ up' < Settle
      BY <1>1, <1>3, <3>1
    <3>3. next' = (clock' + (Settle - up')) % Wrap
      BY <1>1, <1>4, <2>2, <3>2
    <3>4. QED
      BY <1>1, <3>2, <3>3 DEF ReceiverInv
  <2>3. QED
    BY <2>1, <2>2
<1>8. QED
  BY <1>5, <1>6, <1>7 DEF BoardInv

\* maybe_deep_sleep().
LEMMA SleepIs ==
  ASSUME TypesHold, NEW ms \in Nat, MaybeDeepSleep(ms)
  PROVE  /\ wakeIn' \in Nat
         /\ \/ power' = power
            \/ /\ power' = "asleep" /\ wakeIn' = ms /\ ms > 0
               /\ cfg.deep /\ cfg.role = "sender"
<1>1. Longest \in Nat \ {0}
  BY WrapFacts DEF Longest
<1>2. QED
  BY <1>1 DEF MaybeDeepSleep, TypesHold

LEMMA RefusedStep ==
  ASSUME BoardInv, Refused
  PROVE  BoardInv'
<1>1. /\ power = "on" /\ pc = "top" /\ ~ctx
      /\ next' = After(Retry) /\ agreed' = FALSE /\ due' = 0 /\ MaybeDeepSleep(Period)
      /\ UNCHANGED <<cfg, woke, ctx, clock, pc, started, spent, up, press>>
  BY DEF Refused, Loops
<1>2. TypesHold /\ clock \in Int
  BY WrapFacts DEF BoardInv, TypesHold, Counter
<1>3. next' \in Counter
  <2>1. clock + Retry \in Int
    BY <1>2, WrapFacts
  <2>2. QED
    BY <1>1, <2>1, Residue DEF After, Counter
<1>4. wakeIn' \in Nat /\ power' \in {"on", "asleep"} /\ (power' = "asleep" => cfg.deep)
  BY <1>1, <1>2, PeriodType, SleepIs
<1>5. TypesHold'
  <2>1. due' \in Int
    BY <1>1, SMT
  <2>2. agreed' \in BOOLEAN
    BY <1>1, Zenon
  <2>3. QED
    BY <1>1, <1>2, <1>3, <1>4, <2>1, <2>2 DEF TypesHold, Counter
<1>6. ScheduleInv'
  BY <1>1, <1>4 DEF ScheduleInv, Expected
<1>7. ReceiverInv'
  BY <1>1, <1>4 DEF ReceiverInv
<1>8. QED
  BY <1>5, <1>6, <1>7 DEF BoardInv

LEMMA StartTransferStep ==
  ASSUME BoardInv, StartTransfer
  PROVE  BoardInv'
<1>1. /\ power = "on" /\ pc = "top" /\ cfg.role = "sender"
      /\ pc' = "transfer" /\ started' = clock /\ press' = "none"
      /\ agreed' = TRUE /\ due' = Period /\ spent' = 0
      /\ UNCHANGED <<cfg, power, woke, ctx, clock, next, wakeIn, up>>
  BY DEF StartTransfer, Loops
<1>2. TypesHold
  BY DEF BoardInv
<1>3. Period' = Period /\ Period \in Nat
  BY <1>1, <1>2, PeriodType DEF Period
<1>4. TypesHold'
  BY <1>1, <1>2, <1>3 DEF TypesHold, Counter
<1>5. ScheduleInv'
  <2>1. clock % Wrap = clock /\ clock + 0 = clock
    BY <1>2, WrapFacts, ResidueOfCounter DEF TypesHold, Counter
  <2>2. 0 \in 0..MaxTransfer
    BY WrapFacts
  <2>3. clock' = (started' + 0) % Wrap /\ due' = Period' - 0
    BY <1>1, <1>3, <2>1
  <2>4. QED
    BY <1>1, <2>2, <2>3 DEF ScheduleInv, Expected
<1>6. ReceiverInv'
  BY <1>1 DEF ReceiverInv
<1>7. QED
  BY <1>4, <1>5, <1>6 DEF BoardInv

\* A transfer ends before its period does, or the next one is due at once.
LEMMA EndTransferStep ==
  ASSUME BoardInv, EndTransfer
  PROVE  BoardInv'
<1>1. /\ power = "on" /\ pc = "transfer"
      /\ UNCHANGED <<cfg, power, woke, ctx, clock, started, wakeIn, agreed, spent,
                     up, press>>
      /\ due' = (IF due < 0 THEN 0 ELSE due)
      /\ next' \in {clock, NextRun}
      /\ Delta(clock, NextRun) >= 0 => next' = clock /\ pc' = "top"
      /\ ~(Delta(clock, NextRun) >= 0) => next' = NextRun /\ pc' = "judged"
  BY DEF EndTransfer, Loops
<1>2. TypesHold /\ ScheduleInv
  BY DEF BoardInv
<1>3. PICK e \in 0..MaxTransfer : clock = (started + e) % Wrap /\ due = Period - e
  BY <1>1, <1>2 DEF ScheduleInv
<1>4. /\ e \in Nat /\ e < Wrap \div 2 /\ Wrap \div 2 \in Nat /\ Wrap \in Nat
      /\ Period \in Nat \ {0} /\ Period < Wrap \div 2
  <2>1. MaxTransfer \in {Settle, Retry, NoInterval, MaxInterval, MaxTransfer, MaxSetup}
    OBVIOUS
  <2>2. MaxTransfer \in Nat /\ MaxTransfer < Wrap \div 2
    BY <2>1, WrapFacts
  <2>3. QED
    BY <1>2, <2>2, WrapFacts, PeriodType
<1>5. started \in Int /\ clock \in Counter
  BY <1>2, WrapFacts DEF TypesHold, Counter
<1>6. Delta(clock, NextRun) = e - Period
  <2>1. started + e \in Int /\ started + Period \in Int
    BY <1>4, <1>5
  <2>2. (started + e) - (started + Period) = e - Period
    BY <1>4, <1>5
  <2>3. e - Period < Wrap \div 2 /\ -(Wrap \div 2) <= e - Period
    BY <1>4
  <2>4. Delta((started + e) % Wrap, (started + Period) % Wrap) = e - Period
    BY <2>1, <2>2, <2>3, DeltaIs
  <2>5. QED
    BY <1>3, <2>4 DEF NextRun
<1>7. NextRun \in Counter
  <2>1. started + Period \in Int
    BY <1>4, <1>5
  <2>2. QED
    BY <2>1, Residue DEF NextRun, Counter
<1>8. Period' = Period
  BY <1>1 DEF Period
<1>9. due' \in 0..Period' /\ next' = (clock' + due') % Wrap
      /\ (pc' = "judged" => due' > 0) /\ pc' \in {"top", "judged"}
  <2>1. CASE Period <= e
    <3>1. due' = 0 /\ pc' = "top" /\ next' = clock
      BY <1>1, <1>3, <1>4, <1>6, <2>1
    <3>2. clock % Wrap = clock /\ clock + 0 = clock
      BY <1>5, WrapFacts, ResidueOfCounter DEF Counter
    <3>3. QED
      BY <1>1, <1>4, <1>8, <3>1, <3>2
  <2>2. CASE e < Period
    <3>1. due' = Period - e /\ pc' = "judged" /\ next' = NextRun /\ due' > 0
      BY <1>1, <1>3, <1>4, <1>6, <2>2
    <3>2. started + e \in Int /\ Period - e \in Int
          /\ (started + e) + (Period - e) = started + Period
      BY <1>4, <1>5
    <3>3. (((started + e) % Wrap) + (Period - e)) % Wrap = (started + Period) % Wrap
      BY <3>2, ResidueOfSum
    <3>4. next' = (clock' + due') % Wrap
      BY <1>1, <1>3, <3>1, <3>3 DEF NextRun
    <3>5. due' \in 0..Period'
      BY <1>4, <1>8, <2>2, <3>1
    <3>6. QED
      BY <3>1, <3>4, <3>5
  <2>3. QED
    BY <1>4, <2>1, <2>2
<1>10. due' \in Nat
  BY <1>4, <1>8, <1>9
<1>11. TypesHold'
  BY <1>1, <1>2, <1>5, <1>7, <1>9, <1>10 DEF TypesHold, Counter
<1>12. ScheduleInv'
  <2>1. spent' = 0 /\ cfg'.role = "sender"
    BY <1>1, <1>2 DEF ScheduleInv
  <2>2. Left' = due'
    <3>1. due' \in Int
      BY <1>10
    <3>2. due' + spent' = due'
      BY <2>1, <3>1, PlusZero
    <3>3. QED
      BY <3>2, Zenon DEF Left
  <2>3. QED
    BY <1>1, <1>9, <2>1, <2>2 DEF ScheduleInv
<1>13. ReceiverInv'
  BY <1>1, <1>2 DEF ReceiverInv, ScheduleInv
<1>14. QED
  BY <1>11, <1>12, <1>13 DEF BoardInv

\* maybe_deep_sleep() reads the clock again: a moment later there is as much
\* less to sleep, or nothing is agreed any more.
LEMMA SleepUntilDueStep ==
  ASSUME BoardInv, SleepUntilDue
  PROVE  BoardInv'
<1>1. PICK moment \in 0..MaxLapse :
        /\ clock' = After(moment) /\ up' = Longer(moment)
        /\ agreed' = (agreed /\ moment <= due)
        /\ due' = (IF agreed' THEN due - moment ELSE 0)
        /\ MaybeDeepSleep((next - clock') % Wrap)
  BY DEF SleepUntilDue
<1>2. /\ power = "on" /\ pc = "judged" /\ pc' = "top"
      /\ UNCHANGED <<cfg, woke, ctx, next, started, spent, press>>
  BY DEF SleepUntilDue, Loops
<1>3. /\ TypesHold /\ cfg.role = "sender" /\ spent = 0
      /\ moment \in Nat /\ due \in Int /\ up \in 0..Settle /\ Settle \in Nat
  BY <1>2, WrapFacts, BoardAssumption
     DEF BoardInv, ScheduleInv, TypesHold, BoardAssumption
<1>4. clock \in Int /\ next \in Int /\ Wrap \in Nat \ {0}
  BY <1>3, WrapFacts DEF TypesHold, Counter
<1>5. clock' \in Counter /\ clock' \in Int
  <2>1. clock + moment \in Int
    BY <1>4
  <2>2. QED
    BY <1>1, <1>4, <2>1, Residue DEF After, Counter
<1> DEFINE ms == (next - clock') % Wrap
<1>6. ms \in 0..(Wrap - 1) /\ ms \in Nat
  <2>1. next - clock' \in Int
    BY <1>4, <1>5
  <2>2. ms \in 0..(Wrap - 1)
    BY <2>1, Residue
  <2>3. QED
    BY <1>4, <2>2
<1>7. /\ wakeIn' \in Nat
      /\ \/ power' = power
         \/ power' = "asleep" /\ wakeIn' = ms /\ ms > 0 /\ cfg.deep
  BY <1>1, <1>3, <1>6, SleepIs
<1>8. due' \in Int /\ agreed' \in BOOLEAN /\ up' \in 0..Settle
  BY <1>1, <1>3 DEF TypesHold, Longer
<1>9. TypesHold'
  BY <1>2, <1>3, <1>5, <1>7, <1>8 DEF TypesHold, Counter
<1>10. ASSUME Expected'
       PROVE  due' = ms /\ due' \in 0..Period' /\ next' = (clock' + due') % Wrap
  <2>1. Expected /\ agreed' /\ Left = due /\ moment <= due
    <3>1. agreed' /\ cfg.role = "sender" /\ press = "none"
      BY <1>2, <1>10 DEF Expected
    <3>2. agreed /\ moment <= due
      BY <1>1, <3>1
    <3>3. Left = due
      BY <1>3, PlusZero DEF Left
    <3>4. QED
      BY <3>1, <3>2, <3>3 DEF Expected
  <2>2. due \in 0..Period /\ due > 0 /\ next = (clock + due) % Wrap
    BY <1>2, <2>1 DEF BoardInv, ScheduleInv
  <2>3. Period \in Nat /\ Period < Wrap /\ Period' = Period
    BY <1>2, <1>3, PeriodType DEF Period
  <2>4. due' = due - moment /\ due' \in 0..Period /\ due' \in Int
    BY <1>1, <1>3, <2>1, <2>2, <2>3
  <2>5. clock + moment \in Int /\ due' \in Int /\ (clock + moment) + due' = clock + due
    BY <1>4, <2>2, <2>3, <2>4
  <2>6. (clock' + due') % Wrap = next
    <3>1. (((clock + moment) % Wrap) + due') % Wrap = ((clock + moment) + due') % Wrap
      BY <2>5, ResidueOfSum
    <3>2. QED
      BY <1>1, <2>2, <2>5, <3>1 DEF After
  <2>7. ms = due'
    <3>1. -clock' \in Int /\ clock' + due' \in Int /\ (clock' + due') - clock' = due'
          /\ (clock' + due') + (-clock') = due' /\ next - clock' = next + (-clock')
      BY <1>4, <1>5, <2>4
    <3>2. (((clock' + due') % Wrap) + (-clock')) % Wrap = ((clock' + due') + (-clock')) % Wrap
      BY <3>1, ResidueOfSum
    <3>3. ms = due' % Wrap
      BY <2>6, <3>1, <3>2
    <3>4. due' \in 0..(Wrap - 1)
      BY <1>4, <2>3, <2>4
    <3>5. QED
      BY <3>3, <3>4, ResidueOfCounter
  <2>8. QED
    BY <1>2, <2>3, <2>4, <2>6, <2>7
<1>11. ScheduleInv'
  <2>1. Left' = due'
    BY <1>2, <1>3, <1>8, PlusZero DEF Left
  <2>2. QED
    BY <1>2, <1>7, <1>10, <2>1 DEF ScheduleInv
<1>12. ReceiverInv'
  BY <1>2, <1>3, <1>7 DEF ReceiverInv
<1>13. QED
  BY <1>9, <1>11, <1>12 DEF BoardInv

\* run_receiver().
LEMMA ListenSteps ==
  ASSUME BoardInv, Listen \/ EndListen
  PROVE  BoardInv'
<1>1. /\ power = "on" /\ pc \in {"top", "listen"} /\ pc' \in {"top", "listen"}
      /\ UNCHANGED <<cfg, power, woke, ctx, clock, started, wakeIn, agreed,
                     due, spent, up, press>>
      /\ next' \in {next, clock} /\ (pc' = "top" => next' = clock /\ pc = "listen")
      /\ (pc = "listen" \/ cfg.role = "receiver")
  BY DEF Listen, EndListen, ListenAgain, Loops, schedule
<1>2. TypesHold /\ ScheduleInv
  BY DEF BoardInv
<1>3. TypesHold'
  BY <1>1, <1>2 DEF TypesHold, Counter
<1>4. ReceiverInv'
  BY <1>1 DEF ReceiverInv
<1>5. cfg.role = "receiver"
  BY <1>1, <1>2 DEF ScheduleInv
<1>6. ScheduleInv'
  BY <1>1, <1>5 DEF ScheduleInv, Expected
<1>7. QED
  BY <1>3, <1>4, <1>6 DEF BoardInv

\* trigger_cb(): a transfer that a press moved is no longer expected.
LEMMA PressStep ==
  ASSUME BoardInv, Press
  PROVE  BoardInv'
<1>1. /\ power = "on" /\ next' = clock
      /\ press' = (CASE pc = "top" -> "heard" [] pc = "judged" -> "raced"
                     [] OTHER -> press)
      /\ UNCHANGED <<cfg, power, woke, ctx, clock, pc, started, wakeIn, agreed, due,
                     spent, up>>
  BY DEF Press, PageUp, schedule
<1>2. TypesHold /\ ScheduleInv
  BY DEF BoardInv
<1>3. press' \in {"none", "heard", "raced"}
  BY <1>1, <1>2 DEF TypesHold
<1>4. TypesHold'
  BY <1>1, <1>2, <1>3 DEF TypesHold, Counter
<1>5. /\ pc \in {"top", "judged"} => press' # "none"
      /\ pc = "transfer" => press' = press
  BY <1>1
<1>6. ScheduleInv'
  <2>1. pc \in {"top", "judged"} => ~Expected'
    BY <1>5 DEF Expected
  <2>2. pc = "judged" \/ pc = "transfer" => cfg.role = "sender" /\ spent = 0
    BY <1>2 DEF ScheduleInv
  <2>3. pc = "transfer" =>
          /\ press' = "none" /\ agreed'
          /\ \E e \in 0..MaxTransfer :
               clock' = (started' + e) % Wrap /\ due' = Period' - e
    BY <1>1, <1>2, <1>5 DEF ScheduleInv, Period
  <2>4. pc = "listen" => cfg.role = "receiver"
    BY <1>2 DEF ScheduleInv
  <2>5. QED
    BY <1>1, <2>1, <2>2, <2>3, <2>4 DEF ScheduleInv
<1>7. ReceiverInv'
  BY <1>1 DEF ReceiverInv
<1>8. QED
  BY <1>4, <1>6, <1>7 DEF BoardInv

\* What else the page is asked for does not touch the schedule.
LEMMA Untouched ==
  ASSUME BoardInv,
         UNCHANGED <<cfg, power, woke, ctx, clock, next, pc, started, wakeIn, agreed,
                     due, spent, up, press>>
  PROVE  BoardInv'
<1>1. TypesHold'
  BY DEF BoardInv, TypesHold, Counter
<1>2. ScheduleInv'
  BY DEF BoardInv, ScheduleInv, Expected, Period, Left
<1>3. ReceiverInv'
  BY DEF BoardInv, ReceiverInv
<1>4. QED
  BY <1>1, <1>2, <1>3 DEF BoardInv

\* A start by hand, with the settings of before or new ones, and by the timer.
LEMMA StartSteps ==
  ASSUME BoardInv,
         Reboot \/ Reset \/ WakeUp \/ \E c \in Settings : SaveSettings(c)
  PROVE  BoardInv'
<1>1. TypesHold /\ ScheduleInv /\ cfg \in Stored
  BY DEF BoardInv, TypesHold
<1>2. CASE Reboot \/ Reset
  <2>1. Start(FALSE) /\ cfg' = cfg
    BY <1>2 DEF Reboot, Reset
  <2>2. QED
    BY <1>1, <2>1, StartStep
<1>3. CASE WakeUp
  <2>1. Start(TRUE) /\ cfg' = cfg /\ power = "asleep" /\ wakeIn = 0
    BY <1>3 DEF WakeUp
  <2>2. QED
    BY <1>1, <2>1, StartStep
<1>4. ASSUME NEW c \in Settings, SaveSettings(c) PROVE BoardInv'
  <2>1. Start(FALSE) /\ cfg' = Clamp(c)
    BY <1>4 DEF SaveSettings
  <2>2. c \in [role : {"sender", "receiver"}, deep : BOOLEAN,
               interval : Nat, limited : BOOLEAN, valid : BOOLEAN, fades : BOOLEAN]
    BY BoardAssumption DEF BoardAssumption
  <2>3. MaxInterval \in Nat
    BY BoardAssumption DEF BoardAssumption
  <2>4. Clamp(c) \in Stored
    BY <2>2, <2>3 DEF Clamp, Stored
  <2>5. QED
    BY <1>1, <2>1, <2>4, StartStep
<1>5. QED
  BY <1>2, <1>3, <1>4

\* In a deep sleep.
LEMMA SleepStep ==
  ASSUME BoardInv, Sleep
  PROVE  BoardInv'
<1>1. /\ power = "asleep" /\ wakeIn > 0 /\ wakeIn' = wakeIn - 1
      /\ due' = (IF agreed THEN due - 1 ELSE 0)
      /\ UNCHANGED <<cfg, power, woke, ctx, clock, next, pc, started, agreed, spent,
                     up, press>>
  BY DEF Sleep, Sooner
<1>2. TypesHold /\ ScheduleInv /\ wakeIn \in Nat /\ due \in Int
  BY DEF BoardInv, TypesHold
<1>3. due' \in Int /\ (agreed => due' = due - 1)
  BY <1>1, <1>2
<1>4. TypesHold'
  BY <1>1, <1>2, <1>3 DEF TypesHold, Counter
<1>5. pc = "top" /\ cfg.deep /\ (Expected => due = wakeIn)
  BY <1>1, <1>2 DEF ScheduleInv
<1>6. Expected' => due' = wakeIn'
  BY <1>1, <1>2, <1>3, <1>5 DEF Expected
<1>7. ScheduleInv'
  BY <1>1, <1>5, <1>6 DEF ScheduleInv
<1>8. ReceiverInv'
  BY <1>1 DEF ReceiverInv
<1>9. QED
  BY <1>4, <1>7, <1>8 DEF BoardInv

\* The counter one tick on, and the time left until a stamp.
LEMMA TickArithmetic ==
  ASSUME NEW c \in Counter, NEW d \in 0..Period, TypesHold
  PROVE  /\ c \in Int /\ (c + 1) % Wrap \in Counter
         /\ Delta(c, (c + d) % Wrap) = -d
         /\ (((c + 1) % Wrap) + (d - 1)) % Wrap = (c + d) % Wrap
<1>1. c \in Int /\ c % Wrap = c /\ Wrap \div 2 \in Nat
  BY WrapFacts, ResidueOfCounter DEF Counter
<1>2. d \in Int /\ d <= Period /\ 0 <= d /\ Period \in Nat /\ Period < Wrap \div 2
  BY PeriodType
<1>3. (c + 1) % Wrap \in Counter
  <2>1. c + 1 \in Int
    BY <1>1
  <2>2. QED
    BY <2>1, Residue DEF Counter
<1>4. Delta(c, (c + d) % Wrap) = -d
  <2>1. c + d \in Int /\ c - (c + d) = -d
    BY <1>1, <1>2
  <2>2. -d < Wrap \div 2 /\ -(Wrap \div 2) <= -d
    BY <1>1, <1>2, WrapFacts
  <2>3. Delta(c % Wrap, (c + d) % Wrap) = -d
    BY <1>1, <2>1, <2>2, DeltaIs
  <2>4. QED
    BY <1>1, <2>3
<1>5. (((c + 1) % Wrap) + (d - 1)) % Wrap = (c + d) % Wrap
  <2>1. c + 1 \in Int /\ d - 1 \in Int /\ (c + 1) + (d - 1) = c + d
    BY <1>1, <1>2
  <2>2. QED
    BY <2>1, ResidueOfSum
<1>6. QED
  BY <1>1, <1>3, <1>4, <1>5

\* What is not due yet lies ahead of the counter.
LEMMA NotDue ==
  ASSUME clock \in Counter, ~(Delta(clock, next) >= 0)
  PROVE  next # clock
<1>1. clock \in Int /\ clock % Wrap = clock /\ clock - clock = 0
  BY WrapFacts, ResidueOfCounter DEF Counter
<1>2. 0 < Wrap \div 2 /\ -(Wrap \div 2) <= 0
  BY WrapFacts
<1>3. Delta(clock, clock) = 0
  BY <1>1, <1>2, DeltaIs
<1>4. QED
  BY <1>3

LEMMA TickStep ==
  ASSUME BoardInv, Tick
  PROVE  BoardInv'
<1>1. /\ power = "on" /\ clock' = (clock + 1) % Wrap
      /\ due' = (IF agreed THEN due - 1 ELSE 0)
      /\ up' = (IF up + 1 < Settle THEN up + 1 ELSE Settle)
      /\ UNCHANGED <<cfg, power, woke, ctx, next, pc, started, wakeIn, agreed, spent,
                     press>>
      /\ \/ pc = "top" /\ ~(Delta(clock, next) >= 0)
         \/ pc = "transfer" /\ Delta(clock, started) < MaxTransfer
         \/ pc = "listen"
  BY DEF Tick, Due, After, Sooner, Longer
<1>2. TypesHold /\ ScheduleInv /\ ReceiverInv
  BY DEF BoardInv
<1>3. /\ clock \in Counter /\ started \in Counter /\ next \in Counter
      /\ due \in Int /\ spent \in Nat /\ up \in 0..Settle /\ Settle \in Nat
  BY <1>2, WrapFacts DEF TypesHold
<1>4. Period' = Period /\ Period \in Nat
  BY <1>1, <1>2, PeriodType DEF Period
<1>5. clock' \in Counter /\ clock \in Int
  <2>1. 0 \in 0..Period
    BY <1>4
  <2>2. QED
    BY <1>1, <1>2, <1>3, <2>1, TickArithmetic
<1>6. due' \in Int /\ (agreed => due' = due - 1) /\ up' \in 0..Settle
  BY <1>1, <1>3
<1>7. TypesHold'
  BY <1>1, <1>2, <1>5, <1>6 DEF TypesHold, Counter
<1>8. ASSUME pc = "top", Expected'
      PROVE  Left' \in 0..Period' /\ next' = (clock' + Left') % Wrap
  <2>1. Expected
    BY <1>1, <1>8 DEF Expected
  <2>2. Left \in 0..Period /\ next = (clock + Left) % Wrap
    BY <1>1, <1>2, <1>8, <2>1 DEF ScheduleInv
  <2>3. Delta(clock, next) = -Left /\ (((clock + 1) % Wrap) + (Left - 1)) % Wrap = next
    BY <1>2, <1>3, <2>2, TickArithmetic
  <2>4. Left \in Nat /\ Left >= 1
    BY <1>1, <1>4, <1>8, <2>2, <2>3
  <2>5. Left' = Left - 1
    BY <1>1, <1>3, <1>6, <2>1 DEF Left, Expected
  <2>6. Left' \in 0..Period
    BY <1>4, <2>2, <2>4, <2>5
  <2>7. QED
    BY <1>1, <1>4, <2>3, <2>5, <2>6
<1>9. ASSUME pc = "transfer"
      PROVE  \E e \in 0..MaxTransfer :
               clock' = (started' + e) % Wrap /\ due' = Period' - e
  <2>1. PICK e \in 0..MaxTransfer : clock = (started + e) % Wrap /\ due = Period - e
    BY <1>2, <1>9 DEF ScheduleInv
  <2>2. /\ MaxTransfer \in Nat /\ MaxTransfer < Wrap \div 2 /\ Wrap \div 2 \in Nat
        /\ e \in Nat /\ e <= MaxTransfer
    <3>1. MaxTransfer \in {Settle, Retry, NoInterval, MaxInterval, MaxTransfer, MaxSetup}
      OBVIOUS
    <3>2. MaxTransfer \in Nat /\ MaxTransfer < Wrap \div 2 /\ Wrap \div 2 \in Nat
      BY <3>1, WrapFacts
    <3>3. QED
      BY <2>1, <3>2
  <2>3. started \in Int /\ started % Wrap = started
    BY <1>3, WrapFacts, ResidueOfCounter DEF Counter
  <2>4. Delta(clock, started) = e
    <3>1. started + e \in Int /\ (started + e) - started = e
      BY <2>2, <2>3
    <3>2. e < Wrap \div 2 /\ -(Wrap \div 2) <= e
      BY <2>2
    <3>3. Delta((started + e) % Wrap, started % Wrap) = e
      BY <2>3, <3>1, <3>2, DeltaIs
    <3>4. QED
      BY <2>1, <2>3, <3>3
  <2>5. e + 1 \in 0..MaxTransfer
    BY <1>1, <1>9, <2>2, <2>4
  <2>6. clock' = (started' + (e + 1)) % Wrap
    <3>1. started + e \in Int /\ (started + e) + 1 = started + (e + 1)
      BY <2>2, <2>3
    <3>2. (((started + e) % Wrap) + 1) % Wrap = ((started + e) + 1) % Wrap
      BY <3>1, ResidueOfSum
    <3>3. QED
      BY <1>1, <2>1, <3>1, <3>2
  <2>7. due' = Period' - (e + 1)
    <3>1. agreed
      BY <1>2, <1>9 DEF ScheduleInv
    <3>2. QED
      BY <1>4, <1>6, <2>1, <2>2, <3>1
  <2>8. QED
    BY <2>5, <2>6, <2>7
<1>10. ScheduleInv'
  <2>1. pc \in {"top", "transfer", "listen"}
    BY <1>1
  <2>2. pc = "transfer" => cfg.role = "sender" /\ press = "none" /\ agreed /\ spent = 0
    BY <1>2 DEF ScheduleInv
  <2>3. pc = "listen" => cfg.role = "receiver"
    BY <1>2 DEF ScheduleInv
  <2>4. QED
    BY <1>1, <1>8, <1>9, <2>1, <2>2, <2>3 DEF ScheduleInv
<1>11. ReceiverInv'
  <2>1. SUFFICES ASSUME cfg.role = "receiver", ctx, pc = "top"
                 PROVE  \/ next = clock'
                        \/ up' < Settle /\ next = (clock' + (Settle - up')) % Wrap
    BY <1>1 DEF ReceiverInv
  <2>2. \/ next = clock
        \/ up < Settle /\ next = (clock + (Settle - up)) % Wrap
    BY <1>1, <1>2, <2>1 DEF ReceiverInv
  <2>3. next # clock
    BY <1>1, <1>3, <2>1, NotDue
  <2>4. up < Settle /\ next = (clock + (Settle - up)) % Wrap
    BY <2>2, <2>3
  <2>5. next = (clock' + (Settle - (up + 1))) % Wrap
    <3>1. clock + 1 \in Int /\ Settle - (up + 1) \in Int
          /\ (clock + 1) + (Settle - (up + 1)) = clock + (Settle - up)
      BY <1>3, <1>5
    <3>2. (((clock + 1) % Wrap) + (Settle - (up + 1))) % Wrap
            = ((clock + 1) + (Settle - (up + 1))) % Wrap
      BY <3>1, ResidueOfSum
    <3>3. QED
      BY <1>1, <2>4, <3>1, <3>2
  <2>6. CASE up + 1 < Settle
    <3>1. up' = up + 1 /\ up' < Settle
      BY <1>1, <2>6
    <3>2. QED
      BY <2>5, <3>1
  <2>7. CASE ~(up + 1 < Settle)
    <3>1. Settle - (up + 1) = 0
      BY <1>3, <2>4, <2>7
    <3>2. clock' \in Int /\ clock' % Wrap = clock'
      <4>1. clock' \in 0..(Wrap - 1)
        BY <1>5 DEF Counter
      <4>2. clock' % Wrap = clock'
        BY <4>1, ResidueOfCounter
      <4>3. QED
        BY <4>1, <4>2
    <3>3. clock' + (Settle - (up + 1)) = clock'
      BY <3>1, <3>2, PlusZero
    <3>4. next = clock'
      BY <2>5, <3>2, <3>3
    <3>5. QED
      BY <3>4
  <2>8. QED
    BY <2>6, <2>7
<1>12. QED
  BY <1>7, <1>10, <1>11 DEF BoardInv

LEMMA InitHolds ==
  ASSUME Init
  PROVE  BoardInv
<1>1. /\ cfg \in Settings /\ cfg.interval <= MaxInterval
      /\ power = "boot" /\ woke = FALSE /\ ctx = FALSE
      /\ clock = 0 /\ next = 0 /\ pc = "top" /\ started = 0 /\ wakeIn = 0
      /\ agreed = FALSE /\ due = 0 /\ spent = 0 /\ up = 0 /\ press = "none"
  BY DEF Init
<1>2. cfg \in Stored
  <2>1. cfg \in [role : {"sender", "receiver"}, deep : BOOLEAN,
                 interval : Nat, limited : BOOLEAN, valid : BOOLEAN, fades : BOOLEAN]
    BY <1>1, BoardAssumption DEF BoardAssumption
  <2>2. MaxInterval \in Nat
    BY BoardAssumption DEF BoardAssumption
  <2>3. QED
    BY <1>1, <2>1, <2>2 DEF Stored
<1>3. 0 \in Counter /\ 0 \in 0..Settle /\ 0 <= MaxSetup
  BY Zero
<1>4. TypesHold
  <2>1. due \in Int /\ spent \in Nat /\ up \in 0..Settle /\ wakeIn \in Nat
    BY <1>1, <1>3
  <2>2. clock \in Counter /\ next \in Counter /\ started \in Counter
    BY <1>1, <1>3, Zenon
  <2>3. woke \in BOOLEAN /\ ctx \in BOOLEAN /\ agreed \in BOOLEAN
    BY <1>1, Zenon
  <2>4. QED
    BY <1>1, <1>2, <2>1, <2>2, <2>3 DEF TypesHold, Counter
<1>5. ScheduleInv /\ ReceiverInv
  BY <1>1, <1>3 DEF ScheduleInv, ReceiverInv, Expected
<1>6. QED
  BY <1>4, <1>5 DEF BoardInv

LEMMA NextHolds ==
  ASSUME BoardInv, [Next]_vars
  PROVE  BoardInv'
<1>1. CASE Loop
  BY <1>1, RefusedStep, StartTransferStep, EndTransferStep, SleepUntilDueStep,
     ListenSteps DEF Loop
<1>2. CASE Web
  <2>1. CASE Browse \/ DropPage
    BY <2>1, Untouched DEF Browse, DropPage, schedule
  <2>2. QED
    BY <1>2, <2>1, PressStep, StartSteps DEF Web
<1>3. CASE World
  BY <1>3, SettingUpStep, SetupStep, StartSteps, TickStep, SleepStep DEF World
<1>4. CASE UNCHANGED vars
  BY <1>4, Untouched DEF vars, schedule
<1>5. QED
  BY <1>1, <1>2, <1>3, <1>4 DEF Next

----------------------------------------------------------------------------
\* The inductive invariant: what ties the loop's clock to the period, and the
\* receiver to its radio, in every place the board can be in.
THEOREM Invariant == Spec => []BoardInv
<1>1. Init => BoardInv
  BY InitHolds
<1>2. BoardInv /\ [Next]_vars => BoardInv'
  BY NextHolds
<1>3. QED
  BY <1>1, <1>2, PTL DEF Spec

\* A transfer that nobody asked for starts when the period is over, or what
\* setup() took later after a deep sleep: across sleeps, starts of the board and
\* transfers that overran it.
THEOREM PeriodIsKept == Spec => PeriodKept
<1>1. ASSUME BoardInv, StartTransfer, agreed, press = "none"
      PROVE  due = -spent
  <2>1. power = "on" /\ pc = "top" /\ cfg.role = "sender" /\ Delta(clock, next) >= 0
    BY <1>1 DEF StartTransfer, Loops, Due
  <2>2. TypesHold /\ Expected /\ clock \in Counter /\ due \in Int /\ spent \in Nat
    BY <1>1, <2>1 DEF BoardInv, Expected, TypesHold
  <2>3. Left \in 0..Period /\ next = (clock + Left) % Wrap
    BY <1>1, <2>1, <2>2 DEF BoardInv, ScheduleInv
  <2>4. Delta(clock, next) = -Left
    BY <2>2, <2>3, TickArithmetic
  <2>5. Period \in Nat
    BY <2>2, PeriodType
  <2>6. Left = 0
    BY <2>1, <2>3, <2>4, <2>5
  <2>7. QED
    BY <2>2, <2>6 DEF Left
<1>2. BoardInv /\ [Next]_vars =>
        [StartTransfer /\ agreed /\ press = "none" => due = -spent]_vars
  BY <1>1
<1>3. QED
  BY <1>2, Invariant, PTL DEF Spec, PeriodKept

\* A receiver that is up listens whenever time passes, but for the time the
\* access point has to settle after setup(), measured in real time.
THEOREM ReceiverListens == Spec => NeverDeaf
<1>1. ASSUME BoardInv, Tick, ctx, cfg.role = "receiver", pc # "listen"
      PROVE  up < Settle
  <2>1. power = "on" /\ pc = "top" /\ ~(Delta(clock, next) >= 0) /\ clock \in Counter
    BY <1>1 DEF Tick, Due, BoardInv, ScheduleInv, TypesHold
  <2>2. next # clock
    BY <2>1, NotDue
  <2>3. QED
    BY <1>1, <2>1, <2>2 DEF BoardInv, ReceiverInv
<1>2. BoardInv /\ [Next]_vars =>
        [Tick /\ ctx /\ cfg.role = "receiver" /\ pc # "listen" => up < Settle]_vars
  BY <1>1
<1>3. QED
  BY <1>2, Invariant, PTL DEF Spec, NeverDeaf
=============================================================================
