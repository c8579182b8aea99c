---------------------------- MODULE StoreProofs ----------------------------
(***************************************************************************)
(* Proofs about Store, for a ring of any depth, any number of pictures and *)
(* any of the faults: StoreInv is inductive, and the invariants of Store   *)
(* and FinishedIsKept follow from it.                                      *)
(***************************************************************************)
EXTENDS Store, FiniteIntegers

(***************************************************************************)
(* scan() finds the lowest and the highest number.                         *)
(***************************************************************************)
LEMMA MinFacts ==
  ASSUME NEW S \in SUBSET Int, S # {}, IsFiniteSet(S)
  PROVE  Min(S) \in S /\ \A y \in S : Min(S) <= y
BY HasMinimum, Zenon DEF Min

LEMMA MaxFacts ==
  ASSUME NEW S \in SUBSET Int, S # {}, IsFiniteSet(S)
  PROVE  Max(S) \in S /\ \A y \in S : Max(S) >= y
BY HasMaximum, Zenon DEF Max

(***************************************************************************)
(* The types of the files of one kind, when the latest picture is n.       *)
(***************************************************************************)
FilesOf(f, n) == DOMAIN f \subseteq Numbers /\ f \in [DOMAIN f -> 1..n]

TypeInv ==
  /\ FilesOf(img, pics) /\ FilesOf(side, pics) /\ FilesOf(part, pics)
  /\ seq \in Nat /\ next \in Numbers
  /\ role \in Roles
  /\ fp \in {"closed", "read", "write"} /\ renamed \in BOOLEAN
  /\ app \in {"ready", "capture", "stored", "sending", "receiving",
              "sidecar", "prune", "unlink"}
  /\ after \in {"ready", "stored"} /\ victim \in Nat
  /\ pics \in 0..MaxPics /\ reading \in 0..pics

LEMMA TypeInvIsTypeOK == TypeInv <=> TypeOK
BY Zenon DEF TypeInv, TypeOK, FilesOf, Pictures

LEMMA NoFileFiles ==
  ASSUME NEW n
  PROVE  FilesOf(NoFile, n)
BY DEF FilesOf, NoFile

LEMMA FilesGrow ==
  ASSUME NEW f, NEW n \in Nat, FilesOf(f, n)
  PROVE  FilesOf(f, n + 1)
<1>1. 1..n \subseteq 1..(n + 1)
  OBVIOUS
<1>2. QED
  BY <1>1 DEF FilesOf

LEMMA WithFiles ==
  ASSUME NEW f, NEW n \in Nat, FilesOf(f, n), NEW s \in Numbers, NEW v \in 1..n
  PROVE  FilesOf(With(f, s, v), n)
BY DEF FilesOf, With

LEMMA RestrictFiles ==
  ASSUME NEW f, NEW n \in Nat, FilesOf(f, n), NEW S \in SUBSET DOMAIN f
  PROVE  FilesOf(Restrict(f, S), n)
BY DEF FilesOf, Restrict

(***************************************************************************)
(* The inductive invariant.  What the properties leave open: a sidecar     *)
(* never outlives all images of its number and above, so that the number   *)
(* derived from the directory after a crash is not one a sidecar is left   *)
(* of; and what the file being written is to become.                       *)
(***************************************************************************)
FilesInv ==
  /\ IsFiniteSet(DOMAIN img)
  /\ \A s \in DOMAIN img : s <= next
  /\ NewestLast
  /\ SidecarDescribes
  /\ \A s \in DOMAIN side : s < next /\ \E t \in DOMAIN img : s <= t

Finished == {s \in DOMAIN img : s < next}

RingInv ==
  Keep # 0 =>
    /\ app \notin {"prune", "unlink"} => Cardinality(Finished) <= Keep
    /\ Cardinality(DOMAIN img) <= Keep + 1

StepInv ==
  /\ app \in {"capture", "receiving"} =>
       /\ seq = next /\ part = With(NoFile, next, pics)
       /\ \A s \in DOMAIN img : img[s] < pics
  /\ app = "sidecar" => seq = next /\ next \in DOMAIN img /\ img[next] = pics
  /\ app = "sending" => DOMAIN img # {} /\ reading = img[Newest]

StoreInv == TypeInv /\ FilesInv /\ RingInv /\ StepInv

LEMMA NewestFacts ==
  ASSUME StoreInv
  PROVE  /\ Newest \in Nat
         /\ \A s \in DOMAIN img : s <= Newest
         /\ DOMAIN img # {} => Newest \in DOMAIN img
<1>1. DOMAIN img \subseteq Numbers /\ IsFiniteSet(DOMAIN img)
  BY DEF StoreInv, FilesInv, FilesOf, TypeInv
<1>2. IsFiniteSet(DOMAIN img \cup {0})
  BY <1>1, FS_AddElement
<1>3. /\ Newest \in DOMAIN img \cup {0}
      /\ \A s \in DOMAIN img \cup {0} : Newest >= s
  BY <1>1, <1>2, MaxFacts DEF Newest, Numbers
<1>4. \A s \in DOMAIN img : s \in Nat /\ s > 0
  BY <1>1 DEF Numbers
<1>5. QED
  BY <1>3, <1>4

LEMMA InitInv == Init => StoreInv
<1> SUFFICES ASSUME Init PROVE StoreInv
  OBVIOUS
<1>1. DOMAIN img = {} /\ DOMAIN side = {}
  BY DEF Init, NoFile
<1>2. IsFiniteSet({}) /\ Cardinality({}) = 0
  BY FS_EmptySet
<1>3. Newest = 0
  <2>1. DOMAIN img \cup {0} = {0}
    BY <1>1
  <2>2. IsFiniteSet({0})
    BY FS_Singleton
  <2>3. QED
    BY <2>1, <2>2, MaxFacts DEF Newest
<1>4. next = 1
  BY <1>3 DEF Init, NextSeq
<1>5. TypeInv
  <2>1. FilesOf(img, pics) /\ FilesOf(side, pics) /\ FilesOf(part, pics)
    BY NoFileFiles DEF Init
  <2>2. seq \in Nat /\ next \in Numbers /\ victim \in Nat
    BY <1>4 DEF Init, Numbers
  <2>3. pics \in 0..MaxPics /\ reading \in 0..pics
    BY StoreAssumption DEF Init
  <2>4. QED
    BY <2>1, <2>2, <2>3 DEF Init, TypeInv
<1>6. FilesInv
  BY <1>1, <1>2 DEF FilesInv, NewestLast, SidecarDescribes
<1>7. RingInv
  <2>1. Finished = {}
    BY <1>1 DEF Finished
  <2>2. QED
    BY <1>1, <1>2, <2>1, StoreAssumption DEF RingInv
<1>8. StepInv
  BY DEF Init, StepInv
<1>9. QED
  BY <1>5, <1>6, <1>7, <1>8 DEF StoreInv

(***************************************************************************)
(* A step that leaves the finished files and their number alone.           *)
(***************************************************************************)
LEMMA FilesUnchanged ==
  ASSUME FilesInv, UNCHANGED <<img, side, next>>
  PROVE  FilesInv'
BY DEF FilesInv, NewestLast, SidecarDescribes

LEMMA RingUnchanged ==
  ASSUME RingInv, UNCHANGED <<img, next>>,
         app \notin {"prune", "unlink"} \/ app' \in {"prune", "unlink"}
  PROVE  RingInv'
BY DEF RingInv, Finished

LEMMA BeginWriteInv ==
  ASSUME StoreInv, pics' = pics + 1, pics < MaxPics, BeginWrite(pics'),
         app \in {"ready", "receiving"},
         app' = "ready" \/ (fp' = "write" /\ app' \in {"capture", "receiving"}),
         UNCHANGED <<after, victim, reading, role>>
  PROVE  StoreInv'
<1>1. pics \in Nat /\ MaxPics \in Nat /\ next \in Numbers
  BY StoreAssumption DEF StoreInv, TypeInv
<1>2. FilesOf(img, pics') /\ FilesOf(side, pics')
  BY <1>1, FilesGrow DEF StoreInv, TypeInv
<1>3. FilesOf(part', pics')
  <2>1. pics' \in Nat /\ pics' \in 1..pics'
    BY <1>1
  <2>2. FilesOf(With(NoFile, next, pics'), pics')
    BY <1>1, <2>1, NoFileFiles, WithFiles
  <2>3. QED
    BY <2>2, NoFileFiles DEF BeginWrite
<1>4. TypeInv'
  <2>1. pics' \in 0..MaxPics /\ reading' \in 0..pics' /\ next \in Nat
    BY <1>1 DEF StoreInv, Numbers, TypeInv
  <2>2. UNCHANGED <<img, side, next>> /\ seq' = next /\ renamed' = FALSE
        /\ fp' \in {"write", "closed"}
    BY DEF BeginWrite
  <2>3. QED
    BY <1>2, <1>3, <2>1, <2>2 DEF StoreInv, TypeInv
<1>5. FilesInv'
  BY FilesUnchanged DEF StoreInv, BeginWrite
<1>6. RingInv'
  BY RingUnchanged DEF StoreInv, BeginWrite
<1>7. StepInv'
  <2>1. \A s \in DOMAIN img : img[s] < pics'
    BY <1>1 DEF StoreInv, FilesOf, TypeInv
  <2>2. fp' = "write" => part' = With(NoFile, next, pics')
    BY DEF BeginWrite
  <2>3. UNCHANGED <<img, next>> /\ seq' = next
    BY DEF BeginWrite
  <2>4. app' \notin {"sidecar", "sending"}
    OBVIOUS
  <2>5. QED
    BY <2>1, <2>2, <2>3, <2>4 DEF StepInv
<1>8. QED
  BY <1>4, <1>5, <1>6, <1>7 DEF StoreInv

LEMMA CaptureInv == StoreInv /\ Capture => StoreInv'
<1> SUFFICES ASSUME StoreInv, Capture PROVE StoreInv'
  OBVIOUS
<1>1. CASE fp = "closed"
  BY <1>1, BeginWriteInv DEF Capture
<1>2. CASE fp # "closed"
  <2>1. pics \in Nat /\ MaxPics \in Nat
    BY StoreAssumption DEF StoreInv, TypeInv
  <2>2. UNCHANGED <<disk, store, app, after, victim, reading, role>>
        /\ app = "ready" /\ pics' = pics + 1 /\ pics < MaxPics
    BY <1>2 DEF Capture
  <2>3. FilesOf(img', pics') /\ FilesOf(side', pics') /\ FilesOf(part', pics')
    BY <2>1, <2>2, FilesGrow DEF StoreInv, disk, TypeInv
  <2>4. TypeInv'
    <3>1. pics' \in 0..MaxPics /\ reading' \in 0..pics'
      BY <2>1, <2>2 DEF StoreInv, TypeInv
    <3>2. QED
      BY <2>2, <2>3, <3>1 DEF StoreInv, TypeInv, store
  <2>5. FilesInv'
    BY <2>2, FilesUnchanged DEF StoreInv, disk, store
  <2>6. RingInv'
    BY <2>2, RingUnchanged DEF StoreInv, disk, store
  <2>7. StepInv'
    BY <2>2 DEF StepInv
  <2>8. QED
    BY <2>4, <2>5, <2>6, <2>7 DEF StoreInv
<1>3. QED
  BY <1>1, <1>2

LEMMA AnnouncedInv == StoreInv /\ Announced => StoreInv'
BY BeginWriteInv DEF Announced
LEMMA MoveInv ==
  ASSUME StoreInv, MoveIntoPlace, app \in {"capture", "receiving"},
         app' \in {"sidecar", "stored", "ready"}, app' = "sidecar" => InPlace,
         after' \in {"ready", "stored"}, renamed' \in BOOLEAN,
         UNCHANGED <<side, seq, next, victim, pics, reading, role>>
  PROVE  StoreInv'
<1>1. /\ pics \in Nat /\ next \in Numbers /\ DOMAIN img \subseteq Numbers
      /\ IsFiniteSet(DOMAIN img)
  BY DEF StoreInv, TypeInv, FilesInv, FilesOf
<1>2. part = With(NoFile, next, pics)
  BY DEF StoreInv, StepInv
<1>3. DOMAIN part = DOMAIN NoFile \cup {next} /\ part[next] = pics
  BY <1>2 DEF With
<1>4. seq = next /\ part[seq] = pics /\ \A s \in DOMAIN img : img[s] < pics
  BY <1>3 DEF StoreInv, StepInv
<1>5. next \in Nat /\ next > 0
  BY <1>1 DEF Numbers
<1>6. pics \in 1..pics
  BY <1>3 DEF StoreInv, TypeInv, FilesOf
<1>7. CASE UNCHANGED img
  <2>1. TypeInv'
    BY <1>7, NoFileFiles DEF StoreInv, TypeInv, MoveIntoPlace
  <2>2. FilesInv'
    BY <1>7, FilesUnchanged DEF StoreInv
  <2>3. RingInv'
    BY <1>7, RingUnchanged DEF StoreInv
  <2>4. StepInv'
    BY <1>4, <1>7 DEF StepInv, InPlace
  <2>5. QED
    BY <2>1, <2>2, <2>3, <2>4 DEF StoreInv
<1>8. CASE img' = With(img, next, pics)
  <2>1. /\ DOMAIN img' = DOMAIN img \cup {next} /\ img'[next] = pics
        /\ \A s \in DOMAIN img \ {next} : img'[s] = img[s]
    BY <1>8 DEF With
  <2>2. TypeInv'
    <3>1. FilesOf(img', pics)
      BY <1>1, <1>6, <1>8, WithFiles DEF StoreInv, TypeInv
    <3>2. QED
      BY <3>1, NoFileFiles DEF StoreInv, TypeInv, MoveIntoPlace
  <2>3. FilesInv'
    <3>1. IsFiniteSet(DOMAIN img')
      BY <1>1, <2>1, FS_AddElement
    <3>2. \A s \in DOMAIN img' : s <= next'
      BY <1>5, <2>1 DEF StoreInv, FilesInv
    <3>3. NewestLast'
      <4> SUFFICES ASSUME NEW s \in DOMAIN img', NEW t \in DOMAIN img', s < t
                   PROVE  img'[s] < img'[t]
        BY DEF NewestLast
      <4>1. s \in Nat /\ t \in Nat /\ s <= next /\ t <= next
        BY <1>1, <1>5, <2>1 DEF Numbers, StoreInv, FilesInv
      <4>2. s \in DOMAIN img \ {next} /\ img'[s] = img[s]
        BY <1>5, <2>1, <4>1
      <4>3. CASE t = next
        BY <1>4, <2>1, <4>2, <4>3
      <4>4. CASE t # next
        BY <2>1, <4>2, <4>4 DEF StoreInv, FilesInv, NewestLast
      <4>5. QED
        BY <4>3, <4>4
    <3>4. \A s \in DOMAIN side : s # next
      BY <1>5 DEF StoreInv, FilesInv
    <3>5. SidecarDescribes'
      BY <2>1, <3>4 DEF StoreInv, FilesInv, SidecarDescribes
    <3>6. \A s \in DOMAIN side' : s < next' /\ \E t \in DOMAIN img' : s <= t
      BY <2>1 DEF StoreInv, FilesInv
    <3>7. QED
      BY <3>1, <3>2, <3>3, <3>5, <3>6 DEF FilesInv
  <2>4. RingInv'
    <3> SUFFICES ASSUME Keep # 0
                 PROVE  /\ Cardinality(Finished') <= Keep
                        /\ Cardinality(DOMAIN img') <= Keep + 1
      BY DEF RingInv
    <3>1. Finished' = Finished
      BY <1>5, <2>1 DEF Finished
    <3>2. DOMAIN img' = Finished \cup {next}
      BY <1>1, <1>5, <2>1 DEF Finished, StoreInv, FilesInv, Numbers
    <3>3. IsFiniteSet(Finished) /\ next \notin Finished
      BY <1>1, <1>5, FS_Subset DEF Finished
    <3>4. Cardinality(Finished) \in Nat
      BY <3>3, FS_CardinalityType
    <3>5. Cardinality(DOMAIN img') = Cardinality(Finished) + 1
      BY <3>2, <3>3, FS_AddElement
    <3>6. Cardinality(Finished) <= Keep
      BY DEF StoreInv, RingInv
    <3>7. QED
      BY <3>1, <3>4, <3>5, <3>6, StoreAssumption
  <2>5. StepInv'
    BY <1>4, <2>1 DEF StepInv
  <2>6. QED
    BY <2>2, <2>3, <2>4, <2>5 DEF StoreInv
<1>9. QED
  BY <1>4, <1>7, <1>8 DEF MoveIntoPlace

LEMMA CapturedInv == StoreInv /\ Captured => StoreInv'
<1> SUFFICES ASSUME StoreInv, Captured PROVE StoreInv'
  OBVIOUS
<1>1. renamed' \in BOOLEAN
  BY DEF StoreInv, TypeInv, Captured
<1>2. QED
  BY <1>1, MoveInv DEF Captured

LEMMA ReceivedInv == StoreInv /\ (Received \/ ReceiveTimesOut) => StoreInv'
<1> SUFFICES ASSUME StoreInv, Received \/ ReceiveTimesOut PROVE StoreInv'
  OBVIOUS
<1>1. renamed' \in BOOLEAN
  BY DEF Received, ReceiveTimesOut, InPlace
<1>2. after' \in {"ready", "stored"}
  BY DEF Received, ReceiveTimesOut, StoreInv, TypeInv
<1>3. QED
  BY <1>1, <1>2, MoveInv DEF Received, ReceiveTimesOut

LEMMA SendBeginsInv == StoreInv /\ SendBegins => StoreInv'
<1> SUFFICES ASSUME StoreInv, SendBegins PROVE StoreInv'
  OBVIOUS
<1>1. UNCHANGED <<img, side, part, next, renamed, after, victim, pics, role>>
      /\ app = "stored" /\ app' \in {"ready", "sending"}
  BY DEF SendBegins, disk
<1>2. app' = "sending" => /\ DOMAIN img # {} /\ seq' = Newest /\ fp' = "read"
                          /\ reading' = img[Newest]
  BY DEF SendBegins
<1>3. app' = "ready" => UNCHANGED <<seq, fp, reading>>
  BY DEF SendBegins
<1>4. TypeInv'
  <2>1. app' = "sending" => reading' \in 0..pics
    BY <1>2, NewestFacts DEF StoreInv, TypeInv, FilesOf
  <2>2. QED
    BY <1>1, <1>2, <1>3, <2>1, NewestFacts DEF StoreInv, TypeInv
<1>5. FilesInv'
  BY <1>1, FilesUnchanged DEF StoreInv
<1>6. RingInv'
  BY <1>1, RingUnchanged DEF StoreInv
<1>7. StepInv'
  <2>1. Newest' = Newest
    BY <1>1 DEF Newest
  <2>2. QED
    BY <1>1, <1>2, <2>1 DEF StepInv
<1>8. QED
  BY <1>4, <1>5, <1>6, <1>7 DEF StoreInv

LEMMA SendEndsInv == StoreInv /\ (SendEnds \/ SendFails) => StoreInv'
<1> SUFFICES ASSUME StoreInv, SendEnds \/ SendFails PROVE StoreInv'
  OBVIOUS
<1>1. /\ UNCHANGED <<img, side, part, seq, next, renamed, after, victim, pics, role>>
      /\ app = "sending" /\ app' = "ready" /\ reading' = 0
      /\ fp' = "closed" \/ fp' = fp
  BY DEF SendEnds, SendFails, disk, store
<1>2. TypeInv'
  BY <1>1 DEF StoreInv, TypeInv
<1>3. FilesInv'
  BY <1>1, FilesUnchanged DEF StoreInv
<1>4. RingInv'
  BY <1>1, RingUnchanged DEF StoreInv
<1>5. StepInv'
  BY <1>1 DEF StepInv
<1>6. QED
  BY <1>2, <1>3, <1>4, <1>5 DEF StoreInv
LEMMA WriteSidecarInv == StoreInv /\ WriteSidecar => StoreInv'
<1> SUFFICES ASSUME StoreInv, WriteSidecar PROVE StoreInv'
  OBVIOUS
<1>1. /\ UNCHANGED <<img, part, seq, fp, after, victim, pics, reading, role>>
      /\ app = "sidecar" /\ app' = "prune" /\ renamed' = FALSE
      /\ side' = With(side, next, pics) /\ next' = next + 1
      /\ next \in DOMAIN img /\ img[next] = pics
  BY DEF WriteSidecar, StoreInv, StepInv
<1>2. next \in Numbers /\ next \in Nat /\ next > 0 /\ pics \in Nat
      /\ DOMAIN img \subseteq Nat
  BY DEF StoreInv, TypeInv, FilesOf, Numbers
<1>3. /\ DOMAIN side' = DOMAIN side \cup {next} /\ side'[next] = pics
      /\ \A s \in DOMAIN side \ {next} : side'[s] = side[s]
  BY <1>1 DEF With
<1>4. TypeInv'
  <2>1. pics \in 1..pics
    BY <1>1 DEF StoreInv, TypeInv, FilesOf
  <2>2. FilesOf(side', pics)
    BY <1>1, <1>2, <2>1, WithFiles DEF StoreInv, TypeInv
  <2>3. next' \in Numbers
    BY <1>1, <1>2 DEF Numbers
  <2>4. QED
    BY <1>1, <2>2, <2>3 DEF StoreInv, TypeInv
<1>5. FilesInv'
  <2>1. \A s \in DOMAIN img' : s <= next'
    BY <1>1, <1>2 DEF StoreInv, FilesInv
  <2>2. SidecarDescribes'
    BY <1>1, <1>3 DEF StoreInv, FilesInv, SidecarDescribes
  <2>3. \A s \in DOMAIN side' : s < next' /\ \E t \in DOMAIN img' : s <= t
    <3> SUFFICES ASSUME NEW s \in DOMAIN side'
                 PROVE  s < next' /\ \E t \in DOMAIN img' : s <= t
      OBVIOUS
    <3>1. CASE s = next
      BY <1>1, <1>2, <3>1
    <3>2. CASE s \in DOMAIN side
      <4>1. s \in Nat /\ s < next /\ \E t \in DOMAIN img : s <= t
        BY <3>2 DEF StoreInv, FilesInv, TypeInv, FilesOf, Numbers
      <4>2. QED
        BY <1>1, <1>2, <4>1
    <3>3. QED
      BY <1>3, <3>1, <3>2
  <2>4. QED
    BY <1>1, <2>1, <2>2, <2>3 DEF StoreInv, FilesInv, NewestLast
<1>6. RingInv'
  BY <1>1 DEF StoreInv, RingInv
<1>7. StepInv'
  BY <1>1 DEF StepInv
<1>8. QED
  BY <1>4, <1>5, <1>6, <1>7 DEF StoreInv

(***************************************************************************)
(* Pruning takes the lowest of at least two images.                        *)
(***************************************************************************)
LEMMA PruneFacts ==
  ASSUME StoreInv, PruneImage
  PROVE  /\ Oldest \in DOMAIN img
         /\ \A s \in DOMAIN img : Oldest <= s
         /\ \E t \in DOMAIN img : t # Oldest
         /\ Cardinality(DOMAIN img \ {Oldest}) = Cardinality(DOMAIN img) - 1
<1>1. IsFiniteSet(DOMAIN img) /\ DOMAIN img \subseteq Int
  BY DEF StoreInv, TypeInv, FilesInv, FilesOf, Numbers
<1>2. Cardinality(DOMAIN img) \in Nat /\ Cardinality(DOMAIN img) > 1
  <2>1. Cardinality(DOMAIN img) \in Nat
    BY <1>1, FS_CardinalityType
  <2>2. QED
    BY <2>1, StoreAssumption DEF PruneImage, TooMany
<1>3. DOMAIN img # {}
  BY <1>1, <1>2, FS_EmptySet
<1>4. Oldest \in DOMAIN img /\ \A s \in DOMAIN img : Oldest <= s
  BY <1>1, <1>3, MinFacts, Zenon DEF Oldest
<1>5. Cardinality(DOMAIN img \ {Oldest}) = Cardinality(DOMAIN img) - 1
  BY <1>1, <1>4, FS_RemoveElement
<1>6. DOMAIN img # {Oldest}
  BY <1>2, FS_Singleton
<1>7. QED
  BY <1>4, <1>5, <1>6

LEMMA PruneImageInv == StoreInv /\ PruneImage => StoreInv'
<1> SUFFICES ASSUME StoreInv, PruneImage PROVE StoreInv'
  OBVIOUS
<1>1. /\ UNCHANGED <<side, part, seq, next, fp, renamed, after, pics, reading, role>>
      /\ app' = "unlink" /\ victim' = Oldest
      /\ img' = Restrict(img, DOMAIN img \ {Oldest})
  BY DEF PruneImage, store
<1>2. DOMAIN img \subseteq Nat /\ IsFiniteSet(DOMAIN img) /\ pics \in Nat
  BY DEF StoreInv, TypeInv, FilesInv, FilesOf, Numbers
<1>3. /\ DOMAIN img' = DOMAIN img \ {Oldest}
      /\ \A s \in DOMAIN img' : img'[s] = img[s]
  BY <1>1 DEF Restrict
<1>4. Oldest \in DOMAIN img /\ \A s \in DOMAIN img : Oldest <= s
  BY PruneFacts
<1>5. TypeInv'
  <2>1. FilesOf(img', pics)
    BY <1>1, <1>2, RestrictFiles DEF StoreInv, TypeInv
  <2>2. QED
    BY <1>1, <1>2, <1>4, <2>1 DEF StoreInv, TypeInv
<1>6. FilesInv'
  <2>1. IsFiniteSet(DOMAIN img')
    BY <1>2, <1>3, FS_RemoveElement
  <2>2. (\A s \in DOMAIN img' : s <= next') /\ NewestLast' /\ SidecarDescribes'
    BY <1>1, <1>3 DEF StoreInv, FilesInv, NewestLast, SidecarDescribes
  <2>3. \A s \in DOMAIN side' : s < next' /\ \E t \in DOMAIN img' : s <= t
    <3> SUFFICES ASSUME NEW s \in DOMAIN side
                 PROVE  s < next /\ \E t \in DOMAIN img' : s <= t
      BY <1>1
    <3>1. PICK t \in DOMAIN img : s < next /\ s <= t
      BY DEF StoreInv, FilesInv
    <3>2. CASE t # Oldest
      BY <1>3, <3>1, <3>2
    <3>3. CASE t = Oldest
      <4>1. PICK u \in DOMAIN img : u # Oldest
        BY PruneFacts
      <4>2. s \in Nat /\ t \in Nat /\ u \in Nat /\ t <= u
        BY <1>2, <1>4, <3>3 DEF StoreInv, TypeInv, FilesOf, Numbers
      <4>3. s <= u
        BY <3>1, <4>2
      <4>4. QED
        BY <1>3, <3>1, <4>1, <4>3
    <3>4. QED
      BY <3>2, <3>3
  <2>4. QED
    BY <2>1, <2>2, <2>3 DEF FilesInv
<1>7. RingInv'
  <2>1. Cardinality(DOMAIN img) \in Nat
    BY <1>2, FS_CardinalityType
  <2>2. QED
    BY <1>1, <1>3, <2>1, PruneFacts, StoreAssumption DEF StoreInv, RingInv
<1>8. StepInv'
  BY <1>1 DEF StepInv
<1>9. QED
  BY <1>5, <1>6, <1>7, <1>8 DEF StoreInv

LEMMA PruneSidecarInv == StoreInv /\ PruneSidecar => StoreInv'
<1> SUFFICES ASSUME StoreInv, PruneSidecar PROVE StoreInv'
  OBVIOUS
<1>1. /\ UNCHANGED <<img, part, seq, next, fp, renamed, after, pics, reading, role>>
      /\ app = "unlink" /\ app' = "prune" /\ victim' = 0
      /\ side' = Restrict(side, DOMAIN side \ {victim})
  BY DEF PruneSidecar, store
<1>2. /\ DOMAIN side' = DOMAIN side \ {victim}
      /\ \A s \in DOMAIN side' : side'[s] = side[s]
  BY <1>1 DEF Restrict
<1>3. TypeInv'
  <2>1. FilesOf(side', pics)
    BY <1>1, RestrictFiles DEF StoreInv, TypeInv
  <2>2. QED
    BY <1>1, <2>1 DEF StoreInv, TypeInv
<1>4. FilesInv'
  BY <1>1, <1>2 DEF StoreInv, FilesInv, NewestLast, SidecarDescribes
<1>5. RingInv'
  BY <1>1, RingUnchanged DEF StoreInv
<1>6. StepInv'
  BY <1>1 DEF StepInv
<1>7. QED
  BY <1>3, <1>4, <1>5, <1>6 DEF StoreInv

LEMMA PruneDoneInv == StoreInv /\ PruneDone => StoreInv'
<1> SUFFICES ASSUME StoreInv, PruneDone PROVE StoreInv'
  OBVIOUS
<1>1. /\ UNCHANGED <<img, side, part, seq, next, fp, renamed>>
      /\ UNCHANGED <<after, victim, pics, reading, role>>
      /\ ~TooMany /\ app' = after
  BY DEF PruneDone, disk, store
<1>2. app' \in {"ready", "stored"}
  BY <1>1 DEF StoreInv, TypeInv
<1>3. TypeInv'
  BY <1>1, <1>2 DEF StoreInv, TypeInv
<1>4. FilesInv'
  BY <1>1, FilesUnchanged DEF StoreInv
<1>5. RingInv'
  <2> SUFFICES ASSUME Keep # 0
               PROVE  /\ Cardinality(Finished) <= Keep
                      /\ Cardinality(DOMAIN img) <= Keep + 1
    BY <1>1 DEF RingInv, Finished
  <2>1. IsFiniteSet(DOMAIN img)
    BY DEF StoreInv, FilesInv
  <2>2. Finished \in SUBSET DOMAIN img
    BY DEF Finished
  <2>3. /\ Cardinality(DOMAIN img) \in Nat /\ Cardinality(Finished) \in Nat
        /\ Cardinality(Finished) <= Cardinality(DOMAIN img)
    BY <2>1, <2>2, FS_Subset, FS_CardinalityType
  <2>4. Cardinality(DOMAIN img) <= Keep
    BY <1>1, <2>3, StoreAssumption DEF TooMany
  <2>5. QED
    BY <2>3, <2>4, StoreAssumption
<1>6. StepInv'
  BY <1>1, <1>2 DEF StepInv
<1>7. QED
  BY <1>3, <1>4, <1>5, <1>6 DEF StoreInv

LEMMA CrashInv == StoreInv /\ Crash => StoreInv'
<1> SUFFICES ASSUME StoreInv, Crash PROVE StoreInv'
  OBVIOUS
<1>1. /\ UNCHANGED <<img, side, pics>> /\ part' = NoFile
      /\ app' = "prune" /\ after' = "ready" /\ next' = Newest + 1
      /\ seq' = 0 /\ fp' = "closed" /\ renamed' = FALSE
      /\ victim' = 0 /\ reading' = 0 /\ role' \in Roles
  BY DEF Crash, PartsLeft, NextSeq
<1>2. Newest \in Nat /\ \A s \in DOMAIN img : s <= Newest
  BY NewestFacts
<1>3. DOMAIN img \subseteq Nat /\ DOMAIN side \subseteq Nat
  BY DEF StoreInv, TypeInv, FilesOf, Numbers
<1>4. TypeInv'
  <2>1. next' \in Numbers
    BY <1>1, <1>2 DEF Numbers
  <2>2. 0 \in 0..pics
    BY DEF StoreInv, TypeInv
  <2>3. QED
    BY <1>1, <2>1, <2>2, NoFileFiles DEF StoreInv, TypeInv
<1>5. FilesInv'
  <2>1. \A s \in DOMAIN img : s <= next'
    BY <1>1, <1>2, <1>3
  <2>2. \A s \in DOMAIN side : s < next' /\ \E t \in DOMAIN img : s <= t
    <3> SUFFICES ASSUME NEW s \in DOMAIN side
                 PROVE  s < next' /\ \E t \in DOMAIN img : s <= t
      OBVIOUS
    <3>1. PICK t \in DOMAIN img : s <= t
      BY DEF StoreInv, FilesInv
    <3>2. s \in Nat /\ t \in Nat /\ t <= Newest
      BY <1>2, <1>3
    <3>3. s < next'
      BY <1>1, <1>2, <3>1, <3>2
    <3>4. QED
      BY <3>1, <3>3
  <2>3. QED
    BY <1>1, <2>1, <2>2 DEF StoreInv, FilesInv, NewestLast, SidecarDescribes
<1>6. RingInv'
  BY <1>1 DEF StoreInv, RingInv
<1>7. StepInv'
  BY <1>1 DEF StepInv
<1>8. QED
  BY <1>4, <1>5, <1>6, <1>7 DEF StoreInv

LEMMA StepInvariant == StoreInv /\ [Next]_vars => StoreInv'
<1> SUFFICES ASSUME StoreInv, [Next]_vars PROVE StoreInv'
  OBVIOUS
<1>1. CASE Next
  BY <1>1, CaptureInv, CapturedInv, SendBeginsInv, SendEndsInv, AnnouncedInv,
     ReceivedInv, WriteSidecarInv, PruneImageInv, PruneSidecarInv,
     PruneDoneInv, CrashInv, Zenon DEF Next
<1>2. CASE UNCHANGED vars
  <2>1. /\ UNCHANGED <<img, side, part, seq, next, fp, renamed>>
        /\ UNCHANGED <<role, app, after, victim, pics, reading>>
    BY <1>2 DEF vars, disk, store
  <2>2. TypeInv'
    BY <2>1 DEF StoreInv, TypeInv
  <2>3. FilesInv'
    BY <2>1, FilesUnchanged DEF StoreInv
  <2>4. RingInv'
    BY <2>1 DEF StoreInv, RingInv, Finished
  <2>5. Newest' = Newest
    BY <2>1 DEF Newest
  <2>6. StepInv'
    BY <2>1, <2>5 DEF StoreInv, StepInv
  <2>7. QED
    BY <2>2, <2>3, <2>4, <2>6 DEF StoreInv
<1>3. QED
  BY <1>1, <1>2

LEMMA InvariantHolds == Spec => []StoreInv
BY InitInv, StepInvariant, PTL DEF Spec

(***************************************************************************)
(* The types of all variables of the store.                                *)
(***************************************************************************)
THEOREM TypeCorrect == Spec => []TypeOK
<1>1. StoreInv => TypeOK
  BY TypeInvIsTypeOK DEF StoreInv
<1>2. QED
  BY <1>1, InvariantHolds, PTL

(***************************************************************************)
(* Whatever fails and whenever power does: loraitp_store_prune() keeps the *)
(* ring at its depth, and flash never holds more than one image above it.  *)
(***************************************************************************)
THEOREM RingIsBounded == Spec => []RingBound
<1>1. StoreInv => RingBound
  BY DEF StoreInv, RingInv, RingBound, Finished
<1>2. QED
  BY <1>1, InvariantHolds, PTL

(***************************************************************************)
(* The number loraitp_store_init() derives from the directory keeps the    *)
(* images in the order they were taken, across any number of crashes.      *)
(***************************************************************************)
THEOREM NumbersAreMonotonic == Spec => []NewestLast
<1>1. StoreInv => NewestLast
  BY DEF StoreInv, FilesInv
<1>2. QED
  BY <1>1, InvariantHolds, PTL

(***************************************************************************)
(* No sidecar an interrupted pruning left behind ever comes to lie beside  *)
(* an image it does not describe.                                          *)
(***************************************************************************)
THEOREM SidecarsMatch == Spec => []SidecarDescribes
<1>1. StoreInv => SidecarDescribes
  BY DEF StoreInv, FilesInv
<1>2. QED
  BY <1>1, InvariantHolds, PTL

(***************************************************************************)
(* run_sender() transmits the picture make_image() just took, when that    *)
(* picture reached flash at all: the image that image_begin() opens is the *)
(* one of the highest number, and the highest number is the last picture.  *)
(***************************************************************************)
THEOREM CaptureIsSent == Spec => []SendsTheCapture
<1>1. StoreInv => SendsTheCapture
  <2> SUFFICES ASSUME StoreInv, app = "sending", NEW s \in DOMAIN img, img[s] = pics
               PROVE  reading = pics
    BY DEF SendsTheCapture, Range
  <2>1. /\ Newest \in DOMAIN img /\ s \in Nat /\ Newest \in Nat /\ s <= Newest
        /\ reading = img[Newest]
    BY NewestFacts DEF StoreInv, StepInv, TypeInv, FilesOf, Numbers
  <2>2. img[Newest] \in 1..pics /\ pics \in Nat
    BY <2>1 DEF StoreInv, TypeInv, FilesOf
  <2>3. CASE s < Newest
    <3>1. img[s] < img[Newest]
      BY <2>1, <2>3 DEF StoreInv, FilesInv, NewestLast
    <3>2. QED
      BY <2>2, <3>1
  <2>4. QED
    BY <2>1, <2>3
<1>2. QED
  BY <1>1, InvariantHolds, PTL

(***************************************************************************)
(* An image loraitp_store_finish() has seen through leaves flash only as   *)
(* the oldest of too many, and is never overwritten: the file a transfer   *)
(* moves into place has a number no finished image has.                    *)
(***************************************************************************)
THEOREM FinishedImagesAreKept == Spec => FinishedIsKept
<1>1. StoreInv /\ [Next]_vars => \A s \in DOMAIN img : s < next => Kept(s)
  <2> SUFFICES ASSUME StoreInv, [Next]_vars, NEW s \in DOMAIN img, s < next
               PROVE  Kept(s)
    OBVIOUS
  <2>1. CASE Captured \/ Received \/ ReceiveTimesOut
    <3>1. seq = next /\ s \in Nat /\ next \in Nat
      BY <2>1 DEF Captured, Received, ReceiveTimesOut, StoreInv, StepInv,
                  TypeInv, FilesOf, Numbers
    <3>2. img' = With(img, seq, part[seq]) \/ UNCHANGED img
      BY <2>1 DEF Captured, Received, ReceiveTimesOut, MoveIntoPlace
    <3>3. QED
      BY <3>1, <3>2 DEF Kept, With
  <2>2. CASE PruneImage
    <3>1. img' = Restrict(img, DOMAIN img \ {Oldest}) /\ TooMany
      BY <2>2 DEF PruneImage
    <3>2. QED
      BY <3>1 DEF Kept, Restrict, Oldest
  <2>3. CASE UNCHANGED img
    BY <2>3 DEF Kept
  <2>4. QED
    BY <2>1, <2>2, <2>3 DEF Next, vars, disk, store, Capture, SendBegins, SendEnds,
       SendFails, Announced, BeginWrite, WriteSidecar, PruneSidecar, PruneDone, Crash
<1>2. QED
  BY <1>1, InvariantHolds, PTL DEF Spec, FinishedIsKept
=============================================================================
