--------------------------- MODULE BroadcastProofs ---------------------------
(***************************************************************************)
(* Proofs about Broadcast, for images of any size and number, any block    *)
(* size and share of parity, any losses, and any fault the model has.      *)
(***************************************************************************)
EXTENDS Broadcast, FiniteIntegers

(***************************************************************************)
(* Blocks and frames: where they begin, and which place a number is.       *)
(***************************************************************************)
LEMMA SizeFacts ==
  ASSUME NEW s \in Sessions
  PROVE  /\ Size[s] \in Nat \ {0} /\ BlockSize \in Nat \ {0}
         /\ Chunks(s) \subseteq Nat /\ IsFiniteSet(Chunks(s))
         /\ Cardinality(Chunks(s)) = Size[s]
<1>1. Size[s] \in Nat \ {0} /\ BlockSize \in Nat \ {0}
  BY SizeAssumption, BlockAssumption DEF Sessions
<1>2. IsFiniteSet(0..(Size[s] - 1)) /\ Cardinality(0..(Size[s] - 1)) = Size[s]
  <2>1. 0 \in Int /\ Size[s] - 1 \in Int /\ ~(0 > Size[s] - 1)
    BY <1>1
  <2>2. IsFiniteSet(0..(Size[s] - 1))
        /\ Cardinality(0..(Size[s] - 1)) =
             IF 0 > Size[s] - 1 THEN 0 ELSE (Size[s] - 1) - 0 + 1
    BY <2>1, FS_Interval, Zenon
  <2>3. QED
    BY <1>1, <2>2
<1>3. QED
  BY <1>1, <1>2 DEF Chunks

LEMMA NBlocksFacts ==
  ASSUME NEW s \in Sessions
  PROVE  /\ NBlocks(s) \in Nat \ {0}
         /\ (NBlocks(s) - 1) * BlockSize < Size[s]
         /\ Size[s] <= NBlocks(s) * BlockSize
<1> DEFINE z == Size[s]
           n == NBlocks(s)
           r == (z + BlockSize - 1) % BlockSize
<1>1. z \in Nat \ {0} /\ BlockSize \in Nat \ {0} /\ z + BlockSize - 1 \in Nat
  BY SizeFacts
<1>2. n \in Nat /\ r \in 0..(BlockSize - 1) /\ z + BlockSize - 1 = BlockSize * n + r
  BY <1>1, Division, Zenon DEF NBlocks
<1> HIDE DEF z, n, r
<1>3. n # 0
  BY <1>1, <1>2
<1>4. (n - 1) * BlockSize = BlockSize * n - BlockSize /\ n * BlockSize = BlockSize * n
  BY <1>1, <1>2
<1>5. QED
  BY <1>1, <1>2, <1>3, <1>4 DEF z, n

\* Where block b begins and ends.
LEMMA BlockFacts ==
  ASSUME NEW s \in Sessions, NEW b \in 0..(NBlocks(s) - 1)
  PROVE  /\ b * BlockSize \in Nat /\ (b + 1) * BlockSize = b * BlockSize + BlockSize
         /\ BlockK(s, b) \in 1..BlockSize
         /\ b * BlockSize + BlockK(s, b) <= Size[s]
         /\ b + 1 < NBlocks(s) => (b + 1) * BlockSize < Size[s]
         /\ b + 1 = NBlocks(s) => Size[s] <= (b + 1) * BlockSize
         /\ BlockK(s, b) = IF Size[s] - b * BlockSize <= BlockSize
                           THEN Size[s] - b * BlockSize ELSE BlockSize
<1>1. /\ NBlocks(s) \in Nat \ {0} /\ BlockSize \in Nat \ {0} /\ Size[s] \in Nat \ {0}
      /\ (NBlocks(s) - 1) * BlockSize < Size[s] /\ Size[s] <= NBlocks(s) * BlockSize
  BY NBlocksFacts, SizeFacts
<1>2. \A i, j \in Nat : i <= j => i * BlockSize <= j * BlockSize
  BY <1>1
<1>3. /\ b \in Nat /\ b * BlockSize \in Nat
      /\ (b + 1) * BlockSize = b * BlockSize + BlockSize
  BY <1>1
<1>4. b * BlockSize <= (NBlocks(s) - 1) * BlockSize
  BY <1>1, <1>2
<1>5. b + 1 < NBlocks(s) => (b + 1) * BlockSize <= (NBlocks(s) - 1) * BlockSize
  BY <1>1, <1>2
<1>6. BlockK(s, b) = IF Size[s] - b * BlockSize <= BlockSize
                     THEN Size[s] - b * BlockSize ELSE BlockSize
  BY <1>1 DEF BlockK, Least
<1>7. b * BlockSize < Size[s] /\ (b + 1 < NBlocks(s) => (b + 1) * BlockSize < Size[s])
  <2>1. (NBlocks(s) - 1) * BlockSize \in Nat /\ (b + 1) * BlockSize \in Nat
    BY <1>1, <1>3
  <2>2. QED
    BY <1>1, <1>3, <1>4, <1>5, <2>1
<1>8. QED
  BY <1>1, <1>3, <1>6, <1>7

LEMMA ParityFacts ==
  ASSUME NEW s \in Sessions
  PROVE  NParity(s) \in Nat
<1> DEFINE k == Least(Size[s], BlockSize)
           r == (k * Percent + 99) \div 100
<1>1. k \in Nat /\ k <= 255 /\ Percent \in Nat
  BY SizeFacts, BlockAssumption DEF Least
<1>2. k * Percent + 99 \in Nat
  BY <1>1
<1>3. r \in Nat
  <2> HIDE DEF k
  <2>1. 100 \in Nat \ {0}
    OBVIOUS
  <2>2. QED
    BY <1>2, <2>1, Division, Zenon
<1> HIDE DEF k, r
<1>4. (IF k + r > 255 THEN 255 - k ELSE r) \in Nat
  BY <1>1, <1>3
<1>5. QED
  BY <1>4, Zenon DEF NParity, k, r

\* The frames of a block follow those of the block before it.
LEMMA FramesFacts ==
  ASSUME NEW s \in Sessions, NEW b \in 0..(NBlocks(s) - 1)
  PROVE  /\ FramesBefore(s, b) \in Nat /\ BlockFrames(s, b) \in Nat
         /\ BlockFrames(s, b) >= BlockK(s, b)
         /\ FramesBefore(s, b + 1) = FramesBefore(s, b) + BlockFrames(s, b)
<1>1. /\ Size[s] \in Nat \ {0} /\ BlockSize \in Nat \ {0} /\ NParity(s) \in Nat
      /\ NBlocks(s) \in Nat
  BY SizeFacts, ParityFacts, NBlocksFacts
<1>2. /\ b * NParity(s) \in Nat /\ (b + 1) * NParity(s) = b * NParity(s) + NParity(s)
  BY <1>1
<1> DEFINE X == b * BlockSize
           P == b * NParity(s)
           k == BlockK(s, b)
<1>3. /\ X \in Nat /\ k \in 1..BlockSize /\ X + k <= Size[s]
      /\ b + 1 < NBlocks(s) => X + BlockSize < Size[s]
      /\ b + 1 = NBlocks(s) => Size[s] <= X + BlockSize
      /\ k = IF Size[s] - X <= BlockSize THEN Size[s] - X ELSE BlockSize
  BY BlockFacts
<1>4. /\ FramesBefore(s, b) = (IF X <= Size[s] THEN X ELSE Size[s]) + P
      /\ FramesBefore(s, b + 1) =
           (IF X + BlockSize <= Size[s] THEN X + BlockSize ELSE Size[s]) + (P + NParity(s))
      /\ BlockFrames(s, b) = k + NParity(s)
  BY <1>2, BlockFacts DEF FramesBefore, BlockFrames, Least
<1> HIDE DEF X, P, k
<1>5. QED
  BY <1>1, <1>2, <1>3, <1>4 DEF P, k

LEMMA FramesMonotone ==
  ASSUME NEW s \in Sessions, NEW a \in 0..NBlocks(s), NEW b \in 0..NBlocks(s), a <= b
  PROVE  FramesBefore(s, a) <= FramesBefore(s, b)
         /\ FramesBefore(s, a) \in Nat /\ FramesBefore(s, b) \in Nat
<1>1. /\ Size[s] \in Nat \ {0} /\ BlockSize \in Nat \ {0} /\ NParity(s) \in Nat
      /\ NBlocks(s) \in Nat
  BY SizeFacts, ParityFacts, NBlocksFacts
<1>2. a \in Nat /\ b \in Nat
  BY <1>1
<1>3. \A m \in Nat : a * m \in Nat /\ b * m \in Nat /\ a * m <= b * m
  BY <1>2
<1>4. /\ a * BlockSize \in Nat /\ b * BlockSize \in Nat /\ a * BlockSize <= b * BlockSize
      /\ a * NParity(s) \in Nat /\ b * NParity(s) \in Nat /\ a * NParity(s) <= b * NParity(s)
  BY <1>1, <1>3
<1>5. QED
  BY <1>1, <1>4 DEF FramesBefore, Least

\* The chunks of block b.
LEMMA PlaceOfChunk ==
  ASSUME NEW s \in Sessions, NEW b \in 0..(NBlocks(s) - 1), NEW i \in 0..(BlockK(s, b) - 1)
  PROVE  /\ b * BlockSize + i \in Chunks(s)
         /\ (b * BlockSize + i) \div BlockSize = b /\ (b * BlockSize + i) % BlockSize = i
<1>1. /\ b * BlockSize \in Nat /\ BlockK(s, b) \in 1..BlockSize
      /\ b * BlockSize + BlockK(s, b) <= Size[s] /\ Size[s] \in Nat /\ BlockSize \in Nat \ {0}
      /\ b \in Nat
  BY BlockFacts, SizeFacts
<1>2. i \in 0..(BlockSize - 1)
  BY <1>1
<1>3. (b * BlockSize + i) \div BlockSize = b /\ (b * BlockSize + i) % BlockSize = i
  BY <1>1, <1>2, DivisionUnique, Zenon
<1>4. QED
  BY <1>1, <1>3 DEF Chunks

LEMMA ChunkOfPlace ==
  ASSUME NEW s \in Sessions, NEW c \in Chunks(s)
  PROVE  /\ c \div BlockSize \in 0..(NBlocks(s) - 1)
         /\ c % BlockSize \in 0..(BlockK(s, c \div BlockSize) - 1)
         /\ c = (c \div BlockSize) * BlockSize + (c % BlockSize)
<1> DEFINE b == c \div BlockSize
           i == c % BlockSize
<1>1. /\ Size[s] \in Nat \ {0} /\ BlockSize \in Nat \ {0} /\ NBlocks(s) \in Nat \ {0}
      /\ Size[s] <= NBlocks(s) * BlockSize /\ c \in Nat /\ c < Size[s]
  BY SizeFacts, NBlocksFacts DEF Chunks
<1>2. b \in Nat /\ i \in 0..(BlockSize - 1) /\ c = BlockSize * b + i
  BY <1>1, Division, Zenon
<1> HIDE DEF b, i
<1>3. b < NBlocks(s)
  <2> SUFFICES ASSUME b >= NBlocks(s) PROVE FALSE
    BY <1>1, <1>2
  <2>1. BlockSize * b >= NBlocks(s) * BlockSize
    BY <1>1, <1>2
  <2>2. QED
    BY <1>1, <1>2, <2>1
<1>4. b \in 0..(NBlocks(s) - 1)
  BY <1>1, <1>2, <1>3
<1>5. /\ b * BlockSize \in Nat /\ b * BlockSize = BlockSize * b
      /\ BlockK(s, b) = IF Size[s] - b * BlockSize <= BlockSize
                        THEN Size[s] - b * BlockSize ELSE BlockSize
  BY <1>1, <1>2, <1>4, BlockFacts
<1>6. i < BlockK(s, b)
  BY <1>1, <1>2, <1>5
<1>7. BlockK(s, b) \in Nat
  BY <1>4, BlockFacts
<1>8. i \in 0..(BlockK(s, b) - 1) /\ c = b * BlockSize + i
  BY <1>2, <1>5, <1>6, <1>7
<1>9. QED
  BY <1>4, <1>8 DEF b, i
(***************************************************************************)
(* The invariant.  One chunk frame is on the air at a time, and the sender *)
(* has just left its place; so a receiver of this image stands at no later *)
(* block and has counted no later ordinal, enters every block once, and    *)
(* counts it once.                                                         *)
(***************************************************************************)
Sealed ==
  \/ MacControl /\ MacData
  \/ Len(Size) = 1

FrameAt(s, b, i) ==
  IF i < BlockK(s, b) THEN Data(s, b * BlockSize + i)
  ELSE Parity(s, b * NParity(s) + (i - BlockK(s, b)))

SenderInv ==
  /\ phase \in {"idle", "meta", "chunks", "fin"}
  /\ ses \in 0..Len(Size) /\ left \in 0..3 /\ since \in 0..MetaEvery
  /\ blk \in Nat /\ idx \in Nat /\ calm \in BOOLEAN /\ spare \in Nat
  /\ phase # "idle" => ses # 0
  /\ phase \in {"meta", "fin"} => left > 0
  /\ phase = "chunks" => \/ blk = NBlocks(ses) /\ idx = 0
                         \/ blk < NBlocks(ses) /\ idx < BlockFrames(ses, blk)

\* The frame of place <<b, i>> is on the air, and the sender's loop has passed it.
OnAir(b, i) ==
  /\ ses # 0 /\ phase = "chunks"
  /\ b \in 0..(NBlocks(ses) - 1) /\ i \in 0..(BlockFrames(ses, b) - 1)
  /\ dn = FrameAt(ses, b, i)
  /\ \/ blk = b /\ idx = i + 1
     \/ blk = b + 1 /\ idx = 0 /\ i + 1 = BlockFrames(ses, b)

AirInv == \/ dn = None
          \/ dn \in {Meta(ses), Fin(ses)} /\ ses # 0
          \/ \E b, i \in Nat : OnAir(b, i)

RxFields == {"cur", "held", "elapsed", "have", "lost", "file", "entered", "carried"}

\* The receiver's context, with as many bits and counts as the image allows.
Context(r) ==
  /\ RxFields \subseteq DOMAIN r
  /\ r.cur \in 0..(NBlocks(meta) - 1)
  /\ r.lost \in Nat /\ r.carried \in Nat
  /\ r.elapsed \in 0..FramesBefore(meta, NBlocks(meta))
  /\ r.entered \subseteq 0..r.cur
  /\ DOMAIN r.held \subseteq 0..(BlockFrames(meta, r.cur) - 1)
  /\ \A i \in DOMAIN r.held : r.held[i] = meta
  /\ ~Buffered => DOMAIN r.held \subseteq Sources(r.cur)

Stored(r) == {c \in DOMAIN r.file : r.file[c] # 0}

\* The file, the counters and the blocks entered before block b agree.
FileInv(r, b) ==
  /\ r.file \in [Chunks(meta) -> {0, meta}]
  /\ r.have = Cardinality(Stored(r))
  /\ r.lost > 0 /\ r.carried = 0 =>
       \E c \in Chunks(meta) : c \div BlockSize < b /\ r.file[c] = 0
  /\ r.lost = 0 => \A e \in r.entered : e < b =>
       \A c \in ChunksOfBlock(meta, e) : r.file[c] = meta

\* Of the current block the file has these chunks, of the later ones none.
Filled(r, got) ==
  \A c \in Chunks(meta) :
    /\ c \div BlockSize > r.cur => r.file[c] = 0
    /\ c \div BlockSize = r.cur => (r.file[c] # 0 <=> c % BlockSize \in got)

WrittenAtOnce(r) == IF Buffered THEN {} ELSE DOMAIN r.held
ImageInv(r) == Context(r) /\ FileInv(r, r.cur) /\ Filled(r, WrittenAtOnce(r))
FlushedInv(r, got) == Context(r) /\ FileInv(r, r.cur + 1) /\ Filled(r, got)

Behind(r, b, i) == r.cur <= b /\ r.elapsed <= FramesBefore(meta, b) + i

\* A receiver of the image being sent is not ahead of the sender, nor of the
\* frame on the air.
ReachedInv ==
  meta = ses =>
    /\ phase = "meta" => rx.cur = 0 /\ rx.elapsed = 0
    /\ phase = "chunks" => Behind(rx, blk, idx)
    /\ \A b, i \in Nat : OnAir(b, i) => Behind(rx, b, i)

ReceiverInv ==
  /\ meta \in 0..ses
  /\ meta = 0 => {rx.cur, rx.have, rx.lost, rx.elapsed, rx.carried} \subseteq Nat
  /\ meta # 0 => /\ ImageInv(rx) /\ ReachedInv
                 /\ Buffered => Recoverable(rx)

LastInv ==
  /\ last.result \in Results /\ last.ses \in 0..Len(Size)
  /\ VerdictIsExact /\ WritesOut

BroadcastInv == SenderInv /\ AirInv /\ ReceiverInv /\ LastInv

\* Where the receiver finds a frame of its own image.
LEMMA PlaceOfFrame ==
  ASSUME meta \in Sessions, NEW b \in 0..(NBlocks(meta) - 1),
         NEW i \in 0..(BlockFrames(meta, b) - 1), NEW f, f = FrameAt(meta, b, i)
  PROVE  /\ IsChunk(f) /\ f.ses = meta /\ f # None
         /\ BlockOf(f) = b /\ Slot(f) = i
         /\ Ordinal(f) = FramesBefore(meta, b) + i
         /\ f.type # "PARITY" => i < BlockK(meta, b) /\ f.seq = b * BlockSize + i
<1>1. /\ b \in Nat /\ i \in Nat /\ BlockSize \in Nat \ {0} /\ BlockK(meta, b) \in 1..BlockSize
      /\ NParity(meta) \in Nat /\ b * BlockSize \in Nat
      /\ BlockFrames(meta, b) = BlockK(meta, b) + NParity(meta)
  BY NBlocksFacts, FramesFacts, BlockFacts, ParityFacts, SizeFacts DEF BlockFrames
<1>2. CASE i < BlockK(meta, b)
  <2>1. i \in 0..(BlockSize - 1)
    BY <1>1, <1>2
  <2>2. (b * BlockSize + i) \div BlockSize = b /\ (b * BlockSize + i) % BlockSize = i
    BY <1>1, <2>1, DivisionUnique, Zenon
  <2>3. f = [type |-> "DATA", ses |-> meta, seq |-> b * BlockSize + i]
    BY <1>2 DEF FrameAt, Data
  <2>4. BlockOf(f) = b /\ Slot(f) = i
    BY <2>2, <2>3 DEF BlockOf, Slot
  <2>5. QED
    BY <1>2, <2>3, <2>4 DEF Ordinal, IsChunk, None
<1>3. CASE ~(i < BlockK(meta, b))
  <2> DEFINE j == i - BlockK(meta, b)
             p == NParity(meta)
  <2>1. p \in Nat \ {0} /\ j \in 0..(p - 1)
    BY <1>1, <1>3
  <2>2. (b * p + j) \div p = b /\ (b * p + j) % p = j
    BY <1>1, <2>1, DivisionUnique, Zenon
  <2>3. f = [type |-> "PARITY", ses |-> meta, seq |-> b * p + j]
    BY <1>3 DEF FrameAt, Parity
  <2> HIDE DEF p
  <2>4. BlockOf(f) = b /\ Slot(f) = BlockK(meta, b) + j
    BY <2>2, <2>3 DEF BlockOf, Slot, p
  <2>5. BlockK(meta, b) + j = i
    BY <1>1
  <2>6. QED
    BY <2>3, <2>4, <2>5 DEF Ordinal, IsChunk, None
<1>4. QED
  BY <1>2, <1>3

LEMMA HeldFacts ==
  ASSUME meta \in Sessions, NEW r, Context(r)
  PROVE  /\ IsFiniteSet(DOMAIN r.held) /\ HaveInBlock(r) \in Nat
         /\ DOMAIN r.held \in SUBSET Int
<1>1. /\ r.cur \in 0..(NBlocks(meta) - 1)
      /\ DOMAIN r.held \subseteq 0..(BlockFrames(meta, r.cur) - 1)
  BY DEF Context
<1>2. 0 \in Int /\ BlockFrames(meta, r.cur) - 1 \in Int
  BY <1>1, FramesFacts
<1>3. IsFiniteSet(0..(BlockFrames(meta, r.cur) - 1))
  BY <1>2, FS_Interval, Zenon
<1>4. IsFiniteSet(DOMAIN r.held)
  BY <1>1, <1>3, FS_Subset
<1>5. QED
  BY <1>1, <1>4, FS_CardinalityType DEF HaveInBlock

\* loraitp_fec_decode() on frames of one session gives that session's chunks.
LEMMA DecodedFacts ==
  ASSUME meta \in Sessions, NEW r, Context(r), NEW i,
         i \in DOMAIN r.held \/ HaveInBlock(r) >= BlockK(meta, r.cur)
  PROVE  Decoded(r, i) = meta
<1>1. CASE i \in DOMAIN r.held
  BY <1>1 DEF Decoded, Context
<1>2. CASE i \notin DOMAIN r.held
  <2> DEFINE k == BlockK(meta, r.cur)
             origins == {r.held[j] : j \in FirstHeld(r)}
  <2>1. k \in Nat \ {0} /\ HaveInBlock(r) >= k
    BY <1>2, BlockFacts, SizeFacts DEF Context
  <2>2. Cardinality(FirstHeld(r)) = k
    <3>1. /\ DOMAIN r.held \in SUBSET Int /\ IsFiniteSet(DOMAIN r.held)
          /\ Cardinality(DOMAIN r.held) >= k /\ k \in Nat
      BY <2>1, HeldFacts DEF HaveInBlock
    <3>2. QED
      BY <3>1, FirstMembers, Zenon DEF FirstHeld
  <2>3. FirstHeld(r) \subseteq DOMAIN r.held
    BY DEF FirstHeld
  <2>4. FirstHeld(r) # {}
    BY <2>1, <2>2, FS_EmptySet
  <2>5. origins = {meta}
    BY <2>3, <2>4 DEF Context
  <2>6. Cardinality(origins) = 1
    BY <2>5, FS_Singleton, Zenon
  <2>7. (CHOOSE s \in origins : TRUE) = meta
    BY <2>5
  <2> HIDE DEF origins, k
  <2>8. QED
    BY <1>2, <2>2, <2>6, <2>7 DEF Decoded, origins, k
<1>3. QED
  BY <1>1, <1>2

LEMMA StoredFinite ==
  ASSUME meta \in Sessions, NEW r, r.file \in [Chunks(meta) -> {0, meta}]
  PROVE  /\ IsFiniteSet(Stored(r)) /\ Cardinality(Stored(r)) \in 0..Size[meta]
         /\ Stored(r) \subseteq Chunks(meta)
         /\ Cardinality(Stored(r)) = Size[meta] <=> Stored(r) = Chunks(meta)
<1>1. IsFiniteSet(Chunks(meta)) /\ Cardinality(Chunks(meta)) = Size[meta]
      /\ Stored(r) \in SUBSET Chunks(meta) /\ Size[meta] \in Nat
  BY SizeFacts DEF Stored
<1>2. IsFiniteSet(Stored(r)) /\ Cardinality(Stored(r)) \in Nat
  BY <1>1, FS_Subset, FS_CardinalityType
<1>3. Cardinality(Stored(r)) <= Size[meta]
      /\ (Cardinality(Stored(r)) = Size[meta] => Stored(r) = Chunks(meta))
  BY <1>1, FS_Subset
<1>4. QED
  BY <1>1, <1>2, <1>3

\* flush_block() takes exactly what it has of the block to the file, and says
\* whether that was all.
LEMMA FlushFacts ==
  ASSUME meta \in Sessions, NEW r, ImageInv(r)
  PROVE  /\ FlushedInv(Flush(r), Restored(r))
         /\ Flush(r).cur = r.cur /\ Flush(r).held = r.held
         /\ Flush(r).elapsed = r.elapsed /\ Flush(r).entered = r.entered
<1> DEFINE got == Restored(r)
           f == Flush(r)
           written == [c \in DOMAIN r.file |->
                         IF c \div BlockSize = r.cur /\ c % BlockSize \in got
                         THEN Decoded(r, c % BlockSize) ELSE r.file[c]]
           file == IF Buffered THEN written ELSE r.file
<1>1. /\ f.cur = r.cur /\ f.held = r.held /\ f.elapsed = r.elapsed
      /\ f.have = Counted(r, got) /\ f.lost = LostCount(r, got) /\ f.file = file
      /\ f.entered = r.entered /\ f.carried = r.carried
      /\ RxFields \subseteq DOMAIN f
  <2>1. RxFields \subseteq DOMAIN r
    BY DEF ImageInv, Context
  <2> HIDE DEF got
  <2>2. QED
    BY <2>1, Zenon DEF Flush, RxFields, got
<1>2. /\ f.cur = r.cur /\ f.held = r.held /\ f.elapsed = r.elapsed
      /\ f.have = Counted(r, got) /\ f.lost = LostCount(r, got) /\ f.file = file
      /\ f.entered = r.entered /\ f.carried = r.carried
  BY <1>1
<1> HIDE DEF f
<1>3. /\ Context(r) /\ r.cur \in 0..(NBlocks(meta) - 1) /\ r.lost \in Nat
      /\ r.file \in [Chunks(meta) -> {0, meta}] /\ meta # 0 /\ r.entered \subseteq 0..r.cur
      /\ DOMAIN r.file = Chunks(meta)
  BY DEF ImageInv, Context, FileInv, Sessions
<1>4. got \subseteq Sources(r.cur)
  BY DEF Restored
<1>5. Context(f)
  <2>1. LostCount(r, got) \in Nat
    BY <1>3 DEF LostCount
  <2> HIDE DEF got, file
  <2>2. QED
    BY <1>1, <1>3, <2>1 DEF Context
<1>6. \A i \in got : Decoded(r, i) = meta
  BY <1>3, DecodedFacts DEF Restored
<1>7. file \in [Chunks(meta) -> {0, meta}]
  BY <1>3, <1>6
<1>8. ~Buffered => got = DOMAIN r.held
  BY <1>3 DEF Restored, Context
<1>9. \A c \in Chunks(meta) :
        /\ c \div BlockSize # r.cur => file[c] = r.file[c]
        /\ c \div BlockSize = r.cur => (file[c] # 0 <=> c % BlockSize \in got)
        /\ c \div BlockSize > r.cur => r.file[c] = 0
        /\ Buffered /\ c \div BlockSize = r.cur => r.file[c] = 0
  <2>1. CASE Buffered
    BY <1>3, <1>6, <2>1 DEF ImageInv, Filled, WrittenAtOnce
  <2>2. CASE ~Buffered
    BY <1>3, <1>8, <2>2 DEF ImageInv, Filled, WrittenAtOnce
  <2>3. QED
    BY <2>1, <2>2
<1> HIDE DEF got
<1>10. \A c \in Chunks(meta) : c \div BlockSize \in Nat
  BY ChunkOfPlace
<1>11. Filled(f, got)
  <2>1. \A c \in Chunks(meta) : c \div BlockSize > r.cur => c \div BlockSize # r.cur
    BY <1>3, <1>10
  <2> HIDE DEF file
  <2>2. QED
    BY <1>2, <1>9, <2>1 DEF Filled
<1>12. f.have = Cardinality(Stored(f))
  <2>1. CASE ~Buffered
    BY <1>2, <2>1 DEF Counted, Stored, ImageInv, FileInv
  <2>2. CASE Buffered
    <3> DEFINE d == r.cur * BlockSize
               new == {d + i : i \in got}
    <3>1. d \in Int /\ got \in SUBSET Int /\ IsFiniteSet(got)
      <4>1. d \in Nat /\ BlockK(meta, r.cur) \in Nat
        BY <1>3, BlockFacts, SizeFacts
      <4>2. IsFiniteSet(0..(BlockK(meta, r.cur) - 1))
        <5>1. 0 \in Int /\ BlockK(meta, r.cur) - 1 \in Int
          BY <4>1
        <5>2. QED
          BY <5>1, FS_Interval, Zenon
      <4>3. got \in SUBSET (0..(BlockK(meta, r.cur) - 1)) /\ d \in Int
        BY <1>4, <4>1 DEF Sources
      <4>4. \A i \in 0..(BlockK(meta, r.cur) - 1) : i \in Int
        BY <4>1
      <4>5. IsFiniteSet(got)
        BY <4>2, <4>3, FS_Subset
      <4> HIDE DEF d
      <4>6. QED
        BY <4>3, <4>4, <4>5
    <3>2. IsFiniteSet(new) /\ Cardinality(new) = Cardinality(got)
      BY <3>1, Shifted, Zenon
    <3>3. new = {c \in Chunks(meta) : c \div BlockSize = r.cur /\ c % BlockSize \in got}
      <4>1. \A i \in got : /\ d + i \in Chunks(meta) /\ (d + i) \div BlockSize = r.cur
                           /\ (d + i) % BlockSize = i
        BY <1>3, <1>4, PlaceOfChunk DEF Sources
      <4>2. \A c \in Chunks(meta) :
              c \div BlockSize = r.cur => c = d + (c % BlockSize)
        BY ChunkOfPlace
      <4> HIDE DEF d
      <4>3. QED
        BY <4>1, <4>2
    <3>4. Stored(f) = Stored(r) \cup new
      <4> HIDE DEF new
      <4>1. \A c \in Chunks(meta) : file[c] # 0 <=> (r.file[c] # 0 \/ c \in new)
        <5> HIDE DEF file
        <5>1. QED
          BY <1>9, <2>2, <3>3
      <4>2. DOMAIN file = Chunks(meta)
        BY <1>7
      <4> HIDE DEF file
      <4>3. QED
        BY <1>2, <1>3, <3>3, <4>1, <4>2 DEF Stored
    <3>5. Stored(r) \cap new = {}
      BY <1>9, <2>2, <3>3 DEF Stored
    <3>6. IsFiniteSet(Stored(r)) /\ Cardinality(Stored(r)) \in Nat
          /\ r.have = Cardinality(Stored(r))
      BY <1>3, StoredFinite DEF ImageInv, FileInv
    <3> HIDE DEF new
    <3>7. Cardinality(Stored(f)) = Cardinality(Stored(r)) + Cardinality(new) - Cardinality({})
      BY <3>2, <3>4, <3>5, <3>6, FS_Union
    <3>8. Cardinality(got) \in Nat
      BY <3>1, FS_CardinalityType
    <3>9. QED
      BY <1>2, <2>2, <3>2, <3>6, <3>7, <3>8, FS_EmptySet DEF Counted
  <2>3. QED
    BY <2>1, <2>2
<1>13. ASSUME f.lost > 0, f.carried = 0
       PROVE  \E c \in Chunks(meta) : c \div BlockSize < r.cur + 1 /\ f.file[c] = 0
  <2>1. CASE got = Sources(r.cur)
    <3>1. r.lost > 0 /\ r.carried = 0
      BY <1>2, <1>13, <2>1 DEF LostCount
    <3>2. PICK c \in Chunks(meta) : c \div BlockSize < r.cur /\ r.file[c] = 0
      BY <3>1 DEF ImageInv, FileInv
    <3>3. c \div BlockSize # r.cur /\ c \div BlockSize < r.cur + 1
      BY <1>3, <1>10, <3>2
    <3> HIDE DEF file
    <3>4. QED
      BY <1>2, <1>9, <3>2, <3>3
  <2>2. CASE got # Sources(r.cur)
    <3>1. PICK i \in Sources(r.cur) : i \notin got
      BY <1>4, <2>2
    <3> DEFINE c == r.cur * BlockSize + i
    <3>2. c \in Chunks(meta) /\ c \div BlockSize = r.cur /\ c % BlockSize = i
      BY <1>3, PlaceOfChunk DEF Sources
    <3> HIDE DEF c, file
    <3>3. f.file[c] = 0
      BY <1>2, <1>9, <3>1, <3>2
    <3>4. r.cur < r.cur + 1
      BY <1>3
    <3>5. QED
      BY <3>2, <3>3, <3>4
  <2>3. QED
    BY <2>1, <2>2
<1>14. ASSUME f.lost = 0, NEW e \in r.entered, e < r.cur + 1,
              NEW c \in ChunksOfBlock(meta, e)
       PROVE  f.file[c] = meta
  <2>1. got = Sources(r.cur) /\ r.lost = 0
    BY <1>2, <1>3, <1>14 DEF LostCount
  <2>2. c \in Chunks(meta) /\ c \div BlockSize = e
    BY DEF ChunksOfBlock
  <2>3. CASE e = r.cur
    <3>1. c % BlockSize \in got
      BY <2>1, <2>2, <2>3, ChunkOfPlace DEF Sources
    <3>2. file[c] # 0
      <4> HIDE DEF file
      <4>1. QED
        BY <1>9, <2>2, <2>3, <3>1
    <3> HIDE DEF file
    <3>3. QED
      BY <1>2, <1>7, <2>2, <3>2
  <2>4. CASE e # r.cur
    <3>1. e < r.cur
      BY <1>3, <2>4
    <3>2. r.file[c] = meta
      BY <2>1, <3>1 DEF ImageInv, FileInv
    <3> HIDE DEF file
    <3>3. QED
      BY <1>2, <1>9, <2>2, <2>4, <3>2
  <2>5. QED
    BY <2>3, <2>4
<1>15. FileInv(f, f.cur + 1)
  <2> HIDE DEF file
  <2>1. QED
    BY <1>2, <1>7, <1>12, <1>13, <1>14 DEF FileInv
<1>16. QED
  BY <1>2, <1>5, <1>11, <1>15 DEF FlushedInv, f, got

\* A new image: nothing held, nothing stored, and nothing sent yet.
LEMMA OpenedFacts ==
  ASSUME meta \in Sessions, NEW lost \in Nat, NEW r, r = Opened(meta, lost)
  PROVE  ImageInv(r) /\ Recoverable(r) /\ r.cur = 0 /\ r.elapsed = 0
<1>1. /\ r.cur = 0 /\ r.held = NoFile /\ r.elapsed = 0 /\ r.have = 0 /\ r.lost = lost
      /\ r.file = [c \in Chunks(meta) |-> 0] /\ r.entered = {0} /\ r.carried = lost
      /\ RxFields \subseteq DOMAIN r
  BY DEF Opened, RxFields
<1>2. /\ 0 \in 0..(NBlocks(meta) - 1) /\ NBlocks(meta) \in 0..NBlocks(meta)
      /\ DOMAIN NoFile = {}
  BY NBlocksFacts DEF NoFile
<1>3. /\ FramesBefore(meta, NBlocks(meta)) \in Nat /\ FramesBefore(meta, 0) \in Nat
      /\ BlockFrames(meta, 0) \in Nat /\ BlockFrames(meta, 0) >= BlockK(meta, 0)
      /\ BlockK(meta, 0) \in Nat
  BY <1>2, FramesMonotone, FramesFacts, BlockFacts, SizeFacts
<1>4. Context(r)
  BY <1>1, <1>2, <1>3 DEF Context
<1>5. Stored(r) = {}
  BY <1>1 DEF Stored
<1>6. FileInv(r, r.cur)
  <2>1. r.file \in [Chunks(meta) -> {0, meta}] /\ r.have = Cardinality(Stored(r))
    BY <1>1, <1>5, FS_EmptySet
  <2>2. ~(r.lost > 0 /\ r.carried = 0) /\ \A e \in r.entered : ~(e < r.cur)
    BY <1>1
  <2>3. QED
    BY <2>1, <2>2 DEF FileInv
<1>7. Filled(r, WrittenAtOnce(r))
  BY <1>1, <1>2 DEF Filled, WrittenAtOnce
<1>8. Recoverable(r)
  <2>1. FramesSent(r) = 0 /\ HaveInBlock(r) = 0
    BY <1>1, <1>2, <1>3, FS_EmptySet DEF FramesSent, HaveInBlock
  <2>2. QED
    BY <1>1, <1>3, <2>1 DEF Recoverable
<1>9. QED
  BY <1>1, <1>4, <1>6, <1>7, <1>8 DEF ImageInv

\* Taking note of an ordinal, no higher than the image has frames.
LEMMA PassedFacts ==
  ASSUME meta \in Sessions, NEW r, ImageInv(r), NEW f,
         Ordinal(f) \in Nat, Ordinal(f) + 1 <= FramesBefore(meta, NBlocks(meta))
  PROVE  /\ ImageInv(Passed(r, f)) /\ Passed(r, f).cur = r.cur
         /\ Passed(r, f).elapsed = IF Ordinal(f) >= r.elapsed THEN Ordinal(f) + 1
                                   ELSE r.elapsed
<1> DEFINE p == Passed(r, f)
           e == IF Ordinal(f) >= r.elapsed THEN Ordinal(f) + 1 ELSE r.elapsed
<1>1. /\ p.cur = r.cur /\ p.held = r.held /\ p.elapsed = e /\ p.have = r.have
      /\ p.lost = r.lost /\ p.file = r.file /\ p.entered = r.entered
      /\ p.carried = r.carried /\ RxFields \subseteq DOMAIN p
  <2>1. RxFields \subseteq DOMAIN r
    BY DEF ImageInv, Context
  <2>2. QED
    BY <2>1, Zenon DEF Passed, RxFields
<1>2. e \in 0..FramesBefore(meta, NBlocks(meta))
  BY DEF ImageInv, Context
<1> HIDE DEF p, e
<1>3. Context(p)
  BY <1>1, <1>2 DEF ImageInv, Context
<1>4. FileInv(p, p.cur) /\ Filled(p, WrittenAtOnce(p))
  BY <1>1 DEF ImageInv, FileInv, Filled, Stored, WrittenAtOnce
<1>5. QED
  BY <1>1, <1>3, <1>4 DEF ImageInv, p, e

\* Leaving a block for a later one.
LEMMA TurnFacts ==
  ASSUME meta \in Sessions, NEW r, ImageInv(r),
         NEW b \in 0..(NBlocks(meta) - 1), r.cur <= b
  PROVE  ImageInv(Turn(r, b)) /\ Turn(r, b).cur = b /\ Turn(r, b).elapsed = r.elapsed
<1>1. CASE b = r.cur
  BY <1>1 DEF Turn
<1>2. CASE b # r.cur
  <2> DEFINE f == Flush(r)
             t == Turn(r, b)
  <2>1. /\ FlushedInv(f, Restored(r)) /\ f.cur = r.cur /\ f.elapsed = r.elapsed
        /\ f.entered = r.entered
    BY FlushFacts
  <2> HIDE DEF f
  <2>2. /\ t.cur = b /\ t.held = NoFile /\ t.elapsed = f.elapsed /\ t.have = f.have
        /\ t.lost = f.lost /\ t.file = f.file /\ t.entered = r.entered \cup {b}
        /\ t.carried = f.carried /\ RxFields \subseteq DOMAIN t
    <3>1. RxFields \subseteq DOMAIN f
      BY <2>1 DEF FlushedInv, Context
    <3>2. QED
      BY <1>2, <3>1, Zenon DEF Turn, RxFields, f
  <2> HIDE DEF t
  <2>3. r.cur \in Nat /\ b \in Nat /\ r.cur < b
    BY <1>2, NBlocksFacts DEF ImageInv, Context
  <2>4. Context(t)
    BY <2>1, <2>2, <2>3 DEF Context, FlushedInv, NoFile
  <2>5. \A c \in Chunks(meta) : c \div BlockSize \in Nat
    BY ChunkOfPlace
  <2>6. FileInv(t, b)
    <3>1. t.file \in [Chunks(meta) -> {0, meta}] /\ t.have = Cardinality(Stored(t))
      BY <2>1, <2>2 DEF FlushedInv, FileInv, Stored
    <3>2. t.lost > 0 /\ t.carried = 0 =>
            \E c \in Chunks(meta) : c \div BlockSize < b /\ t.file[c] = 0
      BY <2>1, <2>2, <2>3, <2>5 DEF FlushedInv, FileInv
    <3>3. \A e \in t.entered : e < b => e \in r.entered /\ e < r.cur + 1
      BY <2>1, <2>2, <2>3 DEF FlushedInv, Context
    <3>4. QED
      BY <2>1, <2>2, <3>1, <3>2, <3>3 DEF FlushedInv, FileInv
  <2>7. Filled(t, WrittenAtOnce(t))
    <3>1. \A c \in Chunks(meta) : c \div BlockSize >= b => t.file[c] = 0
      BY <2>1, <2>2, <2>3, <2>5 DEF FlushedInv, Filled
    <3>2. WrittenAtOnce(t) = {}
      BY <2>2 DEF WrittenAtOnce, NoFile
    <3>3. QED
      BY <2>2, <2>3, <2>5, <3>1, <3>2 DEF Filled
  <2>8. QED
    BY <2>1, <2>2, <2>4, <2>6, <2>7 DEF ImageInv, t
<1>3. QED
  BY <1>1, <1>2

\* Taking in a frame of the current block, parity only into a buffer.
LEMMA KeepFacts ==
  ASSUME meta \in Sessions, NEW r, ImageInv(r), NEW f, f.ses = meta,
         Slot(f) \in 0..(BlockFrames(meta, r.cur) - 1),
         ~Buffered => /\ Slot(f) \in Sources(r.cur)
                      /\ f.seq = r.cur * BlockSize + Slot(f)
  PROVE  /\ ImageInv(Keep(r, f)) /\ Keep(r, f).cur = r.cur
         /\ Keep(r, f).elapsed = r.elapsed
<1> DEFINE slot == Slot(f)
           kept == [i \in DOMAIN r.held \cup {slot} |->
                      IF i = slot THEN f.ses ELSE r.held[i]]
           q == Keep(r, f)
<1>1. /\ RxFields \subseteq DOMAIN r /\ r.cur \in 0..(NBlocks(meta) - 1)
      /\ r.file \in [Chunks(meta) -> {0, meta}] /\ DOMAIN r.file = Chunks(meta)
      /\ meta # 0 /\ r.have = Cardinality(Stored(r))
  BY DEF ImageInv, Context, FileInv, Sessions
<1>2. /\ DOMAIN kept = DOMAIN r.held \cup {slot}
      /\ \A i \in DOMAIN kept : kept[i] = meta
  BY DEF ImageInv, Context
<1>3. CASE Buffered
  <2>1. /\ q.cur = r.cur /\ q.held = kept /\ q.elapsed = r.elapsed /\ q.have = r.have
        /\ q.lost = r.lost /\ q.file = r.file /\ q.entered = r.entered
        /\ q.carried = r.carried /\ RxFields \subseteq DOMAIN q
    BY <1>1, <1>3, Zenon DEF Keep, RxFields
  <2> HIDE DEF q, kept
  <2>2. Context(q)
    BY <1>2, <1>3, <2>1 DEF ImageInv, Context
  <2>3. FileInv(q, q.cur) /\ Filled(q, WrittenAtOnce(q))
    BY <1>3, <2>1 DEF ImageInv, FileInv, Filled, Stored, WrittenAtOnce
  <2>4. QED
    BY <2>1, <2>2, <2>3 DEF ImageInv, q
<1>4. CASE ~Buffered /\ slot \in DOMAIN r.held
  BY <1>4 DEF Keep
<1>5. CASE ~Buffered /\ slot \notin DOMAIN r.held
  <2> DEFINE file == [c \in DOMAIN r.file \cup {f.seq} |->
                        IF c = f.seq THEN f.ses ELSE r.file[c]]
  <2>1. /\ q.cur = r.cur /\ q.held = kept /\ q.elapsed = r.elapsed /\ q.have = r.have + 1
        /\ q.lost = r.lost /\ q.file = file /\ q.entered = r.entered
        /\ q.carried = r.carried /\ RxFields \subseteq DOMAIN q
    BY <1>1, <1>5, Zenon DEF Keep, RxFields
  <2>2. /\ f.seq \in Chunks(meta) /\ f.seq \div BlockSize = r.cur
        /\ f.seq % BlockSize = slot
    BY <1>1, <1>5, PlaceOfChunk DEF Sources
  <2>3. \A c \in Chunks(meta) :
          c \div BlockSize = r.cur /\ c % BlockSize = slot => c = f.seq
    <3>1. \A c \in Chunks(meta) : c = (c \div BlockSize) * BlockSize + (c % BlockSize)
      BY ChunkOfPlace
    <3>2. QED
      BY <1>5, <3>1
  <2> HIDE DEF q, kept, slot
  <2>4. r.file[f.seq] = 0
    BY <1>5, <2>2 DEF ImageInv, Filled, WrittenAtOnce
  <2>5. /\ file \in [Chunks(meta) -> {0, meta}] /\ file[f.seq] = meta
        /\ \A c \in Chunks(meta) : c # f.seq => file[c] = r.file[c]
    BY <1>1, <2>2
  <2> HIDE DEF file
  <2>6. Stored(q) = Stored(r) \cup {f.seq} /\ f.seq \notin Stored(r)
    <3>1. DOMAIN q.file = Chunks(meta) /\ q.file = file
      BY <2>1, <2>5
    <3>2. QED
      BY <1>1, <2>2, <2>4, <2>5, <3>1 DEF Stored
  <2>7. Cardinality(Stored(q)) = Cardinality(Stored(r)) + 1
    <3>1. IsFiniteSet(Stored(r))
      BY <1>1, StoredFinite
    <3>2. QED
      BY <2>6, <3>1, FS_AddElement
  <2>8. Context(q)
    BY <1>2, <1>5, <2>1 DEF ImageInv, Context, slot
  <2>9. r.cur \in Nat
    BY <1>1
  <2>10. FileInv(q, q.cur)
    <3>1. \A c \in Chunks(meta) : c \div BlockSize < r.cur => c # f.seq
      BY <2>2, <2>9
    <3>2. \A e \in r.entered : e < r.cur => e # r.cur
      BY <2>9
    <3>3. \A e \in r.entered : e < r.cur =>
            \A c \in ChunksOfBlock(meta, e) : c \in Chunks(meta) /\ c # f.seq
      BY <2>2, <3>2 DEF ChunksOfBlock
    <3>4. q.lost > 0 /\ q.carried = 0 =>
            \E c \in Chunks(meta) : c \div BlockSize < q.cur /\ q.file[c] = 0
      BY <2>1, <2>5, <3>1 DEF ImageInv, FileInv
    <3>5. q.lost = 0 => \A e \in q.entered : e < q.cur =>
            \A c \in ChunksOfBlock(meta, e) : q.file[c] = meta
      BY <2>1, <2>5, <3>3 DEF ImageInv, FileInv
    <3>6. QED
      BY <1>1, <2>1, <2>5, <2>7, <3>4, <3>5 DEF FileInv
  <2>11. Filled(q, WrittenAtOnce(q))
    <3>1. WrittenAtOnce(q) = DOMAIN r.held \cup {slot} /\ WrittenAtOnce(r) = DOMAIN r.held
      BY <1>2, <1>5, <2>1 DEF WrittenAtOnce
    <3>2. ASSUME NEW c \in Chunks(meta)
          PROVE  /\ c \div BlockSize > r.cur => q.file[c] = 0
                 /\ c \div BlockSize = r.cur =>
                      (q.file[c] # 0 <=> c % BlockSize \in WrittenAtOnce(q))
      <4>1. CASE c = f.seq
        <5>1. ~(r.cur > r.cur)
          BY <2>9
        <5>2. QED
          BY <1>1, <2>1, <2>2, <2>5, <3>1, <4>1, <5>1
      <4>2. CASE c # f.seq
        <5>1. c \div BlockSize = r.cur => c % BlockSize # slot
          BY <2>3, <4>2
        <5>2. q.file[c] = r.file[c]
          BY <2>1, <2>5, <4>2
        <5>3. QED
          BY <3>1, <5>1, <5>2 DEF ImageInv, Filled
      <4>3. QED
        BY <4>1, <4>2
    <3>3. QED
      BY <2>1, <3>2 DEF Filled
  <2>12. QED
    BY <2>1, <2>8, <2>10, <2>11 DEF ImageInv, q
<1>6. QED
  BY <1>3, <1>4, <1>5

\* loraitp_receive_image() returns after flush_block().
LEMMA FlushedReturn ==
  ASSUME meta \in Sessions, NEW r, ImageInv(r), NEW result \in Results,
         Return(result, Flush(r)),
         result = "COMPLETE" =>
           \/ Flush(r).have = Size[meta]
           \/ Flush(r).lost = 0 /\ r.cur + 1 = NBlocks(meta),
         result = "INCOMPLETE" => Flush(r).have # Size[meta] \/ Flush(r).lost > 0
  PROVE  LastInv' /\ meta' = 0 /\ rx' = Closed(0)
<1> DEFINE f == Flush(r)
           k == BlockK(meta, r.cur)
<1>1. /\ FlushedInv(f, Restored(r)) /\ f.cur = r.cur /\ f.held = r.held
      /\ f.entered = r.entered
  BY FlushFacts
<1>2. /\ last' = [result |-> result, ses |-> meta, file |-> f.file,
                  held |-> DOMAIN f.held, cur |-> f.cur, entered |-> f.entered,
                  carried |-> f.carried]
      /\ meta' = 0 /\ rx' = Closed(0)
  BY DEF Return
<1> HIDE DEF f
<1>3. /\ last'.result = result /\ last'.ses = meta /\ last'.file = f.file
      /\ last'.held = DOMAIN r.held /\ last'.cur = r.cur
      /\ last'.entered = r.entered /\ last'.carried = f.carried
  BY <1>1, <1>2
<1>4. /\ f.file \in [Chunks(meta) -> {0, meta}] /\ meta # 0
      /\ f.have = Cardinality(Stored(f)) /\ DOMAIN f.file = Chunks(meta)
  BY <1>1 DEF FlushedInv, FileInv, Sessions
<1>5. f.have = Size[meta] <=> \A c \in Chunks(meta) : f.file[c] = meta
  <2>1. f.have = Size[meta] <=> Stored(f) = Chunks(meta)
    BY <1>4, StoredFinite
  <2>2. Stored(f) = Chunks(meta) <=> \A c \in Chunks(meta) : f.file[c] = meta
    BY <1>4 DEF Stored
  <2>3. QED
    BY <2>1, <2>2
<1>6. ASSUME result = "COMPLETE", NEW b \in r.entered, NEW c \in ChunksOfBlock(meta, b)
      PROVE  f.file[c] = meta
  <2>1. c \in Chunks(meta)
    BY DEF ChunksOfBlock
  <2>2. CASE f.have = Size[meta]
    BY <1>5, <2>1, <2>2
  <2>3. CASE f.lost = 0
    <3>1. b < f.cur + 1 /\ b \in f.entered
      BY <1>1, NBlocksFacts DEF FlushedInv, Context
    <3>2. QED
      BY <1>1, <2>3, <3>1 DEF FlushedInv, FileInv
  <2>4. QED
    BY <1>6, <2>2, <2>3 DEF f
<1>7. ASSUME result = "INCOMPLETE", f.carried = 0
      PROVE  \E c \in Chunks(meta) : f.file[c] # meta
  <2>1. CASE f.have # Size[meta]
    BY <1>5, <2>1
  <2>2. CASE f.lost > 0
    <3>1. \E c \in Chunks(meta) : f.file[c] = 0
      BY <1>1, <1>7, <2>2 DEF FlushedInv, FileInv
    <3>2. QED
      BY <1>4, <3>1
  <2>3. QED
    BY <1>7, <2>1, <2>2 DEF f
<1>8. VerdictIsExact'
  <2>1. f.carried \in Nat
    BY <1>1 DEF FlushedInv, Context
  <2>2. result = "INCOMPLETE" => ~Whole(last)' \/ f.carried > 0
    <3>1. CASE f.carried = 0
      BY <1>3, <1>7, <3>1 DEF Whole
    <3>2. CASE f.carried # 0
      BY <2>1, <3>2
    <3>3. QED
      BY <3>1, <3>2
  <2>3. QED
    BY <1>3, <1>6, <2>2 DEF VerdictIsExact
<1>9. WritesOut'
  <2>1. ASSUME NEW i \in 0..(k - 1),
               \/ i \in DOMAIN r.held
               \/ FecOk[meta] /\ Cardinality(DOMAIN r.held) >= k
        PROVE  f.file[r.cur * BlockSize + i] # 0
    <3>1. r.cur \in 0..(NBlocks(meta) - 1)
      BY DEF ImageInv, Context
    <3>2. i \in Restored(r)
      BY <2>1 DEF Restored, Sources, Buffered, HaveInBlock
    <3> DEFINE c == r.cur * BlockSize + i
    <3>3. c \in Chunks(meta) /\ c \div BlockSize = r.cur /\ c % BlockSize = i
      BY <3>1, PlaceOfChunk
    <3> HIDE DEF c
    <3>4. f.file[c] # 0
      BY <1>1, <3>2, <3>3 DEF FlushedInv, Filled
    <3>5. QED
      BY <3>4 DEF c
  <2>2. QED
    BY <1>3, <2>1 DEF WritesOut
<1>10. meta \in 0..Len(Size)
  BY SizeAssumption DEF Sessions
<1>11. QED
  BY <1>2, <1>3, <1>8, <1>9, <1>10 DEF LastInv

\* loraitp_receive_image() returns without flush_block(): what it has is in
\* storage when there is no buffer, and only a timeout leaves a buffer behind.
LEMMA PlainReturn ==
  ASSUME meta \in Sessions, NEW r, ImageInv(r), NEW result \in {"UNRECOVERABLE", "TIMEOUT"},
         Return(result, r), result = "UNRECOVERABLE" => ~Buffered
  PROVE  LastInv' /\ meta' = 0 /\ rx' = Closed(0)
<1> DEFINE k == BlockK(meta, r.cur)
<1>1. /\ last'.result = result /\ last'.ses = meta /\ last'.file = r.file
      /\ last'.held = DOMAIN r.held /\ last'.cur = r.cur
      /\ meta' = 0 /\ rx' = Closed(0)
  BY DEF Return
<1>2. VerdictIsExact'
  BY <1>1 DEF VerdictIsExact
<1>3. WritesOut'
  <2>1. ASSUME result = "UNRECOVERABLE", NEW i \in 0..(k - 1),
               \/ i \in DOMAIN r.held
               \/ FecOk[meta] /\ Cardinality(DOMAIN r.held) >= k
        PROVE  r.file[r.cur * BlockSize + i] # 0
    <3>1. r.cur \in 0..(NBlocks(meta) - 1)
      BY DEF ImageInv, Context
    <3>2. i \in WrittenAtOnce(r)
      BY <2>1 DEF WrittenAtOnce, Buffered
    <3> DEFINE c == r.cur * BlockSize + i
    <3>3. c \in Chunks(meta) /\ c \div BlockSize = r.cur /\ c % BlockSize = i
      BY <3>1, PlaceOfChunk
    <3> HIDE DEF c
    <3>4. r.file[c] # 0
      BY <3>2, <3>3 DEF ImageInv, Filled
    <3>5. QED
      BY <3>4 DEF c
  <2>2. QED
    BY <1>1, <2>1 DEF WritesOut
<1>4. meta \in 0..Len(Size) /\ result \in Results
  BY SizeAssumption DEF Sessions, Results
<1>5. QED
  BY <1>1, <1>2, <1>3, <1>4 DEF LastInv

\* The verdict after a frame: go on with a block that can still be restored, or
\* return; UNRECOVERABLE only when it cannot.
LEMMA JudgedFacts ==
  ASSUME meta \in Sessions, NEW r, ImageInv(r), Judged(r)
  PROVE  \/ rx' = r /\ meta' = meta /\ last' = last /\ Recoverable(r)
         \/ /\ LastInv' /\ meta' = 0 /\ rx' = Closed(0)
            /\ last'.result = "UNRECOVERABLE" =>
                 ~Recoverable(r) /\ last'.cur = r.cur /\ last'.held = DOMAIN r.held
<1> DEFINE f == Flush(r)
           result == IF f.lost > 0 THEN "INCOMPLETE" ELSE "COMPLETE"
<1>1. f.lost \in Nat /\ f.held = r.held /\ f.cur = r.cur
  BY FlushFacts DEF FlushedInv, Context
<1>2. CASE r.cur + 1 = NBlocks(meta) /\ HaveInBlock(r) >= BlockK(meta, r.cur)
  <2>1. Return(result, f)
    BY <1>2 DEF Judged
  <2>2. /\ result \in Results
        /\ result = "COMPLETE" => f.lost = 0 /\ r.cur + 1 = NBlocks(meta)
        /\ result = "INCOMPLETE" => f.lost > 0
        /\ result # "UNRECOVERABLE"
    BY <1>1, <1>2 DEF Results
  <2> HIDE DEF result
  <2>3. LastInv' /\ meta' = 0 /\ rx' = Closed(0)
    BY <2>1, <2>2, FlushedReturn
  <2>4. last'.result # "UNRECOVERABLE"
    BY <2>1, <2>2 DEF Return
  <2>5. QED
    BY <2>3, <2>4
<1>3. CASE /\ ~(r.cur + 1 = NBlocks(meta) /\ HaveInBlock(r) >= BlockK(meta, r.cur))
           /\ Recoverable(r)
  BY <1>3 DEF Judged
<1>4. CASE /\ ~(r.cur + 1 = NBlocks(meta) /\ HaveInBlock(r) >= BlockK(meta, r.cur))
           /\ ~Recoverable(r)
  <2>1. Return("UNRECOVERABLE", f)
    BY <1>4 DEF Judged, GivenUp
  <2>2. LastInv' /\ meta' = 0 /\ rx' = Closed(0)
    BY <2>1, FlushedReturn DEF Results
  <2>3. last'.cur = r.cur /\ last'.held = DOMAIN r.held
    BY <1>1, <2>1 DEF Return
  <2>4. QED
    BY <1>4, <2>2, <2>3
<1>5. QED
  BY <1>2, <1>3, <1>4

(***************************************************************************)
(* The sender and the air.                                                 *)
(***************************************************************************)
LEMMA SesFacts ==
  ASSUME SenderInv, ses # 0
  PROVE  ses \in Sessions /\ NBlocks(ses) \in Nat \ {0}
<1>1. ses \in Sessions
  BY SizeAssumption DEF SenderInv, Sessions
<1>2. QED
  BY <1>1, NBlocksFacts

LEMMA SenderStep ==
  ASSUME SenderInv, [Next]_vars
  PROVE  SenderInv'
<1> USE DEF SenderInv
<1>a. MetaEvery \in Nat \ {0} /\ Len(Size) \in Nat
  BY BlockAssumption, SizeAssumption
<1>1. CASE StartImage
  BY <1>a, <1>1 DEF StartImage
<1>2. CASE SendMeta
  <2>1. ses # 0 /\ ses \in Sessions /\ NBlocks(ses) \in Nat \ {0}
    BY <1>2, SesFacts DEF SendMeta
  <2>2. 0 < BlockFrames(ses, 0)
    <3>1. 0 \in 0..(NBlocks(ses) - 1)
      BY <2>1
    <3>2. BlockFrames(ses, 0) \in Nat /\ BlockFrames(ses, 0) >= BlockK(ses, 0)
          /\ BlockK(ses, 0) \in 1..BlockSize
      BY <2>1, <3>1, FramesFacts, BlockFacts
    <3>3. QED
      BY <2>1, <3>2, SizeFacts
  <2>3. QED
    BY <1>a, <1>2, <2>1, <2>2 DEF SendMeta
<1>3. CASE SendChunk
  <2>1. ses # 0 /\ ses \in Sessions /\ NBlocks(ses) \in Nat \ {0} /\ NParity(ses) \in Nat
    BY <1>3, SesFacts, ParityFacts DEF SendChunk
  <2>2. \/ blk' = NBlocks(ses) /\ idx' = 0
        \/ blk' < NBlocks(ses) /\ idx' < BlockFrames(ses, blk')
    <3>1. CASE idx + 1 < BlockFrames(ses, blk)
      BY <1>3, <3>1 DEF SendChunk
    <3>2. CASE ~(idx + 1 < BlockFrames(ses, blk))
      <4>1. blk' = blk + 1 /\ idx' = 0 /\ blk < NBlocks(ses)
        BY <1>3, <3>2 DEF SendChunk
      <4>2. CASE blk + 1 < NBlocks(ses)
        <5>1. blk + 1 \in 0..(NBlocks(ses) - 1)
          BY <2>1, <4>2
        <5>2. BlockFrames(ses, blk + 1) \in Nat
              /\ BlockFrames(ses, blk + 1) >= BlockK(ses, blk + 1)
              /\ BlockK(ses, blk + 1) \in 1..BlockSize
          BY <2>1, <5>1, FramesFacts, BlockFacts
        <5>3. QED
          BY <2>1, <4>1, <4>2, <5>2, SizeFacts
      <4>3. QED
        BY <2>1, <4>1, <4>2
    <3>3. QED
      BY <3>1, <3>2
  <2>3. blk' \in Nat /\ idx' \in Nat /\ spare' \in Nat /\ since' \in 0..MetaEvery
    BY <1>a, <1>3, <2>1 DEF SendChunk
  <2>4. UNCHANGED <<phase, ses, left, calm>> /\ phase = "chunks"
    BY <1>3 DEF SendChunk
  <2>5. QED
    BY <2>2, <2>3, <2>4
<1>4. CASE SprinkleMeta
  BY <1>a, <1>4 DEF SprinkleMeta
<1>5. CASE EndOfChunks
  BY <1>5 DEF EndOfChunks
<1>6. CASE SendFin
  BY <1>6 DEF SendFin
<1>7. CASE SenderAborts
  BY <1>7 DEF SenderAborts
<1>8. CASE Lost
  BY <1>8 DEF Lost, senderVars
<1>9. CASE UNCHANGED <<senderVars, calm, spare>>
  BY <1>9 DEF senderVars
<1>10. QED
  BY <1>1, <1>2, <1>3, <1>4, <1>5, <1>6, <1>7, <1>8, <1>9
  DEF Next, Send, Hear, vars, HearMeta, HearMetaRefused, HearMetaAgain, HearChunk,
      HearFin, HearNothing, Silence, Deadline, ReceiverResets

LEMMA AirStep ==
  ASSUME SenderInv, AirInv, [Next]_vars
  PROVE  AirInv'
<1>1. CASE SendMeta
  <2>1. dn' = Meta(ses) /\ ses' = ses /\ ses # 0
    BY <1>1 DEF SendMeta, SenderInv
  <2>2. QED
    BY <2>1 DEF AirInv, Meta
<1>2. CASE SendFin
  <2>1. dn' = Fin(ses) /\ ses' = ses /\ ses # 0
    BY <1>2 DEF SendFin, SenderInv
  <2>2. QED
    BY <2>1 DEF AirInv, Fin
<1>3. CASE SprinkleMeta
  <2>1. dn' = Meta(ses) /\ ses' = ses /\ ses # 0
    BY <1>3 DEF SprinkleMeta, SenderInv
  <2>2. QED
    BY <2>1 DEF AirInv, Meta
<1>4. CASE SendChunk
  <2>1. /\ ses # 0 /\ ses \in Sessions /\ NBlocks(ses) \in Nat \ {0}
        /\ blk \in Nat /\ idx \in Nat /\ blk < NBlocks(ses)
        /\ idx < BlockFrames(ses, blk)
    BY <1>4, SesFacts DEF SendChunk, SenderInv
  <2>2. blk \in 0..(NBlocks(ses) - 1)
    BY <2>1
  <2>3. idx \in 0..(BlockFrames(ses, blk) - 1) /\ BlockFrames(ses, blk) \in Nat
    BY <2>1, <2>2, FramesFacts
  <2>4. dn' = FrameAt(ses, blk, idx) /\ ses' = ses /\ phase' = "chunks"
    BY <1>4 DEF SendChunk, ChunkFrame, FrameAt
  <2>5. \/ blk' = blk /\ idx' = idx + 1
        \/ blk' = blk + 1 /\ idx' = 0 /\ idx + 1 = BlockFrames(ses, blk)
    BY <1>4, <2>1, <2>3 DEF SendChunk
  <2>6. PICK b \in Nat, i \in Nat : b = blk /\ i = idx
    BY <2>1
  <2>7. OnAir(b, i)'
    BY <2>1, <2>2, <2>3, <2>4, <2>5, <2>6 DEF OnAir
  <2>8. QED
    BY <2>7 DEF AirInv
<1>5. CASE UNCHANGED <<ses, phase, blk, idx>> /\ dn' \in {dn, None}
  BY <1>5 DEF AirInv, OnAir
<1>6. CASE dn' = None
  BY <1>6 DEF AirInv
<1>7. QED
  BY <1>1, <1>2, <1>3, <1>4, <1>5, <1>6
  DEF Next, Send, Hear, vars, senderVars, StartImage, EndOfChunks, SenderAborts, Lost,
      HearMeta, HearMetaRefused, HearMetaAgain, HearChunk, HearFin, HearNothing,
      Hears, Silence, Deadline, ReceiverResets

(***************************************************************************)
(* What the sender does leaves a receiver behind.                          *)
(***************************************************************************)
LEMMA BehindMonotone ==
  ASSUME meta \in Sessions, NEW r, Context(r), NEW b \in 0..(NBlocks(meta) - 1),
         NEW i \in 0..(BlockFrames(meta, b) - 1), Behind(r, b, i),
         NEW c \in Nat, NEW j \in Nat,
         \/ c = b /\ j = i + 1
         \/ c = b + 1 /\ j = 0 /\ i + 1 = BlockFrames(meta, b)
  PROVE  Behind(r, c, j) /\ FramesBefore(meta, c) + j = FramesBefore(meta, b) + i + 1
<1>1. /\ FramesBefore(meta, b) \in Nat /\ BlockFrames(meta, b) \in Nat
      /\ FramesBefore(meta, b + 1) = FramesBefore(meta, b) + BlockFrames(meta, b)
      /\ r.cur \in Nat /\ b \in Nat /\ i \in Nat /\ r.elapsed \in Int
  <2>1. FramesBefore(meta, NBlocks(meta)) \in Nat
    BY NBlocksFacts, FramesMonotone
  <2>2. QED
    BY <2>1, FramesFacts, NBlocksFacts DEF Context
<1>2. r.cur <= b /\ r.elapsed <= FramesBefore(meta, b) + i
  BY DEF Behind
<1>3. CASE c = b /\ j = i + 1
  BY <1>1, <1>2, <1>3 DEF Behind
<1>4. CASE c = b + 1 /\ j = 0 /\ i + 1 = BlockFrames(meta, b)
  BY <1>1, <1>2, <1>4 DEF Behind
<1>5. QED
  BY <1>3, <1>4

LEMMA ReachedStep ==
  ASSUME SenderInv, AirInv, ReceiverInv, meta # 0,
         Send \/ SenderAborts \/ Lost
  PROVE  ReachedInv'
<1>1. meta \in Sessions /\ meta \in 0..ses /\ ses \in Nat /\ ImageInv(rx) /\ ReachedInv
  BY SizeAssumption DEF SenderInv, ReceiverInv, Sessions
<1>2. UNCHANGED <<meta, rx>>
  BY DEF Send, StartImage, SendMeta, SendChunk, SprinkleMeta, EndOfChunks, SendFin,
     SenderAborts, Lost, rxVars
<1>3. CASE StartImage
  <2>1. meta' # ses'
    BY <1>1, <1>2, <1>3 DEF StartImage
  <2>2. QED
    BY <2>1 DEF ReachedInv
<1> SUFFICES ASSUME ~StartImage, ses = meta, ses' = meta PROVE ReachedInv'
  <2>1. ~StartImage => ses' = ses
    BY DEF Send, SendMeta, SendChunk, SprinkleMeta, EndOfChunks, SendFin,
       SenderAborts, Lost, senderVars
  <2>2. QED
    BY <1>2, <1>3, <2>1 DEF ReachedInv
<1>4. CASE SendMeta
  <2>1. rx.cur = 0 /\ rx.elapsed = 0 /\ dn' = Meta(ses)
    BY <1>1, <1>4 DEF SendMeta, ReachedInv
  <2>2. \A b, i \in Nat : ~OnAir(b, i)'
    BY <2>1 DEF OnAir, FrameAt, Meta, Data, Parity
  <2>3. phase' = "chunks" => blk' = 0 /\ idx' = 0
    BY <1>4 DEF SendMeta
  <2>4. FramesBefore(meta, 0) \in Nat
    BY <1>1, NBlocksFacts, FramesMonotone
  <2>5. phase' = "chunks" => Behind(rx, blk, idx)'
    BY <1>2, <2>1, <2>3, <2>4 DEF Behind
  <2>6. QED
    BY <1>2, <2>1, <2>2, <2>5 DEF ReachedInv
<1>5. CASE SendChunk
  <2>1. /\ phase = "chunks" /\ phase' = "chunks" /\ NBlocks(ses) \in Nat \ {0}
        /\ blk \in Nat /\ idx \in Nat /\ blk < NBlocks(ses)
        /\ idx < BlockFrames(ses, blk) /\ Behind(rx, blk, idx)
    BY <1>1, <1>5, NBlocksFacts DEF SendChunk, SenderInv, ReachedInv
  <2>2. blk \in 0..(NBlocks(meta) - 1)
    BY <2>1
  <2>3. BlockFrames(meta, blk) \in Nat /\ idx \in 0..(BlockFrames(meta, blk) - 1)
    BY <1>1, <2>1, <2>2, FramesFacts
  <2>4. \/ blk' = blk /\ idx' = idx + 1
        \/ blk' = blk + 1 /\ idx' = 0 /\ idx + 1 = BlockFrames(meta, blk)
    BY <1>5, <2>1, <2>3 DEF SendChunk
  <2>5. blk' \in Nat /\ idx' \in Nat
    BY <2>1, <2>4
  <2>6. Behind(rx, blk', idx')
    BY <1>1, <2>1, <2>2, <2>3, <2>4, <2>5, BehindMonotone DEF ImageInv
  <2>7. ASSUME NEW b \in Nat, NEW i \in Nat, OnAir(b, i)'
        PROVE  Behind(rx, b, i)
    <3>1. \/ blk' = b /\ idx' = i + 1
          \/ blk' = b + 1 /\ idx' = 0 /\ i + 1 = BlockFrames(meta, b)
      BY <2>7 DEF OnAir
    <3>2. b = blk /\ i = idx
      BY <2>1, <2>3, <2>4, <3>1
    <3>3. QED
      BY <2>1, <3>2
  <2>8. QED
    BY <1>2, <2>1, <2>6, <2>7 DEF ReachedInv, Behind
<1>6. CASE SprinkleMeta
  <2>1. dn' = Meta(ses) /\ UNCHANGED <<phase, blk, idx>> /\ phase = "chunks"
    BY <1>6 DEF SprinkleMeta
  <2>2. \A b, i \in Nat : ~OnAir(b, i)'
    BY <2>1 DEF OnAir, FrameAt, Meta, Data, Parity
  <2>3. QED
    BY <1>1, <1>2, <2>1, <2>2 DEF ReachedInv, Behind
<1>7. CASE EndOfChunks \/ SendFin \/ SenderAborts
  <2>1. phase' \in {"fin", "idle"}
    BY <1>7 DEF EndOfChunks, SendFin, SenderAborts
  <2>2. \A b, i \in Nat : ~OnAir(b, i)'
    BY <2>1 DEF OnAir
  <2>3. QED
    BY <2>1, <2>2 DEF ReachedInv
<1>8. CASE Lost
  <2>1. dn' = None /\ UNCHANGED <<phase, blk, idx>>
    BY <1>8 DEF Lost, senderVars
  <2>2. \A b, i \in Nat : ~OnAir(b, i)'
    BY <2>1 DEF OnAir, FrameAt, None, Data, Parity
  <2>3. QED
    BY <1>1, <1>2, <2>1, <2>2 DEF ReachedInv, Behind
<1>9. QED
  BY <1>4, <1>5, <1>6, <1>7, <1>8 DEF Send

(***************************************************************************)
(* The receiver.                                                           *)
(***************************************************************************)

\* A frame that loraitp_unseal() lets through is the announced image's.
LEMMA UnderstoodFacts ==
  ASSUME Sealed, SenderInv, AirInv, meta \in Sessions, Understood,
         IsChunk(dn) \/ dn.type = "FIN"
  PROVE  dn # None /\ dn.ses = meta /\ meta = ses
<1>1. dn # None /\ dn.type # "META" /\ dn.ses = ses /\ ses # 0
  <2>1. dn # None
    BY DEF IsChunk, None
  <2>2. CASE dn \in {Meta(ses), Fin(ses)} /\ ses # 0
    BY <2>1, <2>2 DEF Meta, Fin, IsChunk
  <2>3. CASE \E b, i \in Nat : OnAir(b, i)
    BY <2>1, <2>3 DEF OnAir, FrameAt, Data, Parity
  <2>4. QED
    BY <2>1, <2>2, <2>3 DEF AirInv
<1>2. CASE Len(Size) = 1
  BY <1>1, <1>2 DEF SenderInv, Sessions
<1>3. CASE MacControl /\ MacData
  BY <1>1, <1>3 DEF Understood, Authentic
<1>4. QED
  BY <1>1, <1>2, <1>3 DEF Sealed

LEMMA MetaFacts ==
  ASSUME AirInv, NEW s \in Sessions, Hears(Meta(s))
  PROVE  ses = s
<1>1. dn = Meta(s) /\ dn # None
  BY DEF Hears
<1>2. CASE dn \in {Meta(ses), Fin(ses)}
  BY <1>1, <1>2 DEF Meta, Fin
<1>3. CASE \E b, i \in Nat : OnAir(b, i)
  BY <1>1, <1>3 DEF OnAir, FrameAt, Meta, Data, Parity
<1>4. QED
  BY <1>1, <1>2, <1>3 DEF AirInv

\* After a frame of the image the context is that of a receiver which has seen
\* it and is not ahead of the sender; until then nothing else has changed.
LEMMA HearChunkFacts ==
  ASSUME Sealed, SenderInv, AirInv, ReceiverInv, HearChunk
  PROVE  /\ meta \in Sessions /\ meta = ses /\ phase = "chunks" /\ dn' = None
         /\ UNCHANGED <<senderVars, calm, spare>>
         /\ \E r : /\ ImageInv(r) /\ Behind(r, blk, idx)
                   /\ \/ rx' = r /\ UNCHANGED <<meta, last>> /\ ~Buffered
                      \/ Judged(r)
<1>1. meta \in Sessions
  BY SizeAssumption DEF HearChunk, Understood, ReceiverInv, SenderInv, Sessions
<1>2. dn # None /\ dn.ses = meta /\ meta = ses
  BY <1>1, UnderstoodFacts DEF HearChunk
<1>3. dn \notin {Meta(ses), Fin(ses)}
  BY DEF HearChunk, IsChunk, Meta, Fin
<1>4. PICK b \in Nat, i \in Nat : OnAir(b, i)
  BY <1>2, <1>3 DEF AirInv
<1>5. /\ phase = "chunks" /\ dn = FrameAt(meta, b, i)
      /\ b \in 0..(NBlocks(meta) - 1) /\ i \in 0..(BlockFrames(meta, b) - 1)
      /\ \/ blk = b /\ idx = i + 1
         \/ blk = b + 1 /\ idx = 0 /\ i + 1 = BlockFrames(meta, b)
  BY <1>2, <1>4 DEF OnAir
<1>6. /\ BlockOf(dn) = b /\ Slot(dn) = i /\ Ordinal(dn) = FramesBefore(meta, b) + i
      /\ dn.type # "PARITY" => i < BlockK(meta, b) /\ dn.seq = b * BlockSize + i
  BY <1>1, <1>5, PlaceOfFrame
<1>7. ImageInv(rx) /\ Behind(rx, b, i) /\ blk \in Nat /\ idx \in Nat
  BY <1>1, <1>2, <1>4 DEF ReceiverInv, ReachedInv, Sessions, SenderInv
<1>8. /\ FramesBefore(meta, b) \in Nat /\ BlockFrames(meta, b) \in Nat
      /\ Ordinal(dn) \in Nat /\ rx.elapsed \in Nat /\ rx.cur \in Nat
      /\ Ordinal(dn) + 1 <= FramesBefore(meta, NBlocks(meta))
  <2>1. /\ FramesBefore(meta, b) \in Nat /\ BlockFrames(meta, b) \in Nat
        /\ FramesBefore(meta, b + 1) = FramesBefore(meta, b) + BlockFrames(meta, b)
    BY <1>1, <1>5, FramesFacts
  <2>2. b + 1 \in 0..NBlocks(meta) /\ NBlocks(meta) \in 0..NBlocks(meta)
        /\ b + 1 <= NBlocks(meta)
    BY <1>1, <1>5, NBlocksFacts
  <2>3. FramesBefore(meta, b + 1) <= FramesBefore(meta, NBlocks(meta))
        /\ FramesBefore(meta, NBlocks(meta)) \in Nat
    BY <1>1, <2>2, FramesMonotone
  <2>4. rx.elapsed \in Nat /\ rx.cur \in Nat
    BY <1>7, <2>3 DEF ImageInv, Context
  <2>5. QED
    BY <1>5, <1>6, <2>1, <2>3, <2>4
<1> DEFINE p == Passed(rx, dn)
           t == Turn(p, b)
<1>9. /\ ImageInv(p) /\ p.cur = rx.cur
      /\ p.elapsed = IF Ordinal(dn) >= rx.elapsed THEN Ordinal(dn) + 1 ELSE rx.elapsed
  BY <1>1, <1>7, <1>8, PassedFacts
<1>10. p.cur <= b
  BY <1>7, <1>9 DEF Behind
<1>11. ImageInv(t) /\ t.cur = b /\ t.elapsed = p.elapsed
  <2> HIDE DEF p
  <2>1. QED
    BY <1>1, <1>5, <1>9, <1>10, TurnFacts
<1> HIDE DEF p
<1>12. FramesBefore(meta, blk) + idx = FramesBefore(meta, b) + i + 1 /\ b <= blk
  <2>1. Behind(rx, b, i) /\ Context(rx)
    BY <1>7 DEF ImageInv
  <2>2. FramesBefore(meta, blk) + idx = FramesBefore(meta, b) + i + 1
    BY <1>1, <1>5, <1>7, <2>1, BehindMonotone
  <2>3. QED
    BY <1>5, <1>7, <2>2
<1>13. t.elapsed <= FramesBefore(meta, blk) + idx
  BY <1>6, <1>7, <1>8, <1>9, <1>11, <1>12 DEF Behind
<1> HIDE DEF t
<1>14. dn' = None /\ UNCHANGED <<senderVars, calm, spare>>
  BY DEF HearChunk, Hears
<1>15. ~(Slot(dn) >= BlockFrames(meta, b))
  BY <1>5, <1>6, <1>8
<1>16. CASE ~Buffered /\ dn.type = "PARITY"
  <2>1. rx' = t /\ UNCHANGED <<meta, last>>
    BY <1>6, <1>16 DEF HearChunk, p, t
  <2>2. Behind(t, blk, idx)
    BY <1>11, <1>12, <1>13 DEF Behind
  <2>3. QED
    BY <1>1, <1>2, <1>5, <1>11, <1>14, <1>16, <2>1, <2>2
<1>17. CASE ~(~Buffered /\ dn.type = "PARITY")
  <2> DEFINE q == Keep(t, dn)
  <2>1. Judged(q)
    BY <1>6, <1>15, <1>17 DEF HearChunk, p, t
  <2>2. /\ Slot(dn) \in 0..(BlockFrames(meta, t.cur) - 1)
        /\ ~Buffered => /\ Slot(dn) \in Sources(t.cur)
                        /\ dn.seq = t.cur * BlockSize + Slot(dn)
    <3>1. BlockK(meta, b) \in 1..BlockSize /\ BlockSize \in Nat
      BY <1>1, <1>5, BlockFacts, SizeFacts
    <3>2. QED
      BY <1>5, <1>6, <1>11, <1>17, <3>1 DEF Sources
  <2>3. ImageInv(q) /\ q.cur = b /\ q.elapsed = t.elapsed
    BY <1>1, <1>2, <1>11, <2>2, KeepFacts
  <2> HIDE DEF q
  <2>4. Behind(q, blk, idx)
    BY <1>12, <1>13, <2>3 DEF Behind
  <2>5. QED
    BY <1>1, <1>2, <1>5, <1>14, <2>1, <2>3, <2>4
<1>18. QED
  BY <1>16, <1>17

\* image_begin() leaves a receiver that has everything before it.
LEMMA OpenedImage ==
  meta \in Sessions /\ (\E lost \in Nat : rx = Opened(meta, lost))
    => ImageInv(rx) /\ Recoverable(rx) /\ rx.cur = 0 /\ rx.elapsed = 0
<1> SUFFICES ASSUME meta \in Sessions, NEW lost \in Nat, rx = Opened(meta, lost)
             PROVE  ImageInv(rx) /\ Recoverable(rx) /\ rx.cur = 0 /\ rx.elapsed = 0
  OBVIOUS
<1>1. QED
  BY OpenedFacts

\* What ReceiverInv says of a receiver that is, or is again, without an image.
LEMMA Unannounced ==
  ASSUME SenderInv', meta' = 0, rx' = Closed(0) \/ rx' = Closed(rx.lost), ReceiverInv
  PROVE  ReceiverInv'
<1>1. rx.lost \in Nat
  BY DEF ReceiverInv, ImageInv, Context
<1>2. PICK l \in Nat : rx' = Closed(l)
  BY <1>1
<1>3. /\ rx'.cur = 0 /\ rx'.have = 0 /\ rx'.lost = l /\ rx'.elapsed = 0
      /\ rx'.carried = l
  BY <1>2 DEF Closed, Opened
<1>4. 0 \in 0..ses'
  BY DEF SenderInv
<1>5. QED
  BY <1>3, <1>4 DEF ReceiverInv

LEMMA NothingOnAir ==
  ASSUME dn' = None
  PROVE  \A b, i \in Nat : ~OnAir(b, i)'
BY DEF OnAir, FrameAt, None, Data, Parity

LEMMA ReceiverStep ==
  ASSUME Sealed, BroadcastInv, SenderInv', [Next]_vars
  PROVE  ReceiverInv' /\ LastInv'
<1>1. SenderInv /\ AirInv /\ ReceiverInv /\ LastInv
  BY DEF BroadcastInv
<1>2. meta # 0 => /\ meta \in Sessions /\ ImageInv(rx) /\ ReachedInv
                  /\ Buffered => Recoverable(rx)
  BY <1>1, SizeAssumption DEF ReceiverInv, SenderInv, Sessions
<1>3. CASE Send \/ SenderAborts \/ Lost
  <2>1. UNCHANGED rxVars /\ (ses' = ses \/ ses' = ses + 1)
    BY <1>3 DEF Send, StartImage, SendMeta, SendChunk, SprinkleMeta, EndOfChunks,
       SendFin, SenderAborts, Lost, senderVars
  <2>2. LastInv'
    BY <1>1, <2>1 DEF LastInv, rxVars, VerdictIsExact, WritesOut, Whole
  <2>3. meta' \in 0..ses'
    BY <1>1, <2>1 DEF SenderInv, ReceiverInv, rxVars
  <2>4. CASE meta = 0
    BY <1>1, <2>1, <2>2, <2>3, <2>4 DEF ReceiverInv, rxVars
  <2>5. CASE meta # 0
    <3>1. ReachedInv'
      BY <1>1, <1>3, <2>5, ReachedStep
    <3>2. ImageInv(rx)' /\ (Buffered' => Recoverable(rx)')
      BY <1>2, <2>1, <2>5
      DEF rxVars, ImageInv, Context, FileInv, Filled, Stored, WrittenAtOnce, Buffered,
          Sources, Recoverable, HaveInBlock, FramesSent
    <3>3. QED
      BY <2>1, <2>2, <2>3, <2>5, <3>1, <3>2 DEF ReceiverInv, rxVars
  <2>6. QED
    BY <2>4, <2>5
<1>4. ASSUME NEW s \in Sessions, HearMeta(s) PROVE ReceiverInv' /\ LastInv'
  <2>1. ses = s /\ meta' = s /\ rx' = Opened(s, rx.lost) /\ dn' = None
        /\ UNCHANGED <<senderVars, last>>
    BY <1>1, <1>4, MetaFacts DEF HearMeta, Hears
  <2>2. rx.lost \in Nat /\ s # 0 /\ s \in 0..s
    BY <1>1 DEF ReceiverInv, ImageInv, Context, Sessions
  <2>3. (ImageInv(rx) /\ Recoverable(rx) /\ rx.cur = 0 /\ rx.elapsed = 0)'
    <3>1. (meta \in Sessions /\ (\E lost \in Nat : rx = Opened(meta, lost)))'
      BY <2>1, <2>2
    <3>2. QED
      BY <3>1, OpenedImage, PTL
  <2>4. ReachedInv'
    <3>1. FramesBefore(s, 0) \in Nat /\ NBlocks(s) \in Nat
      BY NBlocksFacts, FramesMonotone
    <3>2. phase' = "chunks" => Behind(rx, blk, idx)'
      <4>1. SUFFICES ASSUME phase = "chunks" PROVE 0 <= FramesBefore(s, blk) + idx /\ 0 <= blk
        BY <2>1, <2>3 DEF Behind, senderVars
      <4>2. blk \in 0..NBlocks(s) /\ idx \in Nat /\ blk \in Nat
        BY <1>1, <2>1, <3>1, <4>1 DEF SenderInv
      <4>3. FramesBefore(s, blk) \in Nat
        BY <4>2, FramesMonotone
      <4>4. QED
        BY <4>2, <4>3
    <3>3. QED
      BY <2>1, <2>3, <3>2, NothingOnAir DEF ReachedInv
  <2>5. LastInv'
    BY <1>1, <2>1 DEF LastInv, VerdictIsExact, WritesOut, Whole
  <2>6. QED
    BY <2>1, <2>2, <2>3, <2>4, <2>5 DEF ReceiverInv, senderVars
<1>5. ASSUME ReceiverResets \/ \E s \in Sessions : HearMetaRefused(s)
      PROVE  ReceiverInv' /\ LastInv'
  <2>1. meta' = 0 /\ last' = last /\ (rx' = Closed(0) \/ rx' = Closed(rx.lost))
    BY <1>5 DEF ReceiverResets, HearMetaRefused
  <2>2. LastInv'
    BY <1>1, <2>1 DEF LastInv, VerdictIsExact, WritesOut, Whole
  <2>3. QED
    BY <1>1, <2>1, <2>2, Unannounced
<1>6. ASSUME UNCHANGED <<senderVars, rxVars>>, dn' \in {dn, None}
      PROVE  ReceiverInv' /\ LastInv'
  <2>1. LastInv'
    BY <1>1, <1>6 DEF LastInv, rxVars, VerdictIsExact, WritesOut, Whole
  <2>2. \A b, i \in Nat : OnAir(b, i)' => OnAir(b, i)
    <3>1. CASE dn' = dn
      BY <1>6, <3>1 DEF OnAir, senderVars
    <3>2. CASE dn' = None
      BY <3>2, NothingOnAir
    <3>3. QED
      BY <1>6, <3>1, <3>2
  <2>3. CASE meta = 0
    BY <1>1, <1>6, <2>1, <2>3 DEF ReceiverInv, rxVars, senderVars
  <2>4. CASE meta # 0
    <3>1. ReachedInv'
      BY <1>2, <1>6, <2>2, <2>4 DEF ReachedInv, Behind, rxVars, senderVars
    <3>2. ImageInv(rx)' /\ (Buffered' => Recoverable(rx)')
      BY <1>2, <1>6, <2>4
      DEF rxVars, ImageInv, Context, FileInv, Filled, Stored, WrittenAtOnce, Buffered,
          Sources, Recoverable, HaveInBlock, FramesSent
    <3>3. QED
      BY <1>1, <1>6, <2>1, <2>4, <3>1, <3>2 DEF ReceiverInv, rxVars, senderVars
  <2>5. QED
    BY <2>3, <2>4
<1>7. CASE HearChunk
  <2>1. /\ meta \in Sessions /\ meta = ses /\ phase = "chunks" /\ dn' = None
        /\ UNCHANGED <<senderVars, calm, spare>>
    BY <1>1, <1>7, HearChunkFacts
  <2>2. PICK r : /\ ImageInv(r) /\ Behind(r, blk, idx)
                 /\ \/ rx' = r /\ UNCHANGED <<meta, last>> /\ ~Buffered
                    \/ Judged(r)
    BY <1>1, <1>7, HearChunkFacts
  <2>3. CASE rx' = r /\ UNCHANGED <<meta, last>> /\ (Buffered => Recoverable(r))
    <3>1. LastInv'
      BY <1>1, <2>3 DEF LastInv, VerdictIsExact, WritesOut, Whole
    <3>2. ImageInv(rx)' /\ (Buffered' => Recoverable(rx)')
      BY <2>2, <2>3
      DEF ImageInv, Context, FileInv, Filled, Stored, WrittenAtOnce, Buffered,
          Sources, Recoverable, HaveInBlock, FramesSent
    <3>3. ReachedInv'
      BY <2>1, <2>2, <2>3, NothingOnAir DEF ReachedInv, Behind, senderVars
    <3>4. meta' \in 0..ses' /\ meta' # 0
      BY <1>1, <2>1, <2>3 DEF ReceiverInv, senderVars, Sessions
    <3>5. QED
      BY <3>1, <3>2, <3>3, <3>4 DEF ReceiverInv
  <2>4. CASE Judged(r)
    <3>1. \/ rx' = r /\ meta' = meta /\ last' = last /\ Recoverable(r)
          \/ LastInv' /\ meta' = 0 /\ rx' = Closed(0)
      BY <2>1, <2>2, <2>4, JudgedFacts
    <3>2. QED
      BY <1>1, <2>3, <3>1, Unannounced
  <2>5. QED
    BY <2>2, <2>3, <2>4
<1>8. CASE HearFin
  <2>1. meta \in Sessions /\ ImageInv(rx)
    BY <1>2, <1>8 DEF HearFin, Understood
  <2> DEFINE result == IF Flush(rx).have = Size[meta] THEN "COMPLETE" ELSE "INCOMPLETE"
  <2>2. Return(result, Flush(rx))
    BY <1>8 DEF HearFin
  <2>3. /\ result \in Results
        /\ result = "COMPLETE" => Flush(rx).have = Size[meta]
        /\ result = "INCOMPLETE" => Flush(rx).have # Size[meta]
    BY DEF Results
  <2> HIDE DEF result
  <2>4. LastInv' /\ meta' = 0 /\ rx' = Closed(0)
    BY <2>1, <2>2, <2>3, FlushedReturn
  <2>5. QED
    BY <1>1, <2>4, Unannounced
<1>9. CASE Silence \/ Deadline
  <2>1. meta \in Sessions /\ ImageInv(rx) /\ (Buffered => Recoverable(rx))
    BY <1>2, <1>9 DEF Silence, Deadline, TimedOut
  <2>2. CASE Silence
    <3>1. Return("UNRECOVERABLE", rx) /\ ~Buffered
      BY <2>1, <2>2 DEF Silence
    <3>2. LastInv' /\ meta' = 0 /\ rx' = Closed(0)
      BY <2>1, <3>1, PlainReturn
    <3>3. QED
      BY <1>1, <3>2, Unannounced
  <2>3. CASE Deadline
    <3>1. Return("TIMEOUT", rx)
      BY <2>3 DEF Deadline
    <3>2. LastInv' /\ meta' = 0 /\ rx' = Closed(0)
      BY <2>1, <3>1, PlainReturn
    <3>3. QED
      BY <1>1, <3>2, Unannounced
  <2>4. QED
    BY <1>9, <2>2, <2>3
<1>10. CASE HearNothing \/ (\E s \in Sessions : HearMetaAgain(s)) \/ UNCHANGED vars
  <2>1. UNCHANGED <<senderVars, rxVars>> /\ dn' \in {dn, None}
    BY <1>10 DEF HearNothing, HearMetaAgain, Hears, vars
  <2>2. QED
    BY <1>6, <2>1
<1>11. QED
  BY <1>3, <1>4, <1>5, <1>7, <1>8, <1>9, <1>10 DEF Next, Hear

LEMMA InitBroadcast == Init => BroadcastInv
<1> SUFFICES ASSUME Init PROVE BroadcastInv
  OBVIOUS
<1>1. SenderInv
  BY SizeAssumption, BlockAssumption, ModeAssumption DEF Init, SenderInv
<1>2. AirInv
  BY DEF Init, AirInv
<1>3. ReceiverInv
  BY DEF Init, ReceiverInv, Closed, Opened
<1>4. LastInv
  BY SizeAssumption DEF Init, LastInv, NoResult, VerdictIsExact, WritesOut, Results
<1>5. QED
  BY <1>1, <1>2, <1>3, <1>4 DEF BroadcastInv

LEMMA BroadcastStep ==
  ASSUME Sealed, BroadcastInv, [Next]_vars
  PROVE  BroadcastInv'
<1>1. SenderInv' /\ AirInv'
  BY SenderStep, AirStep DEF BroadcastInv
<1>2. QED
  BY <1>1, ReceiverStep DEF BroadcastInv

LEMMA BroadcastInvariant == Sealed /\ Spec => []BroadcastInv
<1> SUFFICES ASSUME Sealed PROVE Spec => []BroadcastInv
  OBVIOUS
<1>1. Init => BroadcastInv
  BY InitBroadcast
<1>2. BroadcastInv /\ [Next]_vars => BroadcastInv'
  BY BroadcastStep
<1>3. QED
  BY <1>1, <1>2, PTL DEF Spec

(***************************************************************************)
(* The theorems: frames of another session are refused, because all of     *)
(* them are authenticated, or there is no other session.                   *)
(***************************************************************************)

\* Every variable has its type; the bitmap has no bit beyond the k + r slots of
\* its block, and no more chunks or frames are counted than the image has.
THEOREM TypeCorrect == Sealed /\ Spec => []TypeOK
<1>1. BroadcastInv => TypeOK
  <2> SUFFICES ASSUME BroadcastInv PROVE TypeOK
    OBVIOUS
  <2>1. SenderInv /\ AirInv /\ ReceiverInv /\ LastInv
    BY DEF BroadcastInv
  <2>2. dn \in Frames
    <3>1. CASE dn = None
      BY <3>1 DEF Frames
    <3>2. CASE dn \in {Meta(ses), Fin(ses)} /\ ses # 0
      BY <2>1, <3>2, SesFacts DEF Frames, Meta, Fin
    <3>3. ASSUME NEW b \in Nat, NEW i \in Nat, OnAir(b, i) PROVE dn \in Frames
      <4>1. /\ ses \in Sessions /\ BlockSize \in Nat /\ NParity(ses) \in Nat
            /\ b \in 0..(NBlocks(ses) - 1) /\ dn = FrameAt(ses, b, i)
        BY <2>1, <3>3, SesFacts, SizeFacts, ParityFacts DEF OnAir
      <4>2. BlockK(ses, b) \in Nat
        BY <4>1, BlockFacts
      <4>3. CASE i < BlockK(ses, b)
        <5>1. b * BlockSize + i \in Nat
          BY <4>1
        <5>2. QED
          BY <4>1, <4>3, <5>1 DEF FrameAt, Data, Frames
      <4>4. CASE ~(i < BlockK(ses, b))
        <5>1. b * NParity(ses) \in Nat
          BY <4>1
        <5>2. b * NParity(ses) + (i - BlockK(ses, b)) \in Nat
          BY <4>2, <4>4, <5>1
        <5>3. QED
          BY <4>1, <4>4, <5>2 DEF FrameAt, Parity, Frames
      <4>5. QED
        BY <4>3, <4>4
    <3>4. QED
      BY <2>1, <3>1, <3>2, <3>3 DEF AirInv
  <2>3. meta \in 0..Len(Size)
    BY <2>1, SizeAssumption DEF ReceiverInv, SenderInv
  <2>4. ASSUME meta # 0
        PROVE  /\ {rx.cur, rx.have, rx.lost, rx.elapsed, rx.carried} \subseteq Nat
               /\ DOMAIN rx.held \subseteq 0..(BlockFrames(meta, rx.cur) - 1)
               /\ Chunks(meta) \subseteq DOMAIN rx.file
               /\ rx.have <= Size[meta]
               /\ rx.elapsed <= FramesBefore(meta, NBlocks(meta))
    <3>1. meta \in Sessions /\ ImageInv(rx)
      BY <2>1, <2>3, <2>4, SizeAssumption DEF ReceiverInv, Sessions
    <3>2. rx.have \in 0..Size[meta] /\ Size[meta] \in Nat
      BY <3>1, StoredFinite, SizeFacts DEF ImageInv, FileInv
    <3>3. FramesBefore(meta, NBlocks(meta)) \in Nat /\ NBlocks(meta) \in Nat
      BY <3>1, NBlocksFacts, FramesMonotone
    <3>4. QED
      BY <3>1, <3>2, <3>3 DEF ImageInv, Context, FileInv
  <2>5. QED
    BY <2>1, <2>2, <2>3, <2>4 DEF TypeOK, SenderInv, ReceiverInv, LastInv
<1>2. QED
  BY <1>1, BroadcastInvariant, PTL

\* chunks_have counts what is in storage, the chunks restored from parity
\* included, each once, and storage holds nothing but the announced image -
\* because the receiver enters no block twice.
THEOREM HaveCounts == Sealed /\ Spec => []HaveIsStored
<1>1. BroadcastInv => HaveIsStored
  <2> SUFFICES ASSUME BroadcastInv, meta # 0 PROVE HaveIsStored
    BY DEF HaveIsStored
  <2>1. FileInv(rx, rx.cur)
    BY DEF BroadcastInv, ReceiverInv, ImageInv
  <2>2. QED
    BY <2>1 DEF FileInv, HaveIsStored, Stored
<1>2. QED
  BY <1>1, BroadcastInvariant, PTL

\* COMPLETE: every block a frame of which was heard is whole.  INCOMPLETE:
\* something is missing, unless an earlier image of the call lost a block.
THEOREM VerdictsExact == Sealed /\ Spec => []VerdictIsExact
<1>1. BroadcastInv => VerdictIsExact
  BY DEF BroadcastInv, LastInv
<1>2. QED
  BY <1>1, BroadcastInvariant, PTL

\* However the call returns, but for its timeout, every chunk it heard of the
\* current block is in the file, and all of the block if k frames of it were.
THEOREM AllIsWritten == Sealed /\ Spec => []WritesOut
<1>1. BroadcastInv => WritesOut
  BY DEF BroadcastInv, LastInv
<1>2. QED
  BY <1>1, BroadcastInvariant, PTL

\* frames_sent_for_block() never counts a frame that is yet to come, so that a
\* block which loraitp_rx_still_recoverable() gives up is beyond repair.
LEMMA GivenUpIsHopeless ==
  ASSUME meta \in Sessions, SenderInv, NEW r, Context(r), ~Recoverable(r),
         meta = ses => /\ phase = "meta" => r.elapsed = 0
                       /\ phase = "chunks" => Behind(r, blk, idx)
  PROVE  Hopeless(meta, r.cur, HaveInBlock(r))
<1> DEFINE k == BlockK(meta, r.cur)
           n == BlockFrames(meta, r.cur)
           start == FramesBefore(meta, r.cur)
           h == HaveInBlock(r)
           u == Unsent(meta, r.cur)
<1>1. /\ r.cur \in 0..(NBlocks(meta) - 1) /\ NBlocks(meta) \in Nat /\ r.cur \in Nat
      /\ k \in Nat /\ n \in Nat /\ n >= k /\ start \in Nat /\ h \in Nat
      /\ FramesBefore(meta, r.cur + 1) = start + n
      /\ r.elapsed \in Nat
  <2>1. r.cur \in 0..(NBlocks(meta) - 1) /\ NBlocks(meta) \in Nat
    BY NBlocksFacts DEF Context
  <2>2. k \in Nat /\ FramesBefore(meta, NBlocks(meta)) \in Nat
    BY <2>1, BlockFacts, FramesMonotone
  <2>3. QED
    BY <2>1, <2>2, FramesFacts, HeldFacts DEF Context
<1>2. FramesSent(r) = IF r.elapsed <= start THEN 0
                      ELSE IF r.elapsed - start <= n THEN r.elapsed - start ELSE n
  BY DEF FramesSent, Least
<1>3. h + n - FramesSent(r) < k
  BY <1>1, <1>2 DEF Recoverable
<1>4. u <= n - FramesSent(r) /\ u \in Int
  <2>1. CASE ses # meta \/ phase \in {"idle", "fin"} \/ blk > r.cur
    BY <1>1, <1>2, <2>1 DEF Unsent
  <2>2. CASE /\ ses = meta /\ phase \notin {"idle", "fin"} /\ ~(blk > r.cur)
             /\ blk < r.cur \/ phase = "meta"
    <3>1. u = n
      BY <2>2 DEF Unsent
    <3>2. CASE phase = "meta"
      BY <1>1, <1>2, <2>2, <3>1, <3>2
    <3>3. CASE phase # "meta"
      <4>1. r.cur <= blk /\ blk \in Nat
        BY <2>2, <3>3 DEF SenderInv, Behind
      <4>2. QED
        BY <1>1, <2>2, <3>3, <4>1
    <3>4. QED
      BY <3>2, <3>3
  <2>3. CASE /\ ses = meta /\ phase \notin {"idle", "fin"} /\ ~(blk > r.cur)
             /\ ~(blk < r.cur \/ phase = "meta")
    <3>1. /\ blk = r.cur /\ idx \in Nat /\ phase = "chunks"
          /\ r.elapsed <= start + idx
      BY <1>1, <2>3 DEF SenderInv, Behind
    <3>2. idx < n
      BY <1>1, <2>3, <3>1 DEF SenderInv
    <3>3. u = n - idx
      BY <2>3, <3>1 DEF Unsent
    <3>4. QED
      BY <1>1, <1>2, <3>1, <3>2, <3>3
  <2>4. QED
    BY <2>1, <2>2, <2>3
<1>5. h + u < k
  <2> HIDE DEF h, u, k, n
  <2>1. FramesSent(r) \in Int
    <3> HIDE DEF start
    <3>1. QED
      BY <1>1, <1>2
  <2>2. QED
    BY <1>1, <1>3, <1>4, <2>1
<1>6. QED
  BY <1>5 DEF Hopeless

\* "We never abandon a block that was still recoverable": when a call gives up,
\* what the sender has not sent yet of the block would not have been enough.
THEOREM GivenUpRightly == Sealed /\ Spec => GivesUpRightly
<1> SUFFICES ASSUME Sealed PROVE Spec => GivesUpRightly
  OBVIOUS
<1> DEFINE Rightly == last' # last /\ last'.result = "UNRECOVERABLE" =>
                        Hopeless(meta, last'.cur, Cardinality(last'.held))
<1>1. BroadcastInv /\ [Next]_vars => [Rightly]_vars
  <2> SUFFICES ASSUME BroadcastInv, Next, last' # last, last'.result = "UNRECOVERABLE"
               PROVE  Hopeless(meta, last'.cur, Cardinality(last'.held))
    BY DEF vars, rxVars
  <2>1. SenderInv /\ AirInv /\ ReceiverInv
    BY DEF BroadcastInv
  <2>2. HearChunk \/ HearFin \/ Silence \/ Deadline
    BY DEF Next, Send, Hear, StartImage, SendMeta, SendChunk, SprinkleMeta,
       EndOfChunks, SendFin, SenderAborts, Lost, HearMeta, HearMetaRefused,
       HearMetaAgain, HearNothing, ReceiverResets, rxVars
  <2>3. CASE HearChunk
    <3>1. meta \in Sessions
      BY <2>1, <2>3, HearChunkFacts
    <3>2. PICK r : /\ ImageInv(r) /\ Behind(r, blk, idx) /\ phase = "chunks"
                   /\ Judged(r)
      BY <2>1, <2>3, HearChunkFacts
    <3>3. ~Recoverable(r) /\ last'.cur = r.cur /\ last'.held = DOMAIN r.held
      BY <3>1, <3>2, JudgedFacts
    <3>4. Hopeless(meta, r.cur, HaveInBlock(r))
      BY <2>1, <3>1, <3>2, <3>3, GivenUpIsHopeless DEF ImageInv
    <3>5. QED
      BY <3>3, <3>4 DEF HaveInBlock
  <2>4. CASE Silence
    <3>1. meta \in Sessions /\ ImageInv(rx) /\ ReachedInv /\ ~Recoverable(rx)
      BY <2>1, <2>4, SizeAssumption DEF Silence, ReceiverInv, SenderInv, Sessions
    <3>2. Hopeless(meta, rx.cur, HaveInBlock(rx))
      BY <2>1, <3>1, GivenUpIsHopeless DEF ImageInv, ReachedInv
    <3>3. last'.cur = rx.cur /\ last'.held = DOMAIN rx.held
      BY <2>4 DEF Silence, Return
    <3>4. QED
      BY <3>2, <3>3 DEF HaveInBlock
  <2>5. CASE HearFin \/ Deadline
    <3>1. last'.result \in {"COMPLETE", "INCOMPLETE", "TIMEOUT"}
      BY <2>5 DEF HearFin, Deadline, Return
    <3>2. QED
      BY <3>1
  <2>6. QED
    BY <2>2, <2>3, <2>4, <2>5
<1>2. Spec => []BroadcastInv
  BY BroadcastInvariant
<1>3. QED
  BY <1>1, <1>2, PTL DEF Spec, GivesUpRightly

=============================================================================
