----------------------------- MODULE Broadcast -----------------------------
(***************************************************************************)
(* One broadcast after another: loraitp_send_image() in broadcast mode on  *)
(* one board, loraitp_receive_image() called in a loop on another, and a   *)
(* radio that only carries frames one way (src/src/loraitp_session.c).     *)
(*                                                                         *)
(* The sender emits every block as its k source chunks and then r parity   *)
(* chunks, with METAs in front and sprinkled through and three FINs behind,*)
(* and hears nothing.  The receiver collects one block at a time, restores *)
(* it when it leaves it if any k of its k + r frames arrived, and has to   *)
(* decide by itself when it is done and when listening is pointless.       *)
(*                                                                         *)
(* The erasure code is abstracted to what ErasureCode checks of it: any k  *)
(* frames of one block of one session restore the block.  Contents and the *)
(* session nonce are abstracted to the session's number, as in Session.    *)
(***************************************************************************)
EXTENDS Integers, Sequences, FiniteSets

CONSTANTS
  Size,       \* Size[s]: number of chunks of the image of session s
  ImgId,      \* ImgId[s]: its img_id
  BlockSize,  \* chunks in a block (loraitp_meta_t.block)
  Percent,    \* cfg.parity_percent
  MetaEvery,  \* a META is sprinkled in after so many chunk frames (16)
  FecOk,      \* FecOk[s]: the receiver's scratch buffer holds a block of it
  MacControl, \* a key is configured: control frames are authenticated
  MacData,    \* LORAITP_CFG_MAC_DATA: chunk frames are authenticated too
  Environments, \* TRUE: the calm one, FALSE: the hostile one (see Lost)
  Faults      \* the faults of the boards in a hostile environment

ASSUME SizeAssumption ==
  /\ Size \in Seq(Nat \ {0}) /\ Len(Size) > 0
  /\ ImgId \in Seq(Nat) /\ Len(ImgId) = Len(Size)
\* With a parity chunk a block has at most 255 frames (loraitp_config.h).
ASSUME BlockAssumption ==
  /\ BlockSize \in 1..255 /\ Percent \in Nat \ {0}
  /\ MetaEvery \in Nat \ {0}
ASSUME ModeAssumption ==
  /\ FecOk \in [1..Len(Size) -> BOOLEAN]
  /\ {MacControl, MacData} \cup Environments \subseteq BOOLEAN

Sessions == 1..Len(Size)
Chunks(s) == 0..(Size[s] - 1)
Least(a, b) == IF a <= b THEN a ELSE b

\* loraitp_meta_n_blocks(), and the chunks of block b: its number k of them
\* (loraitp_meta_block_k()), none behind the last block.
NBlocks(s) == (Size[s] + BlockSize - 1) \div BlockSize
BlockK(s, b) ==
  IF b < NBlocks(s) THEN Least(Size[s] - b * BlockSize, BlockSize) ELSE 0

\* meta.n_parity, computed by the sender from the first block's k, rounded up,
\* for every block of the image.
NParity(s) ==
  LET k == Least(Size[s], BlockSize)
      r == (k * Percent + 99) \div 100
  IN IF k + r > 255 THEN 255 - k ELSE r

BlockFrames(s, b) == BlockK(s, b) + NParity(s)

\* The frames of the blocks before b.
FramesBefore(s, b) == Least(b * BlockSize, Size[s]) + b * NParity(s)

\* Frames.  A chunk frame carries the sequence number of its kind.
None == [type |-> "none"]
Meta(s) == [type |-> "META", ses |-> s]
Fin(s) == [type |-> "FIN", ses |-> s]
Data(s, c) == [type |-> "DATA", ses |-> s, seq |-> c]
Parity(s, c) == [type |-> "PARITY", ses |-> s, seq |-> c]
IsChunk(f) == f.type \in {"DATA", "PARITY"}

VARIABLES
  (* sender *)
  phase,    \* where loraitp_send_image() is: idle, meta, chunks, fin
  ses,      \* the session being sent, 0 before the first
  left,     \* METAs or FINs still to send
  blk, idx, \* the loop variables b and i, parity chunks counted on from k
  since,    \* since_meta
  (* radio *)
  calm,     \* the environment
  spare,    \* calm: frames of this block that may still be lost
  dn,       \* the frame on the air
  (* receiver *)
  meta,     \* session of the accepted META, 0 when !have_meta
  rx,       \* the rest of the context, see NewImage
  last      \* what the last loraitp_receive_image() returned

senderVars == <<phase, ses, left, blk, idx, since>>
rxVars == <<meta, rx, last>>
vars == <<senderVars, calm, spare, dn, rxVars>>

NoFile == [c \in {} |-> 0]

\* The receiver's context.  held: the bitmap `present` of the current block,
\* slot by slot with the session the bytes came from, k source slots and then
\* the parity slots; elapsed: max_ordinal + 1, or 0 when !saw_any; history:
\* the blocks entered, and blocks_lost when this image was announced.
Opened(s, lost) ==
  [cur |-> 0, held |-> NoFile, elapsed |-> 0, have |-> 0, lost |-> lost,
   file |-> [c \in Chunks(s) |-> 0], entered |-> {0}, carried |-> lost]
\* At the start of a call, or without a store: nothing is open.
Closed(lost) == [Opened(1, lost) EXCEPT !.file = NoFile]

NoResult == [result |-> "NONE", ses |-> 0, file |-> NoFile, held |-> {},
             cur |-> 0, entered |-> {}, carried |-> 0]

Init ==
  /\ phase = "idle" /\ ses = 0 /\ left = 0 /\ blk = 0 /\ idx = 0 /\ since = 0
  /\ calm \in Environments /\ spare = 0 /\ dn = None
  /\ meta = 0 /\ rx = Closed(0) /\ last = NoResult

(***************************************************************************)
(* The sender: loraitp_send_image() in broadcast mode.  It never listens;  *)
(* a frame is sent when the one before it is off the air.                  *)
(***************************************************************************)
StartImage ==
  /\ phase = "idle" /\ dn = None /\ ses < Len(Size)
  /\ ses' = ses + 1 /\ phase' = "meta" /\ left' = 3
  /\ UNCHANGED <<blk, idx, since, calm, spare, dn, rxVars>>

SendMeta ==
  /\ phase = "meta" /\ dn = None
  /\ dn' = Meta(ses) /\ left' = left - 1
  /\ IF left = 1
     THEN phase' = "chunks" /\ blk' = 0 /\ idx' = 0 /\ since' = 0
     ELSE UNCHANGED <<phase, blk, idx, since>>
  /\ UNCHANGED <<ses, calm, spare, rxVars>>

\* The frame of loop position idx in block blk.
ChunkFrame ==
  LET k == BlockK(ses, blk) IN
    IF idx < k THEN Data(ses, blk * BlockSize + idx)
    ELSE Parity(ses, blk * NParity(ses) + (idx - k))

SendChunk ==
  /\ phase = "chunks" /\ dn = None
  /\ blk < NBlocks(ses) /\ since < MetaEvery
  /\ dn' = ChunkFrame /\ since' = since + 1
  /\ spare' = IF idx = 0 THEN NParity(ses) ELSE spare
  /\ IF idx + 1 < BlockFrames(ses, blk)
     THEN idx' = idx + 1 /\ blk' = blk
     ELSE idx' = 0 /\ blk' = blk + 1
  /\ UNCHANGED <<phase, ses, left, calm, rxVars>>

\* A receiver that comes late learns from it what is being sent.
SprinkleMeta ==
  /\ phase = "chunks" /\ dn = None /\ since = MetaEvery
  /\ dn' = Meta(ses) /\ since' = 0
  /\ UNCHANGED <<phase, ses, left, blk, idx, calm, spare, rxVars>>

EndOfChunks ==
  /\ phase = "chunks" /\ dn = None
  /\ blk = NBlocks(ses) /\ since < MetaEvery
  /\ phase' = "fin" /\ left' = 3
  /\ UNCHANGED <<ses, blk, idx, since, calm, spare, dn, rxVars>>

SendFin ==
  /\ phase = "fin" /\ dn = None
  /\ dn' = Fin(ses) /\ left' = left - 1
  /\ phase' = IF left = 1 THEN "idle" ELSE "fin"
  /\ UNCHANGED <<ses, blk, idx, since, calm, spare, rxVars>>

\* transmit() of a META in front or of a chunk failed, or the sender's own scratch
\* buffer is too small, and loraitp_send_image() returned the error; or the
\* sending board was reset.
SenderAborts ==
  /\ ~calm /\ "abort" \in Faults /\ phase # "idle" /\ dn = None
  /\ phase' = "idle"
  /\ UNCHANGED <<ses, left, blk, idx, since, calm, spare, dn, rxVars>>

(***************************************************************************)
(* The radio.  A hostile one loses any frame.  A calm one loses at most r  *)
(* chunk frames of a block, and neither all METAs in front of an image nor *)
(* all its FINs.                                                           *)
(***************************************************************************)
Lost ==
  /\ dn # None
  /\ calm => \/ IsChunk(dn) /\ spare > 0
             \/ ~IsChunk(dn) /\ (left > 0 \/ (phase = "chunks" /\ blk + idx > 0))
  /\ dn' = None
  /\ spare' = IF calm /\ IsChunk(dn) THEN spare - 1 ELSE spare
  /\ UNCHANGED <<senderVars, calm, rxVars>>

(***************************************************************************)
(* The receiver: loraitp_receive_image() in broadcast mode.                *)
(***************************************************************************)

\* A frame passes loraitp_unseal(): its type is not authenticated, or it was
\* sealed under the nonce the receiver took from the META.
Authentic(f, nonce) ==
  \/ ~MacControl
  \/ f.type = "META"
  \/ IsChunk(f) /\ ~MacData
  \/ f.ses = nonce

Hears(f) == dn = f /\ f # None /\ dn' = None
Understood == meta # 0 /\ Authentic(dn, meta)

\* loraitp_frame_ordinal() and the place of a chunk frame, by the counts of
\* the image the receiver believes to be in.
BlockOf(f) ==
  f.seq \div (IF f.type = "PARITY" THEN NParity(meta) ELSE BlockSize)
SlotMut(f) ==
  IF f.type = "PARITY" THEN BlockSize + (f.seq % NParity(meta))
  ELSE f.seq % BlockSize
Slot(f) ==
  IF f.type = "PARITY" THEN BlockK(meta, BlockOf(f)) + (f.seq % NParity(meta))
  ELSE f.seq % BlockSize
Ordinal(f) == FramesBefore(meta, BlockOf(f)) + Slot(f)

Buffered == FecOk[meta]
Sources(b) == 0..(BlockK(meta, b) - 1)
HaveInBlock(r) == Cardinality(DOMAIN r.held)

\* loraitp_fec_decode(): the missing chunks come out of the first k slots held,
\* as garbage (-1) if those are fewer, or not all of one session.
FirstHeld(r) ==
  {i \in DOMAIN r.held :
     Cardinality({j \in DOMAIN r.held : j < i}) < BlockK(meta, r.cur)}
Decoded(r, i) ==
  IF i \in DOMAIN r.held THEN r.held[i]
  ELSE LET origins == {r.held[j] : j \in FirstHeld(r)} IN
         IF Cardinality(FirstHeld(r)) = BlockK(meta, r.cur) /\ Cardinality(origins) = 1
         THEN CHOOSE s \in origins : TRUE ELSE -1

\* The source chunks that flush_block() finds or restores.
RestoredMut(r) == Sources(r.cur) \cap DOMAIN r.held
RestoredEarlyMut(r) ==
  IF HaveInBlock(r) + 1 >= BlockK(meta, r.cur) THEN Sources(r.cur)
  ELSE Sources(r.cur) \cap DOMAIN r.held
Restored(r) ==
  IF Buffered /\ HaveInBlock(r) >= BlockK(meta, r.cur) THEN Sources(r.cur)
  ELSE Sources(r.cur) \cap DOMAIN r.held

\* chunks_have and blocks_lost, when the block is left with these chunks.
Counted(r, got) == IF Buffered THEN r.have + Cardinality(got) ELSE r.have
LostCountMut(r, got) == r.lost
LostCount(r, got) == IF got = Sources(r.cur) THEN r.lost ELSE r.lost + 1

\* flush_block(): with a buffer the chunks of the block reach storage here and
\* only here; without one they are there, and no parity is held.
Flush(r) ==
  LET got == Restored(r) IN
    [r EXCEPT !.file = IF Buffered
                       THEN [c \in DOMAIN r.file |->
                               IF c \div BlockSize = r.cur /\ c % BlockSize \in got
                               THEN Decoded(r, c % BlockSize) ELSE r.file[c]]
                       ELSE r.file,
              !.have = Counted(r, got),
              !.lost = LostCount(r, got)]

\* A frame of another block: flush_block() and reset_block().
Turn(r, b) ==
  IF b = r.cur THEN r
  ELSE [Flush(r) EXCEPT !.cur = b, !.held = NoFile,
                        !.entered = r.entered \cup {b}]

\* The chunk goes to its slot: into the buffer, or straight to storage, once,
\* when there is none; parity is of no use then.
Keep(r, f) ==
  LET slot == Slot(f)
      kept == [i \in DOMAIN r.held \cup {slot} |->
                 IF i = slot THEN f.ses ELSE r.held[i]]
  IN IF Buffered THEN [r EXCEPT !.held = kept]
     ELSE IF slot \in DOMAIN r.held THEN r
     ELSE [r EXCEPT !.held = kept, !.have = r.have + 1,
                    !.file = [c \in DOMAIN r.file \cup {f.seq} |->
                                IF c = f.seq THEN f.ses ELSE r.file[c]]]

\* frames_sent_for_block() and loraitp_rx_still_recoverable().
FramesSentMut(r) == BlockFrames(meta, r.cur)
FramesSent(r) ==
  LET start == FramesBefore(meta, r.cur) IN
    IF r.elapsed <= start THEN 0
    ELSE Least(r.elapsed - start, BlockFrames(meta, r.cur))
Recoverable(r) ==
  HaveInBlock(r) + BlockFrames(meta, r.cur) - FramesSent(r)
    >= BlockK(meta, r.cur)

\* image_end(), and loraitp_receive_image() returns and is called again.
Return(result, r) ==
  /\ last' = [result |-> result, ses |-> meta, file |-> r.file,
              held |-> DOMAIN r.held, cur |-> r.cur,
              entered |-> r.entered, carried |-> r.carried]
  /\ meta' = 0 /\ rx' = Closed(0)

\* A META is taken up when no image is being received, or another one.
Announces(s) == meta # 0 => ImgId[meta] # ImgId[s]

\* image_begin() discards the previous attempt's file and opens a new one;
\* blocks_lost is left as it is.
HearMeta(s) ==
  /\ Hears(Meta(s)) /\ Announces(s)
  /\ meta' = s /\ rx' = Opened(s, rx.lost)
  /\ UNCHANGED <<senderVars, calm, spare, last>>

\* image_begin() refuses: no store, no transfer.
HearMetaRefused(s) ==
  /\ ~calm /\ "store" \in Faults
  /\ Hears(Meta(s)) /\ Announces(s)
  /\ meta' = 0 /\ rx' = Closed(rx.lost)
  /\ UNCHANGED <<senderVars, calm, spare, last>>

HearMetaAgain(s) ==
  /\ Hears(Meta(s)) /\ ~Announces(s)
  /\ UNCHANGED <<senderVars, calm, spare, rxVars>>

\* What is left behind when the block is beyond repair.
GivenUpMut(r) == r
GivenUp(r) == Flush(r)

\* The verdict on the frame taken in: the last block is whole, or the current
\* one is beyond repair, or the receiver goes on listening.  (\E over one value
\* stands for LET, so that TLC computes the value once.)
Judged(r) ==
  \E f \in {Flush(r)} :
    IF r.cur + 1 = NBlocks(meta) /\ HaveInBlock(r) >= BlockK(meta, r.cur)
    THEN Return(IF f.lost > 0 THEN "INCOMPLETE" ELSE "COMPLETE", f)
    ELSE IF Recoverable(r) THEN rx' = r /\ UNCHANGED <<meta, last>>
    ELSE Return("UNRECOVERABLE", GivenUp(r))

\* max_ordinal, and whether anything was seen, after a frame.
Passed(r, f) ==
  [r EXCEPT !.elapsed = IF Ordinal(f) >= @ THEN Ordinal(f) + 1 ELSE @]

\* DATA or PARITY.  Without a buffer a parity chunk leaves the loop before the
\* verdict.
HearChunk ==
  /\ IsChunk(dn) /\ Understood
  /\ Hears(dn)
  /\ \E r \in {Turn(Passed(rx, dn), BlockOf(dn))} :
       IF \/ Slot(dn) >= BlockFrames(meta, BlockOf(dn))
          \/ ~Buffered /\ dn.type = "PARITY"
       THEN rx' = r /\ UNCHANGED <<meta, last>>
       ELSE \E kept \in {Keep(r, dn)} : Judged(kept)
  /\ UNCHANGED <<senderVars, calm, spare>>

\* FIN: flush, and judge the image by the number of chunks counted.
HearFin ==
  /\ dn.type = "FIN" /\ Understood
  /\ Hears(dn)
  /\ \E f \in {Flush(rx)} :
       Return(IF f.have = Size[meta] THEN "COMPLETE" ELSE "INCOMPLETE", f)
  /\ UNCHANGED <<senderVars, calm, spare>>

\* Before a META nothing is interpretable; a frame under another nonce is
\* somebody else's.
HearNothing ==
  /\ Hears(dn) /\ dn.type # "META"
  /\ ~Understood
  /\ UNCHANGED <<senderVars, calm, spare, rxVars>>

\* A minute without a frame, while the sender waits for its budget or the
\* frames are lost: give up if the block is beyond repair, without a flush.
Silence ==
  /\ meta # 0 /\ ~Recoverable(rx)
  /\ Return("UNRECOVERABLE", rx)
  /\ UNCHANGED <<senderVars, calm, spare, dn>>

\* The session timeout ran out: the loop is left without a flush.
TimedOut == meta # 0
Deadline ==
  /\ TimedOut
  /\ calm => phase = "idle" /\ dn = None
  /\ Return("TIMEOUT", rx)
  /\ UNCHANGED <<senderVars, calm, spare, dn>>

\* The receiving board is reset.
ReceiverResets ==
  /\ ~calm /\ "reset" \in Faults
  /\ meta' = 0 /\ rx' = Closed(0)
  /\ UNCHANGED <<senderVars, calm, spare, dn, last>>

----------------------------------------------------------------------------
Send == \/ StartImage \/ SendMeta \/ SendChunk \/ SprinkleMeta
        \/ EndOfChunks \/ SendFin
Hear == \/ \E s \in Sessions : HearMeta(s) \/ HearMetaRefused(s) \/ HearMetaAgain(s)
        \/ HearChunk \/ HearFin \/ HearNothing

Next == Send \/ SenderAborts \/ Lost \/ Hear \/ Silence \/ Deadline
        \/ ReceiverResets

Spec == Init /\ [][Next]_vars

\* The sender's loop runs, a frame's time on air ends, and the receiver's
\* session timeout runs out.  Nothing makes the radio lose a frame or keep
\* silent, or a board fail.
Fairness ==
  WF_vars(Send) /\ WF_vars(Hear) /\ WF_vars(Lost \/ Hear) /\ WF_vars(Deadline)
FairSpec == Spec /\ Fairness

(***************************************************************************)
(* What must hold.                                                         *)
(***************************************************************************)
Frames ==
  {None} \cup [type : {"META", "FIN"}, ses : Sessions]
  \cup [type : {"DATA", "PARITY"}, ses : Sessions, seq : Nat]
Results == {"NONE", "COMPLETE", "INCOMPLETE", "UNRECOVERABLE", "TIMEOUT"}

\* The types of all variables: the bitmap has no bit beyond the k + r slots of
\* its block, and no more chunks or frames are counted than the image has.
TypeOK ==
  /\ phase \in {"idle", "meta", "chunks", "fin"}
  /\ ses \in 0..Len(Size) /\ left \in 0..3
  /\ blk \in Nat /\ idx \in Nat /\ since \in 0..MetaEvery
  /\ calm \in BOOLEAN /\ spare \in Nat /\ dn \in Frames
  /\ meta \in 0..Len(Size)
  /\ {rx.cur, rx.have, rx.lost, rx.elapsed, rx.carried} \subseteq Nat
  /\ meta # 0 => /\ DOMAIN rx.held \subseteq 0..(BlockFrames(meta, rx.cur) - 1)
                 /\ Chunks(meta) \subseteq DOMAIN rx.file
                 /\ rx.have <= Size[meta]
                 /\ rx.elapsed <= FramesBefore(meta, NBlocks(meta))
  /\ last.result \in Results /\ last.ses \in 0..Len(Size)

Whole(v) == \A c \in Chunks(v.ses) : v.file[c] = v.ses
ChunksOfBlock(s, b) == {c \in Chunks(s) : c \div BlockSize = b}

\* loraitp.h: RX_COMPLETE means "all chunks present, image CRC verified".
CompleteIsWhole == last.result = "COMPLETE" => Whole(last)

\* The verdicts, as exactly as the code gives them.  COMPLETE: every block of
\* which any frame was heard is whole - a block skipped from end to end is
\* never counted as lost.  INCOMPLETE: some chunk is missing, unless an image
\* before this one, in the same call, lost a block.
VerdictIsExact ==
  /\ last.result = "COMPLETE" =>
       \A b \in last.entered :
         \A c \in ChunksOfBlock(last.ses, b) : last.file[c] = last.ses
  /\ last.result = "INCOMPLETE" => ~Whole(last) \/ last.carried > 0

\* chunks_have counts what storage holds, chunks restored from parity
\* included, each once; and what storage holds is the announced image.
HaveIsStored ==
  meta # 0 => /\ rx.have = Cardinality({c \in DOMAIN rx.file : rx.file[c] # 0})
              /\ \A c \in DOMAIN rx.file : rx.file[c] \in {0, meta}

\* SPEC.md 5.3: "The receiver always writes out what it has."  Whenever a call
\* returns other than by its timeout, every source chunk heard of the current
\* block is in the file, and the whole block if any k of its frames were heard.
WritesOut ==
  last.result \in {"COMPLETE", "INCOMPLETE", "UNRECOVERABLE"} =>
    LET k == BlockK(last.ses, last.cur)
        restorable == FecOk[last.ses] /\ Cardinality(last.held) >= k
    IN \A i \in 0..(k - 1) :
         i \in last.held \/ restorable
           => last.file[last.cur * BlockSize + i] # 0

\* loraitp_session.c: "we never abandon a block that was still recoverable".
\* When a call gives up, the frames of the current block that the sender has
\* not sent yet would not have been enough, had all of them been heard.
Unsent(s, b) ==
  IF ses # s \/ phase \in {"idle", "fin"} \/ blk > b THEN 0
  ELSE IF blk < b \/ phase = "meta" THEN BlockFrames(s, b)
  ELSE BlockFrames(s, b) - idx
Hopeless(s, b, n) == n + Unsent(s, b) < BlockK(s, b)
GivesUpRightly ==
  [][last' # last /\ last'.result = "UNRECOVERABLE"
       => Hopeless(meta, last'.cur, Cardinality(last'.held))]_vars

\* loraitp.h: "Once that holds for every block, the receiver powers down"; it
\* listens "while at least one block is still recoverable".
GivesUpLast ==
  [][last' # last /\ last'.result = "UNRECOVERABLE"
       => \A b \in 0..(NBlocks(meta) - 1) : b > last'.cur =>
            Hopeless(meta, b, 0)]_vars

\* "r parity chunks recover exactly r losses": if no block loses more than r of
\* its frames, and a META and a FIN get through, a receiver with room for a
\* block reports the image COMPLETE and has all of it.
Recovers ==
  \A s \in Sessions :
    (phase = "meta" /\ ses = s /\ calm /\ FecOk[s])
      ~> (last.ses = s /\ last.result = "COMPLETE" /\ Whole(last))

\* loraitp_receive_image() returns once an image has been announced.
ReceiverReturns == meta # 0 ~> meta = 0

=============================================================================
