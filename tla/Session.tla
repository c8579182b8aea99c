------------------------------ MODULE Session ------------------------------
(***************************************************************************)
(* One interactive image transfer after another: loraitp_send_image() on   *)
(* one board, loraitp_receive_image() called in a loop on the other, and   *)
(* the radio between them (src/src/loraitp_session.c).                     *)
(*                                                                         *)
(* The sender announces an image with three METAs, sends it block by       *)
(* block, asks after each block with EOB what is missing, repairs what the *)
(* STAT reports and closes with one FIN.  The receiver keeps a bitmap of   *)
(* the current block only, writes chunks to storage as they arrive or,     *)
(* when a block fits its RAM buffer (FecOk), one block at a time, and      *)
(* answers EOB and FIN.                                                    *)
(*                                                                         *)
(* Chunk contents are abstracted to the session they belong to: file[c]=s  *)
(* says that storage holds the bytes of chunk c of session s's image, 0    *)
(* that it still holds the zeros written by preallocation.  The random     *)
(* session nonce is abstracted to the session's number as well, so a frame *)
(* carries `ses` both for its contents and for the key it is sealed with.  *)
(***************************************************************************)
EXTENDS Integers, Sequences, FiniteSets

CONSTANTS
  Size,        \* Size[s]: number of chunks of the image of session s
  ImgId,       \* ImgId[s]: the img_id the application gives that image
  BlockSize,   \* chunks in a block (loraitp_meta_t.block)
  MaxRounds,   \* cfg.max_rounds
  EobRetry,    \* cfg.eob_retry
  FecOk,       \* FecOk[s]: the receiver's scratch buffer holds a block of it
  MacControl,  \* a key is configured: control frames are authenticated
  MacData,     \* LORAITP_CFG_MAC_DATA: DATA frames are authenticated too
  LossBudgets, \* the environments: how many frames the radio may lose in all,
               \* or -1 for a hostile one (see Calm)
  Losable,     \* the frame types a loss budget covers
  Faults       \* the faults of the boards in a hostile environment

ASSUME SizeAssumption ==
  /\ Size \in Seq(Nat \ {0}) /\ Len(Size) > 0
  /\ ImgId \in Seq(Nat) /\ Len(ImgId) = Len(Size)
ASSUME BlockSizeAssumption == BlockSize \in Nat \ {0}
ASSUME LimitAssumption == MaxRounds \in Nat \ {0} /\ EobRetry \in Nat \ {0}
ASSUME ModeAssumption ==
  /\ FecOk \in [1..Len(Size) -> BOOLEAN]
  /\ {MacControl, MacData} \subseteq BOOLEAN
  /\ MacData => MacControl
  /\ LossBudgets \subseteq Nat \cup {-1}

Sessions == 1..Len(Size)
Chunks(s) == 0..(Size[s] - 1)

\* loraitp_meta_n_blocks(), loraitp_meta_block_k() and the chunks of block b
\* of session s's image.
NBlocks(s) == (Size[s] + BlockSize - 1) \div BlockSize
BlockChunks(s, b) == {c \in Chunks(s) : c \div BlockSize = b}

\* Frames.  STAT carries the missing chunks as a set and echoes block and round
\* of the EOB it answers; FINACK carries a status byte.
None == [type |-> "none"]
Meta(s) == [type |-> "META", ses |-> s]
Data(s, c) == [type |-> "DATA", ses |-> s, seq |-> c]
Eob(s, b, r) == [type |-> "EOB", ses |-> s, block |-> b, round |-> r]
Fin(s) == [type |-> "FIN", ses |-> s]
Stat(s, b, r, m) ==
  [type |-> "STAT", ses |-> s, block |-> b, round |-> r, missing |-> m]
Finack(s, st) == [type |-> "FINACK", ses |-> s, status |-> st]

VARIABLES
  (* sender *)
  phase,      \* where loraitp_send_image() is, "idle" outside it
  ses,        \* the session being sent, 0 before the first
  metas,      \* METAs still to send
  blk, round, \* the loop variables b and round
  retry,      \* EOBs sent in this round
  todo,       \* chunks still to send in this round
  confirmed,  \* history: blocks left because a STAT said COMPLETE
  outcome,    \* history: how the last send ended
  (* radio *)
  dn, up,     \* the frame on the air to the receiver, to the sender
  losses,     \* frames that may still be lost, -1: any number
  (* receiver *)
  meta,       \* session of the accepted META, 0 when !have_meta
  cur,        \* c->cur_block
  present,    \* c->present, as the set of chunk numbers of cur
  buf,        \* blockbuf: chunk of cur held in RAM -> session it came from
  have,       \* stats.chunks_have
  file,       \* the open .part file
  reply,      \* the STAT or FINACK waiting in transmit() for the governor
  last        \* what the last loraitp_receive_image() returned

senderVars == <<phase, ses, metas, blk, round, retry, todo, confirmed, outcome>>
rxVars == <<meta, cur, present, buf, have, file, reply, last>>
vars == <<senderVars, dn, up, losses, rxVars>>

NoFile == [c \in {} |-> 0]
\* In a calm environment only so many frames are lost, no board fails, and a
\* timer fires only when nothing it waits for is under way.  In a hostile one
\* any frame is lost, timers run out at any moment, and boards fail.
Calm == losses >= 0

NoResult == [result |-> "NONE", ses |-> 0, file |-> NoFile, held |-> {}]

Init ==
  /\ phase = "idle" /\ ses = 0 /\ metas = 0 /\ blk = 0 /\ round = 0
  /\ retry = 0 /\ todo = {} /\ confirmed = {} /\ outcome = "none"
  /\ dn = None /\ up = None /\ losses \in LossBudgets
  /\ meta = 0 /\ cur = 0 /\ present = {} /\ buf = NoFile /\ have = 0
  /\ file = NoFile /\ reply = None /\ last = NoResult

(***************************************************************************)
(* The sender: loraitp_send_image() in interactive mode.                   *)
(***************************************************************************)

\* A frame passes loraitp_unseal(): its type is not authenticated, or it was
\* sealed under the nonce the listener holds.
AuthenticMut(m, nonce) == TRUE
Authentic(m, nonce) ==
  \/ ~MacControl
  \/ m.type = "META"
  \/ m.type = "DATA" /\ ~MacData
  \/ m.ses = nonce

\* The start of block b, or of FIN after the last block.
EnterBlock(b) ==
  IF b < NBlocks(ses)
  THEN /\ phase' = "data" /\ blk' = b /\ round' = 0
       /\ todo' = BlockChunks(ses, b)
  ELSE phase' = "fin" /\ UNCHANGED <<blk, round, todo>>

StartImage ==
  /\ phase = "idle" /\ dn = None /\ ses < Len(Size)
  /\ ses' = ses + 1 /\ phase' = "meta" /\ metas' = 3
  /\ confirmed' = {} /\ outcome' = "none"
  /\ UNCHANGED <<blk, round, retry, todo, dn, up, losses, rxVars>>

SendMeta ==
  /\ phase = "meta" /\ dn = None /\ metas > 0
  /\ dn' = Meta(ses) /\ metas' = metas - 1
  /\ UNCHANGED <<phase, ses, blk, round, retry, todo, confirmed, outcome,
                 up, losses, rxVars>>

FirstBlock ==
  /\ phase = "meta" /\ dn = None /\ metas = 0
  /\ EnterBlock(0)
  /\ UNCHANGED <<ses, metas, retry, confirmed, outcome,
                 dn, up, losses, rxVars>>

SendChunk ==
  /\ phase = "data" /\ dn = None
  /\ \E c \in todo :
       /\ \A d \in todo : c <= d
       /\ dn' = Data(ses, c)
       /\ todo' = todo \ {c}
       /\ phase' = IF todo = {c} THEN "eob" ELSE "data"
  /\ retry' = 0
  /\ UNCHANGED <<ses, metas, blk, round, confirmed, outcome,
                 up, losses, rxVars>>

SendEob ==
  /\ phase = "eob" /\ dn = None
  /\ dn' = Eob(ses, blk, round)
  /\ retry' = retry + 1 /\ phase' = "stat"
  /\ UNCHANGED <<ses, metas, blk, round, todo, confirmed, outcome,
                 up, losses, rxVars>>

StatBlockMut(m) == m.round = round
StatMatches(m) == m.block = blk /\ m.round = round

NextRoundMut == round
NextRound == round + 1

\* A STAT for this block and round: repair what it names, or go on.
TakeStat ==
  /\ phase = "stat" /\ dn = None /\ up.type = "STAT"
  /\ Authentic(up, ses) /\ StatMatches(up)
  /\ LET missing == up.missing \cap BlockChunks(ses, blk) IN
       IF missing # {} /\ NextRound < MaxRounds
       THEN /\ phase' = "data" /\ round' = NextRound /\ todo' = missing
            /\ UNCHANGED blk
       ELSE EnterBlock(blk + 1)
  /\ confirmed' = confirmed \cup (IF up.missing = {} THEN {blk} ELSE {})
  /\ up' = None
  /\ UNCHANGED <<ses, metas, retry, outcome, dn, losses, rxVars>>

\* Nothing that a waiting sender could hear is under way.
Silent == up = None /\ reply = None

EobsLeftMut == retry <= EobRetry
EobsLeft == retry < EobRetry

\* receive() returned anything else: ask again, or give the block up.
MissStat ==
  /\ phase = "stat" /\ dn = None
  /\ Calm /\ up = None => Silent
  /\ up.type = "STAT" => ~(Authentic(up, ses) /\ StatMatches(up))
  /\ IF EobsLeft
     THEN phase' = "eob" /\ UNCHANGED <<blk, round, todo>>
     ELSE EnterBlock(blk + 1)
  /\ up' = None
  /\ UNCHANGED <<ses, metas, retry, confirmed, outcome, dn, losses, rxVars>>

SendFin ==
  /\ phase = "fin" /\ dn = None
  /\ dn' = Fin(ses) /\ phase' = "finack"
  /\ UNCHANGED <<ses, metas, blk, round, retry, todo, confirmed, outcome,
                 up, losses, rxVars>>

\* One receive() after FIN, whatever it returns ends the session.  The code
\* returns LORAITP_OK for "acked" and for "silent" alike.
Finish ==
  /\ phase = "finack" /\ dn = None
  /\ Calm /\ up = None => Silent
  /\ outcome' = IF up.type = "FINACK" /\ Authentic(up, ses)
                THEN IF up.status = 0 THEN "acked" ELSE "partial"
                ELSE "silent"
  /\ phase' = "idle" /\ up' = None
  /\ UNCHANGED <<ses, metas, blk, round, retry, todo, confirmed,
                 dn, losses, rxVars>>

\* radio_send() failed and loraitp_send_image() returned its error, or the
\* sending board was reset.
SenderAborts ==
  /\ ~Calm /\ "abort" \in Faults /\ phase # "idle" /\ dn = None
  /\ phase' = "idle" /\ outcome' = "error"
  /\ UNCHANGED <<ses, metas, blk, round, retry, todo, confirmed,
                 dn, up, losses, rxVars>>

(***************************************************************************)
(* The radio.  A frame on the air is heard, lost, or meets a deaf board.   *)
(***************************************************************************)
Lose(frame) ==
  /\ frame # None
  /\ Calm => losses > 0 /\ frame.type \in Losable
  /\ losses' = IF Calm THEN losses - 1 ELSE losses

\* A board turns to receive when its own frame is over, and cannot make out a
\* frame that was already on the air then.
UpOnceListening == IF phase \in {"stat", "finack"} THEN None ELSE up

DnLost ==
  /\ Lose(dn) /\ dn' = None
  /\ up' = UpOnceListening
  /\ UNCHANGED <<senderVars, rxVars>>

UpLost ==
  /\ Lose(up) /\ up' = None
  /\ UNCHANGED <<senderVars, dn, rxVars>>

\* The receiver is inside transmit(): waiting for the governor, or sending.
DnUnheard ==
  /\ dn # None /\ (reply # None \/ up # None)
  /\ dn' = None
  /\ up' = UpOnceListening
  /\ UNCHANGED <<senderVars, losses, rxVars>>

\* The sender is transmitting, between sessions or asleep.
UpUnheard ==
  /\ up # None /\ phase \notin {"stat", "finack"}
  /\ up' = None
  /\ UNCHANGED <<senderVars, dn, losses, rxVars>>

(***************************************************************************)
(* The receiver: loraitp_receive_image(), called again each time it        *)
(* returns (run_receiver() in firmware/app/main.cpp).                      *)
(***************************************************************************)

\* c->fec_ok, judged when the image was announced.
Buffered == meta # 0 /\ FecOk[meta]

\* flush_block(): with a block buffer the chunks of the current block reach
\* storage here and only here; without one they are there already.
FlushedFile ==
  IF Buffered THEN [c \in DOMAIN file |-> IF c \in present THEN buf[c] ELSE file[c]]
  ELSE file
FlushedHaveMut ==
  IF Buffered THEN have + Cardinality(BlockChunks(meta, cur)) ELSE have
FlushedHave == IF Buffered THEN have + Cardinality(present) ELSE have

\* A frame of block b: flush_block() and reset_block() when b is not cur_block.
Turned(b) ==
  IF b = cur
  THEN [file |-> file, have |-> have, present |-> present, buf |-> buf]
  ELSE [file |-> FlushedFile, have |-> FlushedHave,
        present |-> {}, buf |-> NoFile]

\* receive() returned the frame on the air, of the given type.
Hears(type) ==
  /\ dn.type = type /\ reply = None /\ up = None
  /\ Authentic(dn, meta)
  /\ dn' = None

\* A META is taken up when no image is being received, or another one.
Announces(s) == meta # 0 => ImgId[meta] # ImgId[s]

\* A META of an image not being received yet: image_begin() discards the
\* previous attempt's file and opens and preallocates a new one.
HearMeta ==
  /\ Hears("META")
  /\ Announces(dn.ses)
  /\ meta' = dn.ses
  /\ cur' = 0 /\ present' = {} /\ buf' = NoFile /\ have' = 0
  /\ file' = [c \in Chunks(dn.ses) |-> 0]
  /\ UNCHANGED <<senderVars, up, losses, reply, last>>

\* image_begin() refuses (no room, no file): no store, no transfer.
HearMetaRefused ==
  /\ ~Calm /\ "store" \in Faults
  /\ Hears("META")
  /\ Announces(dn.ses)
  /\ meta' = 0 /\ file' = NoFile
  /\ cur' = 0 /\ present' = {} /\ buf' = NoFile /\ have' = 0
  /\ UNCHANGED <<senderVars, up, losses, reply, last>>

HearMetaAgain ==
  /\ Hears("META")
  /\ ~Announces(dn.ses)
  /\ UNCHANGED <<senderVars, up, losses, rxVars>>

\* Without a block buffer a chunk goes straight to its place in the file, and
\* counts, unless the bitmap has it already.
Fresh(c, held) == c \notin held
WrittenMut(f, c, s) == [f EXCEPT ![c % BlockSize] = s]
Written(f, c, s) == [f EXCEPT ![c] = s]

\* The slots of a block are its chunks: loraitp.h, parity_percent, "broadcast
\* mode; 0 in interactive", so n_parity adds none.
HearData ==
  /\ meta # 0 /\ Hears("DATA")
  /\ LET b == dn.seq \div BlockSize
         t == Turned(b)
         wanted == dn.seq \in Chunks(meta)
     IN /\ cur' = b
        /\ present' = IF wanted THEN t.present \cup {dn.seq} ELSE t.present
        /\ IF wanted /\ Buffered
           THEN /\ buf' = [c \in present' |->
                            IF c = dn.seq THEN dn.ses ELSE t.buf[c]]
                /\ file' = t.file /\ have' = t.have
           ELSE IF wanted /\ Fresh(dn.seq, t.present)
           THEN /\ file' = Written(t.file, dn.seq, dn.ses)
                /\ have' = t.have + 1 /\ buf' = t.buf
           ELSE file' = t.file /\ have' = t.have /\ buf' = t.buf
  /\ UNCHANGED <<senderVars, up, losses, meta, reply, last>>

\* The chunks of block b that the bitmap lacks.
MissingInvMut(b, held) == BlockChunks(meta, b) \cap held
MissingMut(b, held) ==
  {c \in BlockChunks(meta, b) \ held : c + 1 \in BlockChunks(meta, b)}
Missing(b, held) == BlockChunks(meta, b) \ held

\* EOB: report what the bitmap of that block does not hold.
HearEob ==
  /\ meta # 0 /\ Hears("EOB")
  /\ LET t == Turned(dn.block) IN
       /\ cur' = dn.block /\ present' = t.present /\ buf' = t.buf
       /\ file' = t.file /\ have' = t.have
       /\ reply' = Stat(meta, dn.block, dn.round,
                       Missing(dn.block, t.present))
  /\ UNCHANGED <<senderVars, up, losses, meta, last>>

BeforeFlushMut(count) == have = Size[meta]
CompleteMut(count) == count >= Size[meta] - 1
Complete(count) == count = Size[meta]

\* FIN: flush, and judge the image by the number of chunks counted.
HearFin ==
  /\ meta # 0 /\ Hears("FIN")
  /\ file' = FlushedFile /\ have' = FlushedHave
  /\ reply' = Finack(meta, IF Complete(have') THEN 0 ELSE 2)
  /\ UNCHANGED <<senderVars, up, losses, meta, cur, present, buf, last>>

\* Before a META nothing is interpretable; a frame under another nonce is
\* somebody else's.
HearNothing ==
  /\ dn # None /\ reply = None /\ up = None
  /\ dn.type # "META"
  /\ meta = 0 \/ ~Authentic(dn, meta)
  /\ dn' = None
  /\ UNCHANGED <<senderVars, up, losses, rxVars>>

\* What the receiver holds of the image: in storage, or still in RAM.
Held == {c \in DOMAIN file : file[c] # 0} \cup present

\* image_end() closes the file, loraitp_receive_image() returns and is
\* called again.
Return(result) ==
  /\ last' = [result |-> result, ses |-> meta, file |-> file, held |-> Held]
  /\ meta' = 0 /\ have' = 0 /\ file' = NoFile
  /\ cur' = 0 /\ present' = {} /\ buf' = NoFile

\* The governor lets the reply out, after a wait nobody bounds but the hour.
SendReply ==
  /\ reply # None /\ up = None
  /\ up' = reply /\ reply' = None
  /\ IF reply.type = "FINACK"
     THEN Return(IF reply.status = 0 THEN "COMPLETE" ELSE "INCOMPLETE")
     ELSE UNCHANGED <<meta, cur, present, buf, have, file, last>>
  /\ UNCHANGED <<senderVars, dn, losses>>

\* The session timeout ran out: the loop is left without a flush.  (A call that
\* times out before any META changes nothing; `last` keeps the last call that
\* took an image up.)
TimedOutMut == meta # 0 /\ reply = None /\ have = 0
TimedOut == meta # 0 /\ reply = None
Deadline ==
  /\ TimedOut
  /\ Calm => phase = "idle" /\ dn = None /\ up = None
  /\ Return("TIMEOUT")
  /\ UNCHANGED <<senderVars, dn, up, losses, reply>>

\* The receiving board is reset: the .part file is removed at start-up.
ReceiverResets ==
  /\ ~Calm /\ "reset" \in Faults
  /\ meta' = 0 /\ cur' = 0 /\ present' = {} /\ buf' = NoFile /\ have' = 0
  /\ file' = NoFile /\ reply' = None
  /\ UNCHANGED <<senderVars, dn, up, losses, last>>

----------------------------------------------------------------------------
Send == \/ StartImage \/ SendMeta \/ FirstBlock \/ SendChunk \/ SendEob
        \/ TakeStat \/ MissStat \/ SendFin \/ Finish
Hear == \/ HearMeta \/ HearMetaRefused \/ HearMetaAgain
        \/ HearData \/ HearEob \/ HearFin \/ HearNothing
Air == DnLost \/ UpLost \/ DnUnheard \/ UpUnheard

Next == \/ Send \/ SenderAborts \/ Hear \/ SendReply \/ Deadline
        \/ ReceiverResets \/ Air

Spec == Init /\ [][Next]_vars

\* Time passes: the sender's loop and its timers run, a frame's time on air
\* ends at the receiver or nowhere, the governor releases a reply within the
\* hour, and the session timeout runs out.  Nothing makes the radio lose a
\* frame, or a board fail.
Fairness ==
  /\ WF_vars(Send) /\ WF_vars(SendReply) /\ WF_vars(Deadline)
  /\ WF_vars(Hear \/ DnUnheard) /\ WF_vars(UpUnheard)
FairSpec == Spec /\ Fairness

(***************************************************************************)
(* What must hold.                                                         *)
(***************************************************************************)
Rounds == 0..(MaxRounds - 1)
Frames ==
  {None} \cup [type : {"META", "FIN"}, ses : Sessions]
  \cup [type : {"DATA"}, ses : Sessions, seq : Nat]
  \cup [type : {"EOB"}, ses : Sessions, block : Nat, round : Rounds]
Replies ==
  {None} \cup [type : {"FINACK"}, ses : Sessions, status : {0, 2}]
  \cup [type : {"STAT"}, ses : Sessions, block : Nat, round : Rounds,
        missing : SUBSET Nat]

SenderTypes ==
  /\ phase \in {"idle", "meta", "data", "eob", "stat", "fin", "finack"}
  /\ ses \in 0..Len(Size) /\ metas \in 0..3
  /\ blk \in Nat /\ round \in Rounds /\ retry \in 0..EobRetry
  /\ todo \subseteq Nat /\ confirmed \subseteq Nat
  /\ outcome \in {"none", "acked", "partial", "silent", "error"}
AirTypes ==
  /\ dn \in Frames /\ up \in Replies /\ reply \in Replies
  /\ losses \in Nat \cup {-1}
FileTypes ==
  /\ meta \in 0..Len(Size) /\ cur \in Nat /\ have \in Nat
  /\ present \subseteq DOMAIN file
  /\ meta = 0 => file = NoFile
  /\ meta # 0 => file \in [Chunks(meta) -> 0..Len(Size)]
  /\ buf \in [IF Buffered THEN present ELSE {} -> Sessions]
LastTypes ==
  /\ last.result \in {"NONE", "COMPLETE", "INCOMPLETE", "TIMEOUT"}
  /\ last.ses \in 0..Len(Size) /\ last.held \subseteq DOMAIN last.file

\* The types of all variables.
TypeOK == SenderTypes /\ AirTypes /\ FileTypes /\ LastTypes

\* loraitp.h: RX_COMPLETE means "all chunks present, image CRC verified".
\* The receiver only counts chunks and never computes the CRC, so this says
\* that the count cannot be fooled: a COMPLETE file holds every chunk of the
\* image announced and no byte of another image.
CompleteIsWhole ==
  last.result = "COMPLETE" => \A c \in Chunks(last.ses) : last.file[c] = last.ses

\* chunks_have is a counter, incremented in three places; it always equals
\* the number of chunks storage holds, however often blocks are left,
\* repaired and flushed.
HaveIsStored ==
  meta # 0 => have = Cardinality({c \in DOMAIN file : file[c] # 0})

\* A block the sender left because a STAT said COMPLETE is in the receiver's
\* hands for as long as the receiver is in that session.
ConfirmedIsHeld ==
  meta # 0 /\ meta = ses =>
    \A b \in confirmed : BlockChunks(ses, b) \subseteq Held

\* A FINACK with status 0 tells the sender the truth: the receiver has
\* returned this very image, and every byte of it is in the file.
AckedIsWhole ==
  outcome = "acked" =>
    last.ses = ses /\ \A c \in Chunks(ses) : last.file[c] = ses

\* SPEC.md 3.6: FINACK "reports [...] 0x02 = incomplete".  A sender that heard
\* so, and returns an error, has not mistaken an image that arrived: the receiver
\* returned this very image as INCOMPLETE, and with its RAM buffer written out a
\* chunk is missing from the file.
PartialIsMissing ==
  outcome = "partial" =>
    /\ last.ses = ses /\ last.result = "INCOMPLETE"
    /\ \E c \in Chunks(ses) : last.file[c] = 0

\* After a FIN nothing is left in the RAM buffer: what the verdict was given on
\* is what the file holds.
FinWritesOut ==
  last.result \in {"COMPLETE", "INCOMPLETE"} =>
    \A c \in last.held : last.file[c] # 0

\* SPEC.md 5.3: "The receiver always writes out what it has" - what it heard
\* of an image is in the file when loraitp_receive_image() returns.
WrittenOut == \A c \in last.held : last.file[c] # 0

\* Airtime is the scarce resource: in a repair round the sender only repeats
\* chunks the receiver does not have.
RepairIsNeeded ==
  [][dn' # dn /\ dn'.type = "DATA" /\ round > 0 /\ meta = ses
       => dn'.seq \notin Held]_vars

\* What is stored of an image stays: while the session lasts no stored chunk
\* is replaced by bytes of another image.
StoredStays ==
  [][meta # 0 /\ meta' = meta =>
       \A c \in DOMAIN file : file[c] # 0 => file'[c] = file[c]]_vars

\* loraitp_send_image() returns: every wait has a timer, every retry a bound.
SenderReturns == phase # "idle" ~> phase = "idle"

\* loraitp_receive_image() returns once an image has been announced.
ReceiverReturns == meta # 0 ~> meta = 0

\* In a calm environment, with fewer losses than META copies, EOB retries and
\* repair rounds can absorb, the image arrives whole and the sender's session
\* ends.
Repaired ==
  phase = "meta" /\ Calm ~> last.ses = ses /\ last.result = "COMPLETE" /\ phase = "idle"

\* The receiver keeps the promise of ImageTransfer.
Transfer == INSTANCE ImageTransfer WITH
  Image <- Sessions,
  ChunksOf <- Chunks,
  open <- meta,
  stored <- {<<c, file[c]>> : c \in {x \in DOMAIN file : file[x] # 0}},
  verdict <- [image |-> last.ses, result |-> last.result,
              stored |-> {<<c, last.file[c]>> :
                          c \in {x \in DOMAIN last.file : last.file[x] # 0}}]
ImplementsTransfer == Transfer!Spec

=============================================================================
