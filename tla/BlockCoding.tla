---------------------------- MODULE BlockCoding ----------------------------
(***************************************************************************)
(* One block on its way, byte by byte where Session and Broadcast take a   *)
(* set or a number: how long its frames are and what the radio is told to  *)
(* send of them, how a STAT says what is missing, and what the erasure     *)
(* code makes of the frames that arrived.                                  *)
(*                                                                         *)
(* Without parity the block is sent and repaired round by round, as        *)
(* loraitp_send_image() and loraitp_receive_image() do it interactively;   *)
(* with parity it is sent once and restored from what was heard.           *)
(***************************************************************************)
EXTENDS StatCodec, ErasureCode

CONSTANT Jobs
  \* The blocks to send, each a record:
  \*   k, r, base      chunks, parity chunks, number of the first chunk
  \*   bursts          how often the radio may fall silent
  \*   lost            chunk frames the radio loses the first time
  \*   sf, khz, cr     spreading factor, bandwidth, coding rate
  \*   keyed, macData  a key is configured; LORAITP_CFG_MAC_DATA is set
  \*   tail            bytes of the last chunk, 0 for a full one

VARIABLES
  job,    \* the block being sent
  chunk,  \* cfg.chunk_len
  todo,   \* chunk frames still to send, by their place in the block
  got,    \* the bitmap `present`
  fades,  \* bursts of losses left
  fading, \* the last frame was lost
  stat,   \* the last STAT: what was meant, its encoding, what was understood
  out,    \* what became of a block sent with parity
  air     \* the last chunk frame: its length, the bytes sent, microseconds

vars == <<job, chunk, todo, got, fades, fading, stat, out, air>>

MaxFrame == 255
MaxToaUs == 2000 * 1000
DataHdr == 4
MacLen == 4

(***************************************************************************)
(* Lengths.                                                                *)
(***************************************************************************)

\* loraitp_time_on_air_us() with a preamble of 8, in microseconds; a symbol
\* is a whole number of them at 125, 250 and 500 kHz.
TimeOnAirUs(len, j) ==
  LET sym == (1000 * 2^j.sf) \div j.khz
      lowRate == IF sym > 16380 THEN 1 ELSE 0
      den == 4 * (j.sf - 2 * lowRate)
      blocks == (8 * len - 4 * j.sf + 44 + den - 1) \div den
  IN (sym * 49) \div 4 + sym * (8 + blocks * (j.cr + 4))

\* loraitp_max_payload_for_toa(): the last length before the first that is
\* too long, and 1 at least.
MaxPayload(j) ==
  LET over == {len \in 1..MaxFrame : TimeOnAirUs(len, j) > MaxToaUs} IN
    IF over = {} THEN MaxFrame
    ELSE LET first == CHOOSE len \in over : \A l \in over : len <= l
         IN IF first = 1 THEN 1 ELSE first - 1

\* loraitp_init(): cfg.chunk_len when the application leaves it at zero.
ChunkLenMut(j) == MaxPayload(j)
ChunkLen(j) == IF MaxPayload(j) > DataHdr THEN MaxPayload(j) - DataHdr ELSE 1

\* chunk_len_at() for a source chunk; parity chunks are full.
PayloadLen(slot) ==
  IF slot = job.k - 1 /\ job.tail # 0 THEN job.tail ELSE chunk

\* loraitp_encode_data() and loraitp_seal().
Sealed(slot) ==
  DataHdr + PayloadLen(slot) + (IF job.keyed /\ job.macData THEN MacLen ELSE 0)

\* transmit() hands the radio, and the estimate of its airtime, (uint8_t)len.
OnAir(slot) ==
  LET sent == Sealed(slot) % 256 IN
    [len |-> Sealed(slot), sent |-> sent, us |-> TimeOnAirUs(sent, job)]

(***************************************************************************)
(* The block.                                                              *)
(***************************************************************************)
NoStat == [enc |-> "NONE", body |-> <<>>, meant |-> <<>>, told |-> <<>>]
NotYet == [done |-> FALSE]
DataByte(i) == (37 * i + 11) % 256   \* the image: any bytes, all different

Init ==
  /\ job \in Jobs
  /\ chunk = ChunkLen(job)
  /\ todo = Upto(job.k + job.r)
  /\ got = {} /\ fades = job.bursts /\ fading = FALSE
  /\ stat = NoStat /\ out = NotYet
  /\ air = [len |-> 0, sent |-> 0, us |-> 0]

Doomed == IF stat = NoStat THEN job.lost ELSE {}

\* The next chunk frame leaves the antenna, and is heard or not.
SendFrame ==
  /\ todo # <<>>
  /\ todo' = Tail(todo) /\ air' = OnAir(Head(todo))
  /\ \/ got' = got \cup ({Head(todo)} \ Doomed) /\ fading' = FALSE /\ UNCHANGED fades
     \/ /\ fading \/ fades > 0
        /\ fading' = TRUE /\ fades' = (IF fading THEN fades ELSE fades - 1)
        /\ UNCHANGED got
  /\ UNCHANGED <<job, chunk, stat, out>>

\* The receiver's answer to an EOB lists the chunks without a bit, in order.
Missing ==
  LET slots == SelectSeq(Upto(job.k), LAMBDA i : i \notin got) IN
    [n \in DOMAIN slots |-> job.base + slots[n]]

\* What the sender keeps of it is what belongs to the block.
Kept(told) ==
  LET own == SelectSeq(told, LAMBDA c : c >= job.base /\ c < job.base + job.k)
  IN [n \in DOMAIN own |-> own[n] - job.base]

\* EOB and STAT: the next round sends what the sender understood is missing.
Ask ==
  /\ todo = <<>> /\ job.r = 0 /\ stat.enc # "COMPLETE"
  /\ \E enc \in {ChooseEnc(Missing, job.base)} :
     \E body \in {EncodeBody(enc, Missing, job.base)} :
     \E told \in {DecodeBody(enc, body, job.base)} :
       /\ stat' = [enc |-> enc, body |-> body, meant |-> Missing, told |-> told]
       /\ todo' = Kept(told)
  /\ fading' = FALSE
  /\ UNCHANGED <<job, chunk, got, fades, out, air>>

\* flush_block() of a buffered block: source chunks that did not arrive are
\* decoded from the others if there are k frames in all.
ParityOf == Encode([j \in 0..(job.k - 1) |-> DataByte(j)], job.k, job.r)
Frames ==
  [i \in 0..(job.k + job.r - 1) |->
     IF i < job.k THEN DataByte(i) ELSE ParityOf[i - job.k]]
Flush ==
  /\ todo = <<>> /\ job.r > 0 /\ ~out.done
  /\ \E frames \in {Frames} :
       out' = IF Cardinality(got) >= job.k
              THEN [done |-> TRUE, from |-> Decode(frames, got, job.k, job.r)]
              ELSE [done |-> TRUE, from |-> [ok |-> FALSE]]
  /\ UNCHANGED <<job, chunk, todo, got, fades, fading, stat, air>>

Next == SendFrame \/ Ask \/ Flush
Spec == Init /\ [][Next]_vars

(***************************************************************************)
(* What must hold.                                                         *)
(***************************************************************************)

\* A repair round sends exactly the chunks the receiver lacks, whichever
\* encoding the STAT used and whichever block it is about (loraitp_bitmap.c:
\* a bitmap decoded "against a base of zero is wrong for every block but the
\* first").
StatTellsMissing ==
  /\ stat.told = stat.meant
  /\ stat.enc = "COMPLETE" => Missing = <<>>

\* The sender waits for four times the airtime of a 48-byte STAT
\* (loraitp_send_image(): stat_toa), so no STAT may be longer, whatever is
\* missing, with its header of 9 bytes and its MAC.
StatWindow == 48
StatFitsWindow == 9 + Len(stat.body) + MacLen <= StatWindow

\* loraitp_fec.c: "every k x k submatrix of [I ; C] is invertible": any k frames
\* of a block give back every source chunk as it was, fewer than k nothing.
AnyKRestores ==
  out.done =>
    /\ out.from.ok <=> Cardinality(got) >= job.k
    /\ out.from.ok => \A i \in 0..(job.k - 1) : out.from.chunks[i] = DataByte(i)

\* loraitp_config.h: LORAITP_MAX_TOA_MS is the "cap on time on air per frame";
\* with the chunk length loraitp_init() derives from it, every chunk frame
\* leaves whole, MAC included, and within the cap.
FrameFits == air.sent = air.len /\ air.us <= MaxToaUs

=============================================================================
