# LoRaITP in TLA+

LoRaITP sends JPEG pictures over LoRa: a protocol core in C (`src/src`), ports
to a radio and to flash (`src/port`), and ESP32 firmware that ties them together
(`src/firmware/app`). This directory models the parts whose correctness depends
on order, loss, failure and time, checks them with TLC on small instances, and
proves the safety properties of the session, the broadcast, the governor, the budget
mirror, the store, the schedule and the log for every value of the constants with TLAPS.

Paths below are relative to the repository's root, the directory that holds
`SPEC.md`; `PROJECT.json` maps every definition to its source lines.

## 1. The system

| Part | Code | State it keeps | Operations | Model |
|---|---|---|---|---|
| Interactive session, sender | `src/loraitp_session.c`, `loraitp_send_image()` | loop variables (block, round, retry), chunks still to send | announce, send block, EOB/STAT repair, FIN/FINACK | `Session` |
| Interactive session, receiver | same file, `loraitp_receive_image()` | accepted META, current block, its bitmap and RAM buffer, `chunks_have`, the open file | META, DATA, EOB, FIN, timeout | `Session` |
| Broadcast session | same two functions, FEC path | place in the chunk loop; block buffer, slots held, highest ordinal, `blocks_lost` | DATA, parity, METAs and FINs without a back channel; flush, give up, return | `Broadcast` |
| Frame authentication | `src/loraitp_mac.c` | session nonce | seal, unseal | in `Session` and `Broadcast` (`Authentic`), its length in `BlockCoding` |
| Frame codec, STAT bitmap | `src/loraitp_frame.c`, `src/loraitp_bitmap.c` | none | encode, decode | counts and ordinals in `Session` and `Broadcast`; lengths in `BlockCoding`, the STAT encodings in `StatCodec` |
| Forward error correction, CRC | `src/loraitp_fec.c`, `src/loraitp_crc.c` | none | arithmetic | `ErasureCode`; CRC not modelled |
| Duty-cycle governor | `src/loraitp_governor.c`, `transmit()` | ring of sent frames, `blocked_until`, last identification | delay, record, query, IDENT | `Governor` |
| Budget mirror | `firmware/app/main.cpp`, `loraitp_gov_export/import()` | RTC copy of the window | mirror, restore, deep sleep | `BudgetMirror` |
| Image store | `port/loraitp_store.c` | images, sidecars, `.part` files, next number, open file | begin, end, finish, prune, init | `Store` |
| Application loop | `firmware/app/main.cpp` | role, `next_run_ms`, context or none, wake-up cause | `setup()`, `loop()`, `maybe_deep_sleep()`, `make_image()`, `run_sender()`, `run_receiver()` | schedule in `Board`, the calls in `Store` and `BudgetMirror` |
| Web page, settings | `firmware/app/webui.cpp`, `appcfg.cpp` | access point, last activity, the stored settings | send now, save and restart, reboot, drop when idle; polls of the log | in `Board`, the log page in `DebugLog` |
| Radio port | `port/port_radiolib.cpp` | interrupt flag | send, receive, sleep | what callers see of it in `Session` and `Governor`; the flag not modelled |
| Debug log | `firmware/app/debuglog.cpp`, the log page in `webui.cpp` | ring of lines, `g_next_seq`; the page's `since` | write, read after N, poll, show | `DebugLog` |
| Camera, simulator, tools | `firmware/app`, `sim`, `tools` | | | not modelled |

How the parts meet. The session calls the port through function pointers:
`radio_send`, `radio_receive`, `now_ms`, `sleep_ms`, and `image_begin`,
`image_write`/`image_read`, `image_end`, which the store implements. Every
transmission passes `transmit()`, which asks the governor how long to wait,
sleeps, sends and records the airtime; its trace callback makes the firmware
mirror the window into RTC memory. `run_sender()` and `run_receiver()` drive one
image each and then finish the file in the store.

What is hard here: a half-duplex radio that loses any frame in either direction
while both ends count retries and rounds; answers held back for up to an hour by
the governor; one image after another with a receiver that may have missed the
end of the last; a 32-bit millisecond clock on stations that stay up for months;
resets at any moment, with airtime and pictures that must survive them. What
makes each part correct is stated as properties in its module and listed run by
run in section 4; `PROJECT.json` lists the hazards with the line where each
bites.

## 2. Modules

### Session (and MCSession, ImageTransfer, SessionProofs)

One action per step of the two loops. The sender's `phase` is the place in
`loraitp_send_image()`: `meta` (three METAs), `data` (the chunks of a round),
`eob` and `stat` (ask and wait), `fin` and `finack`. `StartImage`, `SendMeta`,
`FirstBlock`, `SendChunk`, `SendEob`, `TakeStat`, `MissStat`, `SendFin` and
`Finish` move it on, `SenderAborts` is a failed `transmit()` or a reset. The
receiver's handlers are `HearMeta` (and `HearMetaRefused`, when `image_begin()`
fails, `HearMetaAgain`), `HearData`, `HearEob`, `HearFin` and `HearNothing`; each
performs the block change the code does first (`Turned`: `flush_block()` and
`reset_block()`). `SendReply` is the receiver's `transmit()` of a STAT or FINACK,
`Deadline` the session timeout, `ReceiverResets` a reboot. `dn` and `up` are the
frame on the air in each direction: at most one each, since a board sends one
frame at a time and the radio does not store any. `DnLost`, `UpLost`, `DnUnheard`
and `UpUnheard` are how a frame fails to be heard.

Abstractions. A chunk's bytes are the number of the session they belong to, and
so is the nonce a frame is sealed with: nonces are random, and two sessions are
taken never to share one. A STAT carries the set of missing chunks (the three
encodings of the bitmap are in `StatCodec`). An image's length, sizes and CRC are
not modelled: the receiver never computes the CRC. `chunks_total` is `Size`.
The receiver's RAM buffer holds a block or not per image, as `c->fec_ok` is set
when an image is announced. Interactive mode carries no parity (`loraitp.h`:
"broadcast mode; 0 in interactive"), so the slots of a block are its chunks.

`ImageTransfer` is what a receiver promises: an image is opened, its stored part
only grows and consists of its own chunks, and COMPLETE is said exactly when it
is whole. `Session!ImplementsTransfer` states that `Session` implements it under
the refinement mapping open = `meta`, stored = the chunks in the file, verdict =
what `loraitp_receive_image()` last returned.

### Governor and BudgetMirror (and their MC modules, GovernorProofs, MirrorProofs)

`Governor` is `loraitp_governor.c` under `transmit()`: `Ask` computes the wait and
nothing recomputes it, `Emit` puts the frame on the air, `Record` enters what was
measured, `SendFailed` is a `radio_send()` that missed the end of the frame.
`now` is real time and the code sees it modulo `Wrap`, as a signed difference
(`Delta`). `log` is a history of what really was on the air, so that the
properties speak of the regulation and not of the governor's own figures. One
tick stands for a span of milliseconds; frame lengths, window and wrap are
multiples of it. A duty cycle is `1 / Ratio`.

`BudgetMirror` EXTENDS `Governor` with the board around it: mirror after each frame
and while idle, deep sleep with its last mirror, the timer's wake-up, early
resets, crashes while idle, while sending, and before or in the middle of a
mirror. `lost` grows by what no record accounts for: one frame when a frame was
not mirrored, the window when the snapshot is torn or its ages are wrong.

### Store (and MCStore, StoreProofs)

`Store` takes `loraitp_store.c` file operation by file operation, because power
may fail between any two of them: opening the `.part`, rename, sidecar, and the
removal of an old image and of its sidecar. `app` is the place in
`run_sender()`, `run_receiver()` or `loraitp_store_finish()`. A file's contents
are the number of the picture it holds. `Crash` is followed by
`loraitp_store_init()`, which removes `.part` files, takes the next number from
the directory and prunes. Writing the sidecar is one step (a sidecar torn by a
power failure is not told apart from a missing one), `remove()` does not fail,
and numbers do not wrap.

### Broadcast (and MCBroadcast, BroadcastProofs)

The same two functions in broadcast mode. The sender's `phase`, `blk`, `idx` and
`since` are its loop: three METAs, for each block its k source chunks and r parity
chunks with a META after every `MetaEvery` frames, three FINs. `n_parity` comes
from the first block and holds for every block, the short last one included.
`SenderAborts` is a failed `transmit()`, a scratch buffer too small, or a reset.

The receiver's context is the record `rx`: current block, the slots held with the
session their bytes came from, highest ordinal, counters, the file. `HearChunk`
does what one DATA or PARITY frame does in order: the ordinal, the change of block
(`Turn`: `flush_block()` and `reset_block()`), the slot, and the verdict (`Judged`).
`HearFin`, `Silence` (a minute without a frame, or one that failed its MAC) and
`Deadline` are the other ways to return. `last` is what the call returned, with two
histories: the blocks it entered and the `blocks_lost` it carried into the image.

The erasure code is "any k frames of one block of one session restore it"; frames of
two sessions in one buffer decode to garbage (-1). `ErasureCode` is the other half.

### StatCodec, ErasureCode, BlockCoding (and MCBlockCoding)

`StatCodec` translates the three encodings of `loraitp_bitmap.c` (nothing missing, a
list, a bitmap), the choice between them and their decoding, as functions of the
base, the window and the set of missing chunks. `ErasureCode` translates
`loraitp_fec.c`: the field GF(256) from its log tables, the Cauchy rows, encoding,
Gauss-Jordan inversion and decoding, on chunks of one byte (all bytes of a chunk
go through the same steps). `BlockCoding` walks one block through them: pick a
radio setting and a block, send, lose any frames, then either decode what is left or
answer with a STAT; it also computes the frame lengths that `loraitp_init()` derives
the chunk from (`loraitp_time_on_air_us()` in `loraitp_session.c`). The largest blocks,
of 256 chunks, lose a fixed pattern (`lost`) rather than any frames.

### Board (and MCBoard, BoardProofs)

`Board` is the schedule: `setup()`, `loop()` and `maybe_deep_sleep()` on one core, the
page on the other, RESET and the wake-up timer around them. `pc` is the place in
`loop()`; the step between the comparison of `next_run_ms` and the second reading in
`maybe_deep_sleep(next_run_ms - millis())` is one of its own (`SleepUntilDue`),
because the page may write `next_run_ms` in between. A transfer is reduced to the
time it takes, a configuration to its role, its interval, whether it sleeps, whether
its region has a duty cycle, whether the radio accepts it and whether the page fades
when idle.

`setup()` takes its time (`SettingUp`, up to `MaxSetup`): flash, settings, camera and
radio are brought up on each start by the timer, though the two seconds for a USB host
are skipped there. `next_run_ms` is set from the clock at its end, so each wake-up is
late by that time and nothing makes up for it; the period of a board in deep sleep is
its interval and one `setup()`. `spent` is that time and `PeriodKept` states it. What
the boot ROM takes before the counter starts comes on top and is not in the model. The
histories `agreed`, `due` (real time to the next transfer) and `up` (real time since
`setup()` ended, as far as `Settle`) are what the properties measure by; `up` rather
than the counter, because the counter looks young again for half of each turn.
Between the comparison of `next_run_ms` and its second reading the loop may be held up
for up to `MaxLapse`; a transfer that falls due in that time is no longer `agreed`, and
what becomes of it is `board_oversleeps`.

### DebugLog (and MCDebugLog, DebugLogProofs)

The radio core writes lines into the ring (`Write`) while `h_log()` on the other core
reads it, one locked copy at a time (`StartRead`, `ReadLine`, `Answer`); its first look
at `g_next_seq` is outside the lock. `Poll` and `Show` are the two halves of
`pollLog()`; `Restart` loses the ring and starts its numbers again under a page that
stays. A line is a number over all starts (`base` counts the earlier ones), so that a
line under a wrong number is told from the right one. The text of an answer is reduced
to whether it parses. `g_next_seq` is no volatile: the value `Answer` returns is the
one the loop ended on, as a compiler that optimises has it.

## 3. Plan

Done: `Session`, `ImageTransfer`, `Governor` with the IDENT rule, `BudgetMirror`,
`Store`, `Broadcast`, `StatCodec`, `ErasureCode`, `BlockCoding`, `Board`, `DebugLog`;
proofs about `Session` with its refinement of `ImageTransfer`, `Store`, `Broadcast`,
`Governor`, `BudgetMirror`, `Board` and `DebugLog`. Every invariant and action property
of a passing run is a theorem now, but for those of `coding` (section 5).

## 4. Runs

Deadlock checking is off everywhere: the models have a last image, a last moment,
a last picture or a last coded block, after which the program would go on and the
model stops. `Board` has no end; a pass of `loop()` that changes nothing is no step
of it, and its fairness properties say what cannot stop.

| Run | Instance | What it shows |
|---|---|---|
| `session_keyed` | images of 5 and 3 chunks, blocks of 2, 3 rounds, 2 EOBs, the first image buffered, the second not; control frames authenticated; any frame lost, any timer at any moment, aborts, resets, refused files | `CompleteIsWhole`, `AckedIsWhole`: verdicts are true on both sides. `PartialIsMissing`: nor is a sender told of an incomplete image that arrived. `ConfirmedIsHeld`: no block is left on the word of another session, round or block. `RepairIsNeeded`: a repair sends only what is missing |
| `session_sealed` | images of 3, 2 and 3 chunks, the first two under one `img_id`; all frames authenticated; the same faults | `HaveIsStored`, `FinWritesOut`: counter, bitmap, buffer and file agree however blocks are left and repaired. `ImplementsTransfer`: the refinement, and with it that an image's file takes no bytes of another |
| `session_live` | one image of 5 chunks, 3 rounds, 3 EOBs, buffered; no keys; both environments | `SenderReturns`, `ReceiverReturns` whatever is lost; `Repaired` with at most two losses |
| `governor_window` | window 8, duty cycle 1/2, two slots, frames of 1 to 5, wrap at 48, time to 54, one failed send; an amateur row that identifies itself every 6 | `WindowKept`, `NeverUnderstated`, `WaitBounded` across the wrap and through folded slots; `Identifies`: no amateur frame without an IDENT in the interval before it |
| `mirror_reboots` | window 6, two slots, a snapshot of one, two reboots, all faults | `OneFrameBehind`: what is forgotten is what `lost` says. `OneBudgetPerBoot`: at worst one budget for each start. `OffTimeKept`, also across reboots |
| `store_ring` | two images kept, six pictures, both roles, all faults | `RingBound`, `NewestLast`, `SidecarDescribes`, `SendsTheCapture`, `FinishedIsKept` |
| `broadcast` | images of three blocks and of one, the first to a receiver with room for a block, the second to one without; blocks of 3, 30 % parity; all frames authenticated; hostile and calm | `VerdictIsExact`, `HaveIsStored`, `WritesOut`: verdict, counters, buffer and file agree however the call ends. `GivesUpRightly`: no block abandoned that could still be restored. `Recovers`: within the reach of the parity the image arrives whole |
| `broadcast_skipped` | one image, losses only | violated `CompleteIsWhole` |
| `coding` | codes of 1 to 4 chunks with 1 to 3 parity chunks and of 6 with 3, any frames lost; STATs for blocks of 20 with two bursts of loss and of 34 with one, and for the largest blocks (256 chunks, 255 in the last one) with six patterns of loss, among them those where a list gives way to a bitmap, at both ends of the 16-bit chunk numbers; every spreading factor with three bandwidths and two coding rates | `AnyKRestores`: any k frames give the block back. `StatTellsMissing`, `StatFitsWindow`: a STAT says what is missing and fits its frame. `FrameFits`: a frame is sent whole and within the airtime cap |
| `sealed_overflow` | chunks sealed at every spreading factor | violated `FrameFits` |
| `board` | eight settings somebody may type: senders that sleep or not, with and without a duty cycle, with no interval and with one to be clamped, one the radio refuses, receivers whose page fades or does not; resets, a radio that fails to start; `setup()` of up to 2, a hold-up of up to 2 | `PeriodKept`: a transfer nobody asked for starts on time, or after a deep sleep late by `setup()` and no more. `NeverDeaf`: a receiver that is up listens but for the settling after `setup()`. `HeadlessSleeps`: a refused board nobody can reach sleeps again |
| `log_ring` | a ring of three slots, eight lines, two polls under way, restarts | `AnswerIsTheLog`: what the reader hands out is right, and complete but for what was overwritten |

Why the bounds are enough. An image of five chunks in blocks of two has a first,
a middle and a short last block, so blocks are entered, left and re-entered in
every way the code distinguishes; two sessions are enough for a stale frame or a
stale receiver, and three put an image with a reused id between two others. Two
EOBs are a first question and a retry, three rounds a repair of a repair. Two
ring slots make every third frame fold, a snapshot of one slot folds on every
export, a wrap of 48 with time to 54 takes every comparison across the wrap, and
six pictures turn a ring of two over twice with every crash point between.
Eight lines lap a ring of three twice while one answer is being read. `MaxTime`,
`MaxBoots`, `MaxPics`, `MaxLost`, `MaxLines` and `MaxPolls` bound the models, not the code.
`MaxIdle` is an assumption about the application: a station that transmits at
least that often, less than half a wrap apart; `governor_wrap.cfg` drops it.
In `broadcast` an image has a first, a middle and a short last block, one parity
chunk a block, and a META between two blocks; in `board` a transfer may be longer
than the period, a sleep longer or shorter than the floor and the window, and the
clock of 24 wraps many times: its states are finite and time has no end. A hold-up of 2
(`MaxLapse`) is enough to pass the moment a transfer falls due, a `setup()` of 2
(`MaxSetup`) to tell one that took time from one that took none.

`HeadlessSleeps` holds for intervals no shorter than the sleep floor (with a shorter one
`maybe_deep_sleep()` declines and the loop looks again every 30 seconds), and for
starts that reach the end of `setup()`: `die()`, for a flash that does not mount, is
left out.

Environments of `Session`. A hostile one (`LossBudgets` holds -1) loses any frame,
lets any timer run out at any moment and fails the boards; safety is checked
there. A calm one has a loss budget, and a timer fires only when nothing it
waits for is under way: timers are long compared with a frame and its answer,
except when the governor holds the answer back, which the hostile environment
covers.

`Broadcast`'s calm environment loses at most r chunk frames of each block, not all
METAs in front of an image and not all its FINs, and its session timeout fires only
when the sender is done; its hostile one is unrestricted.

Fairness (`FairSpec`). The sender's loop runs, a reply leaves the governor
within the hour, the session timeout runs out (`WF` on `Send`, `SendReply`,
`Deadline`): the code waits with timers only, never for an event without one. A
frame on the air ends heard or unheard (`WF` on `Hear \/ DnUnheard` and on
`UpUnheard`). Nothing is assumed about losses, aborts, resets or refusals.
`Broadcast` likewise: the sender's loop, the frame on the air, the timeout.
`Board`: the loop runs, the web task polls, time passes, `setup()` ends and the
wake-up timer fires; nobody has to press, browse or reset anything.

### What the violated properties show

- `broadcast_skipped`: a block of which no frame is heard is never entered, so never
  flushed and never counted in `blocks_lost`; the last block then ends the call with
  COMPLETE, documented as "all chunks present, image CRC verified".
- `sealed_overflow`: `loraitp_init()` sizes chunks without the four bytes of the MAC.
  At SF7 to SF9 a sealed chunk frame has 259 bytes, `transmit()` casts that to 3, and
  nothing of the chunk goes out; at SF10 the frame is on the air for 2.009 s, above
  the cap of 2 s.

Counterexamples kept beside the runs. Each of these configurations states one
property the code breaks; `tlc -config X.cfg M` shows how.

| Configuration, module | Property | What happens |
|---|---|---|
| `session_lost_fin`, `MCSession` | `WrittenOut` | on the session timeout the receiver leaves its loop without `flush_block()`, and the block in RAM never reaches the file; `SPEC.md`: "The receiver always writes out what it has" |
| `session_mixed`, `MCSession` | `CompleteIsWhole` | without keys, a receiver that missed a FIN and the next METAs takes the next image's DATA for the old one, counts to `chunks_total` and reports COMPLETE; no CRC is computed |
| `governor_wrap`, `MCGovernor` | `WaitBounded` | after 24.9 silent days `blocked_until`, never reset, lies in the future of the signed comparison, and the next frame waits for weeks |
| `mirror_early_reset`, `MCBudgetMirror` | `NeverLooser` | the restore adds the whole planned sleep whatever ended it, and a board reset early in a deep sleep forgets airtime still in the window |
| `store_timeout`, `MCStore` | `KeptUntilPushedOut` | after a timeout `run_receiver()` skips `loraitp_store_finish()`; the file in place has no sidecar and its number is given away again |
| `store_wedged`, `MCStore` | `ClosedWhenReady` | a failed `transmit()` returns from `loraitp_send_image()` without `image_end()`; the store stays open and refuses every capture from then on |
| `broadcast_abandons`, `MCBroadcast` | `GivesUpLast` | one block beyond repair ends the reception although later blocks are still to come; `loraitp.h` has the receiver listen "while at least one block is still recoverable" |
| `board_oversleeps`, `MCBoard` | `SleepsUntilDue` | a press, or a hold-up of a millisecond or more, between the comparison and the second reading makes `next_run_ms - millis()` wrap, and the board sleeps for 49.7 days |
| `board_refused`, `MCBoard` | `PageOutlivesRefusal` | with deep sleep set, a board whose configuration is refused goes to sleep three seconds after RESET and takes the page down, though `main.cpp` says "The recovery mechanism has to outlive the thing it recovers from" |
| `log_unread`, `MCDebugLog` | `AnswersShown` | `log_cb()` takes "longer than one character" for "not the first line", but `h_log()` begins the text with ten: every answer with a line starts its list with a comma, is no JSON and is thrown away; `since` never moves, the log page stays empty, and `log_ring` reads from the oldest line only |
| `board_lost_press`, `MCBoard` | `PressTaken` | a press while a transfer runs is overwritten by the next period when it ends |

Met while modelling, and left without a run: the receiver returns TIMEOUT
("nothing heard" in `loraitp.h`) also after it stored chunks; the sender compares
block and round of a STAT but not its session, which matters without keys; a
frame longer than the whole budget is not refused but sent; a frame whose
TX-done interrupt was missed is not recorded (`lost` in `Governor`); the mirror is
written in place, so a reset in the middle loses the whole window (`torn` in
`BudgetMirror`); when the rename of a capture fails, the picture before it is sent
(`SendsTheCapture` is stated for captures that reached flash).

In broadcast mode: `blocks_lost` is not reset when a META of another image arrives
in the same call, and that image is then INCOMPLETE however whole it is (`carried`
in `VerdictIsExact`); a sprinkled META heard after an early COMPLETE opens the
same image a second time, over the file just finished; TIMEOUT leaves without a
flush here too, and is left out of `WritesOut`; `SPEC.md` 5.1 speaks of a META every
32 frames, the code sends one every 16. `Identifies` holds while no send fails: an
IDENT is noted as sent before it is, and its failure is ignored; `SPEC.md` 6.4 wants
an IDENT at the end of a session too, and the code only sends one when due.

The round of a STAT matters only with a channel that delays frames: in this
half-duplex model a STAT of an earlier round for the same block is never heard
late enough to be wrong, and it is the comparison of the block that
`ConfirmedIsHeld` depends on.

## 5. Proofs

Seven modules hold the theorems of one model each and EXTEND it. `FiniteIntegers`
has the lemmas that several of them need: a non-empty finite set of integers has a
least and a greatest member, and what an interval counts; quotient and remainder.

### Session

`SessionProofs` proves, for images of any number and size, any block size, retry
limits, buffer and faults, under the named assumptions of `Session` on its
constants:

- `TypesHold`: `Spec => []TypeOK`.
- `FinFlushes`: `Spec => []FinWritesOut`.
- `CompleteWhole`: `Guarded /\ Spec => []CompleteIsWhole`.
- `AckedWhole`: `Guarded /\ Spec => []AckedIsWhole`.
- `HaveCounts`: `(MacData \/ Len(Size) = 1) /\ Spec => []HaveIsStored`.

`Guarded` is "control frames are authenticated, or only one image is ever sent".
It is needed: `session_mixed.cfg` is the counterexample without it.

The argument. None of the properties is inductive. `TypeInv` adds to the types
that an EOB is sent only below the retry limit. `FlushInv` adds that without a
buffer the bitmap names stored chunks only, and that nothing of the bitmap is
unwritten while a FINACK waits. For the verdicts, `SafetyInv` conjoins four facts:
`AirInv` (a frame on the air is from the place in the sender's loop that waits for
it to be over), `OrderInv` (the receiver is in no later session than the sender,
and within one session in no later block), `ReceiptInv` (a receiver that follows
the sender has in its file exactly the chunks it counted, in its bitmap exactly
those of the current block, and nothing of the blocks to come, so that a block is
counted once) and `VerdictInv` (a waiting FINACK with status 0 is already true).
`AckInv` carries that truth over the air to the sender. `HeardIsCurrent` is where
`Guarded` enters: a frame a receiver with an accepted META acts on, other than
DATA, is of that session. Each step lemma has a case for each action that
disturbs the fact.

The second half of `SessionProofs` goes on from there:

- `PartialMissing`: `Guarded /\ Spec => []PartialIsMissing`.
- `ConfirmedHeld`: `Guarded /\ Spec => []ConfirmedIsHeld`.
- `RepairsNeeded`: `Guarded /\ Spec => RepairIsNeeded`.
- `TransferImplemented`: `(MacData \/ Len(Size) = 1) /\ Spec => ImplementsTransfer`.

These are about what the two boards believe of each other, so the invariants are
about the frames in between. `ConfirmInv`: a STAT that says a block is complete, while
it waits to be sent and while it is on the air, is true of the receiver as it is
now, for as long as the receiver stays in that session. `RepairInv`: a STAT that asks
for a repair names no chunk the receiver has by the time it is acted on, which needs
that the DATA frame on the air is never one still to be sent. `PartialInv`: a FINACK
that says INCOMPLETE waits only while a chunk is really missing; `DenyInv` carries that
over the air to the sender, as `AckInv` does for COMPLETE. The refinement then
has a case for each action: the initial state is an initial state of `ImageTransfer`,
and every step is one of its steps or leaves its variables alone.

### Store

`StoreProofs` proves the properties of `store_ring`, for a ring of any depth (0
keeps everything), any number of pictures, either role and any of the faults, under
`StoreAssumption` on the constants alone:

- `TypeCorrect`: `Spec => []TypeOK`.
- `RingIsBounded`: `Spec => []RingBound`.
- `NumbersAreMonotonic`: `Spec => []NewestLast`.
- `SidecarsMatch`: `Spec => []SidecarDescribes`.
- `CaptureIsSent`: `Spec => []SendsTheCapture`.
- `FinishedImagesAreKept`: `Spec => FinishedIsKept`.

The argument. One inductive invariant, `StoreInv`, first checked by TLC on the
instance of `store_ring`. Beside the types it has three parts. `FilesInv`: no image
has a number above `next`, and no sidecar outlives all images of its number and
above; this is what makes the number taken from the directory safe, since pruning
removes the image first and its sidecar second, and a crash in between leaves a
sidecar with no image. `RingInv`: the images below `next` are within the ring
except while it is pruned. `StepInv`: what the program is doing, that is, the file
being written is the latest picture, later than every image on flash, and goes to
`next`; the image being sent is the newest. That scan() finds a lowest and a
highest number is `HasMinimum` and `HasMaximum`, from the well-foundedness of
strict set inclusion.

### Broadcast

`BroadcastProofs` proves, for images of any number and size, any block size and share
of parity, any loss and any fault:

- `TypeCorrect`: `Sealed /\ Spec => []TypeOK`.
- `HaveCounts`: `Sealed /\ Spec => []HaveIsStored`.
- `VerdictsExact`: `Sealed /\ Spec => []VerdictIsExact`.
- `AllIsWritten`: `Sealed /\ Spec => []WritesOut`.
- `GivenUpRightly`: `Sealed /\ Spec => GivesUpRightly`.

`Sealed` is "all frames are authenticated, or only one image is ever sent". Without it
frames of two images with the same geometry are taken for one another, and none of
these holds. The assumptions on the constants are those of `Broadcast`; that a
block has at most 255 source chunks is what `loraitp_init()` enforces.

The argument. `BroadcastInv` has four parts. `SenderInv`: the sender's loop is at a
place that exists. `AirInv`: the frame on the air is the one that place follows.
`ReceiverInv`: the file, `chunks_have`, `blocks_lost` and the bitmap agree, and a
receiver of the image being sent is never ahead of the frame on the air, neither in
its block nor in its count of frames. This last fact is why no block is entered
twice, so that a chunk restored from parity is counted once, and why the frames
`loraitp_rx_still_recoverable()` expects are never fewer than those still to come.
`LastInv`: the last verdict is exact. That k frames restore a block is the model's
premise (section 2); that they do in the code is `AnyKRestores`, which TLC checks.

### Governor

`GovernorProofs` proves, for every window, duty cycle, ring size, wrap, overrun and
mix of frames:

- `TypeCorrect`: `Spec => []TypeOK`.
- `WindowIsKept`: `FramesFit /\ ClockFits /\ Spec => []WindowKept`.
- `FigureIsSafe`: `FramesFit /\ ClockFits /\ Spec => []NeverUnderstated`.
- `OffTimeIsKept`: `FramesFit /\ ClockFits /\ Spec => OffTimeKept`.
- `WaitIsBounded`: `WaitFits /\ Spec => WaitBounded`.
- `CallsignFirst`: `IdentFits /\ Spec => Identifies`.

`FramesFit` is "no estimate is longer than the whole budget". The code has a cap of two
seconds on a frame, and the least budget of the region table is 3.6 seconds; the
opposite case, in which the code sends at once, is the hazard at
`loraitp_governor.c:157`. `ClockFits` is `2 * (2 * Window + Ratio * Overrun + 1) <= Wrap`:
two hours and the off-time of an overrun are less than the 24.9 days that a signed
difference reaches. Nothing is assumed about how long the station is silent: the
three properties that use it survive any number of wraps, unlike `WaitBounded`.

The argument. The code has no real time, only stamps modulo `Wrap` in a ring that prunes
and folds itself. `DutyInv` says that there are real times behind them: a sorted
sequence `E` behind the slots and a `B`, no earlier than any of them, behind
`blocked_until` (`RingInv`). `CountInv` says that for every window that ends now or later the slots
behind it add up to no less than what the finished frames have in it, but for what the
ring does not know of: `X[t]` for the window that ends at `t`. It has to hold for every
such window, since a wait is computed for one that has not begun. `Accounted(X)` is the
invariant for a given `X`; in the governor alone `X` is nowhere more than `lost`. `WaitInv` carries the decision over
the wait: when it ends, `B` has passed and the slots still counted leave room for the
estimate. What an old stamp loses by wrapping is harmless because `Delta` is never
more than the real difference as long as the stamp is not far in the future
(`DeltaStamps`, `DeltaAfter`); a stamp taken for younger than it is is counted longer,
never forgotten. Folding keeps the later of two ends (`FoldCounts`), pruning drops only
what no window from now on needs (`PruneSafe`). `E` and `B` were first checked by TLC
as history variables on the instance of `governor_window`. The sums are recursive
functions, and that each is the function its definition names (`RunningExists`) takes
an induction, done by the property of the natural numbers stated as `Counting`.

`WaitFits` and `IdentFits` add what the other two need. Both bound `MaxIdle`, the longest
silence: with the longest stamp it must stay under half a turn, so that no stamp is
asked about when it already lies in the future again. That is 24.9 days less two hours
for the wait, less ten minutes for the IDENT; an application whose interval
is a week at the most stays clear of both, and `governor_wrap` shows what a longer silence does. `WaitFits`
also asks that the off-time of a frame is no longer than the window (999 times two
seconds on the strictest row, against an hour), `IdentFits` that an IDENT is shorter than
its interval. `SilenceInv` is `RingInv` with bounds on the other side: `E` and `B` are
no older than two windows and two frames at the end of the last frame. It holds as long
as nothing was lost, since a send that fails leaves the old stamps and moves no `B`.

On the amateur row no ring decides, and `IdentInv` carries the age of the last IDENT from
the question whether one is due to the frame: no time passes in between, because the
governor never makes an amateur wait.

### Budget mirror

`MirrorProofs` goes on from the governor's invariant, for every snapshot size up to the
ring's, any sleeps, any number of boots and any of the faults:

- `MirrorTypes`: `MirrorSpec => []MirrorTypeOK`.
- `FrameBehind`: `Fit /\ MirrorSpec => []OneFrameBehind`.
- `WindowAcrossBoots`: `Fit /\ MirrorSpec => []WindowKept`.
- `OffTimeAcrossBoots`: `Fit /\ MirrorSpec => OffTimeKept`.
- `BudgetPerBoot`: `Fit /\ MaxLost = 0 /\ MirrorSpec => []OneBudgetPerBoot`.
- `StricterUnlessLost`: `Fit /\ MaxLost = 0 /\ Faults \subseteq {"crash"} /\ MirrorSpec =>
  [](row = "duty" => NeverLooser)`.

`Fit` stands for `FramesFit /\ ClockFits /\ OffFits`. The last of them says that the
off-time of a frame, overrun included, is no longer than the window: 99 times two seconds
against an hour at 1 %, 999 times at 0.1 %, where an overrun of 1.6 seconds still
fits. It is needed because a boot without a snapshot lets the board send at once: what
it forgot may be forgotten only if all of it has left the window. `MaxLost = 0` says that
no send fails, since such a frame is on the air and in no record, and no number of
boots bounds those. The other theorems need no such hypothesis: they count in `lost`
what was not recorded, and so say exactly what a fault costs. `StricterUnlessLost`
is the reverse side of `mirror_early_reset`: it holds as long as the board is reset only
while it is up, between two frames, with its mirror complete.

The argument. `DutyInv` does not survive a boot by itself: the ring is then what
`loraitp_gov_import()` makes of the snapshot. So `SnapInv` says of the snapshot what
`DutyInv` says of the ring. `Stands(s, h, l, n, x)`: there are real times `C` and `D` such
that a ring restored from `s` at the time `h` would count what the first `n` frames of `l`
had of every window from `h` on, but for `x`. `h` is now, or the planned wake-up of a board
that sleeps (`Horizon`); `n` is every finished frame, but the last while its mirror is
still to be written (`Covered`). Three facts carry it. Export loses nothing
(`ExportKeeps`): folding the ring to `SnapSlots` entries keeps every end or moves it
later (`SnapFoldCounts`), and an age is the real one, or smaller after a wrap. Import loses
nothing a window still needs (`ImportKeeps`, entry by entry with `FollowsOn`): it drops what
has aged out and stamps the rest by the new counter. And time loses nothing
(`StandsLater`): a snapshot restored later than it was taken makes its frames younger than
they are, so they are counted longer. `LastInv` bounds the off-time of the last frame,
which is what a boot from an empty snapshot relies on. A fault adds to `lost` just what
makes `SnapInv` hold again (`RebootStands`), and a boot then turns it into `DutyInv`
(`RebootAccounted`). `MirrorShape` is the invariant of the places: while a mirror is due
the board is between two frames, while it sleeps it is idle.

`OneBudgetPerBoot` needs a second charge, since `lost` may be many times larger: `FreshInv`
says that the governor is also right with an `X` of one budget and one overrun for each
boot so far, because at each boot all that is in a window is charged anew and was, by
the same invariant, no more than one budget above what was charged before.

All of these invariants were checked by TLC on the instance of `mirror_reboots`, `C` and `D`
enumerated, before they were proved. What the import computes is a recursive function over the
entries; that there is one (`ImportExists`) is proved from `Counting`, like the sums.

### Debug log

`DebugLogProofs` proves `AnswersAreTheLog`: `Spec => []AnswerIsTheLog` for a ring of any
size and any number of lines, polls and restarts. `LogInv` says that the last
`LogLines` numbers are each in their slot, which needs that two numbers less than
`LogLines` apart are in different slots (`SlotsApart`), and that what lies behind the
reader was handed out or has been overwritten since.

### Board

`BoardProofs` proves `PeriodIsKept` (`Spec => PeriodKept`) and `ReceiverListens`
(`Spec => NeverDeaf`) from `BoardAssumption` alone, which asks that every interval,
pause, transfer and `setup()` is shorter than half a turn of the millisecond counter: a
week at the most, against 24.8 days. Nothing is assumed about `MaxLapse`.

The argument. `PeriodKept` is not inductive, since `due` counts real time and the loop
has only `next_run_ms`, or the wake-up timer, or the time a transfer has run.
`ScheduleInv` says for each place the board can be in how the two are tied: at the top
and before the sleep `next` is the counter value `Left` ticks from now, which is `due`
and the time the last `setup()` took (`spent`, 0 before a sleep); in a deep sleep the
timer has exactly `due` left; in `setup()` the counter shows by how much `due` has
passed; and during a transfer the time since its start is what is missing of the
period. All of it holds only while the transfer is agreed and no press moved `next`
(`Expected`). `ReceiverInv` is what `NeverDeaf` needs: a receiver at the top of its loop
is due now, or still within `Settle` of the end of `setup()`, and then due exactly when
that is over. The lemmas in front (`DeltaIs`, `ResidueOfSum`) say that the signed
difference of two counter values is that of the times, within half a turn. TLC checked
`BoardInv` on the instance of `board` first.

### Only model-checked

Liveness (`SenderReturns`, `ReceiverReturns`, `Repaired`, `Recovers`, `HeadlessSleeps`), which
is out of the prover's reach. The erasure code and the STAT encodings (`AnyKRestores`,
`StatTellsMissing`, `StatFitsWindow`): what a fold or an elimination computes for every
input takes an induction over data. `FrameFits`: the radio settings are few, and the run
goes through all spreading factors.

## 6. Not modelled, and why

Pure arithmetic without protocol state (CMAC, CRC-32); byte layouts; the camera and
JPEG; HTTP and HTML; the configuration checks of `loraitp_gov_init()`; the single
puts of a settings save; the levels and the wording of the log; the simulated port
and the Python tools. The interrupt flag of the radio port: whether DIO1 can rise
between `g_dio1 = false` and `startReceive()` is up to RadioLib and the SX1262, whose
source is not here, and a model would decide it by assumption.
