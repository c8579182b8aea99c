------------------------------ MODULE Governor ------------------------------
(***************************************************************************)
(* The duty-cycle governor (src/src/loraitp_governor.c) under the one path *)
(* to the radio, transmit() in src/src/loraitp_session.c: ask how long to  *)
(* wait, sleep, send, record what was sent.  On an amateur row there is no *)
(* duty cycle, and the station puts an IDENT frame with its callsign       *)
(* before a frame whenever one is due.                                     *)
(*                                                                         *)
(* Real time `now` never wraps; the code sees it as a counter modulo Wrap  *)
(* (2^32 ms, 49.7 days) that starts at 0 when the board boots at `epoch`,  *)
(* and compares counter values by a signed difference.  The properties     *)
(* speak of real time and of what was really on the air (`log`).           *)
(***************************************************************************)
EXTENDS Integers, Sequences, FiniteSets, FiniteSetsExt, SequencesExt

CONSTANTS
  Window,     \* LORAITP_DC_WINDOW_MS
  Ratio,      \* 1 / duty cycle: off-time of a frame is Ratio times its airtime
  Wrap,       \* 2^32, in ms
  Rows,       \* the rows of the region table in use: "duty", "amateur"
  IdentEvery, \* ident_interval_ms
  IdentToa,   \* airtime of an IDENT frame
  Slots,      \* LORAITP_DC_SLOTS
  FrameToa,   \* the estimates transmit() may be asked for
  Overrun,    \* by how much a measured airtime may exceed its estimate
  MaxLost,    \* bound of the model on the airtime radio_send() fails to report
  MaxIdle,    \* the application transmits at least this often
  MaxTime     \* bound of the model on time

ASSUME GovernorAssumption ==
  /\ {Window, Ratio, Wrap, MaxIdle, MaxTime} \subseteq Nat \ {0}
  /\ Slots \in Nat \ {0, 1} /\ Rows \subseteq {"duty", "amateur"}
  /\ {IdentEvery, IdentToa} \subseteq Nat \ {0}
  /\ FrameToa \subseteq Nat \ {0} /\ {Overrun, MaxLost} \subseteq Nat

Budget == Window \div Ratio      \* budget_of()
Frames == UNION {t..(t + Overrun) : t \in FrameToa \cup {IdentToa}}
MaxFrame == Max(Frames)

VARIABLES
  now,      \* real time
  epoch,    \* when the board booted
  row,      \* info: the region the context was initialised for
  ring,     \* slot_end / slot_toa from head on: <<[end, toa], ...>>
  blocked,  \* blocked_until
  ident,    \* [has, at]: has_identified, last_ident_ms
  pc,       \* transmit(): "idle", "wait" in sleep_ms(), "air" in radio_send(),
            \* "resume" when the IDENT before a frame has returned
  held,     \* the estimate of the frame behind an IDENT, 0 for none
  est,      \* the estimate of the frame being sent
  until,    \* when the wait or the emission ends
  log,      \* history: frames on the air, the last one and those in the window
  lost,     \* history: airtime of which no record survived
  called    \* history: when an IDENT last went on the air, -1 for never

govVars == <<ring, blocked>>
txVars == <<pc, held, est, until>>
identVars == <<row, ident, called>>
vars == <<now, epoch, govVars, txVars, identVars, log, lost>>

\* now_ms(), and delta(): the signed 32-bit difference of two counter values.
Millis(t) == (t - epoch) % Wrap
DeltaMut(a, b) == a - b
Delta(a, b) ==
  LET d == (a - b) % Wrap IN IF d < Wrap \div 2 THEN d ELSE d - Wrap

\* The sums of the first 0, 1, 2... numbers of a list, and the airtime of a ring.
Running(w) ==
  LET sum[i \in 0..Len(w)] == IF i = 0 THEN 0 ELSE sum[i - 1] + w[i] IN sum
Total(w) == Running(w)[Len(w)]
Toas(r) == [i \in DOMAIN r |-> r[i].toa]
Airtime(r) == Total(Toas(r))

\* prune(): drop entries from the head while they are older than the window.
Prune(r, ms) ==
  LET young == {i \in DOMAIN r : Delta(ms, r[i].end) < Window}
  IN SubSeq(r, Min(young \cup {Len(r) + 1}), Len(r))

\* loraitp_gov_delay_ms(): the stricter of the off-time and the window rule,
\* for a pruned ring r.
OffTimeWait(b, ms) == Max({0, Delta(b, ms)})
WindowWaitMut(r, ms, toa) == 0
WindowWait(r, ms, toa) ==
  LET need == Airtime(r) + toa - Budget
      enough == {i \in DOMAIN r : Running(Toas(r))[i] >= need}
  IN IF need <= 0 \/ enough = {} THEN 0
     ELSE Max({0, Delta((r[Min(enough)].end + Window) % Wrap, ms)})
DelayMs(r, b, ms, toa) ==
  IF row = "amateur" THEN 0 ELSE Max({OffTimeWait(b, ms), WindowWait(r, ms, toa)})

\* loraitp_gov_ident_due()
IdentDueMut(ms) == row = "amateur" /\ ~ident.has
IdentDue(ms) ==
  row = "amateur" /\ (~ident.has \/ Delta(ms, ident.at) >= IdentEvery)

\* loraitp_gov_record(): a full ring folds its two oldest entries, then the
\* frame is entered as if it had only started now.
FoldNoneMut(r) == r
FoldMut(r) == IF Len(r) = Slots THEN Tail(r) ELSE r
Fold(r) ==
  IF Len(r) = Slots
  THEN <<[end |-> r[2].end, toa |-> r[1].toa + r[2].toa]>> \o SubSeq(r, 3, Len(r))
  ELSE r
Recorded(r, ms, toa) == Append(Fold(r), [end |-> (ms + toa) % Wrap, toa |-> toa])
BlockedUntilMut(ms, toa) == ms
BlockedUntil(ms, toa) == (ms + toa * Ratio) % Wrap

\* History: what the window of a duty-cycle row still needs, and always the
\* last frame.
Recent(l, t) ==
  LET inside == {i \in DOMAIN l : row = "duty" /\ l[i].stop > t - Window}
  IN SubSeq(l, Min(inside \cup {Max({Len(l), 1})}), Len(l))

Init ==
  /\ now = 0 /\ epoch = 0 /\ ring = <<>> /\ blocked = 0
  /\ row \in Rows /\ ident = [has |-> FALSE, at |-> 0] /\ called = -1
  /\ pc = "idle" /\ held = 0 /\ est = 0 /\ until = 0 /\ log = <<>> /\ lost = 0

\* transmit() asks the governor; it does not ask again after the wait.
AskFor(toa) ==
  /\ ring' = Prune(ring, Millis(now))
  /\ est' = toa
  /\ until' = now + DelayMs(ring', blocked, Millis(now), toa)
  /\ pc' = "wait"
  /\ UNCHANGED <<now, epoch, row, blocked, called, log, lost>>

Ask ==
  /\ pc = "idle" /\ ~IdentDue(Millis(now))
  /\ \E toa \in FrameToa : AskFor(toa)
  /\ UNCHANGED <<ident, held>>

\* An IDENT goes first; it counts as sent before it is, whatever becomes of it.
AskIdent ==
  /\ pc = "idle" /\ IdentDue(Millis(now))
  /\ AskFor(IdentToa)
  /\ held' \in FrameToa
  /\ ident' = [has |-> TRUE, at |-> Millis(now)]

\* The nested transmit() of the IDENT has returned: the frame itself.
Resume ==
  /\ pc = "resume"
  /\ AskFor(held) /\ held' = 0
  /\ UNCHANGED ident

\* radio_send(): the frame takes its estimate or a little longer.
Emit ==
  /\ pc = "wait" /\ now = until
  /\ \E toa \in est..(est + Overrun) : until' = now + toa
  /\ pc' = "air" /\ log' = Append(log, [start |-> now, stop |-> until'])
  /\ called' = IF held # 0 THEN now ELSE called
  /\ UNCHANGED <<now, epoch, row, ident, govVars, held, est, lost>>

\* radio_send() returned: back to the caller, or to the frame behind the IDENT.
Sent ==
  /\ pc = "air" /\ now = until
  /\ pc' = IF held # 0 THEN "resume" ELSE "idle"
  /\ est' = 0 /\ until' = 0
  /\ UNCHANGED <<now, epoch, identVars, held, log>>

\* With the airtime it measured.  On an amateur row the ring decides nothing,
\* and the model leaves it empty; blocked_until really stays.
Record ==
  /\ Sent
  /\ LET toa == now - Last(log).start IN
       IF row = "amateur" THEN UNCHANGED govVars
       ELSE /\ ring' = Recorded(ring, Millis(now), toa)
            /\ blocked' = BlockedUntil(Millis(now), toa)
  /\ UNCHANGED lost

\* The end of the transmission was missed: E_RADIO, nothing is recorded.
SendFailed ==
  /\ Sent
  /\ lost < MaxLost /\ lost' = lost + (now - Last(log).start)
  /\ UNCHANGED govVars

\* loraitp_budget_query() and loraitp_budget_export() prune as well.
Query ==
  /\ pc = "idle"
  /\ ring' = Prune(ring, Millis(now)) /\ ring' # ring
  /\ UNCHANGED <<now, epoch, blocked, txVars, identVars, log, lost>>

\* Time since the last frame ended, or since time began.
Quiet == now - (IF log = <<>> THEN 0 ELSE Last(log).stop)

Tick ==
  /\ now < MaxTime
  /\ IF pc = "idle" THEN Quiet < MaxIdle ELSE now < until
  /\ now' = now + 1
  /\ log' = Recent(log, now')
  /\ UNCHANGED <<epoch, govVars, txVars, identVars, lost>>

Next == Ask \/ AskIdent \/ Resume \/ Emit \/ Record \/ SendFailed \/ Query \/ Tick

Spec == Init /\ [][Next]_vars

----------------------------------------------------------------------------
Slot == [end : 0..(Wrap - 1), toa : Nat \ {0}]

\* The types of all variables.
TypeOK ==
  /\ now \in Nat /\ epoch \in 0..now
  /\ ring \in Seq(Slot) /\ Len(ring) <= Slots
  /\ blocked \in 0..(Wrap - 1)
  /\ row \in Rows /\ ident \in [has : BOOLEAN, at : 0..(Wrap - 1)]
  /\ pc \in {"idle", "wait", "air", "resume"}
  /\ held \in FrameToa \cup {0} /\ est \in FrameToa \cup {0, IdentToa}
  /\ until \in Nat /\ called \in Nat \cup {-1}
  /\ log \in Seq([start : Nat, stop : Nat]) /\ lost \in Nat

\* What was really on the air during the last Window, the frame being sent
\* included.
OnAir ==
  LET part(e) == Max({0, Min({e.stop, now}) - Max({e.start, now - Window})})
  IN Total([i \in DOMAIN log |-> part(log[i])])

\* The regulation: in any window of an hour the station is on the air for no
\* more than its budget - up to the overrun of one frame, since transmit()
\* budgets an estimate and measures afterwards, and up to the frames whose
\* record was lost to a failed radio_send() or to a crash.
WindowKept == row = "duty" => OnAir <= Budget + Overrun + lost

\* The figure the governor works with never understates what was reported to it,
\* wrapped counters and folded slots included.
NeverUnderstated ==
  row = "duty" /\ pc # "air" => OnAir <= Airtime(Prune(ring, Millis(now))) + lost

\* SPEC.md 6.1: after a frame the band is left free for T_on * (1/dc - 1).
OffTimeKept ==
  [][row = "duty" /\ pc = "wait" /\ pc' = "air" /\ log # <<>> /\ lost = 0 =>
       now >= Last(log).stop + (Ratio - 1) * (Last(log).stop - Last(log).start)]_vars

\* The governor never makes a station wait longer than the window plus a
\* frame: the wrap of the millisecond counter "is handled".  (A failed send
\* leaves blocked_until as old as it was, which is a longer silence to it.)
WaitBounded ==
  [][pc = "idle" /\ pc' = "wait" /\ lost = 0 => until' - now <= Window + MaxFrame]_vars

\* SPEC.md 6.4: no frame of an amateur station goes on the air without its
\* callsign having gone out within the identification interval, the first
\* frame after a boot included - as long as the radio sends what it is given.
Identifies ==
  [][row = "amateur" /\ pc = "wait" /\ pc' = "air" /\ lost = 0 =>
       called' >= 0 /\ now - called' < IdentEvery]_vars

=============================================================================
