---------------------------- MODULE BudgetMirror ----------------------------
(***************************************************************************)
(* The duty-cycle window across reboots: the governor of Governor on a     *)
(* board that restarts, crashes and deep-sleeps, with the window mirrored  *)
(* into RTC memory (budget_mirror(), budget_restore() and maybe_deep_sleep *)
(* in src/firmware/app/main.cpp, loraitp_gov_export() and                  *)
(* loraitp_gov_import() in src/src/loraitp_governor.c).                    *)
(***************************************************************************)
EXTENDS Governor

CONSTANTS
  SnapSlots,  \* STATE_MAX_ENTRIES, no more than the ring has slots
  SleepFor,   \* the deep-sleep durations the schedule may ask for
  Faults,     \* of "crash", "crash_mirror", "torn", "early_reset"
  MaxBoots    \* bound of the model on reboots

ASSUME MirrorAssumption ==
  /\ SnapSlots \in Nat \ {0} /\ SnapSlots <= Slots
  /\ SleepFor \subseteq Nat /\ MaxBoots \in Nat
  /\ Faults \subseteq {"crash", "crash_mirror", "torn", "early_reset"}

VARIABLES
  power,    \* "on", "asleep", or in budget_mirror(): "mirror" after a frame,
            \* "remirror" while idle
  wake,     \* when the wake-up timer fires
  rtc,      \* rtc_budget: [valid, away, entries, blocked]
  boots     \* reboots so far

mirrorVars == <<power, wake, rtc, boots>>
allVars == <<vars, mirrorVars>>

NoSnapshot == [valid |-> FALSE, away |-> 0, entries |-> <<>>, blocked |-> 0]

\* loraitp_gov_export() of a pruned ring: ages instead of timestamps, the
\* oldest entries folded onto the first one kept.
SnapAllMut(r) == r
SnapFoldMut(r) == SubSeq(r, Max({1, Len(r) - SnapSlots + 1}), Len(r))
SnapFold(r) ==
  LET skip == Max({0, Len(r) - SnapSlots})
      kept == SubSeq(r, skip + 1, Len(r))
  IN [i \in DOMAIN kept |->
        IF i = 1
        THEN [kept[1] EXCEPT !.toa = @ + Airtime(SubSeq(r, 1, skip))]
        ELSE kept[i]]
Snapshot(r, away) ==
  [valid |-> TRUE, away |-> away,
   entries |-> [i \in DOMAIN SnapFold(r) |->
                  [age |-> Delta(Millis(now), SnapFold(r)[i].end),
                   toa |-> SnapFold(r)[i].toa]],
   blocked |-> Max({0, Delta(blocked, Millis(now))})]

\* loraitp_gov_import() in a context that has just booted (now_ms() is 0):
\* entry by entry, add the time away to the age, skip what has left the window.
Imported(s) ==
  LET into[i \in 0..Len(s.entries)] ==
        IF i = 0 THEN <<>>
        ELSE LET aged == s.entries[i].age + s.away
             IN IF aged >= Window THEN into[i - 1]
                ELSE Append(into[i - 1], [end |-> (0 - aged) % Wrap,
                                          toa |-> s.entries[i].toa])
  IN into
ImportedRing(s) == Imported(s)[Len(s.entries)]
ImportedBlockedMut(s) == 0
ImportedBlocked(s) == Max({0, s.blocked - s.away})

MirrorInit ==
  /\ Init
  /\ power = "on" /\ wake = 0 /\ rtc = NoSnapshot /\ boots = 0

\* The governor at work; trace_cb() mirrors after every recorded frame.
Work ==
  /\ power = "on"
  /\ Ask \/ AskIdent \/ Resume \/ Emit \/ SendFailed \/ Query \/ Tick
  /\ UNCHANGED mirrorVars

RecordAndMirror ==
  /\ power = "on" /\ Record /\ power' = "mirror"
  /\ UNCHANGED <<wake, rtc, boots>>

\* loop() mirrors every ten seconds while idle.
IdleMirror ==
  /\ power = "on" /\ pc = "idle"
  /\ Snapshot(Prune(ring, Millis(now)), 0) # rtc
  /\ power' = "remirror"
  /\ UNCHANGED <<vars, wake, rtc, boots>>

Mirrored ==
  /\ power \in {"mirror", "remirror"} /\ power' = "on"
  /\ ring' = Prune(ring, Millis(now))
  /\ rtc' = Snapshot(ring', 0)
  /\ UNCHANGED <<now, epoch, blocked, txVars, identVars, log, lost, wake, boots>>

\* maybe_deep_sleep(): only for longer than the window, after a last mirror.
DeepSleep ==
  /\ power = "on" /\ pc = "idle"
  /\ \E d \in SleepFor :
       /\ d >= Window /\ now + d <= MaxTime
       /\ ring' = Prune(ring, Millis(now))
       /\ rtc' = Snapshot(ring', d)
       /\ wake' = now + d
  /\ power' = "asleep"
  /\ UNCHANGED <<now, epoch, blocked, txVars, identVars, log, lost, boots>>

Asleep ==
  /\ power = "asleep" /\ now < wake
  /\ now' = now + 1 /\ log' = Recent(log, now')
  /\ UNCHANGED <<epoch, govVars, txVars, identVars, lost, mirrorVars>>

\* setup(): a new context, then budget_restore() from snapshot s, whatever
\* woke the board.
Boot(s) ==
  /\ boots < MaxBoots /\ boots' = boots + 1
  /\ epoch' = now /\ power' = "on" /\ wake' = 0
  /\ ring' = IF s.valid THEN ImportedRing(s) ELSE <<>>
  /\ blocked' = IF s.valid THEN ImportedBlocked(s) ELSE 0
  /\ pc' = "idle" /\ held' = 0 /\ est' = 0 /\ until' = 0
  /\ ident' = [has |-> FALSE, at |-> 0] /\ UNCHANGED <<row, called>>
  /\ rtc' = s /\ now' = now

TimerWakes == power = "asleep" /\ now = wake /\ Boot(rtc) /\ UNCHANGED <<log, lost>>

\* RESET pressed, or a brown-out, while the board sleeps: the ages restored are
\* those of the planned wake-up, and no longer account for the frames.
EarlyReset ==
  /\ "early_reset" \in Faults
  /\ power = "asleep" /\ now < wake /\ Boot(rtc)
  /\ lost' = lost + OnAir
  /\ UNCHANGED log

\* A watchdog, a brown-out or a settings restart while nothing is on the air.
Crash ==
  /\ "crash" \in Faults
  /\ power = "on" /\ pc # "air" /\ Boot(rtc)
  /\ UNCHANGED <<log, lost>>

\* The same while a frame is being sent, or recorded but not mirrored yet.
\* The mirror is written in place: the old snapshot may be torn, and then
\* nothing accounts for the frames of the window.
LastAirtime == Last(log).stop - Last(log).start
CrashUnmirrored ==
  /\ "crash_mirror" \in Faults
  /\ power \in {"mirror", "remirror"} \/ pc = "air"
  /\ IF pc = "air"
     THEN log' = [log EXCEPT ![Len(log)].stop = now] ELSE UNCHANGED log
  /\ \/ /\ Boot(rtc)
        /\ lost' = lost + (IF power = "remirror" THEN 0 ELSE LastAirtime)
     \/ /\ pc # "air" /\ "torn" \in Faults
        /\ Boot(NoSnapshot)
        /\ lost' = lost + OnAir

MirrorNext ==
  \/ Work \/ RecordAndMirror \/ IdleMirror \/ Mirrored
  \/ DeepSleep \/ Asleep \/ TimerWakes
  \/ EarlyReset \/ Crash \/ CrashUnmirrored

MirrorSpec == MirrorInit /\ [][MirrorNext]_allVars

----------------------------------------------------------------------------
\* The types of the variables this module adds, and of those it extends.
MirrorTypeOK ==
  /\ TypeOK
  /\ power \in {"on", "mirror", "remirror", "asleep"} /\ wake \in Nat
  /\ boots \in 0..MaxBoots
  /\ rtc.valid \in BOOLEAN /\ rtc.away \in Nat /\ rtc.blocked \in Nat
  /\ rtc.entries \in Seq([age : Int, toa : Nat \ {0}])
  /\ Len(rtc.entries) <= SnapSlots

\* Whatever restarts the board, each start grants at most one budget: a reset
\* that loses the whole window at worst doubles the hour.
OneBudgetPerBoot == row = "duty" => OnAir <= (boots + 1) * (Budget + Overrun)

\* main.cpp, trace_cb(): the snapshot is "at most one frame behind the truth".
OneFrameBehind ==
  row = "duty" /\ power = "on" /\ pc # "air" =>
    OnAir <= Airtime(Prune(ring, Millis(now))) + lost

\* docs/duty-cycle.md: a restored window errs on the side "that makes the
\* station stricter, never looser".
NeverLooser ==
  power = "on" /\ pc # "air" => OnAir <= Airtime(Prune(ring, Millis(now)))

=============================================================================
