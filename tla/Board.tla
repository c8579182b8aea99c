------------------------------- MODULE Board -------------------------------
(***************************************************************************)
(* The schedule of one board (src/firmware/app/main.cpp): setup(), loop()  *)
(* on the radio core, and the settings page on the other core, which       *)
(* restarts the board, changes its settings and writes the loop's          *)
(* next_run_ms behind its back (src/firmware/app/webui.cpp).               *)
(*                                                                         *)
(* The session and the governor are reduced to the time a transfer takes.  *)
(* Every clock is a counter modulo Wrap or the time left, so that the      *)
(* states are finite and time never ends.  A board starts from zero after  *)
(* every deep sleep: what it promises about the schedule is stated in real *)
(* time (`due`, `spent`, `up`), which the code cannot read.                *)
(***************************************************************************)
EXTENDS Integers

CONSTANTS
  Wrap,        \* the millisecond counter, 2^32
  Settle,      \* time for the access point to settle after a start (3 s)
  Retry,       \* time between two looks at a refused configuration (30 s)
  NoInterval,  \* the period when interval_s is 0 (60 s)
  MaxInterval, \* the longest interval the page stores (a week)
  Floor,       \* the shortest deep sleep worth a reboot (20 s)
  Window,      \* DUTY_WINDOW_MS
  PageTimeout, \* ap_timeout_s
  MaxTransfer, \* the longest transfer
  MaxSetup,    \* the longest setup()
  MaxLapse,    \* the longest the loop is held up between two readings of millis()
  Settings,    \* what may be typed into the settings page
  Faults       \* of "reset" (RESET, a brown-out) and "radio" (it does not answer)

ASSUME BoardAssumption ==
  /\ {Wrap, Settle, Retry, NoInterval, MaxInterval, Floor, Window, PageTimeout,
      MaxTransfer, MaxSetup} \subseteq Nat \ {0}
  /\ MaxLapse \in Nat
  /\ \A t \in {Settle, Retry, NoInterval, MaxInterval, MaxTransfer, MaxSetup} :
       2 * (t + 1) <= Wrap
  /\ Settings \subseteq [role : {"sender", "receiver"}, deep : BOOLEAN,
                         interval : Nat, limited : BOOLEAN, valid : BOOLEAN,
                         fades : BOOLEAN]
  /\ Faults \subseteq {"reset", "radio"}

VARIABLES
  cfg,     \* the settings: role, deep_sleep, interval_s, whether the region has
           \* a duty cycle, whether radio and governor accept them, whether the
           \* page fades (ap_auto_off with a timeout)
  power,   \* "boot" in setup(), "on", "asleep" in deep sleep
  woke,    \* woke_from_timer
  ctx,     \* ctx # NULL: the configuration was accepted at this start
  page,    \* the access point is up
  quiet,   \* time since the last request to the page
  clock,   \* millis()
  next,    \* next_run_ms
  pc,      \* loop(): "top", "transfer", "judged" before maybe_deep_sleep(), "listen"
  started, \* the local of that name
  wakeIn,  \* time left of a deep sleep
  agreed,  \* history: it is agreed when the next transfer should start,
  due,     \* history: in so much real time (negative when it is late)
  spent,   \* history: what the last setup() took, until a transfer starts
  up,      \* history: real time since that setup() ended, up to Settle
  press    \* history: what became of the last press of "send now"

webVars == <<page, quiet>>
schedule == <<agreed, due, spent, up>>
vars == <<cfg, power, woke, ctx, webVars, clock, next, pc, started, wakeIn,
          schedule, press>>

Delta(a, b) ==
  LET d == (a - b) % Wrap IN IF d < Wrap \div 2 THEN d ELSE d - Wrap
After(t) == (clock + t) % Wrap
Due == Delta(clock, next) >= 0

Period == IF cfg.interval = 0 THEN NoInterval ELSE cfg.interval
Headless == woke /\ cfg.deep

\* Real time t passes.
Sooner(t) == IF agreed THEN due - t ELSE 0
Longer(t) == IF up + t < Settle THEN up + t ELSE Settle

\* A start, by the wake-up timer or by hand: plain RAM and millis() begin again.
Start(byTimer) ==
  /\ power' = "boot" /\ woke' = byTimer
  /\ ctx' = FALSE /\ page' = FALSE /\ quiet' = 0
  /\ clock' = 0 /\ next' = 0 /\ pc' = "top" /\ started' = 0 /\ wakeIn' = 0
  /\ agreed' = (byTimer /\ agreed) /\ due' = (IF byTimer THEN due ELSE 0)
  /\ spent' = 0 /\ up' = 0
  /\ press' = (IF byTimer THEN press ELSE "none")

Init ==
  /\ cfg \in Settings /\ cfg.interval <= MaxInterval
  /\ power = "boot" /\ woke = FALSE /\ ctx = FALSE /\ page = FALSE /\ quiet = 0
  /\ clock = 0 /\ next = 0 /\ pc = "top" /\ started = 0 /\ wakeIn = 0
  /\ agreed = FALSE /\ due = 0 /\ spent = 0 /\ up = 0 /\ press = "none"

\* setup() takes its time: flash, settings, camera, radio, the mirrored budget.
SettingUp ==
  /\ power = "boot" /\ clock < MaxSetup
  /\ clock' = clock + 1 /\ due' = Sooner(1)
  /\ UNCHANGED <<cfg, power, woke, ctx, webVars, next, pc, started, wakeIn,
                 agreed, spent, up, press>>

\* A refused configuration leaves no context; after a scheduled wake the page
\* stays down.
Setup ==
  /\ power = "boot" /\ power' = "on"
  /\ \/ cfg.valid /\ ctx' = TRUE
     \/ (~cfg.valid \/ "radio" \in Faults) /\ ctx' = FALSE
  /\ page' = ~Headless
  /\ next' = After(IF Headless THEN 0 ELSE Settle)
  /\ spent' = clock
  /\ UNCHANGED <<cfg, woke, quiet, clock, pc, started, wakeIn, agreed, due, up,
                 press>>

\* maybe_deep_sleep(): g_snap knows of a budget only with a context.
Longest == IF ctx /\ cfg.limited THEN Window ELSE Floor
NoContextMut(ms) ==
  IF ctx /\ cfg.deep /\ cfg.role = "sender" /\ ms >= Longest
  THEN power' = "asleep" /\ wakeIn' = ms /\ page' = FALSE
  ELSE UNCHANGED <<power, wakeIn, page>>
MaybeDeepSleep(ms) ==
  IF cfg.deep /\ cfg.role = "sender" /\ ms >= Longest
  THEN power' = "asleep" /\ wakeIn' = ms /\ page' = FALSE
  ELSE UNCHANGED <<power, wakeIn, page>>

(***************************************************************************)
(* loop().  A pass that finds nothing due changes nothing.                 *)
(***************************************************************************)
Loops(from) == power = "on" /\ pc = from

\* The configuration was refused: look again later, or sleep the interval.
Refused ==
  /\ Loops("top") /\ Due /\ ~ctx
  /\ next' = After(Retry)
  /\ MaybeDeepSleep(Period)
  /\ agreed' = FALSE /\ due' = 0
  /\ UNCHANGED <<cfg, woke, ctx, quiet, clock, pc, started, spent, up, press>>

StartTransfer ==
  /\ Loops("top") /\ Due /\ ctx /\ cfg.role = "sender"
  /\ pc' = "transfer" /\ started' = clock
  /\ agreed' = TRUE /\ due' = Period /\ spent' = 0 /\ press' = "none"
  /\ UNCHANGED <<cfg, power, woke, ctx, webVars, clock, next, wakeIn, up>>

\* The period counts from the start; a transfer that overran it is followed by
\* the next.
NextRunMut == After(Period)
NextRun == (started + Period) % Wrap
EndTransfer ==
  /\ Loops("transfer")
  /\ IF Delta(clock, NextRun) >= 0
     THEN next' = clock /\ pc' = "top"
     ELSE next' = NextRun /\ pc' = "judged"
  /\ due' = (IF due < 0 THEN 0 ELSE due)
  /\ UNCHANGED <<cfg, power, woke, ctx, webVars, clock, started, wakeIn, agreed,
                 spent, up, press>>

\* maybe_deep_sleep(next_run_ms - millis()) reads both again, a moment after
\* they were compared.  When the transfer fell due in that moment the
\* difference wraps, and nothing is left of what was agreed.
SleepUntilDue ==
  /\ Loops("judged") /\ pc' = "top"
  /\ \E moment \in 0..MaxLapse :
       /\ clock' = After(moment) /\ up' = Longer(moment)
       /\ agreed' = (agreed /\ moment <= due)
       /\ due' = (IF agreed' THEN due - moment ELSE 0)
       /\ MaybeDeepSleep((next - clock') % Wrap)
  /\ UNCHANGED <<cfg, woke, ctx, quiet, next, started, spent, press>>

\* run_receiver(): until an image arrived or the session timed out.
Listen ==
  /\ Loops("top") /\ Due /\ ctx /\ cfg.role = "receiver"
  /\ pc' = "listen"
  /\ UNCHANGED <<cfg, power, woke, ctx, webVars, clock, next, started, wakeIn,
                 schedule, press>>

ListenAgainMut == next
ListenAgain == clock
EndListen ==
  /\ Loops("listen")
  /\ next' = ListenAgain /\ pc' = "top"
  /\ UNCHANGED <<cfg, power, woke, ctx, webVars, clock, started, wakeIn,
                 schedule, press>>

(***************************************************************************)
(* The web core.                                                           *)
(***************************************************************************)
PageUp == power = "on" /\ page

\* trigger_cb().  A press while a transfer runs is overwritten when it ends.
Press ==
  /\ PageUp /\ quiet' = 0
  /\ next' = clock
  /\ press' = CASE pc = "top" -> "heard" [] pc = "judged" -> "raced"
                [] OTHER -> press
  /\ UNCHANGED <<cfg, power, woke, ctx, page, clock, pc, started, wakeIn, schedule>>

\* Any other request keeps the page up.
Browse ==
  /\ PageUp /\ quiet > 0 /\ quiet' = 0
  /\ UNCHANGED <<cfg, power, woke, ctx, page, clock, next, pc, started, wakeIn,
                 schedule, press>>

\* loraitp_webui_poll(): the access point drops when nobody asked for a while,
\* if it is set to.
PageOverdue == PageUp /\ cfg.fades /\ quiet > PageTimeout
DropPage ==
  /\ PageOverdue /\ page' = FALSE
  /\ UNCHANGED <<cfg, power, woke, ctx, quiet, clock, next, pc, started, wakeIn,
                 schedule, press>>

\* h_settings_post(): the interval is clamped, and the board restarts.
ClampMut(c) == c
Clamp(c) ==
  [c EXCEPT !.interval = IF @ > MaxInterval THEN MaxInterval ELSE @]
SaveSettings(c) == PageUp /\ cfg' = Clamp(c) /\ Start(FALSE)

\* h_reboot().
Reboot == PageUp /\ Start(FALSE) /\ UNCHANGED cfg

(***************************************************************************)
(* The world around.                                                       *)
(***************************************************************************)
Reset == "reset" \in Faults /\ power # "boot" /\ Start(FALSE) /\ UNCHANGED cfg

WakeUp == power = "asleep" /\ wakeIn = 0 /\ Start(TRUE) /\ UNCHANGED cfg

\* Time passes while the loop has nothing to do, a transfer takes its time, or
\* the radio listens.
Tick ==
  /\ power = "on" /\ ~PageOverdue
  /\ \/ pc = "top" /\ ~Due
     \/ pc = "transfer" /\ Delta(clock, started) < MaxTransfer
     \/ pc = "listen"
  /\ clock' = After(1) /\ due' = Sooner(1) /\ up' = Longer(1)
  /\ quiet' = (IF page /\ cfg.fades THEN quiet + 1 ELSE quiet)
  /\ UNCHANGED <<cfg, power, woke, ctx, page, next, pc, started, wakeIn, agreed,
                 spent, press>>

Sleep ==
  /\ power = "asleep" /\ wakeIn > 0
  /\ wakeIn' = wakeIn - 1 /\ due' = Sooner(1)
  /\ UNCHANGED <<cfg, power, woke, ctx, webVars, clock, next, pc, started, agreed,
                 spent, up, press>>

----------------------------------------------------------------------------
Loop == Refused \/ StartTransfer \/ EndTransfer \/ SleepUntilDue \/ Listen \/ EndListen
Web == Press \/ Browse \/ DropPage \/ Reboot \/ \E c \in Settings : SaveSettings(c)
World == SettingUp \/ Setup \/ Reset \/ WakeUp \/ Tick \/ Sleep

Next == Loop \/ Web \/ World
Spec == Init /\ [][Next]_vars

\* The loop runs, the web task polls, time passes and timers fire.  Nobody has
\* to press anything.
Fairness ==
  /\ WF_vars(Loop) /\ WF_vars(DropPage) /\ WF_vars(Setup) /\ WF_vars(WakeUp)
  /\ WF_vars(Tick) /\ WF_vars(Sleep)
FairSpec == Spec /\ Fairness

(***************************************************************************)
(* What must hold.                                                         *)
(***************************************************************************)

\* main.cpp: "The interval is a period, not a gap."  A transfer that nobody
\* asked for starts one period after the one before it started, however long
\* that took, or at once if it overran the period: exactly so while the board
\* stays awake, and late by what setup() takes (no more) when it slept in
\* between and restarted.  Not agreed is a transfer that fell due between the
\* two readings of the clock in loop(): that one SleepsUntilDue is about.
PeriodKept ==
  [][StartTransfer /\ agreed /\ press = "none" => due = -spent]_vars

\* main.cpp: "A receiver goes straight back to listening": only in the Settle
\* after setup() does time pass without it listening, whatever is pressed and
\* wherever the counter stands.
NeverDeaf ==
  [][Tick /\ ctx /\ cfg.role = "receiver" /\ pc # "listen" => up < Settle]_vars

\* main.cpp: after a scheduled wake nobody can read the page, and "spinning here
\* would flatten the battery within a day": a board whose configuration is
\* refused then goes back to sleep.
HeadlessSleeps ==
  (power = "on" /\ Headless /\ ~ctx) ~> (power # "on")

\* main.cpp, of a refused configuration: "the page comes up, says what the radio
\* refused, and lets it be corrected", the mechanism "has to outlive the thing
\* it recovers from": a board started by hand does not go to sleep on it.
PageOutlivesRefusal ==
  power = "asleep" /\ ~woke => ctx

\* main.cpp: "Power the board down until the next transfer is due": no sleep is
\* longer than the period.
SleepsUntilDue == power = "asleep" => wakeIn <= Period

\* main.cpp, trigger_cb(): "the loop picks this up on its next pass".
PressTaken == [][Press => pc = "top" \/ cfg.role = "receiver"]_vars

=============================================================================
