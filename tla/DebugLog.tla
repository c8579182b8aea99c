------------------------------ MODULE DebugLog ------------------------------
(***************************************************************************)
(* The log ring (src/firmware/app/debuglog.cpp) between the two cores: the *)
(* session's trace writes it on one, h_log() reads it on the other for the *)
(* log page (src/firmware/app/webui.cpp), which asks every second for what *)
(* is new.                                                                 *)
(*                                                                         *)
(* A line is a number counted over all starts of the board; a line its     *)
(* level keeps out of the log is no line.                                  *)
(***************************************************************************)
EXTENDS Integers, Sequences, Functions

CONSTANTS
  LogLines, \* LOG_LINES, 160
  MaxLines, \* bound of the model on the lines written
  MaxPolls  \* bound of the model on the questions and answers under way

ASSUME DebugLogAssumption ==
  LogLines \in Nat \ {0} /\ MaxLines \in Nat /\ MaxPolls \in Nat \ {0}

VARIABLES
  ring,     \* g_line: slot -> the line in it
  next,     \* g_next_seq
  base,     \* history: lines written before this start
  pc,       \* h_log(): "idle", "reading"
  from, at, \* loraitp_log_read(): the `since` asked for, and s
  out,      \* what log_cb() was handed
  asked,    \* polls sent by the page, their `since`
  answers,  \* answers under way
  since,    \* the page's own
  shown     \* the lines on the page

board == <<ring, next, base>>
reader == <<pc, from, at, out>>
web == <<asked, answers, since, shown>>
vars == <<board, reader, web>>

Init ==
  /\ ring = [i \in {} |-> 0] /\ next = 1 /\ base = 0
  /\ pc = "idle" /\ from = 0 /\ at = 0 /\ out = <<>>
  /\ asked = <<>> /\ answers = <<>> /\ since = 0 /\ shown = {}

Slot(n) == n % LogLines

\* loraitp_log_write(): under the lock.
Write ==
  /\ base + next <= MaxLines
  /\ ring' = [i \in DOMAIN ring \cup {Slot(next)} |->
                IF i = Slot(next) THEN base + next ELSE ring[i]]
  /\ next' = next + 1
  /\ UNCHANGED <<base, reader, web>>

\* pollLog(); the timers do not wait for an answer before they ask again.
Poll ==
  /\ Len(asked) + Len(answers) < MaxPolls
  /\ asked' = Append(asked, since)
  /\ UNCHANGED <<board, reader, answers, since, shown>>

\* The first line loraitp_log_read() looks at; it takes no lock.
Oldest == IF next > LogLines THEN next - LogLines ELSE 1

StartRead ==
  /\ pc = "idle" /\ asked # <<>>
  /\ pc' = "reading" /\ from' = Head(asked) /\ asked' = Tail(asked)
  /\ at' = IF Head(asked) < Oldest THEN Oldest ELSE Head(asked)
  /\ out' = <<>>
  /\ UNCHANGED <<board, answers, since, shown>>

\* One turn of the loop: the check and the copy are under the lock.
LappedMut(n) == FALSE
Lapped(n) == n < next - LogLines /\ next > LogLines

ReadLine ==
  /\ pc = "reading" /\ at < next
  /\ out' = IF Lapped(at) THEN out
            ELSE Append(out, [seq |-> at, line |-> ring[Slot(at)]])
  /\ at' = at + 1
  /\ UNCHANGED <<board, pc, from, web>>

\* The loop has seen the end; that g_next_seq is also the one returned, as
\* nothing between the two reads makes the compiler load it again.
Answer ==
  /\ pc = "reading" /\ at >= next
  /\ pc' = "idle" /\ from' = 0 /\ at' = 0 /\ out' = <<>>
  /\ answers' = Append(answers, [lines |-> out, next |-> next])
  /\ UNCHANGED <<board, asked, since, shown>>

\* log_cb() puts a comma before a line when the text is longer than one
\* character, and h_log() has begun it with the ten of {"lines":[ - a list
\* that starts with a comma is not JSON, and r.json() throws.
HeadLength == 10
Parses(r) == r.lines = <<>> \/ ~(HeadLength > 1)

Lines(r) == {l.line : l \in Range(r.lines)}

\* pollLog() after its await.
Show ==
  /\ answers # <<>> /\ answers' = Tail(answers)
  /\ IF Parses(Head(answers))
     THEN /\ since' = Head(answers).next
          /\ shown' = shown \cup Lines(Head(answers))
     ELSE UNCHANGED <<since, shown>>
  /\ UNCHANGED <<board, reader, asked>>

\* The ring is lost and its numbers start again; the page stays as it is.
Restart ==
  /\ ring' = [i \in {} |-> 0] /\ next' = 1 /\ base' = base + next - 1
  /\ pc' = "idle" /\ from' = 0 /\ at' = 0 /\ out' = <<>>
  /\ asked' = <<>> /\ UNCHANGED <<answers, since, shown>>

Next ==
  \/ Write \/ Poll \/ StartRead \/ ReadLine \/ Answer \/ Show \/ Restart

Spec == Init /\ [][Next]_vars

----------------------------------------------------------------------------
\* debuglog.cpp: "the writer may have lapped us while we were reading" - what
\* is handed out under a number is the line of that number.
RightLine == \A l \in Range(out) : l.line = base + l.seq

\* debuglog.cpp: "everything after N" - what the reader has passed it has
\* handed out, once and in order, unless it was overwritten by now.
NothingSkipped ==
  /\ \A n \in 1..(at - 1) :
       n >= from /\ ~(n < next - LogLines) => \E l \in Range(out) : l.seq = n
  /\ \A i, j \in DOMAIN out : i < j => out[i].seq < out[j].seq

\* loraitp_log_read(): an answer is the log, however the other core laps the
\* reader: every line under its own number, and none missing that is still there.
AnswerIsTheLog == RightLine /\ NothingSkipped

\* debuglog.cpp: "the browser polls for "everything after N" and gets only
\* what is new" - the lines an answer carries are on the page after it.
AnswersShown == [][Show => Lines(Head(answers)) \subseteq shown']_vars

=============================================================================
