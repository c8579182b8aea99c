--------------------------- MODULE DebugLogProofs ---------------------------
(***************************************************************************)
(* Proofs about DebugLog, for a ring of any size and any number of lines,  *)
(* polls and starts of the board.                                          *)
(***************************************************************************)
EXTENDS DebugLog, TLAPS

LEMMA Elements ==
  ASSUME NEW S, NEW s \in Seq(S)
  PROVE  /\ \A i \in DOMAIN s : s[i] \in S
         /\ s # <<>> => Head(s) \in S /\ Tail(s) \in Seq(S)
  OBVIOUS

(***************************************************************************)
(* Slots.  Two lines fewer than LOG_LINES apart are in different slots.    *)
(***************************************************************************)
LEMMA DivMod ==
  ASSUME NEW n \in Nat
  PROVE  /\ n \div LogLines \in Nat /\ Slot(n) \in 0..(LogLines - 1)
         /\ n = LogLines * (n \div LogLines) + Slot(n)
  BY DebugLogAssumption DEF Slot

LEMMA SlotsApart ==
  ASSUME NEW m \in Nat, NEW n \in Nat, m < n, n - m < LogLines
  PROVE  Slot(m) # Slot(n)
<1> SUFFICES ASSUME Slot(m) = Slot(n) PROVE FALSE
  OBVIOUS
<1> DEFINE d == (n \div LogLines) - (m \div LogLines)
<1>1. /\ n \div LogLines \in Nat /\ Slot(n) \in 0..(LogLines - 1)
      /\ n = LogLines * (n \div LogLines) + Slot(n)
  BY DivMod, Zenon
<1>2. /\ m \div LogLines \in Nat /\ Slot(m) \in 0..(LogLines - 1)
      /\ m = LogLines * (m \div LogLines) + Slot(m)
  BY DivMod, Zenon
<1>3. LogLines \in Nat \ {0}
  BY DebugLogAssumption
<1>4. n - m = LogLines * d /\ d \in Int
  BY <1>1, <1>2, <1>3
<1>5. d > 0 => LogLines * d >= LogLines
  BY <1>3, <1>4
<1>6. d <= 0 => LogLines * d <= 0
  BY <1>3, <1>4
<1> HIDE DEF d
<1>7. QED
  BY <1>3, <1>4, <1>5, <1>6

(***************************************************************************)
(* The invariant.  RingInv: the last LOG_LINES numbers are each in their   *)
(* slot.  ReadInv: what h_log() has handed out lies behind it, and what    *)
(* lies behind it was handed out or has been overwritten since.            *)
(***************************************************************************)
Handed == Seq([seq : Nat, line : Nat])

LogTypes ==
  /\ next \in Nat \ {0} /\ base \in Nat
  /\ pc \in {"idle", "reading"} /\ from \in Nat /\ at \in Nat /\ out \in Handed
  /\ asked \in Seq(Nat) /\ since \in Nat
  /\ answers \in Seq([lines : Handed, next : Nat])

RingInv ==
  \A n \in Nat : 1 <= n /\ n < next /\ n >= next - LogLines =>
    Slot(n) \in DOMAIN ring /\ ring[Slot(n)] = base + n

ReadInv ==
  /\ pc = "reading" => at >= 1
  /\ \A i \in DOMAIN out : out[i].seq < at
  /\ AnswerIsTheLog

LogInv == LogTypes /\ RingInv /\ ReadInv

LEMMA InitLog == Init => LogInv
<1> SUFFICES ASSUME Init PROVE LogInv
  OBVIOUS
<1>1. LogTypes
  BY DEF Init, LogTypes, Handed
<1>2. RingInv
  BY DEF Init, RingInv
<1>3. ReadInv
  BY DEF Init, ReadInv, AnswerIsTheLog, RightLine, NothingSkipped, Range
<1>4. QED
  BY <1>1, <1>2, <1>3 DEF LogInv

\* loraitp_log_write() puts the new line where only a lapped one was.
LEMMA WriteStep ==
  ASSUME LogInv, Write
  PROVE  LogInv'
<1>1. /\ next \in Nat \ {0} /\ base \in Nat /\ next' = next + 1
      /\ LogLines \in Nat \ {0}
      /\ UNCHANGED <<base, pc, from, at, out, asked, answers, since>>
  BY DebugLogAssumption DEF LogInv, LogTypes, Write, reader, web
<1>2. LogTypes'
  BY <1>1 DEF LogInv, LogTypes
<1>3. RingInv'
  <2>1. SUFFICES ASSUME NEW n \in Nat, 1 <= n, n < next + 1,
                        n >= next + 1 - LogLines
                 PROVE  Slot(n) \in DOMAIN ring' /\ ring'[Slot(n)] = base + n
    BY <1>1 DEF RingInv
  <2>2. ring' = [i \in DOMAIN ring \cup {Slot(next)} |->
                   IF i = Slot(next) THEN base + next ELSE ring[i]]
    BY DEF Write
  <2>3. CASE n = next
    BY <2>2, <2>3
  <2>4. CASE n # next
    <3>1. n < next /\ next - n < LogLines /\ n >= next - LogLines
      BY <1>1, <2>1, <2>4
    <3>2. Slot(n) # Slot(next)
      BY <1>1, <3>1, SlotsApart
    <3>3. Slot(n) \in DOMAIN ring /\ ring[Slot(n)] = base + n
      BY <2>1, <3>1 DEF LogInv, RingInv
    <3>4. QED
      BY <2>2, <3>2, <3>3
  <2>5. QED
    BY <2>3, <2>4
<1>4. ReadInv'
  <2>1. RightLine'
    BY <1>1 DEF LogInv, ReadInv, AnswerIsTheLog, RightLine
  <2>2. NothingSkipped'
    <3>1. \A n \in 1..(at - 1) : ~(n < next + 1 - LogLines) => ~(n < next - LogLines)
      BY <1>1
    <3>2. QED
      BY <1>1, <3>1 DEF LogInv, ReadInv, AnswerIsTheLog, NothingSkipped
  <2>3. QED
    BY <1>1, <2>1, <2>2 DEF LogInv, ReadInv, AnswerIsTheLog
<1>5. QED
  BY <1>2, <1>3, <1>4 DEF LogInv

\* The reader begins no later than the first line it can still be given.
LEMMA StartStep ==
  ASSUME LogInv, StartRead
  PROVE  LogInv'
<1>1. /\ Head(asked) \in Nat /\ Tail(asked) \in Seq(Nat)
      /\ from' = Head(asked) /\ asked' = Tail(asked) /\ out' = <<>>
      /\ at' = IF Head(asked) < Oldest THEN Oldest ELSE Head(asked)
      /\ pc' = "reading"
      /\ UNCHANGED <<ring, next, base, answers, since>>
  BY DEF LogInv, LogTypes, StartRead, board
<1>2. /\ Oldest \in Nat /\ Oldest >= 1 /\ at' \in Nat /\ at' >= 1
      /\ \A n \in Nat : 1 <= n /\ n < Oldest => n < next - LogLines
  BY <1>1, DebugLogAssumption DEF LogInv, LogTypes, Oldest
<1>3. LogTypes'
  BY <1>1, <1>2 DEF LogInv, LogTypes, Handed
<1>4. RingInv'
  BY <1>1 DEF LogInv, RingInv
<1>5. NothingSkipped'
  <2>1. \A n \in 1..(at' - 1) : n >= from' => n < next' - LogLines
    BY <1>1, <1>2
  <2>2. QED
    BY <1>1, <2>1 DEF NothingSkipped
<1>6. RightLine' /\ \A i \in DOMAIN out' : out'[i].seq < at'
  BY <1>1 DEF RightLine, Range
<1>7. QED
  BY <1>2, <1>3, <1>4, <1>5, <1>6 DEF LogInv, ReadInv, AnswerIsTheLog

\* One turn of the loop in loraitp_log_read().
LEMMA ReadStep ==
  ASSUME LogInv, ReadLine
  PROVE  LogInv'
<1>1. /\ at \in Nat /\ at >= 1 /\ at < next /\ at' = at + 1 /\ next \in Nat
      /\ base \in Nat /\ LogLines \in Nat \ {0} /\ out \in Handed
      /\ UNCHANGED <<ring, next, base, pc, from, asked, answers, since>>
  BY DebugLogAssumption DEF LogInv, LogTypes, ReadInv, ReadLine, board, web
<1>2. RingInv'
  BY <1>1 DEF LogInv, RingInv
<1>3. CASE Lapped(at)
  <2>1. out' = out /\ at < next - LogLines
    BY <1>3 DEF ReadLine, Lapped
  <2>2. LogTypes'
    BY <1>1, <2>1 DEF LogInv, LogTypes
  <2>3. \A i \in DOMAIN out' : out'[i].seq < at'
    <3>1. \A i \in DOMAIN out : out[i].seq \in Nat
      <4>1. \A i \in DOMAIN out : out[i] \in [seq : Nat, line : Nat]
        BY <1>1, Elements, Zenon DEF Handed
      <4>2. QED
        BY <4>1
    <3>2. QED
      BY <1>1, <2>1, <3>1 DEF LogInv, ReadInv
  <2>4. RightLine'
    BY <1>1, <2>1 DEF LogInv, ReadInv, AnswerIsTheLog, RightLine
  <2>5. NothingSkipped'
    <3>1. \A n \in 1..(at' - 1) : n = at \/ n \in 1..(at - 1)
      BY <1>1
    <3>2. QED
      BY <1>1, <2>1, <3>1 DEF LogInv, ReadInv, AnswerIsTheLog, NothingSkipped
  <2>6. QED
    BY <1>1, <1>2, <2>2, <2>3, <2>4, <2>5 DEF LogInv, ReadInv, AnswerIsTheLog
<1>4. CASE ~Lapped(at)
  <2> DEFINE new == [seq |-> at, line |-> ring[Slot(at)]]
  <2>1. out' = Append(out, new)
    BY <1>4 DEF ReadLine
  <2>2. at >= next - LogLines
    BY <1>1, <1>4 DEF Lapped
  <2>3. new.seq = at /\ new.line = base + at
    BY <1>1, <2>2 DEF LogInv, RingInv
  <2>4. new \in [seq : Nat, line : Nat]
    BY <1>1, <2>3
  <2> HIDE DEF new
  <2>5. /\ out' \in Handed /\ DOMAIN out' = 1..(Len(out) + 1) /\ Len(out) \in Nat
        /\ DOMAIN out = 1..Len(out) /\ out'[Len(out) + 1] = new
        /\ \A i \in 1..Len(out) : out'[i] = out[i]
    BY <1>1, <2>1, <2>4 DEF Handed
  <2>6. \A i \in DOMAIN out : out[i].seq \in Nat /\ out[i].seq < at
    <3>1. \A i \in DOMAIN out : out[i] \in [seq : Nat, line : Nat]
      BY <1>1, Elements, Zenon DEF Handed
    <3>2. QED
      BY <3>1 DEF LogInv, ReadInv
  <2>7. LogTypes'
    BY <1>1, <2>5 DEF LogInv, LogTypes
  <2>8. \A i \in DOMAIN out' : out'[i].seq < at'
    BY <1>1, <2>3, <2>5, <2>6
  <2>9. RightLine'
    <3>1. \A i \in DOMAIN out : out[i].line = base + out[i].seq
      BY DEF LogInv, ReadInv, AnswerIsTheLog, RightLine, Range
    <3>2. \A i \in DOMAIN out' : out'[i].line = base + out'[i].seq
      BY <2>3, <2>5, <3>1
    <3>3. QED
      BY <1>1, <3>2 DEF RightLine, Range
  <2>10. NothingSkipped'
    <3>1. \A n \in 1..(at - 1) :
            n >= from /\ ~(n < next - LogLines) => \E i \in DOMAIN out : out[i].seq = n
      BY DEF LogInv, ReadInv, AnswerIsTheLog, NothingSkipped, Range
    <3>2. \A n \in 1..(at' - 1) : n = at \/ n \in 1..(at - 1)
      BY <1>1
    <3>3. \A n \in 1..(at' - 1) :
            n >= from /\ ~(n < next - LogLines) =>
              \E i \in DOMAIN out' : out'[i].seq = n
      BY <2>3, <2>5, <3>1, <3>2
    <3>4. \A i, j \in DOMAIN out : i < j => out[i].seq < out[j].seq
      BY DEF LogInv, ReadInv, AnswerIsTheLog, NothingSkipped
    <3>5. \A i, j \in DOMAIN out' : i < j => out'[i].seq < out'[j].seq
      BY <2>3, <2>5, <2>6, <3>4
    <3>6. QED
      BY <1>1, <3>3, <3>5 DEF NothingSkipped, Range
  <2>11. QED
    BY <1>1, <1>2, <2>7, <2>8, <2>9, <2>10 DEF LogInv, ReadInv, AnswerIsTheLog
<1>5. QED
  BY <1>3, <1>4

\* The answer is handed over, or the board restarts: nothing is being read.
LEMMA IdleStep ==
  ASSUME LogTypes, LogTypes', RingInv', at' = 0, out' = <<>>, pc' = "idle"
  PROVE  LogInv'
<1>1. RightLine' /\ NothingSkipped'
  BY DEF RightLine, NothingSkipped, Range
<1>2. QED
  BY <1>1 DEF LogInv, ReadInv, AnswerIsTheLog

LEMMA LogStep ==
  ASSUME LogInv, [Next]_vars
  PROVE  LogInv'
<1>1. CASE Write
  BY <1>1, WriteStep
<1>2. CASE StartRead
  BY <1>2, StartStep
<1>3. CASE ReadLine
  BY <1>3, ReadStep
<1>4. CASE Answer
  <2>1. LogTypes'
    <3>1. [lines |-> out, next |-> next] \in [lines : Handed, next : Nat]
      BY DEF LogInv, LogTypes
    <3>2. QED
      BY <1>4, <3>1 DEF LogInv, LogTypes, Answer, board, Handed
  <2>2. RingInv'
    BY <1>4 DEF LogInv, RingInv, Answer, board
  <2>3. QED
    BY <1>4, <2>1, <2>2, IdleStep DEF Answer, LogInv
<1>5. CASE Restart
  <2>1. /\ next' = 1 /\ base' = base + next - 1 /\ at' = 0 /\ out' = <<>>
        /\ pc' = "idle"
    BY <1>5 DEF Restart
  <2>2. LogTypes'
    BY <1>5, <2>1 DEF LogInv, LogTypes, Restart, Handed
  <2>3. RingInv'
    BY <2>1 DEF RingInv
  <2>4. QED
    BY <2>1, <2>2, <2>3, IdleStep DEF LogInv
<1>6. CASE Poll \/ Show \/ UNCHANGED vars
  <2>1. UNCHANGED <<ring, next, base, pc, from, at, out>>
    BY <1>6 DEF Poll, Show, vars, board, reader
  <2>2. asked' \in Seq(Nat) /\ since' \in Nat
        /\ answers' \in Seq([lines : Handed, next : Nat])
    <3>1. CASE Poll
      BY <3>1 DEF LogInv, LogTypes, Poll
    <3>2. CASE Show
      <4>1. Head(answers) \in [lines : Handed, next : Nat]
        BY <3>2, Elements, Zenon DEF LogInv, LogTypes, Show
      <4>2. Tail(answers) \in Seq([lines : Handed, next : Nat])
        BY <3>2, Elements, Zenon DEF LogInv, LogTypes, Show
      <4>3. QED
        BY <3>2, <4>1, <4>2 DEF LogInv, LogTypes, Show
    <3>3. CASE UNCHANGED vars
      BY <3>3 DEF LogInv, LogTypes, vars, web
    <3>4. QED
      BY <1>6, <3>1, <3>2, <3>3
  <2>3. LogTypes'
    BY <2>1, <2>2 DEF LogInv, LogTypes
  <2>4. RingInv' /\ ReadInv'
    BY <2>1 DEF LogInv, RingInv, ReadInv, AnswerIsTheLog, RightLine,
       NothingSkipped
  <2>5. QED
    BY <2>3, <2>4 DEF LogInv
<1>7. QED
  BY <1>1, <1>2, <1>3, <1>4, <1>5, <1>6 DEF Next

\* What h_log() hands out under a number is the line of that number, in order
\* and with nothing missing that the ring still holds, however often the
\* session's core writes past the reader between two turns of its loop, for any
\* LOG_LINES.
THEOREM AnswersAreTheLog == Spec => []AnswerIsTheLog
<1>1. Init => LogInv
  BY InitLog
<1>2. LogInv /\ [Next]_vars => LogInv'
  BY LogStep
<1>3. LogInv => AnswerIsTheLog
  BY DEF LogInv, ReadInv
<1>4. QED
  BY <1>1, <1>2, <1>3, PTL DEF Spec

=============================================================================
