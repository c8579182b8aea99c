--------------------------- MODULE MCBlockCoding ---------------------------
(* Blocks to send, for TLC. *)
EXTENDS BlockCoding

Plain == [k |-> 4, r |-> 0, base |-> 0, bursts |-> 1, lost |-> {}, sf |-> 10, khz |-> 125,
          cr |-> 1, keyed |-> FALSE, macData |-> FALSE, tail |-> 0]

\* Interactive: two bursts in a block of three bitmap bytes, one in a block
\* long enough for lists of two, at both ends of the 16-bit chunk numbers.
Asked ==
  {[Plain EXCEPT !.k = 20, !.bursts = 2, !.base = 0],
   [Plain EXCEPT !.k = 20, !.bursts = 2, !.base = 65500],
   [Plain EXCEPT !.k = 34, !.base = 136],
   [Plain EXCEPT !.k = 34, !.base = 65484]}

\* The largest blocks there are, the last one (the chunk count has 16 bits) a
\* chunk short: all chunks missing, all but the first, only the last, and those
\* around which a list gives way to a bitmap: 15, and 16 of them up to the last
\* but one byte of the bitmap or to its end.
Every(n, first, last) == {i \in first..last : (i - first) % n = 0}
Patterns ==
  {0..255, 1..255, {254, 255}, Every(17, 16, 254), Every(16, 0, 240), Every(16, 14, 254)}
Largest ==
  {[Plain EXCEPT !.k = 256, !.bursts = 0, !.lost = p] : p \in Patterns}
  \cup {[Plain EXCEPT !.k = 255, !.base = 65280, !.bursts = 0, !.lost = p] :
          p \in Patterns}

\* Broadcast: everything the radio may lose, for small codes.
Coded ==
  {[Plain EXCEPT !.k = k, !.r = r, !.bursts = k + r] :
     k \in 1..4, r \in 1..3}
  \cup {[Plain EXCEPT !.k = 6, !.r = 3, !.bursts = 9]}

\* The radio settings, control frames authenticated, a short last chunk.
Tuned ==
  {[Plain EXCEPT !.sf = sf, !.khz = khz, !.cr = cr, !.keyed = TRUE, !.tail = 1] :
     sf \in 7..12, khz \in {125, 250, 500}, cr \in {1, 4}}

AllJobs == Asked \cup Largest \cup Coded \cup Tuned
SealedJobs == {[j EXCEPT !.macData = TRUE] : j \in Tuned}

=============================================================================
