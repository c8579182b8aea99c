---------------------------- MODULE ErasureCode ----------------------------
(***************************************************************************)
(* The systematic Cauchy code over GF(256) that broadcast blocks are coded *)
(* with (src/src/loraitp_fec.c).  The code works on every byte position of *)
(* the chunks alike, so a chunk is one byte here.  Indices start at zero,  *)
(* as in the source; matrices are functions of row and column.             *)
(***************************************************************************)
EXTENDS Integers, Sequences, SequencesExt, FiniteSets

Bytes == 0..255
Upto(n) == [i \in 1..n |-> i - 1]   \* 0, ..., n - 1 in order

\* a ^ b, four bits at a time.
Xor4 ==
  [a \in 0..15 |-> [b \in 0..15 |->
     FoldLeft(LAMBDA sum, i : sum + (2^i * (((a \div 2^i) + (b \div 2^i)) % 2)),
              0, Upto(4))]]
Xor(a, b) == 16 * Xor4[a \div 16][b \div 16] + Xor4[a % 16][b % 16]

\* gf_init(): the powers of 2 modulo 0x11D, sixteen at a time, and their
\* logarithms; gf_log[0] is never set.
Double(x) == IF 2 * x >= 256 THEN Xor(2 * x - 256, 29) ELSE 2 * x
Doubled(x, n) == FoldLeft(LAMBDA y, i : Double(y), x, Upto(n))
GfExp ==
  LET heads == FoldLeft(LAMBDA powers, i :
                          Append(powers, Doubled(powers[Len(powers)], 16)),
                        <<1>>, Upto(15))
  IN [i \in 1..255 |-> Doubled(heads[(i - 1) \div 16 + 1], (i - 1) % 16)]
GfLog ==
  [x \in Bytes |-> IF x = 0 THEN 0 ELSE CHOOSE i \in 0..254 : GfExp[i + 1] = x]

\* gf_mul() and gf_inv(); gf_exp[] repeats from 255 on.
Mul(a, b) ==
  IF a = 0 \/ b = 0 THEN 0 ELSE GfExp[((GfLog[a] + GfLog[b]) % 255) + 1]
Inverted(a) == GfExp[((255 - GfLog[a]) % 255) + 1]

\* cauchy(): entry j of parity row i, of r rows.
Cauchy(i, j, r) == Inverted(Xor(i, r + j))

\* mac_row() over a row of coefficients.
Combination(coeff, values, k) ==
  FoldLeft(LAMBDA sum, j : Xor(sum, Mul(coeff[j], values[j])), 0, Upto(k))

\* loraitp_fec_encode(): the r parity chunks of k chunks.
Encode(data, k, r) ==
  [i \in 0..(r - 1) |->
     Combination([j \in 0..(k - 1) |-> Cauchy(i, j, r)], data, k)]

\* The row of the generator that made frame src of the block.
GeneratorRowMut(src, k, r) ==
  [j \in 0..(k - 1) |-> IF src < k THEN IF j = src THEN 1 ELSE 0
                        ELSE Cauchy(src, j, r)]
GeneratorRow(src, k, r) ==
  [j \in 0..(k - 1) |-> IF src < k THEN IF j = src THEN 1 ELSE 0
                        ELSE Cauchy(src - k, j, r)]

\* invert(): Gauss-Jordan on k rows of 2k columns, column by column; `ok` is
\* lost when a column has no pivot.
Eliminate(m, col, k) ==
  LET pivots == {r \in col..(k - 1) : m.a[r][col] # 0} IN
    IF ~m.ok \/ pivots = {} THEN [m EXCEPT !.ok = FALSE]
    ELSE LET piv == CHOOSE r \in pivots : \A q \in pivots : r <= q
             inv == Inverted(m.a[piv][col])
             row == [c \in 0..(2 * k - 1) |-> Mul(m.a[piv][c], inv)]
             swapped == [m.a EXCEPT ![piv] = m.a[col], ![col] = row]
         IN [m EXCEPT !.a =
               [r \in 0..(k - 1) |->
                  IF r = col THEN row
                  ELSE [c \in 0..(2 * k - 1) |->
                          Xor(swapped[r][c], Mul(swapped[r][col], row[c]))]]]
Invert(a, k) ==
  FoldLeft(LAMBDA m, col : Eliminate(m, col, k), [ok |-> TRUE, a |-> a], Upto(k))

\* loraitp_fec_decode(): from the first k frames present; the source chunks, or
\* nothing at all.
Decode(frames, present, k, r) ==
  LET idx == SelectSeq(Upto(k + r), LAMBDA i : i \in present)
      augmented ==
        [row \in 0..(k - 1) |->
           [c \in 0..(2 * k - 1) |->
              IF c < k THEN GeneratorRow(idx[row + 1], k, r)[c]
              ELSE IF c = k + row THEN 1 ELSE 0]]
  IN IF Cardinality(present) < k THEN [ok |-> FALSE]
     ELSE LET inverse == Invert(augmented, k) IN
       IF ~inverse.ok THEN [ok |-> FALSE]
       ELSE [ok |-> TRUE,
             chunks |-> [i \in 0..(k - 1) |->
                IF i \in present THEN frames[i]
                ELSE Combination([j \in 0..(k - 1) |-> inverse.a[i][k + j]],
                                 [j \in 0..(k - 1) |-> frames[idx[j + 1]]], k)]]

=============================================================================
