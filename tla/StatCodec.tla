----------------------------- MODULE StatCodec -----------------------------
(***************************************************************************)
(* The body of a STAT frame (src/src/loraitp_bitmap.c): the chunks a block *)
(* still misses, as a list of absolute 16-bit numbers or as a bitmap       *)
(* relative to the block's first chunk, whichever is smaller.  Bytes are   *)
(* numbers below 256; `missing` is a sequence in ascending order.          *)
(***************************************************************************)
EXTENDS Integers, Sequences, SequencesExt

Relative(missing, base) == [i \in DOMAIN missing |-> (missing[i] - base) % 65536]
RelMax(missing, base) ==
  LET rel == Relative(missing, base) IN
    CHOOSE m \in {rel[i] : i \in DOMAIN rel} : \A i \in DOMAIN rel : rel[i] <= m

ListBytes(missing) == 2 * Len(missing)
BitmapBytes(missing, base) == RelMax(missing, base) \div 8 + 1

\* loraitp_stat_choose_enc().
ChooseEncMut(missing, base) ==
  IF missing = <<>> THEN "COMPLETE"
  ELSE IF ListBytes(missing) > BitmapBytes(missing, base) THEN "LIST"
  ELSE "BITMAP"
ChooseEnc(missing, base) ==
  IF missing = <<>> THEN "COMPLETE"
  ELSE IF ListBytes(missing) < BitmapBytes(missing, base) THEN "LIST"
  ELSE "BITMAP"

\* loraitp_stat_encode_body().  The byte count never reaches its limit of 255:
\* a bitmap of at most 256 chunks is 32 bytes, and a list is shorter.
ListBody(missing) ==
  [n \in 1..(2 * Len(missing)) |->
     LET c == missing[(n + 1) \div 2] IN
       IF n % 2 = 1 THEN c % 256 ELSE c \div 256]
BitmapBody(missing, base) ==
  [n \in 1..BitmapBytes(missing, base) |->
     FoldLeft(LAMBDA byte, rel :
                IF rel \div 8 = n - 1 THEN byte + 2^(rel % 8) ELSE byte,
              0, Relative(missing, base))]
EncodeBody(enc, missing, base) ==
  CASE enc = "COMPLETE" -> <<>>
    [] enc = "LIST" -> ListBody(missing)
    [] enc = "BITMAP" -> BitmapBody(missing, base)

\* loraitp_stat_decode_body().
BitsSet(body) ==
  SelectSeq([n \in 1..(8 * Len(body)) |-> n - 1],
            LAMBDA n : (body[n \div 8 + 1] \div 2^(n % 8)) % 2 = 1)
DecodeBitmapMut(body, base) == BitsSet(body)
DecodeBitmap(body, base) ==
  LET bits == BitsSet(body) IN
    [i \in DOMAIN bits |-> (base + bits[i]) % 65536]
DecodeBody(enc, body, base) ==
  CASE enc = "COMPLETE" -> <<>>
    [] enc = "LIST" -> [i \in 1..(Len(body) \div 2) |->
                          body[2 * i - 1] + 256 * body[2 * i]]
    [] enc = "BITMAP" -> DecodeBitmap(body, base)

=============================================================================
