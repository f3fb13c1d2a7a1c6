-------------------------------- MODULE Varint --------------------------------
(***************************************************************************)
(* QUIC variable-length integers (RFC 9000, Section 16), as the package    *)
(* quicvarint and readVarint of receive_flow.go use them: 1, 2, 4 or 8     *)
(* bytes, big-endian, the width in the two high bits of the first byte.    *)
(* Values stay below 2^31.                                                 *)
(***************************************************************************)
LOCAL INSTANCE Naturals
LOCAL INSTANCE Sequences

Byte == 0..255

Widths == {1, 2, 4, 8}
WidthBits(n) == IF n = 1 THEN 0 ELSE IF n = 2 THEN 64 ELSE IF n = 4 THEN 128 ELSE 192

(* quicvarint.Len: the width of the shortest encoding. *)
VarintLen(v) ==
  IF v < 64 THEN 1 ELSE IF v < 16384 THEN 2 ELSE IF v < 1073741824 THEN 4 ELSE 8

(* v in n bytes, not necessarily the fewest. *)
ByteOf(v, i) ==
  IF i = 0 THEN v % 256
  ELSE IF i = 1 THEN (v \div 256) % 256
  ELSE IF i = 2 THEN (v \div 65536) % 256
  ELSE IF i = 3 THEN (v \div 16777216) % 256 ELSE 0
EncodeIn(v, n) ==
  [i \in 1..n |-> ByteOf(v, n - i) + (IF i = 1 THEN WidthBits(n) ELSE 0)]

(* quicvarint.Append writes the shortest encoding. *)
VarintBytes(v) == EncodeIn(v, VarintLen(v))

(* readVarint: the first byte says how many bytes follow. *)
WidthOf(first) ==
  IF first < 64 THEN 1 ELSE IF first < 128 THEN 2 ELSE IF first < 192 THEN 4 ELSE 8

(* quicvarint.Parse, on a sequence that holds the whole varint. *)
HasVarint(bytes) == bytes # <<>> /\ Len(bytes) >= WidthOf(Head(bytes))
VarintValue(b) ==
  LET hi == b[1] % 64
  IN  CASE WidthOf(b[1]) = 1 -> hi
        [] WidthOf(b[1]) = 2 -> 256 * hi + b[2]
        [] WidthOf(b[1]) = 4 -> 256 * (256 * (256 * hi + b[2]) + b[3]) + b[4]
        [] WidthOf(b[1]) = 8 ->
             256 * (256 * (256 * (256 * (256 * (256 * (256 * hi + b[2]) + b[3]) + b[4])
                                  + b[5]) + b[6]) + b[7]) + b[8]

(* The values an encoding of n bytes can hold, below 2^31. *)
Limit(n) == CASE n = 1 -> 64 [] n = 2 -> 16384 [] n = 4 -> 1073741824 [] n = 8 -> 2147483647
=============================================================================
