----------------------------- MODULE VarintProofs -----------------------------
EXTENDS Varint, Integers, Sequences, TLAPS

(* quicvarint.Len is one of the four widths. *)
LEMMA VarintWidth ==
  ASSUME NEW v \in Nat
  PROVE  VarintLen(v) \in {1, 2, 4, 8}
BY SMT DEF VarintLen

(* A byte of a value is a byte. *)
LEMMA ByteOfIsByte ==
  ASSUME NEW v \in Nat, NEW i \in Nat
  PROVE  ByteOf(v, i) \in 0..255
<1>1. \A x \in Nat : x % 256 \in 0..255
  BY SMT
<1>2. v \div 256 \in Nat /\ v \div 65536 \in Nat /\ v \div 16777216 \in Nat
  BY SMT
<1>3. CASE i = 0
  BY <1>1, <1>3, SMT DEF ByteOf
<1>4. CASE i = 1
  BY <1>1, <1>2, <1>4, SMT DEF ByteOf
<1>5. CASE i = 2
  BY <1>1, <1>2, <1>5, SMT DEF ByteOf
<1>6. CASE i = 3
  BY <1>1, <1>2, <1>6, SMT DEF ByteOf
<1>7. CASE i \notin {0, 1, 2, 3}
  BY <1>7, SMT DEF ByteOf
<1> QED BY <1>3, <1>4, <1>5, <1>6, <1>7, SMT

(* The first byte of the shortest encoding leaves the two high bits free. *)
LEMMA FirstByte ==
  ASSUME NEW v \in Nat
  PROVE  ByteOf(v, VarintLen(v) - 1) \in 0..63
<1>1. CASE v < 64
  BY <1>1, SMT DEF ByteOf, VarintLen
<1>2. CASE 64 <= v /\ v < 16384
  <2>1. VarintLen(v) - 1 = 1
    BY <1>2, SMT DEF VarintLen
  <2>2. v \div 256 \in 0..63
    BY <1>2, SMT
  <2> QED BY <2>1, <2>2, SMT DEF ByteOf
<1>3. CASE 16384 <= v /\ v < 1073741824
  <2>1. VarintLen(v) - 1 = 3
    BY <1>3, SMT DEF VarintLen
  <2>2. v \div 16777216 \in 0..63
    BY <1>3, SMT
  <2> QED BY <2>1, <2>2, SMT DEF ByteOf
<1>4. CASE 1073741824 <= v
  <2>1. VarintLen(v) - 1 = 7
    BY <1>4, SMT DEF VarintLen
  <2> QED BY <2>1, SMT DEF ByteOf
<1> QED BY <1>1, <1>2, <1>3, <1>4, SMT

(* quicvarint.Append produces between one and eight bytes. *)
THEOREM VarintIsBytes ==
  ASSUME NEW v \in Nat
  PROVE  VarintBytes(v) \in Seq(Byte) /\ Len(VarintBytes(v)) \in {1, 2, 4, 8}
<1> DEFINE n == VarintLen(v)
<1>1. n \in {1, 2, 4, 8}
  BY VarintWidth, SMT
<1>2. WidthBits(n) \in {0, 64, 128, 192}
  BY <1>1, SMT DEF WidthBits
<1>3. \A i \in 1..n : ByteOf(v, n - i) + (IF i = 1 THEN WidthBits(n) ELSE 0) \in Byte
  <2> SUFFICES ASSUME NEW i \in 1..n
               PROVE  ByteOf(v, n - i) + (IF i = 1 THEN WidthBits(n) ELSE 0) \in Byte
    BY SMT
  <2>1. CASE i = 1
    <3>1. ByteOf(v, n - 1) \in 0..63
      BY FirstByte, SMT
    <3> HIDE DEF n
    <3> QED BY <1>2, <2>1, <3>1, SMT DEF Byte
  <2>2. CASE i # 1
    <3>1. n - i \in Nat
      BY <1>1, SMT
    <3>2. ByteOf(v, n - i) \in 0..255
      BY <3>1, ByteOfIsByte
    <3> HIDE DEF n
    <3> QED BY <2>2, <3>2, SMT DEF Byte
  <2> QED BY <2>1, <2>2, SMT
<1>4. VarintBytes(v) = [i \in 1..n |-> ByteOf(v, n - i) + (IF i = 1 THEN WidthBits(n) ELSE 0)]
  BY SMT DEF VarintBytes, EncodeIn
<1> HIDE DEF n
<1> QED BY <1>1, <1>3, <1>4, SMT

(* The bytes of a value add up to it. *)
LEMMA BytesOf2 ==
  ASSUME NEW v \in Nat, v < 16384
  PROVE  v = 256 * (v \div 256) + (v % 256) /\ v \div 256 \in 0..63
BY SMT

(* A value below 2^31 is the sum of its four bytes. *)
LEMMA BytesOf4 ==
  ASSUME NEW v \in Nat, v < 2147483647
  PROVE  /\ v = 256 * (256 * (256 * (v \div 16777216) + ((v \div 65536) % 256))
                       + ((v \div 256) % 256)) + (v % 256)
         /\ v \div 16777216 \in 0..127
         /\ v < 1073741824 => v \div 16777216 \in 0..63
<1>1. v = 256 * (v \div 256) + (v % 256)
  BY SMT
<1>2. v \div 256 = 256 * (v \div 65536) + ((v \div 256) % 256)
  BY SMT
<1>3. v \div 65536 = 256 * (v \div 16777216) + ((v \div 65536) % 256)
  BY SMT
<1>4. v \div 16777216 \in 0..127 /\ (v < 1073741824 => v \div 16777216 \in 0..63)
  BY SMT
<1> QED BY <1>1, <1>2, <1>3, <1>4, SMT

(* The bytes of a value, one by one. *)
LEMMA ByteOfValues ==
  ASSUME NEW v \in Nat
  PROVE  /\ ByteOf(v, 0) = v % 256 /\ ByteOf(v, 1) = (v \div 256) % 256
         /\ ByteOf(v, 2) = (v \div 65536) % 256 /\ ByteOf(v, 3) = (v \div 16777216) % 256
         /\ ByteOf(v, 4) = 0 /\ ByteOf(v, 5) = 0 /\ ByteOf(v, 6) = 0 /\ ByteOf(v, 7) = 0
BY SMT DEF ByteOf

(* Parsing the bytes that EncodeIn writes gives the value and the width back. *)
LEMMA ParseEncoded ==
  ASSUME NEW n \in {1, 2, 4, 8}, NEW v \in Nat, v < Limit(n), NEW b,
         b[1] = ByteOf(v, n - 1) + WidthBits(n),
         \A i \in 2..n : b[i] = ByteOf(v, n - i)
  PROVE  VarintValue(b) = v /\ WidthOf(b[1]) = n
<1>1. CASE n = 1
  <2>1. v < 64 /\ b[1] = v
    <3>1. b[1] = ByteOf(v, 0) + 0 /\ v < 64
      BY <1>1, SMT DEF WidthBits, Limit
    <3>2. b[1] = (v % 256) + 0 /\ v < 64
      <4>1. ByteOf(v, 0) = v % 256
        BY SMT DEF ByteOf
      <4> QED BY <3>1, <4>1
    <3> QED BY <3>2, SMT
  <2>2. VarintValue(b) = v /\ WidthOf(b[1]) = 1
    BY <2>1, SMT DEF VarintValue, WidthOf
  <2> QED BY <1>1, <2>2
<1>2. CASE n = 2
  <2>1. v < 16384
    BY <1>2, SMT DEF Limit
  <2>2. b[1] = ByteOf(v, 1) + 64 /\ b[2] = ByteOf(v, 0)
    BY <1>2, SMT DEF WidthBits
  <2>3. b[1] = (v \div 256) + 64 /\ b[2] = v % 256
    <3>1. b[1] = ((v \div 256) % 256) + 64 /\ b[2] = v % 256
      BY <2>2, ByteOfValues
    <3> QED BY <2>1, <3>1, SMT
  <2>4. WidthOf(b[1]) = 2 /\ b[1] % 64 = v \div 256
    BY <2>1, <2>3, SMT DEF WidthOf
  <2>5. VarintValue(b) = 256 * (b[1] % 64) + b[2]
    BY <2>4, SMT DEF VarintValue
  <2>6. VarintValue(b) = v
    BY <2>1, <2>3, <2>4, <2>5, SMT
  <2> QED BY <1>2, <2>4, <2>6
<1>3. CASE n = 4
  <2>1. v < 1073741824 /\ v < 2147483647
    BY <1>3, SMT DEF Limit
  <2>2. /\ b[1] = ByteOf(v, 3) + 128 /\ b[2] = ByteOf(v, 2)
        /\ b[3] = ByteOf(v, 1) /\ b[4] = ByteOf(v, 0)
    BY <1>3, SMT DEF WidthBits
  <2>3. /\ b[1] = (v \div 16777216) + 128 /\ b[2] = (v \div 65536) % 256
        /\ b[3] = (v \div 256) % 256 /\ b[4] = v % 256
    <3>1. /\ b[1] = ((v \div 16777216) % 256) + 128 /\ b[2] = (v \div 65536) % 256
          /\ b[3] = (v \div 256) % 256 /\ b[4] = v % 256
      BY <2>2, ByteOfValues, SMT
    <3> QED BY <2>1, <3>1, SMT
  <2>4. WidthOf(b[1]) = 4 /\ b[1] % 64 = v \div 16777216
    BY <2>1, <2>3, SMT DEF WidthOf
  <2>5. VarintValue(b) = 256 * (256 * (256 * (b[1] % 64) + b[2]) + b[3]) + b[4]
    BY <2>4, SMT DEF VarintValue
  <2>6. VarintValue(b) = v
    BY <2>1, <2>3, <2>4, <2>5, BytesOf4, SMT
  <2> QED BY <1>3, <2>4, <2>6
<1>4. CASE n = 8
  <2>1. v < 2147483647
    BY <1>4, SMT DEF Limit
  <2>2. /\ b[1] = ByteOf(v, 7) + 192 /\ b[2] = ByteOf(v, 6) /\ b[3] = ByteOf(v, 5)
        /\ b[4] = ByteOf(v, 4) /\ b[5] = ByteOf(v, 3) /\ b[6] = ByteOf(v, 2)
        /\ b[7] = ByteOf(v, 1) /\ b[8] = ByteOf(v, 0)
    BY <1>4, SMT DEF WidthBits
  <2>3. /\ b[1] = 192 /\ b[2] = 0 /\ b[3] = 0 /\ b[4] = 0 /\ b[5] = v \div 16777216
        /\ b[6] = (v \div 65536) % 256 /\ b[7] = (v \div 256) % 256 /\ b[8] = v % 256
    <3>1. /\ b[1] = 0 + 192 /\ b[2] = 0 /\ b[3] = 0 /\ b[4] = 0
          /\ b[5] = (v \div 16777216) % 256
          /\ b[6] = (v \div 65536) % 256 /\ b[7] = (v \div 256) % 256 /\ b[8] = v % 256
      BY <2>2, ByteOfValues, SMT
    <3> QED BY <2>1, <3>1, SMT
  <2>4. WidthOf(b[1]) = 8 /\ b[1] % 64 = 0
    BY <2>3, SMT DEF WidthOf
  <2>5. VarintValue(b) =
          256 * (256 * (256 * (256 * (256 * (256 * (256 * (b[1] % 64) + b[2]) + b[3]) + b[4])
                                  + b[5]) + b[6]) + b[7]) + b[8]
    BY <2>4, SMT DEF VarintValue
  <2>6. VarintValue(b) = v
    BY <2>1, <2>3, <2>4, <2>5, BytesOf4, SMT
  <2> QED BY <1>4, <2>4, <2>6
<1> QED BY <1>1, <1>2, <1>3, <1>4

(* Parsing an encoding of any width that holds the value, followed by       *)
(* whatever else, yields the value and the width: readVarint and            *)
(* quicvarint.Parse undo quicvarint.Append, minimal encoding or not.        *)
THEOREM VarintRoundTrip ==
  ASSUME NEW n \in {1, 2, 4, 8}, NEW v \in Nat, v < Limit(n), NEW more \in Seq(Byte)
  PROVE  /\ VarintValue(EncodeIn(v, n) \o more) = v
         /\ WidthOf((EncodeIn(v, n) \o more)[1]) = n
<1>1. \A i \in 1..n : ByteOf(v, n - i) \in 0..255
  <2>1. \A i \in 1..n : n - i \in Nat
    BY SMT
  <2> QED BY <2>1, ByteOfIsByte
<1>2. WidthBits(n) \in 0..192
  BY SMT DEF WidthBits
<1>3. Len(EncodeIn(v, n)) = n /\ EncodeIn(v, n) \in Seq(Int)
  <2>1. ASSUME NEW i \in 1..n
        PROVE  ByteOf(v, n - i) + (IF i = 1 THEN WidthBits(n) ELSE 0) \in Int
    <3>1. ByteOf(v, n - i) \in 0..255
      BY <1>1
    <3>2. /\ \A x \in 0..255 : \A y \in 0..192 : x + y \in Int
          /\ \A x \in 0..255 : x + 0 \in Int
      BY SMT
    <3>3. CASE i = 1
      BY <1>2, <3>1, <3>2, <3>3, Zenon
    <3>4. CASE i # 1
      <4>1. ByteOf(v, n - i) + 0 \in Int
        BY <1>2, <3>1, <3>2, Zenon
      <4> QED BY <3>4, <4>1, Zenon
    <3> QED BY <3>3, <3>4, Zenon
  <2>2. EncodeIn(v, n) \in [1..n -> Int]
    BY <2>1, Zenon DEF EncodeIn
  <2>3. n \in Nat
    BY SMT
  <2> QED BY <2>2, <2>3, SMT
<1>4. more \in Seq(Int)
  <2>1. Byte \subseteq Int
    BY SMT DEF Byte
  <2>2. Len(more) \in Nat /\ more \in [1..Len(more) -> Byte]
    OBVIOUS
  <2>3. more \in [1..Len(more) -> Int]
    BY <2>1, <2>2, Zenon
  <2> QED BY <2>2, <2>3, SMT
<1>5. \A i \in 1..n : (EncodeIn(v, n) \o more)[i] = EncodeIn(v, n)[i]
  BY <1>3, <1>4, SMT
<1>6. /\ (EncodeIn(v, n) \o more)[1] = ByteOf(v, n - 1) + WidthBits(n)
      /\ \A i \in 2..n : (EncodeIn(v, n) \o more)[i] = ByteOf(v, n - i)
  <2>1. /\ EncodeIn(v, n)[1] = ByteOf(v, n - 1) + WidthBits(n)
        /\ \A i \in 2..n : EncodeIn(v, n)[i] = ByteOf(v, n - i)
    <3>1. ASSUME NEW i \in 1..n
          PROVE  EncodeIn(v, n)[i] = ByteOf(v, n - i) + (IF i = 1 THEN WidthBits(n) ELSE 0)
      BY Zenon DEF EncodeIn
    <3>2. EncodeIn(v, n)[1] = ByteOf(v, n - 1) + WidthBits(n)
      <4>1. 1 \in 1..n
        BY SMT
      <4> QED BY <3>1, <4>1, Zenon
    <3>3. ASSUME NEW i \in 2..n
          PROVE  EncodeIn(v, n)[i] = ByteOf(v, n - i)
      <4>1. i \in 1..n /\ i # 1
        BY SMT
      <4>2. EncodeIn(v, n)[i] = ByteOf(v, n - i) + 0
        BY <3>1, <4>1, Zenon
      <4>3. ByteOf(v, n - i) \in 0..255
        BY <1>1, <4>1
      <4>4. \A x \in 0..255 : x + 0 = x
        BY SMT
      <4> QED BY <4>2, <4>3, <4>4, Zenon
    <3> QED BY <3>2, <3>3
  <2>2. 1 \in 1..n /\ 2..n \subseteq 1..n
    BY SMT
  <2> QED BY <1>5, <2>1, <2>2
<1> QED BY <1>6, ParseEncoded
=============================================================================
