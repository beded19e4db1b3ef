--------------------------- MODULE Base64_proofs ---------------------------
(***************************************************************************)
(* Theorems about Base64: decode gives back what encode was given.         *)
(***************************************************************************)
EXTENDS Base64, TLAPS

LEMMA Capacity ==
  ASSUME NEW n \in Nat
  PROVE  get_encode_capacity(n) = 4 * ((n + 2) \div 3)
BY DEF get_encode_capacity

\* Bytes taken apart into groups of six bits and put together again.
LEMMA Bits ==
  ASSUME NEW a \in Byte, NEW b \in Byte, NEW c \in Byte
  PROVE  /\ a \div 4 \in Index
         /\ (a % 4) * 16 + b \div 16 \in Index
         /\ (b % 16) * 4 + c \div 64 \in Index
         /\ c % 64 \in Index
         /\ (a \div 4) * 4 + ((a % 4) * 16 + b \div 16) \div 16 = a
         /\ (((a % 4) * 16 + b \div 16) % 16) * 16 + ((b % 16) * 4 + c \div 64) \div 4 = b
         /\ (((b % 16) * 4 + c \div 64) % 4) * 64 + (c % 64) = c
BY DEF Byte, Index

\* How many characters of the encoding of n bytes are not padding.
Used(n) == (4 * n + 2) \div 3

LEMMA UsedArithmetic ==
  ASSUME NEW n \in Nat
  PROVE  /\ Used(n) \in Nat
         /\ Used(n) <= get_encode_capacity(n)
         /\ get_encode_capacity(n) \in Nat
         /\ get_encode_capacity(n) <= Used(n) + 2
         /\ Used(n) % 4 # 1
         /\ (Used(n) * 3) \div 4 = n
         /\ n > 0 => Used(n) > 1
BY Capacity DEF Used

LEMMA UsedRange ==
  ASSUME NEW bytes \in Seq(Byte)
  PROVE  get_encode_capacity(Len(bytes)) \in Used(Len(bytes)) .. get_encode_capacity(Len(bytes))
<1>1. Len(bytes) \in Nat
  OBVIOUS
<1> QED
  BY <1>1, UsedArithmetic

\* Which characters of an encoding are padding.
LEMMA Characters ==
  ASSUME NEW bytes \in Seq(Byte), NEW k \in Nat, k < get_encode_capacity(Len(bytes))
  PROVE  /\ k < Used(Len(bytes)) => EncodedChar(bytes, k) \in Index
         /\ k >= Used(Len(bytes)) => EncodedChar(bytes, k) = Pad /\ k % 4 >= 2
<1> DEFINE i == 3 * (k \div 4)
           n == Len(bytes)
           r == k % 4
<1>1. n \in Nat /\ i \in Nat /\ r \in 0 .. 3
  OBVIOUS
<1>2. \A j \in Nat : At(bytes, j) \in Byte
  <2>1. 0 \in Byte
    BY DEF Byte
  <2>2. \A j \in Nat : j < Len(bytes) => bytes[j + 1] \in Byte
    OBVIOUS
  <2> QED
    BY <2>1, <2>2 DEF At
<1>3. EncodedChar(bytes, k) =
        CASE r = 0 -> At(bytes, i) \div 4
          [] r = 1 -> (At(bytes, i) % 4) * 16 + At(bytes, i + 1) \div 16
          [] r = 2 -> IF i + 1 < n
                      THEN (At(bytes, i + 1) % 16) * 4 + At(bytes, i + 2) \div 64 ELSE Pad
          [] r = 3 -> IF i + 2 < n THEN At(bytes, i + 2) % 64 ELSE Pad
  BY DEF EncodedChar
<1>4. At(bytes, i) \in Byte /\ At(bytes, i + 1) \in Byte /\ At(bytes, i + 2) \in Byte
  BY <1>1, <1>2
<1>5. k < 4 * ((n + 2) \div 3)
  BY <1>1, Capacity
<1>6. CASE r < 2
  <2>1. k < Used(n)
    BY <1>1, <1>5, <1>6 DEF Used
  <2>2. EncodedChar(bytes, k) \in Index
    BY <1>1, <1>3, <1>4, <1>6, Bits
  <2>3. ~ (k >= Used(n))
    BY <2>1, <1>1, UsedArithmetic
  <2> QED
    BY <2>2, <2>3
<1>7. CASE r = 2
  <2>1. k < Used(n) <=> i + 1 < n
    BY <1>1, <1>5, <1>7 DEF Used
  <2>2. i + 1 < n => EncodedChar(bytes, k) \in Index
    BY <1>3, <1>4, <1>7, Bits
  <2> QED
    BY <2>1, <2>2, <1>1, <1>3, <1>7, UsedArithmetic
<1>8. CASE r = 3
  <2>1. k < Used(n) <=> i + 2 < n
    BY <1>1, <1>5, <1>8 DEF Used
  <2>2. i + 2 < n => EncodedChar(bytes, k) \in Index
    BY <1>3, <1>4, <1>8, Bits
  <2> QED
    BY <2>1, <2>2, <1>1, <1>3, <1>8, UsedArithmetic
<1> QED
  BY <1>1, <1>6, <1>7, <1>8

\* The four characters of a group of three bytes.
LEMMA Group ==
  ASSUME NEW bytes \in Seq(Byte), NEW g \in Nat
  PROVE  /\ EncodedChar(bytes, 4 * g) = At(bytes, 3 * g) \div 4
         /\ EncodedChar(bytes, 4 * g + 1) =
              (At(bytes, 3 * g) % 4) * 16 + At(bytes, 3 * g + 1) \div 16
         /\ 3 * g + 1 < Len(bytes) => EncodedChar(bytes, 4 * g + 2) =
              (At(bytes, 3 * g + 1) % 16) * 4 + At(bytes, 3 * g + 2) \div 64
         /\ 3 * g + 2 < Len(bytes) => EncodedChar(bytes, 4 * g + 3) = At(bytes, 3 * g + 2) % 64
<1>1. \A k \in Nat, r \in 0 .. 3 : k = 4 * g + r => 3 * (k \div 4) = 3 * g /\ k % 4 = r
  OBVIOUS
<1>2. EncodedChar(bytes, 4 * g) = At(bytes, 3 * g) \div 4
  <2>1. 3 * ((4 * g) \div 4) = 3 * g /\ (4 * g) % 4 = 0
    OBVIOUS
  <2> QED
    BY <2>1 DEF EncodedChar
<1>3. EncodedChar(bytes, 4 * g + 1) =
        (At(bytes, 3 * g) % 4) * 16 + At(bytes, 3 * g + 1) \div 16
  <2>1. 3 * ((4 * g + 1) \div 4) = 3 * g /\ (4 * g + 1) % 4 = 1
    OBVIOUS
  <2> QED
    BY <2>1 DEF EncodedChar
<1>4. 3 * g + 1 < Len(bytes) => EncodedChar(bytes, 4 * g + 2) =
        (At(bytes, 3 * g + 1) % 16) * 4 + At(bytes, 3 * g + 2) \div 64
  <2>1. 3 * ((4 * g + 2) \div 4) = 3 * g /\ (4 * g + 2) % 4 = 2
    OBVIOUS
  <2> QED
    BY <2>1 DEF EncodedChar
<1>5. 3 * g + 2 < Len(bytes) => EncodedChar(bytes, 4 * g + 3) = At(bytes, 3 * g + 2) % 64
  <2>1. 3 * ((4 * g + 3) \div 4) = 3 * g /\ (4 * g + 3) % 4 = 3
    OBVIOUS
  <2> QED
    BY <2>1 DEF EncodedChar
<1> QED
  BY <1>2, <1>3, <1>4, <1>5

\* A string that begins as the encoding of bytes, and from which no more than padding
\* is missing, is decoded to them.
LEMMA DecodeGroups ==
  ASSUME NEW bytes \in Seq(Byte), NEW s \in Seq(Char), NEW m \in 0 .. Len(bytes) - 1,
         Len(s) \in Used(Len(bytes)) .. get_encode_capacity(Len(bytes)),
         \A p \in 0 .. Len(s) - 1 : s[p + 1] = EncodedChar(bytes, p)
  PROVE  DecodedByte(s, m) = bytes[m + 1]
<1> DEFINE n == Len(bytes)
           g == m \div 3
<1>1. n \in Nat /\ g \in Nat /\ m \in Nat /\ m % 3 \in 0 .. 2 /\ m = 3 * g + (m % 3) /\ m < n
  OBVIOUS
<1>2. \A p \in Nat : p < Used(n) => At(s, p) = EncodedChar(bytes, p)
  <2>1. Used(n) \in Nat /\ get_encode_capacity(n) \in Nat
    BY <1>1, UsedArithmetic
  <2>2. Len(s) \in Nat /\ Used(n) <= Len(s)
    BY <2>1
  <2>3. \A p \in Nat : p < Used(n) => p < Len(s) /\ p \in 0 .. Len(s) - 1
    BY <2>1, <2>2
  <2> QED
    BY <2>3 DEF At
<1>3. \A j \in Nat : At(bytes, j) \in Byte
  <2>1. 0 \in Byte
    BY DEF Byte
  <2>2. \A j \in Nat : j < Len(bytes) => bytes[j + 1] \in Byte
    OBVIOUS
  <2> QED
    BY <2>1, <2>2 DEF At
<1>4. At(bytes, 3 * g) \in Byte /\ At(bytes, 3 * g + 1) \in Byte /\ At(bytes, 3 * g + 2) \in Byte
  BY <1>1, <1>3
<1>5. At(bytes, m) = bytes[m + 1]
  BY <1>1 DEF At
<1>6. At(s, 4 * g) = EncodedChar(bytes, 4 * g) /\ At(s, 4 * g + 1) = EncodedChar(bytes, 4 * g + 1)
  <2>1. 4 * g + 1 < Used(n)
    BY <1>1 DEF Used
  <2> QED
    BY <2>1, <1>1, <1>2, UsedArithmetic
<1>7. m % 3 # 0 => At(s, 4 * g + 2) = EncodedChar(bytes, 4 * g + 2)
  <2>1. m % 3 # 0 => 4 * g + 2 < Used(n)
    BY <1>1 DEF Used
  <2> QED
    BY <2>1, <1>1, <1>2
<1>8. m % 3 = 2 => At(s, 4 * g + 3) = EncodedChar(bytes, 4 * g + 3)
  <2>1. m % 3 = 2 => 4 * g + 3 < Used(n)
    BY <1>1 DEF Used
  <2> QED
    BY <2>1, <1>1, <1>2
<1>9. CASE m % 3 = 0
  <2>1. DecodedByte(s, m) = At(s, 4 * g) * 4 + At(s, 4 * g + 1) \div 16
    BY <1>9 DEF DecodedByte
  <2>2. m = 3 * g
    BY <1>1, <1>9
  <2> QED
    BY <2>1, <2>2, <1>1, <1>4, <1>5, <1>6, Group, Bits
<1>10. CASE m % 3 = 1
  <2>1. DecodedByte(s, m) = (At(s, 4 * g + 1) % 16) * 16 + At(s, 4 * g + 2) \div 4
    BY <1>10 DEF DecodedByte
  <2>2. m = 3 * g + 1
    BY <1>1, <1>10
  <2> QED
    BY <2>1, <2>2, <1>1, <1>4, <1>5, <1>6, <1>7, Group, Bits
<1>11. CASE m % 3 = 2
  <2>1. DecodedByte(s, m) = (At(s, 4 * g + 2) % 4) * 64 + At(s, 4 * g + 3)
    BY <1>11 DEF DecodedByte
  <2>2. m = 3 * g + 2
    BY <1>1, <1>11
  <2>3. 3 * g + 1 < n /\ 3 * g + 2 < n
    BY <2>2, <1>1
  <2>4. At(s, 4 * g + 2) =
          (At(bytes, 3 * g + 1) % 16) * 4 + At(bytes, 3 * g + 2) \div 64
    BY <2>3, <1>1, <1>7, <1>11, Group
  <2>5. At(s, 4 * g + 3) = At(bytes, 3 * g + 2) % 64
    BY <2>3, <1>1, <1>8, <1>11, Group
  <2>6. DecodedByte(s, m) = At(bytes, 3 * g + 2)
    BY <2>1, <2>4, <2>5, <1>4, Bits
  <2> QED
    BY <2>2, <2>6, <1>5
<1> QED
  BY <1>1, <1>9, <1>10, <1>11

LEMMA DecodeEncoded ==
  ASSUME NEW bytes \in Seq(Byte), NEW s \in Seq(Char),
         Len(s) \in Used(Len(bytes)) .. get_encode_capacity(Len(bytes)),
         \A p \in 0 .. Len(s) - 1 : s[p + 1] = EncodedChar(bytes, p)
  PROVE  decode(s) = Ok(bytes) /\ End(s) = Used(Len(bytes))
<1> DEFINE n == Len(bytes)
           u == Used(n)
<1>1. /\ n \in Nat /\ u \in Nat /\ Len(s) \in Nat /\ u <= Len(s)
      /\ Len(s) <= u + 2 /\ Len(s) <= get_encode_capacity(n) /\ get_encode_capacity(n) \in Nat
      /\ u % 4 # 1 /\ (u * 3) \div 4 = n /\ (n > 0 => u > 1)
  <2>1. n \in Nat /\ Len(s) \in Nat
    OBVIOUS
  <2>2. /\ u \in Nat /\ get_encode_capacity(n) \in Nat /\ get_encode_capacity(n) <= u + 2
        /\ u % 4 # 1 /\ (u * 3) \div 4 = n /\ (n > 0 => u > 1)
    BY <2>1, UsedArithmetic
  <2>3. u <= Len(s) /\ Len(s) <= get_encode_capacity(n)
    BY <2>1, <2>2
  <2> HIDE DEF u
  <2>4. Len(s) <= u + 2
    BY <2>1, <2>2, <2>3
  <2> QED
    BY <2>1, <2>2, <2>3, <2>4
<1>2. \A p \in 0 .. Len(s) - 1 :
        /\ p < u => s[p + 1] \in Index /\ ~ Ends(s, p) /\ ~ Refused(s, p)
        /\ p >= u => Ends(s, p)
  <2> SUFFICES ASSUME NEW p \in 0 .. Len(s) - 1
               PROVE  /\ p < u => s[p + 1] \in Index /\ ~ Ends(s, p) /\ ~ Refused(s, p)
                      /\ p >= u => Ends(s, p)
    OBVIOUS
  <2>1. p \in Nat /\ p < get_encode_capacity(n)
    BY <1>1
  <2>2. p < u => s[p + 1] \in Index
    BY <2>1, Characters
  <2>3. p >= u => s[p + 1] = Pad /\ p % 4 >= 2
    BY <2>1, Characters
  <2>4. \A c \in Index : c # Pad /\ c # Bad
    BY DEF Index, Pad, Bad
  <2>5. p >= u => p >= Len(s) - 2
    BY <1>1, <2>1
  <2> QED
    BY <2>2, <2>3, <2>4, <2>5 DEF Ends, Refused
<1>3. \A p \in 0 .. Len(s) : Reached(s, p) <=> p <= u
  <2> SUFFICES ASSUME NEW p \in 0 .. Len(s)
               PROVE  Reached(s, p) <=> p <= u
    OBVIOUS
  <2>1. CASE p <= u
    BY <2>1, <1>1, <1>2 DEF Reached
  <2>2. CASE p > u
    <3>1. u \in 0 .. p - 1 /\ u \in 0 .. Len(s) - 1
      BY <2>2, <1>1
    <3> QED
      BY <3>1, <2>2, <1>1, <1>2 DEF Reached
  <2> QED
    BY <2>1, <2>2, <1>1
<1>4. End(s) = u
  <2>1. u \in 0 .. Len(s) /\ Reached(s, u) /\ (u = Len(s) \/ Ends(s, u))
    BY <1>1, <1>2, <1>3
  <2>2. ASSUME NEW p \in 0 .. Len(s), Reached(s, p), p = Len(s) \/ Ends(s, p)
        PROVE  p = u
    <3>1. p <= u
      BY <2>2, <1>3
    <3>2. ~ (p < u)
      BY <2>2, <1>1, <1>2
    <3> QED
      BY <3>1, <3>2, <1>1
  <2> QED
    BY <2>1, <2>2 DEF End
<1>5. ~ \E p \in 0 .. Len(s) - 1 : Reached(s, p) /\ Refused(s, p)
  <2> SUFFICES ASSUME NEW p \in 0 .. Len(s) - 1, Reached(s, p), Refused(s, p)
               PROVE  FALSE
    OBVIOUS
  <2>1. p <= u
    BY <1>1, <1>3
  <2>2. p = u
    BY <2>1, <1>1, <1>2
  <2>3. Ends(s, p)
    BY <2>2, <1>1, <1>2
  <2> QED
    BY <2>3 DEF Refused
<1>6. CASE n = 0
  <2>1. Len(s) = 0 /\ s = <<>> /\ bytes = <<>>
    <3>1. get_encode_capacity(0) = 0
      BY Capacity
    <3> QED
      BY <3>1, <1>1, <1>6
  <2> QED
    BY <2>1, <1>4 DEF decode
<1>7. CASE n # 0
  <2>1. s # <<>> /\ Len(s) # 1 /\ u > 1
    BY <1>1, <1>7
  <2>2. ~ (Len(s) < 4 /\ s[Len(s)] = Pad /\ s[Len(s) - 1] = Pad)
    <3>1. 0 \in 0 .. Len(s) - 1 /\ 1 \in 0 .. Len(s) - 1 /\ 0 < u /\ 1 < u
      BY <2>1, <1>1
    <3>2. s[0 + 1] \in Index /\ s[1 + 1] \in Index
      BY <3>1, <1>2
    <3>3. \A c \in Index : c # Pad
      BY DEF Index, Pad
    <3>4. s[1] # Pad /\ s[2] # Pad
      BY <3>2, <3>3
    <3> HIDE DEF u, n
    <3>5. Len(s) < 4 => Len(s) = 2 \/ Len(s) = 3
      <4>1. Len(s) \in Nat /\ u \in Nat
        BY <1>1
      <4>2. u <= Len(s) /\ u > 1
        BY <1>1, <2>1
      <4>3. Len(s) >= 2
        BY <4>1, <4>2
      <4>4. \A k \in Nat : k >= 2 /\ k < 4 => k = 2 \/ k = 3
        OBVIOUS
      <4> QED
        BY <4>1, <4>3, <4>4, Zenon
    <3>6. Len(s) = 2 => s[Len(s)] # Pad
      BY <3>4
    <3>7. Len(s) = 3 => s[Len(s) - 1] # Pad
      BY <3>4
    <3> QED
      BY <3>5, <3>6, <3>7
  <2>3. decode(s) = Ok([m \in 1 .. (u * 3) \div 4 |-> DecodedByte(s, m - 1)])
    BY <2>1, <2>2, <1>1, <1>4, <1>5 DEF decode
  <2>4. \A m \in 1 .. n : DecodedByte(s, m - 1) = bytes[m]
    <3> SUFFICES ASSUME NEW m \in 1 .. n
                 PROVE  DecodedByte(s, m - 1) = bytes[m]
      OBVIOUS
    <3>1. m - 1 \in 0 .. n - 1 /\ (m - 1) + 1 = m
      BY <1>1
    <3> QED
      BY <3>1, DecodeGroups
  <2>5. [m \in 1 .. n |-> DecodedByte(s, m - 1)] = bytes
    BY <2>4
  <2> QED
    BY <2>3, <2>5, <1>1, <1>4
<1> QED
  BY <1>1, <1>6, <1>7

\* What encode writes.
LEMMA Encoded ==
  ASSUME NEW bytes \in Seq(Byte)
  PROVE  /\ encode(bytes) \in Seq(Char)
         /\ Len(encode(bytes)) = get_encode_capacity(Len(bytes))
         /\ \A p \in 0 .. Len(encode(bytes)) - 1 : encode(bytes)[p + 1] = EncodedChar(bytes, p)
<1> DEFINE capacity == get_encode_capacity(Len(bytes))
<1>1. capacity \in Nat /\ Len(bytes) \in Nat
  BY UsedArithmetic
<1>2. \A p \in 0 .. capacity - 1 : EncodedChar(bytes, p) \in Char
  <2> SUFFICES ASSUME NEW p \in 0 .. capacity - 1
               PROVE  EncodedChar(bytes, p) \in Char
    OBVIOUS
  <2>1. p \in Nat /\ p < get_encode_capacity(Len(bytes)) /\ Used(Len(bytes)) \in Nat
    BY <1>1, UsedArithmetic
  <2>2. EncodedChar(bytes, p) \in Index \/ EncodedChar(bytes, p) = Pad
    BY <2>1, Characters
  <2> QED
    BY <2>2 DEF Char
<1>3. \A k \in 1 .. capacity : EncodedChar(bytes, k - 1) \in Char
  <2> SUFFICES ASSUME NEW k \in 1 .. capacity
               PROVE  EncodedChar(bytes, k - 1) \in Char
    OBVIOUS
  <2>1. k - 1 \in 0 .. capacity - 1
    BY <1>1
  <2> QED
    BY <2>1, <1>2
<1> QED
  BY <1>1, <1>3 DEF encode

\* decode(encode(bytes)) is bytes, for every number of bytes (the tests of base64.rs
\* have one string of each length).
THEOREM RoundTrips ==
  \A bytes \in Seq(Byte) : RoundTrip(bytes)
<1> SUFFICES ASSUME NEW bytes \in Seq(Byte)
             PROVE  RoundTrip(bytes)
  OBVIOUS
<1>1. Len(encode(bytes)) \in Used(Len(bytes)) .. get_encode_capacity(Len(bytes))
  BY Encoded, UsedRange
<1> QED
  BY <1>1, Encoded, DecodeEncoded DEF RoundTrip

\* The padding that encode writes may be left out, all of it or in part.
THEOREM PaddingIsOptional ==
  \A bytes \in Seq(Byte) : PaddingOptional(bytes)
<1> SUFFICES ASSUME NEW bytes \in Seq(Byte),
                    NEW l \in End(encode(bytes)) .. Len(encode(bytes))
             PROVE  decode(SubSeq(encode(bytes), 1, l)) = Ok(bytes)
  BY DEF PaddingOptional
<1> DEFINE s == SubSeq(encode(bytes), 1, l)
           capacity == get_encode_capacity(Len(bytes))
<1>1. Used(Len(bytes)) \in Nat /\ capacity \in Nat /\ Len(encode(bytes)) = capacity
  BY Encoded, UsedArithmetic
<1>2. End(encode(bytes)) = Used(Len(bytes))
  <2>1. Len(encode(bytes)) \in Used(Len(bytes)) .. capacity
    BY Encoded, UsedRange
  <2> QED
    BY <2>1, Encoded, DecodeEncoded
<1>3. l \in Nat /\ l <= capacity /\ l >= Used(Len(bytes))
  BY <1>1, <1>2
<1>4. s \in Seq(Char) /\ Len(s) = l /\ \A p \in 0 .. l - 1 : s[p + 1] = encode(bytes)[p + 1]
  BY <1>1, <1>3, Encoded
<1>5. \A p \in 0 .. Len(s) - 1 : s[p + 1] = EncodedChar(bytes, p)
  BY <1>1, <1>3, <1>4, Encoded
<1>6. Len(s) \in Used(Len(bytes)) .. capacity
  BY <1>1, <1>3, <1>4
<1> QED
  BY <1>4, <1>5, <1>6, DecodeEncoded

\* decode's "debug_assert_eq!(output.len(), get_decode_capacity(string_bytes))" holds
\* of everything that encode wrote.
THEOREM CapacityIsUsed ==
  \A bytes \in Seq(Byte) : CapacityUsed(bytes)
<1> SUFFICES ASSUME NEW bytes \in Seq(Byte), bytes # <<>>
             PROVE  get_decode_capacity(encode(bytes)) = Len(bytes)
  BY DEF CapacityUsed
<1> DEFINE n == Len(bytes)
           c == get_encode_capacity(n)
           e == encode(bytes)
<1>1. n \in Nat /\ n > 0 /\ c = 4 * ((n + 2) \div 3) /\ c \in Nat /\ c >= 4 /\ Len(e) = c
  <2>1. n \in Nat /\ n > 0
    OBVIOUS
  <2>2. c = 4 * ((n + 2) \div 3)
    BY <2>1, Capacity
  <2>3. (n + 2) \div 3 \in Nat /\ (n + 2) \div 3 >= 1
    BY <2>1
  <2> QED
    BY <2>1, <2>2, <2>3, Encoded
<1>2. e[c] = EncodedChar(bytes, c - 1) /\ e[c - 1] = EncodedChar(bytes, c - 2)
  <2>1. c - 1 \in 0 .. Len(e) - 1 /\ c - 2 \in 0 .. Len(e) - 1
    BY <1>1
  <2>2. (c - 1) + 1 = c /\ (c - 2) + 1 = c - 1
    BY <1>1
  <2> QED
    BY <2>1, <2>2, Encoded
<1>3. \A k \in Nat : k < c => (EncodedChar(bytes, k) = Pad <=> k >= Used(n))
  <2>1. \A x \in Index : x # Pad
    BY DEF Index, Pad
  <2>2. Used(n) \in Nat
    BY <1>1, UsedArithmetic
  <2> QED
    BY <2>1, <2>2, <1>1, Characters
<1>4. /\ e[c] = Pad <=> c - 1 >= Used(n)
      /\ e[c - 1] = Pad <=> c - 2 >= Used(n)
  BY <1>1, <1>2, <1>3
<1>5. (c * 6) \div 8 = 3 * ((n + 2) \div 3)
  BY <1>1
<1>6. 3 * ((n + 2) \div 3) - (IF c - 1 >= Used(n) THEN 1 ELSE 0)
        - (IF c - 2 >= Used(n) THEN 1 ELSE 0) = n
  BY <1>1 DEF Used
<1> QED
  BY <1>1, <1>4, <1>5, <1>6 DEF get_decode_capacity
=============================================================================
