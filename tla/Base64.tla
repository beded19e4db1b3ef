------------------------------- MODULE Base64 -------------------------------
(***************************************************************************)
(* base64.rs, in which private and public IDs are written to the           *)
(* configuration.  A character of a string is its index in TABLE, Pad for  *)
(* '=' and Bad for every other one: TABLE and TABLE_REVERSE are inverse to *)
(* each other, so that nothing else matters of it.  Positions count from 0 *)
(* as in the source.                                                       *)
(***************************************************************************)
EXTENDS Integers, Sequences

Byte == 0 .. 255
Index == 0 .. 63
Pad == 64
Bad == 65
Char == Index \cup {Pad, Bad}

\* bytes.get(i).unwrap_or(&0)
At(s, i) == IF i < Len(s) THEN s[i + 1] ELSE 0

\* Six bits a character, and then up to a multiple of four.
get_encode_capacity(n) ==
  LET capacity == (n * 8 + 5) \div 6
  IN  IF capacity % 4 # 0 THEN capacity + 4 - (capacity % 4) ELSE capacity

\* The character at position k: three bytes, from i on, give four characters; the
\* loop stops where there is no byte left, and padding follows.
EncodedChar(bytes, k) ==
  LET i == 3 * (k \div 4)
  IN  CASE k % 4 = 0 -> At(bytes, i) \div 4
        [] k % 4 = 1 -> (At(bytes, i) % 4) * 16 + At(bytes, i + 1) \div 16
        [] k % 4 = 2 -> IF i + 1 < Len(bytes)
                        THEN (At(bytes, i + 1) % 16) * 4 + At(bytes, i + 2) \div 64 ELSE Pad
        [] k % 4 = 3 -> IF i + 2 < Len(bytes) THEN At(bytes, i + 2) % 64 ELSE Pad

encode(bytes) == [k \in 1 .. get_encode_capacity(Len(bytes)) |-> EncodedChar(bytes, k - 1)]

\* Padding that ends the loop of decode: in the second half of a group of four, and
\* one of the last two characters.
Ends(s, p) == s[p + 1] = Pad /\ p % 4 >= 2 /\ p >= Len(s) - 2

\* A character that decode refuses when it comes to it.
Refused(s, p) == s[p + 1] \in {Pad, Bad} /\ ~ Ends(s, p)

\* The loop comes to position p: nothing has ended it before.
Reached(s, p) == \A q \in 0 .. p - 1 : ~ Ends(s, q)

\* Where the loop ends when nothing is refused.
End(s) == CHOOSE p \in 0 .. Len(s) :
            Reached(s, p) /\ (p = Len(s) \/ Ends(s, p))

\* The byte at position m: four characters, from i on, give three bytes.
DecodedByte(s, m) ==
  LET i == 4 * (m \div 3)
  IN  CASE m % 3 = 0 -> At(s, i) * 4 + At(s, i + 1) \div 16
        [] m % 3 = 1 -> (At(s, i + 1) % 16) * 16 + At(s, i + 2) \div 4
        [] m % 3 = 2 -> (At(s, i + 2) % 4) * 64 + At(s, i + 3)

Ok(bytes) == [is |-> "Ok", bytes |-> bytes]
Err == [is |-> "Err", bytes |-> <<>>]

\* string_bytes[i + 1] is out of bounds.
Panic == [is |-> "panic", bytes |-> <<>>]

\* A group of which only one character is there is indexed beyond the end.
decode(s) ==
  IF s = <<>> THEN Ok(<<>>)
  ELSE IF Len(s) = 1 \/ (Len(s) < 4 /\ s[Len(s)] = Pad /\ s[Len(s) - 1] = Pad) THEN Err
  ELSE IF \E p \in 0 .. Len(s) - 1 : Reached(s, p) /\ Refused(s, p) THEN Err
  ELSE IF End(s) % 4 = 1 THEN Panic
  ELSE Ok([m \in 1 .. (End(s) * 3) \div 4 |-> DecodedByte(s, m - 1)])

\* The capacity that decode reserves, and in debug builds asserts to have used.
get_decode_capacity(s) ==
  (Len(s) * 6) \div 8 - (IF s[Len(s)] = Pad THEN 1 ELSE 0) - (IF s[Len(s) - 1] = Pad THEN 1 ELSE 0)

-----------------------------------------------------------------------------
\* Decoding what encode wrote gives the bytes back, whatever their number is.
RoundTrip(bytes) == decode(encode(bytes)) = Ok(bytes)

\* "debug_assert_eq!(output.len(), get_decode_capacity(..))" holds of what encode
\* wrote.
CapacityUsed(bytes) ==
  bytes # <<>> => get_decode_capacity(encode(bytes)) = Len(bytes)

\* Decoding "handles padding and no padding": any of the padding may be left out.
PaddingOptional(bytes) ==
  \A l \in End(encode(bytes)) .. Len(encode(bytes)) :
    decode(SubSeq(encode(bytes), 1, l)) = Ok(bytes)
=============================================================================
