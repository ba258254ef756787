------------------------------ MODULE BsonTexts ------------------------------
(***************************************************************************)
(* Texts of bytes and numbers: ObjectIds in hexadecimal (src/bson/         *)
(* bson-oid.c and bson-oid.h), base64 (b64_ntop.h, b64_pton.h), the keys   *)
(* of arrays (bson-keys.c).  A text is a sequence of character codes       *)
(* without its last 0.                                                     *)
(***************************************************************************)
LOCAL INSTANCE Integers
LOCAL INSTANCE Sequences
LOCAL INSTANCE SequencesExt
LOCAL INSTANCE FiniteSetsExt

HexDigits == [n \in 0 .. 15 |-> IF n < 10 THEN 48 + n ELSE 87 + n]

bson_oid_to_string(bytes) ==
    FlattenSeq([i \in DOMAIN bytes |-> <<HexDigits[bytes[i] \div 16], HexDigits[bytes[i] % 16]>>])

(* What is no digit counts as 0; in the variant so do capital letters.     *)
bson_oid_parse_hex_char_SmallOnly(c) ==
    CASE c \in 48 .. 57  -> c - 48
      [] c \in 97 .. 102 -> c - 87
      [] OTHER -> 0

bson_oid_parse_hex_char(c) ==
    CASE c \in 48 .. 57  -> c - 48
      [] c \in 65 .. 70  -> c - 55
      [] c \in 97 .. 102 -> c - 87
      [] OTHER -> 0

bson_oid_init_from_string(str) ==
    [i \in 1 .. 12 |-> 16 * bson_oid_parse_hex_char(str[2 * i - 1])
                          + bson_oid_parse_hex_char(str[2 * i])]

(* The last 0 may be counted in the length.                                *)
bson_oid_is_valid(str, length) ==
    /\ length = 24 \/ (length = 25 /\ Len(str) = 24)
    /\ \A i \in 1 .. 24 : i \in DOMAIN str /\ str[i] \in 48 .. 57 \cup 97 .. 102 \cup 65 .. 70

(* The first four bytes, big-endian.                                       *)
bson_oid_get_time_t(oid) == FoldLeft(LAMBDA t, b : 256 * t + b, 0, SubSeq(oid, 1, 4))

-----------------------------------------------------------------------------
Pad64 == 61
Base64 == [n \in 0 .. 63 |-> CASE n \in 0 .. 25 -> 65 + n [] n \in 26 .. 51 -> 71 + n
                               [] n \in 52 .. 61 -> n - 4 [] n = 62 -> 43 [] n = 63 -> 47]

(* The four characters of up to three bytes.                               *)
Quartet(in) ==
    LET b(i) == IF i \in DOMAIN in THEN in[i] ELSE 0
    IN  <<Base64[b(1) \div 4], Base64[((b(1) % 4) * 16) + (b(2) \div 16)],
          IF Len(in) < 2 THEN Pad64 ELSE Base64[((b(2) % 16) * 4) + (b(3) \div 64)],
          IF Len(in) < 3 THEN Pad64 ELSE Base64[b(3) % 64]>>

(* The size a visitor gives the target is enough for every source.         *)
b64_len(n) == (n \div 3 + 1) * 4 + 1

b64_ntop(src, targsize) ==
    LET groups == (Len(src) + 2) \div 3
        text == FlattenSeq([g \in 1 .. groups |->
                    Quartet(SubSeq(src, 3 * g - 2, Min({3 * g, Len(src)})))])
    IN  IF Len(text) >= targsize THEN <<-1>> ELSE text

Spaces == {32} \cup 9 .. 13
Value64 == [c \in {Base64[n] : n \in 0 .. 63} |-> CHOOSE n \in 0 .. 63 : Base64[n] = c]

(* The padding that begins at position i, the text read so far being in    *)
(* `state': how many of the characters of a group it has.                  *)
SkipSpaces(str, i) == Min({k \in i .. Len(str) : str[k] \notin Spaces} \cup {Len(str) + 1})

PaddingFrom(str, i, state) ==
    IF i > Len(str) THEN state = 0
    ELSE /\ str[i] = Pad64 /\ state \in {2, 3}
         /\ LET last == IF state = 3 THEN i ELSE SkipSpaces(str, i + 1)
            IN  /\ last <= Len(str) /\ str[last] = Pad64
                /\ SkipSpaces(str, last + 1) > Len(str)

(* The characters before the first that is neither a digit nor a space,    *)
(* without the spaces.                                                     *)
DigitsEnd(str) == Min({k \in DOMAIN str : str[k] \notin Spaces \cup DOMAIN Value64} \cup {Len(str) + 1})
DigitsOf(str) == SelectSeq(SubSeq(str, 1, DigitsEnd(str) - 1), LAMBDA c : c \notin Spaces)

(* The pass that only counts the bytes.                                    *)
b64_pton_len(str) ==
    LET n == Len(DigitsOf(str))
    IN  IF PaddingFrom(str, DigitsEnd(str), n % 4) THEN (n * 3) \div 4 ELSE -1

(* The pass that writes them: the digits are put into the target six bits  *)
(* at a time, of which state 1 and 2 begin the next byte.  -1 if one would *)
(* not fit.                                                                *)
Write(t, state, v) ==
    LET k == Len(t)
    IN  CASE state = 0 -> Append(t, v * 4)
          [] state = 1 -> Append([t EXCEPT ![k] = @ + (v \div 16)], (v % 16) * 16)
          [] state = 2 -> Append([t EXCEPT ![k] = @ + (v \div 4)], (v % 4) * 64)
          [] state = 3 -> [t EXCEPT ![k] = @ + v]

Written(str, n) ==
    LET digits == DigitsOf(str)
        upto[i \in 0 .. Len(digits)] ==
            IF i = 0 THEN <<>> ELSE Write(upto[i - 1], (i - 1) % 4, Value64[digits[i]])
    IN  upto[n]

(* What the target holds, and what is returned: the bits of the last digit *)
(* that are no part of a byte must be 0.                                   *)
b64_pton_do(str, targsize) ==
    LET n == Len(DigitsOf(str))
        target == Written(str, n)
        length == IF n % 4 = 0 THEN Len(target) ELSE Len(target) - 1
    IN  [target |-> target,
         result |-> IF \/ Len(target) > targsize \/ ~PaddingFrom(str, DigitsEnd(str), n % 4)
                       \/ (n % 4 # 0 /\ target[Len(target)] # 0)
                    THEN -1 ELSE length]

-----------------------------------------------------------------------------
(* gUint32Strs: the digits of the keys below 1000; snprintf writes the     *)
(* others.                                                                 *)
Digits(value, size) == [i \in 1 .. size |-> 48 + ((value \div 10 ^ (size - i)) % 10)]

bson_uint32_to_string(value) ==
    Digits(value, IF value < 10 THEN 1 ELSE IF value < 100 THEN 2 ELSE IF value < 1000 THEN 3
                  ELSE Min({n \in 4 .. 9 : value < 10 ^ n} \cup {10}))

=============================================================================
