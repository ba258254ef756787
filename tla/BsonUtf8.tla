------------------------------ MODULE BsonUtf8 ------------------------------
(***************************************************************************)
(* src/bson/bson-utf8.c on bytes: what a valid string is, its characters,  *)
(* and the escaped form JSON output gives it.  Masks and shifts are        *)
(* remainders and quotients.                                               *)
(***************************************************************************)
LOCAL INSTANCE Integers
LOCAL INSTANCE Sequences
LOCAL INSTANCE SequencesExt

(* The byte at position i; the 0 that ends the string after the last one.  *)
ByteAt(s, i) == IF i \in DOMAIN s THEN s[i] ELSE 0

(* The length of a sequence by its first byte, and 1 more than the mask of *)
(* the bits that byte gives.                                               *)
_bson_utf8_get_sequence(c) ==
    CASE c < 128        -> [length |-> 1, bits |-> 128]
      [] c \div 32 = 6  -> [length |-> 2, bits |-> 32]
      [] c \div 16 = 14 -> [length |-> 3, bits |-> 16]
      [] c \div 8 = 30  -> [length |-> 4, bits |-> 8]
      [] c \div 4 = 62  -> [length |-> 5, bits |-> 4]
      [] c \div 2 = 126 -> [length |-> 6, bits |-> 2]
      [] OTHER          -> [length |-> 0, bits |-> 1]

SequenceLength(s, i) == _bson_utf8_get_sequence(ByteAt(s, i)).length

bson_utf8_get_char(s, i) ==
    FoldLeft(LAMBDA c, k : c * 64 + (ByteAt(s, i + k) % 64),
             ByteAt(s, i) % _bson_utf8_get_sequence(ByteAt(s, i)).bits,
             [k \in 1 .. SequenceLength(s, i) - 1 |-> k])

bson_utf8_next_char(s, i) == i + SequenceLength(s, i)

(* The character c in a sequence of n bytes.  The variant takes any        *)
(* sequence of two bytes.                                                  *)
Shortest_AnyTwo(n, c, allow_null) == n \in 1 .. 2 \/ (n = 3 /\ c >= 2048) \/ (n = 4 /\ c >= 65536)

Shortest(n, c, allow_null) ==
    \/ n = 1
    \/ n = 2 /\ (c >= 128 \/ (c = 0 /\ allow_null))
    \/ n = 3 /\ c >= 2048
    \/ n = 4 /\ c >= 65536

ValidAt(s, i, allow_null) ==
    LET n == SequenceLength(s, i)
        c == bson_utf8_get_char(s, i)
    IN  /\ n # 0 /\ Len(s) - i + 1 >= n
        /\ \A k \in 1 .. n - 1 : s[i + k] \div 64 = 2
        /\ allow_null \/ \A k \in 0 .. n - 1 : s[i + k] # 0
        /\ c <= 1114111 /\ c \notin 55296 .. 57343
        /\ Shortest(n, c, allow_null)

bson_utf8_validate(s, allow_null) ==
    LET from[i \in 1 .. Len(s) + 1] ==
            i > Len(s) \/ (ValidAt(s, i, allow_null) /\ from[bson_utf8_next_char(s, i)])
    IN  from[1]

(* A continuation byte with the six bits of u above `shift'.               *)
Continued(u, shift) == 128 + ((u \div shift) % 64)

(* Beyond 3FFFFFF the shifts of the code are not those of the six byte     *)
(* form; no caller has such a character.                                   *)
bson_utf8_from_unichar(u) ==
    CASE u <= 127     -> <<u>>
      [] u \in 128 .. 2047 -> <<192 + u \div 64, Continued(u, 1)>>
      [] u \in 2048 .. 65535 -> <<224 + u \div 4096, Continued(u, 64), Continued(u, 1)>>
      [] u \in 65536 .. 2097151 ->
            <<240 + u \div 262144, Continued(u, 4096), Continued(u, 64), Continued(u, 1)>>
      [] u \in 2097152 .. 67108863 ->
            <<248 + u \div 16777216, Continued(u, 262144), Continued(u, 4096), Continued(u, 64),
              Continued(u, 1)>>

(* Backspace, form feed, newline, carriage return and tab.                 *)
Letter == [c \in {8, 9, 10, 12, 13} |-> CASE c = 8 -> 98 [] c = 12 -> 102 [] c = 10 -> 110
                                          [] c = 13 -> 114 [] c = 9 -> 116]
Hex(n) == IF n < 10 THEN 48 + n ELSE 87 + n

Escaped(c) ==
    CASE c \in {34, 92} -> <<92, c>>
      [] c \in DOMAIN Letter -> <<92, Letter[c]>>
      [] c < 32 /\ c \notin DOMAIN Letter -> <<92, 117, 48, 48, Hex(c \div 16), Hex(c % 16)>>
      [] OTHER -> bson_utf8_from_unichar(c)

(* The escaped string, or no string: a character 0 must be one byte, of a  *)
(* string whose length was given.                                          *)
bson_utf8_escape_for_json(s, length_provided) ==
    LET from[i \in 1 .. Len(s) + 6] ==
            LET c    == bson_utf8_get_char(s, i)
                rest == from[IF c = 0 THEN i + 1 ELSE bson_utf8_next_char(s, i)]
            IN  IF i > Len(s) THEN [null |-> FALSE, text |-> <<>>]
                ELSE IF c = 0 /\ ~(length_provided /\ s[i] = 0) THEN [null |-> TRUE, text |-> <<>>]
                ELSE [rest EXCEPT !.text = Escaped(c) \o @]
    IN  from[1]

=============================================================================
