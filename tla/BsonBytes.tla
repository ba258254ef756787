------------------------------ MODULE BsonBytes ------------------------------
(***************************************************************************)
(* The bytes of a BSON document as libbson reads them, and the grammar of  *)
(* an element, stated as what its bytes are and not as they are parsed.    *)
(*                                                                         *)
(* A buffer is a sequence of bytes counted from 0.  A window [raw, len] is *)
(* the part of it that holds one document; offsets are offsets in a        *)
(* window.                                                                 *)
(***************************************************************************)
EXTENDS Integers, Sequences

(* bson_type_t, and the subtype of binaries with two lengths.              *)
DOUBLE     == 1
UTF8       == 2
DOCUMENT   == 3
ARRAY      == 4
BINARY     == 5
UNDEFINED  == 6
OID        == 7
BOOL       == 8
DATE_TIME  == 9
NULL       == 10
REGEX      == 11
DBPOINTER  == 12
CODE       == 13
SYMBOL     == 14
CODEWSCOPE == 15
INT32      == 16
TIMESTAMP  == 17
INT64      == 18
DECIMAL128 == 19
MAXKEY     == 127
MINKEY     == 255

SUBTYPE_BINARY_DEPRECATED == 2

(* The values of a fixed size.  A BOOL has one byte, which is 0 or 1.      *)
Empty == {NULL, UNDEFINED, MAXKEY, MINKEY}
Wide  == {DOUBLE, DATE_TIME, INT64, TIMESTAMP}
Sized == Empty \cup Wide \cup {OID, INT32, DECIMAL128}

SizeOf == [t \in Sized |-> CASE t \in Empty     -> 0
                             [] t \in Wide      -> 8
                             [] t = OID         -> 12
                             [] t = INT32       -> 4
                             [] t = DECIMAL128  -> 16]

Strings == {UTF8, CODE, SYMBOL}

(* The byte at offset i of window w; 0 where the buffer has none.          *)
At(d, w, i) == IF w.raw + i + 1 \in DOMAIN d THEN d[w.raw + i + 1] ELSE 0

(* A little-endian uint32.  Those of 2^31 and more are one value, which is *)
(* larger than any length they are compared with.                          *)
Huge == 2147483647

U32(d, w, i) == IF At(d, w, i + 3) >= 128 THEN Huge
                ELSE At(d, w, i) + 256 * At(d, w, i + 1)
                        + 65536 * At(d, w, i + 2) + 16777216 * At(d, w, i + 3)

-----------------------------------------------------------------------------
(* The grammar, over the offsets of a window.  [i, e) is ...               *)

(* ... a string: its length, that many bytes, the last of them 0;          *)
IsString(d, w, i, e) ==
    /\ e > i + 4 /\ U32(d, w, i) = e - i - 4 /\ At(d, w, e - 1) = 0

(* ... a C string: it ends at its first 0;                                 *)
IsCString(d, w, i, e) ==
    e > i /\ \A j \in i .. e - 1 : At(d, w, j) = 0 <=> j = e - 1

(* ... a value of type t.  What an embedded document holds is left to who  *)
(* reads it, and so is its length, which lies before the last byte of the  *)
(* window; nobody looks at how the code of a CODEWSCOPE ends.              *)
IsValue(d, w, t, i, e) ==
    \/ t \in Sized /\ e = i + SizeOf[t]
    \/ t = BOOL /\ e = i + 1 /\ At(d, w, i) \in {0, 1}
    \/ t \in Strings /\ IsString(d, w, i, e)
    \/ t \in {DOCUMENT, ARRAY} /\ i + 4 < w.len /\ U32(d, w, i) = e - i
    \/ /\ t = BINARY /\ U32(d, w, i) = e - i - 5
       /\ \/ At(d, w, i + 4) # SUBTYPE_BINARY_DEPRECATED
          \/ e >= i + 9 /\ U32(d, w, i + 5) = e - i - 9
    \/ /\ t = REGEX
       /\ \E m \in i .. e : IsCString(d, w, i, m) /\ IsCString(d, w, m, e)
    \/ t = DBPOINTER /\ IsString(d, w, i, e - 12)
    \/ /\ t = CODEWSCOPE /\ U32(d, w, i) = e - i
       /\ \E m \in i + 9 .. e - 5 : U32(d, w, i + 4) = m - i - 8 /\ U32(d, w, m) = e - m

(* ... an element: a type, a key and a value.                              *)
Ends(d, w, i) ==
    UNION {{e \in k .. w.len : IsValue(d, w, At(d, w, i), k, e)} :
              k \in {k \in i + 2 .. w.len : IsCString(d, w, i + 1, k)}}

=============================================================================
