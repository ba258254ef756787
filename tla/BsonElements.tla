---------------------------- MODULE BsonElements -----------------------------
(***************************************************************************)
(* The elements of a document: what the bson_append functions of           *)
(* src/bson/bson.c write for each type of value, what bson_iter_value of   *)
(* src/bson/bson-iter.c reads, and bson_value_copy.                        *)
(*                                                                         *)
(* A bson_value_t is [type, data, more, subtype]: `data' are the bytes of  *)
(* a number, of a string without its last 0 or of an embedded document;    *)
(* `more' are the options of a regex, the increment of a timestamp, the    *)
(* ObjectId of a DBPointer or the scope of a piece of code.                *)
(***************************************************************************)
EXTENDS BsonBytes, FiniteSetsExt, SequencesExt

Value(t, data, more) == [type |-> t, data |-> data, more |-> more, subtype |-> 0]

LE32(n) == <<n % 256, (n \div 256) % 256, (n \div 65536) % 256, n \div 16777216>>

(* What strlen makes of a string: it ends at its first 0.                  *)
CString(s) == IF Contains(s, 0) THEN SubSeq(s, 1, Min({i \in DOMAIN s : s[i] = 0}) - 1)
                                ELSE s

(* bson_iter_t over the document d, the window of all its bytes.           *)
Iter(d) == INSTANCE BsonIter WITH data <- d, iters <- <<>>, windows <- <<>>,
                                  call <- <<>>, found <- <<>>,
                                  Inputs <- {}, Keys <- {}, Paths <- {}, Fill <- {}

(* bson_init_static takes these bytes.                                     *)
IsDocument(d) == Iter(d)!Acceptable(d)

-----------------------------------------------------------------------------
(* A call of _bson_append: the bytes it reserves and the pieces it copies. *)
Appending(n_bytes, parts) == [n_bytes |-> n_bytes, bytes |-> FlattenSeq(parts)]

Refused == [n_bytes |-> 0, bytes |-> <<>>]

Header(t, key) == <<t>> \o key \o <<0>>

bson_append_document(key, v) ==
    Appending(1 + Len(key) + 1 + Len(v.data), <<Header(DOCUMENT, key), v.data>>)

(* The warning about a first key that is not "0" is left out.              *)
bson_append_array(key, v) ==
    Appending(1 + Len(key) + 1 + Len(v.data), <<Header(ARRAY, key), v.data>>)

(* Binaries of the deprecated subtype have their length twice.  The        *)
(* variant writes the first one as for the others.                         *)
bson_append_binary_OneLength(key, v) ==
    LET n == Len(v.data) IN
    IF v.subtype = SUBTYPE_BINARY_DEPRECATED
    THEN Appending(1 + Len(key) + 1 + 4 + 1 + 4 + n,
                   <<Header(BINARY, key), LE32(n), <<v.subtype>>, LE32(n), v.data>>)
    ELSE Appending(1 + Len(key) + 1 + 4 + 1 + n,
                   <<Header(BINARY, key), LE32(n), <<v.subtype>>, v.data>>)

bson_append_binary(key, v) ==
    LET n == Len(v.data) IN
    IF v.subtype = SUBTYPE_BINARY_DEPRECATED
    THEN Appending(1 + Len(key) + 1 + 4 + 1 + 4 + n,
                   <<Header(BINARY, key), LE32(n + 4), <<v.subtype>>, LE32(n), v.data>>)
    ELSE Appending(1 + Len(key) + 1 + 4 + 1 + n,
                   <<Header(BINARY, key), LE32(n), <<v.subtype>>, v.data>>)

bson_append_bool(key, v) ==
    Appending(1 + Len(key) + 1 + 1,
              <<Header(BOOL, key), <<IF v.data = <<0>> THEN 0 ELSE 1>>>>)

bson_append_code(key, v) ==
    LET code == CString(v.data) \o <<0>> IN
    Appending(1 + Len(key) + 1 + 4 + Len(code), <<Header(CODE, key), LE32(Len(code)), code>>)

(* The scope of a value is never the NULL that makes it a CODE.            *)
bson_append_code_with_scope(key, v) ==
    LET code == CString(v.data) \o <<0>>
        n    == 4 + 4 + Len(code) + Len(v.more)
    IN  Appending(1 + Len(key) + 1 + n,
                  <<Header(CODEWSCOPE, key), LE32(n), LE32(Len(code)), code, v.more>>)

bson_append_dbpointer(key, v) ==
    LET collection == CString(v.data) \o <<0>> IN
    Appending(1 + Len(key) + 1 + 4 + Len(collection) + 12,
              <<Header(DBPOINTER, key), LE32(Len(collection)), collection, v.more>>)

(* bson_append_double, int32, int64 and decimal128.                        *)
bson_append_number(key, v) ==
    Appending(1 + Len(key) + 1 + SizeOf[v.type], <<Header(v.type, key), v.data>>)

(* bson_append_maxkey, minkey and null, and bson_append_undefined.         *)
bson_append_null(key, v) == Appending(1 + Len(key) + 1, <<Header(v.type, key)>>)
bson_append_undefined(key, v) == Appending(1 + Len(key) + 1, <<Header(UNDEFINED, key)>>)

bson_append_oid(key, v) == Appending(1 + Len(key) + 1 + 12, <<Header(OID, key), v.data>>)

(* "ilmsux"; other letters are dropped, and so are repetitions.            *)
OptionsSorted == <<105, 108, 109, 115, 117, 120>>

_bson_append_regex_options_sorted(options) ==
    SelectSeq(OptionsSorted, LAMBDA c : Contains(options, c))

bson_append_regex(key, v) ==
    LET options == _bson_append_regex_options_sorted(v.more) IN
    Appending(1 + Len(key) + 1 + Len(v.data) + 1 + Len(options),
              <<Header(REGEX, key), v.data, <<0>>, options, <<0>>>>)

bson_append_utf8(key, v) ==
    Appending(1 + Len(key) + 1 + 4 + Len(v.data) + 1,
              <<Header(UTF8, key), LE32(Len(v.data) + 1), v.data, <<0>>>>)

bson_append_symbol(key, v) ==
    Appending(1 + Len(key) + 1 + 4 + Len(v.data) + 1,
              <<Header(SYMBOL, key), LE32(Len(v.data) + 1), v.data, <<0>>>>)

bson_append_timestamp(key, v) ==
    Appending(1 + Len(key) + 1 + 8, <<Header(TIMESTAMP, key), v.more \o v.data>>)

bson_append_date_time(key, v) ==
    Appending(1 + Len(key) + 1 + 8, <<Header(DATE_TIME, key), v.data>>)

(* An embedded document that bson_init_static refuses is not appended.     *)
bson_append_value(key, v) ==
    CASE v.type \in {DOUBLE, INT32, INT64, DECIMAL128} -> bson_append_number(key, v)
      [] v.type \in {NULL, MAXKEY, MINKEY} -> bson_append_null(key, v)
      [] v.type = UNDEFINED  -> bson_append_undefined(key, v)
      [] v.type = OID        -> bson_append_oid(key, v)
      [] v.type = BOOL       -> bson_append_bool(key, v)
      [] v.type = DATE_TIME  -> bson_append_date_time(key, v)
      [] v.type = TIMESTAMP  -> bson_append_timestamp(key, v)
      [] v.type = UTF8       -> bson_append_utf8(key, v)
      [] v.type = SYMBOL     -> bson_append_symbol(key, v)
      [] v.type = CODE       -> bson_append_code(key, v)
      [] v.type = BINARY     -> bson_append_binary(key, v)
      [] v.type = REGEX      -> bson_append_regex(key, v)
      [] v.type = DBPOINTER  -> bson_append_dbpointer(key, v)
      [] v.type = DOCUMENT /\ IsDocument(v.data) -> bson_append_document(key, v)
      [] v.type = ARRAY /\ IsDocument(v.data) -> bson_append_array(key, v)
      [] v.type = CODEWSCOPE /\ IsDocument(v.more) -> bson_append_code_with_scope(key, v)
      [] OTHER -> Refused

-----------------------------------------------------------------------------
(* The bytes of window w from i to e, without e.                           *)
Bytes(d, i, e) == SubSeq(d, i + 1, e)
Length(d, i) == U32(d, [raw |-> 0, len |-> Len(d)], i)

(* The getters of the iterator `it' on the document d.                     *)
bson_iter_key(d, it) == CString(Bytes(d, it.off + 1, it.next_off))
bson_iter_utf8(d, it) == Bytes(d, it.d2, it.d2 + Length(d, it.d1) - 1)
bson_iter_document(d, it) == Bytes(d, it.d1, it.d1 + Length(d, it.d1))
bson_iter_regex(d, it) == <<CString(Bytes(d, it.d1, it.d2)), CString(Bytes(d, it.d2, it.next_off))>>
bson_iter_timestamp(d, it) == <<Bytes(d, it.d1 + 4, it.d1 + 8), Bytes(d, it.d1, it.d1 + 4)>>
bson_iter_dbpointer(d, it) ==
    <<Bytes(d, it.d2, it.d2 + Length(d, it.d1) - 1), Bytes(d, it.d3, it.d3 + 12)>>
bson_iter_codewscope(d, it) ==
    <<Bytes(d, it.d3, it.d3 + Length(d, it.d2) - 1), Bytes(d, it.d4, it.d4 + Length(d, it.d4))>>

bson_iter_binary(d, it) ==
    LET inner == IF d[it.d2 + 1] = SUBTYPE_BINARY_DEPRECATED THEN 4 ELSE 0
    IN  Bytes(d, it.d3 + inner, it.d3 + Length(d, it.d1))

bson_iter_value(d, it) ==
    LET t == d[it.off + 1] IN
    CASE t \in Sized \ (Empty \cup {TIMESTAMP}) -> Value(t, Bytes(d, it.d1, it.d1 + SizeOf[t]), <<>>)
      [] t \in Empty -> Value(t, <<>>, <<>>)
      [] t = BOOL -> Value(t, <<d[it.d1 + 1]>>, <<>>)
      [] t \in Strings -> Value(t, bson_iter_utf8(d, it), <<>>)
      [] t \in {DOCUMENT, ARRAY} -> Value(t, bson_iter_document(d, it), <<>>)
      [] t = REGEX      -> LET r == bson_iter_regex(d, it) IN Value(t, r[1], r[2])
      [] t = TIMESTAMP  -> LET r == bson_iter_timestamp(d, it) IN Value(t, r[1], r[2])
      [] t = DBPOINTER  -> LET r == bson_iter_dbpointer(d, it) IN Value(t, r[1], r[2])
      [] t = CODEWSCOPE -> LET r == bson_iter_codewscope(d, it) IN Value(t, r[1], r[2])
      [] t = BINARY     -> [Value(t, bson_iter_binary(d, it), <<>>) EXCEPT !.subtype = d[it.d2 + 1]]

(* bson_append_iter: with no key, that of the element.                     *)
bson_append_iter(key, d, it) == bson_append_value(key, bson_iter_value(d, it))

(* The iterators of a walk over d: one for each element.  (Only the error  *)
(* offset of a binary is not determined.)                                  *)
Iterators == [raw : Int, len : Int, off : Int, next_off : Int,
              d1 : Int, d2 : Int, d3 : Int, d4 : Int, err_off : Int]

Walk(d) ==
    LET from[it \in Iterators] ==
            LET next == CHOOSE n \in Iter(d)!Advance(it) : TRUE
            IN  IF next.raw = Iter(d)!None THEN <<>> ELSE <<next>> \o from[next]
    IN  from[Iter(d)!Initial(0, Len(d))]

(* A document with the bytes of the elements in `parts'.                   *)
Document(body) == LE32(Len(body) + 5) \o body \o <<0>>
EmptyDocument  == Document(<<>>)

(* The elements of a document as they are read.                            *)
Elements(d) ==
    LET w == Walk(d) IN
    [i \in DOMAIN w |-> [key |-> bson_iter_key(d, w[i]), value |-> bson_iter_value(d, w[i])]]

-----------------------------------------------------------------------------
(* bson_value_copy and bson_value_destroy: how many blocks a value of its  *)
(* own has.                                                                *)
BlocksOf(v) == CASE v.type \in {REGEX, CODEWSCOPE} -> 2
                 [] v.type \in Strings \cup {DOCUMENT, ARRAY, BINARY, DBPOINTER} -> 1
                 [] OTHER -> 0

(* What an element keeps of the value it was made from: the functions that *)
(* take a C string stop at its first 0, and the options of a regex are a   *)
(* set.                                                                    *)
Kept(v) ==
    CASE v.type \in {CODE, CODEWSCOPE, DBPOINTER} -> [v EXCEPT !.data = CString(@)]
      [] v.type = REGEX -> [v EXCEPT !.more = SelectSeq(OptionsSorted, LAMBDA c : Contains(v.more, c))]
      [] OTHER -> v

=============================================================================
