-------------------------- MODULE BsonJsonDocument --------------------------
(***************************************************************************)
(* The half of bson_json_reader_t that makes BSON of the tokens jsonsl     *)
(* reports: bson_json_reader_bson_t and its handlers                       *)
(* (src/src/bson/bson-json.c).  MongoDB extended JSON writes a BSON value  *)
(* that JSON lacks as an object, {"$oid": "..."}: the handlers decide      *)
(* at the first key of an object whether it is a document or such a        *)
(* wrapper, and read_state, bson_state and bson_type say what is expected  *)
(* next.  All of that is in one record, kept from one element to the next  *)
(* and from one document to the next.                                      *)
(*                                                                         *)
(* A string is the sequence of its pieces (see Jsonsl); a document is the  *)
(* sequence of its elements <<key, value>>; a value is a tuple that begins *)
(* with the name of its type.  bson_type_data is a union: `first' and      *)
(* `second' are its leading flags (has_oid, has_pattern, ...; has_i,       *)
(* has_options, ...), `value' and `value2' what is kept beside them.       *)
(***************************************************************************)
EXTENDS Jsonsl, BsonVisit

CONSTANTS StackMax,    \* STACK_MAX
          Int32Max,    \* INT32_MAX, scaled down
          Hex24,       \* strings of 24 characters: what $oid accepts
          Base64,      \* base64 string -> bytes: b64_pton
          SubTypes,    \* string -> number, for those sscanf "%02x" accepts
          Dates,       \* ISO 8601 string -> milliseconds: _bson_iso8601_date_parse
          Decimals,    \* string -> decimal128: bson_decimal128_from_string
          Doubles      \* string -> double: strtod ("huge" out of its range)

Valid(w) == bson_utf8_validate(w, TRUE)
NoKey == <<"NULL">>                         \* bson->key before any key
Stale == <<"?">>      \* one byte of a buffer that nobody wrote for this element
IndexKey(i) == <<Digits[i + 1]>>            \* bson_uint32_to_string, below 10
Strtod(s) == IF s \in DOMAIN Doubles THEN Doubles[s] ELSE "0.0"
Decimal(s) == IF s \in DOMAIN Decimals THEN Decimals[s] ELSE "NaN"
UInt32(x) == x % (2 * (Int32Max + 1))

Frame0 == [type |-> "ARRAY", i |-> 0, has_ref |-> FALSE, has_id |-> FALSE, key |-> <<>>, bson |-> <<>>]
Data0 == [first |-> FALSE, second |-> FALSE, legacy |-> FALSE, value |-> 0, value2 |-> 0]
Code0 == [has_code |-> FALSE, has_scope |-> FALSE, in_scope |-> FALSE, key |-> <<>>, code |-> <<>>]

\* bson_json_reader_new: everything zero.  stack[0].bson is the caller's bson_t,
\* which opening a root document does not empty.
Bson0 == [n |-> -1, stack |-> [i \in 0..StackMax - 1 |-> Frame0], key |-> NoKey, key_buf |-> <<>>,
          read_state |-> "REGULAR", bson_state |-> "REGEX", bson_type |-> "EOD",
          buf0 |-> <<>>, buf1 |-> <<>>, data |-> Data0, code |-> Code0,
          dbpointer_key |-> <<>>, error |-> "", stop |-> FALSE]

_bson_json_read_set_error(r) == [r EXCEPT !.error = "invalid", !.read_state = "ERROR", !.stop = TRUE]
_bson_json_read_corrupt(r) == [r EXCEPT !.error = "corrupt", !.read_state = "ERROR", !.stop = TRUE]

(***************************************************************************)
(* The stack of open documents (STACK_PUSH_..., STACK_POP_...).            *)
(***************************************************************************)
Frame(r) == r.stack[r.n]
InArray(r) == r.n >= 0 /\ Frame(r).type = "ARRAY"

Appended(r, key, v) == [r EXCEPT !.stack[r.n].bson = Append(@, <<key, v>>)]

PushFrame(r, type, key) ==
    LET m == r.n + 1 IN
    IF r.n >= StackMax - 1 THEN r
    ELSE [r EXCEPT !.n = m, !.code.in_scope = @ \/ type = "SCOPE",
                   !.stack[m] = [@ EXCEPT !.type = type, !.key = key,
                                          !.bson = IF m = 0 THEN @ ELSE <<>>,
                                          !.i = IF type = "ARRAY" THEN 0 ELSE @,
                                          !.has_ref = @ /\ type # "DOC",
                                          !.has_id = @ /\ type # "DOC"]]

\* The child becomes an element of its parent (bson_append_document_end).
PopFrame(r, type) ==
    LET up == [r EXCEPT !.n = @ - 1] IN
    IF r.n > 0 THEN Appended(up, Frame(r).key, <<type, Frame(r).bson>>) ELSE up

PopDoc(r) == IF InArray(r) THEN r ELSE PopFrame(r, "document")
PopArray(r) == IF ~InArray(r) THEN r ELSE PopFrame(r, "array")
PopAside(r) == IF InArray(r) THEN r ELSE [r EXCEPT !.n = @ - 1]   \* kept in stack[n + 1]

(***************************************************************************)
(* Keys.  An array names its elements itself.  The name is a constant      *)
(* string: key_buf keeps its length and no bytes of it.                    *)
(***************************************************************************)
_bson_json_read_fixup_key(r) ==
    IF InArray(r) /\ r.read_state = "REGULAR"
    THEN [r EXCEPT !.key = IndexKey(Frame(r).i), !.key_buf = Stale, !.stack[r.n].i = @ + 1]
    ELSE r

_bson_json_save_map_key(r, w) == [r EXCEPT !.key = w, !.key_buf = w]

\* BASIC_CB_BAIL_IF_NOT_NORMAL, then the append.
AppendNormal(r, v) ==
    IF r.read_state # "REGULAR" \/ r.key = NoKey THEN _bson_json_read_set_error(r)
    ELSE Appended(r, r.key, v)

(***************************************************************************)
(* Numbers and words.                                                      *)
(***************************************************************************)
_bson_json_read_null(r) == AppendNormal(_bson_json_read_fixup_key(r), <<"null">>)

_bson_json_read_boolean(r0, val) ==
    LET r == _bson_json_read_fixup_key(r0) IN
    IF r.read_state = "IN_BSON_TYPE" /\ r.bson_state = "UNDEFINED"
    THEN [r EXCEPT !.data.first = TRUE]
    ELSE AppendNormal(r, <<"bool", val>>)

_bson_json_read_double(r, w) ==
    IF Strtod(w) = "huge" THEN _bson_json_read_set_error(r)
    ELSE AppendNormal(_bson_json_read_fixup_key(r), <<"double", Strtod(w)>>)

TypedInteger(r, val, sign) ==
    CASE r.bson_state = "DATE" -> [r EXCEPT !.data.first = TRUE, !.data.value = sign * val]
      [] r.bson_state = "TIMESTAMP_T" /\ sign = 1 ->
           [r EXCEPT !.data.first = TRUE, !.data.value = UInt32(val)]
      [] r.bson_state = "TIMESTAMP_I" /\ sign = 1 ->
           [r EXCEPT !.data.second = TRUE, !.data.value2 = UInt32(val)]
      [] r.bson_state \in {"MINKEY", "MAXKEY"} /\ sign = 1 /\ val = 1 ->
           [r EXCEPT !.data.first = TRUE]
      [] OTHER -> _bson_json_read_set_error(r)

_bson_json_read_integer(r0, val, sign) ==
    LET r == _bson_json_read_fixup_key(r0)
        out_of_range == val > IF sign = 1 THEN Int64Max ELSE Int64Max + 1
        small == val <= Int32Max \/ (sign = -1 /\ val <= Int32Max + 1)
    IN CASE out_of_range -> _bson_json_read_set_error(r)
         [] ~out_of_range /\ r.read_state = "REGULAR" ->
              AppendNormal(r, <<IF small THEN "int32" ELSE "int64", sign * val>>)
         [] ~out_of_range /\ r.read_state \in {"IN_BSON_TYPE", "IN_BSON_TYPE_TIMESTAMP_VALUES"} ->
              TypedInteger(r, val, sign)
         [] OTHER -> _bson_json_read_set_error(r)

\* bson_ascii_strtoll: the number, and whether all of the string was one
\* within the range of an int64.
bson_ascii_strtoll(w) ==
    LET signed == w # <<>> /\ w[1] \in {"-", "+"}
        digits == IF signed THEN Tail(w) ELSE w
        sign == IF w # <<>> /\ w[1] = "-" THEN -1 ELSE 1
        val[i \in 0..Len(digits)] ==
            IF i = 0 THEN 0 ELSE val[i - 1] * 10 + DigitValue(digits[i])
    IN IF digits = <<>> \/ \E i \in DOMAIN digits : ~isdigit(digits[i])
       THEN [ok |-> FALSE, v |-> 0]
       ELSE [ok |-> val[Len(digits)] <= (IF sign = 1 THEN Int64Max ELSE Int64Max + 1),
             v |-> sign * val[Len(digits)]]

(***************************************************************************)
(* Strings.                                                                *)
(***************************************************************************)
\* A "$type" that is no subtype, and no "$binary" before it: the object is
\* a document after all, the query {"$type": "string"}.
_bson_json_parse_binary_elem(r, w) ==
    LET typed == [r EXCEPT !.data.second = TRUE] IN
    CASE r.bson_state = "BINARY" ->
           IF w \in DOMAIN Base64 THEN [r EXCEPT !.data.first = TRUE, !.buf0 = Base64[w]]
           ELSE _bson_json_read_set_error(r)
      [] r.bson_state = "TYPE" /\ w \in DOMAIN SubTypes -> [typed EXCEPT !.data.value2 = SubTypes[w]]
      [] r.bson_state = "TYPE" /\ w \notin DOMAIN SubTypes ->
           IF ~r.data.legacy \/ r.data.first THEN _bson_json_read_set_error(typed)
           ELSE Appended(PushFrame([typed EXCEPT !.read_state = "REGULAR"], "DOC", r.key),
                         Dollar("type"), <<"utf8", w>>)
      [] OTHER -> r

\* A number in a string, for $numberInt, $numberLong and a date.
NumberString(r, w) ==
    LET x == bson_ascii_strtoll(w)
        fits == r.bson_state = "INT64" \/ x.v \in -(Int32Max + 1)..Int32Max
        date == r.bson_state = "INT64" /\ r.read_state = "IN_BSON_TYPE_DATE_NUMBERLONG"
    IN IF x.ok /\ fits /\ (r.read_state = "IN_BSON_TYPE" \/ date)
       THEN [r EXCEPT !.data.value = x.v, !.data.first = @ \/ date]
       ELSE _bson_json_read_set_error(r)

TypedString(r, w) ==
    LET bs == r.bson_state
        legacy == [r EXCEPT !.data.legacy = TRUE]
    IN CASE bs \in {"REGEX", "REGULAR_EXPRESSION_PATTERN"} ->
              [r EXCEPT !.data.legacy = @ \/ bs = "REGEX", !.data.first = TRUE, !.buf0 = w]
         [] bs \in {"OPTIONS", "REGULAR_EXPRESSION_OPTIONS"} ->
              [r EXCEPT !.data.legacy = @ \/ bs = "OPTIONS", !.data.second = TRUE, !.buf1 = w]
         [] bs = "OID" /\ w \in Hex24 -> [r EXCEPT !.data.first = TRUE, !.data.value = w]
         [] bs \in {"BINARY", "TYPE"} -> _bson_json_parse_binary_elem(legacy, w)
         [] bs \in {"INT32", "INT64"} -> NumberString(r, w)
         [] bs = "DOUBLE" ->
              IF Strtod(w) = "huge" THEN _bson_json_read_set_error(r)
              ELSE [r EXCEPT !.data.value = Strtod(w)]
         [] bs = "DATE" /\ w \in DOMAIN Dates -> [r EXCEPT !.data.first = TRUE, !.data.value = Dates[w]]
         [] bs = "DATE" /\ w \notin DOMAIN Dates -> [r EXCEPT !.error = "date", !.stop = TRUE]
         [] bs = "DECIMAL128" /\ r.read_state = "IN_BSON_TYPE" -> [r EXCEPT !.data.value = Decimal(w)]
         [] bs = "CODE" -> [r EXCEPT !.code.code = w]
         [] bs = "SYMBOL" -> Appended(r, r.key, <<"symbol", w>>)
         [] bs = "DBREF" -> [Appended(r, r.key, <<"utf8", w>>) EXCEPT !.read_state = "REGULAR"]
         [] OTHER -> _bson_json_read_set_error(r)

_bson_json_read_string(r0, w) ==
    LET r == _bson_json_read_fixup_key(r0) IN
    CASE ~Valid(w) -> _bson_json_read_corrupt(r)
      [] Valid(w) /\ r.read_state = "REGULAR" -> AppendNormal(r, <<"utf8", w>>)
      [] Valid(w) /\ r.read_state = "IN_BSON_TYPE_BINARY_VALUES" -> _bson_json_parse_binary_elem(r, w)
      [] Valid(w) /\ r.read_state \in {"IN_BSON_TYPE", "IN_BSON_TYPE_TIMESTAMP_VALUES",
                         "IN_BSON_TYPE_REGEX_VALUES", "IN_BSON_TYPE_DATE_NUMBERLONG"} ->
           TypedString(r, w)
      [] OTHER -> _bson_json_read_set_error(r)

(***************************************************************************)
(* Objects and their keys.                                                 *)
(***************************************************************************)
StartState(r) ==
    CASE r.read_state = "IN_BSON_TYPE" ->
           (CASE r.bson_state = "DATE" -> "IN_BSON_TYPE_DATE_NUMBERLONG"
              [] r.bson_state = "BINARY" -> "IN_BSON_TYPE_BINARY_VALUES"
              [] r.bson_state = "TYPE" -> "IN_START_MAP"
              [] OTHER -> "IN_BSON_TYPE")
      [] r.read_state = "IN_BSON_TYPE_TIMESTAMP_STARTMAP" -> "IN_BSON_TYPE_TIMESTAMP_VALUES"
      [] r.read_state = "IN_BSON_TYPE_SCOPE_STARTMAP" -> "IN_SCOPE"
      [] r.read_state = "IN_BSON_TYPE_DBPOINTER_STARTMAP" -> "IN_DBPOINTER"
      [] r.read_state = "IN_BSON_TYPE_REGEX_STARTMAP" -> "IN_BSON_TYPE_REGEX_VALUES"
      [] OTHER -> "IN_START_MAP"

\* {"$type": {...}} is a document too: it is opened here, its one key saved.
_bson_json_read_start_map(r0) ==
    LET r == _bson_json_read_fixup_key(r0)
        s == [r EXCEPT !.read_state = StartState(r)]
    IN IF r.read_state = "IN_BSON_TYPE" /\ r.bson_state = "TYPE"
       THEN _bson_json_save_map_key(PushFrame(s, "DOC", r.key), Dollar("type"))
       ELSE s

\* HANDLE_OPTION: a key of the wrapper, the type it belongs to, what it announces.
WrapperKeys ==
    [regex |-> <<"REGEX", "REGEX">>, options |-> <<"REGEX", "OPTIONS">>, oid |-> <<"OID", "OID">>,
     binary |-> <<"BINARY", "BINARY">>, type |-> <<"BINARY", "TYPE">>, date |-> <<"DATE_TIME", "DATE">>,
     undefined |-> <<"UNDEFINED", "UNDEFINED">>, minKey |-> <<"MINKEY", "MINKEY">>,
     maxKey |-> <<"MAXKEY", "MAXKEY">>, numberInt |-> <<"INT32", "INT32">>,
     numberLong |-> <<"INT64", "INT64">>, numberDouble |-> <<"DOUBLE", "DOUBLE">>,
     symbol |-> <<"SYMBOL", "SYMBOL">>, numberDecimal |-> <<"DECIMAL128", "DECIMAL128">>]

_is_known_key(w) ==
    \E name \in DOMAIN WrapperKeys \cup {"regularExpression", "code", "scope", "timestamp", "dbPointer"} :
        w = Dollar(name)

Option(r, type, next) ==
    IF r.bson_type \notin {"EOD", type} THEN _bson_json_read_set_error(r)
    ELSE [r EXCEPT !.bson_type = type, !.bson_state = next]

\* The keys inside {"$date": {...}}, {"$timestamp": {...}}, ...
InnerKey(r, w) ==
    CASE r.read_state = "IN_BSON_TYPE_DATE_NUMBERLONG" /\ w = Dollar("numberLong") ->
           Option(r, "DATE_TIME", "INT64")
      [] r.read_state = "IN_BSON_TYPE_TIMESTAMP_VALUES" /\ w = <<"t">> -> Option(r, "TIMESTAMP", "TIMESTAMP_T")
      [] r.read_state = "IN_BSON_TYPE_TIMESTAMP_VALUES" /\ w = <<"i">> -> Option(r, "TIMESTAMP", "TIMESTAMP_I")
      [] r.read_state = "IN_BSON_TYPE_REGEX_VALUES" /\ w = <<"pattern">> ->
           Option(r, "REGEX", "REGULAR_EXPRESSION_PATTERN")
      [] r.read_state = "IN_BSON_TYPE_REGEX_VALUES" /\ w = <<"options">> ->
           Option(r, "REGEX", "REGULAR_EXPRESSION_OPTIONS")
      [] r.read_state = "IN_BSON_TYPE_BINARY_VALUES" /\ w = <<"base64">> -> Option(r, "BINARY", "BINARY")
      [] r.read_state = "IN_BSON_TYPE_BINARY_VALUES" /\ w = <<"subType">> -> Option(r, "BINARY", "TYPE")
      [] OTHER -> _bson_json_read_set_error(r)

\* Code may be followed by its scope, or come after it: the key of the element
\* is put aside, for the scope has keys of its own.
_bson_json_read_code_or_scope_key(r, is_scope, w) ==
    LET saved == [r EXCEPT !.code.key = IF @ = <<>> THEN r.key_buf ELSE @] IN
    CASE r.code.in_scope ->
           _bson_json_save_map_key(PushFrame([r EXCEPT !.read_state = "REGULAR"], "DOC", r.key), w)
      [] ~r.code.in_scope /\ is_scope ->
           [saved EXCEPT !.bson_type = "CODEWSCOPE", !.bson_state = "SCOPE", !.code.has_scope = TRUE,
                         !.read_state = "IN_BSON_TYPE_SCOPE_STARTMAP"]
      [] OTHER -> [saved EXCEPT !.bson_type = "CODE", !.bson_state = "CODE", !.code.has_code = TRUE]

WrapperKey(r, w) ==
    CASE \E name \in DOMAIN WrapperKeys : w = Dollar(name) ->
           Option(r, WrapperKeys[w[2]][1], WrapperKeys[w[2]][2])
      [] w = Dollar("timestamp") ->
           [r EXCEPT !.bson_type = "TIMESTAMP", !.read_state = "IN_BSON_TYPE_TIMESTAMP_STARTMAP"]
      [] w = Dollar("regularExpression") ->
           [r EXCEPT !.bson_type = "REGEX", !.read_state = "IN_BSON_TYPE_REGEX_STARTMAP"]
      [] w = Dollar("dbPointer") ->
           [r EXCEPT !.bson_type = "DBPOINTER", !.read_state = "IN_BSON_TYPE_DBPOINTER_STARTMAP",
                     !.dbpointer_key = r.key_buf]
      [] w \in {Dollar("code"), Dollar("scope")} ->
           _bson_json_read_code_or_scope_key(r, w = Dollar("scope"), w)
      [] OTHER -> _bson_json_read_set_error(r)

\* A key of a document.  $ref, $id and $db make it a DBRef.
DocumentKey(r, w) ==
    LET s == _bson_json_save_map_key(r, w)
        dbref == [s EXCEPT !.read_state = "IN_BSON_TYPE", !.bson_state = "DBREF"]
    IN CASE r.n > 0 /\ w = Dollar("ref") -> [dbref EXCEPT !.stack[r.n].has_ref = TRUE]
         [] r.n > 0 /\ w = Dollar("id") -> [s EXCEPT !.stack[r.n].has_id = TRUE]
         [] r.n > 0 /\ w = Dollar("db") -> dbref
         [] OTHER -> s

\* The first key of an object decides what the object is.
FirstKey(r, w) ==
    LET regular == [r EXCEPT !.read_state = "REGULAR"] IN
    CASE r.read_state = "IN_START_MAP" ->
           IF _is_known_key(w) /\ r.n >= 0
           THEN [r EXCEPT !.read_state = "IN_BSON_TYPE", !.bson_type = "EOD", !.data = Data0]
           ELSE PushFrame(regular, "DOC", r.key)
      [] r.read_state = "IN_SCOPE" -> _bson_json_save_map_key(PushFrame(regular, "SCOPE", <<>>), w)
      [] r.read_state = "IN_DBPOINTER" -> _bson_json_save_map_key(PushFrame(regular, "DBPOINTER", <<>>), w)
      [] OTHER -> r

_bson_json_read_map_key(r, w) ==
    LET s == FirstKey(r, w) IN
    CASE ~Valid(w) -> _bson_json_read_corrupt(r)
      [] Valid(w) /\ s.read_state = "IN_BSON_TYPE" -> WrapperKey(s, w)
      [] Valid(w) /\ s.read_state \in {"IN_BSON_TYPE_DATE_NUMBERLONG", "IN_BSON_TYPE_TIMESTAMP_VALUES",
                         "IN_BSON_TYPE_REGEX_VALUES", "IN_BSON_TYPE_BINARY_VALUES"} -> InnerKey(s, w)
      [] OTHER -> DocumentKey(s, w)

(***************************************************************************)
(* The end of an object: a wrapper becomes an element of the document it   *)
(* is in, once or after its inner object.                                  *)
(***************************************************************************)
_bson_json_read_append_binary(r) ==
    IF r.data.first /\ r.data.second THEN Appended(r, r.key, <<"binary", r.data.value2, r.buf0>>)
    ELSE _bson_json_read_set_error(r)

\* _bson_append_regex_options_sorted
Sorted(w) == SelectSeq(<<"i", "l", "m", "s", "u", "x">>, LAMBDA c : c \in Word(w))

_bson_json_read_append_regex(r) ==
    IF r.data.first /\ r.data.second THEN Appended(r, r.key, <<"regex", r.buf0, Sorted(r.buf1)>>)
    ELSE _bson_json_read_set_error(r)

_bson_json_read_append_timestamp(r) ==
    IF r.data.first /\ r.data.second
    THEN Appended(r, r.key, <<"timestamp", r.data.value, r.data.value2>>)
    ELSE _bson_json_read_set_error(r)

_bson_json_read_append_date_time(r) == Appended(r, r.key, <<"date_time", r.data.value>>)

\* The key put aside for one code stays for the next.
_bson_json_read_append_code_KeyKept(r) ==
    LET c == r.code
        v == IF c.has_scope THEN <<"codewscope", c.code, r.stack[r.n + 1].bson>> ELSE <<"code", c.code>>
    IN IF ~c.has_code THEN _bson_json_read_set_error(r)
       ELSE [Appended(r, c.key, v) EXCEPT !.code.has_code = FALSE, !.code.has_scope = FALSE]

_bson_json_read_append_code(r) ==
    LET c == r.code
        v == IF c.has_scope THEN <<"codewscope", c.code, r.stack[r.n + 1].bson>> ELSE <<"code", c.code>>
    IN IF ~c.has_code THEN _bson_json_read_set_error(r)
       ELSE [Appended(r, c.key, v) EXCEPT
                !.code.key = <<>>, !.code.has_code = FALSE, !.code.has_scope = FALSE]

_bson_json_read_append_dbpointer(r) ==
    LET elems == Word(r.stack[r.n + 1].bson)
        ids == {e \in elems : e[1] = Dollar("id")}
        refs == {e \in elems : e[1] = Dollar("ref")}
        good == /\ elems = ids \cup refs /\ ids # {} /\ refs # {}
                /\ \A e \in ids : e[2][1] = "oid"
                /\ \A e \in refs : e[2][1] = "utf8"
    IN IF good
       THEN Appended(r, r.dbpointer_key, <<"dbpointer", (CHOOSE e \in refs : TRUE)[2][2],
                                           (CHOOSE e \in ids : TRUE)[2][2]>>)
       ELSE _bson_json_read_set_error(r)

\* The end of a wrapper, by bson_type.
EndWrapper(r0) ==
    LET r == [r0 EXCEPT !.read_state = "REGULAR"]
        type == r.bson_type
    IN CASE type = "REGEX" -> _bson_json_read_append_regex(r)
         [] type \in {"CODE", "CODEWSCOPE"} -> _bson_json_read_append_code(r)
         [] type = "OID" -> Appended(r, r.key, <<"oid", r.data.value>>)
         [] type = "BINARY" -> _bson_json_read_append_binary(r)
         [] type = "DATE_TIME" -> _bson_json_read_append_date_time(r)
         [] type = "UNDEFINED" -> Appended(r, r.key, <<"undefined">>)
         [] type = "MINKEY" -> Appended(r, r.key, <<"minkey">>)
         [] type = "MAXKEY" -> Appended(r, r.key, <<"maxkey">>)
         [] type = "INT32" -> Appended(r, r.key, <<"int32", r.data.value>>)
         [] type = "INT64" -> Appended(r, r.key, <<"int64", r.data.value>>)
         [] type = "DOUBLE" -> Appended(r, r.key, <<"double", r.data.value>>)
         [] type = "DECIMAL128" -> Appended(r, r.key, <<"decimal128", r.data.value>>)
         [] type = "SYMBOL" -> r
         [] OTHER -> _bson_json_read_set_error(r)

\* The end of an inner object: the value is appended, the wrapper's end is awaited.
EndInner(r, next, Append1(_)) ==
    IF r.key = NoKey THEN _bson_json_read_corrupt(r) ELSE Append1([r EXCEPT !.read_state = next])

\* The end of a document, of a scope or of the document inside $dbPointer.
EndDocument(r) ==
    LET f == Frame(r)
        s == CASE f.type = "SCOPE" ->
                    [PopAside(r) EXCEPT !.read_state = "IN_BSON_TYPE", !.bson_type = "CODE",
                                        !.code.in_scope = FALSE]
               [] f.type = "DBPOINTER" ->
                    [PopAside(r) EXCEPT !.read_state = "IN_BSON_TYPE_DBPOINTER_STARTMAP"]
               [] OTHER -> PopDoc(IF f.has_id # f.has_ref THEN _bson_json_read_set_error(r) ELSE r)
    IN IF s.n = -1 THEN [s EXCEPT !.read_state = "DONE"] ELSE s

_bson_json_read_end_map(r0) ==
    LET regular == [r0 EXCEPT !.read_state = "REGULAR"]
        r == CASE r0.read_state = "IN_START_MAP" -> PushFrame(regular, "DOC", r0.key)
               [] r0.read_state = "IN_BSON_TYPE_SCOPE_STARTMAP" -> PushFrame(regular, "SCOPE", <<>>)
               [] OTHER -> r0
        rs == r.read_state
    IN CASE rs = "IN_BSON_TYPE_DBPOINTER_STARTMAP" ->
              [_bson_json_read_append_dbpointer(r) EXCEPT !.read_state = "REGULAR"]
         [] rs = "IN_BSON_TYPE" -> IF r.key = NoKey THEN _bson_json_read_corrupt(r) ELSE EndWrapper(r)
         [] rs = "IN_BSON_TYPE_TIMESTAMP_VALUES" ->
              EndInner(r, "IN_BSON_TYPE_TIMESTAMP_ENDMAP", _bson_json_read_append_timestamp)
         [] rs = "IN_BSON_TYPE_REGEX_VALUES" ->
              EndInner(r, "IN_BSON_TYPE_REGEX_ENDMAP", _bson_json_read_append_regex)
         [] rs = "IN_BSON_TYPE_BINARY_VALUES" ->
              EndInner(r, "IN_BSON_TYPE_BINARY_ENDMAP", _bson_json_read_append_binary)
         [] rs = "IN_BSON_TYPE_DATE_NUMBERLONG" ->
              EndInner(r, "IN_BSON_TYPE_DATE_ENDMAP", _bson_json_read_append_date_time)
         [] rs \in {"IN_BSON_TYPE_TIMESTAMP_ENDMAP", "IN_BSON_TYPE_REGEX_ENDMAP",
                    "IN_BSON_TYPE_BINARY_ENDMAP", "IN_BSON_TYPE_DATE_ENDMAP"} ->
              [r EXCEPT !.read_state = "REGULAR"]
         [] rs = "REGULAR" -> EndDocument(r)
         [] rs = "IN_SCOPE" ->      \* an empty scope
              [PopAside(PushFrame(r, "SCOPE", <<>>)) EXCEPT
                  !.read_state = "IN_BSON_TYPE", !.bson_type = "CODE", !.code.in_scope = FALSE]
         [] OTHER -> _bson_json_read_set_error(r)

_bson_json_read_start_array(r0) ==
    LET r == _bson_json_read_fixup_key(r0) IN
    IF r0.read_state # "REGULAR" THEN _bson_json_read_set_error(r0)
    ELSE PushFrame(r, "ARRAY", IF r.n < 0 THEN <<>> ELSE r.key)

_bson_json_read_end_array(r) ==
    LET s == PopArray(r) IN
    CASE r.read_state # "REGULAR" -> _bson_json_read_set_error(r)
      [] r.read_state = "REGULAR" /\ InArray(r) /\ s.n = -1 -> [s EXCEPT !.read_state = "DONE"]
      [] OTHER -> s
=============================================================================
