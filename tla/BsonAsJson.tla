----------------------------- MODULE BsonAsJson -----------------------------
(***************************************************************************)
(* The printers of extended JSON: bson_as_json (legacy), bson_as_canonical_*)
(* extended_json, bson_as_relaxed_extended_json and bson_array_as_json     *)
(* (src/src/bson/bson.c), visitors of bson_iter_visit_all.  What they      *)
(* print is the sequence of pieces the tokenizer reads; the spaces between *)
(* tokens are left out.  A result is <<text>>, or <<>> for NULL.           *)
(***************************************************************************)
EXTENDS BsonJsonDocument
LOCAL INSTANCE SequencesExt

CONSTANTS RecursionMax,   \* BSON_MAX_RECURSION
          PrintedG,       \* double -> what "%.20g" prints
          Iso8601         \* milliseconds -> _bson_iso8601_date_format

Modes == {"LEGACY", "CANONICAL", "RELAXED"}

\* "%d", "%02x" (one digit is enough here) and the word f maps to v.
Decimals10[n \in Nat] == IF n < 10 THEN <<Digits[n + 1]>> ELSE Decimals10[n \div 10] \o <<Digits[(n % 10) + 1]>>
Printed(n) == IF n < 0 THEN <<"-">> \o Decimals10[-n] ELSE Decimals10[n]
Hex2(n) == <<"0", Digits[n + 1]>>
Spelling(f, v) == CHOOSE w \in DOMAIN f : f[w] = v

(***************************************************************************)
(* bson_utf8_escape_for_json.  NULL for bytes that decode to a NUL that is *)
(* not one.                                                                *)
(***************************************************************************)
Escape(c) == CASE c \in {"\"", "\\"} -> <<"\\", c>>
               [] c = "<LF>" -> <<"\\", "n">>
               [] c = "<NUL>" -> <<"\\", "u", "0000">>
               [] OTHER -> <<c>>

Escapable(w) == "<C080>" \notin Word(w)
bson_utf8_escape_for_json(w) == FoldLeft(LAMBDA t, c : t \o Escape(c), <<>>, w)

Quoted(pieces) == <<"\"">> \o pieces \o <<"\"">>
String(w) == Quoted(bson_utf8_escape_for_json(w))
Key(name) == Quoted(Dollar(name)) \o <<":">>
Object(text) == <<"{">> \o text \o <<"}">>
Wrapped(name, text) == Object(Key(name) \o text)
Plain(name, text) == Quoted(<<name>>) \o <<":">> \o text     \* a member named without a $

(***************************************************************************)
(* The visitors of the plain values.                                       *)
(***************************************************************************)
_bson_as_json_visit_int32(x, mode) ==
    IF mode = "CANONICAL" THEN Wrapped("numberInt", Quoted(Printed(x))) ELSE Printed(x)

_bson_as_json_visit_int64(x, mode) ==
    IF mode = "CANONICAL" THEN Wrapped("numberLong", Quoted(Printed(x))) ELSE Printed(x)

\* A double that prints as an integer gets ".0".
Number20g(x) ==
    LET text == PrintedG[x]
    IN IF \A c \in Word(text) : isdigit(c) \/ c = "-" THEN text \o <<".", "0">> ELSE text

_bson_as_json_visit_double(x, mode) ==
    LET finite == x \notin {"NaN", "Infinity", "-Infinity"}
    IN IF mode = "LEGACY" \/ (mode = "RELAXED" /\ finite) THEN Number20g(x)
       ELSE Wrapped("numberDouble", Quoted(IF finite THEN Number20g(x) ELSE <<x>>))

_bson_as_json_visit_binary(subtype, bytes, mode) ==
    LET b64 == Quoted(Spelling(Base64, bytes))
        sub == Quoted(Hex2(subtype))
    IN IF mode = "LEGACY" THEN Object(Key("binary") \o b64 \o <<",">> \o Key("type") \o sub)
       ELSE Wrapped("binary", Object(Plain("base64", b64) \o <<",">> \o Plain("subType", sub)))

_bson_as_json_visit_date_time(ms, mode) ==
    CASE mode = "CANONICAL" \/ (mode = "RELAXED" /\ ms < 0) ->
           Wrapped("date", Wrapped("numberLong", Quoted(Printed(ms))))
      [] mode = "RELAXED" /\ ms >= 0 -> Wrapped("date", Quoted(Iso8601[ms]))
      [] mode = "LEGACY" -> Wrapped("date", Printed(ms))

_bson_as_json_visit_regex(pattern, options, mode) ==
    IF mode = "LEGACY"
    THEN Object(Key("regex") \o String(pattern) \o <<",">> \o Key("options") \o Quoted(Sorted(options)))
    ELSE Wrapped("regularExpression",
                 Object(Plain("pattern", String(pattern)) \o <<",">> \o Plain("options", Quoted(Sorted(options)))))

_bson_as_json_visit_timestamp(t, i) ==
    Wrapped("timestamp", Object(Plain("t", Printed(t)) \o <<",">> \o Plain("i", Printed(i))))

_bson_as_json_visit_dbpointer(collection, oid, mode) ==
    LET ref == Key("ref") \o String(collection) \o <<",">> \o Key("id")
    IN IF mode = "LEGACY" THEN Object(ref \o Quoted(oid))
       ELSE Wrapped("dbPointer", Object(ref \o Wrapped("oid", Quoted(oid))))

_bson_as_json_visit_symbol(w, mode) ==
    IF mode = "LEGACY" THEN String(w) ELSE Wrapped("symbol", String(w))

\* A value that holds no other, and needs no escape that fails.
PlainValue(v, mode) ==
    CASE v[1] = "utf8" -> String(v[2])
      [] v[1] = "int32" -> _bson_as_json_visit_int32(v[2], mode)
      [] v[1] = "int64" -> _bson_as_json_visit_int64(v[2], mode)
      [] v[1] = "double" -> _bson_as_json_visit_double(v[2], mode)
      [] v[1] = "decimal128" -> Wrapped("numberDecimal", Quoted(Spelling(Decimals, v[2])))
      [] v[1] = "undefined" -> Wrapped("undefined", <<"t", "r", "u", "e">>)
      [] v[1] = "null" -> <<"n", "u", "l", "l">>
      [] v[1] = "oid" -> Wrapped("oid", Quoted(v[2]))
      [] v[1] = "binary" -> _bson_as_json_visit_binary(v[2], v[3], mode)
      [] v[1] = "bool" -> IF v[2] THEN <<"t", "r", "u", "e">> ELSE <<"f", "a", "l", "s", "e">>
      [] v[1] = "date_time" -> _bson_as_json_visit_date_time(v[2], mode)
      [] v[1] = "regex" -> _bson_as_json_visit_regex(v[2], v[3], mode)
      [] v[1] = "timestamp" -> _bson_as_json_visit_timestamp(v[2], v[3])
      [] v[1] = "dbpointer" -> _bson_as_json_visit_dbpointer(v[2], v[3], mode)
      [] v[1] = "minkey" -> Wrapped("minKey", <<"1">>)
      [] v[1] = "maxkey" -> Wrapped("maxKey", <<"1">>)
      [] v[1] = "code" -> Wrapped("code", String(v[2]))
      [] v[1] = "symbol" -> _bson_as_json_visit_symbol(v[2], mode)

(***************************************************************************)
(* The walk.  bson_json_state_t: how many elements are printed, whether    *)
(* their keys are, how deep this document is, the mode, the text; err is   *)
(* the err_offset a document shares with those under it.                   *)
(***************************************************************************)
State(keys, depth, mode, err) ==
    [count |-> 0, keys |-> keys, depth |-> depth, mode |-> mode, str |-> <<>>, err |-> err]

Put(s, text) == [s EXCEPT !.str = @ \o text]

\* A comma and the key.
_bson_as_json_visit_before(s, e) ==
    LET c == IF s.count > 0 THEN Put(s, <<",">>) ELSE s
        counted == [(IF s.keys THEN Put(c, String(e[1]) \o <<":">>) ELSE c) EXCEPT !.count = @ + 1]
    IN IF s.keys /\ ~Escapable(e[1]) THEN Stop(c) ELSE Go(counted)

_bson_as_json_visit_corrupt(s) == [s EXCEPT !.err = TRUE]

RECURSIVE AsJsonVisitors(_, _), _bson_as_json_visit_all(_, _)

\* A document and an array, unless they are too deep.
_bson_as_json_visit_document(s, v) ==
    LET array == v[1] = "array"
        w == bson_iter_visit_all(Walk(v[2], State(~array, s.depth + 1, s.mode, s.err)),
                _bson_as_json_visit_before, AsJsonVisitors, _bson_as_json_visit_corrupt)
        text == IF array THEN <<"[">> \o w.data.str \o <<"]">> ELSE Object(w.data.str)
    IN CASE s.depth >= RecursionMax -> Go(Put(s, <<"{", "...", "}">>))
         [] s.depth < RecursionMax /\ w.stopped -> Stop([s EXCEPT !.err = w.data.err])
         [] OTHER -> Go([Put(s, text) EXCEPT !.err = w.data.err])

\* The scope is printed on its own, with an error of its own.
_bson_as_json_visit_codewscope(s, v) ==
    LET scope == _bson_as_json_visit_all(v[3], s.mode)
    IN IF scope = <<>> THEN Stop(s)
       ELSE Go(Put(s, Object(Key("code") \o String(v[2]) \o <<",">> \o Key("scope") \o scope[1])))

AsJsonVisitors(s, e) ==
    LET v == e[2] IN
    CASE ~Escapable(Checked(v)) -> Stop(s)
      [] Escapable(Checked(v)) /\ v[1] \in {"document", "array"} -> _bson_as_json_visit_document(s, v)
      [] Escapable(Checked(v)) /\ v[1] = "codewscope" -> _bson_as_json_visit_codewscope(s, v)
      [] OTHER -> Go(Put(s, PlainValue(v, s.mode)))

Printing(w) == bson_iter_visit_all(w, _bson_as_json_visit_before, AsJsonVisitors, _bson_as_json_visit_corrupt)

_bson_as_json_visit_all(elems, mode) ==
    LET w == Printing(Walk(elems, State(TRUE, 0, mode, FALSE)))
    IN IF w.stopped \/ w.data.err THEN <<>> ELSE <<Object(w.data.str)>>

bson_as_json(elems) == _bson_as_json_visit_all(elems, "LEGACY")
bson_as_canonical_extended_json(elems) == _bson_as_json_visit_all(elems, "CANONICAL")
bson_as_relaxed_extended_json(elems) == _bson_as_json_visit_all(elems, "RELAXED")

\* The elements are visited twice: the second visit goes on where the first
\* stopped, and only its outcome is looked at.
bson_array_as_json(elems) ==
    LET first == Printing(Walk(elems, State(FALSE, 0, "LEGACY", FALSE)))
        w == Printing(first)
    IN IF w.stopped \/ w.data.err THEN <<>> ELSE <<<<"[">> \o w.data.str \o <<"]">>>>
=============================================================================
