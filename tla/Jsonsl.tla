------------------------------- MODULE Jsonsl -------------------------------
(***************************************************************************)
(* jsonsl, the JSON tokenizer under bson_json_reader_t                     *)
(* (src/src/jsonsl/jsonsl.c).  The tokenizer is fed a text in chunks and   *)
(* calls back when an object, a list, a string, a key or a bare word       *)
(* begins and ends.  It keeps no text: only where each open token began,   *)
(* what it is, and what it may meet next.  All of that outlives a chunk.   *)
(*                                                                         *)
(* A text is a sequence of pieces.  A piece is one character, or a run of  *)
(* ordinary characters inside a string; a chunk ends between two pieces,   *)
(* and a position counts pieces.  The tokenizer is a record and its steps  *)
(* are functions of it: `out' holds the callbacks of the step, in order.   *)
(***************************************************************************)
EXTENDS Integers, Sequences, FiniteSets

CONSTANTS LevelsMax,   \* JSONSL levels: jsonsl_new (STACK_MAX)
          Int64Max     \* INT64_MAX, the width of the machine scaled down

ASSUME JsonslAssumption == LevelsMax \in Nat \ {0, 1} /\ Int64Max \in Nat \ {0}

UInt64(x) == x % (2 * (Int64Max + 1))    \* what a uint64_t keeps of x

(***************************************************************************)
(* The character tables (Special_Table, Special_Endings, ...).             *)
(***************************************************************************)
Digits == <<"0", "1", "2", "3", "4", "5", "6", "7", "8", "9">>
isdigit(c) == \E i \in 1..10 : Digits[i] = c
DigitValue(c) == (CHOOSE i \in 1..10 : Digits[i] = c) - 1

Whitespace == {" ", "<LF>"}              \* is_allowed_whitespace
SpecialEnds == Whitespace \cup {"\"", ",", ":", "[", "\\", "]", "{", "}"}
Escapes == {"\"", "/", "\\", "b", "f", "n", "r", "t", "u"}
NotSimple == {"\"", "\\", "<LF>", "<NUL>"}   \* String_No_Passthrough

extract_special(c) ==
    CASE c = "-" -> {"DASH"}
      [] c = "0" -> {"ZERO", "UNSIGNED"}
      [] c # "0" /\ isdigit(c) -> {"UNSIGNED"}
      [] c \in {"I", "i"} -> {"INF"}
      [] c = "N" -> {"NAN"}
      [] c = "f" -> {"FALSE"}
      [] c = "n" -> {"NULL", "NAN"}
      [] c = "t" -> {"TRUE"}
      [] OTHER -> {}

lower(c) == CASE c = "I" -> "i" [] c = "N" -> "n" [] c = "A" -> "a" [] OTHER -> c

(***************************************************************************)
(* The stack of open tokens.  nelem counts the keys and values of an       *)
(* object or a list and is the value of a number; nescapes is the length   *)
(* of a bare word (STATE_SPECIAL_LENGTH).                                  *)
(***************************************************************************)
Root == [type |-> "root", flags |-> {}, nelem |-> 0, begin |-> 0, length |-> 0]

jsonsl_reset(t) ==
    [t EXCEPT !.tok_last = "", !.can_insert = TRUE, !.pos = 0, !.in_escape = FALSE,
              !.expecting = "", !.stack = <<Root>>, !.failed = FALSE]

jsonsl_new == jsonsl_reset(
    [tok_last |-> "", can_insert |-> TRUE, pos |-> 0, in_escape |-> FALSE, expecting |-> "",
     stack |-> <<Root>>, failed |-> FALSE, out |-> <<>>])

level(t) == Len(t.stack) - 1
state(t) == t.stack[Len(t.stack)]
SetState(t, s) == [t EXCEPT !.stack[Len(t.stack)] = s]
Counted(t) == SetState(t, [state(t) EXCEPT !.nelem = @ + 1])

\* INVOKE_ERROR: the error callback returns 0, so the feed returns.
Fail(t, err, c) ==
    [t EXCEPT !.failed = TRUE, !.out = Append(@, [act |-> "error", err |-> err, at |-> c])]

\* The guard admits one level too many.
Push_OneMore(t, type, flags, nelem, c) ==
    IF level(t) >= LevelsMax THEN Fail(t, "LEVELS_EXCEEDED", c)
    ELSE [t EXCEPT
            !.stack = Append(@, [type |-> type, flags |-> flags, nelem |-> nelem,
                                 begin |-> t.pos, length |-> 1]),
            !.out = Append(@, [act |-> "push", type |-> type, begin |-> t.pos])]

\* STACK_PUSH and the PUSH callback.
Push(t, type, flags, nelem, c) ==
    IF level(t) >= LevelsMax - 1 THEN Fail(t, "LEVELS_EXCEEDED", c)
    ELSE [t EXCEPT
            !.stack = Append(@, [type |-> type, flags |-> flags, nelem |-> nelem,
                                 begin |-> t.pos, length |-> 1]),
            !.out = Append(@, [act |-> "push", type |-> type, begin |-> t.pos])]

\* CALLBACK_AND_POP.
Pop(t) ==
    [t EXCEPT !.stack = SubSeq(@, 1, Len(@) - 1),
              !.out = Append(@, [act |-> "pop", type |-> state(t).type, flags |-> state(t).flags,
                                 nelem |-> state(t).nelem, begin |-> state(t).begin,
                                 cur |-> t.pos])]

(***************************************************************************)
(* One piece of the text, by the token it falls in.                        *)
(***************************************************************************)
\* GT_QUOTE: a quote ends a string, or begins a value or a key.
Quote(t0, c) ==
    LET s == state(t0)
        t == Counted([t0 EXCEPT !.can_insert = FALSE])
    IN CASE s.type \in {"string", "hkey"} -> Pop([t0 EXCEPT !.can_insert = FALSE])
         [] s.type = "object" /\ s.nelem % 2 = 1 ->
              IF t.tok_last # ":" THEN Fail(t, "MISSING_TOKEN", c)
              ELSE Push([t EXCEPT !.expecting = ",", !.tok_last = ""], "string", {}, 0, c)
         [] s.type = "object" /\ s.nelem % 2 = 0 ->
              IF t.expecting # "\"" THEN Fail(t, "STRAY_TOKEN", c)
              ELSE Push([t EXCEPT !.expecting = ":", !.tok_last = ""], "hkey", {}, 0, c)
         [] s.type = "list" ->
              Push([t EXCEPT !.expecting = ",", !.tok_last = ""], "string", {}, 0, c)
         [] s.type = "root" -> Fail(t, "STRING_OUTSIDE_CONTAINER", c)

jsonsl__str_fastparse(t) == t      \* simple characters are passed over

\* Inside a string or a key.
InString(t, c) ==
    CASE t.in_escape ->
           IF c \in Escapes THEN [t EXCEPT !.in_escape = FALSE] ELSE Fail(t, "ESCAPE_INVALID", c)
      [] ~t.in_escape /\ c = "\"" -> Quote(t, c)
      [] ~t.in_escape /\ c = "\\" -> [t EXCEPT !.in_escape = TRUE]
      [] ~t.in_escape /\ c \in NotSimple \ {"\"", "\\"} -> Fail(t, "WEIRD_WHITESPACE", c)
      [] OTHER -> jsonsl__str_fastparse(t)

ExpectsKey(t) == state(t).type = "object" /\ state(t).nelem % 2 = 0     \* ENSURE_HVAL

\* GT_SPECIAL_BEGIN: the first character of a number or of a word.
BeginSpecial(t, c) ==
    LET flags == extract_special(c) IN
    CASE flags = {} -> Fail(t, IF c = "<NUL>" THEN "FOUND_NULL_BYTE" ELSE "SPECIAL_EXPECTED", c)
      [] flags # {} /\ ExpectsKey(t) -> Fail(t, "HKEY_EXPECTED", c)
      [] flags # {} /\ ~ExpectsKey(t) /\ ~t.can_insert -> Fail(t, "CANT_INSERT", c)
      [] OTHER ->
           LET plain == flags = {"UNSIGNED"}
               p == Push(Counted(t), "special", flags, IF plain THEN DigitValue(c) ELSE 0, c)
           IN IF p.failed THEN p ELSE [p EXCEPT !.tok_last = IF plain THEN "1" ELSE "-"]

Opened(t, c) ==
    CASE ~t.can_insert -> Fail(t, "CANT_INSERT", c)
      [] t.can_insert /\ ExpectsKey(t) -> Fail(t, "HKEY_EXPECTED", c)
      [] OTHER ->
           LET p == Push(Counted(t), IF c = "{" THEN "object" ELSE "list", {}, 0, c)
           IN IF p.failed THEN p
              ELSE [p EXCEPT !.can_insert = TRUE, !.tok_last = "",
                             !.expecting = IF c = "{" THEN "\"" ELSE @]

Closed(t, c) ==
    CASE t.tok_last = "," -> Fail(t, "TRAILING_COMMA", c)
      [] t.tok_last # "," /\ state(t).type # (IF c = "]" THEN "list" ELSE "object") ->
           Fail(t, "BRACKET_MISMATCH", c)
      [] t.tok_last # "," /\ c = "}" /\ state(t).type = "object" /\ state(t).nelem % 2 # 0 ->
           Fail(t, "VALUE_EXPECTED", c)
      [] OTHER -> Pop([t EXCEPT !.can_insert = FALSE, !.expecting = ",", !.tok_last = ""])

\* GT_STRUCTURAL_TOKEN.
Structural(t, c) ==
    CASE c = ":" ->
           IF t.expecting # ":" THEN Fail(t, "STRAY_TOKEN", c)
           ELSE [t EXCEPT !.tok_last = ":", !.can_insert = TRUE, !.expecting = "\""]
      [] c = "," ->
           IF t.expecting # "," THEN Fail(t, "STRAY_TOKEN", c)
           ELSE [t EXCEPT !.tok_last = ",", !.expecting = "\"",
                          !.can_insert = @ \/ state(t).type # "object"]
      [] c \in {"{", "["} -> Opened(t, c)
      [] c \in {"}", "]"} -> Closed(t, c)
      [] OTHER -> BeginSpecial(t, c)

(***************************************************************************)
(* Numbers and words.                                                      *)
(***************************************************************************)
\* IS_NORMAL_NUMBER: an integer so far, its value summed up in nelem.
IsNormal(s) == s.flags \in {{"UNSIGNED"}, {"SIGNED"}}
IsZero(s) == s.flags \in {{"ZERO", "UNSIGNED"}, {"ZERO", "UNSIGNED", "SIGNED"}}
Numeric(s) == s.flags \cap {"SIGNED", "UNSIGNED"} # {}

Literal(s) ==
    CASE s.flags = {"TRUE"} -> <<"t", "r", "u", "e">>
      [] s.flags = {"FALSE"} -> <<"f", "a", "l", "s", "e">>
      [] s.flags = {"NULL"} -> <<"n", "u", "l", "l">>
      [] s.flags = {"INF"} -> <<"i", "n", "f", "i", "n", "i", "t", "y">>
      [] s.flags = {"INF", "SIGNED"} -> <<"-", "i", "n", "f", "i", "n", "i", "t", "y">>
      [] s.flags = {"NAN"} -> <<"n", "a", "n">>

\* VERIFY_SPECIAL and VERIFY_SPECIAL_CI: is c the next character of the word?
Spells(t, c) ==
    LET s == state(t)
        i == t.pos - s.begin + 1
    IN /\ i <= Len(Literal(s))
       /\ Literal(s)[i] = IF s.flags \cap {"INF", "NAN"} # {} THEN lower(c) ELSE c

\* GT_SPECIAL_POP: what is incomplete when the word ends.
Unfinished(t) ==
    LET s == state(t) IN
    CASE IsNormal(s) \/ IsZero(s) -> ""
      [] s.flags = {"DASH"} -> "INVALID_NUMBER"
      [] "INF" \in s.flags -> IF s.length # 8 THEN "SPECIAL_INCOMPLETE" ELSE ""
      [] Numeric(s) /\ ~IsNormal(s) /\ ~IsZero(s) /\ "INF" \notin s.flags ->
           IF t.tok_last # "1" THEN "INVALID_NUMBER" ELSE ""
      [] s.flags \in {{"TRUE"}, {"NULL"}} -> IF s.length # 4 THEN "SPECIAL_INCOMPLETE" ELSE ""
      [] s.flags = {"FALSE"} -> IF s.length # 5 THEN "SPECIAL_INCOMPLETE" ELSE ""
      [] OTHER -> ""

EndSpecial(t, c) ==
    LET s == state(t)
        t1 == [t EXCEPT !.can_insert = FALSE]
        t2 == IF IsZero(s) THEN SetState(t1, [s EXCEPT !.flags = {"UNSIGNED"}]) ELSE t1
        t3 == [Pop(t2) EXCEPT !.tok_last = "", !.expecting = ","]
    IN IF Unfinished(t) # "" THEN Fail(t1, Unfinished(t), c)
       ELSE IF c \in Whitespace THEN t3 ELSE Structural(t3, c)

\* GT_SPECIAL_NUMERIC.
InNumber(t, c) ==
    LET s == state(t) IN
    CASE isdigit(c) -> [t EXCEPT !.tok_last = "1"]
      [] c = "." ->
           IF "FLOAT" \in s.flags THEN Fail(t, "INVALID_NUMBER", c)
           ELSE SetState([t EXCEPT !.tok_last = "."], [s EXCEPT !.flags = @ \cup {"FLOAT"}])
      [] c \in {"e", "E"} ->
           IF "EXPONENT" \in s.flags THEN Fail(t, "INVALID_NUMBER", c)
           ELSE SetState([t EXCEPT !.tok_last = "e"], [s EXCEPT !.flags = @ \cup {"EXPONENT"}])
      [] c \in {"-", "+"} ->
           IF t.tok_last # "e" THEN Fail(t, "INVALID_NUMBER", c) ELSE [t EXCEPT !.tok_last = "-"]
      [] c \in SpecialEnds -> EndSpecial(t, c)
      [] OTHER -> Fail(t, "INVALID_NUMBER", c)

\* After a minus sign: infinity, or a digit.
AfterDash(t, c) ==
    LET s == state(t) IN
    CASE c \in {"I", "i"} -> SetState(t, [s EXCEPT !.flags = {"INF", "SIGNED"}])
      [] c = "0" -> SetState(t, [s EXCEPT !.flags = {"ZERO", "UNSIGNED", "SIGNED"}])
      [] c # "0" /\ isdigit(c) ->
           SetState(t, [s EXCEPT !.flags = {"SIGNED"}, !.nelem = DigitValue(c)])
      [] OTHER -> Fail(t, "INVALID_NUMBER", c)

\* A bare word.  "n" may begin null or nan: the second letter tells.
InWord(t, c) ==
    LET s == state(t)
        t1 == SetState(t, [s EXCEPT !.length = @ + 1])
    IN CASE s.flags = {} -> t1
         [] s.flags = {"NULL", "NAN"} ->
              SetState(t1, [s EXCEPT !.length = @ + 1,
                                     !.flags = @ \ ((IF c # "u" THEN {"NULL"} ELSE {})
                                                 \cup (IF lower(c) # "a" THEN {"NAN"} ELSE {}))])
         [] OTHER -> IF Spells(t, c) THEN t1 ELSE Fail(t1, "SPECIAL_EXPECTED", c)

jsonsl__num_fastparse(t, c) ==
    SetState(t, [state(t) EXCEPT !.nelem = UInt64(@ * 10 + DigitValue(c))])

InSpecial(t, c) ==
    LET s == state(t) IN
    CASE IsNormal(s) -> IF isdigit(c) THEN jsonsl__num_fastparse(t, c) ELSE InNumber(t, c)
      [] s.flags = {"DASH"} -> AfterDash(t, c)
      [] s.flags = {"ZERO", "UNSIGNED"} ->
           IF isdigit(c) THEN Fail(t, "INVALID_NUMBER", c)
           ELSE InNumber(SetState(t, [s EXCEPT !.flags = {"UNSIGNED"}]), c)
      [] Numeric(s) /\ "INF" \notin s.flags /\ ~IsNormal(s) /\ s.flags # {"ZERO", "UNSIGNED"} ->
           InNumber(t, c)
      [] OTHER -> IF c \in SpecialEnds THEN EndSpecial(t, c) ELSE InWord(t, c)

\* The body of the loop of jsonsl_feed: one piece, its callbacks in `out'.
jsonsl_feed(t0, c) ==
    LET t == [t0 EXCEPT !.out = <<>>]
        after == CASE state(t).type \in {"string", "hkey"} -> InString(t, c)
                   [] state(t).type = "special" -> InSpecial(t, c)
                   [] OTHER -> CASE c \in Whitespace -> t
                                 [] extract_special(c) # {} -> BeginSpecial(t, c)
                                 [] c = "\"" -> Quote(t, c)
                                 [] c = "\\" -> Fail(t, "ESCAPE_OUTSIDE_STRING", c)
                                 [] OTHER -> Structural(t, c)
    IN IF after.failed THEN after ELSE [after EXCEPT !.pos = @ + 1]

(***************************************************************************)
(* jsonsl_util_unescape: the characters a string stands for.  \u takes one *)
(* piece of four hexadecimal digits; a high surrogate waits in `last' for  *)
(* a low one.                                                              *)
(***************************************************************************)
High == "d83d"
Low == "de00"
CodePoints == {"0041", "000a", High, Low}
Utf8Of(hex) == CASE hex = "0041" -> "A" [] hex = "000a" -> "<LF>"
EscapeEquiv(c) == IF c = "n" THEN "<LF>" ELSE c      \* get_escape_equiv

Unescaped(p, out, last) == [rest |-> p, out |-> out, last |-> last, ok |-> TRUE]
BadEscape(u) == [u EXCEPT !.rest = <<>>, !.ok = FALSE]

\* One turn of the loop.
UnescapeOne(u) ==
    LET c == u.rest[1]
        more == SubSeq(u.rest, 2, Len(u.rest))
        hex == IF Len(more) > 1 THEN more[2] ELSE ""
        after == SubSeq(more, 3, Len(more))
    IN CASE c # "\\" -> Unescaped(more, Append(u.out, c), u.last)
         [] c = "\\" /\ more = <<>> -> BadEscape(u)
         [] c = "\\" /\ more # <<>> /\ more[1] \notin Escapes -> BadEscape(u)
         [] c = "\\" /\ more # <<>> /\ more[1] \in Escapes \ {"u"} ->
              Unescaped(Tail(more), Append(u.out, EscapeEquiv(more[1])), u.last)
         [] OTHER ->
              CASE hex \notin CodePoints -> BadEscape(u)
                [] hex \in CodePoints /\ u.last # "" ->
                     IF hex # Low THEN BadEscape(u) ELSE Unescaped(after, Append(u.out, "<U+1F600>"), "")
                [] hex = High /\ u.last = "" -> Unescaped(after, u.out, hex)
                [] hex = Low /\ u.last = "" -> BadEscape(u)
                [] OTHER -> Unescaped(after, Append(u.out, Utf8Of(hex)), "")

RECURSIVE Unescape(_)
Unescape(u) == IF u.rest = <<>> THEN [u EXCEPT !.ok = @ /\ u.last = ""] ELSE Unescape(UnescapeOne(u))
jsonsl_util_unescape(text) == Unescape(Unescaped(text, <<>>, ""))
=============================================================================
