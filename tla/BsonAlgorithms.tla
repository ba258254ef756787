--------------------------- MODULE BsonAlgorithms ----------------------------
(***************************************************************************)
(* The pure functions of the library, each asked about some inputs and     *)
(* compared with what it is for: a definition of the answer that is made   *)
(* in another way.                                                         *)
(***************************************************************************)
EXTENDS Integers, Sequences, SequencesExt, FiniteSetsExt

U == INSTANCE BsonUtf8
T == INSTANCE BsonTexts
V == INSTANCE BsonVisit
E == INSTANCE BsonElements

(* The calendar with the seconds of a day, over the times of an int32, and *)
(* one whose days are seconds, for the years an int32 does not reach.      *)
D == INSTANCE BsonDates WITH SECSPERMIN <- 60, MINSPERHOUR <- 60, HOURSPERDAY <- 24,
                             TimeMin <- -2147483647, TimeMax <- 2147483647
Days == INSTANCE BsonDates WITH SECSPERMIN <- 1, MINSPERHOUR <- 1, HOURSPERDAY <- 1,
                                TimeMin <- -5000000, TimeMax <- 5000000

CONSTANTS ByteStrings, CodePoints, \* of UTF-8
          ElementLists, \* lists of elements [key, value]
          Documents, FlagSets, \* to validate, as BsonVisit has them
          Times, DayNumbers, Dates, DateTexts, \* of ISO 8601
          Oids, HexTexts, ByteBlobs, Base64Texts, Numbers,
          Absent         \* no answer yet, or no such part

CONSTANTS Trees,       \* what is to be built from arguments
          StackMax     \* bound: BCON_STACK_MAX
B == INSTANCE BsonBcon WITH BCON_STACK_MAX <- StackMax

CONSTANTS Decimals, DecimalParts, NoDecimals
(* Three digits for 34, and the exponents of a few more places; 2^10 is as *)
(* much above 10^3 as 2^113 above 10^34.                                   *)
MaxDigits == 3
ExponentMin == -9
ExponentMax == 2
N == INSTANCE BsonDecimal128 WITH MAX_DIGITS <- MaxDigits, Half <- 2, SignificandMax <- 1024,
                                  EXPONENT_MAX <- ExponentMax, EXPONENT_MIN <- ExponentMin,
                                  RadixMax <- 12, Junk <- {0, 7, 400}

VARIABLES task, answer

vars == <<task, answer>>

Tasks ==
    [of : {"utf8"}, str : ByteStrings] \cup [of : {"unichar"}, char : CodePoints]
    \cup [of : {"elements"}, elements : ElementLists]
    \cup [of : {"validate"}, doc : Documents, flags : FlagSets]
    \cup [of : {"format"}, time : Times] \cup [of : {"day"}, day : DayNumbers]
    \cup [of : {"date"}, date : Dates] \cup [of : {"date text"}, text : DateTexts]
    \cup [of : {"oid"}, oid : Oids] \cup [of : {"hex"}, text : HexTexts]
    \cup [of : {"blob"}, blob : ByteBlobs] \cup [of : {"base64"}, text : Base64Texts]
    \cup [of : {"key"}, number : Numbers]
    \cup [of : {"bcon"}, tree : Trees, cut : BOOLEAN]
    \cup [of : {"decimal"}, dec : Decimals]
    \cup [of : {"decimal text"}, parts : DecimalParts] \cup [of : {"no decimal"}, text : NoDecimals]

Init == task \in Tasks /\ answer = Absent

Asked(of) == task.of = of /\ answer = Absent
Answer(a) == answer' = a /\ UNCHANGED task

-----------------------------------------------------------------------------
AskUtf8 ==
    /\ Asked("utf8")
    /\ Answer([valid   |-> U!bson_utf8_validate(task.str, FALSE),
               allowed |-> U!bson_utf8_validate(task.str, TRUE),
               escaped |-> IF U!bson_utf8_validate(task.str, TRUE)
                           THEN U!bson_utf8_escape_for_json(task.str, TRUE) ELSE Absent])

AskUnichar ==
    /\ Asked("unichar")
    /\ \E s \in {U!bson_utf8_from_unichar(task.char)} :
           Answer([str |-> s, char |-> U!bson_utf8_get_char(s, 1),
                   next |-> U!bson_utf8_next_char(s, 1), valid |-> U!bson_utf8_validate(s, TRUE)])

(* The elements are appended one by one to an empty document.              *)
AskElements ==
    /\ Asked("elements")
    /\ LET calls == [i \in DOMAIN task.elements |->
                        E!bson_append_value(task.elements[i].key, task.elements[i].value)]
       IN  \E d \in {E!Document(FlattenSeq([i \in DOMAIN calls |-> calls[i].bytes]))} :
               Answer([calls |-> calls, document |-> d, read |-> E!Elements(d)])

AskValidate ==
    /\ Asked("validate")
    /\ Answer(V!bson_validate(task.doc, task.flags))

AskFormat ==
    /\ Asked("format")
    /\ \E text \in {D!_bson_iso8601_date_format(task.time[1], task.time[2])} :
           Answer([text |-> text, read |-> D!_bson_iso8601_date_parse(text)])

AskDay ==
    /\ Asked("day")
    /\ \E tm \in {Days!timesub(task.day)} : Answer([tm |-> tm, day |-> Days!_bson_timegm(tm)])

AskDate ==
    /\ Asked("date")
    /\ Answer(D!_bson_timegm(task.date))

AskDateText ==
    /\ Asked("date text")
    /\ Answer(D!_bson_iso8601_date_parse(task.text))

AskOid ==
    /\ Asked("oid")
    /\ \E text \in {T!bson_oid_to_string(task.oid)} :
           Answer([text |-> text, oid |-> T!bson_oid_init_from_string(text),
                   time |-> T!bson_oid_get_time_t(task.oid)])

AskHex ==
    /\ Asked("hex")
    /\ Answer([valid |-> T!bson_oid_is_valid(task.text, Len(task.text) + 1),
               oid |-> IF Len(task.text) = 24 THEN T!bson_oid_init_from_string(task.text) ELSE Absent])

AskBlob ==
    /\ Asked("blob")
    /\ \E text \in {T!b64_ntop(task.blob, T!b64_len(Len(task.blob)))} :
           Answer([text |-> text, length |-> T!b64_pton_len(text),
                   read |-> T!b64_pton_do(text, T!b64_pton_len(text) + 1)])

AskBase64 ==
    /\ Asked("base64")
    /\ \E n \in {T!b64_pton_len(task.text)} :
           Answer([length |-> n, read |-> T!b64_pton_do(task.text, n + 1)])

AskKey ==
    /\ Asked("key")
    /\ Answer(T!bson_uint32_to_string(task.number))

(* The arguments that say what is in a tree: items <<"pair", key, node>>   *)
(* and <<"splice", document>> of a document, nodes and splices of an       *)
(* array; a node is a value or <<"doc", items>> or <<"arr", nodes>>.  A    *)
(* call may end after any item of a document.                              *)
Argument(v) == IF v[1] = "utf8" /\ ~B!IsBracket(v[2]) THEN <<"plain", v[2]>> ELSE v
Bracket(b) == <<"plain", <<b>>>>

RECURSIVE Arguments(_, _), NodeArguments(_, _)
NodeArguments(n, cut) ==
    CASE n[1] = "doc"    -> <<Bracket("{")>> \o Arguments(n[2], cut) \o <<Bracket("}")>>
      [] n[1] = "arr"    -> <<Bracket("[")>> \o Arguments(n[2], cut) \o <<Bracket("]")>>
      [] n[1] = "splice" -> <<<<"BCON", n[2]>>>>
      [] n[1] = "pair"   -> <<Argument(<<"utf8", n[2]>>)>> \o NodeArguments(n[3], cut)
                               \o (IF cut THEN <<<<"END">>>> ELSE <<>>)
      [] OTHER           -> <<Argument(n)>>
Arguments(items, cut) == FlattenSeq([i \in DOMAIN items |-> NodeArguments(items[i], cut)])

(* The arguments that ask for all the values of a document.                *)
RECURSIVE Template(_, _)
Template(elems, inArray) ==
    FlattenSeq([i \in DOMAIN elems |->
        LET v == elems[i][2] IN
        (IF inArray THEN <<>> ELSE <<<<"plain", elems[i][1]>>>>)
        \o CASE v[1] = "document" -> <<Bracket("{")>> \o Template(v[2], FALSE) \o <<Bracket("}")>>
             [] v[1] = "array" -> <<Bracket("[")>> \o Template(v[2], TRUE) \o <<Bracket("]")>>
             [] OTHER -> <<<<v[1]>>>>])

AskBcon ==
    /\ Asked("bcon")
    /\ \E built \in {B!bcon_append_ctx(Append(Arguments(task.tree, task.cut), <<"END">>))} :
           LET elems == built.stack[1].elems
           IN  Answer([built |-> built, read |-> B!bcon_extract_ctx(elems, Template(elems, FALSE))])

-----------------------------------------------------------------------------
AskDecimal ==
    /\ Asked("decimal")
    /\ \E text \in {N!bson_decimal128_to_string(task.dec)} :
           Answer([text |-> text, read |-> N!bson_decimal128_from_string(text)])

DecimalText(p) ==
    (IF p.negative THEN <<45>> ELSE <<>>) \o p.before
    \o (IF p.dot THEN <<46>> \o p.after ELSE <<>>)
    \o (IF p.exponent = Absent THEN <<>> ELSE <<101>> \o p.exponent[1] \o N!DigitsOf(p.exponent[2]))

AskDecimalText ==
    /\ Asked("decimal text")
    /\ Answer(N!bson_decimal128_from_string(DecimalText(task.parts)))

AskNoDecimal ==
    /\ Asked("no decimal")
    /\ Answer(N!bson_decimal128_from_string(task.text))

Next == \/ AskUtf8 \/ AskUnichar \/ AskElements \/ AskValidate \/ AskFormat \/ AskDay \/ AskDate
        \/ AskDateText \/ AskOid \/ AskHex \/ AskBlob \/ AskBase64 \/ AskKey \/ AskBcon
        \/ AskDecimal \/ AskDecimalText \/ AskNoDecimal

Spec == Init /\ [][Next]_vars

Answered(of) == task.of = of /\ answer # Absent

-----------------------------------------------------------------------------
(* UTF-8 by the table of its well-formed sequences.                        *)
Tail80 == 128 .. 191
WellFormed(b) ==
    \/ Len(b) = 1 /\ b[1] <= 127
    \/ Len(b) = 2 /\ b[1] \in 194 .. 223 /\ b[2] \in Tail80
    \/ /\ Len(b) = 3 /\ b[3] \in Tail80
       /\ \/ b[1] = 224 /\ b[2] \in 160 .. 191
          \/ b[1] \in (225 .. 239) \ {237} /\ b[2] \in Tail80
          \/ b[1] = 237 /\ b[2] \in 128 .. 159
    \/ /\ Len(b) = 4 /\ b[3] \in Tail80 /\ b[4] \in Tail80
       /\ \/ b[1] = 240 /\ b[2] \in 144 .. 191
          \/ b[1] \in 241 .. 243 /\ b[2] \in Tail80
          \/ b[1] = 244 /\ b[2] \in 128 .. 143

TwoByteNul == <<192, 128>>

(* s can be cut into pieces that are characters.                           *)
Cut(s, Piece(_)) ==
    LET from[i \in 1 .. Len(s) + 1] ==
            i = Len(s) + 1 \/ \E e \in i .. Min({i + 3, Len(s)}) :
                                 Piece(SubSeq(s, i, e)) /\ from[e + 1]
    IN  from[1]

(* What a JSON reader makes of an escaped string.                          *)
HexOf(c) == IF c <= 57 THEN c - 48 ELSE c - 87
Escapes == 34 :> 34 @@ 92 :> 92 @@ 98 :> 8 @@ 102 :> 12 @@ 110 :> 10 @@ 114 :> 13 @@ 116 :> 9

Unescaped(text) ==
    LET from[i \in 1 .. Len(text) + 1] ==
            IF i > Len(text) THEN <<>>
            ELSE IF text[i] # 92 THEN <<text[i]>> \o from[i + 1]
            ELSE IF text[i + 1] # 117 THEN <<Escapes[text[i + 1]]>> \o from[i + 2]
            ELSE <<16 * HexOf(text[i + 4]) + HexOf(text[i + 5])>> \o from[i + 6]
    IN  from[1]

(* A string is valid exactly when it is made of shortest forms of Unicode  *)
(* characters, with the two byte NUL where NULs are allowed; a character   *)
(* written is the one read; an escaped string has no control character and *)
(* is read back as it was, and only the two byte NUL cannot be escaped.  A *)
(* byte 0 in the length given is escaped too, as \u0000: so says           *)
(* doc/bson_utf8_escape_for_json.rst; the comment at bson-utf8.c:249 says  *)
(* that it is converted to the two byte NUL.                               *)
Utf8Exact ==
    /\ Answered("utf8") =>
          /\ answer.valid = Cut(task.str, LAMBDA b : WellFormed(b) /\ b # <<0>>)
          /\ answer.allowed = Cut(task.str, LAMBDA b : WellFormed(b) \/ b = TwoByteNul)
          /\ answer.allowed =>
                /\ answer.escaped.null = (192 \in Range(task.str))
                /\ ~answer.escaped.null =>
                      /\ \A i \in DOMAIN answer.escaped.text : answer.escaped.text[i] >= 32
                      /\ Unescaped(answer.escaped.text) = task.str
    /\ Answered("unichar") =>
          /\ answer.char = task.char /\ answer.next = Len(answer.str) + 1
          /\ answer.valid = WellFormed(answer.str)

-----------------------------------------------------------------------------
(* Every value of every type is read back as it was given, by its key; its *)
(* bytes are those that were reserved, but for the last one of a regex.    *)
ElementsReadBack ==
    Answered("elements") =>
        /\ answer.read = [i \in DOMAIN task.elements |->
                             [task.elements[i] EXCEPT !.value = E!Kept(@)]]
        /\ E!IsDocument(answer.document)
        /\ \A i \in DOMAIN answer.calls :
              Len(answer.calls[i].bytes) - answer.calls[i].n_bytes
                 = IF task.elements[i].value.type = E!REGEX THEN 1 ELSE 0

-----------------------------------------------------------------------------
(* What a valid document is, as the flags say.                             *)
DollarKey(e) == e[1] # <<>> /\ e[1][1] = "$"
DBRefKeys == <<V!Dollar("ref"), V!Dollar("id"), V!Dollar("db")>>

IsDBRef(doc, n) ==
    /\ n <= Len(doc) /\ \A i \in 1 .. n : doc[i][1] = DBRefKeys[i]
    /\ \A i \in (1 .. n) \cap {1, 3} : doc[i][2][1] = "utf8"

DollarsInPlace(doc, top) ==
    \E n \in IF top THEN {0} ELSE {0, 2, 3} :
        IsDBRef(doc, n) /\ {i \in DOMAIN doc : DollarKey(doc[i])} = 1 .. n

RECURSIVE Valid(_, _, _)
Valid(doc, flags, top) ==
    /\ "DOLLAR_KEYS" \in flags => DollarsInPlace(doc, top)
    /\ \A i \in DOMAIN doc :
          LET key == doc[i][1]  v == doc[i][2] IN
          /\ v[1] # "unreadable" /\ "<FF>" \notin Range(key)
          /\ "EMPTY_KEYS" \in flags => key # <<>>
          /\ "DOT_KEYS" \in flags => "." \notin Range(key)
          /\ v[1] = "utf8" /\ "UTF8" \in flags =>
                /\ "<FF>" \notin Range(v[2])
                /\ "UTF8_ALLOW_NULL" \in flags \/ "<NUL>" \notin Range(v[2])
          /\ v[1] \in {"document", "array"} => Valid(v[2], flags, FALSE)
          /\ v[1] = "codewscope" => Valid(v[3], flags, TRUE)

(* Documents with no text that is not UTF-8 and no child shorter than a    *)
(* document: at the one the walk ends without a word from the validator,   *)
(* and passes over the other.                                              *)
RECURSIVE Readable(_)
Readable(doc) ==
    \A i \in DOMAIN doc : LET v == doc[i][2] IN
        /\ v[1] # "broken"
        /\ v[1] \in {"utf8", "codewscope"} => "<FF>" \notin Range(v[2])
        /\ v[1] \in {"document", "array"} => Readable(v[2])
        /\ v[1] = "codewscope" => Readable(v[3])

(* Nothing follows a code with scope in the document it is in.             *)
RECURSIVE ScopesLast(_)
ScopesLast(doc) ==
    \A i \in DOMAIN doc : LET v == doc[i][2] IN
        /\ v[1] \in {"document", "array"} => ScopesLast(v[2])
        /\ v[1] = "codewscope" => i = Len(doc) /\ ScopesLast(v[3])

(* bson_validate finds what the flags ask for and nothing else: the phase  *)
(* of a subdocument does not get into that of its parent, a scope is a     *)
(* document of its own, and what a visitor says of it is taken in the      *)
(* sense it has.  What follows a code with scope is looked at in           *)
(* ScopesEndNothing.                                                       *)
ValidateExact ==
    Answered("validate") /\ Readable(task.doc) /\ ScopesLast(task.doc) =>
        answer = Valid(task.doc, task.flags, TRUE)

(* bson_validate walks "through the document", "inspecting the keys and    *)
(* values": what it calls valid is valid up to its end, whatever follows   *)
(* a code with scope.  (doc/bson_validate.rst; the code says "stop" after  *)
(* a scope that is valid.)                                                 *)
ScopesEndNothing ==
    Answered("validate") /\ Readable(task.doc) /\ answer => Valid(task.doc, task.flags, TRUE)

-----------------------------------------------------------------------------
(* The calendar: the days before year y and month m (from 0) since 1970.   *)
DaysIn(y, m) == CASE m \in {3, 5, 8, 10} -> 30
                  [] m = 1 -> IF D!isleap(y) THEN 29 ELSE 28
                  [] OTHER -> 31
YearStart(y) == 365 * (y - 1970) + ((y + 3) \div 4 - 493) - ((y + 99) \div 100 - 20) + ((y + 399) \div 400 - 5)
DayNumber(y, m, d) == YearStart(y) + FoldLeft(+, 0, [i \in 1 .. m |-> DaysIn(y, i - 1)]) + d - 1

Seconds(tm) == DayNumber(tm[1], tm[2], tm[3]) * 86400 + tm[4] * 3600 + tm[5] * 60 + tm[6]

(* ISO 8601 as its error messages describe it, by position.                *)
Part(s, i, n) == IF i + n - 1 <= Len(s) THEN SubSeq(s, i, i + n - 1) ELSE <<>>
Num(s) == IF s # <<>> /\ Range(s) \subseteq 48 .. 57
          THEN FoldLeft(LAMBDA n, c : 10 * n + c - 48, 0, s) ELSE -1
CharAt(s, i) == IF i <= Len(s) THEN s[i] ELSE 0

IsZone(z) ==
    \/ z = <<90>>
    \/ /\ Len(z) = 5 /\ z[1] \in {43, 45}
       /\ Num(Part(z, 2, 2)) \in 0 .. 23 /\ Num(Part(z, 4, 2)) \in 0 .. 59

IsDate(s) ==
    /\ Num(Part(s, 1, 4)) >= 0 /\ CharAt(s, 5) = 45
    /\ Num(Part(s, 6, 2)) \in 1 .. 12 /\ CharAt(s, 8) = 45
    /\ Num(Part(s, 9, 2)) \in 1 .. 31 /\ CharAt(s, 11) = 84
    /\ Num(Part(s, 12, 2)) \in 0 .. 23 /\ CharAt(s, 14) = 58
    /\ Num(Part(s, 15, 2)) \in 0 .. 59
    /\ \E n \in {0} \cup {3} \cup 5 .. 7 :
          /\ n > 0 => CharAt(s, 17) = 58 /\ Num(Part(s, 18, 2)) \in 0 .. 60
          /\ n > 3 => CharAt(s, 20) = 46 /\ Num(Part(s, 21, n - 4)) >= 0
          /\ IsZone(SubSeq(s, 17 + n, Len(s)))

(* The seconds a date names.                                               *)
Named(s) ==
    LET z == IF Last(s) = 90 THEN 0
             ELSE Num(SubSeq(s, Len(s) - 3, Len(s) - 2)) * 3600 + Num(SubSeq(s, Len(s) - 1, Len(s))) * 60
    IN  Seconds(<<Num(Part(s, 1, 4)), Num(Part(s, 6, 2)) - 1, Num(Part(s, 9, 2)), Num(Part(s, 12, 2)),
                  Num(Part(s, 15, 2)), IF s[17] = 58 THEN Num(Part(s, 18, 2)) ELSE 0>>)
        + (IF s[Len(s) - 4] = 45 /\ Last(s) # 90 THEN z ELSE -z)

(* The milliseconds: a decimal fraction of up to three digits.             *)
Fraction(s) ==
    LET n == Len(s) - 20 - (IF Last(s) = 90 THEN 1 ELSE 5)
    IN  IF CharAt(s, 20) = 46 THEN Num(Part(s, 21, n)) * 10 ^ (3 - n) ELSE 0

-----------------------------------------------------------------------------
(* What was written is read back, and what is read is what was meant:      *)
(* times as dates (but for those whose milliseconds are padded with        *)
(* spaces), days of the calendar, dates with any zone and fraction of a    *)
(* second, ObjectIds, bytes in base64 and array keys; a text that is none of these is refused, and no  *)
(* byte is written beyond what the first pass over a base64 text counted.  *)
DatesExact ==
    /\ Answered("format") =>
          IF task.time[2] \in 1 .. 99 THEN answer.read = D!Bad ELSE answer.read = task.time
    /\ Answered("day") =>
          /\ answer.day = task.day
          /\ DayNumber(answer.tm[1], answer.tm[2], answer.tm[3]) = task.day
    /\ Answered("date") => answer = Seconds(task.date)
    /\ Answered("date text") =>
          IF IsDate(task.text) THEN answer = <<Named(task.text), Fraction(task.text)>> ELSE answer = D!Bad

Lower(c) == IF c \in 65 .. 90 THEN c + 32 ELSE c

TextsReadBack ==
    /\ Answered("oid") =>
          /\ answer.oid = task.oid /\ Len(answer.text) = 24
          /\ answer.time = FoldLeft(LAMBDA n, c : 16 * n + HexOf(c), 0, SubSeq(answer.text, 1, 8))
    /\ Answered("hex") =>
          answer.valid = (Len(task.text) = 24 /\
                          T!bson_oid_to_string(answer.oid) = [i \in 1 .. 24 |-> Lower(task.text[i])])
    /\ Answered("blob") =>
          /\ answer.length = Len(task.blob) /\ answer.read.result = Len(task.blob)
          /\ SubSeq(answer.read.target, 1, answer.length) = task.blob
    /\ Answered("base64") =>
          /\ answer.length >= 0 => Len(answer.read.target) <= answer.length + 1
          /\ answer.length >= 0 <=>
                LET s == SelectSeq(task.text, LAMBDA c : c \notin T!Spaces)
                    pad == {i \in DOMAIN s : s[i] = 61}
                IN  /\ Len(s) % 4 = 0 /\ Range(s) \subseteq DOMAIN T!Value64 \cup {61}
                    /\ pad \in {{}, {Len(s)}, {Len(s) - 1, Len(s)}}
    /\ Answered("key") => Num(answer) = task.number /\ (Len(answer) > 1 => answer[1] # 48)

-----------------------------------------------------------------------------
(* The document a tree describes: arrays have the keys "0", "1", and so    *)
(* on, whatever their elements come from.                                  *)
RECURSIVE Described(_), ValueOf(_)
ValueOf(n) ==
    CASE n[1] = "doc" -> <<"document", Described(n[2])>>
      [] n[1] = "arr" ->
            LET values == FlattenSeq([i \in DOMAIN n[2] |->
                              IF n[2][i][1] = "splice"
                              THEN [k \in DOMAIN n[2][i][2] |-> n[2][i][2][k][2]]
                              ELSE <<ValueOf(n[2][i])>>])
            IN  <<"array", [i \in DOMAIN values |-> <<B!IndexKey(i - 1), values[i]>>]>>
      [] OTHER -> n
Described(items) ==
    FlattenSeq([i \in DOMAIN items |->
        IF items[i][1] = "splice" THEN items[i][2] ELSE <<<<items[i][2], ValueOf(items[i][3])>>>>])

RECURSIVE Depth(_)
NodeOf(item) == IF item[1] = "pair" THEN item[3] ELSE item
Depth(items) ==
    1 + Max({0} \cup {LET n == NodeOf(items[i]) IN IF n[1] \in {"doc", "arr"} THEN Depth(n[2]) ELSE 0 :
                         i \in DOMAIN items})

IsNested(v) == v[1] \in {"document", "array"}

RECURSIVE Leaves(_)
Leaves(elems) ==
    FlattenSeq([i \in DOMAIN elems |->
        LET v == elems[i][2] IN IF IsNested(v) THEN Leaves(v[2]) ELSE <<v>>])

(* Every value can be asked for by a plain string, and is the only one.    *)
RECURSIVE Askable(_)
Askable(elems) ==
    \A i \in DOMAIN elems :
        /\ ~B!IsBracket(elems[i][1])
        /\ \A j \in DOMAIN elems : elems[j][1] = elems[i][1] => i = j
        /\ IsNested(elems[i][2]) => Askable(elems[i][2][2])

(* A document built from arguments, in one call or several, is the one     *)
(* they describe, with the indices of arrays without a gap, also around    *)
(* the elements of other documents put into them; too deep an argument     *)
(* list is an assertion that fails.  What was built can be extracted with  *)
(* the same shape of arguments, and extracting never fails an assertion.   *)
BconDescribes ==
    Answered("bcon") =>
        /\ answer.built.aborted = (Depth(task.tree) > StackMax)
        /\ ~answer.built.aborted =>
              /\ Len(answer.built.stack) = 1 /\ answer.built.stack[1].elems = Described(task.tree)
              /\ Askable(Described(task.tree)) =>
                    ~answer.read.stopped /\ answer.read.out = Leaves(Described(task.tree))

-----------------------------------------------------------------------------
(* What a text says: its digits as one number, and the power of ten that   *)
(* goes with it; the same without trailing zeros.                          *)
ExponentSaid(p) ==
    (IF p.exponent = Absent THEN 0
     ELSE IF p.exponent[1] = <<45>> THEN -p.exponent[2] ELSE p.exponent[2]) - Len(p.after)
NumberSaid(p) == FoldLeft(LAMBDA n, c : 10 * n + (c - 48), 0, p.before \o p.after)
Canonical(n, exponent) ==
    LET zeros == CHOOSE z \in 0 .. 9 : n % 10 ^ z = 0 /\ n % 10 ^ (z + 1) # 0
    IN  IF n = 0 THEN <<0, 0>> ELSE <<n \div 10 ^ zeros, exponent + zeros>>
Representable(n, exponent) ==
    n = 0 \/ \E k \in 0 .. MaxDigits - 1 :
                LET c == Canonical(n, exponent)
                IN  c[1] * 10 ^ k < 10 ^ MaxDigits /\ c[2] - k \in ExponentMin .. ExponentMax

(* The texts whose digits are looked for where they are: either there are  *)
(* neither leading zeros nor a radix point, or there is nothing to drop.   *)
(* With one digit too many at the largest exponent, the array of digits is *)
(* read behind its end.                                                    *)
Regular(p) ==
    \/ ~p.dot /\ p.before[1] # 48
    \/ NumberSaid(p) < 10 ^ MaxDigits /\ ExponentSaid(p) >= ExponentMin
TenfoldTooLarge(n, exponent) == n # 0 /\ Len(N!DigitsOf(n)) + exponent = MaxDigits + ExponentMax + 1

(* A decimal is read back from its text as it was, with its sign and its   *)
(* trailing zeros, and the text is no longer than BSON_DECIMAL128_STRING.  *)
(* A text is refused when no decimal is equal to it, and otherwise read as *)
(* one that is: no digit is rounded away and no exponent clamped, but for  *)
(* that of a zero.  The code says "Overflow is not permitted" and "Inexact *)
(* rounding is not allowed", and the tests agree (decimal128-4.json); the  *)
(* comment at bson-decimal128.c:422 says otherwise: that out of range      *)
(* values become infinities and excess digits are rounded, ties to even.   *)
DecimalsExact ==
    /\ Answered("decimal") => answer.read = {[ok |-> TRUE, dec |-> task.dec]} /\ Len(answer.text) < MaxDigits + 9
    /\ Answered("decimal text") =>
          LET n == NumberSaid(task.parts)
              e == ExponentSaid(task.parts)
          IN  Regular(task.parts) /\ ~TenfoldTooLarge(n, e) =>
              /\ \A r \in answer : r.ok = Representable(n, e)
              /\ \A r \in answer : r.ok =>
                     /\ r.dec.negative = task.parts.negative
                     /\ Canonical(r.dec.significand, r.dec.exponent) = Canonical(n, e)
                     /\ n < 10 ^ MaxDigits /\ e \in ExponentMin .. ExponentMax => r.dec.exponent = e
    /\ Answered("no decimal") => \A r \in answer : ~r.ok

=============================================================================
