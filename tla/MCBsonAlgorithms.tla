-------------------------- MODULE MCBsonAlgorithms ---------------------------
(* Inputs around every boundary the functions have.                        *)
EXTENDS BsonAlgorithms

(* The first and last byte of every class of bytes, and sequences of three *)
(* and more of them.                                                       *)
MCByteStrings ==
    BoundedSeq({0, 10, 31, 34, 65, 92, 127, 128, 159, 160, 191, 192, 193, 194, 223, 224, 239, 240,
                245, 248, 252, 255}, 2)
    \cup {<<192, 128, c>> : c \in {0, 65, 128}}
    \cup {<<a, b, c>> : a \in {224, 225, 236, 237, 238, 239}, b \in {127, 128, 159, 160, 191, 192},
                        c \in {65, 128, 191}}
    \cup {<<a, b, c, d>> : a \in {240, 241, 243, 244, 245}, b \in {128, 143, 144, 191},
                           c \in {128, 192}, d \in {65, 191}}
    \cup {<<248, 136, 128, 128, 128>>, <<252, 132, 128, 128, 128, 128>>}

MCCodePoints == {0, 65, 127, 128, 2047, 2048, 55295, 55296, 57343, 57344, 65535, 65536, 1114111,
                 1114112, 2097151, 2097152, 67108863}

-----------------------------------------------------------------------------
Nested == E!Document(E!bson_append_value(<<98>>, E!Value(E!INT32, <<1, 0, 0, 0>>, <<>>)).bytes)
Fill(n) == [i \in 1 .. n |-> i]

MCValues ==
    {E!Value(t, Fill(E!SizeOf[t]), <<>>) : t \in E!Sized \ {E!TIMESTAMP}}
    \cup {E!Value(E!TIMESTAMP, <<1, 2, 3, 4>>, <<5, 6, 7, 8>>)}
    \cup {E!Value(E!BOOL, <<b>>, <<>>) : b \in {0, 1}}
    \cup {E!Value(t, s, <<>>) : t \in E!Strings, s \in {<<>>, <<120>>, <<120, 0, 121>>}}
    \cup {E!Value(t, d, <<>>) : t \in {E!DOCUMENT, E!ARRAY}, d \in {E!EmptyDocument, Nested}}
    \cup {E!Value(E!REGEX, s, o) : s \in {<<>>, <<120>>}, o \in {<<>>, <<120, 105, 109, 105>>, <<97, 105>>}}
    \cup {E!Value(E!DBPOINTER, s, Fill(12)) : s \in {<<>>, <<120, 0, 121>>}}
    \cup {E!Value(E!CODEWSCOPE, s, d) : s \in {<<>>, <<120, 0>>}, d \in {E!EmptyDocument, Nested}}
    \cup {[E!Value(E!BINARY, b, <<>>) EXCEPT !.subtype = s] : b \in {<<>>, <<0>>, Fill(5)}, s \in {0, 2, 128}}

MCElements ==
    {<<[key |-> k, value |-> v]>> : k \in {<<>>, <<97>>, <<36, 98>>}, v \in MCValues}
    \cup {<<[key |-> <<97>>, value |-> v], [key |-> <<98>>, value |-> w]>> : v \in MCValues,
             w \in {E!Value(E!NULL, <<>>, <<>>), E!Value(E!UTF8, <<0>>, <<>>)}}

-----------------------------------------------------------------------------
String == <<"utf8", <<"x">>>>
Integer == <<"int32">>

(* Subdocuments that are on the way to a DBRef, in all orders; keys and    *)
(* strings of every kind; what follows a subdocument; codes with a scope   *)
(* of every kind, last in their document or not, in a DBRef and in a scope.*)
DBRefs == BoundedSeq({<<V!Dollar(k), v>> : k \in {"ref", "id", "db"}, v \in {String, Integer}}
                        \cup {<<<<"a">>, Integer>>}, 3)

Elem(v) == <<<<"a">>, v>>
Scopes == {<<<<k, v>>>> : k \in {<<>>, <<"a", ".">>, V!Dollar("ref")},
                          v \in {String, Integer, <<"utf8", <<"<NUL>">>>>}}
             \cup {<<>>, <<Elem(<<"unreadable">>)>>,
                   <<Elem(<<"document", <<<<V!Dollar("ref"), String>>>>>>)>>,
                   <<Elem(<<"document", <<<<V!Dollar("ref"), String>>, <<V!Dollar("id"), Integer>>>>>>)>>}
Code(scope) == <<"codewscope", <<"x">>, scope>>

ScopeDocuments ==
    LET codes == {Code(s) : s \in Scopes} \cup {Code(<<Elem(Code(s))>>) : s \in Scopes}
        after == {<<<<"b">>, Integer>>, <<<<>>, Integer>>, <<V!Dollar("x"), Integer>>,
                  <<<<"b">>, <<"unreadable">>>>, <<<<"b">>, <<"utf8", <<"<NUL>">>>>>>}
    IN  {<<Elem(c)>> : c \in codes} \cup {<<Elem(c), e>> : c \in codes, e \in after}
        \cup {<<Elem(<<"document", <<Elem(c)>>>>), e>> : c \in codes, e \in after}
        \cup {<<Elem(<<"document", Append(d, <<V!Dollar("id"), c>>)>>), e>> :
                 d \in {<<>>, <<<<V!Dollar("ref"), String>>>>}, c \in codes, e \in after}

MCDocuments ==
    ScopeDocuments \cup {<<<<<<"a">>, <<"document", d>>>>>> : d \in DBRefs}
    \cup {<<<<<<"a">>, <<"array", d>>>>, <<k, String>>>> :
             d \in {<<>>, <<<<V!Dollar("ref"), String>>, <<V!Dollar("id"), Integer>>>>,
                    <<<<V!Dollar("ref"), String>>>>},
             k \in {<<"b">>, V!Dollar("ref"), V!Dollar("id"), V!Dollar("db"), V!Dollar("x")}}
    \cup {<<<<k, v>>>> : k \in {<<>>, <<"a">>, <<"a", ".">>, <<"<FF>">>, V!Dollar("x"), <<".">>},
                         v \in {String, <<"utf8", <<"<NUL>">>>>, <<"unreadable">>,
                                <<"document", <<<<<<>>, Integer>>>>>>,
                                <<"document", <<<<<<"a">>, <<"unreadable">>>>>>>>,
                                <<"document", <<<<<<"a">>, <<"utf8", <<"<NUL>">>>>>>>>>>}}

MCFlagSets == {{}, {"DOLLAR_KEYS"}, {"UTF8"}, {"UTF8", "UTF8_ALLOW_NULL"}, {"DOT_KEYS", "EMPTY_KEYS"},
               V!Flags}

-----------------------------------------------------------------------------
MCTimes == {0, 59, 86399, 86400, 68169599, 68169600, 951782399, 951782400, 951868799, 978307199,
            978307200, 2147483000} \X {0, 1, 10, 99, 100, 999}

MCDayNumbers == {YearStart(y) + d : y \in {1, 4, 100, 101, 400, 401, 1600, 1900, 1901, 1969, 1970, 1972,
                                           2000, 2001, 2100, 2400, 9999},
                                    d \in {-1, 0, 58, 59, 60, 364}}

MCDates == {ymd \o hms : ymd \in {1902, 1969, 1970, 1972, 2000, 2037} \X {0, 1, 11} \X {1, 28, 29, 30, 31},
                         hms \in {<<0, 0, 0>>, <<23, 59, 60>>, <<12, 30, 59>>}}

(* 2000-02-29T12:34 and what may follow, each with any one character       *)
(* changed or left out.                                                    *)
Minute == <<50, 48, 48, 48, 45, 48, 50, 45, 50, 57, 84, 49, 50, 58, 51, 52>>
GoodDates == {Minute \o sec \o zone :
                 sec \in {<<>>, <<58, 53, 54>>, <<58, 53, 54, 46, 55>>, <<58, 53, 54, 46, 55, 56, 57>>},
                 zone \in {<<90>>, <<43, 48, 53, 51, 48>>, <<45, 50, 51, 53, 57>>}}

MCDateTexts ==
    LET change(s, i) == {[s EXCEPT ![i] = c] : c \in {43, 45, 46, 58, 84, 90, 120}
                                                      \cup IF i > 4 THEN {48, 49, 54, 57} ELSE {}}
                            \cup {RemoveAt(s, i)}
    IN  GoodDates \cup UNION {UNION {change(s, i) : i \in DOMAIN s} : s \in GoodDates}

-----------------------------------------------------------------------------
MCOids == {[i \in 1 .. 12 |-> b] : b \in {0, 9, 10, 127}} \cup {Fill(12), [i \in 1 .. 12 |-> 127 - i]}

(* One character of an ObjectId out of the neighbours of hexadecimal.      *)
MCHexTexts ==
    LET good == [i \in 1 .. 24 |-> 48 + (i % 10)] IN
    {[good EXCEPT ![i] = c] : i \in {1, 12, 24},
                              c \in {32, 47, 48, 57, 58, 64, 65, 70, 71, 96, 97, 102, 103}}
    \cup {SubSeq(good, 1, 23), good \o <<48>>, <<>>}

MCByteBlobs == BoundedSeq({0, 1, 63, 64, 255}, 2)
             \cup {[i \in 1 .. n |-> (i * 37 + n) % 256] : n \in 3 .. 7}

MCBase64Texts == BoundedSeq({65, 81, 61, 32, 33}, 4) \cup [1 .. 5 -> {65, 61, 32}]

MCNumbers == {0, 9, 10, 99, 100, 999, 1000, 9999, 10000, 999999999, 1000000000, 2147483647}

-----------------------------------------------------------------------------
(* Trees of up to two items a level, arrays in arrays, documents spliced   *)
(* in at both ends, strings that look like brackets, one that is too deep. *)
BconLeaves == {<<"utf8", <<"x">>>>, <<"utf8", <<"{", "x">>>>, <<"int32", 1>>}
Splice == <<"splice", <<<<<<"a">>, <<"int32", 2>>>>, <<<<"c">>, <<"document", <<>>>>>>>>>>

ListsOf(S) == {<<>>} \cup {<<x>> : x \in S} \cup (S \X S)
Pairs(nodes) == {<<"pair", k, n>> : k \in {<<"a">>, <<"b">>}, n \in nodes}

Arrays1 == {<<"arr", l>> : l \in ListsOf(BconLeaves \cup {Splice})}
Nodes1 == {<<"doc", l>> : l \in ListsOf(Pairs({<<"int32", 1>>}) \cup {Splice})} \cup Arrays1
             \cup {<<"int32", 1>>, <<"utf8", <<"]">>>>}

RECURSIVE Deep(_)
Deep(n) == IF n = 0 THEN <<"int32", 1>>
              ELSE IF n % 2 = 0 THEN <<"doc", <<<<"pair", <<"a">>, Deep(n - 1)>>>>>>
              ELSE <<"arr", <<Deep(n - 1)>>>>

MCTrees ==
    ListsOf(Pairs(Nodes1) \cup {Splice})
    \cup {<<<<"pair", <<"{">>, <<"arr", l>>>>>> : l \in ListsOf(Arrays1 \cup {Splice})}
    \cup {<<<<"pair", <<"a">>, Deep(n)>>>> : n \in 1 .. 6}

-----------------------------------------------------------------------------
(* Texts in both notations, and numbers between, at and over every limit.  *)
MCDecimals == {N!Number(b, n, e) : b \in BOOLEAN, n \in {0, 1, 9, 10, 50, 99, 100, 101, 999}, e \in -9 .. 2}
                \cup {N!Infinity(b) : b \in BOOLEAN} \cup {N!NaN}

MCDecimalParts ==
    {p \in [negative : BOOLEAN, before : BoundedSeq({48, 55}, 4), dot : BOOLEAN,
            after : BoundedSeq({48, 55}, 3),
            exponent : {Absent} \cup {<<s, n>> : s \in {<<>>, <<43>>, <<45>>},
                                              n \in {0, 1, 2, 3, 4, 5, 8, 9, 10, 11, 12}}] :
        /\ p.before \o p.after # <<>>
        /\ p.after # <<>> => p.dot}

(* Nothing, a point or a sign alone, two points, half a word or exponent.  *)
MCNoDecimals == {<<>>, <<46>>, <<45, 46>>, <<43, 45, 49>>, <<49, 46, 49, 46>>, <<105, 110, 102, 105>>,
                 <<101, 49>>, <<49, 101>>, <<49, 101, 45>>, <<49, 101, 49, 120>>, <<49, 120>>}
=============================================================================
