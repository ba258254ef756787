----------------------------- MODULE MCBsonJson -----------------------------
(* Documents with every type of value printed in every form, sequences of  *)
(* them, and texts that are wrong at some point, in chunks of many sizes.  *)
EXTENDS BsonJson

H == <<"5000">>       \* a string of 24 hexadecimal digits
MCHex24 == {H}
MCBase64 == [w \in {<<"BQ==">>} |-> "bytes"]
MCSubTypes == [w \in {<<"0", "5">>} |-> 5]
MCDates == [w \in {<<"1970">>} |-> 3]
MCIso8601 == [x \in {3} |-> <<"1970">>]
MCDecimals == [w \in {<<"1E7">>} |-> "1E7"]
MCPrintedG == [x \in {"1.5", "-2.0", "NaN"} |->
    CASE x = "1.5" -> <<"1", ".", "5">> [] x = "-2.0" -> <<"-", "2">> [] x = "NaN" -> <<"n", "a", "n">>]
MCDoubles == [w \in {<<"1", ".", "5">>, <<"-", "2", ".", "0">>, <<"n", "a", "n">>, <<"NaN">>, <<"-Infinity">>,
                     <<"i", "n", "f", "i", "n", "i", "t", "y">>, <<"1", "e", "9">>} |->
    CASE w = <<"1", ".", "5">> -> "1.5" [] w = <<"-", "2", ".", "0">> -> "-2.0"
      [] w \in {<<"n", "a", "n">>, <<"NaN">>} -> "NaN" [] w = <<"-Infinity">> -> "-Infinity"
      [] w = <<"i", "n", "f", "i", "n", "i", "t", "y">> -> "Infinity" [] OTHER -> "huge"]

x == <<"x">>
One == <<<<x, <<"int32", 1>>>>>>
Oid == <<"oid", H>>

MCValues ==
    {<<"utf8", <<>>>>, <<"utf8", <<"a\n", "\"", "\\", "<LF>", "$">>>>, <<"int32", -7>>, <<"int32", 30>>,
     <<"int64", 7>>, <<"int64", 500>>, <<"int64", -999>>, <<"double", "1.5">>, <<"double", "-2.0">>,
     <<"double", "NaN">>, <<"decimal128", "1E7">>, <<"undefined">>, <<"null">>, Oid,
     <<"binary", 5, "bytes">>, <<"bool", TRUE>>, <<"bool", FALSE>>, <<"date_time", 3>>,
     <<"date_time", -1>>, <<"regex", x, <<"m", "i">>>>, <<"timestamp", 1, 2>>, <<"dbpointer", x, H>>,
     <<"minkey">>, <<"maxkey">>, <<"code", x>>, <<"symbol", x>>, <<"codewscope", x, One>>,
     <<"codewscope", <<>>, <<>>>>, <<"document", <<>>>>, <<"document", One>>, <<"array", <<>>>>,
     <<"document", <<<<Dollar("ref"), <<"utf8", x>>>>, <<Dollar("id"), Oid>>>>>>,
     <<"array", <<<<<<"0">>, <<"int32", 1>>>>, <<<<"1">>, <<"document", One>>>>, <<<<"2">>, <<"utf8", x>>>>>>>>}

Docs == {<<<<x, v>>>> : v \in MCValues}
        \cup {<<<<x, v>>, <<<<"y">>, <<"document", <<<<<<>>, v>>>>>>>>>> :
                v \in {Oid, <<"codewscope", x, One>>, <<"binary", 5, "bytes">>, <<"int64", 500>>}}
Pair == <<<<<<x, Oid>>, <<<<"y">>, <<"code", x>>>>>>, <<>>, <<<<x, <<"date_time", 3>>>>>>>>

MCWritings == {[mode |-> m, docs |-> <<d>>] : m \in Modes, d \in Docs}
              \cup {[mode |-> m, docs |-> Pair] : m \in Modes}
              \cup {[mode |-> "CANONICAL", docs |-> <<<<<<x, <<"double", "-Infinity">>>>>>, One>>]}

(* Texts out of their pieces: the keys and strings below are one piece.    *)
K(name) == <<"\"", name, "\"", ":">>
D(name) == <<"\"", "$", name, "\"", ":">>
S(str) == <<"\"", str, "\"">>
Obj(t) == <<"{">> \o t \o <<"}">>
X(t) == Obj(K("x") \o t)

Odd ==
    {<<>>, <<" ">>, <<"[", "1", ",", "[", "t", "r", "u", "e", "]", "]">>,
     <<"{", " ", "<LF>">> \o K("x") \o <<" ", "1", " ", "}", " ", "{", "}", "<LF>">>,
     X(<<"1">>) \o <<",">> \o X(<<"2">>), X(<<"1">>) \o <<"]">>, X(<<"1">>) \o <<"1">>,
     <<"{">> \o K("x") \o <<"1", " ", "{">>, <<"{">> \o K("x"), <<"{", ",", "}">>, <<"]">>,
     X(<<"1">>) \o <<"{">> \o K("x") \o <<"1">>,
     <<"{">> \o K("x") \o <<"1", ",", "}">>, X(<<"[", "}">>), <<"{", "[">>, <<"{">> \o S("x") \o <<"}">>,
     X(<<"n", "u", "l", "x">>), X(<<"n", "u", "l", "l">>) \o <<"\"">>, X(<<"t", "r", "u", "}">>),
     X(<<"n", "x">>), X(<<"-", "}">>), X(<<"-", "0", "5">>), X(<<"0", "5">>), X(<<"1", ".", "e", "9">>),
     X(<<"1", "e", "9">>), X(<<"1", "-">>), X(<<"1", ".", "5", ".">>), X(<<"1", "0", "0", "0">>),
     X(<<"2", "0", "0", "0">>), X(<<"-", "1", "0", "0", "0">>), X(<<"-", "1", "0", "0", "1">>),
     X(<<"i", "n", "f", "i", "n", "i", "t", "y">>), X(<<"i", "n", "f">>),
     X(<<"\"", "\\", "u", "0041", "\\", "u", "d83d", "\\", "u", "de00", "\"">>),
     X(<<"\"", "\\", "u", "d83d", "\"">>), X(<<"\"", "\\", "x", "\"">>), X(<<"\"", "<LF>", "\"">>),
     X(S("<FF>")), X(<<"[", "[", "[", "[", "[", "[", "]", "]", "]", "]", "]", "]">>),
     X(<<"[">> \o Obj(D("type") \o S("string")) \o <<"]">>), X(Obj(D("type") \o X(<<"1">>))),
     X(Obj(D("oid") \o S("no"))), X(Obj(D("oid") \o S("5000") \o <<",">> \o D("date") \o <<"1">>)),
     X(Obj(D("date") \o S("no"))), X(Obj(D("date") \o <<"t", "r", "u", "e">>)),
     X(Obj(D("numberInt") \o S("x"))), X(Obj(D("unknown") \o <<"1">>)), Obj(D("oid") \o S("5000")),
     X(Obj(D("regex") \o S("x"))), X(Obj(D("ref") \o S("x"))), X(Obj(D("id") \o <<"1">>)),
     X(Obj(D("scope") \o X(<<"1">>) \o <<",">> \o D("code") \o S("c"))),
     X(Obj(D("scope") \o Obj(<<>>))), X(Obj(D("dbPointer") \o Obj(<<>>))),
     X(Obj(D("dbPointer") \o Obj(D("ref") \o S("x")))), X(Obj(D("timestamp") \o Obj(K("t") \o <<"1">>))),
     X(Obj(D("timestamp") \o <<"1">>)), X(Obj(D("minKey") \o <<"2">>))}

MCTexts == {TextOf(w) : w \in MCWritings} \cup Odd
MCReadSizes == {1, 2, 3, 5, 8, 100}
=============================================================================
