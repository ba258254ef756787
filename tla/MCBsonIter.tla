----------------------------- MODULE MCBsonIter -----------------------------
(* Documents of up to two elements, of every type and broken in every way  *)
(* bson_iter_next looks for, some of them embedded documents.              *)
EXTENDS BsonIter

Len32(n) == <<n, 0, 0, 0>>

Sealed(body, end) == Len32(Len(body) + 4 + Len(end)) \o body \o end
Doc(body) == Sealed(body, <<0>>)

Named(t, value) == <<t, 97, 0>> \o value

Zeros(n) == [i \in 1 .. n |-> 0]

SizedValues ==
    {Named(NULL, <<>>), <<MINKEY, 0>>, <<INT32, 65, 0>> \o Len32(7),
     <<INT64, 97, 98, 0>> \o Zeros(8), Named(OID, Zeros(12)),
     Named(DECIMAL128, Zeros(16)), Named(INT32, <<1, 2>>),
     Named(BOOL, <<1>>), Named(BOOL, <<2>>), Named(42, <<>>), <<0>>}

StringValues ==
    {Named(UTF8, Len32(2) \o <<120, 0>>), Named(CODE, Len32(1) \o <<0>>),
     Named(UTF8, Len32(0)), Named(SYMBOL, Len32(2) \o <<120, 120>>),
     Named(UTF8, Len32(9) \o <<120, 0>>), Named(UTF8, <<2, 0, 0, 128, 120, 0>>),
     Named(UTF8, <<1>>)}

BinaryValues ==
    {Named(BINARY, Len32(0) \o <<0>>), Named(BINARY, Len32(1) \o <<5, 9>>),
     Named(BINARY, Len32(5) \o <<2>> \o Len32(1) \o <<9>>),
     Named(BINARY, Len32(5) \o <<2>> \o Len32(2) \o <<9>>),
     Named(BINARY, Len32(3) \o <<2, 1, 1, 1>>), Named(BINARY, Len32(4) \o <<2>>),
     Named(BINARY, Len32(40) \o <<0>>)}

OtherValues ==
    {Named(REGEX, <<120, 0, 105, 0>>), Named(REGEX, <<0, 0>>),
     Named(REGEX, <<120, 0, 105>>), Named(REGEX, <<120>>),
     Named(DBPOINTER, Len32(1) \o <<0>> \o Zeros(12)),
     Named(DBPOINTER, Len32(2) \o <<120, 120>> \o Zeros(12)),
     Named(DBPOINTER, Len32(0) \o Zeros(12)),
     Named(CODEWSCOPE, Len32(14) \o Len32(1) \o <<0>> \o Doc(<<>>)),
     Named(CODEWSCOPE, Len32(15) \o Len32(2) \o <<120, 0>> \o Len32(6) \o <<0>>),
     Named(CODEWSCOPE, Len32(14) \o Len32(1) \o <<120>> \o Doc(<<>>)),
     Named(CODEWSCOPE, Len32(14) \o Len32(0) \o <<0>> \o Doc(<<>>)),
     Named(CODEWSCOPE, Len32(14) \o Len32(5) \o Zeros(12)),
     Named(CODEWSCOPE, Len32(13) \o Len32(1) \o <<0>> \o Len32(4) \o <<0>>),
     Named(DOCUMENT, <<2, 0>>)}

Leaves == SizedValues \cup StringValues \cup BinaryValues \cup OtherValues

Few == {Named(NULL, <<>>), <<INT32, 66, 0>> \o Len32(7), Named(BOOL, <<1>>),
        Named(UTF8, Len32(2) \o <<120, 0>>), Named(UTF8, Len32(0)), <<0>>}

Embedded ==
    {Named(DOCUMENT, Doc(x)) : x \in Leaves \cup {<<>>}}
        \cup {Named(ARRAY, Doc(x \o y)) : x, y \in Few}
        \cup {Named(DOCUMENT, Doc(Named(DOCUMENT, Doc(x)))) : x \in Few}
        \cup {Named(DOCUMENT, Sealed(x, <<>>)) : x \in Few}
        \cup {<<DOCUMENT, 0>> \o Len32(n) \o Zeros(m) : n \in {0, 3, 5, 9}, m \in {0, 1}}

Around == {<<>>, Named(NULL, <<>>), <<INT32, 66, 0>> \o Len32(7)}

MCInputs ==
    {Doc(x \o y) : x \in Leaves \cup Embedded, y \in Around}
        \cup {Doc(y \o x) : x \in Leaves \cup Embedded, y \in Around}
        \cup {Len32(4), Len32(6) \o <<0>>, Len32(5) \o <<1>>}

MCKeys  == {<<>>, <<97>>, <<98>>}
MCPaths == {<<<<66>>>>, <<<<97>>, <<97>>>>, <<<<97>>, <<66>>>>, <<<<97>>, <<>>>>,
            <<<<97>>, <<97>>, <<97>>>>}

=============================================================================
