---------------------------- MODULE MCBsonValues -----------------------------
(* Two bson_t variables; values with no, one and two blocks of their own,  *)
(* one of them cut at a 0; documents that outgrow the bson_t with their    *)
(* first, second or third element.                                         *)
EXTENDS BsonValues, TLC

CONSTANTS s1, s2

MCSlots    == {s1, s2}
MCSymmetry == Permutations(MCSlots)
MCKeys     == {<<97>>}
MCReserves == {32}

Named(k, v) == [key |-> <<k>>, value |-> v]

MCGiven ==
    {Named(97, Value(CODE, <<120, 0, 121>>, <<>>)),
     Named(98, Value(CODEWSCOPE, <<>>, EmptyDocument))}

(* /x/i and /x/im, the first of which ends an inline document one byte     *)
(* past the last one of the bson_t.                                        *)
MCRegexes == {Named(97, Value(REGEX, <<120>>, <<105>>)),
              Named(98, Value(REGEX, <<120>>, <<109, 105>>))}

=============================================================================
