--------------------------- MODULE MCBsonDocument ---------------------------
(* A 12 byte bson_t, documents of up to 63 bytes, two elements.            *)
EXTENDS BsonDocument

MCElements == {[id |-> "a", n_bytes |-> 8, size |-> 8],
               [id |-> "b", n_bytes |-> 11, size |-> 11]}

=============================================================================
