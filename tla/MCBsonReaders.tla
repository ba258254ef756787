--------------------------- MODULE MCBsonReaders ---------------------------
(* Two readers, the buffer of one of 8 bytes, on every stream of MCStreams. *)
EXTENDS BsonReaders, MCStreams

=============================================================================
