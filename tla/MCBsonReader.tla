---------------------------- MODULE MCBsonReader ----------------------------
(* An 8 byte buffer on every stream of MCStreams. *)
EXTENDS BsonReader, MCStreams

=============================================================================
