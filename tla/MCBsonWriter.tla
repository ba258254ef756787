---------------------------- MODULE MCBsonWriter ----------------------------
(* Buffers of the caller that are empty, too small, just large enough for  *)
(* an empty document; some cannot grow.                                    *)
EXTENDS BsonWriter

MCElements == {[id |-> "a", n_bytes |-> 4, size |-> 4],
               [id |-> "b", n_bytes |-> 9, size |-> 9]}

MCBuffers == {[buflen |-> 0, offset |-> 0, realloc |-> TRUE],
              [buflen |-> 7, offset |-> 2, realloc |-> TRUE],
              [buflen |-> 20, offset |-> 1, realloc |-> FALSE]}

=============================================================================
