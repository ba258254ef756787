--------------------------- MODULE BsonDataReader ---------------------------
(***************************************************************************)
(* The reader of src/bson/bson-reader.c over memory                        *)
(* (bson_reader_new_from_data): the buffer is the stream itself and        *)
(* offset is the position of the next document.                            *)
(***************************************************************************)
EXTENDS Integers, Sequences

CONSTANT Streams      \* the buffers a reader may be created on

VARIABLES stream,     \* reader->data, stream.size is reader->length
          offset,     \* reader->offset
          result,     \* what the last bson_reader_read returned
          reached_eof,
          delivered   \* history: the documents returned since the last reset

vars == <<stream, offset, result, reached_eof, delivered>>

Abstract == INSTANCE DocStream WITH faulty <- FALSE, open <- result # "null"

Init == /\ stream \in Streams
        /\ offset = 0 /\ result = "none" /\ reached_eof = FALSE
        /\ delivered = <<>>

(* _bson_reader_data_read looks for a length only when a fifth byte is     *)
(* there.                                                                  *)
HasLength == offset + 4 < stream.size

Blen == stream.hdr[offset]

(* bson_init_static's conditions, and that the document is all there.      *)
Acceptable_AnyEnd == Blen >= 5 /\ Blen <= stream.size - offset
Acceptable == /\ Blen >= 5
              /\ Blen <= stream.size - offset
              /\ stream.nul[offset + Blen - 1]

Deliver ==
    /\ HasLength /\ Acceptable
    /\ delivered' = Append(delivered,
                           [at |-> offset, size |-> Blen, intact |-> TRUE])
    /\ offset' = offset + Blen
    /\ result' = "doc" /\ reached_eof' = FALSE
    /\ UNCHANGED stream

Reject ==
    /\ HasLength /\ ~Acceptable
    /\ result' = "null" /\ reached_eof' = FALSE
    /\ UNCHANGED <<stream, offset, delivered>>

Exhausted ==
    /\ ~HasLength
    /\ result' = "null" /\ reached_eof' = (offset = stream.size)
    /\ UNCHANGED <<stream, offset, delivered>>

Read == Deliver \/ Reject \/ Exhausted

(* bson_reader_reset: the documents are read again from the first.         *)
Reset_NotRewound == /\ delivered' = <<>> /\ result' = "none"
                    /\ UNCHANGED <<stream, offset, reached_eof>>

Reset == /\ offset' = 0
         /\ delivered' = <<>> /\ result' = "none"
         /\ UNCHANGED <<stream, reached_eof>>

Next == Read \/ Reset

Spec == Init /\ [][Next]_vars

=============================================================================
