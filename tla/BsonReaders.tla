---------------------------- MODULE BsonReaders -----------------------------
(***************************************************************************)
(* A handle reader and a data reader of src/bson/bson-reader.c over the    *)
(* same bytes: the two constructors give readers that return the same      *)
(* documents.                                                              *)
(***************************************************************************)
EXTENDS BsonReader

VARIABLES d_offset, d_result, d_reached_eof, d_delivered

data_reader == <<d_offset, d_result, d_reached_eof, d_delivered>>

Memory == INSTANCE BsonDataReader
             WITH offset <- d_offset, result <- d_result,
                  reached_eof <- d_reached_eof, delivered <- d_delivered

BothInit == Init /\ Memory!Init

BothNext == \/ Next /\ UNCHANGED data_reader
            \/ Memory!Next /\ UNCHANGED <<src, ioError, handle, caller>>

\* The caller of the handle reader comes back from a call it has made.
BothSpec == /\ BothInit /\ [][BothNext]_<<vars, data_reader>>
            /\ WF_vars(Progress /\ UNCHANGED data_reader)

-----------------------------------------------------------------------------
(* Without a read error the two readers return the same documents in the   *)
(* same order; when both are at the end neither returned more.             *)
SameDocuments ==
    /\ \A k \in 1 .. Len(delivered) :
          k <= Len(d_delivered) => delivered[k] = d_delivered[k]
    /\ result = "null" /\ d_result = "null" /\ ~ioError
          => delivered = d_delivered

(* The data reader reports the end of the sequence only where the handle   *)
(* reader does.                                                            *)
SameEnd ==
    /\ pc = "idle" /\ result = "null" /\ ~ioError
    /\ d_result = "null" /\ d_reached_eof
    => reached_eof

(* Both: what a caller sees does not depend on the kind of reader.         *)
ReadersAgree == SameDocuments /\ SameEnd

(* Between two resets, the data reader implements the document stream:     *)
(* each document starts where the last one ended, the first at 0.          *)
MemoryImplementsDocStream ==
    [][d_result' # "none" =>
          [Memory!Abstract!Next]_<<stream, d_delivered, d_result # "null">>
      ]_<<vars, data_reader>>

=============================================================================
