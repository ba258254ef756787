----------------------------- MODULE BsonWriter -----------------------------
(***************************************************************************)
(* src/bson/bson-writer.c: documents written one after the other into a    *)
(* buffer of the caller's.  The document being written is a bson_t inside  *)
(* the writer, stack[1] of BsonDocument, that starts at the writer's       *)
(* offset; the caller builds it with the append functions and then ends it *)
(* or rolls it back.                                                       *)
(***************************************************************************)
EXTENDS BsonDocument

CONSTANTS FirstBuffer,  \* what bson_writer_begin makes of a buffer of 0 (64)
          Buffers,      \* the caller's: [buflen, offset, realloc]
          MaxBuffer     \* bound: no document is begun past this offset, which
                        \* is one that PowersOfTwo reach

ASSUME WriterAssumption ==
    /\ FirstBuffer \in Nat \ {0}
    /\ MaxBuffer \in Nat /\ MaxBuffer <= 1073741824
    /\ \A b \in Buffers : /\ b.buflen \in Nat /\ b.realloc \in BOOLEAN
                          /\ b.offset \in 0 .. b.buflen

VARIABLES
    writer,     \* "none" or "open"
    ready,      \* writer->ready
    offset,     \* writer->offset
    finished    \* history: the documents ended, [at, len, body]

wvars == <<writer, ready, offset, finished>>
allvars == <<vars, wvars>>

(* What the caller's buffer holds before the writer's first document.      *)
CallerByte == <<"caller">>

bson_writer_new(b) ==
    /\ writer = "none"
    /\ writer' = "open" /\ ready' = TRUE /\ offset' = b.offset
    /\ buflen' = b.buflen /\ realloc' = b.realloc
    /\ buf' = [i \in 0 .. b.buflen - 1 |-> IF i < b.offset THEN CallerByte
                                                           ELSE Junk]
    /\ UNCHANGED <<stack, ret, touched, elements, finished>>

(* The length a buffer of l bytes is doubled to until it holds n.          *)
Doubled(l, n) ==
    LET first   == IF l = 0 THEN FirstBuffer ELSE l
        lengths == {p * first : p \in {q \in PowersOfTwo : q <= 2 * n}}
    IN  IF n <= l THEN l
        ELSE CHOOSE m \in lengths : m >= n /\ \A k \in lengths : k >= n => k >= m

(* memset(buf + offset + 1, 0, 5) writes one byte more than the document,  *)
(* which is outside the buffer when the document only just fits.           *)
BegunBuf(b, at) == Copied(b, at, EmptyDoc \o <<Nul>>)

(* The variant forgets where the writer is.                                *)
BegunDocument_AtStart == [flags |-> {"STATIC", "NO_FREE"}, len |-> 5,
                          offset |-> 0, depth |-> 0]
BegunDocument == [flags |-> {"STATIC", "NO_FREE"}, len |-> 5, offset |-> offset,
                  depth |-> 0]

bson_writer_begin ==
    /\ writer = "open" /\ ready /\ offset + 5 <= MaxBuffer
    /\ \/ /\ offset + 5 > buflen /\ ~realloc
          /\ Refuse
          /\ UNCHANGED wvars
       \/ /\ offset + 5 <= buflen \/ realloc
          /\ LET l == Doubled(buflen, offset + 5)
                 b == IF l = buflen THEN buf ELSE Resized(buf, buflen, l)
             IN  buflen' = l /\ buf' = BegunBuf(b, offset)
          /\ stack' = <<BegunDocument>>
          /\ elements' = <<[key |-> 0, body |-> <<>>]>>
          /\ ret' = TRUE /\ ready' = FALSE /\ touched' = offset + 6
          /\ UNCHANGED <<realloc, writer, offset, finished>>

(* bson_writer_end, of a document none of whose subdocuments is open.      *)
AfterDocument(d) == offset + d.len

bson_writer_end ==
    /\ writer = "open" /\ ~ready /\ Top = 1
    /\ offset' = AfterDocument(stack[1]) /\ ready' = TRUE
    /\ stack' = <<>> /\ elements' = <<>>
    /\ finished' = Append(finished, [at |-> offset, len |-> stack[1].len,
                                     body |-> elements[1].body])
    /\ UNCHANGED <<buf, buflen, realloc, ret, touched, writer>>

(* bson_writer_rollback, at any time: the document and the subdocuments    *)
(* open in it are given up, the buffer keeps what they wrote.  The variant *)
(* moves on as if the document had been ended.                             *)
AfterRollback_Moved == offset + stack[1].len
AfterRollback == offset

bson_writer_rollback ==
    /\ writer = "open"
    /\ offset' = IF stack = <<>> THEN offset ELSE AfterRollback
    /\ ready' = TRUE /\ stack' = <<>> /\ elements' = <<>>
    /\ UNCHANGED <<buf, buflen, realloc, ret, touched, writer, finished>>

(* bson_writer_destroy, after which the caller frees the buffer.           *)
bson_writer_destroy ==
    /\ writer = "open" /\ ready
    /\ writer' = "none" /\ ready' = FALSE /\ offset' = 0 /\ finished' = <<>>
    /\ buf' = <<>> /\ buflen' = 0 /\ touched' = 0 /\ realloc' = TRUE /\ ret' = TRUE
    /\ UNCHANGED <<stack, elements>>

-----------------------------------------------------------------------------
WriterInit ==
    /\ Init
    /\ writer = "none" /\ ready = FALSE /\ offset = 0 /\ finished = <<>>

Write == Build \/ bson_reinit \/ \E e \in Elements : bson_reserve_buffer(e)

WriterNext == \/ \E b \in Buffers : bson_writer_new(b)
              \/ bson_writer_begin
              \/ Write /\ UNCHANGED wvars
              \/ bson_writer_end
              \/ bson_writer_rollback
              \/ bson_writer_destroy

WriterSpec == WriterInit /\ [][WriterNext]_allvars

-----------------------------------------------------------------------------
(* The append functions keep to the buffer, whoever gave it and whether or *)
(* not it can grow.                                                        *)
AppendsFit ==
    [][Write /\ touched' # touched /\ UNCHANGED wvars => touched' <= buflen']_allvars

(* Nothing the writer does changes a byte in front of its offset, which    *)
(* never goes back: what the caller's buffer held before the offset given  *)
(* to bson_writer_new, and the documents ended, stay as they are through   *)
(* every begin, append, doubling and realloc of the buffer, and rollback.  *)
FinishedKept ==
    [][writer = "open" /\ writer' = "open" =>
          /\ offset <= offset'
          /\ \A i \in DOMAIN buf : i < offset => i \in DOMAIN buf' /\ buf'[i] = buf[i]]_allvars

(* The documents ended lie one behind the other up to the writer's offset, *)
(* inside the buffer, and nothing that was rolled back lies in between.    *)
FinishedAdjacent ==
    \A i \in DOMAIN finished :
        /\ finished[i].at + finished[i].len =
              IF i < Len(finished) THEN finished[i + 1].at ELSE offset
        /\ finished[i].at + finished[i].len <= buflen

(* Each of the documents ended is encoded element by element: no begin,    *)
(* append, growth or rollback after it touched it.                         *)
FinishedEncode ==
    \A i \in DOMAIN finished :
        Cells(finished[i].at, finished[i].len) = Encoded(finished[i].body)

(* The documentation of bson_writer_begin: true if there was space in the  *)
(* underlying buffer to begin the document.  (The last of the bytes it     *)
(* clears need not be in the buffer.)                                      *)
BeginHasSpace ==
    [][bson_writer_begin /\ ret' => touched' <= buflen']_allvars

=============================================================================
