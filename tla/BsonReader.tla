----------------------------- MODULE BsonReader -----------------------------
(***************************************************************************)
(* The streaming reader of src/bson/bson-reader.c over a read callback     *)
(* (bson_reader_new_from_handle, _from_fd, _from_file).                    *)
(*                                                                         *)
(* The stream behind the handle is a sequence of bytes.  A byte is told    *)
(* from another by its position in the stream, so the reader's buffer is a *)
(* function from buffer indices to stream positions; what the bytes say is *)
(* kept beside it: stream.hdr[p] is the little-endian int32 that starts at *)
(* position p and stream.nul[p] holds when the byte at p is zero.          *)
(*                                                                         *)
(* One step of the model is one iteration of the loop of                   *)
(* _bson_reader_handle_read, the read callback it may make included.       *)
(***************************************************************************)
EXTENDS Integers, Sequences

CONSTANTS InitLen,   \* bytes bson_reader_new_from_handle allocates (1024)
          Streams    \* the streams a handle may be opened on

(***************************************************************************)
(* The initial buffer holds the four bytes of a length prefix.             *)
(***************************************************************************)
ASSUME InitLenAssumption == InitLen \in Nat /\ InitLen >= 4

VARIABLES
    stream,       \* the bytes behind the handle
    src,          \* how many of them the callback has handed out
    ioError,      \* whether the callback ever returned -1
    data, len,    \* reader->data, a buffer of reader->len bytes
    end,          \* data[offset .. end-1] are the unread bytes
    offset,
    bytes_read,
    done, failed,
    pc,           \* "new", "idle", "loop" (in bson_reader_read), "destroyed"
    result,       \* what the last bson_reader_read returned
    reached_eof,  \* its out parameter
    delivered     \* history: the documents returned, in order

env     == <<stream, src, ioError>>
handle  == <<data, len, end, offset, bytes_read, done, failed>>
caller  == <<pc, result, reached_eof, delivered>>
vars    == <<env, handle, caller>>

Abstract == INSTANCE DocStream WITH faulty <- ioError, open <- result # "null"

ASSUME StreamsAssumption == \A s \in Streams : Abstract!IsStream(s)

Junk == -1     \* a byte of the buffer no read has written

-----------------------------------------------------------------------------
(* The read callback: up to count bytes, 0 at the end of the stream (and   *)
(* for a count of 0, as read(2)), -1 on an error, which may happen at any  *)
(* call.                                                                   *)

Returns(count) ==
    {-1} \cup IF count = 0 \/ src = stream.size
              THEN {0}
              ELSE {n \in 1 .. count : n <= stream.size - src}

(* d after the callback wrote its ret bytes at index at.                   *)
Received(d, at, ret) ==
    [i \in DOMAIN d |-> IF at <= i /\ i < at + ret THEN src + (i - at)
                                                   ELSE d[i]]

CallbackReturned(ret) ==
    /\ src' = IF ret > 0 THEN src + ret ELSE src
    /\ ioError' = (ioError \/ ret < 0)
    /\ UNCHANGED stream

-----------------------------------------------------------------------------
(* _bson_reader_handle_fill_buffer, on the buffer d of l bytes: the very   *)
(* first read is special and does not look at the sign of an error.        *)

FirstRead == ~done /\ offset = 0 /\ end = 0

FillFirst(d, l) ==
    \E ret \in Returns(l) :
        /\ CallbackReturned(ret)
        /\ data' = Received(d, 0, ret)
        /\ bytes_read' = IF ret > 0 THEN bytes_read + ret ELSE bytes_read
        /\ end' = IF ret > 0 THEN ret ELSE end
        /\ done' = (done \/ ret <= 0)
        /\ UNCHANGED <<offset, failed>>

(* memmove of the unread bytes to the head of the buffer.                  *)
Moved(d) ==
    [i \in DOMAIN d |-> IF i < end - offset THEN d[offset + i] ELSE d[i]]

(* Variants: the offset is kept, a failed read is not noted, the end of    *)
(* the stream is not noted.                                                *)
FillAgain_OffsetKept(d, l) ==
    LET kept == end - offset IN
    \E ret \in Returns(l - kept) :
        /\ CallbackReturned(ret)
        /\ data' = Received(Moved(d), kept, ret)
        /\ end' = IF ret > 0 THEN kept + ret ELSE kept
        /\ bytes_read' = IF ret > 0 THEN bytes_read + ret ELSE bytes_read
        /\ done' = (done \/ ret <= 0) /\ failed' = (ret < 0)
        /\ UNCHANGED offset

FillAgain_FailureLost(d, l) ==
    LET kept == end - offset IN
    \E ret \in Returns(l - kept) :
        /\ CallbackReturned(ret)
        /\ data' = Received(Moved(d), kept, ret)
        /\ offset' = 0
        /\ end' = IF ret > 0 THEN kept + ret ELSE kept
        /\ bytes_read' = IF ret > 0 THEN bytes_read + ret ELSE bytes_read
        /\ done' = (done \/ ret <= 0) /\ failed' = FALSE

FillAgain_EndLost(d, l) ==
    LET kept == end - offset IN
    \E ret \in Returns(l - kept) :
        /\ CallbackReturned(ret)
        /\ data' = Received(Moved(d), kept, ret)
        /\ offset' = 0
        /\ end' = IF ret > 0 THEN kept + ret ELSE kept
        /\ bytes_read' = IF ret > 0 THEN bytes_read + ret ELSE bytes_read
        /\ done' = (done \/ ret < 0) /\ failed' = (ret < 0)

FillAgain(d, l) ==
    LET kept == end - offset IN
    \E ret \in Returns(l - kept) :
        /\ CallbackReturned(ret)
        /\ data' = Received(Moved(d), kept, ret)
        /\ offset' = 0
        /\ end' = IF ret > 0 THEN kept + ret ELSE kept
        /\ bytes_read' = IF ret > 0 THEN bytes_read + ret ELSE bytes_read
        /\ done' = (done \/ ret <= 0)
        /\ failed' = (ret < 0 \/ (failed /\ ret > 0))

FillBuffer(d, l) ==
    /\ len' = l
    /\ \/ FirstRead /\ FillFirst(d, l)
       \/ ~FirstRead /\ FillAgain(d, l)

(* _bson_reader_handle_grow_buffer: realloc to twice the size.             *)
GrownLen == len * 2
Grown    == [i \in 0 .. GrownLen - 1 |-> IF i < len THEN data[i] ELSE Junk]

-----------------------------------------------------------------------------
(* _bson_reader_handle_tell.                                               *)
Tell == bytes_read - end + offset

Unread == end - offset

(* The n bytes at the read point are consecutive bytes of the stream.      *)
Consecutive(n) ==
    /\ data[offset] # Junk
    /\ \A i \in 1 .. n - 1 : data[offset + i] = data[offset] + i

(* memcpy (&blen, &data[offset], 4): the length prefix at the read point.  *)
(* Four bytes that are not consecutive in the stream make no length.       *)
Blen == IF Consecutive(4)
        THEN stream.hdr[data[offset]]
        ELSE 0

(* bson_init_static: the last byte of the document has to be zero.         *)
TrailingNul_Unchecked == TRUE
TrailingNul == LET p == data[offset + Blen - 1]
               IN  p # Junk /\ stream.nul[p]

-----------------------------------------------------------------------------
Init == /\ stream \in Streams
        /\ src = 0 /\ ioError = FALSE
        /\ data = [i \in 0 .. InitLen - 1 |-> Junk]
        /\ len = InitLen /\ end = 0 /\ offset = 0 /\ bytes_read = 0
        /\ done = FALSE /\ failed = FALSE
        /\ pc = "new" /\ result = "none" /\ reached_eof = FALSE
        /\ delivered = <<>>

(* bson_reader_new_from_handle fills the buffer before it returns.         *)
NewFromHandle ==
    /\ pc = "new"
    /\ pc' = "idle"
    /\ FillBuffer(data, len)
    /\ UNCHANGED <<result, reached_eof, delivered>>

(* bson_reader_read enters _bson_reader_handle_read.                       *)
Call == /\ pc = "idle"
        /\ pc' = "loop"
        /\ reached_eof' = FALSE
        /\ UNCHANGED <<env, handle, result, delivered>>

InLoop == pc = "loop" /\ ~done

(* Fewer than four unread bytes: read more.                                *)
FillForLength ==
    /\ InLoop
    /\ Unread < 4
    /\ FillBuffer(data, len)
    /\ UNCHANGED caller

(* A length no document has.                                               *)
RejectLength ==
    /\ InLoop /\ Unread >= 4
    /\ Blen < 5
    /\ pc' = "idle" /\ result' = "null"
    /\ UNCHANGED <<env, handle, reached_eof, delivered>>

(* The document is not all there: grow once if it cannot fit, read more.   *)
(* The variant grows without need.                                         *)
FillForDocument_AlwaysGrows ==
    /\ InLoop /\ Unread >= 4
    /\ Blen >= 5 /\ Blen > Unread
    /\ FillBuffer(Grown, GrownLen)
    /\ UNCHANGED caller

FillForDocument ==
    /\ InLoop /\ Unread >= 4
    /\ Blen >= 5 /\ Blen > Unread
    /\ IF Blen > len THEN FillBuffer(Grown, GrownLen) ELSE FillBuffer(data, len)
    /\ UNCHANGED caller

(* Without a NUL at its end the document is refused and stays where it is. *)
RejectDocument ==
    /\ InLoop /\ Unread >= 4
    /\ Blen >= 5 /\ Blen <= Unread
    /\ ~TrailingNul
    /\ pc' = "idle" /\ result' = "null"
    /\ UNCHANGED <<env, handle, reached_eof, delivered>>

(* The document is handed out where it lies in the buffer.  The variant    *)
(* leaves its last byte to be read again.                                  *)
Deliver_NulKept ==
    /\ InLoop /\ Unread >= 4
    /\ Blen >= 5 /\ Blen <= Unread
    /\ TrailingNul
    /\ delivered' = Append(delivered, [at |-> data[offset], size |-> Blen,
                                      intact |-> Consecutive(Blen)])
    /\ offset' = offset + Blen - 1
    /\ pc' = "idle" /\ result' = "doc"
    /\ UNCHANGED <<env, data, len, end, bytes_read, done, failed, reached_eof>>

Deliver ==
    /\ InLoop /\ Unread >= 4
    /\ Blen >= 5 /\ Blen <= Unread
    /\ TrailingNul
    /\ delivered' = Append(delivered, [at |-> data[offset], size |-> Blen,
                                      intact |-> Consecutive(Blen)])
    /\ offset' = offset + Blen
    /\ pc' = "idle" /\ result' = "doc"
    /\ UNCHANGED <<env, data, len, end, bytes_read, done, failed, reached_eof>>

(* The loop's exit: the end of the stream, or a failed read.               *)
Exhausted ==
    /\ pc = "loop" /\ done
    /\ reached_eof' = (done /\ ~failed)
    /\ pc' = "idle" /\ result' = "null"
    /\ UNCHANGED <<env, handle, delivered>>

Destroy ==
    /\ pc = "idle"
    /\ pc' = "destroyed"
    /\ UNCHANGED <<env, handle, result, reached_eof, delivered>>

Iterate == FillForLength \/ RejectLength \/ FillForDocument
              \/ RejectDocument \/ Deliver \/ Exhausted

Next == NewFromHandle \/ Call \/ Iterate \/ Destroy

(* The loop of a call that was entered runs on: nothing blocks it but the  *)
(* callback, which returns; it need not fail for the loop to end.  Nobody  *)
(* has to call again.                                                      *)
Progress == Iterate /\ ioError' = ioError

Spec == Init /\ [][Next]_vars /\ WF_vars(Progress)

-----------------------------------------------------------------------------
(* The type invariant: what each field of the reader may hold, and that    *)
(* the read window lies in the buffer.                                     *)
TypeOK ==
    /\ stream \in Streams
    /\ src \in 0 .. stream.size /\ ioError \in BOOLEAN
    /\ len \in Nat /\ len >= InitLen
    /\ data \in [0 .. len - 1 -> {Junk} \cup (0 .. stream.size)]
    /\ end \in 0 .. len /\ offset \in 0 .. end
    /\ bytes_read \in Nat /\ bytes_read >= end
    /\ done \in BOOLEAN /\ failed \in BOOLEAN
    /\ pc \in {"new", "idle", "loop", "destroyed"}
    /\ result \in {"none", "doc", "null"} /\ reached_eof \in BOOLEAN
    /\ delivered \in Seq(Abstract!DocType)

(* The unread bytes of the buffer are the stream's next bytes, in order:   *)
(* moving, growing and refilling the buffer neither loses, repeats nor     *)
(* reorders a byte of the stream.                                          *)
BufferIsWindow ==
    /\ Tell + Unread = src
    /\ \A i \in 0 .. Unread - 1 : data[offset + i] = Tell + i

(* Every document handed out is a run of bytes that is well formed in the  *)
(* stream, it begins where the one before it ended, the first one at 0,    *)
(* and bson_reader_tell is where the last one ended ("always at the        *)
(* beginning of a bson document or end of file").                          *)
DeliveredInOrder ==
    /\ \A k \in 1 .. Len(delivered) :
          /\ delivered[k].intact
          /\ delivered[k].at = Abstract!EndOf(k - 1)
          /\ Abstract!WholeDocumentAt(delivered[k].at)
          /\ delivered[k].size = stream.hdr[delivered[k].at]
    /\ Tell = Abstract!Position

(* When the callback never failed, a call returns NULL only where no whole *)
(* well-formed document follows: no document of the stream is skipped, and *)
(* a short read is never taken for the end of the stream.                  *)
NullMeansNoDocument ==
    result = "null" /\ ~ioError => ~Abstract!WholeDocumentAt(Tell)

(* reached_eof is set only when the stream is at its end and no read       *)
(* failed, once the first read has brought bytes.                          *)
EofIsEndOfStream ==
    result = "null" /\ reached_eof /\ src > 0 => src = stream.size /\ ~ioError

(* What bson_reader_read says of reached_eof: a NULL after a failed read   *)
(* comes with reached_eof false.                                           *)
ReadErrorIsNotEof ==
    pc = "idle" /\ result = "null" /\ ioError => ~reached_eof

(* The buffer grows to less than twice the longest document asked of it.   *)
BufferBounded ==
    len = InitLen \/ \E p \in 0 .. stream.size : len < 2 * stream.hdr[p]

(* A NULL is final: once a call returned NULL, for whichever reason, no    *)
(* later call of the same reader returns a document.                       *)
NullIsFinal == [][result = "null" => result' = "null"]_vars

(* A call of bson_reader_read returns, however the callback cuts the       *)
(* stream.                                                                 *)
CallReturns == (pc = "loop") ~> (pc = "idle")

(* The handle reader implements the document stream.                       *)
ImplementsDocStream == Abstract!Spec

=============================================================================
