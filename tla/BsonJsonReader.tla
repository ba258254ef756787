--------------------------- MODULE BsonJsonReader ---------------------------
(***************************************************************************)
(* bson_json_reader_t (src/src/bson/bson-json.c): documents read one after *)
(* the other from a text that a callback hands over in chunks.  A chunk is *)
(* fed to the tokenizer of Jsonsl, whose callbacks drive the handlers of   *)
(* BsonJsonDocument.  A token may span chunks: its first part is kept in   *)
(* tok_accumulator.  A document ends with the text or where the next "{"   *)
(* cannot be inserted: the tokenizer is then reset and the rest of the     *)
(* chunk, from that "{", is kept for the next call.                        *)
(*                                                                         *)
(* The tokenizer keeps positions in the document, the chunk is known by    *)
(* offsets in itself: start_pos, json_text_pos and advance relate the two. *)
(***************************************************************************)
EXTENDS BsonJsonDocument

CONSTANTS Texts,       \* the texts a reader may be given
          ReadSizes    \* what a callback may return, the rest of the text at most

VARIABLES
    text,        \* the whole text
    sent,        \* how much of it the callback has handed over
    buf,         \* producer.buf, as far as bytes_read says it is unread
    reader,      \* the tokenizer, the document, and what spans chunks
    pc,          \* "idle", or inside bson_json_reader_read
    ret,         \* its ret; the returned value when idle
    docs,        \* the documents returned so far
    origin       \* where in the text the tokenizer was last reset (history)

vars == <<text, sent, buf, reader, pc, ret, docs, origin>>

\* `tokens' is history: each string and word handed to a handler, with its place.
bson_json_reader_new ==
    [json |-> jsonsl_new, bson |-> Bson0, json_text_pos |-> -1, tok_accumulator |-> <<>>,
     should_reset |-> FALSE, advance |-> 0, tokens |-> <<>>]

(***************************************************************************)
(* The callbacks of the tokenizer, at offset `at' of the chunk.            *)
(***************************************************************************)
Tell(r, b) == [r EXCEPT !.bson = b]

_push_callback(r, ev) ==
    CASE ev.type \in {"string", "hkey", "special"} -> [r EXCEPT !.json_text_pos = ev.begin]
      [] ev.type = "object" -> Tell(r, _bson_json_read_start_map(r.bson))
      [] ev.type = "list" -> Tell(r, _bson_json_read_start_array(r.bson))

\* The text of the token that ends: in the chunk if all of it is there,
\* otherwise what was put by and the beginning of the chunk.
_get_json_text(r, ev, chunk, at) ==
    LET len == ev.cur - ev.begin
        kept == r.tok_accumulator \o SubSeq(chunk, 1, at)
    IN IF len <= at THEN SubSeq(chunk, at - len + 1, at)
       ELSE [i \in 1..len |-> IF i <= Len(kept) THEN kept[i] ELSE "?"]

StringRead(r, type, token) ==
    LET u == jsonsl_util_unescape(Tail(token)) IN
    CASE ~u.ok -> [r EXCEPT !.bson.error = "corrupt", !.bson.stop = TRUE]
      [] u.ok /\ type = "hkey" -> Tell(r, _bson_json_read_map_key(r.bson, u.out))
      [] u.ok /\ type = "string" -> Tell(r, _bson_json_read_string(r.bson, u.out))

\* A word that is no number and none of true, false and null is passed over.
WordRead(r, ev, token) ==
    CASE ev.flags \cap {"FLOAT", "EXPONENT", "NAN", "INF"} # {} -> Tell(r, _bson_json_read_double(r.bson, token))
      [] ev.flags \cap {"FLOAT", "EXPONENT", "NAN", "INF"} = {} /\ ev.flags \cap {"SIGNED", "UNSIGNED"} # {} ->
           Tell(r, _bson_json_read_integer(r.bson, ev.nelem, IF "SIGNED" \in ev.flags THEN -1 ELSE 1))
      [] ev.flags \cap {"TRUE", "FALSE"} # {} -> Tell(r, _bson_json_read_boolean(r.bson, token[1] = "t"))
      [] ev.flags = {"NULL"} -> Tell(r, _bson_json_read_null(r.bson))
      [] OTHER -> r

_pop_callback(r, ev, chunk, at) ==
    LET token == _get_json_text(r, ev, chunk, at)
        seen == [r EXCEPT !.tokens = Append(@, [begin |-> ev.begin, text |-> token])]
        done == CASE ev.type = "object" -> Tell(r, _bson_json_read_end_map(r.bson))
                  [] ev.type = "list" -> Tell(r, _bson_json_read_end_array(r.bson))
                  [] ev.type = "special" -> WordRead(seen, ev, token)
                  [] OTHER -> StringRead(seen, ev.type, token)
    IN [done EXCEPT !.json_text_pos = -1, !.tok_accumulator = <<>>]

_error_callback(r, ev, at) ==
    IF ev.err = "CANT_INSERT" /\ ev.at = "{" THEN [r EXCEPT !.should_reset = TRUE, !.advance = at]
    ELSE [r EXCEPT !.bson.error = "corrupt"]

Callback(r, ev, chunk, at) ==
    CASE r.bson.stop -> r      \* jsonsl_stop
      [] ~r.bson.stop /\ ev.act = "push" -> _push_callback(r, ev)
      [] ~r.bson.stop /\ ev.act = "pop" -> _pop_callback(r, ev, chunk, at)
      [] ~r.bson.stop /\ ev.act = "error" -> _error_callback(r, ev, at)

RECURSIVE Callbacks(_, _, _, _), FeedFrom(_, _, _)
Callbacks(r, events, chunk, at) ==
    IF events = <<>> THEN r ELSE Callbacks(Callback(r, Head(events), chunk, at), Tail(events), chunk, at)

\* jsonsl_feed with its callbacks, up to an error or a stop.
FeedFrom(r, chunk, at) ==
    IF at = Len(chunk) \/ r.json.failed \/ r.bson.stop THEN r
    ELSE LET t == jsonsl_feed(r.json, chunk[at + 1])
         IN FeedFrom(Callbacks([r EXCEPT !.json = t], t.out, chunk, at), chunk, at + 1)

Feed(r, chunk) == FeedFrom(r, chunk, 0)

AtLeast0(x) == IF x >= 0 THEN x ELSE 0
Lesser(x, y) == IF x <= y THEN x ELSE y

\* The chunk is put by from its beginning.
Accumulated_NoOffset(r, start_pos, chunk) ==
    LET accum == Lesser(r.json.pos - r.json_text_pos, Len(chunk))
    IN IF r.json_text_pos = -1 \/ r.json_text_pos >= r.json.pos THEN r
       ELSE [r EXCEPT !.tok_accumulator = @ \o SubSeq(chunk, 1, accum)]

\* The part of an unfinished token that is in the chunk is put by.
Accumulated(r, start_pos, chunk) ==
    LET offset == AtLeast0(r.json_text_pos - start_pos)
        accum == Lesser(r.json.pos - r.json_text_pos, Len(chunk))
    IN IF r.json_text_pos = -1 \/ r.json_text_pos >= r.json.pos THEN r
       ELSE [r EXCEPT !.tok_accumulator = @ \o SubSeq(chunk, offset + 1, offset + accum)]

-----------------------------------------------------------------------------
Init ==
    /\ text \in Texts
    /\ sent = 0 /\ buf = <<>> /\ docs = <<>> /\ origin = 0
    /\ reader = bson_json_reader_new
    /\ pc = "idle" /\ ret = 1

\* bson_json_reader_read is called until it returns 0 or -1, with a new bson_t.
Call ==
    /\ pc = "idle" /\ ret = 1
    /\ pc' = "reading" /\ ret' = 0
    /\ reader' = [reader EXCEPT !.bson.n = -1, !.bson.read_state = "REGULAR", !.bson.error = "",
                                !.bson.stop = FALSE, !.bson.stack[0].bson = <<>>]
    /\ UNCHANGED <<text, sent, buf, docs, origin>>

\* The label cleanup.  r is the reader, value its ret.
Return(r, value) ==
    LET complete == r.bson.read_state = "DONE" IN
    /\ pc' = "idle"
    /\ reader' = IF value = 1 /\ ~complete THEN Tell(r, _bson_json_read_corrupt(r.bson)) ELSE r
    /\ ret' = IF value = 1 /\ ~complete THEN -1 ELSE value
    /\ docs' = IF value = 1 /\ complete THEN Append(docs, r.bson.stack[0].bson) ELSE docs

\* The chunk is used up, and the loop goes on.
GoOn(r, chunk) ==
    /\ reader' = Accumulated(r, reader.json.pos, chunk)
    /\ buf' = <<>> /\ ret' = 1
    /\ UNCHANGED <<pc, docs, origin>>

\* The rest of the chunk is not kept.
NextDocument_RestLost(r, chunk) ==
    /\ buf' = <<>>
    /\ origin' = sent'
    /\ Return([r EXCEPT !.json = jsonsl_reset(@), !.should_reset = FALSE, !.tokens = <<>>], 1)

\* The next document begins in the chunk.
NextDocument(r, chunk) ==
    /\ buf' = SubSeq(chunk, r.advance + 1, Len(chunk))
    /\ origin' = sent' - Len(chunk) + r.advance
    /\ Return([r EXCEPT !.json = jsonsl_reset(@), !.should_reset = FALSE, !.tokens = <<>>], 1)

\* The chunk is fed, r is the reader afterwards.
Take(r, chunk) ==
    \/ r.should_reset /\ NextDocument(r, chunk)
    \/ ~r.should_reset /\ r.bson.error # "" /\ Return(r, -1) /\ buf' = chunk /\ UNCHANGED origin
    \/ ~r.should_reset /\ r.bson.error = "" /\ GoOn(r, chunk)

\* One turn of the loop with what the last document left of its chunk.
Leftover ==
    /\ pc = "reading" /\ buf # <<>>
    /\ sent' = sent
    /\ Take(Feed(reader, buf), buf)
    /\ UNCHANGED text

\* One turn with what the callback returns.
Receive ==
    /\ pc = "reading" /\ buf = <<>> /\ sent < Len(text)
    /\ \E k \in ReadSizes :
          \E chunk \in {SubSeq(text, sent + 1, Lesser(sent + k, Len(text)))} :
             sent' = sent + Len(chunk) /\ Take(Feed(reader, chunk), chunk)
    /\ UNCHANGED text

EndOfText ==
    /\ pc = "reading" /\ buf = <<>> /\ sent = Len(text)
    /\ Return(reader, ret)
    /\ UNCHANGED <<text, sent, buf, origin>>

CallbackFails ==
    /\ pc = "reading" /\ buf = <<>>
    /\ Return([reader EXCEPT !.bson.error = "callback"], -1)
    /\ UNCHANGED <<text, sent, buf, origin>>

Next == Call \/ Leftover \/ Receive \/ EndOfText \/ CallbackFails

Spec == Init /\ [][Next]_vars
=============================================================================
