------------------------------ MODULE BsonJson ------------------------------
(***************************************************************************)
(* The JSON reader over texts the printers of BsonAsJson wrote, and over   *)
(* texts nobody ought to have written.                                     *)
(***************************************************************************)
EXTENDS BsonJsonReader, BsonAsJson
LOCAL INSTANCE SequencesExt

CONSTANT Writings    \* what was printed: a mode and the documents, one after the other

TextOf(w) == FlattenSeq([i \in DOMAIN w.docs |-> _bson_as_json_visit_all(w.docs[i], w.mode)[1]])

(***************************************************************************)
(* What the JSON of a document still tells.  The canonical form tells      *)
(* everything; the others leave the width of an integer to its size, and   *)
(* the legacy form has neither symbols nor pointers.                       *)
(***************************************************************************)
Sized(x) == <<IF x \in -(Int32Max + 1)..Int32Max THEN "int32" ELSE "int64", x>>

RECURSIVE Told(_, _), ToldAll(_, _)
ToldAll(elems, mode) == [i \in DOMAIN elems |-> <<elems[i][1], Told(elems[i][2], mode)>>]
Told(v, mode) ==
    CASE v[1] \in {"document", "array"} -> <<v[1], ToldAll(v[2], mode)>>
      [] v[1] = "codewscope" -> <<v[1], v[2], ToldAll(v[3], mode)>>
      [] v[1] = "regex" -> <<v[1], v[2], Sorted(v[3])>>
      [] v[1] \in {"int32", "int64"} /\ mode # "CANONICAL" -> Sized(v[2])
      [] v[1] = "symbol" /\ mode = "LEGACY" -> <<"utf8", v[2]>>
      [] v[1] = "dbpointer" /\ mode = "LEGACY" ->
           <<"document", <<<<Dollar("ref"), <<"utf8", v[2]>>>>, <<Dollar("id"), <<"utf8", v[3]>>>>>>>>
      [] OTHER -> v

Expected(w) == [i \in DOMAIN w.docs |-> ToldAll(w.docs[i], w.mode)]

(***************************************************************************)
(* The outcome for a text that comes in one chunk.                         *)
(***************************************************************************)
RECURSIVE ReadWhole(_, _, _)
ReadWhole(r0, chunk, read) ==
    LET fresh == [r0 EXCEPT !.bson.n = -1, !.bson.read_state = "REGULAR", !.bson.error = "",
                            !.bson.stack[0].bson = <<>>]
        r == Feed(fresh, chunk)
        more == Append(read, r.bson.stack[0].bson)
        next == [r EXCEPT !.json = jsonsl_reset(@), !.should_reset = FALSE]
    IN CASE chunk = <<>> -> [docs |-> read, ret |-> 0]
         [] chunk # <<>> /\ (r.bson.error # "" \/ r.bson.read_state # "DONE") -> [docs |-> read, ret |-> -1]
         [] OTHER -> IF r.should_reset THEN ReadWhole(next, SubSeq(chunk, r.advance + 1, Len(chunk)), more)
                     ELSE [docs |-> more, ret |-> 0]

(***************************************************************************)
(* The reader beside what it ought to return.                              *)
(***************************************************************************)
VARIABLES told,     \* the documents the text was printed from, if it was printed
          whole     \* the outcome for the text in one chunk

JsonInit ==
    /\ Init
    /\ told = {Expected(w) : w \in {v \in Writings : TextOf(v) = text}}
    /\ whole = ReadWhole(bson_json_reader_new, text, <<>>)

JsonSpec == JsonInit /\ [][Next /\ UNCHANGED <<told, whole>>]_<<vars, told, whole>>

-----------------------------------------------------------------------------
(* Every string and word the handlers get is the text of the token, wherever *)
(* the chunks were cut (_get_json_text, and the accumulation in             *)
(* bson_json_reader_read).                                                  *)
TokensWhole ==
    \A i \in DOMAIN reader.tokens :
        LET t == reader.tokens[i]
        IN t.text = SubSeq(text, origin + t.begin + 1, origin + t.begin + Len(t.text))

(* The reader returns what was printed, document after document, all of it  *)
(* and nothing else, for every type of value in every form of extended JSON *)
(* (the handlers of bson_json_reader_t against the visitors of bson_as_json)*)
ReadsBack ==
    \A written \in told :
        /\ IsPrefix(docs, written)
        /\ pc = "idle" /\ ret = 0 => docs = written
        /\ pc = "idle" /\ ret = -1 => reader.bson.error = "callback"

(* How a text is cut into chunks changes neither the documents nor whether  *)
(* there is an error, for good texts and for bad ones.                      *)
ChunkingInvisible ==
    /\ IsPrefix(docs, whole.docs)
    /\ pc = "idle" /\ ret # 1 /\ reader.bson.error # "callback" => [docs |-> docs, ret |-> ret] = whole

(* The stack of open documents never fills up: STACK_PUSH_DOC and the like  *)
(* return without a word when it is full, so the limit of the tokenizer has *)
(* to stop a text before.                                                   *)
StackFits == reader.bson.n <= StackMax - 2
=============================================================================
