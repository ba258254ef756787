----------------------------- MODULE BsonVisit ------------------------------
(***************************************************************************)
(* bson_iter_visit_all (src/src/bson/bson-iter.c) and bson_validate        *)
(* (src/src/bson/bson.c), which walks a document with visitors of its own. *)
(*                                                                         *)
(* A string is the sequence of its pieces, characters or runs of them;     *)
(* "<FF>" is a byte that is not UTF-8, "<C080>" the two byte form of NUL.  *)
(* A document is the sequence of its elements <<key, value>>, and a value  *)
(* a tuple that begins with the name of its type.  <<"unreadable">> is an  *)
(* element the iterator refuses.  <<"broken", code>> is a document, array  *)
(* or scope (of that code; otherwise it is empty) whose bytes              *)
(* bson_init_static refuses.                                               *)
(***************************************************************************)
LOCAL INSTANCE Integers
LOCAL INSTANCE Sequences
LOCAL INSTANCE SequencesExt

Word(s) == {s[i] : i \in DOMAIN s}
Dollar(name) == <<"$", name>>

bson_utf8_validate(w, allow_null) ==
    "<FF>" \notin Word(w) /\ (allow_null \/ Word(w) \cap {"<NUL>", "<C080>"} = {})

\* The strings bson_iter_visit_all looks at itself before it calls a visitor.
Checked(v) == IF v[1] \in {"utf8", "regex", "dbpointer", "code", "symbol", "codewscope", "broken"}
              THEN v[2] ELSE <<>>

Broken(v) == v[1] = "broken"

(***************************************************************************)
(* A walk: the iterator (the elements, how many it has passed, whether     *)
(* err_off is set), what the visitors keep, and what is returned.  A       *)
(* visitor answers with its data and whether to stop.                      *)
(***************************************************************************)
Walk(elems, data) == [elems |-> elems, at |-> 0, err |-> FALSE, data |-> data, halt |-> FALSE, stopped |-> FALSE]
Go(data) == [data |-> data, stop |-> FALSE]
Stop(data) == [data |-> data, stop |-> TRUE]

Stopped(w) == [w EXCEPT !.halt = TRUE, !.stopped = TRUE]

\* One turn of the loop.  An element that cannot be read ends the iterator.
VisitNext(w, before(_, _), visit(_, _)) ==
    LET e == w.elems[w.at + 1]
        next == [w EXCEPT !.at = @ + 1, !.err = FALSE]
        b == before(w.data, e)
        v == visit(b.data, e)
    IN CASE e[2][1] = "unreadable" -> [w EXCEPT !.at = Len(w.elems), !.err = TRUE, !.halt = TRUE]
         [] e[2][1] # "unreadable" /\ ~bson_utf8_validate(e[1], FALSE) ->
              [next EXCEPT !.err = TRUE, !.halt = TRUE]
         [] OTHER ->
              CASE b.stop -> Stopped([next EXCEPT !.data = b.data])
                [] ~b.stop /\ ~bson_utf8_validate(Checked(e[2]), TRUE) ->
                     Stopped([next EXCEPT !.data = b.data, !.err = TRUE])
                [] ~b.stop /\ bson_utf8_validate(Checked(e[2]), TRUE) /\ Broken(e[2]) ->
                     [next EXCEPT !.data = b.data]
                [] OTHER ->
                     IF v.stop THEN Stopped([next EXCEPT !.data = v.data])
                     ELSE [next EXCEPT !.data = v.data]

\* A visitor's stop returns at once; otherwise an error is reported to `corrupt'.
bson_iter_visit_all(w0, before(_, _), visit(_, _), corrupt(_)) ==
    LET start == [w0 EXCEPT !.halt = FALSE, !.stopped = FALSE]
        w == FoldLeft(LAMBDA s, i : IF s.halt THEN s ELSE VisitNext(s, before, visit),
                      start, [i \in 1..Len(w0.elems) - w0.at |-> i])
    IN IF ~w.stopped /\ w.err THEN [w EXCEPT !.data = corrupt(@)] ELSE w

(***************************************************************************)
(* bson_validate.  The state holds the flags, what is found (err: whether  *)
(* err_offset is set, and the flag blamed), and the phase: how far a       *)
(* subdocument is on the way to a DBRef, {"$ref", "$id", "$db", ...}.      *)
(***************************************************************************)
Flags == {"UTF8", "DOLLAR_KEYS", "DOT_KEYS", "UTF8_ALLOW_NULL", "EMPTY_KEYS"}

Refuse(s, code) == Stop([s EXCEPT !.err = TRUE, !.code = code])

\* A key may begin with $ only in its place in a DBRef.
DollarPhase(s, key) ==
    CASE s.phase = "LF_REF_KEY" /\ key = Dollar("ref") -> "LF_REF_UTF8"
      [] s.phase = "LF_ID_KEY" /\ key = Dollar("id") -> "LF_DB_KEY"
      [] s.phase = "LF_DB_KEY" /\ key = Dollar("db") -> "LF_DB_UTF8"
      [] OTHER -> "refused"

_bson_iter_validate_before(s, e) ==
    LET key == e[1]
        dollar == key # <<>> /\ key[1] = "$"
        phase == CASE "DOLLAR_KEYS" \notin s.flags -> s.phase
                   [] "DOLLAR_KEYS" \in s.flags /\ dollar -> DollarPhase(s, key)
                   [] OTHER -> IF s.phase \in {"LF_ID_KEY", "LF_REF_UTF8", "LF_DB_UTF8"}
                               THEN "refused" ELSE "NOT_DBREF"
    IN CASE "EMPTY_KEYS" \in s.flags /\ key = <<>> -> Refuse(s, "EMPTY_KEYS")
         [] ~("EMPTY_KEYS" \in s.flags /\ key = <<>>) /\ phase = "refused" -> Refuse(s, "DOLLAR_KEYS")
         [] OTHER -> IF "DOT_KEYS" \in s.flags /\ "." \in Word(key)
                     THEN Refuse([s EXCEPT !.phase = phase], "DOT_KEYS")
                     ELSE Go([s EXCEPT !.phase = phase])

_bson_iter_validate_utf8(s, w) ==
    IF "UTF8" \in s.flags /\ ~bson_utf8_validate(w, "UTF8_ALLOW_NULL" \in s.flags)
    THEN Refuse(s, "UTF8")
    ELSE Go([s EXCEPT !.phase = CASE s.phase = "LF_REF_UTF8" -> "LF_ID_KEY"
                                  [] s.phase = "LF_DB_UTF8" -> "NOT_DBREF"
                                  [] OTHER -> @])

_bson_iter_validate_corrupt(s) == [s EXCEPT !.err = TRUE, !.code = "NONE"]

Validation(flags) == [flags |-> flags, err |-> FALSE, code |-> "NONE", phase |-> "START"]

\* Back in the parent of a document walked to t: the phase is that of the
\* parent again.  The variant goes on with that of the document.
Ended_PhaseKept(s, t) ==
    IF t.phase \in {"LF_ID_KEY", "LF_REF_UTF8", "LF_DB_UTF8"} THEN Stop([t EXCEPT !.err = TRUE]) ELSE Go(t)

Ended(s, t) ==
    IF t.phase \in {"LF_ID_KEY", "LF_REF_UTF8", "LF_DB_UTF8"}
    THEN Stop([t EXCEPT !.err = TRUE])
    ELSE Go([t EXCEPT !.phase = s.phase])

RECURSIVE _bson_iter_validate_document(_, _), ValidateValue(_, _)

\* A code with scope asks bson_validate about its scope, which says "valid"
\* with true; to the walk true means "stop".  The variant lets the walk have
\* that answer and nothing else.
_bson_iter_validate_codewscope_Unblamed(s, scope) ==
    IF _bson_iter_validate_document(Validation(s.flags), scope).data.err THEN Go(s) ELSE Stop(s)

_bson_iter_validate_codewscope(s, scope) ==
    IF _bson_iter_validate_document(Validation(s.flags), scope).data.err
    THEN Go([s EXCEPT !.err = TRUE, !.code = "NONE"])
    ELSE Stop(s)

ValidateValue(s, e) ==
    CASE e[2][1] = "utf8" -> _bson_iter_validate_utf8(s, e[2][2])
      [] e[2][1] \in {"document", "array"} -> _bson_iter_validate_document(s, e[2][2])
      [] e[2][1] = "codewscope" -> _bson_iter_validate_codewscope(s, e[2][3])
      [] OTHER -> Go(s)

\* The root and every document under it.
_bson_iter_validate_document(s, elems) ==
    LET begun == [s EXCEPT !.phase = IF s.phase = "START" THEN "TOP" ELSE "LF_REF_KEY"]
    IN Ended(s, bson_iter_visit_all(Walk(elems, begun), _bson_iter_validate_before, ValidateValue,
                                    _bson_iter_validate_corrupt).data)

bson_validate(elems, flags) == ~_bson_iter_validate_document(Validation(flags), elems).data.err

=============================================================================
