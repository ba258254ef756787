------------------------------ MODULE BsonBcon -------------------------------
(***************************************************************************)
(* bcon (src/bson/bcon.c): documents from the arguments of a call, and the *)
(* values of a document into the arguments of a call.                      *)
(*                                                                         *)
(* A string is the sequence of its pieces, of which the first may be a     *)
(* bracket.  An argument is <<"plain", string>>, or what a macro makes of  *)
(* several: <<type, data>>, <<"BCON", elements>>, <<"ITER", value>>,       *)
(* <<"END">> for NULL, and to extract <<type>>, <<"SKIP", type>> or        *)
(* <<"ITER">>.  A document is the sequence of its elements <<key, value>>, *)
(* a value <<type, data>>.                                                 *)
(***************************************************************************)
LOCAL INSTANCE Integers
LOCAL INSTANCE Sequences
LOCAL INSTANCE SequencesExt
LOCAL INSTANCE TLC

CONSTANT BCON_STACK_MAX  \* 100

IndexKey(i) == <<ToString(i)>>

Brackets == "{" :> "DOC_START" @@ "}" :> "DOC_END" @@ "[" :> "ARRAY_START" @@ "]" :> "ARRAY_END"

(* A plain string that begins with a bracket is that bracket.              *)
IsBracket(str) == str # <<>> /\ str[1] \in DOMAIN Brackets

_bcon_append_tokenize(arg) ==
    IF arg[1] # "plain" THEN arg
    ELSE IF IsBracket(arg[2]) THEN <<Brackets[arg[2][1]]>> ELSE <<"utf8", arg[2]>>

_bcon_extract_tokenize(arg) ==
    IF arg[1] # "plain" THEN arg
    ELSE IF IsBracket(arg[2]) THEN <<Brackets[arg[2][1]]>> ELSE <<"RAW", arg[2]>>

-----------------------------------------------------------------------------
(* The context: a frame for every document that is open, with the elements *)
(* it has (to append) or the iterator over it starts from (to extract);    *)
(* `key' is the key a value is awaited for.  A failed assertion aborts.    *)
Frame(is_array, key, elems) == [is_array |-> is_array, i |-> 0, key |-> key, elems |-> elems]
Context(elems) == [stack |-> <<Frame(FALSE, <<>>, elems)>>, awaits |-> FALSE, key |-> <<>>,
                   out |-> <<>>, stopped |-> FALSE, aborted |-> FALSE]

Inner(ctx) == Last(ctx.stack)
WithInner(ctx, frame) == [ctx EXCEPT !.stack[Len(ctx.stack)] = frame]
Abort(ctx) == [ctx EXCEPT !.stopped = TRUE, !.aborted = TRUE]

STACK_PUSH(ctx, is_array, elems) ==
    IF Len(ctx.stack) < BCON_STACK_MAX
    THEN [ctx EXCEPT !.stack = Append(@, Frame(is_array, ctx.key, elems))]
    ELSE Abort(ctx)

(* What the end of a document or array finds open.                         *)
STACK_POP(ctx, is_array, statement(_)) ==
    IF Inner(ctx).is_array = is_array /\ Len(ctx.stack) > 1
    THEN [statement(ctx) EXCEPT !.stack = Front(@)] ELSE Abort(ctx)

(* The loop is where it looks for a key: an array has one at once.         *)
TakeKey(ctx) ==
    IF Inner(ctx).is_array
    THEN [WithInner(ctx, [Inner(ctx) EXCEPT !.i = @ + 1])
            EXCEPT !.key = IndexKey(Inner(ctx).i), !.awaits = TRUE]
    ELSE ctx

-----------------------------------------------------------------------------
AppendTo(ctx, key, value) == WithInner(ctx, [Inner(ctx) EXCEPT !.elems = Append(@, <<key, value>>)])

(* bson_append_document_end or bson_append_array_end on the parent.        *)
Ended(ctx) ==
    LET child == Inner(ctx)
        parent == Len(ctx.stack) - 1
        value == <<IF child.is_array THEN "array" ELSE "document", child.elems>>
    IN  [ctx EXCEPT !.stack[parent].elems = Append(@, <<child.key, value>>)]

(* The index was already that of the next element.  The variant goes on    *)
(* from there.                                                             *)
_bson_concat_array_IndexKept(ctx, src) ==
    LET first == Inner(ctx).i
    IN  WithInner(ctx, [Inner(ctx) EXCEPT
            !.i = first + Len(src),
            !.elems = @ \o [k \in DOMAIN src |-> <<IndexKey(first + k - 1), src[k][2]>>]])

_bson_concat_array(ctx, src) ==
    LET first == Inner(ctx).i - 1
    IN  WithInner(ctx, [Inner(ctx) EXCEPT
            !.i = first + Len(src),
            !.elems = @ \o [k \in DOMAIN src |-> <<IndexKey(first + k - 1), src[k][2]>>]])

AppendKey(ctx, tok) ==
    CASE tok[1] = "END"     -> ctx
      [] tok[1] = "DOC_END" -> STACK_POP(ctx, FALSE, Ended)
      [] tok[1] = "BCON"    -> WithInner(ctx, [Inner(ctx) EXCEPT !.elems = @ \o tok[2]])
      [] tok[1] = "utf8"    -> [ctx EXCEPT !.key = tok[2], !.awaits = TRUE]
      [] OTHER              -> Abort(ctx)

AppendValue(ctx, tok) ==
    CASE tok[1] = "END"         -> Abort(ctx)
      [] tok[1] = "BCON"        -> IF Inner(ctx).is_array THEN _bson_concat_array(ctx, tok[2]) ELSE Abort(ctx)
      [] tok[1] = "DOC_START"   -> STACK_PUSH(ctx, FALSE, <<>>)
      [] tok[1] = "ARRAY_START" -> STACK_PUSH(ctx, TRUE, <<>>)
      [] tok[1] = "DOC_END"     -> STACK_POP(ctx, FALSE, Ended)
      [] tok[1] = "ARRAY_END"   -> STACK_POP(ctx, TRUE, Ended)
      [] tok[1] = "ITER"        -> AppendTo(ctx, ctx.key, tok[2])
      [] OTHER                  -> AppendTo(ctx, ctx.key, tok)

(* Calls of bcon_append_ctx, each argument list ended by a NULL.           *)
bcon_append_ctx(args) ==
    LET step(ctx, arg) ==
            LET tok == _bcon_append_tokenize(arg)
                c == TakeKey(ctx)
            IN  IF ctx.stopped THEN ctx
                ELSE IF c.awaits THEN AppendValue([c EXCEPT !.awaits = FALSE], tok)
                ELSE AppendKey(c, tok)
    IN  FoldLeft(step, Context(<<>>), args)

-----------------------------------------------------------------------------
NotThere(ctx) == [ctx EXCEPT !.stopped = TRUE]
Found(ctx) == {k \in DOMAIN Inner(ctx).elems : Inner(ctx).elems[k][1] = ctx.key}

(* The value is put where the argument says, if it is of that type.        *)
_bcon_extract_single(ctx, value, tok) ==
    CASE tok[1] = "ITER" -> [ctx EXCEPT !.out = Append(@, value)]
      [] tok[1] = "SKIP" -> IF value[1] = tok[2] THEN ctx ELSE NotThere(ctx)
      [] tok[1] = "RAW"  -> Abort(ctx)
      [] OTHER -> IF value[1] = tok[1] THEN [ctx EXCEPT !.out = Append(@, value)] ELSE NotThere(ctx)

ExtractKey(ctx, tok) ==
    CASE tok[1] = "END"     -> ctx
      [] tok[1] = "DOC_END" -> STACK_POP(ctx, FALSE, LAMBDA c : c)
      [] tok[1] = "RAW"     -> [ctx EXCEPT !.key = tok[2], !.awaits = TRUE]
      [] OTHER              -> Abort(ctx)

(* bson_iter_find finds the first element with the key.                    *)
ExtractFound(ctx, tok) ==
    LET value == Inner(ctx).elems[CHOOSE k \in Found(ctx) : \A j \in Found(ctx) : k <= j][2]
    IN  CASE tok[1] = "DOC_START" ->
               IF value[1] = "document" THEN STACK_PUSH(ctx, FALSE, value[2]) ELSE NotThere(ctx)
          [] tok[1] = "ARRAY_START" ->
               IF value[1] = "array" THEN STACK_PUSH(ctx, TRUE, value[2]) ELSE NotThere(ctx)
          [] OTHER -> _bcon_extract_single(ctx, value, tok)

ExtractValue(ctx, tok) ==
    CASE tok[1] = "END"       -> Abort(ctx)
      [] tok[1] = "DOC_END"   -> STACK_POP(ctx, FALSE, LAMBDA c : c)
      [] tok[1] = "ARRAY_END" -> STACK_POP(ctx, TRUE, LAMBDA c : c)
      [] OTHER -> IF Found(ctx) = {} THEN NotThere(ctx) ELSE ExtractFound(ctx, tok)

bcon_extract_ctx(elems, args) ==
    LET step(ctx, arg) ==
            LET tok == _bcon_extract_tokenize(arg)
                c == TakeKey(ctx)
            IN  IF ctx.stopped THEN ctx
                ELSE IF c.awaits THEN ExtractValue([c EXCEPT !.awaits = FALSE], tok)
                ELSE ExtractKey(c, tok)
    IN  FoldLeft(step, Context(elems), args)

=============================================================================
