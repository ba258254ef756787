------------------------------ MODULE BsonIter -------------------------------
(***************************************************************************)
(* bson_iter_t, src/bson/bson-iter.c: reading the elements of a document   *)
(* in place, its subdocuments, looking for keys, and overwriting values.   *)
(*                                                                         *)
(* The iterators of a caller form a stack: one on the document, and above  *)
(* each the one of bson_iter_recurse on the value it is at.  They all read *)
(* the same bytes, which bson_iter_overwrite_* change.  The loops of the   *)
(* bson_iter_find functions are taken one bson_iter_next at a time.        *)
(***************************************************************************)
EXTENDS BsonBytes, FiniteSetsExt

CONSTANTS Inputs,     \* the buffers given to bson_iter_init_from_data
          Keys,       \* the keys looked for, as bytes without the last 0
          Paths,      \* the dotted keys looked for, as sequences of keys
          Fill        \* the bytes values are overwritten with

ASSUME InputsAssumption == Inputs \subseteq Seq(0 .. 255) /\ Fill \subseteq 0 .. 255

(* Keys are C strings; splitting a dotted one gives one part at least.     *)
ASSUME KeysAssumption == /\ Keys \subseteq Seq(1 .. 255)
                         /\ Paths \subseteq Seq(Seq(1 .. 255)) \ {<<>>}

VARIABLES
    data,       \* the bytes
    iters,      \* the iterators, that of the whole document first
    windows,    \* history: the window each was initialised with
    call,       \* the find in progress
    found       \* history: where the last one began, and what it returned

vars == <<data, iters, windows, call, found>>

None == -1                    \* an iterator without raw
Idle == [path |-> <<>>, kind |-> "idle", base |-> 0]
NotFound == [path |-> <<>>, kind |-> "idle", from |-> <<>>, ret |-> FALSE]

Top == Len(iters)

Initial(raw, len) == [raw |-> raw, len |-> len, off |-> 0, next_off |-> 4,
                      d1 |-> 0, d2 |-> 0, d3 |-> 0, d4 |-> 0, err_off |-> 0]

(* The caller may use what the iterator is at: the last bson_iter_next of  *)
(* it returned true.                                                       *)
OnElement(it) == it.raw # None /\ it.off > 0

Type(it) == At(data, it, it.off)

-----------------------------------------------------------------------------
(* _bson_iter_next_internal: the fields of a value that starts at o, or    *)
(* where it is corrupt.  That next_off is in the window is checked for     *)
(* all of them by Positioned.                                              *)
Good(o, d1, d2, d3, d4, next) ==
    [ok |-> TRUE, err_off |-> o, d1 |-> d1, d2 |-> d2, d3 |-> d3, d4 |-> d4,
     next_off |-> next]
Bad(err) == [ok |-> FALSE, err_off |-> err]

(* The variant leaves next_off alone when there is nothing to skip.        *)
SizedValue_NotMoved(it, t, o) ==
    {Good(o, IF t \in Empty THEN -1 ELSE o, 0, 0, 0,
          IF t \in Empty THEN it.next_off ELSE o + SizeOf[t])}

SizedValue(it, t, o) ==
    {Good(o, IF t \in Empty THEN -1 ELSE o, 0, 0, 0, o + SizeOf[t])}

BoolValue(it, o) ==
    {IF o < it.len /\ At(data, it, o) \in {0, 1} THEN Good(o, o, 0, 0, 0, o + 1)
                                                  ELSE Bad(o)}

StringValue(it, o) ==
    LET l == U32(data, it, o) IN
    {IF \/ o + 4 >= it.len \/ l > it.len - (o + 4)
        \/ l = 0 \/ o + 4 + l >= it.len
     THEN Bad(o)
     ELSE IF At(data, it, o + 4 + l - 1) # 0 THEN Bad(o + 4 + l - 1)
     ELSE Good(o, o, o + 4, 0, 0, o + 4 + l)}

(* The inner length may lie beyond the window: what is there decides which *)
(* of two offsets is reported.                                             *)
BinaryValue(it, o) ==
    LET l == U32(data, it, o)
        old == At(data, it, o + 4) = SUBTYPE_BINARY_DEPRECATED
    IN  IF o >= it.len - 4 \/ l >= it.len - o \/ (old /\ l < 4) THEN {Bad(o)}
        ELSE IF old /\ o + 9 > it.len THEN {Bad(o), Bad(o + 5)}
        ELSE IF old /\ U32(data, it, o + 5) # l - 4 THEN {Bad(o + 5)}
        ELSE {Good(o, o, o + 4, o + 5, 0, o + 5 + l)}

DocumentValue(it, o) ==
    LET l == U32(data, it, o) IN
    {IF o >= it.len - 4 \/ l > it.len \/ l > it.len - o THEN Bad(o)
                                      ELSE Good(o, o, 0, 0, 0, o + l)}

Nuls(it, i) == {j \in i .. it.len - 1 : At(data, it, j) = 0}

RegexValue(it, o) ==
    LET regex   == Nuls(it, o)
        options == Nuls(it, Min(regex) + 1)
    IN  {IF regex = {} \/ options = {} THEN Bad(it.next_off)
         ELSE Good(Min(options), o, Min(regex) + 1, 0, 0, Min(options) + 1)}

DbpointerValue(it, o) ==
    LET l == U32(data, it, o) IN
    {IF o >= it.len - 4 \/ l = 0 \/ l > it.len - o - 4 THEN Bad(o)
     ELSE IF At(data, it, o + l + 3) # 0 THEN Bad(o + l + 3)
     ELSE Good(o, o, o + 4, o + 4 + l, 0, o + 4 + l + 12)}

(* The variant takes the length of the scope for granted.                  *)
CodewscopeValue_ScopeUnchecked(it, o) ==
    LET l    == U32(data, it, o)
        code == U32(data, it, o + 4)
    IN  {IF \/ it.len < 19 \/ o >= it.len - 14 \/ l < 14 \/ l >= it.len - o
            \/ code = 0 \/ code >= it.len - o - 8
         THEN Bad(o)
         ELSE IF o + 8 + code + 4 >= o + l THEN Bad(o + 4)
         ELSE Good(o, o, o + 4, o + 8, o + 8 + code, o + l)}

CodewscopeValue(it, o) ==
    LET l     == U32(data, it, o)
        code  == U32(data, it, o + 4)
        scope == o + 8 + code
    IN  {IF \/ it.len < 19 \/ o >= it.len - 14 \/ l < 14 \/ l >= it.len - o
            \/ code = 0 \/ code >= it.len - o - 8
         THEN Bad(o)
         ELSE IF scope + 4 >= o + l THEN Bad(o + 4)
         ELSE IF U32(data, it, scope) # o + l - scope THEN Bad(scope)
         ELSE Good(o, o, o + 4, o + 8, scope, o + l)}

Value(it, t, o) ==
    CASE t \in Sized             -> SizedValue(it, t, o)
      [] t = BOOL                -> BoolValue(it, o)
      [] t \in Strings           -> StringValue(it, o)
      [] t = BINARY              -> BinaryValue(it, o)
      [] t \in {DOCUMENT, ARRAY} -> DocumentValue(it, o)
      [] t = REGEX               -> RegexValue(it, o)
      [] t = DBPOINTER           -> DbpointerValue(it, o)
      [] t = CODEWSCOPE          -> CodewscopeValue(it, o)
      [] OTHER                   -> {Bad(o)}

(* mark_invalid.  Nothing reads the other fields of such an iterator.  The *)
(* variant does not say where it stopped.                                  *)
Invalid_NoOffset(it, err) == [Initial(None, 0) EXCEPT !.off = it.next_off,
                                                      !.next_off = 0]

Invalid(it, err) == [Initial(None, 0) EXCEPT !.off = it.next_off,
                                             !.next_off = 0, !.err_off = err]

(* The iterators bson_iter_next may turn it into.                         *)
Positioned(it, v) ==
    IF v.ok /\ v.next_off < it.len
    THEN [it EXCEPT !.off = it.next_off, !.next_off = v.next_off, !.err_off = 0,
                    !.d1 = v.d1, !.d2 = v.d2, !.d3 = v.d3, !.d4 = v.d4]
    ELSE Invalid(it, v.err_off)

Advance(it) ==
    LET key == Nuls(it, it.next_off + 1) IN
    IF it.raw = None THEN {it}
    ELSE IF key = {} THEN {Invalid(it, it.err_off)}
    ELSE {Positioned(it, v) :
             v \in Value(it, At(data, it, it.next_off), Min(key) + 1)}

-----------------------------------------------------------------------------
(* bson_iter_init_from_data; bson_iter_init of a bson_t has made sure of   *)
(* the same in bson_init_static.                                           *)
Acceptable(d) ==
    /\ Len(d) >= 5
    /\ U32(d, [raw |-> 0, len |-> Len(d)], 0) = Len(d)
    /\ d[Len(d)] = 0

Init == /\ data \in {d \in Inputs : Acceptable(d)}
        /\ iters = <<Initial(0, Len(data))>>
        /\ windows = <<[raw |-> 0, len |-> Len(data)]>>
        /\ call = Idle
        /\ found = NotFound

Replaced(i, it) == [iters EXCEPT ![i] = it]

bson_iter_next ==
    /\ call = Idle /\ iters[Top].raw # None
    /\ \E it \in Advance(iters[Top]) : iters' = Replaced(Top, it)
    /\ found' = NotFound
    /\ UNCHANGED <<data, windows, call>>

(* bson_iter_recurse, with the window bson_iter_document or                *)
(* bson_iter_array gives.  The variant takes the length of the parent.     *)
ChildWindow_ParentLength(it) == [raw |-> it.raw + it.d1, len |-> it.len]

ChildWindow(it) == [raw |-> it.raw + it.d1, len |-> U32(data, it, it.d1)]

Recursible(it) == OnElement(it) /\ Type(it) \in {DOCUMENT, ARRAY}

Recursed(s, w) == Append(s, Initial(w.raw, w.len))

bson_iter_recurse ==
    /\ call = Idle /\ Recursible(iters[Top])
    /\ LET w == ChildWindow(iters[Top]) IN
       /\ iters' = Recursed(iters, w)
       /\ windows' = Append(windows, w)
    /\ found' = NotFound
    /\ UNCHANGED <<data, call>>

(* The caller is done with a child.                                        *)
Return ==
    /\ call = Idle /\ Top > 1
    /\ iters' = SubSeq(iters, 1, Top - 1)
    /\ windows' = SubSeq(windows, 1, Top - 1)
    /\ found' = NotFound
    /\ UNCHANGED <<data, call>>

(* bson_iter_overwrite_int32, int64, double, decimal128 and bool: nothing  *)
(* for a value of another type.  The variant writes as for an int64.       *)
Overwritable == {INT32, INT64, DOUBLE, DECIMAL128}

Width_Wide(it) == 8

Width(it) == SizeOf[Type(it)]

Overwritten(it, bytes) ==
    [p \in DOMAIN data |->
        IF p - 1 - it.raw - it.d1 \in DOMAIN bytes THEN bytes[p - 1 - it.raw - it.d1]
                                                   ELSE data[p]]

bson_iter_overwrite ==
    LET it == iters[Top] IN
    /\ call = Idle /\ OnElement(it)
    /\ \/ /\ Type(it) \in Overwritable
          /\ \E b \in Fill :
                data' = Overwritten(it, [i \in 0 .. Width(it) - 1 |-> b])
       \/ /\ Type(it) = BOOL
          /\ \E b \in {0, 1} : data' = Overwritten(it, [i \in {0} |-> b])
    /\ found' = NotFound
    /\ UNCHANGED <<iters, windows, call>>

-----------------------------------------------------------------------------
(* bson_iter_find, bson_iter_find_case and bson_iter_find_descendant.      *)

(* The key of an element, and the two ways it is compared with one of the  *)
(* caller: strncmp and a 0 after it, bson_strcasecmp.  The variant forgets *)
(* the 0.                                                                  *)
Lower(b) == IF b \in 65 .. 90 THEN b + 32 ELSE b

SameKey_Prefix(w, off, key, kind) ==
    \A i \in DOMAIN key :
        IF kind = "find_case" THEN Lower(At(data, w, off + i)) = Lower(key[i])
                              ELSE At(data, w, off + i) = key[i]

SameKey(w, off, key, kind) ==
    /\ \A i \in DOMAIN key :
          IF kind = "find_case" THEN Lower(At(data, w, off + i)) = Lower(key[i])
                                ELSE At(data, w, off + i) = key[i]
    /\ At(data, w, off + Len(key) + 1) = 0

Call(kind, path) ==
    /\ call' = [path |-> path, kind |-> kind, base |-> Top]
    /\ found' = [path |-> path, kind |-> kind, ret |-> FALSE,
                 from |-> [raw |-> iters[Top].raw, len |-> iters[Top].len,
                           off |-> iters[Top].next_off]]
    /\ UNCHANGED <<data, iters, windows>>

bson_iter_find ==
    /\ call = Idle /\ iters[Top].raw # None
    /\ \E kind \in {"find", "find_case"}, key \in Keys : Call(kind, <<key>>)

bson_iter_find_descendant ==
    /\ call = Idle /\ iters[Top].raw # None
    /\ \E path \in Paths : Call("descendant", path)

(* The iterators below base are the caller's; those above are the          *)
(* temporaries of bson_iter_find_descendant, of which only the last, the   *)
(* descendant, outlives it.                                                *)
Kept(s, ret) ==
    IF ret /\ Len(s) > call.base THEN Append(SubSeq(s, 1, call.base), s[Len(s)])
                                 ELSE SubSeq(s, 1, call.base)

Finished(s, w, ret) ==
    /\ iters' = Kept(s, ret)
    /\ windows' = Kept(w, ret)
    /\ call' = Idle
    /\ found' = [found EXCEPT !.ret = ret]
    /\ UNCHANGED data

(* A component of length 0 is not looked for.                              *)
FindNothing ==
    /\ call.kind = "descendant" /\ Head(call.path) = <<>>
    /\ Finished(iters, windows, FALSE)

FindNext ==
    /\ call # Idle /\ (call.kind = "descendant" => Head(call.path) # <<>>)
    /\ \E it \in Advance(iters[Top]) :
       LET here == SameKey(it, it.off, Head(call.path), call.kind)
           s    == Replaced(Top, it)
       IN
       \/ it.raw = None /\ Finished(s, windows, FALSE)
       \/ /\ it.raw # None /\ ~here
          /\ iters' = s
          /\ UNCHANGED <<data, windows, call, found>>
       \/ it.raw # None /\ here /\ Len(call.path) = 1 /\ Finished(s, windows, TRUE)
       \/ /\ it.raw # None /\ here /\ Len(call.path) > 1 /\ ~Recursible(it)
          /\ Finished(s, windows, FALSE)
       \/ /\ it.raw # None /\ here /\ Len(call.path) > 1 /\ Recursible(it)
          /\ LET w == ChildWindow(it) IN
             /\ iters' = Recursed(s, w)
             /\ windows' = Append(windows, w)
          /\ call' = [call EXCEPT !.path = Tail(@)]
          /\ UNCHANGED <<data, found>>

Find == FindNothing \/ FindNext

Next == \/ bson_iter_next
        \/ bson_iter_recurse
        \/ Return
        \/ bson_iter_overwrite
        \/ bson_iter_find
        \/ bson_iter_find_descendant
        \/ Find

(* A call, once made, runs on.                                             *)
Spec == Init /\ [][Next]_vars /\ WF_vars(Find)

-----------------------------------------------------------------------------
(* The elements of a window, by the grammar; its last byte is no part of   *)
(* any.                                                                    *)
ElementEnds(d, w, i) == {e \in Ends(d, w, i) : e < w.len}

(* An iterator is at an element, all of it in its window, or between two.  *)
(* It stays so while the iterators of its subdocuments overwrite values in *)
(* the bytes it reads.                                                     *)
AtElement ==
    \A i \in 1 .. Top :
        iters[i].raw # None =>
            /\ iters[i].raw = windows[i].raw /\ iters[i].len = windows[i].len
            /\ OnElement(iters[i]) =>
                  iters[i].next_off \in ElementEnds(data, windows[i], iters[i].off)

(* bson_iter_next fails only where no element is.  In a window that ends   *)
(* in a 0 it leaves err_off 0 at the last byte and nowhere else, so that   *)
(* what is corrupt is never taken for the end.                             *)
EndIsRight ==
    \A i \in 1 .. Top :
        LET it == iters[i]
            w  == windows[i]
        IN  it.raw = None =>
            /\ ElementEnds(data, w, it.off) = {}
            /\ w.len >= 5 /\ At(data, w, w.len - 1) = 0
                  => (it.err_off = 0 <=> it.off = w.len - 1)

(* What the getters (bson_iter_utf8, bson_iter_binary, bson_iter_regex,    *)
(* bson_iter_codewscope, ...) return of an element: parts of the window,   *)
(* from an offset on and so many bytes long; texts with their last 0, but  *)
(* for the code of a CODEWSCOPE, which may have none.                      *)
Texts(it) ==
    CASE Type(it) \in Strings   -> {[at |-> it.d2, n |-> U32(data, it, it.d1)]}
      [] Type(it) = DBPOINTER   -> {[at |-> it.d2, n |-> U32(data, it, it.d1)]}
      [] Type(it) = REGEX       -> {[at |-> it.d1, n |-> it.d2 - it.d1],
                                    [at |-> it.d2, n |-> it.next_off - it.d2]}
      [] OTHER                  -> {}

Blobs(it) ==
    CASE Type(it) \in Sized \ Empty   -> {[at |-> it.d1, n |-> SizeOf[Type(it)]]}
      [] Type(it) = BOOL              -> {[at |-> it.d1, n |-> 1]}
      [] Type(it) \in {DOCUMENT, ARRAY} ->
            {[at |-> it.d1, n |-> U32(data, it, it.d1)]}
      [] Type(it) = DBPOINTER         -> {[at |-> it.d3, n |-> 12]}
      [] Type(it) = CODEWSCOPE        -> {[at |-> it.d3, n |-> U32(data, it, it.d2)],
                                          [at |-> it.d4, n |-> U32(data, it, it.d4)]}
      [] Type(it) = BINARY ->
            LET l == U32(data, it, it.d1) IN
            {IF At(data, it, it.d2) = SUBTYPE_BINARY_DEPRECATED
             THEN [at |-> it.d3 + 4, n |-> l - 4] ELSE [at |-> it.d3, n |-> l]}
      [] OTHER                        -> {}

(* What a getter returns lies in the value of the element, and a text ends *)
(* in a 0.  The code of a code with scope is not such a text:              *)
(* bson-iter.c:1390 says that it is NUL-terminated, but bson_iter_next     *)
(* does not look.                                                          *)
GettersInside ==
    \A i \in 1 .. Top :
        LET it == iters[i] IN
        OnElement(it) =>
            /\ \A p \in Texts(it) \cup Blobs(it) :
                  p.n >= 0 /\ p.at > it.off + 1 /\ p.at + p.n <= it.next_off
            /\ \A p \in Texts(it) : p.n > 0 /\ At(data, it, p.at + p.n - 1) = 0

(* The window of a child is strictly inside that of its parent, and no     *)
(* overwriting changes the length that either begins with.                 *)
ChildrenInside ==
    /\ \A i \in 1 .. Top : windows[i].len = U32(data, windows[i], 0)
    /\ \A i \in 1 .. Top - 1 :
          LET p == windows[i]
              c == windows[i + 1]
          IN  c.raw >= p.raw + 6 /\ c.raw + c.len < p.raw + p.len

(* The elements of w, by offset, from a given offset on.                   *)
ElementsFrom(d, w) ==
    LET from[i \in Nat] ==
            IF ElementEnds(d, w, i) = {} THEN {}
            ELSE {i} \cup from[CHOOSE e \in ElementEnds(d, w, i) : TRUE]
    IN  from

(* Overwriting a value, at whichever depth, changes no element of any of   *)
(* the documents around it: not where they are nor how many there are.     *)
OverwriteInPlace ==
    [][data' # data => \A i \in 1 .. Top : ElementsFrom(data', windows[i])[4]
                                         = ElementsFrom(data, windows[i])[4]]_vars

KeyIs(w, i, key, kind) ==
    /\ IsCString(data, w, i + 1, i + 2 + Len(key))
    /\ \A j \in DOMAIN key :
          \/ At(data, w, i + j) = key[j]
          \/ kind = "find_case" /\ Lower(At(data, w, i + j)) = Lower(key[j])

(* Where a path leads: to the first element with the first key, the first  *)
(* element with the next key in the document that is its value, ...        *)
Located(from, path, kind) ==
    LET with(w, key) == {i \in ElementsFrom(data, w)[w.off] : KeyIs(w, i, key, kind)}
        first(s, key) == {[w EXCEPT !.off = Min(with(w, key))] :
                             w \in {w \in s : with(w, key) # {}}}
        document(s) ==
            UNION {{[raw |-> w.raw + k, len |-> U32(data, w, k), off |-> 4] :
                       k \in {k \in 0 .. w.len : IsCString(data, w, w.off + 1, k)}} :
                   w \in {w \in s : At(data, w, w.off) \in {DOCUMENT, ARRAY}}}
        walk[n \in Nat] ==
            IF n = 0 \/ (kind = "descendant" /\ path[n] = <<>>) THEN {}
            ELSE first(IF n = 1 THEN {from} ELSE document(walk[n - 1]), path[n])
    IN  walk[Len(path)]

(* A find stops at the first element that has the key, counted from where  *)
(* the iterator was, and fails only if there is none.                      *)
FindIsFirst ==
    call = Idle /\ found # NotFound =>
        LET at == Located(found.from, found.path, found.kind) IN
        IF found.ret THEN at = {[raw |-> iters[Top].raw, len |-> iters[Top].len,
                                 off |-> iters[Top].off]}
                     ELSE at = {}

(* A find returns: every bson_iter_next of its loop goes forward.          *)
FindReturns == (call # Idle) ~> (call = Idle)

=============================================================================
