---------------------------- MODULE BsonDocument ----------------------------
(***************************************************************************)
(* Building a document with the append functions of src/bson/bson.c: the   *)
(* root bson_t and the chain of subdocuments begun in it and not yet ended *)
(* all write to one buffer, which grows under all of them.                 *)
(*                                                                         *)
(* A bson_t is its flags, len, offset and depth; stack[1] is the root and  *)
(* stack[i + 1] the subdocument begun last in stack[i].  What an element   *)
(* says does not matter here, how many bytes its append reserves (n_bytes) *)
(* and how many it copies (size) does.                                     *)
(***************************************************************************)
EXTENDS Integers, Sequences

CONSTANTS InlineSize,  \* BSON_INLINE_DATA_SIZE (120)
          SpillSize,   \* what an inline parent grows to for a child (128)
          MaxSize,     \* INT32_MAX, also BSON_MAX_SIZE
          SizedNew,    \* the sizes passed to bson_sized_new
          Elements,    \* the elements appended: [id, n_bytes, size]
          KeyLengths   \* the lengths of the keys of subdocuments

ASSUME SizesAssumption ==
    /\ InlineSize \in Nat /\ SpillSize \in Nat /\ MaxSize \in Nat
    /\ 5 <= InlineSize /\ InlineSize < SpillSize /\ SpillSize <= MaxSize

ASSUME ElementsAssumption ==
    \A e \in Elements : e.n_bytes \in Nat /\ e.size \in Nat \ {0}

ASSUME ParametersAssumption ==
    /\ SizedNew \subseteq 0 .. MaxSize
    /\ KeyLengths \subseteq Nat

VARIABLES
    stack,      \* the open documents, the root first
    buf,        \* the buffer they share, a function on 0 .. buflen - 1
    buflen,
    realloc,    \* whether there is a realloc function
    ret,        \* what the last append function returned
    touched,    \* history: one past the highest byte the last call wrote
    elements    \* history: of each open document its key and its body, the
                \* cells of the elements appended to it

vars == <<stack, buf, buflen, realloc, ret, touched, elements>>

(* The cells of the buffer: the byte j of a length n, a NUL, a byte of a   *)
(* key or a type byte, a byte of the element e, or one never written.      *)
LenByte(n, j) == <<"len", n, j>>
Nul           == <<"nul">>
KeyByte       == <<"key">>
DataByte(e)   == <<"data", e.id>>
Junk          == <<"junk">>

LenCells(n)   == [j \in 1 .. 4 |-> LenByte(n, j - 1)]
Repeat(c, n)  == [j \in 1 .. n |-> c]
EmptyDoc      == LenCells(5) \o <<Nul>>

(* A document is its length, the cells of its elements and a NUL.          *)
Encoded(body) == LenCells(5 + Len(body)) \o body \o <<Nul>>

Flags == {"INLINE", "STATIC", "CHILD", "IN_CHILD", "NO_FREE"}
Bson  == [flags : SUBSET Flags, len : Nat, offset : Nat, depth : Nat]

Top     == Len(stack)
Current == stack[Top]

-----------------------------------------------------------------------------
(* bson_next_power_of_two, up to the largest power an int32 holds.         *)
PowersOfTwo ==
    {1, 2, 4, 8, 16, 32, 64, 128, 256, 512, 1024, 2048, 4096, 8192, 16384,
     32768, 65536, 131072, 262144, 524288, 1048576, 2097152, 4194304, 8388608,
     16777216, 33554432, 67108864, 134217728, 268435456, 536870912, 1073741824}

IsNextPowerOfTwo(p, v) ==
    p \in PowersOfTwo /\ p >= v /\ \A q \in PowersOfTwo : q >= v => q >= p

(* memcpy of the cells s to index at of the buffer b.                      *)
Copied(b, at, s) ==
    [i \in DOMAIN b |-> IF at <= i /\ i < at + Len(s) THEN s[i - at + 1]
                                                      ELSE b[i]]

(* The first n bytes of b in a buffer of l bytes: what malloc and memcpy,  *)
(* or realloc, leave.                                                      *)
Resized(b, n, l) == [i \in 0 .. l - 1 |-> IF i < n THEN b[i] ELSE Junk]

(* _bson_grow of the document d by size bytes, in a buffer of l bytes: the *)
(* lengths the buffer may have afterwards, none when it cannot grow.  An   *)
(* inline document counts its own bytes; an allocated one has to leave     *)
(* room for the trailing byte of each of its parents.                      *)
InlineNeed(d, size) == d.len + size

(* Without room for the trailing bytes of the parents.                     *)
AllocNeed_NoParents(d, size) == d.offset + d.len + size
AllocNeed(d, size) == d.offset + d.len + size + d.depth

Holds(d, size, l) ==
    IF "INLINE" \in d.flags THEN InlineNeed(d, size) <= InlineSize
                            ELSE AllocNeed(d, size) <= l

InlineGrow(d, size) ==
    {p \in PowersOfTwo : IsNextPowerOfTwo(p, InlineNeed(d, size)) /\ p <= MaxSize}

(* Without the bound on the new size.                                      *)
AllocGrow_Unbounded(d, size) ==
    {p \in PowersOfTwo : IsNextPowerOfTwo(p, AllocNeed(d, size)) /\ realloc}
AllocGrow(d, size) ==
    {p \in PowersOfTwo : /\ IsNextPowerOfTwo(p, AllocNeed(d, size))
                         /\ p <= MaxSize /\ realloc}

Grow(d, size, l) ==
    IF Holds(d, size, l) THEN {l}
    ELSE IF "INLINE" \in d.flags THEN InlineGrow(d, size)
                                 ELSE AllocGrow(d, size)

(* The document and the buffer afterwards: an inline document's bytes are  *)
(* copied to the new buffer, an allocated one's are kept by realloc.       *)
GrownDoc(d, size, l) ==
    IF Holds(d, size, l) THEN d ELSE [d EXCEPT !.flags = @ \ {"INLINE"}]

(* A new buffer without the bytes.                                         *)
GrownBuf_NoCopy(d, size, b, l, new) ==
    IF Holds(d, size, l) THEN b ELSE Resized(b, 0, new)
GrownBuf(d, size, b, l, new) ==
    IF Holds(d, size, l) THEN b
    ELSE Resized(b, IF "INLINE" \in d.flags THEN d.len ELSE l, new)

-----------------------------------------------------------------------------
(* _bson_append refuses to make a document longer than BSON_MAX_SIZE.      *)
AppendFits(d, n_bytes) == n_bytes <= MaxSize - d.len

(* _bson_append_va: the cells are copied over the trailing NUL, then come  *)
(* the new length and a new NUL.                                           *)
Lengthened(d, cells) == [d EXCEPT !.len = @ + Len(cells)]

AppendedBuf(b, d, cells) ==
    LET at == d.offset + d.len - 1
    IN  Copied(Copied(Copied(b, at, cells),
                      d.offset, LenCells(d.len + Len(cells))),
               at + Len(cells), <<Nul>>)

AppendTouches(d, cells) == d.offset + d.len + Len(cells)

(* A call that returns false leaves the document as it is.                 *)
Refuse == /\ ret' = FALSE
          /\ UNCHANGED <<stack, buf, buflen, realloc, touched, elements>>

(* The append functions assert that the document has no subdocument open,  *)
(* so an append is always to the last document of the chain.               *)
Appendable == stack # <<>> /\ "IN_CHILD" \notin Current.flags

(* What the append of the element e copies.                                *)
ElementCells(e) == Repeat(DataByte(e), e.size)

AppendElement(e) ==
    /\ Appendable
    /\ \/ /\ \/ ~AppendFits(Current, e.n_bytes)
             \/ Grow(Current, e.n_bytes, buflen) = {}
          /\ Refuse
       \/ /\ AppendFits(Current, e.n_bytes)
          /\ \E l \in Grow(Current, e.n_bytes, buflen) :
                LET cells == ElementCells(e)
                    d     == GrownDoc(Current, e.n_bytes, buflen)
                    b     == GrownBuf(Current, e.n_bytes, buf, buflen, l)
                IN  /\ buflen' = l
                    /\ buf' = AppendedBuf(b, d, cells)
                    /\ stack' = [stack EXCEPT ![Top] = Lengthened(d, cells)]
                    /\ touched' = AppendTouches(d, cells)
                    /\ elements' = [elements EXCEPT ![Top].body = @ \o cells]
          /\ ret' = TRUE
          /\ UNCHANGED realloc

-----------------------------------------------------------------------------
(* _bson_append_bson_begin.  An inline document is first moved to a buffer *)
(* of its own, then type, key and an empty document are appended and the   *)
(* child is pointed at the empty document.                                 *)
Spills(d) == "INLINE" \in d.flags

SpillGrow(d) == IF Spills(d) THEN Grow(d, SpillSize - d.len, buflen) ELSE {buflen}
SpillDoc(d)  == IF Spills(d) THEN GrownDoc(d, SpillSize - d.len, buflen) ELSE d
SpillBuf(d, l) ==
    IF Spills(d) THEN GrownBuf(d, SpillSize - d.len, buf, buflen, l) ELSE buf

ChildHeader(k) == Repeat(KeyByte, 1 + k) \o <<Nul>>

(* With the parent's depth forgotten.                                      *)
ChildOf_FirstLevel(d) ==
    [flags |-> {"CHILD", "NO_FREE", "STATIC"}, len |-> 5,
     offset |-> d.offset + d.len - 1 - 5, depth |-> 1]
ChildOf(d) ==
    [flags  |-> {"CHILD", "NO_FREE", "STATIC"},
     len    |-> 5,
     offset |-> d.offset + d.len - 1 - 5,
     depth  |-> IF "CHILD" \in d.flags THEN d.depth + 1 ELSE 1]

BeginChild(k) ==
    LET n     == 1 + k + 1 + 5
        cells == ChildHeader(k) \o EmptyDoc
    IN
    /\ Appendable
    /\ \/ SpillGrow(Current) = {} /\ Refuse
       \/ \E l1 \in SpillGrow(Current) :
          LET d1 == SpillDoc(Current)
              b1 == SpillBuf(Current, l1)
          IN \/ /\ ~AppendFits(d1, n) \/ Grow(d1, n, l1) = {}
                /\ buflen' = l1 /\ buf' = b1
                /\ stack' = [stack EXCEPT ![Top] = d1]
                /\ ret' = FALSE
                /\ UNCHANGED <<realloc, touched, elements>>
             \/ /\ AppendFits(d1, n)
                /\ \E l2 \in Grow(d1, n, l1) :
                      LET b2 == GrownBuf(d1, n, b1, l1, l2)
                          d2 == Lengthened(GrownDoc(d1, n, l1), cells)
                      IN  /\ buflen' = l2
                          /\ buf' = AppendedBuf(b2, d1, cells)
                          /\ stack' = Append(
                                [stack EXCEPT ![Top] =
                                   [d2 EXCEPT !.flags = @ \cup {"IN_CHILD"}]],
                                ChildOf(d2))
                          /\ touched' = AppendTouches(d1, cells)
                          /\ elements' = Append(elements, [key |-> k, body |-> <<>>])
                /\ ret' = TRUE
                /\ UNCHANGED realloc

(* _bson_append_bson_end of the last document: its bytes are counted in    *)
(* its parent, which gets its trailing NUL and its length.  The variant    *)
(* counts the five bytes of the empty child twice.                         *)
Ended_Twice(p, c) == [p EXCEPT !.flags = @ \ {"IN_CHILD"}, !.len = @ + c.len]
Ended(p, c) == [p EXCEPT !.flags = @ \ {"IN_CHILD"}, !.len = @ + c.len - 5]

EndedBuf(b, d) == Copied(Copied(b, d.offset + d.len - 1, <<Nul>>),
                         d.offset, LenCells(d.len))

EndChild ==
    /\ Top >= 2
    /\ LET p == Ended(stack[Top - 1], Current)
       IN  /\ stack' = [SubSeq(stack, 1, Top - 1) EXCEPT ![Top - 1] = p]
           /\ buf' = EndedBuf(buf, p)
           /\ touched' = p.offset + p.len
           /\ elements' = [SubSeq(elements, 1, Top - 1) EXCEPT
                              ![Top - 1].body = @ \o ChildHeader(elements[Top].key)
                                                  \o Encoded(elements[Top].body)]
    /\ ret' = TRUE
    /\ UNCHANGED <<buflen, realloc>>

-----------------------------------------------------------------------------
(* bson_init, bson_new and bson_sized_new: a document is inline when it    *)
(* asks for no more than the bson_t holds.                                 *)
RootFlags(size) == IF size <= InlineSize THEN {"INLINE"} ELSE {}
RootLength(size) == IF size <= InlineSize THEN InlineSize ELSE size

NewRoot(size, cells, body) ==
    /\ stack = <<>>
    /\ stack' = <<[flags |-> RootFlags(size), len |-> Len(cells),
                   offset |-> 0, depth |-> 0]>>
    /\ buflen' = RootLength(size)
    /\ buf' = Copied(Resized(<<>>, 0, RootLength(size)), 0, cells)
    /\ realloc' = TRUE /\ ret' = TRUE
    /\ touched' = Len(cells)
    /\ elements' = <<[key |-> 0, body |-> body]>>

(* The bytes of a document that holds the element e, read from outside.    *)
Document(e) == Encoded(ElementCells(e))

bson_sized_new(size)  == NewRoot(size, EmptyDoc, <<>>)
bson_new_from_data(e) ==
    5 + e.size <= MaxSize /\ NewRoot(5 + e.size, Document(e), ElementCells(e))

(* bson_reinit of a document none of whose subdocuments is open.           *)
bson_reinit ==
    /\ Appendable
    /\ stack' = [stack EXCEPT ![Top].len = 5]
    /\ buf' = Copied(buf, Current.offset, EmptyDoc)
    /\ touched' = Current.offset + 5
    /\ elements' = [elements EXCEPT ![Top].body = <<>>]
    /\ UNCHANGED <<buflen, realloc, ret>>

(* bson_reserve_buffer, and the caller filling the buffer it got before    *)
(* any other operation, with a document of the size it asked for.          *)
bson_reserve_buffer(e) ==
    LET size == 5 + e.size IN
    /\ Appendable /\ "CHILD" \notin Current.flags
    /\ \/ Grow(Current, size, buflen) = {} /\ Refuse
       \/ /\ \E l \in Grow(Current, size, buflen) :
                LET d == GrownDoc(Current, size, buflen)
                    b == GrownBuf(Current, size, buf, buflen, l)
                IN  /\ buflen' = l
                    /\ buf' = Copied(b, d.offset, Document(e))
                    /\ stack' = [stack EXCEPT ![Top] = [d EXCEPT !.len = size]]
                    /\ touched' = d.offset + size
                    /\ elements' = [elements EXCEPT ![Top].body = ElementCells(e)]
          /\ ret' = TRUE
          /\ UNCHANGED realloc

bson_destroy ==
    /\ Top = 1
    /\ stack' = <<>> /\ buf' = <<>> /\ buflen' = 0 /\ elements' = <<>>
    /\ UNCHANGED <<realloc, ret, touched>>

-----------------------------------------------------------------------------
Init == /\ stack = <<>> /\ buf = <<>> /\ buflen = 0 /\ elements = <<>>
        /\ realloc = TRUE /\ ret = TRUE /\ touched = 0

Build == \/ \E e \in Elements : AppendElement(e)
         \/ \E k \in KeyLengths : BeginChild(k)
         \/ EndChild

Next == \/ \E size \in SizedNew : bson_sized_new(size)
        \/ \E e \in Elements : bson_new_from_data(e)
        \/ Build
        \/ bson_reinit
        \/ \E e \in Elements : bson_reserve_buffer(e)
        \/ bson_destroy

Spec == Init /\ [][Next]_vars

-----------------------------------------------------------------------------
(* What each part of the state may hold.                                   *)
TypeOK ==
    /\ stack \in Seq(Bson)
    /\ buflen \in Nat /\ DOMAIN buf = 0 .. buflen - 1
    /\ realloc \in BOOLEAN /\ ret \in BOOLEAN /\ touched \in Nat

(* The open documents are nested: only the last one takes appends, each    *)
(* child is the empty document its parent ends with, and knows how many    *)
(* parents it has.  Only a root without children may be inline.            *)
Nested ==
    \A i \in 1 .. Top :
        /\ "IN_CHILD" \in stack[i].flags <=> i < Top
        /\ "CHILD" \in stack[i].flags <=> i > 1
        /\ "INLINE" \in stack[i].flags => Top = 1
        /\ stack[i].depth = i - 1
        /\ stack[i].len >= 5
        /\ i > 1 => stack[i].offset = stack[i - 1].offset + stack[i - 1].len - 6

(* No call writes past the end of the buffer.                              *)
WritesFit == stack # <<>> => touched <= buflen

(* Behind the last document the buffer has room for the trailing NULs its  *)
(* parents get when they are ended, which is why ending a document never   *)
(* has to grow the buffer.                                                 *)
RoomForParents ==
    stack # <<>> => Current.offset + Current.len + Current.depth <= buflen

(* No document, the ones not yet ended included, outgrows the int32 its    *)
(* length is encoded in.                                                   *)
LengthsFit ==
    stack # <<>> => Current.offset - stack[1].offset + Current.len + Current.depth
                        <= MaxSize

(* The document that takes appends is exactly the encoding of what was     *)
(* appended to it, through every growth of the buffer and every failed     *)
(* call; it begins with its length and ends in a NUL, so it may be read at *)
(* any time.  A subdocument that is ended is part of it.                   *)
Cells(from, n) == [j \in 1 .. n |-> buf[from + j - 1]]

CurrentEncodesItsElements ==
    stack # <<>> =>
        Cells(Current.offset, Current.len) = Encoded(elements[Top].body)

=============================================================================
