----------------------------- MODULE BsonValues ------------------------------
(***************************************************************************)
(* Who owns what: the bson_t variables of a program, each initialised by   *)
(* one of the functions of src/bson/bson.c and destroyed by another, the   *)
(* buffer it lends to bson_new_from_buffer and gets back from              *)
(* bson_destroy_with_steal, and its bson_value_t.                          *)
(*                                                                         *)
(* A bson_t is its flags, len, struct (Stack or the block malloc gave) and *)
(* a pointer to its bytes.  Bytes after those of the document, and growth  *)
(* within a block, are the matter of BsonDocument.  What each call means   *)
(* is recorded in the variables of BsonStore.                              *)
(***************************************************************************)
EXTENDS BsonElements, BsonStore

CONSTANTS Given,      \* the elements [key, value] a program appends
          Keys,       \* the keys it gives elements anew, or excludes
          Reserves,   \* the sizes for bson_sized_new
          InlineSize, \* BSON_INLINE_DATA_SIZE (120)
          MaxBytes,   \* bound: the longest document explored
          MaxElements, \* bound: the elements in all the documents together
          MaxBlocks    \* bound: the blocks in use

ASSUME SlotsAssumption == IsFiniteSet(Slots)

(* The largest power of two an int32 holds: no longer document has room to *)
(* grow into.  The smallest one has 5 bytes.                               *)
Largest == 1073741824

ASSUME SizesAssumption == /\ Reserves \subseteq Nat
                          /\ InlineSize \in Nat /\ InlineSize >= 5
                          /\ MaxBytes \in Nat /\ MaxBytes >= 5 /\ MaxBytes <= Largest

VARIABLES
    docs,   \* the bson_t variables
    mem,    \* the blocks malloc gave and nobody freed
    cbuf,   \* the buffer of the caller: the block it points to and its length
    value   \* the bson_value_t of the caller

vars == <<docs, mem, cbuf, value, store>>

Stack == <<"stack">>
Null == <<"null">>
NoDoc == [flags |-> {"none"}]
NoBuffer == [block |-> Null, len |-> 0]
NoValue == [at |-> "none"]

Is(h, flag) == flag \in docs[h].flags
Live(h) == ~Is(h, "none")

(* Where the bytes of a bson_t are: in a bson_t, in a block, or in the     *)
(* block the caller's buffer points to.                                    *)
Inline(h)  == [at |-> "inline", of |-> h]
Block(b)   == [at |-> "block", of |-> b]
CallersBuf == [at |-> "caller", of |-> Null]

BlockOf(p) == IF p.at = "caller" THEN cbuf.block ELSE p.of
Data(h)    == IF docs[h].buf.at = "inline" THEN docs[docs[h].buf.of].inline
              ELSE mem[BlockOf(docs[h].buf)].bytes
Lent       == {h \in Slots : Live(h) /\ docs[h].buf = CallersBuf}

(* Something reads the bytes of h in place: until it is done the caller    *)
(* must neither change nor destroy h.                                      *)
Borrowed(h) == \/ \E g \in Slots : Live(g) /\ h \in docs[g].views
               \/ value.at = "borrowed" /\ value.from = h

Writable(h) == Live(h) /\ ~Is(h, "RDONLY") /\ ~Borrowed(h)

(* The block malloc gives: one that nothing points to.                     *)
Referenced == {docs[h].struct : h \in {h \in Slots : Live(h)}}
                \cup {docs[h].buf.of : h \in {h \in Slots : Live(h) /\ docs[h].buf.at = "block"}}
                \cup {cbuf.block} \cup (IF value.at = "owned" THEN value.blocks ELSE {})
Fresh(use) ==
    LET used == Referenced \cup DOMAIN mem
    IN  <<use, Min({n \in 1 .. Cardinality(used) + 1 : <<use, n>> \notin used})>>

Struct(h) == <<"struct", h>>

Malloc(m, b, size, bytes) ==
    [c \in DOMAIN m \cup {b} |-> IF c = b THEN [size |-> size, bytes |-> bytes] ELSE m[c]]
Free(m, bs) == [c \in DOMAIN m \ bs |-> m[c]]

PowersOfTwo ==
    {1, 2, 4, 8, 16, 32, 64, 128, 256, 512, 1024, 2048, 4096, 8192, 16384,
     32768, 65536, 131072, 262144, 524288, 1048576, 2097152, 4194304, 8388608,
     16777216, 33554432, 67108864, 134217728, 268435456, 536870912, Largest}

PowerOfTwo(n) == Min({p \in PowersOfTwo : p >= n})

Put(h, d) == docs' = [docs EXCEPT ![h] = d]

-----------------------------------------------------------------------------
(* The bson_t of bson_init and bson_new, and one with a buffer.            *)
InlineDoc(h, struct, bytes) ==
    [flags |-> {"INLINE"} \cup (IF struct = Stack THEN {"STATIC"} ELSE {}),
     len |-> Len(bytes), struct |-> struct, buf |-> Inline(h), alloclen |-> 0,
     inline |-> bytes, views |-> {}]
AllocDoc(flags, struct, buf, len, alloclen) ==
    [flags |-> flags, len |-> len, struct |-> struct, buf |-> buf,
     alloclen |-> alloclen, inline |-> <<>>, views |-> {}]

bson_init(h) ==
    /\ ~Live(h) /\ Put(h, InlineDoc(h, Stack, EmptyDocument)) /\ Make(h, <<>>)
    /\ UNCHANGED <<mem, cbuf, value>>

bson_new(h) ==
    /\ ~Live(h) /\ Put(h, InlineDoc(h, Struct(h), EmptyDocument))
    /\ mem' = Malloc(mem, Struct(h), 0, <<>>) /\ Make(h, <<>>)
    /\ UNCHANGED <<cbuf, value>>

(* bson_sized_new, and bson_new_from_data, which fills what it gives.      *)
SizedNew(h, size, bytes) ==
    IF size <= InlineSize
    THEN /\ Put(h, InlineDoc(h, Struct(h), bytes))
         /\ mem' = Malloc(mem, Struct(h), 0, <<>>)
    ELSE /\ Put(h, AllocDoc({}, Struct(h), Block(Fresh("bytes")), Len(bytes), size))
         /\ mem' = Malloc(Malloc(mem, Struct(h), 0, <<>>), Fresh("bytes"), size, bytes)

bson_sized_new(h, size) ==
    /\ ~Live(h) /\ SizedNew(h, size, EmptyDocument) /\ Make(h, <<>>)
    /\ UNCHANGED <<cbuf, value>>

bson_copy(g, h) ==
    /\ Live(g) /\ ~Live(h) /\ SizedNew(h, docs[g].len, Data(g))
    /\ Make(h, contents[g])
    /\ UNCHANGED <<cbuf, value>>

(* The variant copies the whole bson_t, its pointer included.              *)
CopiedTo_Shallow(g, h) ==
    IF Is(g, "INLINE")
    THEN Put(h, InlineDoc(h, Stack, Data(g))) /\ mem' = mem
    ELSE Put(h, [docs[g] EXCEPT !.flags = @ \cup {"STATIC"}, !.struct = Stack]) /\ mem' = mem

CopiedTo(g, h) ==
    IF Is(g, "INLINE")
    THEN Put(h, InlineDoc(h, Stack, Data(g))) /\ mem' = mem
    ELSE LET size == PowerOfTwo(docs[g].len) IN
         /\ Put(h, AllocDoc({"STATIC"}, Stack, Block(Fresh("bytes")), docs[g].len, size))
         /\ mem' = Malloc(mem, Fresh("bytes"), size, Data(g))

bson_copy_to(g, h) ==
    /\ Live(g) /\ ~Live(h) /\ CopiedTo(g, h) /\ Make(h, contents[g])
    /\ UNCHANGED <<cbuf, value>>

(* A bson_t on the bytes of another one.                                   *)
bson_init_static(g, h) ==
    /\ Live(g) /\ ~Live(h) /\ IsDocument(Data(g))
    /\ LET at == IF docs[g].buf = CallersBuf THEN Block(cbuf.block) ELSE docs[g].buf
           d  == AllocDoc({"STATIC", "RDONLY"}, Stack, at, docs[g].len, docs[g].len)
       IN  Put(h, [d EXCEPT !.views = {g} \cup docs[g].views])
    /\ Make(h, contents[g])
    /\ UNCHANGED <<mem, cbuf, value>>

(* With a NULL buffer it is given one of five bytes.                       *)
bson_new_from_buffer(h) ==
    /\ ~Live(h) /\ Lent = {}
    /\ IF cbuf.block = Null
       THEN /\ mem' = Malloc(Malloc(mem, Struct(h), 0, <<>>), Fresh("bytes"), 5, EmptyDocument)
            /\ cbuf' = [block |-> Fresh("bytes"), len |-> 5]
            /\ Put(h, AllocDoc({"NO_FREE"}, Struct(h), CallersBuf, 5, 0))
       ELSE /\ mem' = Malloc(mem, Struct(h), 0, <<>>)
            /\ cbuf' = cbuf
            /\ Put(h, AllocDoc({"NO_FREE"}, Struct(h), CallersBuf,
                               Length(mem[cbuf.block].bytes, 0), 0))
    /\ FromBuffer(h) /\ UNCHANGED value

-----------------------------------------------------------------------------
(* _bson_append to the bson_t d in slot h: an inline document that         *)
(* outgrows the bson_t gets a block, another one a larger block, to which  *)
(* realloc moves it.                                                       *)
Sealed(d, data, call) == Document(SubSeq(data, 5, d.len - 1) \o call.bytes)

BufLen(d) == IF d.buf = CallersBuf THEN cbuf.len ELSE d.alloclen

InPlace(h, d, bytes) ==
    /\ UNCHANGED cbuf
    /\ IF "INLINE" \in d.flags
       THEN Put(h, [d EXCEPT !.inline = bytes]) /\ UNCHANGED mem
       ELSE Put(h, d) /\ mem' = [mem EXCEPT ![BlockOf(d.buf)].bytes = bytes]

Spilled(h, d, size, bytes) ==
    /\ Put(h, [d EXCEPT !.flags = @ \ {"INLINE"}, !.buf = Block(Fresh("bytes")),
                        !.alloclen = size, !.inline = <<>>])
    /\ mem' = Malloc(mem, Fresh("bytes"), size, bytes)
    /\ UNCHANGED cbuf

(* The variant leaves *buf_len as it was.                                  *)
Moved_LengthKept(h, d, size, bytes) ==
    /\ mem' = Malloc(Free(mem, {BlockOf(d.buf)}), Fresh("bytes"), size, bytes)
    /\ IF d.buf = CallersBuf
       THEN Put(h, d) /\ cbuf' = [cbuf EXCEPT !.block = Fresh("bytes")]
       ELSE /\ Put(h, [d EXCEPT !.buf = Block(Fresh("bytes")), !.alloclen = size])
            /\ UNCHANGED cbuf

Moved(h, d, size, bytes) ==
    /\ mem' = Malloc(Free(mem, {BlockOf(d.buf)}), Fresh("bytes"), size, bytes)
    /\ IF d.buf = CallersBuf
       THEN Put(h, d) /\ cbuf' = [block |-> Fresh("bytes"), len |-> size]
       ELSE /\ Put(h, [d EXCEPT !.buf = Block(Fresh("bytes")), !.alloclen = size])
            /\ UNCHANGED cbuf

_bson_append(h, d, data, call) ==
    LET need == d.len + call.n_bytes
        room == IF "INLINE" \in d.flags THEN InlineSize ELSE BufLen(d)
    IN  \E bytes \in {Sealed(d, data, call)} : \E after \in {[d EXCEPT !.len = Len(bytes)]} :
            IF need <= room THEN InPlace(h, after, bytes)
            ELSE IF "INLINE" \in d.flags THEN Spilled(h, after, PowerOfTwo(need), bytes)
                                         ELSE Moved(h, after, PowerOfTwo(need), bytes)

Appendable(h, call) ==
    Writable(h) /\ call # Refused /\ docs[h].len + call.n_bytes <= MaxBytes

(* The value of the caller: a copy, or read where bson_iter_value found it. *)
ValueNow == IF value.at = "borrowed" THEN Elements(Data(value.from))[value.index].value
                                     ELSE value.v

AppendValue(h, key, v) ==
    /\ \E call \in {bson_append_value(key, v)} :
           Appendable(h, call) /\ _bson_append(h, docs[h], Data(h), call)
    /\ Extend(h, <<[key |-> key, value |-> Kept(v)]>>) /\ UNCHANGED value

(* The calls bson_append_iter makes for the elements of g, under the keys  *)
(* they have there.                                                        *)
Again(d, walk) == [i \in DOMAIN walk |-> [key  |-> bson_iter_key(d, walk[i]),
                                         call |-> bson_append_iter(bson_iter_key(d, walk[i]), d, walk[i])]]
Appends(g) == Again(Data(g), Walk(Data(g)))

AppendIter(h, g) ==
    /\ Live(g) /\ Writable(h) /\ g # h
    /\ \E appends \in {Appends(g)} : \E i \in DOMAIN appends :
           /\ Appendable(h, appends[i].call)
           /\ _bson_append(h, docs[h], Data(h), appends[i].call)
           /\ Extend(h, <<contents[g][i]>>)
    /\ UNCHANGED value

bson_concat(h, g) ==
    LET body == SubSeq(Data(g), 5, docs[g].len - 1) IN
    /\ Live(g) /\ g # h /\ Writable(h) /\ docs[h].len + Len(body) <= MaxBytes
    /\ IF body = <<>> THEN UNCHANGED <<docs, mem, cbuf>>
       ELSE _bson_append(h, docs[h], Data(h), Appending(Len(body), <<body>>))
    /\ Extend(h, contents[g]) /\ UNCHANGED value

(* _bson_copy_to_excluding_va appends the elements one by one; the last    *)
(* growth leaves what one for all of them does.                            *)
should_ignore(key, excluded) == key \in excluded

Excluding(appends, excluded) ==
    LET kept == SelectSeq(appends, LAMBDA a : ~should_ignore(a.key, excluded))
    IN  Appending(FoldLeft(LAMBDA n, a : n + a.call.n_bytes, 0, kept),
                  [i \in DOMAIN kept |-> kept[i].call.bytes])

bson_copy_to_excluding(g, h, excluded) ==
    /\ Live(g) /\ ~Live(h)
    /\ \E call \in {Excluding(Appends(g), excluded)} :
           /\ 5 + call.n_bytes <= MaxBytes
           /\ _bson_append(h, InlineDoc(h, Stack, EmptyDocument), EmptyDocument, call)
    /\ Make(h, Without(contents[g], excluded)) /\ UNCHANGED value

bson_copy_to_excluding_noinit(g, h, excluded) ==
    /\ Live(g) /\ g # h /\ Writable(h)
    /\ \E call \in {Excluding(Appends(g), excluded)} :
           docs[h].len + call.n_bytes <= MaxBytes /\ _bson_append(h, docs[h], Data(h), call)
    /\ Extend(h, Without(contents[g], excluded)) /\ UNCHANGED value

bson_reinit(h) ==
    /\ Writable(h)
    /\ InPlace(h, [docs[h] EXCEPT !.len = 5], EmptyDocument)
    /\ Make(h, <<>>) /\ UNCHANGED value

-----------------------------------------------------------------------------
(* What bson_destroy of d frees: its bytes and the bson_t.                 *)
Frees(d) ==
    (IF d.flags \cap {"RDONLY", "INLINE", "NO_FREE"} = {} THEN {BlockOf(d.buf)} ELSE {})
        \cup (IF "STATIC" \notin d.flags THEN {d.struct} ELSE {})

bson_destroy(h) ==
    /\ Live(h) /\ ~Borrowed(h)
    /\ Put(h, NoDoc) /\ mem' = Free(mem, Frees(docs[h]))
    /\ IF h \in Lent THEN ToBuffer(h) ELSE Drop(h)
    /\ UNCHANGED <<cbuf, value>>

(* Of a document whose bytes are those of the caller's buffer, dst would   *)
(* get a NULL pointer: those are left out.                                 *)
StolenFrom(d) == IF "STATIC" \in d.flags THEN {} ELSE {d.struct}

bson_steal(dst, src) ==
    /\ ~Live(dst) /\ Live(src) /\ ~Borrowed(src) /\ src \notin Lent
    /\ IF Is(src, "RDONLY")
       THEN /\ Put(dst, InlineDoc(dst, Stack, EmptyDocument)) /\ Make(dst, <<>>)
            /\ UNCHANGED mem
       ELSE /\ docs' = [docs EXCEPT
                  ![src] = NoDoc,
                  ![dst] = IF Is(src, "INLINE") THEN InlineDoc(dst, Stack, Data(src))
                           ELSE [docs[src] EXCEPT !.flags = @ \cup {"STATIC"}, !.struct = Stack]]
            /\ mem' = Free(mem, StolenFrom(docs[src])) /\ Move(src, dst)
    /\ UNCHANGED <<cbuf, value>>

(* bson_destroy_with_steal into the caller's buffer.  In the variant the   *)
(* document still frees what it gave away.                                 *)
GivenAway_StillFreed(d) == Frees(d)
GivenAway(d) == Frees(d) \ (IF d.buf.at = "block" THEN {d.buf.of} ELSE {})

bson_destroy_with_steal(h) ==
    /\ Live(h) /\ ~Borrowed(h) /\ ~Is(h, "RDONLY")
    /\ cbuf.block = Null \/ h \in Lent
    /\ Put(h, NoDoc)
    /\ IF Is(h, "INLINE")
       THEN /\ mem' = Malloc(Free(mem, Frees(docs[h])), Fresh("bytes"), docs[h].len, Data(h))
            /\ cbuf' = [block |-> Fresh("bytes"), len |-> docs[h].len]
       ELSE /\ mem' = Free(mem, GivenAway(docs[h]))
            /\ cbuf' = [block |-> BlockOf(docs[h].buf), len |-> docs[h].len]
    /\ ToBuffer(h) /\ UNCHANGED value

(* The program frees the buffer it has.                                    *)
FreeBuffer ==
    /\ cbuf.block # Null /\ Lent = {}
    /\ mem' = Free(mem, {cbuf.block}) /\ cbuf' = NoBuffer
    /\ LoseBuffer /\ UNCHANGED <<docs, value>>

-----------------------------------------------------------------------------
(* The program's bson_value_t: read from a document in place, copied by    *)
(* bson_value_copy, and done with.                                         *)
BorrowValue(h) ==
    /\ value.at = "none" /\ Live(h)
    /\ \E walk \in {Walk(Data(h))} : \E i \in DOMAIN walk :
           /\ value' = [at |-> "borrowed", from |-> h, index |-> i]
           /\ Hold(contents[h][i].value)
    /\ UNCHANGED <<docs, mem, cbuf>>

bson_value_copy ==
    /\ value.at = "borrowed"
    /\ LET blocks == {<<"value", i>> : i \in 1 .. BlocksOf(ValueNow)} IN
       /\ value' = [at |-> "owned", v |-> ValueNow, blocks |-> blocks]
       /\ mem' = [b \in DOMAIN mem \cup blocks |->
                     IF b \in blocks THEN [size |-> 0, bytes |-> <<>>] ELSE mem[b]]
    /\ UNCHANGED <<docs, cbuf, store>>

bson_value_destroy ==
    /\ value.at # "none" /\ value' = NoValue /\ Hold(Nothing)
    /\ mem' = IF value.at = "owned" THEN Free(mem, value.blocks) ELSE mem
    /\ UNCHANGED <<docs, cbuf>>

-----------------------------------------------------------------------------
Init == /\ docs = [h \in Slots |-> NoDoc] /\ mem = <<>> /\ cbuf = NoBuffer /\ value = NoValue
        /\ Begins

Create == \E h \in Slots :
    \/ bson_init(h) \/ bson_new(h) \/ bson_new_from_buffer(h)
    \/ \E size \in Reserves : bson_sized_new(h, size)
    \/ \E g \in Slots : bson_copy(g, h) \/ bson_copy_to(g, h) \/ bson_init_static(g, h)
    \/ \E g \in Slots, key \in Keys : bson_copy_to_excluding(g, h, {key})

Change == \E h \in Slots :
    \/ bson_reinit(h)
    \/ \E e \in Given : AppendValue(h, e.key, e.value)
    \/ \E key \in Keys : value.at # "none" /\ AppendValue(h, key, ValueNow)
    \/ \E g \in Slots : bson_concat(h, g)
    \/ \E g \in Slots : AppendIter(h, g)
    \/ \E g \in Slots, key \in Keys : bson_copy_to_excluding_noinit(g, h, {key})

Destroy == \E h \in Slots :
    \/ bson_destroy(h) \/ bson_destroy_with_steal(h)
    \/ \E g \in Slots : bson_steal(g, h)

UseValue == \/ \E h \in Slots : BorrowValue(h)
            \/ bson_value_copy \/ bson_value_destroy

WithinBound ==
    LET all == [h \in Slots |-> IF contents[h] = Nothing THEN 0 ELSE Len(contents[h])]
    IN  /\ FoldFunction(+, 0, all) + (IF buffer = Nothing THEN 0 ELSE Len(buffer)) <= MaxElements
        /\ Cardinality(DOMAIN mem) <= MaxBlocks

Next == /\ Create \/ Change \/ Destroy \/ FreeBuffer \/ UseValue
        /\ WithinBound'

Spec == Init /\ [][Next]_vars

-----------------------------------------------------------------------------
(* Every block belongs to one owner, which will free it: the bson_t itself *)
(* when it was allocated, the document, the caller's buffer, the value.    *)
(* Nothing that is pointed to was freed, and nothing is left over.         *)
Owned ==
    LET live == {h \in Slots : Live(h)} IN
    {<<"struct", h, docs[h].struct>> : h \in {h \in live : docs[h].struct # Stack}}
        \cup {<<"bytes", h, docs[h].buf.of>> :
                 h \in {h \in live : docs[h].buf.at = "block" /\ ~Is(h, "RDONLY")}}
        \cup {<<"buffer", Null, b>> : b \in {cbuf.block} \ {Null}}
        \cup {<<"value", Null, b>> : b \in IF value.at = "owned" THEN value.blocks ELSE {}}

EachBlockHasOneOwner ==
    /\ {o[3] : o \in Owned} = DOMAIN mem
    /\ \A o, p \in Owned : o[3] = p[3] => o = p
    /\ \A h \in Slots : Live(h) /\ docs[h].buf.at = "block" => docs[h].buf.of \in DOMAIN mem

(* A document is as long as it says, and fits the room it counts with,     *)
(* which is really there.                                                  *)
DocumentsFit ==
    \A h \in Slots : Live(h) =>
        /\ Len(Data(h)) = docs[h].len /\ IsDocument(Data(h))
        /\ docs[h].len <= (IF Is(h, "INLINE") THEN InlineSize ELSE BufLen(docs[h]))
        /\ ~Is(h, "RDONLY") /\ ~Is(h, "INLINE") =>
              BufLen(docs[h]) <= mem[BlockOf(docs[h].buf)].size

(* An inline document is no longer than the bytes of the bson_t it is in,  *)
(* as the assertion of _bson_append_bson_begin has it.                     *)
InlineFits == \A h \in Slots : Live(h) /\ Is(h, "INLINE") => docs[h].len <= InlineSize

(* The bson_t variables, the buffer and the value hold what BsonStore says *)
(* they do, byte for byte: no call changed any other one.                  *)
Encoded(elements) ==
    Document(FlattenSeq([i \in DOMAIN elements |->
                bson_append_value(elements[i].key, elements[i].value).bytes]))

ContentsKept ==
    /\ \A h \in Slots : IF Live(h) THEN Data(h) = Encoded(contents[h]) ELSE contents[h] = Nothing
    /\ IF cbuf.block # Null /\ Lent = {} THEN mem[cbuf.block].bytes = Encoded(buffer)
                                        ELSE buffer = Nothing
    /\ held = IF value.at = "none" THEN Nothing ELSE ValueNow

=============================================================================
