# libbson in TLA+

Specifications of libbson (`src/src/bson`), the library that builds, reads,
iterates and streams BSON documents in C: what TLC checks of them on small
instances, and what TLAPS proves of them for every instance.

Contents: [the system](#the-system) - [the modules](#the-modules) -
[the runs](#the-runs) - [the proofs](#the-proofs) -
[disagreements found](#disagreements-between-code-and-documentation) -
[not modelled](#what-is-not-modelled) - [plan](#plan).

Checking a run: `tlc -config BsonIter.cfg MCBsonIter`; a proof:
`tlapm BsonReader_proofs.tla`.


## The system

libbson is a library without threads, files or timers of its own.  What it keeps
between calls is in objects of the caller; what makes it hard is that those
objects share bytes, that callers cut work into calls in any order, and that
every length that is trusted comes from bytes or from a sum of `uint32_t`s.

| part (source) | state it keeps | operations | what makes it correct |
|---|---|---|---|
| `bson_t` (`bson.c`, `bson-private.h`) | flags, `len`, and the buffer: inside the struct, on the heap, or through pointers shared with parents (`parent`, `depth`, `offset`) | new, init, append_*, append_document/array_begin and _end, reinit, reserve_buffer | nested documents write to one buffer that moves and grows under all of them; no write leaves it; the open document is readable at any time; ending a child never needs room that is not there |
| ownership (`bson.c`) | who frees the buffer: `STATIC`, `RDONLY`, `NO_FREE`, `INLINE`, `CHILD` | init_static, new_from_buffer, copy_to, steal, destroy, destroy_with_steal | each buffer has one owner and is freed once |
| append functions (`bson.c`, `bson-value.c`) | a `bson_value_t` owns copies of its strings | one per type, append_iter, append_value, concat, copy_to_excluding | the length reserved is the length copied; what is appended is what is read back |
| `bson_iter_t` (`bson-iter.c`) | `raw`, `len`, `off`, the offsets `d1`..`d4` of the parts of the value, `next_off`, `err_off` | init, next, recurse, find*, getters, overwrite_* | it stops at exactly the elements of the grammar, tells the end from corruption, and never points outside the document |
| `bson_iter_visit_all`, `bson_validate` (`bson-iter.c`, `bson.c`) | the visitor's; for validation a phase, an error and its offset | a callback per type, recursion into documents | everything is visited unless a callback stops it; a document is valid iff it is |
| `bson_reader_t` (`bson-reader.c`) | a buffer and a window in it, bytes read, `done`, `failed` | new_from_handle/fd/file/data, read, tell, reset, destroy; calls the *read* callback | the documents of the stream, once, in order, however the callback cuts it |
| `bson_writer_t` (`bson-writer.c`) | pointers to the caller's buffer and length, `offset`, `ready`, a `bson_t` | new, begin, end, rollback, get_length; the caller appends in between; calls the *realloc* callback | documents lie one behind the other; one given up leaves no trace |
| `bson_context_t`, ObjectIds (`bson-context.c`, `bson-oid.c`) | the counters, the cached pid, one default context per process | oid_init, oid_init_sequence from any thread, fork | no two ObjectIds are equal |
| `bson_json_reader_t` (`bson-json.c`, vendored `jsonsl`) | the producer's chunk, the text of an unfinished token, the stack of documents being built, the state of an extended-JSON value | read, ingest | the same document however the text is cut into chunks |
| `bson_as_json`, `bson_string_t`, UTF-8, `bcon`, keys, values, decimal128, ISO 8601, MD5, base64 | none, or a growing string | conversions | the right answer |
| memory, clock, errors, atomics | none | wrappers of the platform | |

They interact as follows.  The writer embeds a `bson_t` (static, `NO_FREE`) in
the caller's buffer and leaves the appending to the functions of `bson_t`.  A
child `bson_t` refers to the buffer, the length and the realloc function of its
root by pointers.  A reader hands out a `bson_t` that refers to the reader's
buffer and is valid until the next read.  Iterators, and the iterators of
subdocuments, refer to the bytes of a document.  Validation and JSON output are
visitors driven by an iterator; the JSON reader, `bcon` and `bson_append_iter`
build through the append functions.

Hard to test, and so what the properties are for (each is listed at its line
under `hazards` in `PROJECT.json`): a callback that returns any part of what was
asked for, or fails, at any call; buffers that are moved or doubled in the middle
of a call, with other objects pointing into them; a failure between two effects
of one call; a subdocument abandoned half-way; lengths at the limit of `int32_t`;
threads and forked processes that draw from one counter; loops over input whose
termination depends on every branch moving forward.


## The modules

| module | models | uses |
|---|---|---|
| `DocStream` | what a reader promises, abstractly | |
| `BsonReader` | `bson_reader_t` over a callback | `DocStream` |
| `BsonDataReader` | `bson_reader_t` over memory | `DocStream` |
| `BsonReaders` | both over the same bytes | `BsonReader`, `BsonDataReader` |
| `BsonDocument` | building a `bson_t` | |
| `BsonWriter` | `bson_writer_t`, which builds with `BsonDocument` | `BsonDocument` |
| `BsonContext` | ObjectIds, threads, fork | |
| `BsonBytes` | the grammar of an element, as what its bytes are | |
| `BsonIter` | `bson_iter_t` | `BsonBytes` |
| `BsonElements` | the append functions, `bson_iter_value` | `BsonBytes` |
| `BsonStore` | what a program's documents, buffer and value hold, abstractly | |
| `BsonValues` | the kinds of `bson_t`, who owns their bytes; `bson_value_t` | `BsonElements`, `BsonStore` |
| `Jsonsl` | the JSON tokenizer | |
| `BsonVisit` | `bson_iter_visit_all`, `bson_validate` | |
| `BsonJsonDocument` | tokens to documents: the states of extended JSON | `Jsonsl`, `BsonVisit` |
| `BsonJsonReader` | `bson_json_reader_t`: chunks, documents one after the other | `BsonJsonDocument` |
| `BsonAsJson` | documents to extended JSON, in three forms | `BsonJsonDocument` |
| `BsonJson` | the reader over what the printers wrote | `BsonJsonReader`, `BsonAsJson` |
| `BsonUtf8`, `BsonTexts`, `BsonDates`, `BsonDecimal128`, `BsonBcon` | the conversions, as functions | |
| `BsonAlgorithms` | those, `BsonElements` and `BsonVisit`, each asked about its inputs | all of them |
| `BsonReader_proofs` | the theorems about `BsonReader` | `BsonReader` |
| `BsonReaders_proofs` | the theorems about `BsonReaders` | `BsonReaders`, `BsonReader_proofs` |
| `BsonDocument_proofs` | the theorems about `BsonDocument` | `BsonDocument` |
| `BsonWriter_proofs` | the theorems about `BsonWriter` | `BsonWriter`, `BsonDocument_proofs` |
| `BsonContent_proofs` | the theorems about what the bytes of both say | `BsonWriter_proofs` |
| `BsonContext_proofs` | the theorems about `BsonContext` | `BsonContext` |
| `BsonIter_proofs` | the theorems about `BsonIter` | `BsonIter` |
| `BsonValues_proofs` | the theorems about `BsonValues` | `BsonValues` |
| `MC...` | the instances for TLC | |

A definition with an underscore after a name that also exists without it
(`FillAgain_EndLost`, `Deliver_NulKept`) is a variant: the code with a plausible bug.
`PROJECT.json` says which property fails when the variant takes the place of the
definition, so that each property is known to depend on the code.

### Readers

A byte of the stream is known by its position, so the buffer of `BsonReader` is a
function from indices to positions of the stream (or `Junk`), and "these are the
stream's next bytes" is a statement about integers.  What bytes say is kept
beside: `stream.hdr[p]` is the `int32` that starts at `p`, `stream.nul[p]` whether
the byte at `p` is zero.  `data`, `len`, `end`, `offset`, `bytes_read`, `done` and
`failed` are the fields of `bson_reader_handle_t`.  One step is one iteration of
the loop of `_bson_reader_handle_read`, with the call of the callback it may
make: `FillForLength`, `FillForDocument` (which grows the buffer first when the
document is longer than it), `RejectLength`, `RejectDocument`, `Deliver`,
`Exhausted`.  The callback returns -1, 0, or any number of bytes up to what is
asked for and left; an error may be followed by success.  `reached_eof` is the
out-parameter.  `BsonDataReader` needs no loop: a read is one action.

`DocStream` is the promise: the documents of the stream one after the other, then
`NULL` for good, and `NULL` only where no whole document follows or after a
fault.  `BsonReader` implements it with `faulty <- ioError` and
`open <- result # "null"`; `BsonDataReader` does between two resets.

### Building documents

`BsonDocument` has one stack of open documents, the root first: libbson asserts
that a document with an open child is not appended to, so only the last takes
appends.  `buf`, `buflen` and `realloc` are what all of them reach through the
pointers in `bson_impl_alloc_t`.  A cell of the buffer says which byte it is
(byte *j* of length *n*, a NUL, part of a key, part of element *e*), so that a
wrong, lost or misplaced byte can be told.  An element is two numbers: `n_bytes`,
which `_bson_append` reserves, and `size`, which `_bson_append_va` copies.  An
action is one call of the API with everything it does: `AppendElement` grows,
copies, sets length and NUL; `BeginChild` first moves an inline parent to the
heap, may then still fail (and leaves the parent moved), appends an empty document
and points the child at it; `EndChild` adds the child's bytes to its parent.
`elements` is a history variable: for each open document its key and its body, the
cells of what was appended to it.  No action reads it; `CurrentEncodesItsElements`
compares it with the buffer, which growth moves, appends write and children share.

`BsonWriter` extends it.  The writer's document is `stack[1]` with
`offset = writer.offset` and the flags of `bson_writer_begin`; the buffer is the
caller's, with or without a realloc function.  `bson_writer_rollback` may come at
any time, with subdocuments open.

### ObjectIds

Each thread of each process goes through `bson_oid_init` in the steps in which it
touches what is shared: the time, the default context (`pthread_once`), the pid
(cached or `getpid ()`), the counter.  The counter is one atomic step with
`BSON_CONTEXT_THREAD_SAFE` and a load and a store without.  `Fork` copies the
context of a process while other threads of it are anywhere in their calls.  The
flags are chosen at the start and bind the caller: a context without
`THREAD_SAFE` is used by one thread at a time, one with a cached pid is not
carried over a fork.

### Iterating

`BsonIter` works on bytes, because what it has to get right is arithmetic on
lengths that bytes hold.  `Value` and the operators it dispatches to are the
branches of `_bson_iter_next_internal`: the checks in their order, and `err_off`
of each.  `iters` is the stack of iterators a caller has: the document's, and those
of `bson_iter_recurse`; all read `data`, which `bson_iter_overwrite` changes.  The
find functions are loops of `bson_iter_next`, taken a step at a time;
`bson_iter_find_descendant` pushes its temporaries on the same stack and leaves
only the descendant.  `BsonBytes` defines independently which bytes are an
element: strings, C strings and values as relations between two offsets.

An `uint32` of 2^31 or more is one value, `Huge`: the code compares it with
lengths below 2^31 only, or would compute with it modulo 2^32 in sums that the
checks before them bound.  The inner length of an old-style binary may lie beyond
the window; the code reads it all the same, and the model allows both offsets of
error that the bytes there can lead to.


### Owning

`BsonValues` has two `bson_t` variables, the caller's buffer (the `buf` and
`buf_len` given to `bson_new_from_buffer`) and a `bson_value_t`.  `mem` is the set
of blocks `malloc` gave and nobody freed; a block is freed by removing it, so that
a second free, a leak or a pointer to what was freed is a difference between `mem`
and what is owned.  Each function that makes, changes or ends a `bson_t` is one
action; what it means is one of the few operators of `BsonStore`: a document gets
contents, is extended, moves, goes to the buffer.  `ContentsKept` compares the two
byte for byte, so a call that changes another document than it should is seen.
The caller keeps to what the API asks: what is read in place (`bson_init_static`,
a value not copied) is neither changed nor destroyed, and a document is not
appended to itself.

`BsonElements` is the bytes: `n_bytes`, which is reserved, beside the pieces that
are copied, type by type, and the reading of a value back through an iterator.

### JSON

`Jsonsl` is a function from the tokenizer's record and a character to the record
and the callbacks it makes; `BsonJsonDocument` from the reader's record and a
callback to the record.  In both a string is a sequence of pieces - a character or
a run of ordinary ones - and a number is a small integer, with `Int32Max` and
`Int64Max` scaled down and the wrap of `uint64_t` kept.  Handlers are grouped as
in the source (`_bson_json_read_map_key`, `_bson_json_read_string`, ...), and
`read_state`, `bson_state`, `bson_type`, the union `bson_type_data`, the key
buffers and the stack are carried from one to the next, also where the source
leaves in them what it no longer needs.

`BsonJsonReader` is the loop: a step is a call of the callback with everything done
with what it returned.  The tokenizer counts positions in the document and the
reader offsets in a chunk; `start_pos`, `json_text_pos` and `advance` relate them.
`BsonJson` puts the printers before the reader: a text is printed from documents in
one of the three forms, or it is one of some sixty wrong ones.  For each text the
outcome of one large chunk is computed at the start (`whole`).

### Conversions

`BsonAlgorithms` has one step: an input is asked about and answered by the model of
the code.  What the answer should be is stated in another way: the table of
well-formed UTF-8, a calendar that counts days, the document a tree of arguments
describes, a decimal as a number and a power of ten.  `bson_validate` is compared
with a recursive definition of a valid document.

`BsonDates` takes the calendar of `bson-timegm.c` twice: with real seconds over the
range of an `int32`, and with days of one second, for the years an `int32` of
seconds does not reach.  `BsonDecimal128` has 3 digits for 34 and exponents from -9
to 2; significands of 2^10 or more stand for those of 2^113 or more.  Its answers were
compared with those of `bson-decimal128.c`, compiled with the same limits, on all
33,592 texts of the run.  `BsonBcon` works on sequences of tokens, with
`BCON_STACK_MAX` 5.


## The runs

| run | module, configuration | states | shows |
|---|---|---|---|
| `readers` | `MCBsonReaders`, `BsonReaders.cfg` | 8,122 | the handle reader delivers the stream, ends every call and implements `DocStream`; so does the memory reader, and they agree |
| `reader_error` | `MCBsonReader`, `BsonReaderError.cfg` | violation | a failed first read looks like the end |
| `document` | `MCBsonDocument`, `BsonDocument.cfg` | 81,866 | documents encode what was appended and stay in the buffer |
| `writer` | `MCBsonWriter`, `BsonWriter.cfg` | 40,808 | the caller's buffer holds the documents ended and nothing else |
| `writer_space` | `MCBsonWriter`, `BsonWriterSpace.cfg` | violation | `bson_writer_begin` clears one byte more than it made room for |
| `context` | `MCBsonContext`, `BsonContext.cfg` | 1,377,262 | ObjectIds are distinct across threads and forks |
| `iter` | `MCBsonIter`, `BsonIter.cfg` | 109,020 | iterators stay on the grammar, inside the document, and find the first match |
| `values` | `MCBsonValues`, `BsonValues.cfg` | 125,642 | every block has one owner, documents stay in theirs and hold what the calls said |
| `inline_fits` | `MCBsonValues`, `BsonInlineFits.cfg` | violation | `bson_append_regex` reserves one byte too few |
| `json` | `MCBsonJson`, `BsonJson.cfg` | 6,704 | what is printed is read back; chunks make no difference |
| `algorithms` | `MCBsonAlgorithms`, `BsonAlgorithms.cfg` | 114,360 | each conversion against a definition of its answer |
| `scope_ends_validation` | `MCBsonAlgorithms`, `BsonScopeEnds.cfg` | violation | what follows a valid code with scope is not validated |

Bounds, and why they are enough:

* *Readers.*  Thirteen streams (`MCStreams`): empty, one to three documents, cut
  short, a document without NUL, lengths below 5, negative and longer than what
  follows, trailing bytes of one to five.  The buffer is 8 bytes rather than 1024,
  so documents of 5 to 18 bytes are smaller than, equal to, and more than twice the
  buffer: it is refilled, moved and doubled (twice) within a document and within a
  length prefix.  Every way of cutting the reads is explored.
* *Documents.*  The sizes of libbson scaled down: 12 bytes inline for 120, 13 for
  the spill of 128, `MaxSize` 63 for `INT32_MAX`; that leaves three growths, three
  levels of subdocuments and, at the end, the limit.  Two elements differ in size,
  the smaller one fits an inline document.  There is no other bound: `MaxSize`
  makes the space finite.
* *Writer.*  Caller buffers of 0, 7 (starting at 2) and 20 bytes (starting at 1,
  without realloc); `MaxBuffer` ends the sequence of documents after three or
  four.
* *ObjectIds.*  Two processes, two threads each (interchangeable: symmetry), three
  ObjectIds per process, a counter that comes round after 4, a clock of two
  seconds.  `MaxOids <= SeqRange` and distinct pids modulo 2^16 are assumptions
  (`OidsAssumption`, `PidsAssumption`): without them ObjectIds do repeat, as the
  format implies.
* *Owning.*  Two `bson_t`, three elements in all, three blocks: enough for a view of
  a document that is copied, a document stolen after it was grown, and the buffer
  given back grown.  `InlineSize` is 14 for 120, so that a document spills with its
  first, second or third element.
* *JSON.*  Documents with a value of every type, in every form, alone and nested
  where the handlers keep the state of one value in the next; sequences of up to
  three documents; chunks of 1, 2, 3, 5 and 8 pieces and whole; a stack of 7 for 100.
* *Conversions.*  Inputs on both sides of every comparison in the source: every class
  of bytes of UTF-8 in two positions, and the limits of its longer forms; every type
  of value with no, one and several bytes; every order of up to three keys of a
  DBRef; valid and invalid scopes, one in another, in a DBRef, in a subdocument, with and
  without something behind them; every length of an ObjectId but one or two wrong characters; every base64
  text of four characters from five classes; every date text with one character
  changed or missing; decimals of up to seven digits with the point in each place
  and exponents past both limits; trees of arguments up to two wide and five deep.
* *Iterating.*  Documents of an element of every type - whole, and broken in each
  way the code has a check for - alone, before and after another element, and
  embedded in documents and arrays up to two deep, with lengths of 0, 3, 5 and 9
  and with a missing NUL.  Keys of zero to two bytes, dotted keys of up to three
  components.  Overwriting writes bytes of 255, which no other byte of the values
  overwritten is.

`CHECK_DEADLOCK FALSE` is set everywhere: every object may be destroyed, a caller
may stop calling, and an exhausted iterator takes no further step.

Properties, by what they are about (the comment above each says what it states):

* *Readers:* `DeliveredInOrder`, `EofIsEndOfStream`, `BufferBounded`,
  `CallReturns` (liveness), `ImplementsDocStream` (refinement); `ReadersAgree`,
  `MemoryImplementsDocStream`.  `BufferIsWindow`, `NullMeansNoDocument`
  and `NullIsFinal` are implied by the invariant and the refinement; they are
  proved, and have no run.
* *Documents:* `Nested`, `WritesFit`, `RoomForParents`, `LengthsFit`,
  `CurrentEncodesItsElements`.  `TypeOK` is proved, and has no run.
* *Writer:* `FinishedAdjacent`, `FinishedKept`, `FinishedEncode`, `AppendsFit`.
* *ObjectIds:* `OidsUnique`, `SequenceUnique`.
* *Iterating:* `AtElement`, `EndIsRight`, `GettersInside`, `ChildrenInside`,
  `OverwriteInPlace`, `FindIsFirst`, `FindReturns` (liveness).
* *Owning:* `EachBlockHasOneOwner`, `DocumentsFit`, `ContentsKept`.
* *JSON:* `TokensWhole`, `ReadsBack`, `ChunkingInvisible`, `StackFits`.
* *Conversions:* `Utf8Exact`, `ElementsReadBack`, `ValidateExact`, `DatesExact`,
  `TextsReadBack`, `DecimalsExact`, `BconDescribes`.

Fairness.  Safety needs none.  `CallReturns` assumes weak fairness of `Progress`,
an iteration of the loop in which the callback did not just begin to fail: a
thread inside `bson_reader_read` runs on, and the callback returns.  Nothing makes
the caller call again, and the callback is not assumed to succeed.  `FindReturns`
assumes weak fairness of `Find`, the loop of a call already made.  That a read of
JSON returns is not stated: each of its steps takes a chunk or ends, and the model
makes one step of what the code does with a chunk.


## The proofs

`BsonReader_proofs`, for every initial buffer of at least 4 bytes
(`InitLenAssumption`), every set of streams (`StreamsAssumption`: lengths and
zero bytes are given for every position) and every behaviour of the callback:

| theorem | states |
|---|---|
| `Invariance` | the inductive invariant `IInv` |
| `TypeCorrect`, `BufferStaysBounded` | `TypeOK`, `BufferBounded` |
| `DeliversStream` | `DeliveredInOrder` |
| `NullIsRight`, `EofIsRight` | `NullMeansNoDocument`, `EofIsEndOfStream` |
| `NullStaysFinal` | `NullIsFinal`, an action property |
| `Refinement` | `Spec => Abstract!Spec`: the reader implements `DocStream` |

`TypeOK`, `BufferIsWindow` and `DeliveredInOrder` are preserved together: a
document is delivered from the buffer, so it is the stream's because the buffer is
a window of the stream (`ReadsStream`: length and last byte read from the buffer
are those of the stream).  They do not say what a `NULL` means.  For that `IInv`
adds `Stuck` - after a `NULL` the reader is done, or its unread bytes begin with
something no later call can accept - and `DoneMeans`: `done` is set only at the end
of the stream or by an error.  With `Stuck`, a call after a `NULL` cannot deliver,
which is `NullIsFinal` and the step `open' = FALSE` of the refinement; with
`DoneMeans`, `reached_eof` is right.  The filling of the buffer occurs in three
places with two buffers (`data` and the one just grown), so what it leaves is one
lemma about any buffer that agrees with `data` on the unread bytes; each action
then has one step.

`BsonReaders_proofs`, from the same assumptions, for a handle reader and a memory reader
whose calls come in any order:

| theorem | states |
|---|---|
| `BothInvariance` | the inductive invariant `BothInv` |
| `ReadersAlwaysAgree` | `ReadersAgree` |
| `MemoryRefinement` | `MemoryImplementsDocStream`, an action property |

Neither reader is ahead of the other, so the comparison is of what both have returned
(`SamePrefix`): where they agree on *k* documents the next one starts at the same
position on both sides (`SameEnds`), and what is there is the stream's on both.  Were one
of them at `NULL` with fewer documents than the other, the next document of the other
would lie whole where the first one stopped, which `Stuck` and `MemoryInv` exclude
(`SameAtTheEnd`).  That the handle reader then reports the end needs `EndNoted`: a call
that found `done` set `reached_eof`, unless a read had failed.

`BsonDocument_proofs`, for all sizes (`SizesAssumption`, `ParametersAssumption`)
and all elements that copy no more bytes than they reserve (`Reserved`, a hypothesis
of each theorem: it is what an append function owes `_bson_append`, and the one
that does not keep it is `bson_append_regex`, `bson.c:1577`, which reserves one byte
less than it copies):

| theorem | states |
|---|---|
| `Invariance` | the inductive invariant `IInv` |
| `TypeCorrect`, `ChildrenAreNested` | `TypeOK`, `Nested` |
| `NoWriteOutside`, `EndAlwaysFits`, `LengthsStayEncodable` | `WritesFit`, `RoomForParents`, `LengthsFit` |

The argument is about `_bson_grow` (`GrowFacts`): from a document whose fields are
right, it yields the same document, possibly no longer inline, in a buffer that
holds the document, what is to be appended and a byte for each parent.  Every
append then leaves `RoomForParents` behind (`TopStep`, `PushChild`), and
`EndChildStep` uses it up: the child's depth is one more than its parent's, so the
byte kept for the parent's NUL becomes part of the parent.  `Nested` supplies the
depth.  What is missing for induction is `InlineRoot`, what
`_bson_grow` takes for granted without looking: an inline document starts at 0 and its
buffer is `InlineSize` long (it compares without the offset and without the depth).
These are `Shape`, and every call on an open document keeps it in whatever buffer the
root lies (`OpenStep`).  `LengthsFit` needs `Owned` besides: the buffer is libbson's, so
the root starts at 0 and no growth has passed `MaxSize`.  A writer's document is not
`Owned`, and there `LengthsFit` is not claimed.

`BsonWriter_proofs`, for any buffers of the caller and, as above, any sizes and elements
that keep `Reserved`; an offset at which a document is begun is at most 2^30
(`WriterAssumption`), the largest that the powers of two of `Doubled` are sure to reach,
where the code doubles a `size_t`:

| theorem | states |
|---|---|
| `WriterInvariance` | the inductive invariant `WInv` |
| `DocumentsAdjacent` | `FinishedAdjacent` |
| `FinishedStays`, `AppendsInside` | `FinishedKept`, `AppendsFit`, action properties |

The writer builds with the actions of `BsonDocument`, and its document has `Shape`, so
`OpenStep` says where those write; `AppendsInside` is that and nothing else.  What the
bytes become is `Safe`: everything in front of the root is as it was.  It holds of
`memcpy` behind the root (`CopiedSafe`) and of `realloc` (`ResizedSafe`), and it composes,
so each call is one chain of the two (`WriteSafe`).  A parent is written in front of its
child when the child is ended; `AfterRoot`, that no document of the chain starts before the
root, bounds that.  `WInv` adds that the root is at the writer's offset (`InPlace`), so that
in front of the root means in front of the offset, where the caller's bytes are and the
documents ended (`History`).

`BsonContent_proofs`, from the assumptions of both:

| theorem | states |
|---|---|
| `DocumentsEncode` | `CurrentEncodesItsElements` |
| `FinishedDocumentsEncode` | `FinishedEncode` |

Only the document that takes appends is complete.  The length of an open parent is out of
date, and behind its elements stands the type and the key of its child and then the child
itself, which has written its last NUL where the parent's will be.  The invariant
`Content` says so: a parent holds its body and the child's header up to where the child
begins (`ParentsSay`), the last document is its `Encoded` body (`CurrentSays`), and each
document begins behind its parent (`Ordered`).  A write to the last document is behind all
its parents hold, so `Safe`, of the writer's proofs, keeps them (`ParentsKept`).  An append
to the last rewrites its length, adds cells and a NUL (`AppendedSays`, `GrownSays`); an end
takes the last document away, and the body of its parent becomes longer by header and
child, which already stand there (`PopContent`).  What a writer has ended lies in front of
its offset, where nothing is written (`FinishedSay`).

`BsonContext_proofs`, for any processes, threads, flags, seeds and clock
(`ContextAssumption`), with pids that differ in the bits an ObjectId keeps
(`PidsAssumption`) and no more calls in a process than the counter has values
(`OidsAssumption`):

| theorem | states |
|---|---|
| `Invariance`, `TypeCorrect` | the inductive invariant `IInv`, its `TypeOK` |
| `OidsAreUnique`, `SequenceIsUnique` | `OidsUnique`, `SequenceUnique` |

Two processes are told apart by the pid (`PidsRight`: the one cached is the process's
own wherever it is used, because a context that caches it is not forked), two calls
of one process by the counter.  The counter grows without bound and what an ObjectId
has is its remainder, so `Distinct` is not inductive by itself; `Recent` says how far
behind the counter a number drawn can be: no further than there are ObjectIds of the
process.  One more fits because calls are counted from when they begin (`Bounded`;
`Begun` counts a set of calls, and the theorems about finite sets compare it with the
ObjectIds made), and numbers less than `SeqRange` apart have different remainders
(`ModApart`).  For a context without `THREAD_SAFE`, `Alone` says that between the load
and the store of a thread no other is in a call, so what was loaded is current; the
numbers then lie one further behind (`Late`), for the load draws what it finds and the
atomic addition what it leaves.  A fork copies the counter of the parent into a
process that has made nothing (`Started`), which breaks none of this.

`BsonIter_proofs`, for every buffer of bytes and every byte values are overwritten with
(`InputsAssumption`), any keys and paths (`KeysAssumption`: C strings, and a path has a
part), and any number of nested iterators:

| theorem | states |
|---|---|
| `Invariance` | the inductive invariant `IInv` |
| `StaysAtElements`, `StopsAtTheEnd` | `AtElement`, `EndIsRight` |
| `GettersStayInside`, `ChildrenStayInside` | `GettersInside`, `ChildrenInside` |
| `OverwritesInPlace` | `OverwriteInPlace`, an action property |
| `FindsFirst` | `FindIsFirst` |

`BsonIter` has the checks of `_bson_iter_next_internal`, branch by branch, and
`BsonBytes` the grammar.  `Fields` says what each branch leaves in the iterator when it
accepts; `AcceptedFields` and `FieldsOfValue` go from the branch to the grammar,
`RefusedIsNoValue` shows that what a branch refuses is no value, whatever end one might
give it.  Both need that an element has one end only (`EndIsUnique`), which for a
C string is that the first NUL is the least of a set (`MinFacts`, from the
well-foundedness of <).  `IInv` is the stack of iterators: each is `Valid` - before its
first element, or at one with the fields of its type - or `Stopped`, and the windows
above it lie in the document it is at (`Holds`).  Overwriting through one iterator
changes bytes that others read.  It goes through the one on top and leaves every byte
before the value as it was (`SameUntil`); the type, the key and the length by which an
iterator below is at the document that holds the value all lie before it, so these
iterators stay valid (`DocumentKept`, `OverwriteStack`).

The other two compare with `ElementsFrom`, the elements of a window from an offset on, a
recursive function on the whole of Nat.  That it has the equations of its definition is
proved first: the offsets that lie in every set closed under "the next element" are such a
function (`ElementsUnfold`).  Elements go forward and end inside the window, so what holds
where no element is, and of an element whenever of the one behind it, holds of every offset
(`ByNextElement`).  For `OverwritesInPlace` each iterator must be at an element that is
found by starting at 4 (`Listed`, kept by every step, or a change of bytes could not be
placed in the list).  The elements behind it read no byte that is written (`EndsBehind`),
its own end stays by `IInv`, and an element before it ends where it did (`EndBefore`).  Not
so clear is an embedded document with a length below 4, which the iterator accepts and
which ends inside its own length bytes: there stands a 0, no element begins, and so none of
those before the value is like this (`ShortLength`).

`Located` walks a path with a recursive function too; `WalkFacts` gives its equations, by
the lemma that a step can be repeated (`Iteration`).  `Seeking` is what the loops of a find
keep: as many parts of the path are left as were not found yet, and the place the walk
leads to next is the first with the key ahead of the iterator on top.  A `bson_iter_next`
at an element without the key leaves that place where it is, at one with it is at it, and
where it stops there is none (`AdvanceFirst`); `bson_iter_recurse` goes where the walk goes
(`DescendFirst`); a part that is not found leaves nothing for those behind it
(`WalkEnds`).  `KeyCompared` is where keys must be C strings: the code compares bytes and
one 0 behind them, the grammar asks that none before is 0.

`BsonValues_proofs`, for any finite number of `bson_t` variables (`SlotsAssumption`; a
program has finitely many, and malloc needs a block that none of them has), any elements,
keys, sizes and bounds (`DocumentsFitTheirRoom` needs `SizesAssumption` besides: inside a
`bson_t` there is room for the empty document, and no document is longer than `Largest`,
the largest power of two an int32 holds, past which a buffer cannot grow):

| theorem | states |
|---|---|
| `Invariance` | the inductive invariant `IInv` |
| `BlocksHaveOneOwner` | `EachBlockHasOneOwner` |
| `DocumentsFitTheirRoom` | `DocumentsFit`, as long as `EveryCallReserves` |
| `AppendsReserve` | what one call needs for that |

`EachBlockHasOneOwner` speaks of flags without saying which of them go together, so
`IInv` has `Types`: an inline document is in the `bson_t` it is in, one with `NO_FREE` is in
the caller's buffer, one that is none of these has a block of its own, and `STATIC` tells
whether malloc gave the `bson_t`.  `Ledger` is then the claim, by document instead of by
block.  Two things are needed besides, because calls go wrong through what *another*
`bson_t` points to: `LentOnce`, that the buffer of the caller is lent to one document at
most, or growth of one would free what the other uses; and `ViewsRight`, that a document
made by `bson_init_static` reads the bytes of one that its caller promised to leave alone
(`Source`), through any chain of such documents.  Nearly every call changes one `bson_t`;
`PutStep` says for all of them which blocks may go and come, so that each needs only the
fields of the `bson_t` it makes.  `bson_steal` changes two (`MoveStep`), freeing the
buffer and the calls on the value none (`DocsKeptStep`).  `_bson_append` is proved once
(`AppendStep`: in place, out of the `bson_t`, or moved by realloc) for the append functions,
`bson_concat`, `bson_append_iter` and both forms of `bson_copy_to_excluding`.

`DocumentsFitTheirRoom` needs `IInv` to know that a call for one `bson_t` leaves the bytes
of the others alone (`Touches`, `OthersUntouched`; a view keeps the bytes of what it
reads, because its caller promised to leave that alone).  The invariant added to it,
`FInv`, says of each document, and of the buffer lent by the caller, that the bytes are as
many as the length they begin with, end with a 0 and fit the room the next append counts
with, and that a block as large is there.  `PowerFacts` gives the size of a grown
buffer, `SealedFacts` the document an append leaves.  The hypothesis `EveryCallReserves`
is a state predicate, that no call of `_bson_append` a program can make now copies
more than it reserves; `[]` of it is true in run `values`, whose elements have no regex, and
false in run `inline_fits`, whose regex is the counterexample.  `AppendsReserve` proves it
of every append function but `bson_append_regex`, by adding up the pieces of each
(`JoinTwo` ... `JoinFive`), from `HasItsBytes`: that a double has eight bytes, an ObjectId
twelve and so on, and that the lengths are those of an int32.

Only model-checked: that a document kept in any of the ways of `BsonValues` has the
contents the calls gave it (`ContentsKept`, which speaks of the recursive walk over its
elements, and would need induction over them); JSON and the conversions; liveness
(`CallReturns`, `FindReturns`), which needs ENABLED and fairness and is outside what
TLAPS decides; what the recursive definitions of the conversions compute for every
input, which would need induction over data; and the modules that use RECURSIVE
operators, which are kept apart from those to be proved about: those of JSON,
`BsonVisit`, `BsonDecimal128` and `BsonAlgorithms`.


## Disagreements between code and documentation

Each of these is a run that TLC ends with a counterexample; `PROJECT.json`
(`findings`) quotes the text.

* `reader_error`: when the first read of a handle fails, `done` is set but not
  `failed`, and `bson_reader_read` returns `NULL` with `reached_eof` true.
* `writer_space`: `bson_writer_begin` makes sure of `offset + 5` bytes and clears
  five from `offset + 1`.
* `inline_fits`: `bson_append_regex` reserves one byte less than it copies
  (`bson.c:1577` leaves out the NUL that `bson.c:1586` copies); in a document that
  the regex would just fill, the assertion of `bson.c:463` does not hold.
* `scope_ends_validation`: `_bson_iter_validate_codewscope` returns true when the scope
  is valid (`bson.c:3341`), which stops the walk over the document the scope is in;
  `bson_validate` then returns true whatever follows.  `ValidateExact` has the
  precondition `ScopesLast`.  (With `false` there, `ScopesEndNothing` holds of all
  documents of the run.)

Met while modelling, without a run of their own.  Where a property touches
such a case, its comment names the precondition that leaves it out, or says that the
property states what the code does.

* *Readers and documents.*  A truncated last document gives `reached_eof` true from a
  handle and false from memory; a buffer cannot grow past half of `INT32_MAX` because
  it grows to powers of two; `bson_append_document_end` returns true also when the
  parent outgrows its length, in a caller's buffer larger than `INT32_MAX`.
* *Writer.*  `bson_writer_get_length` (`bson-writer.c:131`) adds the `len` of the root
  document, which does not count subdocuments still open in it, where its comment says
  that a partly written document is included.  It changes nothing and is not modelled.
* *ObjectIds.*  The counter is not monotonic when its 24 bits come round.
* *Iterating.*  A child document shorter than 5 bytes, or without its last NUL, ends
  an iteration with `err_off` 0, as if it were at its end; the last byte of the code of
  a code with scope is not looked at, as that of a string is, though
  `bson_iter_codewscope` is said to return "A NUL-terminated string"
  (`bson-iter.c:1390`), and the grammar of `BsonBytes` lets such a code pass;
  `bson_iter_find_descendant` returns false with the iterator not exhausted.
* *Owning.*  `bson_steal` of a document from `bson_new_from_buffer` returns true and
  leaves `dst` without data.
* *Validation* (`ValidateExact` is about `Readable` documents).  A value that is not
  UTF-8 passes `BSON_VALIDATE_UTF8`, because the visit stops without a word from the
  validator; a child that `bson_init_static` refuses is passed over, and printed as
  `{ "a" :  }`.
* *JSON.*  `bson_array_as_json` visits the array twice (`bson.c:3195`, `bson.c:3197`).
  `$code` and `$dbPointer` in an array take their key from what `key_buf` last held
  (`bson-json.c:1131`, `bson-json.c:1240`); a key with `\u0000` makes a document an
  iterator refuses; integers of 2^64 and more come round (`jsonsl.c:205`), `-05` is 0,
  `{"a":{"$date":{}}}` is the time 0, an infinite double is printed as what is not
  read; `{"a":1},{"b":2}` is one document with both.  Documents are printed to a depth
  of 200 and read to one below 100.
* *Decimals* (`DecimalsExact` is about `Regular` texts).  The comment above
  `bson_decimal128_from_string` (`bson-decimal128.c:422` to `428`) says that values out of
  range become infinities and that excess digits are rounded, ties to even; the code
  refuses both ("Overflow is not permitted", line 610; "Inexact rounding is not allowed",
  line 641), as the tests demand (`decimal128-4.json:117` to `161`), and `DecimalsExact`
  states that it refuses them.  A text that needs one digit
  more than there is room for at the largest exponent is let through by
  `bson-decimal128.c:602`, and what lies behind the digits is read; lines 578, 632 and
  666 look for a digit in the text by its number, as if there were no leading zeros
  or as if the point lay before it, so that digits are lost or a text with zeros at
  its end is refused; a significand between 10^34 and 2^113 is printed with 35 digits,
  while the comment at line 207 says it counts as zero.
* *Strings.*  The comment above `bson_utf8_escape_for_json` (`bson-utf8.c:249` to `251`)
  says that a NUL byte before `utf8_len` bytes is converted to the two byte UTF-8
  sequence; the code writes `\u0000`, as `bson_utf8_escape_for_json.rst:27` and
  `test-utf8.c:100` have it, and `Utf8Exact` states that.
* *Other conversions.*  Milliseconds are printed padded with blanks, which the parser of
  dates refuses, and years past 9999 are printed with five digits; base64 whose last
  character has bits of no byte is accepted; `C0 80` is valid UTF-8 where NULs are
  allowed and cannot be escaped; a string given to `bcon` that is a bracket is taken
  for the bracket unless it comes as `BCON_UTF8`.


## What is not modelled

`PROJECT.json` (`components`) lists every part with its reason.

* Without state or order of their own: `bson_string_t` (a growing string), the
  comparing and hashing of ObjectIds, `bson_compare`, the numeric conversions
  `bson_iter_as_*`, `bson_iter_time_t` and `bson_iter_timeval`, MD5 (of the name of the
  host only).
* The platform: memory, whose failure aborts the process; clock, errors, endianness,
  atomics - an atomic addition is a step of `BsonContext`.  The machine bytes of an
  ObjectId, equal for all, and the Linux task id that some builds use for the pid.
* Of `jsonsl`, what libbson does not use: JSON pointers and the unescaping utility.
* Layout: blanks and line ends between tokens, the texts of error messages, the offset
  at which validation fails.
* The 128 bits of a decimal: its significand is a number, its combination field the
  case it encodes, and the cut-off of a significand of 35 digits when it is printed is
  left out.  Where `timegm` begins its bisection: it starts from the times of an int32, or
  from fewer days, instead of those of a 64 bit `time_t`.  Base64 texts with characters of
  128 and more are not asked about.  Doubles are values that are only copied, printed and read as a whole.
* Overwriting a type that an element does not have does nothing and has no action.


## Plan

Done, in this order:

1. `BsonReader`, `BsonDataReader`, `DocStream`, `BsonReader_proofs`.
2. `BsonDocument`; 3. `BsonWriter`; 4. `BsonContext`; 5. `BsonBytes`, `BsonIter`.
6. `BsonDocument_proofs`.
7. `BsonVisit`: visiting and validation.
8. `BsonElements`: the append functions against the iterator.
9. `BsonStore`, `BsonValues`: the kinds of `bson_t`, and who frees what.
10. `Jsonsl`, `BsonJson...`, `BsonAsJson`: JSON in both directions.
11. `BsonUtf8`, `BsonTexts`, `BsonDates`, `BsonDecimal128`, `BsonBcon`,
    `BsonAlgorithms`: the conversions.
12. `BsonContext_proofs`; 13. `BsonIter_proofs`;
14. `BsonReaders_proofs`; 15. `BsonValues_proofs`; 16. `BsonWriter_proofs`;
17. `BsonContent_proofs`; 18. `OverwritesInPlace` and `FindsFirst` in `BsonIter_proofs`;
19. `DocumentsFitTheirRoom` and `AppendsReserve` in `BsonValues_proofs`.

Left: theorems.

20. The tokenizer's stack and the limit of `StackFits`, once `Jsonsl` is free of
    RECURSIVE operators.
