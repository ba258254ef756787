------------------------- MODULE BsonReaders_proofs -------------------------
(***************************************************************************)
(* The two kinds of reader over the same bytes return the same documents,  *)
(* for every stream, every initial buffer, every way the callback may cut  *)
(* the stream and every order of the calls to the two.                     *)
(***************************************************************************)
EXTENDS BsonReaders, BsonReader_proofs

Doc(p) == [at |-> p, size |-> stream.hdr[p], intact |-> TRUE]

(***************************************************************************)
(* What holds of the reader over memory between its calls: its documents   *)
(* follow each other up to offset, and after a NULL none follows.          *)
(***************************************************************************)
MemoryInv ==
    /\ d_delivered \in Seq(Abstract!DocType)
    /\ d_offset \in 0 .. stream.size
    /\ \A k \in 1 .. Len(d_delivered) :
          /\ d_delivered[k] = Doc(Memory!Abstract!EndOf(k - 1))
          /\ Abstract!WholeDocumentAt(Memory!Abstract!EndOf(k - 1))
    /\ d_offset = Memory!Abstract!Position
    /\ d_result = "null" => ~Abstract!WholeDocumentAt(d_offset)
    /\ d_result = "null" /\ d_reached_eof => d_offset = stream.size

(* Of the handle reader, what IInv does not say: an end found is reported, *)
(* and failed is set by a failed read only.                                *)
EndNoted ==
    /\ pc = "idle" /\ result = "null" /\ done /\ ~failed => reached_eof
    /\ failed => ioError

(* As far as both have come they returned the same.                        *)
SamePrefix == \A k \in 1 .. Len(delivered) :
                 k <= Len(d_delivered) => delivered[k] = d_delivered[k]

BothInv == IInv /\ MemoryInv /\ EndNoted /\ SamePrefix

-----------------------------------------------------------------------------
LEMMA StreamKept == ASSUME [Next]_vars PROVE stream' = stream
<1>1. \A l, d : FillBuffer(d, l) => stream' = stream
  BY DEF FillBuffer, FillFirst, FillAgain, CallbackReturned
<1>2. QED
  BY <1>1 DEF Next, Iterate, NewFromHandle, Call, FillForLength, RejectLength,
       FillForDocument, RejectDocument, Deliver, Exhausted, Destroy, vars, env

(* The next document of a reader over memory, if there is one.             *)
LEMMA MemoryReads ==
    ASSUME TypeOK, d_offset \in 0 .. stream.size
    PROVE  Memory!HasLength /\ Memory!Acceptable
              <=> Abstract!WholeDocumentAt(d_offset)
BY StreamType DEF Memory!HasLength, Memory!Acceptable, Memory!Blen,
      Abstract!WholeDocumentAt

LEMMA MemoryInit == ASSUME TypeOK, Memory!Init PROVE MemoryInv
BY StreamType DEF Memory!Init, MemoryInv, Memory!Abstract!EndOf, Memory!Abstract!Position

LEMMA MemoryStep == ASSUME TypeOK, MemoryInv, Memory!Next PROVE MemoryInv'
<1>0. /\ stream.size \in Nat
      /\ stream.hdr \in [0 .. stream.size -> Int]
      /\ d_delivered \in Seq(Abstract!DocType)
      /\ Len(d_delivered) \in Nat
  BY StreamType DEF MemoryInv
<1>1. CASE Memory!Deliver
  <2>1. /\ stream' = stream /\ d_result' = "doc"
        /\ d_offset' = d_offset + stream.hdr[d_offset]
        /\ d_delivered' = Append(d_delivered, Doc(d_offset))
    BY <1>1 DEF Memory!Deliver, Memory!Blen, Doc
  <2>2. Abstract!WholeDocumentAt(d_offset)
    BY <1>1, MemoryReads DEF Memory!Deliver, MemoryInv
  <2>3. /\ d_offset \in Nat /\ stream.hdr[d_offset] \in Nat
        /\ d_offset' \in 0 .. stream.size
    <3>1. d_offset \in 0 .. stream.size
      BY DEF MemoryInv
    <3>2. stream.hdr[d_offset] \in Int
      BY <1>0, <3>1
    <3>3. stream.hdr[d_offset] >= 5 /\ d_offset + stream.hdr[d_offset] <= stream.size
      BY <2>2 DEF Abstract!WholeDocumentAt
    <3>4. QED
      BY <1>0, <2>1, <3>1, <3>2, <3>3
  <2>4. Doc(d_offset) \in Abstract!DocType
    BY <2>3 DEF Doc, Abstract!DocType
  <2>5. /\ d_delivered' \in Seq(Abstract!DocType)
        /\ Len(d_delivered') = Len(d_delivered) + 1
        /\ d_delivered'[Len(d_delivered) + 1] = Doc(d_offset)
        /\ \A k \in 1 .. Len(d_delivered) : d_delivered'[k] = d_delivered[k]
    BY <1>0, <2>1, <2>4
  <2>6. \A k \in 0 .. Len(d_delivered) :
           Memory!Abstract!EndOf(k)' = Memory!Abstract!EndOf(k)
    BY <2>5 DEF Memory!Abstract!EndOf
  <2>7. d_offset = Memory!Abstract!EndOf(Len(d_delivered))
    BY DEF MemoryInv, Memory!Abstract!Position
  <2>8. ASSUME NEW k \in 1 .. Len(d_delivered')
        PROVE  /\ d_delivered'[k] = Doc(Memory!Abstract!EndOf(k - 1))'
               /\ Abstract!WholeDocumentAt(Memory!Abstract!EndOf(k - 1))'
    <3>1. k - 1 \in 0 .. Len(d_delivered)
      BY <1>0, <2>5
    <3>2. Memory!Abstract!EndOf(k - 1)' = Memory!Abstract!EndOf(k - 1)
      BY <2>6, <3>1
    <3>3. /\ d_delivered'[k] = Doc(Memory!Abstract!EndOf(k - 1))
          /\ Abstract!WholeDocumentAt(Memory!Abstract!EndOf(k - 1))
      <4>1. CASE k = Len(d_delivered) + 1
        <5>1. k - 1 = Len(d_delivered)
          BY <1>0, <4>1
        <5>2. QED
          BY <4>1, <5>1, <2>2, <2>5, <2>7
      <4>2. CASE k \in 1 .. Len(d_delivered)
        BY <4>2, <2>5 DEF MemoryInv
      <4>3. QED
        BY <1>0, <2>5, <4>1, <4>2
    <3>4. QED
      BY <2>1, <3>2, <3>3 DEF Doc, Abstract!WholeDocumentAt
  <2>9. d_offset' = Memory!Abstract!Position'
    BY <1>0, <2>1, <2>5 DEF Memory!Abstract!Position, Memory!Abstract!EndOf, Doc
  <2>10. QED
    BY <2>1, <2>3, <2>5, <2>8, <2>9 DEF MemoryInv
<1>2. CASE Memory!Reject \/ Memory!Exhausted
  <2>1. UNCHANGED <<stream, d_offset, d_delivered>> /\ d_result' = "null"
    BY <1>2 DEF Memory!Reject, Memory!Exhausted
  <2>2. ~Abstract!WholeDocumentAt(d_offset)
    BY <1>2, MemoryReads DEF MemoryInv, Memory!Reject, Memory!Exhausted
  <2>3. d_reached_eof' => d_offset = stream.size
    BY <1>2 DEF Memory!Reject, Memory!Exhausted
  <2>4. \A k : Memory!Abstract!EndOf(k)' = Memory!Abstract!EndOf(k)
    BY <2>1 DEF Memory!Abstract!EndOf
  <2>5. QED
    BY <2>1, <2>2, <2>3, <2>4
       DEF MemoryInv, Doc, Memory!Abstract!Position, Abstract!WholeDocumentAt
<1>3. CASE Memory!Reset
  BY <1>0, <1>3 DEF Memory!Reset, MemoryInv, Memory!Abstract!EndOf,
                    Memory!Abstract!Position
<1>4. QED
  BY <1>1, <1>2, <1>3 DEF Memory!Next, Memory!Read

-----------------------------------------------------------------------------
LEMMA EndNotedStep == ASSUME IInv, EndNoted, [Next]_vars PROVE EndNoted'
<1>1. ASSUME NEW l, NEW d, FillBuffer(d, l)
      PROVE  failed' => ioError'
  <2>1. CASE FillFirst(d, l)
    <3>1. PICK ret \in Returns(l) :
             failed' = failed /\ ioError' = (ioError \/ ret < 0)
      BY <2>1 DEF FillFirst, CallbackReturned
    <3>2. QED
      BY <3>1, Zenon DEF EndNoted
  <2>2. CASE FillAgain(d, l)
    <3>1. PICK ret \in Returns(l - (end - offset)) :
             /\ ioError' = (ioError \/ ret < 0)
             /\ failed' = (ret < 0 \/ (failed /\ ret > 0))
      BY <2>2 DEF FillAgain, CallbackReturned
    <3>2. QED
      BY <3>1, Zenon DEF EndNoted
  <2>3. QED
    BY <1>1, <2>1, <2>2 DEF FillBuffer
<1>2. CASE NewFromHandle
  BY <1>1, <1>2 DEF NewFromHandle, IInv, EndNoted
<1>3. CASE FillForLength \/ FillForDocument
  BY <1>1, <1>3 DEF FillForLength, FillForDocument, InLoop, caller, EndNoted
<1>4. CASE RejectLength \/ RejectDocument \/ Deliver
  BY <1>4 DEF RejectLength, RejectDocument, Deliver, InLoop, env, handle, EndNoted
<1>5. CASE Exhausted
  BY <1>5 DEF Exhausted, env, handle, EndNoted
<1>6. CASE Call \/ Destroy \/ UNCHANGED vars
  BY <1>6 DEF Call, Destroy, vars, env, handle, caller, EndNoted
<1>7. QED
  BY <1>2, <1>3, <1>4, <1>5, <1>6 DEF Next, Iterate

(* Where both have returned k documents that are the same, the next one of *)
(* either starts at the same position.                                     *)
LEMMA SameEnds ==
    ASSUME SamePrefix, NEW k \in 0 .. Len(delivered), k <= Len(d_delivered),
           Len(delivered) \in Nat
    PROVE  Abstract!EndOf(k) = Memory!Abstract!EndOf(k)
BY DEF SamePrefix, Abstract!EndOf, Memory!Abstract!EndOf

(* The documents of the handle reader, written as those of the other one.  *)
HandleDocs ==
    /\ delivered \in Seq(Abstract!DocType)
    /\ \A k \in 1 .. Len(delivered) :
          /\ delivered[k] = Doc(Abstract!EndOf(k - 1))
          /\ Abstract!WholeDocumentAt(Abstract!EndOf(k - 1))
    /\ Tell = Abstract!EndOf(Len(delivered))

LEMMA HandleInv == IInv => HandleDocs
<1> SUFFICES ASSUME IInv PROVE HandleDocs
  OBVIOUS
<1>1. delivered \in Seq(Abstract!DocType) /\ Len(delivered) \in Nat
  BY DEF IInv, TypeOK
<1>2. ASSUME NEW k \in 1 .. Len(delivered)
      PROVE  /\ delivered[k] = Doc(Abstract!EndOf(k - 1))
             /\ Abstract!WholeDocumentAt(Abstract!EndOf(k - 1))
  <2>1. /\ delivered[k].intact
        /\ delivered[k].at = Abstract!EndOf(k - 1)
        /\ Abstract!WholeDocumentAt(delivered[k].at)
        /\ delivered[k].size = stream.hdr[delivered[k].at]
    BY DEF IInv, DeliveredInOrder
  <2>2. delivered[k] \in Abstract!DocType
    BY <1>1
  <2>3. delivered[k] = Doc(Abstract!EndOf(k - 1))
    BY <2>1, <2>2 DEF Abstract!DocType, Doc
  <2>4. QED
    BY <2>1, <2>3
<1>3. QED
  BY <1>1, <1>2 DEF HandleDocs, IInv, DeliveredInOrder, Abstract!Position

(* One more document on either side is the one the other has there.        *)
LEMMA SamePrefixStep ==
    ASSUME HandleDocs, MemoryInv, SamePrefix, HandleDocs', MemoryInv',
           \/ /\ delivered' = delivered
              /\ \/ d_delivered' = <<>>
                 \/ \E x : d_delivered' = Append(d_delivered, x)
           \/ /\ d_delivered' = d_delivered
              /\ \E x : delivered' = Append(delivered, x)
    PROVE  SamePrefix'
<1> DEFINE m == Len(delivered)
           n == Len(d_delivered)
<1>1. /\ delivered \in Seq(Abstract!DocType) /\ m \in Nat
      /\ d_delivered \in Seq(Abstract!DocType) /\ n \in Nat
  BY DEF HandleDocs, MemoryInv
<1>2. /\ \A k \in 1 .. m' : delivered'[k] = Doc(Abstract!EndOf(k - 1))'
      /\ \A k \in 1 .. n' : d_delivered'[k] = Doc(Memory!Abstract!EndOf(k - 1))'
  BY DEF HandleDocs, MemoryInv
<1>3. CASE d_delivered' = <<>>
  BY <1>3, <1>1 DEF SamePrefix
<1>4. ASSUME m' \in {m, m + 1}, n' \in {n, n + 1}, m' = m \/ n' = n,
             \A k \in 1 .. m : delivered'[k] = delivered[k],
             \A k \in 1 .. n : d_delivered'[k] = d_delivered[k]
      PROVE  SamePrefix'
  <2> SUFFICES ASSUME NEW k \in 1 .. m', k <= n'
               PROVE  delivered'[k] = d_delivered'[k]
    BY DEF SamePrefix
  <2>1. CASE k <= m /\ k <= n
    BY <2>1, <1>1, <1>4 DEF SamePrefix
  <2>2. CASE ~(k <= m /\ k <= n)
    <3>1. k - 1 \in 0 .. m /\ k - 1 <= n
      BY <1>1, <1>4
    <3>2. Abstract!EndOf(k - 1) = Memory!Abstract!EndOf(k - 1)
      BY <3>1, <1>1, SameEnds
    <3>3. Abstract!EndOf(k - 1)' = Abstract!EndOf(k - 1)
      BY <3>1, <1>1, <1>4 DEF Abstract!EndOf
    <3>4. Memory!Abstract!EndOf(k - 1)' = Memory!Abstract!EndOf(k - 1)
      BY <3>1, <1>1, <1>4 DEF Memory!Abstract!EndOf
    <3>5. Doc(Abstract!EndOf(k - 1))' = Doc(Memory!Abstract!EndOf(k - 1))'
      BY <3>2, <3>3, <3>4 DEF Doc
    <3>6. k \in 1 .. n'
      BY <1>1, <1>4
    <3>7. QED
      BY <1>2, <3>5, <3>6
  <2>3. QED
    BY <2>1, <2>2
<1>5. QED
  <2>1. CASE \E x : delivered' = Append(delivered, x)
    BY <2>1, <1>1, <1>4, <1>3
  <2>2. CASE \E x : d_delivered' = Append(d_delivered, x)
    BY <2>2, <1>1, <1>4
  <2>3. QED
    BY <1>3, <2>1, <2>2

-----------------------------------------------------------------------------
LEMMA BothInitInv == BothInit => BothInv
<1> SUFFICES ASSUME BothInit PROVE BothInv
  OBVIOUS
<1>1. IInv
  BY InitInv DEF BothInit
<1>2. MemoryInv
  BY <1>1, MemoryInit DEF BothInit, IInv
<1>3. EndNoted /\ SamePrefix
  BY DEF BothInit, Init, EndNoted, SamePrefix
<1>4. QED
  BY <1>1, <1>2, <1>3 DEF BothInv

LEMMA HandleAppends ==
    ASSUME [Next]_vars
    PROVE  \/ delivered' = delivered
           \/ \E x : delivered' = Append(delivered, x)
BY DEF Next, Iterate, NewFromHandle, Call, FillForLength, RejectLength,
       FillForDocument, RejectDocument, Deliver, Exhausted, Destroy, vars, caller

LEMMA BothNextInv == BothInv /\ [BothNext]_<<vars, data_reader>> => BothInv'
<1> SUFFICES ASSUME BothInv, [BothNext]_<<vars, data_reader>> PROVE BothInv'
  OBVIOUS
<1>0. IInv /\ MemoryInv /\ EndNoted /\ SamePrefix /\ TypeOK
  BY DEF BothInv, IInv
<1>1. [Next]_vars
  BY DEF BothNext, Memory!Next, Memory!Read, Memory!Deliver, Memory!Reject,
         Memory!Exhausted, Memory!Reset, vars, env
<1>2. IInv' /\ EndNoted'
  BY <1>0, <1>1, NextInv, EndNotedStep
<1>3. CASE Memory!Next /\ UNCHANGED <<src, ioError, handle, caller>>
  <2>1. MemoryInv'
    BY <1>0, <1>3, MemoryStep
  <2>2. delivered' = delivered
    BY <1>3 DEF caller
  <2>3. \/ d_delivered' = d_delivered
        \/ d_delivered' = <<>>
        \/ \E x : d_delivered' = Append(d_delivered, x)
    BY <1>3 DEF Memory!Next, Memory!Read, Memory!Deliver, Memory!Reject,
         Memory!Exhausted, Memory!Reset
  <2>4. HandleDocs /\ HandleDocs'
    BY <1>0, <1>2, HandleInv, PTL
  <2>5. SamePrefix'
    BY <1>0, <2>1, <2>2, <2>3, <2>4, SamePrefixStep DEF SamePrefix
  <2>6. QED
    BY <1>2, <2>1, <2>5 DEF BothInv
<1>4. CASE UNCHANGED data_reader
  <2>1. /\ stream' = stream
        /\ UNCHANGED <<d_offset, d_result, d_reached_eof, d_delivered>>
    BY <1>1, <1>4, StreamKept DEF data_reader
  <2>2. \A k : Memory!Abstract!EndOf(k)' = Memory!Abstract!EndOf(k)
    BY <2>1 DEF Memory!Abstract!EndOf
  <2>3. MemoryInv'
    BY <1>0, <2>1, <2>2 DEF MemoryInv, Doc, Memory!Abstract!Position,
          Abstract!WholeDocumentAt
  <2>4. HandleDocs /\ HandleDocs'
    BY <1>0, <1>2, HandleInv, PTL
  <2>5. SamePrefix'
    BY <1>0, <1>1, <2>1, <2>3, <2>4, HandleAppends, SamePrefixStep DEF SamePrefix
  <2>6. QED
    BY <1>2, <2>3, <2>5 DEF BothInv
<1>5. QED
  BY <1>3, <1>4 DEF BothNext, data_reader

THEOREM BothInvariance == BothSpec => []BothInv
<1>1. BothInit => BothInv
  BY BothInitInv
<1>2. BothInv /\ [BothNext]_<<vars, data_reader>> => BothInv'
  BY BothNextInv
<1>3. QED
  BY <1>1, <1>2, PTL DEF BothSpec

-----------------------------------------------------------------------------
(* Where both readers returned NULL and no read failed, neither returned   *)
(* more than the other.                                                    *)
LEMMA SameAtTheEnd ==
    ASSUME BothInv, result = "null", d_result = "null", ~ioError
    PROVE  delivered = d_delivered
<1> DEFINE m == Len(delivered)
           n == Len(d_delivered)
<1>1. /\ delivered \in Seq(Abstract!DocType) /\ m \in Nat
      /\ d_delivered \in Seq(Abstract!DocType) /\ n \in Nat
      /\ HandleDocs
  BY HandleInv DEF BothInv, HandleDocs, MemoryInv
<1>2. ~Abstract!WholeDocumentAt(Abstract!EndOf(m))
  BY <1>1, StuckHasNoDocument DEF BothInv, IInv, HandleDocs
<1>3. ~Abstract!WholeDocumentAt(Memory!Abstract!EndOf(n))
  BY DEF BothInv, MemoryInv, Memory!Abstract!Position
<1>4. ~(m < n)
  <2> SUFFICES ASSUME m < n PROVE FALSE
    OBVIOUS
  <2>1. Abstract!EndOf(m) = Memory!Abstract!EndOf(m)
    BY <1>1, SameEnds DEF BothInv
  <2>2. m + 1 \in 1 .. n /\ (m + 1) - 1 = m
    BY <1>1
  <2>3. Abstract!WholeDocumentAt(Memory!Abstract!EndOf((m + 1) - 1))
    BY <2>2 DEF BothInv, MemoryInv
  <2>4. QED
    BY <1>2, <2>1, <2>2, <2>3
<1>5. ~(n < m)
  <2> SUFFICES ASSUME n < m PROVE FALSE
    OBVIOUS
  <2>1. Abstract!EndOf(n) = Memory!Abstract!EndOf(n)
    BY <1>1, SameEnds DEF BothInv
  <2>2. n + 1 \in 1 .. m /\ (n + 1) - 1 = n
    BY <1>1
  <2>3. Abstract!WholeDocumentAt(Abstract!EndOf((n + 1) - 1))
    BY <1>1, <2>2 DEF HandleDocs
  <2>4. QED
    BY <1>3, <2>1, <2>2, <2>3
<1>6. m = n
  BY <1>1, <1>4, <1>5
<1>7. \A k \in 1 .. m : delivered[k] = d_delivered[k]
  BY <1>1, <1>6 DEF BothInv, SamePrefix
<1>8. QED
  BY <1>1, <1>6, <1>7

(* Without a read error the two readers return the same documents, and     *)
(* where the data reader reports the end the handle reader does.           *)
THEOREM ReadersAlwaysAgree == BothSpec => []ReadersAgree
<1>1. BothInv => ReadersAgree
  <2> SUFFICES ASSUME BothInv PROVE ReadersAgree
    OBVIOUS
  <2>1. SameDocuments
    BY SameAtTheEnd DEF SameDocuments, BothInv, SamePrefix
  <2>2. ASSUME pc = "idle", result = "null", ~ioError,
               d_result = "null", d_reached_eof
        PROVE  reached_eof
    <3>1. delivered = d_delivered
      BY <2>2, SameAtTheEnd
    <3>2. Tell = Abstract!EndOf(Len(delivered))
      BY HandleInv DEF BothInv, HandleDocs
    <3>3. Memory!Abstract!Position = stream.size
      BY <2>2 DEF BothInv, MemoryInv
    <3>4. Tell = stream.size
      BY <3>1, <3>2, <3>3 DEF Abstract!EndOf, Memory!Abstract!EndOf,
            Memory!Abstract!Position
    <3>5. Unread <= 0
      <4>1. Tell + Unread = src /\ src \in 0 .. stream.size /\ Unread \in Int
        BY DEF BothInv, IInv, BufferIsWindow, TypeOK, Unread
      <4>2. stream.size \in Nat
        BY StreamType DEF BothInv, IInv
      <4>3. QED
        BY <3>4, <4>1, <4>2
    <3>6. done
      BY <2>2, <3>5 DEF BothInv, IInv, Stuck, TypeOK, Unread
    <3>7. QED
      BY <2>2, <3>6 DEF BothInv, EndNoted
  <2>3. QED
    BY <2>1, <2>2 DEF ReadersAgree, SameEnd
<1>2. QED
  BY <1>1, BothInvariance, PTL

-----------------------------------------------------------------------------
(* A read of the reader over memory is a step of the document stream.      *)
LEMMA MemoryReadAbstract ==
    ASSUME TypeOK, MemoryInv, Memory!Read
    PROVE  Memory!Abstract!Next
<1>1. d_offset = Memory!Abstract!Position
  BY DEF MemoryInv
<1>2. CASE Memory!Deliver
  <2>1. /\ stream' = stream /\ d_result' = "doc"
        /\ d_delivered' = Append(d_delivered, Doc(d_offset))
    BY <1>2 DEF Memory!Deliver, Memory!Blen, Doc
  <2>2. Abstract!WholeDocumentAt(d_offset)
    BY <1>2, MemoryReads DEF Memory!Deliver, MemoryInv
  <2>3. d_result # "null"
    BY <2>2 DEF MemoryInv
  <2>4. Memory!Abstract!Deliver
    BY <1>1, <2>1, <2>2, <2>3
       DEF Memory!Abstract!Deliver, Memory!Abstract!WholeDocumentAt, Doc,
           Abstract!WholeDocumentAt
  <2>5. QED
    BY <2>4 DEF Memory!Abstract!Next
<1>3. CASE Memory!Reject \/ Memory!Exhausted
  <2>1. UNCHANGED <<stream, d_delivered>> /\ d_result' = "null"
    BY <1>3 DEF Memory!Reject, Memory!Exhausted
  <2>2. ~Abstract!WholeDocumentAt(d_offset)
    BY <1>3, MemoryReads DEF MemoryInv, Memory!Reject, Memory!Exhausted
  <2>3. Memory!Abstract!Close
    BY <1>1, <2>1, <2>2 DEF Memory!Abstract!Close,
          Memory!Abstract!WholeDocumentAt, Abstract!WholeDocumentAt
  <2>4. QED
    BY <2>3 DEF Memory!Abstract!Next
<1>4. QED
  BY <1>2, <1>3 DEF Memory!Read

(* The reader over memory implements the document stream between two       *)
(* resets: it delivers and closes only when the abstract stream may.       *)
THEOREM MemoryRefinement == BothSpec => MemoryImplementsDocStream
<1>1. BothInv /\ [BothNext]_<<vars, data_reader>>
        => [d_result' # "none" =>
              [Memory!Abstract!Next]_<<stream, d_delivered, d_result # "null">>
           ]_<<vars, data_reader>>
  <2> SUFFICES ASSUME BothInv, [BothNext]_<<vars, data_reader>>, d_result' # "none"
               PROVE  [Memory!Abstract!Next]_<<stream, d_delivered, d_result # "null">>
    OBVIOUS
  <2>1. CASE Memory!Next
    <3>1. Memory!Read
      BY <2>1 DEF Memory!Next, Memory!Reset
    <3>2. QED
      BY <3>1, MemoryReadAbstract DEF BothInv, IInv
  <2>2. CASE [Next]_vars /\ UNCHANGED data_reader
    <3>1. /\ stream' = stream /\ d_delivered' = d_delivered
          /\ d_result' = d_result
      BY <2>2, StreamKept DEF data_reader
    <3>2. QED
      BY <3>1
  <2>3. QED
    BY <2>1, <2>2 DEF BothNext
<1>2. QED
  BY <1>1, BothInvariance, PTL DEF BothSpec, MemoryImplementsDocStream

=============================================================================
