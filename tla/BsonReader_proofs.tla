-------------------------- MODULE BsonReader_proofs -------------------------
(***************************************************************************)
(* Safety of the handle reader, for every initial buffer size, every       *)
(* stream and every way the callback may cut it.                           *)
(***************************************************************************)
EXTENDS BsonReader, TLAPS

Byte == {Junk} \cup (0 .. stream.size)

(***************************************************************************)
(* The inductive invariant.  Types and the window alone are not inductive  *)
(* for what a NULL means: a call that returned NULL leaves the reader in a *)
(* state from which every later call returns NULL (Stuck), and done is set *)
(* only at the end of the stream or by an error (DoneMeans).               *)
(***************************************************************************)
Stuck == \/ done
         \/ /\ Unread >= 4
            /\ \/ Blen < 5
               \/ Blen <= Unread /\ ~TrailingNul

DoneMeans == /\ done /\ ~ioError => /\ src = stream.size
                                    /\ ~Abstract!WholeDocumentAt(Tell)
             /\ ioError => done
             /\ done /\ ~failed /\ src > 0 => ~ioError
             /\ ~done /\ end = 0 => src = 0
             /\ reached_eof => done /\ ~failed

IInv == /\ TypeOK
        /\ BufferIsWindow
        /\ DeliveredInOrder
        /\ BufferBounded
        /\ DoneMeans
        /\ result = "null" => Stuck
        /\ pc = "new" => end = 0 /\ ~done /\ result = "none"

-----------------------------------------------------------------------------
LEMMA StreamType ==
    ASSUME TypeOK
    PROVE  /\ stream.size \in Nat
           /\ stream.hdr \in [0 .. stream.size -> Int]
           /\ stream.nul \in [0 .. stream.size -> BOOLEAN]
BY StreamsAssumption DEF TypeOK, Abstract!IsStream

(* Inside the window, the length prefix and the last byte of the document  *)
(* are the stream's.                                                       *)
LEMMA ReadsStream ==
    ASSUME TypeOK, BufferIsWindow, Unread >= 4
    PROVE  /\ Tell \in 0 .. stream.size
           /\ data[offset] = Tell
           /\ Tell + Unread <= stream.size
           /\ Blen = stream.hdr[Tell]
           /\ Blen \in Int
           /\ Blen >= 5 /\ Blen <= Unread =>
                 (TrailingNul <=> stream.nul[Tell + Blen - 1])
<1>1. /\ stream.size \in Nat
      /\ stream.hdr \in [0 .. stream.size -> Int]
      /\ stream.nul \in [0 .. stream.size -> BOOLEAN]
  BY StreamType
<1>2. /\ src \in 0 .. stream.size /\ end \in Nat /\ offset \in 0 .. end
      /\ bytes_read \in Nat /\ Unread \in Nat /\ Tell \in Int
      /\ Tell + Unread = src
  BY <1>1 DEF TypeOK, BufferIsWindow, Unread, Tell
<1>3. \A i \in 0 .. Unread - 1 : data[offset + i] = Tell + i
  BY DEF BufferIsWindow
<1>4. /\ data[offset] = Tell
      /\ \A i \in 1 .. 3 : data[offset + i] = data[offset] + i
  <2>1. data[offset + 0] = Tell + 0
    BY <1>2, <1>3
  <2>2. data[offset] = Tell
    BY <2>1, <1>2
  <2>3. QED
    BY <1>2, <1>3, <2>2
<1>5. Tell # Junk /\ Tell \in 0 .. stream.size
  <2>1. bytes_read >= end
    BY DEF TypeOK
  <2>4. Tell >= 0
    BY <2>1, <1>2 DEF Tell
  <2>5. Tell <= stream.size
    BY <2>4, <1>1, <1>2
  <2>6. QED
    BY <2>4, <2>5, <1>1, <1>2 DEF Junk
<1>6. Blen = stream.hdr[Tell] /\ Blen \in Int
  BY <1>1, <1>4, <1>5 DEF Blen, Consecutive
<1>7. ASSUME Blen >= 5, Blen <= Unread
      PROVE  TrailingNul <=> stream.nul[Tell + Blen - 1]
  <2>1. Blen - 1 \in 0 .. Unread - 1
    BY <1>6, <1>7, <1>2
  <2>2. data[offset + (Blen - 1)] = Tell + (Blen - 1)
    BY <2>1, <1>3
  <2>3. offset + (Blen - 1) = offset + Blen - 1 /\ Tell + (Blen - 1) = Tell + Blen - 1
    BY <1>2, <1>6
  <2>4. data[offset + Blen - 1] = Tell + Blen - 1
    BY <2>2, <2>3
  <2>5. Tell + Blen - 1 # Junk
    BY <1>5, <1>6, <1>7, <1>1 DEF Junk
  <2>6. QED
    BY <2>4, <2>5 DEF TrailingNul
<1>8. QED
  BY <1>1, <1>2, <1>4, <1>5, <1>6, <1>7

(* What a fill of the buffer d, which holds the unread bytes where data    *)
(* holds them, leaves: the same read position, the window, and done only   *)
(* at an error or at the end of the stream.                                *)
FillResult(l) ==
    /\ stream' = stream /\ len' = l
    /\ src' \in 0 .. stream.size /\ ioError' \in BOOLEAN
    /\ data' \in [0 .. l - 1 -> Byte]
    /\ end' \in 0 .. l /\ offset' \in 0 .. end'
    /\ bytes_read' \in Nat /\ bytes_read' >= end'
    /\ done' \in BOOLEAN /\ failed' \in BOOLEAN
    /\ Tell' = Tell
    /\ BufferIsWindow'
    /\ done' => end' - offset' = Unread
    /\ done' /\ ~ioError' /\ Unread < l => src' = stream.size
    /\ ioError' => done'
    /\ done' /\ ~failed' /\ src' > 0 => ~ioError'
    /\ ~done' => end' > 0

LEMMA FillFacts ==
    ASSUME TypeOK, BufferIsWindow, DoneMeans, ~done,
           NEW l \in Nat, l >= len,
           NEW d \in [0 .. l - 1 -> Byte],
           \A i \in offset .. end - 1 : d[i] = data[i],
           FillBuffer(d, l)
    PROVE  FillResult(l)
<1> DEFINE kept == end - offset
<1>1. /\ stream.size \in Nat
      /\ src \in 0 .. stream.size /\ end \in 0 .. len /\ offset \in 0 .. end
      /\ bytes_read \in Nat /\ bytes_read >= end /\ len \in Nat /\ kept \in 0 .. l
      /\ failed \in BOOLEAN
  BY StreamType DEF TypeOK
<1>2. /\ bytes_read = src
      /\ \A i \in 0 .. kept - 1 : data[offset + i] = Tell + i
  BY <1>1 DEF BufferIsWindow, Unread, Tell
<1>3. ~ioError /\ (failed \in BOOLEAN)
  BY <1>1 DEF DoneMeans
<1>4. PICK ret \in Returns(l - kept) :
         /\ CallbackReturned(ret)
         /\ data' = Received(Moved(d), kept, ret)
         /\ offset' = 0
         /\ end' = IF ret > 0 THEN kept + ret ELSE kept
         /\ bytes_read' = IF ret > 0 THEN bytes_read + ret ELSE bytes_read
         /\ done' \in BOOLEAN /\ (done' <=> ret <= 0)
         /\ failed' \in BOOLEAN
         /\ src = 0 \/ (ret <= 0 => (failed' <=> ret < 0))
  <2>1. CASE FirstRead
    <3>1. kept = 0 /\ l - kept = l /\ src = 0
      BY <2>1, <1>1 DEF FirstRead, DoneMeans
    <3>2. Moved(d) = d
      BY <2>1, <1>1 DEF Moved, FirstRead
    <3>3. FillFirst(d, l)
      BY <2>1 DEF FillBuffer
    <3>4. PICK ret \in Returns(l - kept) :
            /\ CallbackReturned(ret)
            /\ data' = Received(Moved(d), kept, ret)
            /\ end' = IF ret > 0 THEN kept + ret ELSE kept
            /\ bytes_read' = IF ret > 0 THEN bytes_read + ret ELSE bytes_read
            /\ done' = (done \/ ret <= 0)
            /\ offset' = 0 /\ failed' = failed
      <4>1. PICK ret \in Returns(l) :
            /\ CallbackReturned(ret)
            /\ data' = Received(d, 0, ret)
            /\ bytes_read' = IF ret > 0 THEN bytes_read + ret ELSE bytes_read
            /\ end' = IF ret > 0 THEN ret ELSE end
            /\ done' = (done \/ ret <= 0)
            /\ UNCHANGED <<offset, failed>>
        BY <3>3 DEF FillFirst
      <4>2. ret \in Int /\ ret \in Returns(l - kept)
        BY <4>1, <3>1, <1>1 DEF Returns
      <4>3. /\ data' = Received(Moved(d), kept, ret)
            /\ end' = IF ret > 0 THEN kept + ret ELSE kept
            /\ offset' = 0 /\ failed' = failed
        BY <4>1, <4>2, <3>1, <3>2, <2>1 DEF FirstRead
      <4>4. QED
        BY <4>1, <4>2, <4>3
    <3>5. done' \in BOOLEAN /\ (done' <=> ret <= 0)
      BY <3>4, Zenon
    <3>6. QED
      BY <3>1, <3>4, <3>5, <1>1
  <2>2. CASE ~FirstRead
    <3>1. FillAgain(d, l)
      BY <2>2 DEF FillBuffer
    <3>2. PICK ret \in Returns(l - kept) :
            /\ CallbackReturned(ret)
            /\ data' = Received(Moved(d), kept, ret)
            /\ offset' = 0
            /\ end' = IF ret > 0 THEN kept + ret ELSE kept
            /\ bytes_read' = IF ret > 0 THEN bytes_read + ret ELSE bytes_read
            /\ done' = (done \/ ret <= 0)
            /\ failed' = (ret < 0 \/ (failed /\ ret > 0))
      BY <3>1 DEF FillAgain
    <3>3. done' \in BOOLEAN /\ (done' <=> ret <= 0)
      BY <3>2, Zenon
    <3>4. failed' \in BOOLEAN /\ (failed' <=> (ret < 0 \/ (failed /\ ret > 0)))
      BY <3>2, Zenon
    <3>5. QED
      BY <3>2, <3>3, <3>4 DEF Returns
  <2>3. QED
    BY <2>1, <2>2
<1>5. /\ ret \in Int /\ ret >= -1
      /\ ret > 0 => ret <= l - kept /\ src + ret <= stream.size
      /\ ret = 0 => kept = l \/ src = stream.size
  BY <1>1, <1>4 DEF Returns
<1>6. /\ stream' = stream
      /\ src' = IF ret > 0 THEN src + ret ELSE src
      /\ ioError' \in BOOLEAN /\ (ioError' <=> ret < 0)
  <2>1. ioError' = (ioError \/ ret < 0)
    BY <1>4 DEF CallbackReturned
  <2>2. ioError' \in BOOLEAN /\ (ioError' <=> ret < 0)
    BY <2>1, <1>3, Zenon
  <2>3. QED
    BY <2>2, <1>4 DEF CallbackReturned
<1>7. len' = l
  BY DEF FillBuffer
<1>8. /\ data' \in [0 .. l - 1 -> Byte]
      /\ \A i \in 0 .. kept - 1 : data'[i] = Tell + i
      /\ \A i \in 0 .. l - 1 : kept <= i /\ i < kept + ret => data'[i] = src + (i - kept)
  <2>1. Moved(d) \in [0 .. l - 1 -> Byte]
    BY <1>1 DEF Moved
  <2>2. \A i \in 0 .. kept - 1 : Moved(d)[i] = Tell + i
    <3> TAKE i \in 0 .. kept - 1
    <3>1. i \in 0 .. l - 1 /\ offset + i \in offset .. end - 1
      BY <1>1
    <3>2. Moved(d)[i] = d[offset + i]
      BY <3>1, <1>1 DEF Moved
    <3>3. QED
      BY <3>1, <3>2, <1>2
  <2>3. DOMAIN Moved(d) = 0 .. l - 1
    BY <2>1
  <2>4. data' = [i \in 0 .. l - 1 |-> IF kept <= i /\ i < kept + ret
                                     THEN src + (i - kept) ELSE Moved(d)[i]]
    BY <1>4, <2>3 DEF Received
  <2>5. \A i \in 0 .. l - 1 : kept <= i /\ i < kept + ret => src + (i - kept) \in 0 .. stream.size
    BY <1>1, <1>5
  <2>6. data' \in [0 .. l - 1 -> Byte]
    BY <2>1, <2>4, <2>5 DEF Byte
  <2>7. QED
    BY <2>2, <2>4, <2>6, <1>1
<1>9. Tell' = Tell /\ Unread' = IF ret > 0 THEN kept + ret ELSE kept
  BY <1>1, <1>4, <1>5 DEF Tell, Unread
<1>10. BufferIsWindow'
  <2>1. Tell' + Unread' = src'
    BY <1>1, <1>2, <1>4, <1>5, <1>6, <1>9 DEF Tell
  <2>2. \A i \in 0 .. Unread' - 1 : data'[offset' + i] = Tell' + i
    <3> TAKE i \in 0 .. Unread' - 1
    <3>1. offset' + i = i /\ Tell = src - kept
      BY <1>1, <1>2, <1>4, <1>5, <1>9 DEF Tell
    <3>2. CASE i < kept
      BY <3>1, <3>2, <1>8, <1>9, <1>1, <1>5
    <3>3. CASE i >= kept
      BY <3>1, <3>3, <1>8, <1>9, <1>1, <1>5
    <3>4. QED
      BY <3>2, <3>3, <1>1, <1>5, <1>9
  <2>3. QED
    BY <2>1, <2>2 DEF BufferIsWindow
<1>11. /\ src' \in 0 .. stream.size /\ end' \in 0 .. l /\ offset' \in 0 .. end'
       /\ bytes_read' \in Nat /\ bytes_read' >= end'
  BY <1>1, <1>4, <1>5, <1>6
<1>12. /\ done' => end' - offset' = Unread
       /\ done' /\ ~ioError' /\ Unread < l => src' = stream.size
       /\ ioError' => done'
       /\ ~done' => end' > 0
  BY <1>1, <1>4, <1>5, <1>6 DEF Unread
<1>13. /\ done' \in BOOLEAN /\ failed' \in BOOLEAN /\ ioError' \in BOOLEAN
       /\ done' /\ ~failed' /\ src' > 0 => ~ioError'
  BY <1>1, <1>4, <1>5, <1>6
<1>14. QED
  BY <1>6, <1>7, <1>8, <1>9, <1>10, <1>11, <1>12, <1>13 DEF FillResult

-----------------------------------------------------------------------------
(* A step that fills the buffer, from a state where the next document is   *)
(* not all there, preserves the invariant.                                 *)
LEMMA FillStep ==
    ASSUME IInv, ~done, result # "null",
           pc' \in {"idle", "loop"},
           UNCHANGED <<result, reached_eof, delivered>>,
           NEW l \in Nat, l >= len,
           NEW d \in [0 .. l - 1 -> Byte],
           \A i \in offset .. end - 1 : d[i] = data[i],
           FillBuffer(d, l),
           Unread < l,
           \/ Unread < 4
           \/ Unread >= 4 /\ Blen >= 5 /\ Blen > Unread,
           \/ l = len
           \/ Unread >= 4 /\ Blen > len /\ l = 2 * len
    PROVE  IInv'
<1> USE DEF IInv
<1>1. FillResult(l)
  BY FillFacts
<1>2. /\ stream.size \in Nat /\ stream' = stream /\ delivered' = delivered
      /\ Tell \in Int /\ Tell + Unread = src /\ Unread \in Nat /\ src \in Nat
  <2>1. stream.size \in Nat
    BY StreamType
  <2>2. stream' = stream /\ delivered' = delivered
    BY <1>1 DEF FillResult
  <2>3. src \in Nat /\ end \in Nat /\ offset \in 0 .. end /\ bytes_read \in Nat
    BY <2>1 DEF TypeOK
  <2>4. Tell \in Int /\ Unread \in Nat
    BY <2>3 DEF Tell, Unread
  <2>5. Tell + Unread = src
    BY DEF BufferIsWindow
  <2>6. QED
    BY <2>1, <2>2, <2>3, <2>4, <2>5
<1>3. TypeOK'
  <2>1. data' \in [0 .. len' - 1 -> {Junk'} \cup 0 .. stream'.size]
    BY <1>1, <1>2 DEF FillResult, Byte, Junk
  <2>2. /\ stream' \in Streams /\ src' \in 0 .. stream'.size /\ ioError' \in BOOLEAN
        /\ len' \in Nat /\ len' >= InitLen
    BY <1>1, InitLenAssumption DEF FillResult, TypeOK
  <2>3. /\ result' \in {"none", "doc", "null"} /\ reached_eof' \in BOOLEAN
        /\ delivered' \in Seq(Abstract!DocType)
        /\ pc' \in {"new", "idle", "loop", "destroyed"}
    BY DEF TypeOK
  <2>4. /\ end' \in 0 .. len' /\ offset' \in 0 .. end'
        /\ bytes_read' \in Nat /\ bytes_read' >= end'
        /\ done' \in BOOLEAN /\ failed' \in BOOLEAN
    BY <1>1 DEF FillResult
  <2>5. QED
    BY <2>1, <2>2, <2>3, <2>4 DEF TypeOK
<1>4. DeliveredInOrder'
  BY <1>1, <1>2 DEF FillResult, DeliveredInOrder, Abstract!EndOf,
                    Abstract!WholeDocumentAt, Abstract!Position
<1>5. BufferBounded'
  <2>1. CASE l = len
    BY <1>1, <2>1 DEF BufferBounded, FillResult
  <2>2. CASE Unread >= 4 /\ Blen > len /\ l = 2 * len
    <3>1. Tell \in 0 .. stream.size /\ Blen = stream.hdr[Tell] /\ Blen \in Int
      BY <2>2, ReadsStream
    <3>2. l < 2 * stream.hdr[Tell]
      BY <2>2, <3>1 DEF TypeOK
    <3>3. QED
      BY <1>1, <3>1, <3>2 DEF BufferBounded, FillResult
  <2>3. QED
    BY <2>1, <2>2
<1>6. DoneMeans'
  <2>1. ASSUME done', ~ioError'
        PROVE  src' = stream.size /\ ~Abstract!WholeDocumentAt(Tell)'
    <3>1. src' = stream.size /\ Tell' + Unread = src' /\ Tell' = Tell
      BY <1>1, <1>2, <2>1 DEF FillResult, BufferIsWindow, Unread
    <3>2. CASE Unread < 4
      BY <3>1, <3>2, <1>2 DEF Abstract!WholeDocumentAt
    <3>3. CASE Unread >= 4 /\ Blen >= 5 /\ Blen > Unread
      BY <3>1, <3>3, <1>2, ReadsStream DEF Abstract!WholeDocumentAt
    <3>4. QED
      BY <3>1, <3>2, <3>3
  <2>2. ~reached_eof'
    BY DEF DoneMeans
  <2>3. QED
    BY <1>1, <1>2, <2>1, <2>2 DEF DoneMeans, FillResult
<1>7. BufferIsWindow'
  BY <1>1 DEF FillResult
<1>8. QED
  BY <1>3, <1>4, <1>5, <1>6, <1>7

-----------------------------------------------------------------------------
LEMMA InitInv == Init => IInv
<1> SUFFICES ASSUME Init PROVE IInv
  OBVIOUS
<1>1. /\ stream.size \in Nat /\ stream \in Streams
      /\ InitLen \in Nat /\ delivered = <<>> /\ Len(delivered) = 0
  BY StreamsAssumption, InitLenAssumption DEF Init, Abstract!IsStream
<1>2. TypeOK
  <2>1. delivered \in Seq(Abstract!DocType)
    BY <1>1
  <2>2. data \in [0 .. len - 1 -> {Junk} \cup (0 .. stream.size)]
    BY DEF Init
  <2>3. QED
    BY <1>1, <2>1, <2>2, InitLenAssumption DEF Init, TypeOK
<1>3. BufferIsWindow
  BY DEF Init, BufferIsWindow, Tell, Unread
<1>4. DeliveredInOrder
  BY <1>1 DEF Init, DeliveredInOrder, Tell, Abstract!Position, Abstract!EndOf
<1>5. DoneMeans /\ BufferBounded
  BY DEF Init, DoneMeans, BufferBounded
<1>6. QED
  BY <1>2, <1>3, <1>4, <1>5 DEF Init, IInv

(* Handing out a document moves the read point from the start of the       *)
(* document to its end, which is where the list of documents ends.         *)
LEMMA DeliverStep == ASSUME IInv, Deliver PROVE IInv'
<1> USE DEF IInv
<1>1. /\ Unread >= 4 /\ Blen >= 5 /\ Blen <= Unread /\ TrailingNul
      /\ offset' = offset + Blen /\ pc' = "idle" /\ result' = "doc" /\ ~done /\ pc = "loop"
      /\ UNCHANGED <<stream, src, ioError, data, len, end, bytes_read, done,
                     failed, reached_eof>>
  BY DEF Deliver, InLoop, env
<1>0. delivered' = Append(delivered, [at |-> data[offset], size |-> Blen,
                                      intact |-> Consecutive(Blen)])
  BY DEF Deliver
<1>2. /\ Tell \in 0 .. stream.size /\ data[offset] = Tell
      /\ Tell + Unread <= stream.size
      /\ Blen = stream.hdr[Tell] /\ Blen \in Int
      /\ stream.nul[Tell + Blen - 1]
  BY <1>1, ReadsStream
<1>3. /\ stream.size \in Nat /\ end \in Nat /\ offset \in 0 .. end /\ end <= len
      /\ len \in Nat /\ bytes_read \in Nat /\ Unread = end - offset
      /\ Tell + Unread = src
  BY StreamType DEF TypeOK, Unread, BufferIsWindow
<1>4. Tell' = Tell + Blen /\ Unread' = Unread - Blen
  BY <1>1, <1>2, <1>3 DEF Tell, Unread
<1>5. Consecutive(Blen)
  <2>1. \A i \in 0 .. Unread - 1 : data[offset + i] = Tell + i
    BY DEF BufferIsWindow
  <2>2. QED
    BY <2>1, <1>1, <1>2, <1>3 DEF Consecutive, Junk
<1>6. BufferIsWindow'
  <2>1. \A i \in 0 .. Unread' - 1 : data'[offset' + i] = Tell' + i
    <3> TAKE i \in 0 .. Unread' - 1
    <3>1. Blen + i \in 0 .. Unread - 1
      BY <1>1, <1>2, <1>3, <1>4
    <3>2. data[offset + (Blen + i)] = Tell + (Blen + i)
      BY <3>1 DEF BufferIsWindow
    <3>3. /\ offset + (Blen + i) = offset' + i
          /\ Tell + (Blen + i) = Tell' + i
      BY <1>1, <1>2, <1>3, <1>4
    <3>4. QED
      BY <3>2, <3>3, <1>1
  <2>2. Tell' + Unread' = src'
    BY <1>1, <1>2, <1>3, <1>4
  <2>3. QED
    BY <2>1, <2>2 DEF BufferIsWindow
<1> DEFINE doc == [at |-> Tell, size |-> Blen, intact |-> TRUE]
<1>7. delivered' = Append(delivered, doc)
  <2>1. Consecutive(Blen) = TRUE
    BY <1>5 DEF Consecutive
  <2>2. QED
    BY <1>0, <1>2, <2>1
<1>8. doc \in Abstract!DocType /\ delivered \in Seq(Abstract!DocType)
  BY <1>1, <1>2, <1>3 DEF Abstract!DocType, TypeOK
<1>9. /\ delivered' \in Seq(Abstract!DocType)
      /\ Len(delivered') = Len(delivered) + 1 /\ Len(delivered) \in Nat
      /\ delivered'[Len(delivered) + 1] = doc
      /\ \A k \in 1 .. Len(delivered) : delivered'[k] = delivered[k]
  BY <1>7, <1>8
<1>10. TypeOK'
  <2>1. offset' \in 0 .. end'
    BY <1>1, <1>2, <1>3
  <2>2. delivered' \in Seq(Abstract!DocType)
    BY <1>9
  <2>3. QED
    BY <1>1, <2>1, <2>2 DEF TypeOK
<1>11. DeliveredInOrder'
  <2>1. Tell = Abstract!EndOf(Len(delivered))
    BY DEF DeliveredInOrder, Abstract!Position
  <2>2. \A k \in 0 .. Len(delivered) : Abstract!EndOf(k)' = Abstract!EndOf(k)
    BY <1>9 DEF Abstract!EndOf
  <2>3. Abstract!Position' = Tell'
    BY <1>4, <1>9 DEF Abstract!EndOf, Abstract!Position
  <2>4. Abstract!WholeDocumentAt(Tell)
    BY <1>1, <1>2, <1>3 DEF Abstract!WholeDocumentAt
  <2>5. ASSUME NEW k \in 1 .. Len(delivered')
        PROVE  /\ delivered'[k].intact
               /\ delivered'[k].at = Abstract!EndOf(k - 1)'
               /\ Abstract!WholeDocumentAt(delivered[k].at)'
               /\ delivered'[k].size = stream'.hdr[delivered'[k].at]
    <3>1. CASE k = Len(delivered) + 1
      <4>1. delivered'[k] = doc /\ k - 1 = Len(delivered)
        BY <3>1, <1>9
      <4>2. Abstract!EndOf(k - 1)' = Tell
        BY <4>1, <2>1, <2>2, <1>9
      <4>3. QED
        BY <4>1, <4>2, <2>4, <1>1, <1>2 DEF Abstract!WholeDocumentAt
    <3>2. CASE k \in 1 .. Len(delivered)
      <4>1. delivered'[k] = delivered[k] /\ k - 1 \in 0 .. Len(delivered)
        BY <3>2, <1>9
      <4>2. /\ delivered[k].intact
            /\ delivered[k].at = Abstract!EndOf(k - 1)
            /\ Abstract!WholeDocumentAt(delivered[k].at)
            /\ delivered[k].size = stream.hdr[delivered[k].at]
        BY <3>2 DEF DeliveredInOrder
      <4>3. QED
        BY <4>1, <4>2, <2>2, <1>1 DEF Abstract!WholeDocumentAt
    <3>3. QED
      BY <3>1, <3>2, <1>9
  <2>6. QED
    BY <2>3, <2>5 DEF DeliveredInOrder
<1>12. DoneMeans' /\ BufferBounded'
  BY <1>1 DEF DoneMeans, BufferBounded
<1>13. QED
  BY <1>1, <1>6, <1>10, <1>11, <1>12

(* A step that leaves the reader and the documents alone.                  *)
LEMMA CallerStep ==
    ASSUME IInv, UNCHANGED <<env, handle, delivered>>,
           pc' \in {"idle", "loop", "destroyed"},
           result' \in {"none", "doc", "null"}, reached_eof' \in BOOLEAN,
           reached_eof' => done /\ ~failed,
           result' = "null" => Stuck
    PROVE  IInv'
<1> USE DEF IInv
<1>1. /\ UNCHANGED <<stream, src, ioError, data, len, end, offset, bytes_read,
                     done, failed, delivered>>
  BY DEF env, handle
<1>2. TypeOK' /\ Tell' = Tell /\ Unread' = Unread
  BY <1>1 DEF TypeOK, Tell, Unread
<1>3. BufferIsWindow' /\ BufferBounded' /\ DoneMeans'
  BY <1>1, <1>2 DEF BufferIsWindow, BufferBounded, DoneMeans, Abstract!WholeDocumentAt
<1>4. DeliveredInOrder'
  BY <1>1, <1>2 DEF DeliveredInOrder, Abstract!EndOf, Abstract!WholeDocumentAt, Abstract!Position
<1>5. Stuck' = Stuck
  BY <1>1, <1>2 DEF Stuck, Blen, Consecutive, TrailingNul
<1>6. QED
  BY <1>2, <1>3, <1>4, <1>5

LEMMA NextInv == IInv /\ [Next]_vars => IInv'
<1> SUFFICES ASSUME IInv, [Next]_vars PROVE IInv'
  OBVIOUS
<1> USE DEF IInv
<1>0. /\ len \in Nat /\ len >= 4 /\ Unread <= len /\ Unread \in Nat
      /\ end \in 0 .. len /\ offset \in 0 .. end
      /\ data \in [0 .. len - 1 -> Byte]
  BY InitLenAssumption DEF TypeOK, Unread, Byte
<1>1. CASE NewFromHandle
  <2>1. /\ pc' = "idle" /\ ~done /\ result # "null" /\ Unread = 0
        /\ FillBuffer(data, len) /\ UNCHANGED <<result, reached_eof, delivered>>
    BY <1>1, <1>0 DEF NewFromHandle, Unread
  <2>2. QED
    BY <2>1, <1>0, FillStep
<1>2. CASE Call
  <2>1. /\ UNCHANGED <<env, handle, delivered>> /\ pc' = "loop"
        /\ result' = result /\ reached_eof' = FALSE
    BY <1>2 DEF Call
  <2>2. QED
    BY <2>1, CallerStep DEF TypeOK
<1>3. CASE FillForLength
  <2>1. /\ pc' = "loop" /\ ~done /\ Unread < 4
        /\ FillBuffer(data, len) /\ UNCHANGED <<result, reached_eof, delivered>>
    BY <1>3 DEF FillForLength, InLoop, caller
  <2>2. result # "null"
    BY <2>1, <1>0 DEF Stuck
  <2>3. QED
    BY <2>1, <2>2, <1>0, FillStep
<1>4. CASE FillForDocument
  <2>1. /\ pc' = "loop" /\ ~done /\ Unread >= 4 /\ Blen >= 5 /\ Blen > Unread
        /\ UNCHANGED <<result, reached_eof, delivered>>
        /\ IF Blen > len THEN FillBuffer(Grown, GrownLen) ELSE FillBuffer(data, len)
    BY <1>4 DEF FillForDocument, InLoop, caller
  <2>2. Blen \in Int
    BY <2>1, ReadsStream
  <2>3. result # "null"
    BY <2>1, <2>2, <1>0 DEF Stuck
  <2>4. CASE Blen > len
    <3>1. /\ GrownLen \in Nat /\ GrownLen = 2 * len /\ GrownLen >= len /\ Unread < GrownLen
      BY <1>0 DEF GrownLen
    <3>2. Grown \in [0 .. GrownLen - 1 -> Byte]
      BY <1>0, <3>1 DEF Grown, Byte
    <3>3. \A i \in offset .. end - 1 : Grown[i] = data[i]
      BY <1>0, <3>1 DEF Grown
    <3>4. FillBuffer(Grown, GrownLen)
      BY <2>1, <2>4
    <3>5. QED
      BY <2>1, <2>3, <2>4, <3>1, <3>2, <3>3, <3>4, FillStep
  <2>5. CASE ~(Blen > len)
    <3>1. FillBuffer(data, len) /\ Unread < len
      BY <2>1, <2>2, <2>5, <1>0
    <3>2. QED
      BY <2>1, <2>3, <3>1, <1>0, FillStep
  <2>6. QED
    BY <2>4, <2>5
<1>5. CASE RejectLength
  <2>1. /\ UNCHANGED <<env, handle, delivered, reached_eof>> /\ pc' = "idle"
        /\ result' = "null" /\ Unread >= 4 /\ Blen < 5
    BY <1>5 DEF RejectLength
  <2>2. Stuck /\ (reached_eof => done /\ ~failed) /\ reached_eof' \in BOOLEAN
    BY <2>1 DEF Stuck, DoneMeans, TypeOK
  <2>3. QED
    BY <2>1, <2>2, CallerStep
<1>6. CASE RejectDocument
  <2>1. /\ UNCHANGED <<env, handle, delivered, reached_eof>> /\ pc' = "idle"
        /\ result' = "null" /\ Unread >= 4 /\ Blen <= Unread /\ ~TrailingNul
    BY <1>6 DEF RejectDocument
  <2>2. Stuck /\ (reached_eof => done /\ ~failed) /\ reached_eof' \in BOOLEAN
    BY <2>1 DEF Stuck, DoneMeans, TypeOK
  <2>3. QED
    BY <2>1, <2>2, CallerStep
<1>7. CASE Deliver
  BY <1>7, DeliverStep
<1>8. CASE Exhausted
  <2>1. /\ UNCHANGED <<env, handle, delivered>> /\ pc' = "idle"
        /\ result' = "null" /\ done /\ reached_eof' = (done /\ ~failed)
    BY <1>8 DEF Exhausted
  <2>2. Stuck
    BY <2>1 DEF Stuck
  <2>3. reached_eof' \in BOOLEAN /\ (reached_eof' => done /\ ~failed)
    BY <2>1, Zenon
  <2>4. QED
    BY <2>1, <2>2, <2>3, CallerStep
<1>9. CASE Destroy
  <2>1. /\ UNCHANGED <<env, handle, result, reached_eof, delivered>>
        /\ pc' = "destroyed"
    BY <1>9 DEF Destroy
  <2>2. QED
    BY <2>1, CallerStep DEF DoneMeans, TypeOK
<1>10. CASE UNCHANGED vars
  <2>1. /\ UNCHANGED <<env, handle, delivered>>
        /\ pc' = pc /\ result' = result /\ reached_eof' = reached_eof
    BY <1>10 DEF vars, caller
  <2>2. CASE pc = "new"
    BY <2>1, <2>2 DEF env, handle, TypeOK, BufferIsWindow, DeliveredInOrder,
          BufferBounded, DoneMeans, Tell, Unread, Abstract!EndOf,
          Abstract!WholeDocumentAt, Abstract!Position
  <2>3. CASE pc # "new"
    BY <2>1, <2>3, CallerStep DEF DoneMeans, TypeOK
  <2>4. QED
    BY <2>2, <2>3
<1>11. QED
  BY <1>1, <1>2, <1>3, <1>4, <1>5, <1>6, <1>7, <1>8, <1>9, <1>10 DEF Next, Iterate

THEOREM Invariance == Spec => []IInv
<1>1. Init => IInv
  BY InitInv
<1>2. IInv /\ [Next]_vars => IInv'
  BY NextInv
<1>3. QED
  BY <1>1, <1>2, PTL DEF Spec

-----------------------------------------------------------------------------
(* Every field of the reader stays in its type and the read window stays   *)
(* inside the buffer.                                                      *)
THEOREM TypeCorrect == Spec => []TypeOK
BY Invariance, PTL DEF IInv

(* The reader's buffer always holds the next bytes of the stream, and each *)
(* document handed out is the one that follows the one before.             *)
THEOREM DeliversStream == Spec => [](BufferIsWindow /\ DeliveredInOrder)
BY Invariance, PTL DEF IInv

(* The buffer stays below twice the longest length prefix met.             *)
THEOREM BufferStaysBounded == Spec => []BufferBounded
BY Invariance, PTL DEF IInv

LEMMA StuckHasNoDocument ==
    ASSUME IInv, Stuck, ~ioError
    PROVE  ~Abstract!WholeDocumentAt(Tell)
<1>1. CASE done
  BY <1>1 DEF DoneMeans, IInv
<1>2. CASE Unread >= 4 /\ (Blen < 5 \/ (Blen <= Unread /\ ~TrailingNul))
  <2>1. Blen = stream.hdr[Tell] /\ Blen \in Int
    BY <1>2, ReadsStream DEF IInv
  <2>2. CASE Blen < 5
    BY <2>1, <2>2 DEF Abstract!WholeDocumentAt
  <2>3. CASE ~(Blen < 5)
    <3>1. Blen >= 5 /\ Blen <= Unread /\ ~TrailingNul
      BY <1>2, <2>1, <2>3
    <3>2. ~stream.nul[Tell + Blen - 1]
      BY <1>2, <3>1, ReadsStream DEF IInv
    <3>3. QED
      BY <2>1, <3>2 DEF Abstract!WholeDocumentAt
  <2>4. QED
    BY <2>2, <2>3
<1>3. QED
  BY <1>1, <1>2 DEF Stuck

(* bson_reader_read returns NULL only where no whole document follows, or  *)
(* after a failed read.                                                    *)
THEOREM NullIsRight == Spec => []NullMeansNoDocument
<1>1. IInv => NullMeansNoDocument
  BY StuckHasNoDocument DEF NullMeansNoDocument, IInv
<1>2. QED
  BY <1>1, Invariance, PTL

(* reached_eof after the first read is the end of the stream.              *)
THEOREM EofIsRight == Spec => []EofIsEndOfStream
<1>1. IInv => EofIsEndOfStream
  BY DEF EofIsEndOfStream, IInv, DoneMeans
<1>2. QED
  BY <1>1, Invariance, PTL

(* After a NULL no call returns a document.                                *)
THEOREM NullStaysFinal == Spec => NullIsFinal
<1>1. IInv /\ [Next]_vars => [result = "null" => result' = "null"]_vars
  <2> SUFFICES ASSUME IInv, [Next]_vars, result = "null"
               PROVE  result' = "null"
    OBVIOUS
  <2>1. Stuck /\ Unread \in Int
    BY DEF IInv, TypeOK, Unread
  <2>2. pc # "new" /\ ~Deliver
    <3>1. ASSUME Deliver PROVE FALSE
      <4>1. ~done /\ Unread >= 4 /\ Blen >= 5 /\ Blen <= Unread /\ TrailingNul
        BY <3>1 DEF Deliver, InLoop
      <4>2. Blen \in Int
        BY <4>1, ReadsStream DEF IInv
      <4>3. QED
        BY <2>1, <4>1, <4>2 DEF Stuck
    <3>2. QED
      BY <3>1 DEF IInv
  <2>3. QED
    BY <2>2 DEF Next, Iterate, NewFromHandle, Call, FillForLength, FillForDocument,
                RejectLength, RejectDocument, Exhausted, Destroy, vars, caller
<1>2. QED
  BY <1>1, Invariance, PTL DEF Spec, NullIsFinal

-----------------------------------------------------------------------------
(* A fill is, for the abstract stream, a fault or nothing.                 *)
LEMMA FillAbstract ==
    ASSUME IInv, NEW l, NEW d, FillBuffer(d, l), UNCHANGED <<result, delivered>>
    PROVE  [Abstract!Next]_<<stream, delivered, ioError, result # "null">>
<1>1. PICK ret \in Int : CallbackReturned(ret)
  <2>1. \A c : Returns(c) \subseteq Int
    BY DEF Returns
  <2>2. CASE FillFirst(d, l)
    BY <2>1, <2>2 DEF FillFirst
  <2>3. CASE FillAgain(d, l)
    BY <2>1, <2>3 DEF FillAgain
  <2>4. QED
    BY <2>2, <2>3 DEF FillBuffer
<1>2. /\ stream' = stream /\ ioError' = (ioError \/ ret < 0) /\ ioError \in BOOLEAN
  BY <1>1 DEF CallbackReturned, IInv, TypeOK
<1>3. ioError' = ioError \/ ioError' = TRUE
  BY <1>2, Zenon
<1>4. QED
  BY <1>2, <1>3 DEF Abstract!Next, Abstract!Fault

(* The handle reader implements the document stream: it delivers, fails    *)
(* and closes only when the abstract stream may.                           *)
THEOREM Refinement == Spec => ImplementsDocStream
<1>1. Init => Abstract!Init
  BY DEF Init, Abstract!Init
<1>2. IInv /\ [Next]_vars
        => [Abstract!Next]_<<stream, delivered, ioError, result # "null">>
  <2> SUFFICES ASSUME IInv, [Next]_vars
               PROVE  [Abstract!Next]_<<stream, delivered, ioError, result # "null">>
    OBVIOUS
  <2>1. Tell = Abstract!Position
    BY DEF IInv, DeliveredInOrder
  <2>2. ASSUME UNCHANGED <<env, delivered>>, Stuck, result' = "null"
        PROVE  Abstract!Close
    <3>1. ioError \/ ~Abstract!WholeDocumentAt(Abstract!Position)
      BY <2>1, <2>2, StuckHasNoDocument
    <3>2. QED
      BY <2>2, <3>1 DEF Abstract!Close, env
  <2>3. CASE NewFromHandle \/ FillForLength \/ FillForDocument
    BY <2>3, FillAbstract DEF NewFromHandle, FillForLength, FillForDocument, caller
  <2>4. CASE RejectLength
    BY <2>4, <2>2 DEF RejectLength, Stuck, Abstract!Next
  <2>5. CASE RejectDocument
    BY <2>5, <2>2 DEF RejectDocument, Stuck, Abstract!Next
  <2>6. CASE Exhausted
    BY <2>6, <2>2 DEF Exhausted, Stuck, Abstract!Next
  <2>7. CASE Deliver
    <3>1. /\ ~done /\ Unread >= 4 /\ Blen >= 5 /\ Blen <= Unread /\ TrailingNul
          /\ result' = "doc"
          /\ UNCHANGED <<stream, ioError>>
      BY <2>7 DEF Deliver, InLoop, env
    <3>2. /\ Tell \in 0 .. stream.size /\ data[offset] = Tell
          /\ Tell + Unread <= stream.size
          /\ Blen = stream.hdr[Tell] /\ Blen \in Int
          /\ stream.nul[Tell + Blen - 1]
      BY <3>1, ReadsStream DEF IInv
    <3>3. stream.size \in Nat /\ Unread \in Int /\ offset \in Int
      BY StreamType DEF IInv, TypeOK, Unread
    <3>4. Abstract!WholeDocumentAt(Abstract!Position)
      BY <2>1, <3>1, <3>2, <3>3 DEF Abstract!WholeDocumentAt
    <3>5. Consecutive(Blen) = TRUE
      <4>1. \A i \in 0 .. Unread - 1 : data[offset + i] = Tell + i
        BY DEF IInv, BufferIsWindow
      <4>2. Consecutive(Blen)
        BY <4>1, <3>1, <3>2, <3>3 DEF Consecutive, Junk
      <4>3. QED
        BY <4>2 DEF Consecutive
    <3>6. delivered' = Append(delivered, [at |-> Abstract!Position,
                                        size |-> stream.hdr[Abstract!Position],
                                        intact |-> TRUE])
      <4>1. delivered' = Append(delivered, [at |-> data[offset], size |-> Blen,
                                          intact |-> Consecutive(Blen)])
        BY <2>7 DEF Deliver
      <4>2. QED
        BY <4>1, <3>2, <3>5, <2>1
    <3>7. result # "null"
      BY <3>1, <3>2, <3>3 DEF IInv, Stuck
    <3>8. Abstract!Deliver
      BY <3>1, <3>4, <3>6, <3>7 DEF Abstract!Deliver
    <3>9. QED
      BY <3>8 DEF Abstract!Next
  <2>8. CASE Call \/ Destroy \/ UNCHANGED vars
    BY <2>8 DEF Call, Destroy, vars, caller, env
  <2>9. QED
    BY <2>3, <2>4, <2>5, <2>6, <2>7, <2>8 DEF Next, Iterate
<1>3. QED
  BY <1>1, <1>2, Invariance, PTL DEF Spec, Abstract!Spec, ImplementsDocStream

=============================================================================
