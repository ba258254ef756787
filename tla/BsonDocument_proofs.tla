------------------------ MODULE BsonDocument_proofs ------------------------
(***************************************************************************)
(* Building documents, for every size of a bson_t and of the largest       *)
(* buffer and every set of elements that copy no more than they reserve:   *)
(* the open documents are nested, and no call writes outside the buffer    *)
(* they share.                                                             *)
(***************************************************************************)
EXTENDS BsonDocument, SequenceTheorems, TLAPS

(* What the append functions owe _bson_append: n_bytes counts every byte   *)
(* that is copied.                                                         *)
Reserved == \A e \in Elements : e.size <= e.n_bytes

(***************************************************************************)
(* The inductive invariant.  Shape is what every call on an open document  *)
(* keeps, wherever in whatever buffer the root starts.  That the buffer    *)
(* has room for the parents' trailing NULs does not survive an append      *)
(* without InlineRoot, which _bson_grow takes for granted: an inline root  *)
(* is all of its buffer.  Owned is about a buffer of libbson's.            *)
(***************************************************************************)
InlineRoot == stack # <<>> /\ "INLINE" \in stack[1].flags
                  => buflen = InlineSize /\ stack[1].offset = 0

AfterRoot == \A i \in 1 .. Top : stack[1].offset <= stack[i].offset

Shape == TypeOK /\ Nested /\ RoomForParents /\ InlineRoot /\ AfterRoot

Owned == stack # <<>> => buflen <= MaxSize /\ stack[1].offset = 0

IInv == Shape /\ WritesFit /\ Owned

(* What a call on an open document leaves as it is: where the root starts, *)
(* and the buffer, but that it grows; and the call writes inside it.       *)
LongerBuffer == buflen <= buflen' /\ (buflen' = buflen \/ buflen' <= MaxSize)
WritesInside == touched' = touched \/ touched' <= buflen'

Kept == /\ stack' # <<>> /\ stack'[1].offset = stack[1].offset
        /\ LongerBuffer /\ WritesInside

-----------------------------------------------------------------------------
LEMMA Sizes ==
    /\ InlineSize \in Nat /\ SpillSize \in Nat /\ MaxSize \in Nat
    /\ 5 <= InlineSize /\ InlineSize < SpillSize /\ SpillSize <= MaxSize
BY SizesAssumption

LEMMA PowersAreNat == ASSUME NEW p \in PowersOfTwo PROVE p \in Nat
BY DEF PowersOfTwo

(* _bson_grow: a document d of a buffer of l bytes that has grown by size  *)
(* bytes is the same document, only not inline if it had to be moved, and  *)
(* has the room asked for.                                                 *)
GrowPre(d, size, l) ==
    /\ d \in Bson /\ size \in Nat /\ l \in Nat
    /\ "INLINE" \in d.flags => l = InlineSize /\ d.offset = 0 /\ d.depth = 0

SameButInline(c, d) ==
    /\ c \in Bson
    /\ c.len = d.len /\ c.offset = d.offset /\ c.depth = d.depth
    /\ c.flags = d.flags \/ c.flags = d.flags \ {"INLINE"}

LEMMA GrowFacts ==
    ASSUME NEW d, NEW size, NEW l, GrowPre(d, size, l),
           NEW m \in Grow(d, size, l)
    PROVE  /\ m \in Nat /\ l <= m /\ (m = l \/ m <= MaxSize)
           /\ d.offset + d.len + size + d.depth <= m
           /\ SameButInline(GrownDoc(d, size, l), d)
           /\ "INLINE" \in GrownDoc(d, size, l).flags => m = l
<1>1. /\ d \in Bson /\ size \in Nat /\ l \in Nat
      /\ d.len \in Nat /\ d.offset \in Nat /\ d.depth \in Nat
      /\ d.flags \in SUBSET Flags
      /\ "INLINE" \in d.flags => l = InlineSize /\ d.offset = 0 /\ d.depth = 0
  BY DEF GrowPre, Bson
<1>2. CASE Holds(d, size, l)
  <2>1. m = l /\ GrownDoc(d, size, l) = d
    BY <1>2 DEF Grow, GrownDoc
  <2>2. d.offset + d.len + size + d.depth <= l
    BY <1>1, <1>2, Sizes DEF Holds, InlineNeed, AllocNeed
  <2>3. QED
    BY <1>1, <2>1, <2>2 DEF SameButInline
<1>3. CASE ~Holds(d, size, l)
  <2>1. GrownDoc(d, size, l) = [d EXCEPT !.flags = @ \ {"INLINE"}]
    BY <1>3 DEF GrownDoc
  <2>2. /\ SameButInline(GrownDoc(d, size, l), d)
        /\ "INLINE" \notin GrownDoc(d, size, l).flags
    BY <1>1, <2>1 DEF SameButInline, Bson
  <2>3. /\ m \in Nat /\ m <= MaxSize
        /\ l <= m /\ d.offset + d.len + size + d.depth <= m
    <3>1. CASE "INLINE" \in d.flags
      <4>1. m \in PowersOfTwo /\ m >= d.len + size /\ m <= MaxSize
        BY <1>3, <3>1 DEF Grow, InlineGrow, IsNextPowerOfTwo, InlineNeed
      <4>2. l < d.len + size
        BY <1>1, <1>3, <3>1, Sizes DEF Holds, InlineNeed
      <4>3. QED
        BY <1>1, <3>1, <4>1, <4>2, PowersAreNat, Sizes
    <3>2. CASE "INLINE" \notin d.flags
      <4>1. /\ m \in PowersOfTwo /\ m <= MaxSize
            /\ m >= d.offset + d.len + size + d.depth
        BY <1>3, <3>2 DEF Grow, AllocGrow, IsNextPowerOfTwo, AllocNeed
      <4>2. l < d.offset + d.len + size + d.depth
        BY <1>1, <1>3, <3>2 DEF Holds, AllocNeed
      <4>3. QED
        BY <1>1, <4>1, <4>2, PowersAreNat, Sizes
    <3>3. QED
      BY <3>1, <3>2
  <2>4. QED
    BY <2>2, <2>3
<1>4. QED
  BY <1>2, <1>3

(* What the operations on bytes leave of the extent of a buffer.           *)
LEMMA CopiedDomain ==
    ASSUME NEW b, NEW at, NEW s
    PROVE  DOMAIN Copied(b, at, s) = DOMAIN b
BY DEF Copied

LEMMA ResizedDomain ==
    ASSUME NEW b, NEW n, NEW l
    PROVE  DOMAIN Resized(b, n, l) = 0 .. l - 1
BY DEF Resized

LEMMA AppendedDomain ==
    ASSUME NEW b, NEW d, NEW cells
    PROVE  DOMAIN AppendedBuf(b, d, cells) = DOMAIN b
BY CopiedDomain DEF AppendedBuf

LEMMA GrownDomain ==
    ASSUME NEW d, NEW size, NEW b, NEW l, DOMAIN b = 0 .. l - 1,
           NEW m \in Grow(d, size, l)
    PROVE  DOMAIN GrownBuf(d, size, b, l, m) = 0 .. m - 1
BY ResizedDomain DEF GrownBuf, Grow

(* How many bytes are copied.                                              *)
LEMMA RepeatFacts ==
    ASSUME NEW c, NEW n \in Nat
    PROVE  Repeat(c, n) \in Seq({c}) /\ Len(Repeat(c, n)) = n
BY DEF Repeat

LEMMA EmptyDocFacts == Len(EmptyDoc) = 5
BY DEF EmptyDoc, LenCells, Nul

LEMMA ChildCells ==
    ASSUME NEW k \in Nat
    PROVE  Len(ChildHeader(k) \o EmptyDoc) = 1 + k + 1 + 5
<1>1. Repeat(KeyByte, 1 + k) \in Seq({KeyByte}) /\ Len(Repeat(KeyByte, 1 + k)) = 1 + k
  BY RepeatFacts
<1>2. \E S : ChildHeader(k) \in Seq(S) /\ EmptyDoc \in Seq(S)
  <2> DEFINE S == {KeyByte, Nul} \cup {LenByte(5, j) : j \in 0 .. 3}
  <2>1. ChildHeader(k) \in Seq(S)
    BY <1>1 DEF ChildHeader, Repeat
  <2>2. EmptyDoc \in Seq(S)
    BY DEF EmptyDoc, LenCells
  <2>3. QED
    BY <2>1, <2>2
<1>3. Len(ChildHeader(k)) = 1 + k + 1
  BY <1>1 DEF ChildHeader
<1>4. Len(ChildHeader(k) \o EmptyDoc) = Len(ChildHeader(k)) + Len(EmptyDoc)
  BY <1>2
<1>5. QED
  BY <1>3, <1>4, EmptyDocFacts

-----------------------------------------------------------------------------
(* The last open document, as the invariant describes it.                  *)
LEMMA CurrentFacts ==
    ASSUME Shape, stack # <<>>
    PROVE  /\ Top \in Nat /\ Top >= 1 /\ DOMAIN stack = 1 .. Top
           /\ Current \in Bson /\ Current.len >= 5 /\ Current.depth = Top - 1
           /\ Current.len \in Nat /\ Current.offset \in Nat
           /\ Current.flags \in SUBSET Flags
           /\ "CHILD" \in Current.flags <=> Top > 1
           /\ "IN_CHILD" \notin Current.flags
           /\ "INLINE" \in Current.flags => Top = 1
           /\ buflen \in Nat
           /\ Current.offset + Current.len + Current.depth <= buflen
           /\ \A size \in Nat : GrowPre(Current, size, buflen)
<1>1. stack \in Seq(Bson)
  BY DEF Shape, TypeOK
<1>2. Top \in Nat /\ Top >= 1 /\ DOMAIN stack = 1 .. Top
  BY <1>1 DEF Top
<1>3. Current \in Bson
  BY <1>1, <1>2 DEF Current
<1>4. Top \in 1 .. Top
  BY <1>2
<1>5. /\ "IN_CHILD" \in Current.flags <=> Top < Top
      /\ "CHILD" \in Current.flags <=> Top > 1
      /\ "INLINE" \in Current.flags => Top = 1
      /\ Current.depth = Top - 1
      /\ Current.len >= 5
  BY <1>4 DEF Shape, Nested, Current
<1>6. "IN_CHILD" \notin Current.flags
  BY <1>2, <1>5
<1>7. buflen \in Nat
  BY DEF Shape, TypeOK
<1>8. "INLINE" \in Current.flags =>
          buflen = InlineSize /\ Current.offset = 0 /\ Current.depth = 0
  BY <1>5 DEF Shape, InlineRoot, Current
<1>9. Current.offset + Current.len + Current.depth <= buflen
  BY DEF Shape, RoomForParents
<1>10. /\ Current.len \in Nat /\ Current.offset \in Nat
       /\ Current.flags \in SUBSET Flags
  BY <1>3 DEF Bson
<1>11. QED
  BY <1>2, <1>3, <1>5, <1>6, <1>7, <1>8, <1>9, <1>10 DEF GrowPre

(* Its place taken by d, the same document with another length, or moved   *)
(* out of the bson_t.                                                      *)
LEMMA ReplaceTop ==
    ASSUME Shape, stack # <<>>,
           NEW d \in Bson,
           d.offset = Current.offset, d.depth = Current.depth, d.len >= 5,
           d.flags = Current.flags \/ d.flags = Current.flags \ {"INLINE"},
           "INLINE" \in d.flags => buflen' = buflen,
           stack' = [stack EXCEPT ![Top] = d]
    PROVE  /\ stack' \in Seq(Bson) /\ Current' = d /\ stack' # <<>>
           /\ stack'[1].offset = stack[1].offset
           /\ Nested' /\ InlineRoot' /\ AfterRoot'
<1>1. stack \in Seq(Bson) /\ Top = Len(stack) /\ Top \in Nat /\ Top >= 1
  BY CurrentFacts DEF Shape, TypeOK, Top
<1>2. /\ stack' \in Seq(Bson) /\ Len(stack') = Top /\ stack' # <<>>
      /\ stack'[Top] = d
      /\ \A i \in 1 .. Top : i # Top => stack'[i] = stack[i]
  BY <1>1
<1>3. Top' = Top /\ Current' = d
  BY <1>2 DEF Top, Current
<1>4. \A i \in 1 .. Top : /\ stack'[i].offset = stack[i].offset
                          /\ stack'[i].depth = stack[i].depth
                          /\ stack'[i].len >= 5
                          /\ "CHILD" \in stack'[i].flags <=> "CHILD" \in stack[i].flags
                          /\ "IN_CHILD" \in stack'[i].flags <=> "IN_CHILD" \in stack[i].flags
                          /\ "INLINE" \in stack'[i].flags => "INLINE" \in stack[i].flags
  <2> SUFFICES ASSUME NEW i \in 1 .. Top
               PROVE  /\ stack'[i].offset = stack[i].offset
                      /\ stack'[i].depth = stack[i].depth
                      /\ stack'[i].len >= 5
                      /\ "CHILD" \in stack'[i].flags <=> "CHILD" \in stack[i].flags
                      /\ "IN_CHILD" \in stack'[i].flags <=> "IN_CHILD" \in stack[i].flags
                      /\ "INLINE" \in stack'[i].flags => "INLINE" \in stack[i].flags
    OBVIOUS
  <2>1. CASE i = Top
    BY <1>2, <2>1 DEF Current
  <2>2. CASE i # Top
    <3>1. stack'[i] = stack[i]
      BY <1>2, <2>2
    <3>2. stack[i].len >= 5
      BY DEF Shape, Nested
    <3>3. QED
      BY <3>1, <3>2
  <2>3. QED
    BY <2>1, <2>2
<1>5. \A i \in 1 .. Top : i > 1 =>
          stack'[i].offset = stack'[i - 1].offset + stack'[i - 1].len - 6
  <2> SUFFICES ASSUME NEW i \in 1 .. Top, i > 1
               PROVE  stack'[i].offset = stack'[i - 1].offset + stack'[i - 1].len - 6
    OBVIOUS
  <2>1. i - 1 \in 1 .. Top /\ i - 1 # Top
    BY <1>1
  <2>2. stack'[i - 1] = stack[i - 1] /\ stack'[i].offset = stack[i].offset
    BY <1>2, <1>4, <2>1
  <2>3. stack[i].offset = stack[i - 1].offset + stack[i - 1].len - 6
    BY DEF Shape, Nested
  <2>4. QED
    BY <2>2, <2>3
<1>6. Nested'
  <2> SUFFICES ASSUME NEW i \in 1 .. Top
               PROVE  /\ "IN_CHILD" \in stack'[i].flags <=> i < Top
                      /\ "CHILD" \in stack'[i].flags <=> i > 1
                      /\ "INLINE" \in stack'[i].flags => Top = 1
                      /\ stack'[i].depth = i - 1
                      /\ stack'[i].len >= 5
                      /\ i > 1 => stack'[i].offset
                                    = stack'[i - 1].offset + stack'[i - 1].len - 6
    BY <1>3 DEF Nested
  <2>1. /\ "IN_CHILD" \in stack[i].flags <=> i < Top
        /\ "CHILD" \in stack[i].flags <=> i > 1
        /\ "INLINE" \in stack[i].flags => Top = 1
        /\ stack[i].depth = i - 1
    BY DEF Shape, Nested
  <2>2. QED
    BY <2>1, <1>4, <1>5
<1>7. InlineRoot'
  <2>1. 1 \in 1 .. Top
    BY <1>1
  <2>2. stack'[1].offset = stack[1].offset
    BY <1>4, <2>1
  <2>3. ASSUME "INLINE" \in stack'[1].flags
        PROVE  buflen' = InlineSize /\ stack'[1].offset = 0
    <3>1. "INLINE" \in stack[1].flags
      BY <1>4, <2>1, <2>3
    <3>2. Top = 1
      BY <2>1, <3>1 DEF Shape, Nested
    <3>3. buflen' = buflen
      BY <1>2, <2>3, <3>2
    <3>4. QED
      BY <2>2, <3>1, <3>3 DEF Shape, InlineRoot
  <2>4. QED
    BY <2>3 DEF InlineRoot
<1>8. AfterRoot' /\ stack'[1].offset = stack[1].offset
  <2>1. 1 \in 1 .. Top /\ Top' = Top
    BY <1>1, <1>3
  <2>2. stack'[1].offset = stack[1].offset
    BY <1>4, <2>1
  <2>3. \A i \in 1 .. Top : stack[1].offset <= stack[i].offset
    BY DEF Shape, AfterRoot
  <2>4. QED
    BY <1>4, <2>1, <2>2, <2>3 DEF AfterRoot
<1>9. QED
  BY <1>2, <1>3, <1>6, <1>7, <1>8

(* A step that leaves the last document where it was, inside the buffer,   *)
(* and writes inside the buffer.                                           *)
LEMMA TopStep ==
    ASSUME Shape, stack # <<>>,
           NEW d \in Bson,
           d.offset = Current.offset, d.depth = Current.depth, d.len >= 5,
           d.flags = Current.flags \/ d.flags = Current.flags \ {"INLINE"},
           buflen' \in Nat, LongerBuffer,
           "INLINE" \in d.flags => buflen' = buflen,
           stack' = [stack EXCEPT ![Top] = d],
           d.offset + d.len + d.depth <= buflen',
           touched' \in Nat, WritesInside,
           DOMAIN buf' = 0 .. buflen' - 1,
           realloc' \in BOOLEAN, ret' \in BOOLEAN
    PROVE  Shape' /\ Kept
<1>1. /\ stack' \in Seq(Bson) /\ Current' = d /\ stack' # <<>>
      /\ Nested' /\ InlineRoot' /\ AfterRoot' /\ stack'[1].offset = stack[1].offset
  BY ReplaceTop
<1>2. TypeOK'
  BY <1>1 DEF TypeOK
<1>3. RoomForParents'
  BY <1>1 DEF RoomForParents
<1>4. Kept
  BY <1>1 DEF Kept
<1>5. QED
  BY <1>1, <1>2, <1>3, <1>4 DEF Shape

LEMMA Unchanged ==
    ASSUME Shape, UNCHANGED <<stack, buf, buflen, realloc, touched>>, ret' \in BOOLEAN
    PROVE  Shape' /\ (stack # <<>> => Kept)
<1>1. TypeOK'
  BY DEF Shape, TypeOK
<1>2. Nested'
  BY DEF Shape, Nested, Top
<1>3. RoomForParents' /\ InlineRoot' /\ AfterRoot'
  BY DEF Shape, RoomForParents, InlineRoot, AfterRoot, Current, Top
<1>4. stack # <<>> => Kept
  BY DEF Shape, TypeOK, Kept, LongerBuffer, WritesInside
<1>5. QED
  BY <1>1, <1>2, <1>3, <1>4 DEF Shape

-----------------------------------------------------------------------------
(* A document longer by what is copied is the same document otherwise, and *)
(* inside the buffer it was grown in, with room for its parents' NULs.     *)
LEMMA LengthenedIs ==
    ASSUME NEW c \in Bson, NEW cells, Len(cells) \in Nat
    PROVE  /\ Lengthened(c, cells) \in Bson
           /\ Lengthened(c, cells).flags = c.flags
           /\ Lengthened(c, cells).offset = c.offset
           /\ Lengthened(c, cells).depth = c.depth
           /\ Lengthened(c, cells).len = c.len + Len(cells)
<1>1. Lengthened(c, cells) = [c EXCEPT !.len = c.len + Len(cells)]
  BY DEF Lengthened
<1>2. c.len + Len(cells) \in Nat
  BY DEF Bson
<1>3. QED
  BY <1>1, <1>2 DEF Bson

LEMMA LengthenedFits ==
    ASSUME NEW d \in Bson, NEW c, NEW cells, NEW m \in Nat, NEW size \in Nat,
           SameButInline(c, d),
           d.offset + d.len + size + d.depth <= m,
           Len(cells) \in Nat, Len(cells) <= size
    PROVE  /\ d.offset + (d.len + Len(cells)) + d.depth <= m
           /\ AppendTouches(c, cells) \in Nat /\ AppendTouches(c, cells) <= m
BY DEF SameButInline, Bson, AppendTouches

LEMMA AppendElementStep ==
    ASSUME Shape, Reserved, NEW e \in Elements, AppendElement(e)
    PROVE  Shape' /\ Kept
<1>1. stack # <<>>
  BY DEF AppendElement, Appendable
<1>2. CASE Refuse
  BY <1>1, <1>2, Unchanged DEF Refuse
<1>3. CASE ~Refuse
  <2>1. e.n_bytes \in Nat /\ e.size \in Nat /\ e.size <= e.n_bytes
    BY ElementsAssumption DEF Reserved
  <2> DEFINE cells == Repeat(DataByte(e), e.size)
             d     == GrownDoc(Current, e.n_bytes, buflen)
  <2>2. PICK l \in Grow(Current, e.n_bytes, buflen) :
           /\ buflen' = l
           /\ buf' = AppendedBuf(GrownBuf(Current, e.n_bytes, buf, buflen, l), d, cells)
           /\ stack' = [stack EXCEPT ![Top] = Lengthened(d, cells)]
           /\ touched' = AppendTouches(d, cells)
    BY <1>3 DEF AppendElement, ElementCells
  <2>3. ret' = TRUE /\ realloc' = realloc
    BY <1>3 DEF AppendElement, ElementCells
  <2>4. Len(cells) = e.size
    BY <2>1, RepeatFacts
  <2>5. GrowPre(Current, e.n_bytes, buflen) /\ Current \in Bson /\ Current.len \in Nat
    BY <1>1, <2>1, CurrentFacts
  <2>6. /\ l \in Nat /\ buflen <= l /\ (l = buflen \/ l <= MaxSize)
        /\ Current.offset + Current.len + e.n_bytes + Current.depth <= l
        /\ SameButInline(d, Current)
        /\ "INLINE" \in d.flags => l = buflen
    BY <2>5, GrowFacts
  <2> DEFINE n == Lengthened(d, cells)
  <2>7. /\ n \in Bson /\ n.flags = d.flags
        /\ n.offset = Current.offset /\ n.depth = Current.depth
        /\ n.len = Current.len + Len(cells)
        /\ Current.offset + (Current.len + Len(cells)) + Current.depth <= l
        /\ AppendTouches(d, cells) \in Nat /\ AppendTouches(d, cells) <= l
    <3>1. Len(cells) \in Nat /\ Len(cells) <= e.n_bytes
      BY <2>1, <2>4
    <3>2. /\ Current \in Bson /\ SameButInline(d, Current) /\ l \in Nat
          /\ e.n_bytes \in Nat
          /\ Current.offset + Current.len + e.n_bytes + Current.depth <= l
      BY <2>1, <2>5, <2>6
    <3> HIDE DEF cells, d
    <3>3. d \in Bson /\ d.offset = Current.offset /\ d.depth = Current.depth
          /\ d.len = Current.len
      BY <3>2 DEF SameButInline
    <3>4. /\ n \in Bson /\ n.flags = d.flags /\ n.offset = d.offset
          /\ n.depth = d.depth /\ n.len = d.len + Len(cells)
      BY <3>1, <3>3, LengthenedIs
    <3>5. /\ Current.offset + (Current.len + Len(cells)) + Current.depth <= l
          /\ AppendTouches(d, cells) \in Nat /\ AppendTouches(d, cells) <= l
      BY <3>1, <3>2, LengthenedFits
    <3>6. QED
      BY <3>3, <3>4, <3>5
  <2>8. n.len >= 5
    BY <1>1, <2>1, <2>4, <2>7, CurrentFacts
  <2>9. n.flags = Current.flags \/ n.flags = Current.flags \ {"INLINE"}
    BY <2>6, <2>7 DEF SameButInline
  <2>10. DOMAIN buf' = 0 .. buflen' - 1
    <3>1. DOMAIN buf = 0 .. buflen - 1
      BY DEF Shape, TypeOK
    <3>2. DOMAIN GrownBuf(Current, e.n_bytes, buf, buflen, l) = 0 .. l - 1
      BY <3>1, GrownDomain
    <3>3. QED
      BY <2>2, <3>2, AppendedDomain
  <2>11. realloc' \in BOOLEAN /\ ret' \in BOOLEAN
    BY <2>3 DEF Shape, TypeOK
  <2>12. n.offset + n.len + n.depth <= buflen' /\ LongerBuffer /\ WritesInside
    BY <2>2, <2>6, <2>7 DEF LongerBuffer, WritesInside
  <2> HIDE DEF n, d, cells
  <2>13. QED
    BY <1>1, <2>2, <2>6, <2>7, <2>8, <2>9, <2>10, <2>11, <2>12, TopStep DEF n
<1>4. QED
  BY <1>2, <1>3

LEMMA ReinitStep ==
    ASSUME Shape, bson_reinit
    PROVE  Shape' /\ Kept
<1>1. stack # <<>>
  BY DEF bson_reinit, Appendable
<1> DEFINE d == [Current EXCEPT !.len = 5]
<1>2. /\ d \in Bson /\ d.flags = Current.flags /\ d.offset = Current.offset
      /\ d.depth = Current.depth /\ d.len = 5
  BY <1>1, CurrentFacts DEF Bson
<1>3. stack' = [stack EXCEPT ![Top] = d]
  <2>1. stack' = [stack EXCEPT ![Top] = [stack[Top] EXCEPT !.len = 5]]
    BY DEF bson_reinit
  <2>2. QED
    BY <2>1 DEF Current
<1>4. /\ buflen' = buflen /\ realloc' = realloc /\ ret' = ret
      /\ touched' = Current.offset + 5
      /\ buf' = Copied(buf, Current.offset, EmptyDoc)
  BY DEF bson_reinit
<1>5. /\ buflen' \in Nat /\ LongerBuffer
      /\ d.offset + d.len + d.depth <= buflen'
      /\ touched' \in Nat /\ WritesInside
  <2>1. /\ Current.offset \in Nat /\ Current.len \in Nat /\ Current.len >= 5
        /\ Current.depth = Top - 1 /\ Top \in Nat /\ Top >= 1
        /\ buflen \in Nat
        /\ Current.offset + Current.len + Current.depth <= buflen
    BY <1>1, CurrentFacts
  <2>2. QED
    BY <1>2, <1>4, <2>1 DEF LongerBuffer, WritesInside
<1>6. /\ DOMAIN buf' = 0 .. buflen' - 1
      /\ realloc' \in BOOLEAN /\ ret' \in BOOLEAN
  BY <1>4, CopiedDomain DEF Shape, TypeOK
<1>7. /\ d.len >= 5
      /\ d.flags = Current.flags \/ d.flags = Current.flags \ {"INLINE"}
      /\ "INLINE" \in d.flags => buflen' = buflen
  BY <1>2, <1>4
<1> HIDE DEF d
<1>8. QED
  BY <1>1, <1>2, <1>3, <1>5, <1>6, <1>7, TopStep

LEMMA ReserveStep ==
    ASSUME Shape, NEW e \in Elements, bson_reserve_buffer(e)
    PROVE  Shape' /\ Kept
<1>1. stack # <<>>
  BY DEF bson_reserve_buffer, Appendable
<1>2. CASE Refuse
  BY <1>1, <1>2, Unchanged DEF Refuse
<1>3. CASE ~Refuse
  <2> DEFINE size == 5 + e.size
             d    == GrownDoc(Current, size, buflen)
             n    == [d EXCEPT !.len = size]
  <2>1. e.size \in Nat /\ size \in Nat /\ size >= 5
    BY ElementsAssumption
  <2>2. PICK l \in Grow(Current, size, buflen) :
           /\ buflen' = l
           /\ buf' = Copied(GrownBuf(Current, size, buf, buflen, l), d.offset,
                            Document(e))
           /\ stack' = [stack EXCEPT ![Top] = n]
           /\ touched' = d.offset + size
    BY <1>3 DEF bson_reserve_buffer
  <2>3. ret' = TRUE /\ realloc' = realloc
    BY <1>3 DEF bson_reserve_buffer
  <2>4. /\ GrowPre(Current, size, buflen) /\ Current \in Bson
        /\ Current.len \in Nat /\ Current.offset \in Nat
        /\ Current.depth = Top - 1 /\ Top \in Nat /\ Top >= 1
    BY <1>1, <2>1, CurrentFacts
  <2>5. /\ l \in Nat /\ buflen <= l /\ (l = buflen \/ l <= MaxSize)
        /\ Current.offset + Current.len + size + Current.depth <= l
        /\ SameButInline(d, Current)
        /\ "INLINE" \in d.flags => l = buflen
    BY <2>4, GrowFacts
  <2> HIDE DEF size, d
  <2>6. /\ n \in Bson /\ n.flags = d.flags /\ n.offset = d.offset
        /\ n.depth = d.depth /\ n.len = size
    BY <2>1, <2>5 DEF SameButInline, Bson
  <2>7. /\ n.offset = Current.offset /\ n.depth = Current.depth /\ n.len >= 5
        /\ n.flags = Current.flags \/ n.flags = Current.flags \ {"INLINE"}
        /\ "INLINE" \in n.flags => buflen' = buflen
    BY <2>1, <2>2, <2>5, <2>6 DEF SameButInline
  <2>8. /\ n.offset + n.len + n.depth <= buflen'
        /\ touched' \in Nat /\ WritesInside
    <3>1. d.offset = Current.offset /\ d.depth = Current.depth
      BY <2>5 DEF SameButInline
    <3>2. QED
      BY <2>1, <2>2, <2>4, <2>5, <2>6, <3>1 DEF WritesInside
  <2>9. DOMAIN buf' = 0 .. buflen' - 1
    <3>1. DOMAIN buf = 0 .. buflen - 1
      BY DEF Shape, TypeOK
    <3>2. DOMAIN GrownBuf(Current, size, buf, buflen, l) = 0 .. l - 1
      BY <3>1, GrownDomain
    <3>3. QED
      BY <2>2, <3>2, CopiedDomain
  <2>10. realloc' \in BOOLEAN /\ ret' \in BOOLEAN
    BY <2>3 DEF Shape, TypeOK
  <2>11. buflen' \in Nat /\ LongerBuffer
    BY <2>2, <2>5 DEF LongerBuffer
  <2> HIDE DEF n
  <2>12. QED
    BY <1>1, <2>2, <2>6, <2>7, <2>8, <2>9, <2>10, <2>11, TopStep
<1>4. QED
  BY <1>2, <1>3

-----------------------------------------------------------------------------
(* The parent of a new child is on the heap: an inline one moves, because  *)
(* SpillSize is more than a bson_t holds.                                  *)
LEMMA SpillFacts ==
    ASSUME Shape, stack # <<>>, NEW l \in SpillGrow(Current)
    PROVE  /\ l \in Nat /\ buflen <= l /\ (l = buflen \/ l <= MaxSize)
           /\ SameButInline(SpillDoc(Current), Current)
           /\ "INLINE" \notin SpillDoc(Current).flags
           /\ Current.offset + Current.len + Current.depth <= l
           /\ DOMAIN SpillBuf(Current, l) = 0 .. l - 1
<1>1. /\ Current \in Bson /\ Current.len \in Nat /\ Current.offset \in Nat
      /\ buflen \in Nat
      /\ Current.depth = Top - 1 /\ Top \in Nat /\ Top >= 1
      /\ Current.offset + Current.len + Current.depth <= buflen
      /\ \A size \in Nat : GrowPre(Current, size, buflen)
  BY CurrentFacts
<1>2. DOMAIN buf = 0 .. buflen - 1
  BY DEF Shape, TypeOK
<1>3. CASE Spills(Current)
  <2> DEFINE size == SpillSize - Current.len
  <2>1. /\ buflen = InlineSize /\ Current.offset = 0 /\ Current.depth = 0
    <3>1. GrowPre(Current, 0, buflen)
      BY <1>1
    <3>2. QED
      BY <1>3, <3>1 DEF GrowPre, Spills
  <2>2. size \in Nat /\ Current.len + size = SpillSize
    BY <1>1, <2>1, Sizes
  <2>3. l \in Grow(Current, size, buflen) /\ GrowPre(Current, size, buflen)
    BY <1>1, <1>3, <2>2 DEF SpillGrow
  <2>4. ~Holds(Current, size, buflen)
    BY <1>3, <2>2, Sizes DEF Holds, InlineNeed, Spills
  <2>5. "INLINE" \notin GrownDoc(Current, size, buflen).flags
    BY <1>1, <2>4 DEF GrownDoc, Bson
  <2>6. /\ l \in Nat /\ buflen <= l /\ (l = buflen \/ l <= MaxSize)
        /\ SameButInline(GrownDoc(Current, size, buflen), Current)
    BY <2>3, GrowFacts
  <2>7. /\ SpillDoc(Current) = GrownDoc(Current, size, buflen)
        /\ SpillBuf(Current, l) = GrownBuf(Current, size, buf, buflen, l)
    BY <1>3 DEF SpillDoc, SpillBuf
  <2>8. DOMAIN GrownBuf(Current, size, buf, buflen, l) = 0 .. l - 1
    BY <1>2, <2>3, GrownDomain
  <2>9. Current.offset + Current.len + Current.depth <= l
    BY <1>1, <2>6
  <2> HIDE DEF size
  <2>10. QED
    BY <2>5, <2>6, <2>7, <2>8, <2>9
<1>4. CASE ~Spills(Current)
  <2>1. l = buflen /\ SpillDoc(Current) = Current /\ SpillBuf(Current, l) = buf
    BY <1>4 DEF SpillGrow, SpillDoc, SpillBuf
  <2>2. "INLINE" \notin Current.flags /\ SameButInline(Current, Current)
    BY <1>1, <1>4 DEF Spills, SameButInline
  <2>3. QED
    BY <1>1, <1>2, <2>1, <2>2
<1>5. QED
  BY <1>3, <1>4

(* An empty child pushed on a parent p that has just been lengthened by    *)
(* it is nested in it.                                                     *)
LEMMA PushChild ==
    ASSUME Shape, stack # <<>>,
           NEW p \in Bson,
           p.offset = Current.offset, p.depth = Current.depth, p.len >= 6,
           p.flags = Current.flags \/ p.flags = Current.flags \ {"INLINE"},
           "INLINE" \notin p.flags,
           buflen' \in Nat, LongerBuffer,
           stack' = Append([stack EXCEPT ![Top] =
                               [p EXCEPT !.flags = @ \cup {"IN_CHILD"}]],
                           ChildOf(p)),
           p.offset + p.len + p.depth <= buflen',
           touched' \in Nat, WritesInside,
           DOMAIN buf' = 0 .. buflen' - 1,
           realloc' \in BOOLEAN, ret' \in BOOLEAN
    PROVE  Shape' /\ Kept
<1> DEFINE q == [p EXCEPT !.flags = @ \cup {"IN_CHILD"}]
           c == ChildOf(p)
           s == [stack EXCEPT ![Top] = q]
<1>1. /\ stack \in Seq(Bson) /\ Top = Len(stack) /\ Top \in Nat /\ Top >= 1
      /\ Current.depth = Top - 1 /\ Current.offset \in Nat
      /\ "CHILD" \in Current.flags <=> Top > 1
      /\ "INLINE" \in Current.flags => Top = 1
  BY CurrentFacts DEF Shape, TypeOK, Top
<1>2. p.offset \in Nat /\ p.len \in Nat /\ p.depth \in Nat /\ p.flags \in SUBSET Flags
  BY DEF Bson
<1>3. /\ q \in Bson /\ q.flags = p.flags \cup {"IN_CHILD"}
      /\ q.offset = p.offset /\ q.len = p.len /\ q.depth = p.depth
  <2>1. "IN_CHILD" \in Flags
    BY DEF Flags
  <2>2. QED
    BY <1>2, <2>1 DEF Bson
<1>4. "CHILD" \in p.flags <=> Top > 1
  BY <1>1
<1>5. /\ c.flags = {"CHILD", "NO_FREE", "STATIC"} /\ c.len = 5
      /\ c.offset = p.offset + p.len - 6
      /\ c.depth = Top
  <2>1. IF "CHILD" \in p.flags THEN p.depth + 1 = Top ELSE 1 = Top
    BY <1>1, <1>4
  <2>2. p.offset + p.len - 1 - 5 = p.offset + p.len - 6
    BY <1>2
  <2>3. QED
    BY <2>1, <2>2 DEF ChildOf
<1>6. c \in Bson
  <2>1. p.offset + p.len - 1 - 5 \in Nat
    BY <1>2
  <2>2. (IF "CHILD" \in p.flags THEN p.depth + 1 ELSE 1) \in Nat
    BY <1>2
  <2>3. {"CHILD", "NO_FREE", "STATIC"} \in SUBSET Flags
    BY DEF Flags
  <2>4. QED
    BY <2>1, <2>2, <2>3 DEF ChildOf, Bson
<1> HIDE DEF q, c
<1>7. /\ s \in Seq(Bson) /\ Len(s) = Top /\ s[Top] = q
      /\ \A i \in 1 .. Top : i # Top => s[i] = stack[i]
  BY <1>1, <1>3
<1>8. stack' = Append(s, c)
  BY DEF q, c
<1> HIDE DEF s
<1>9. /\ stack' \in Seq(Bson) /\ Len(stack') = Top + 1
      /\ stack'[Top + 1] = c /\ stack'[Top] = q
      /\ \A i \in 1 .. Top : i # Top => stack'[i] = stack[i]
  <2>1. /\ Append(s, c) \in Seq(Bson) /\ Len(Append(s, c)) = Top + 1
        /\ Append(s, c)[Top + 1] = c
        /\ \A i \in 1 .. Top : Append(s, c)[i] = s[i]
    BY <1>6, <1>7, AppendProperties
  <2>2. Top \in 1 .. Top
    BY <1>1
  <2>3. QED
    BY <1>7, <1>8, <2>1, <2>2
<1>10. Top' = Top + 1 /\ Current' = c /\ stack' # <<>>
  BY <1>1, <1>9 DEF Top, Current
<1>11. TypeOK'
  BY <1>9 DEF TypeOK
<1>12. ASSUME NEW i \in 1 .. Top + 1
       PROVE  /\ "IN_CHILD" \in stack'[i].flags <=> i < Top + 1
              /\ "CHILD" \in stack'[i].flags <=> i > 1
              /\ "INLINE" \notin stack'[i].flags
              /\ stack'[i].depth = i - 1
              /\ stack'[i].len >= 5
              /\ i > 1 => stack'[i].offset
                            = stack'[i - 1].offset + stack'[i - 1].len - 6
  <2>1. CASE i = Top + 1
    <3>1. stack'[i] = c /\ stack'[i - 1] = q /\ i > 1
      BY <1>1, <1>9, <2>1
    <3>2. /\ "IN_CHILD" \notin c.flags /\ "CHILD" \in c.flags
          /\ "INLINE" \notin c.flags
      BY <1>5
    <3>3. c.offset = q.offset + q.len - 6
      BY <1>3, <1>5
    <3>4. c.depth = i - 1 /\ c.len >= 5 /\ ~(i < Top + 1)
      BY <1>1, <1>5, <2>1
    <3>5. QED
      BY <3>1, <3>2, <3>3, <3>4
  <2>2. CASE i = Top
    <3>1. stack'[i] = q
      BY <1>9, <2>2
    <3>2. /\ "IN_CHILD" \in q.flags /\ "INLINE" \notin q.flags
          /\ "CHILD" \in q.flags <=> "CHILD" \in p.flags
      BY <1>3
    <3>3. i < Top + 1 /\ q.depth = i - 1 /\ q.len >= 5
      BY <1>1, <1>2, <1>3, <2>2
    <3>4. ASSUME i > 1
          PROVE  stack'[i].offset = stack'[i - 1].offset + stack'[i - 1].len - 6
      <4>1. stack'[i - 1] = stack[i - 1]
        BY <1>1, <1>9, <2>2, <3>4
      <4>2. stack[i].offset = stack[i - 1].offset + stack[i - 1].len - 6
        BY <1>1, <2>2, <3>4 DEF Shape, Nested
      <4>3. stack'[i].offset = stack[i].offset
        BY <1>3, <2>2, <3>1 DEF Current
      <4>4. QED
        BY <4>1, <4>2, <4>3
    <3>5. "CHILD" \in stack'[i].flags <=> i > 1
      BY <1>4, <2>2, <3>1, <3>2
    <3>6. QED
      BY <3>1, <3>2, <3>3, <3>4, <3>5
  <2>3. CASE i \in 1 .. Top - 1
    <3>1. i \in 1 .. Top /\ i # Top /\ i < Top + 1 /\ i < Top /\ Top # 1
      BY <1>1, <2>3
    <3>2. stack'[i] = stack[i]
      BY <1>9, <3>1
    <3>3. /\ "IN_CHILD" \in stack[i].flags <=> i < Top
          /\ "CHILD" \in stack[i].flags <=> i > 1
          /\ "INLINE" \in stack[i].flags => Top = 1
          /\ stack[i].depth = i - 1
          /\ stack[i].len >= 5
      BY <3>1 DEF Shape, Nested
    <3>4. ASSUME i > 1
          PROVE  stack'[i].offset = stack'[i - 1].offset + stack'[i - 1].len - 6
      <4>1. i - 1 \in 1 .. Top /\ i - 1 # Top
        BY <1>1, <2>3, <3>4
      <4>2. stack'[i - 1] = stack[i - 1]
        BY <1>9, <4>1
      <4>3. stack[i].offset = stack[i - 1].offset + stack[i - 1].len - 6
        BY <3>1, <3>4 DEF Shape, Nested
      <4>4. QED
        BY <3>2, <4>2, <4>3
    <3>5. QED
      BY <3>1, <3>2, <3>3, <3>4
  <2>4. QED
    BY <1>1, <2>1, <2>2, <2>3
<1>13. Nested'
  BY <1>10, <1>12 DEF Nested
<1>14. RoomForParents'
  <2>1. c.offset + c.len + c.depth <= buflen'
    BY SMTT(30), <1>1, <1>2, <1>5
  <2>2. QED
    BY <1>10, <2>1 DEF RoomForParents
<1>15. \A i \in 1 .. Top : stack'[i].offset = stack[i].offset
  BY <1>3, <1>9 DEF Current
<1>16. InlineRoot'
  <2>1. 1 \in 1 .. Top + 1
    BY <1>1
  <2>2. "INLINE" \notin stack'[1].flags
    BY <1>12, <2>1
  <2>3. QED
    BY <2>2 DEF InlineRoot
<1>17. AfterRoot'
  <2>1. \A i \in 1 .. Top : stack[1].offset <= stack[i].offset
    BY DEF Shape, AfterRoot
  <2>2. 1 \in 1 .. Top /\ Top \in 1 .. Top
    BY <1>1
  <2>3. stack[1].offset <= p.offset /\ stack[1].offset \in Nat
    <3>1. stack[1] \in Bson
      BY <1>1, <2>2
    <3>2. stack[1].offset \in Nat
      BY <3>1 DEF Bson
    <3>3. stack[1].offset <= Current.offset
      BY <2>1, <2>2 DEF Current
    <3>4. QED
      BY <3>2, <3>3
  <2>4. stack[1].offset <= c.offset
    BY SMTT(30), <1>2, <1>5, <2>3
  <2>5. ASSUME NEW i \in 1 .. Top + 1
        PROVE  stack'[1].offset <= stack'[i].offset
    <3>1. CASE i = Top + 1
      BY <1>9, <1>15, <2>2, <2>4, <3>1
    <3>2. CASE i # Top + 1
      BY <1>1, <1>15, <2>1, <2>2, <3>2
    <3>3. QED
      BY <3>1, <3>2
  <2>6. QED
    BY <1>10, <2>5 DEF AfterRoot
<1>18. Kept
  BY <1>1, <1>10, <1>15 DEF Kept
<1>19. QED
  BY <1>11, <1>13, <1>14, <1>16, <1>17, <1>18 DEF Shape

LEMMA BeginChildStep ==
    ASSUME Shape, NEW k \in KeyLengths, BeginChild(k)
    PROVE  Shape' /\ Kept
<1> DEFINE n     == 1 + k + 1 + 5
           cells == ChildHeader(k) \o EmptyDoc
           d     == SpillDoc(Current)
<1>1. stack # <<>>
  BY DEF BeginChild, Appendable
<1>2. k \in Nat /\ n \in Nat /\ Len(cells) = n
  BY ParametersAssumption, ChildCells
<1>3. /\ Current \in Bson /\ Current.len \in Nat /\ Current.len >= 5
      /\ Current.offset \in Nat /\ buflen \in Nat
      /\ Current.depth \in Nat
  BY <1>1, CurrentFacts DEF Bson
<1> HIDE DEF n, cells
<1>4. CASE Refuse
  BY <1>1, <1>4, Unchanged DEF Refuse
<1>5. ASSUME NEW l \in SpillGrow(Current),
             buflen' = l, buf' = SpillBuf(Current, l),
             stack' = [stack EXCEPT ![Top] = d],
             ret' = FALSE, UNCHANGED <<realloc, touched>>
      PROVE  Shape' /\ Kept
  <2>1. /\ l \in Nat /\ buflen <= l /\ (l = buflen \/ l <= MaxSize)
        /\ SameButInline(d, Current) /\ "INLINE" \notin d.flags
        /\ Current.offset + Current.len + Current.depth <= l
        /\ DOMAIN SpillBuf(Current, l) = 0 .. l - 1
    BY <1>1, SpillFacts
  <2> HIDE DEF d
  <2>2. touched' \in Nat /\ WritesInside /\ LongerBuffer
    BY <1>5, <2>1 DEF Shape, TypeOK, WritesInside, LongerBuffer
  <2>3. realloc' \in BOOLEAN /\ ret' \in BOOLEAN
    BY <1>5 DEF Shape, TypeOK
  <2>4. /\ d \in Bson /\ d.offset = Current.offset /\ d.depth = Current.depth
        /\ d.len >= 5
        /\ d.flags = Current.flags \/ d.flags = Current.flags \ {"INLINE"}
        /\ d.offset + d.len + d.depth <= buflen'
    BY <1>3, <1>5, <2>1 DEF SameButInline
  <2>5. QED
    BY <1>1, <1>5, <2>1, <2>2, <2>3, <2>4, TopStep
<1>6. ASSUME NEW l1 \in SpillGrow(Current),
             NEW l2 \in Grow(d, n, l1),
             buflen' = l2,
             buf' = AppendedBuf(GrownBuf(d, n, SpillBuf(Current, l1), l1, l2), d, cells),
             stack' = Append([stack EXCEPT ![Top] =
                                [Lengthened(GrownDoc(d, n, l1), cells)
                                   EXCEPT !.flags = @ \cup {"IN_CHILD"}]],
                             ChildOf(Lengthened(GrownDoc(d, n, l1), cells))),
             touched' = AppendTouches(d, cells),
             ret' = TRUE, UNCHANGED realloc
      PROVE  Shape' /\ Kept
  <2> DEFINE g == GrownDoc(d, n, l1)
             p == Lengthened(g, cells)
  <2>1. /\ l1 \in Nat /\ buflen <= l1 /\ (l1 = buflen \/ l1 <= MaxSize)
        /\ SameButInline(d, Current) /\ "INLINE" \notin d.flags
        /\ DOMAIN SpillBuf(Current, l1) = 0 .. l1 - 1
    BY <1>1, SpillFacts
  <2> HIDE DEF d
  <2>2. GrowPre(d, n, l1) /\ d \in Bson /\ d.len \in Nat
    BY <1>2, <2>1 DEF GrowPre, SameButInline, Bson
  <2>3. /\ l2 \in Nat /\ l1 <= l2 /\ (l2 = l1 \/ l2 <= MaxSize)
        /\ d.offset + d.len + n + d.depth <= l2
        /\ SameButInline(g, d)
    BY <1>6, <2>2, GrowFacts
  <2>4. Len(cells) \in Nat /\ Len(cells) <= n
    BY <1>2
  <2> HIDE DEF g
  <2>5. /\ p \in Bson /\ p.flags = g.flags /\ p.offset = g.offset
        /\ p.depth = g.depth /\ p.len = g.len + Len(cells)
    <3>1. g \in Bson
      BY <2>3 DEF SameButInline
    <3>2. QED
      BY <2>4, <3>1, LengthenedIs
  <2>5a. d.offset + (d.len + Len(cells)) + d.depth <= l2
    BY <1>2, <2>2, <2>3, <2>4, LengthenedFits
  <2>6. AppendTouches(d, cells) \in Nat /\ AppendTouches(d, cells) <= l2
    <3>1. SameButInline(d, d)
      BY <2>2 DEF SameButInline
    <3>2. QED
      BY <1>2, <2>2, <2>3, <2>4, <3>1, LengthenedFits
  <2>7. /\ p.offset = Current.offset /\ p.depth = Current.depth
        /\ p.len = Current.len + n
        /\ p.flags = Current.flags \/ p.flags = Current.flags \ {"INLINE"}
        /\ "INLINE" \notin p.flags
    BY <1>2, <2>1, <2>3, <2>5 DEF SameButInline
  <2>8. p.len >= 6
    BY <1>2, <1>3, <2>7 DEF n
  <2>9. p.offset + p.len + p.depth <= buflen'
    BY <1>2, <1>6, <2>1, <2>5a, <2>7 DEF SameButInline
  <2>10. DOMAIN buf' = 0 .. buflen' - 1
    <3>1. DOMAIN GrownBuf(d, n, SpillBuf(Current, l1), l1, l2) = 0 .. l2 - 1
      BY <1>6, <2>1, GrownDomain
    <3>2. QED
      BY <1>6, <3>1, AppendedDomain
  <2>11. realloc' \in BOOLEAN /\ ret' \in BOOLEAN
    BY <1>6 DEF Shape, TypeOK
  <2>12. stack' = Append([stack EXCEPT ![Top] =
                            [p EXCEPT !.flags = @ \cup {"IN_CHILD"}]],
                         ChildOf(p))
    BY <1>6 DEF g
  <2>13. /\ buflen' \in Nat /\ LongerBuffer
         /\ touched' \in Nat /\ WritesInside
    BY <1>3, <1>6, <2>1, <2>3, <2>6 DEF LongerBuffer, WritesInside
  <2> HIDE DEF p
  <2>14. QED
    BY <1>1, <2>5, <2>7, <2>8, <2>9, <2>10, <2>11, <2>12, <2>13, PushChild
<1>7. QED
  BY <1>4, <1>5, <1>6 DEF BeginChild, n, cells

(* The bytes of a child that is ended are inside the buffer, and its       *)
(* parent's trailing NUL takes the place that was kept for it.             *)
LEMMA EndChildStep ==
    ASSUME Shape, EndChild
    PROVE  Shape' /\ Kept
<1> DEFINE q == stack[Top - 1]
           p == Ended(q, Current)
<1>1. stack # <<>> /\ Top >= 2
  <2>1. Top >= 2
    BY DEF EndChild
  <2>2. stack \in Seq(Bson)
    BY DEF Shape, TypeOK
  <2>3. stack # <<>>
    BY <2>1, <2>2 DEF Top
  <2>4. QED
    BY <2>1, <2>3
<1>2. /\ stack \in Seq(Bson) /\ Top = Len(stack) /\ Top \in Nat
      /\ Current.depth = Top - 1 /\ Current.len >= 5
      /\ Current.len \in Nat /\ Current.offset \in Nat
      /\ buflen \in Nat
      /\ Current.offset + Current.len + Current.depth <= buflen
  BY <1>1, CurrentFacts DEF Shape, TypeOK, Top
<1>3. Top \in 1 .. Top /\ Top > 1 /\ Top - 1 \in 1 .. Top /\ Top # 1
  BY <1>1, <1>2
<1>4. /\ Current.offset = q.offset + q.len - 6
      /\ q.depth = Top - 2 /\ q.len >= 5
      /\ "INLINE" \notin q.flags
      /\ "CHILD" \in q.flags <=> Top - 1 > 1
  <2>1. Current.offset = q.offset + q.len - 6
    BY <1>3 DEF Shape, Nested, Current
  <2>2. q.depth = (Top - 1) - 1 /\ q.len >= 5
    BY <1>3 DEF Shape, Nested
  <2>3. /\ "INLINE" \notin q.flags
        /\ "CHILD" \in q.flags <=> Top - 1 > 1
    BY <1>3 DEF Shape, Nested
  <2>4. QED
    BY <1>2, <2>1, <2>2, <2>3
<1>5. /\ q \in Bson /\ q.len \in Nat /\ q.offset \in Nat
      /\ q.flags \in SUBSET Flags
  <2>1. q \in Bson
    BY <1>2, <1>3
  <2>2. QED
    BY <2>1 DEF Bson
<1>6. /\ p \in Bson /\ p.flags = q.flags \ {"IN_CHILD"}
      /\ p.offset = q.offset /\ p.depth = q.depth
      /\ p.len = q.len + Current.len - 5
  <2>1. q.len + Current.len - 5 \in Nat
    BY SMTT(30), <1>2, <1>5
  <2>2. QED
    BY <1>5, <2>1 DEF Ended, Bson
<1>7. /\ p.len >= 5
      /\ p.offset + p.len + p.depth <= buflen
      /\ p.offset + p.len \in Nat /\ p.offset + p.len <= buflen
  <2> DEFINE cl == Current.len
             co == Current.offset
             ql == q.len
             qo == q.offset
  <2>1. /\ cl \in Nat /\ co \in Nat /\ ql \in Nat /\ qo \in Nat
        /\ cl >= 5 /\ ql >= 5 /\ co = qo + ql - 6
        /\ Top \in Nat /\ Top >= 2 /\ buflen \in Nat
        /\ co + cl + (Top - 1) <= buflen
    BY <1>1, <1>2, <1>4, <1>5
  <2>2. p.len = ql + cl - 5 /\ p.offset = qo /\ p.depth = Top - 2
    BY <1>4, <1>6
  <2> HIDE DEF cl, co, ql, qo, p, q
  <2>3. QED
    BY <2>1, <2>2
<1> HIDE DEF p, q
<1>8. /\ stack' = [SubSeq(stack, 1, Top - 1) EXCEPT ![Top - 1] = p]
      /\ buf' = EndedBuf(buf, p) /\ touched' = p.offset + p.len
      /\ ret' = TRUE /\ buflen' = buflen /\ realloc' = realloc
  BY DEF EndChild, p, q
<1>9. /\ stack' \in Seq(Bson) /\ Len(stack') = Top - 1
      /\ stack'[Top - 1] = p
      /\ \A i \in 1 .. Top - 2 : stack'[i] = stack[i]
  <2>1. /\ SubSeq(stack, 1, Top - 1) \in Seq(Bson)
        /\ Len(SubSeq(stack, 1, Top - 1)) = Top - 1
        /\ \A i \in 1 .. Top - 1 : SubSeq(stack, 1, Top - 1)[i] = stack[i]
    BY <1>1, <1>2
  <2> DEFINE s == SubSeq(stack, 1, Top - 1)
  <2> HIDE DEF s
  <2>2. stack' = [s EXCEPT ![Top - 1] = p]
    BY <1>8 DEF s
  <2>3. /\ s \in Seq(Bson) /\ Len(s) = Top - 1 /\ Top - 1 \in 1 .. Len(s)
        /\ \A i \in 1 .. Top - 1 : s[i] = stack[i]
    BY <1>1, <1>2, <2>1 DEF s
  <2>4. /\ stack' \in Seq(Bson) /\ Len(stack') = Top - 1 /\ stack'[Top - 1] = p
        /\ \A i \in 1 .. Top - 1 : i # Top - 1 => stack'[i] = s[i]
    BY <1>6, <2>2, <2>3
  <2>5. \A i \in 1 .. Top - 2 : i \in 1 .. Top - 1 /\ i # Top - 1
    BY <1>2
  <2>6. QED
    BY <2>3, <2>4, <2>5
<1>10. Top' = Top - 1 /\ Current' = p /\ stack' # <<>>
  BY <1>1, <1>9 DEF Top, Current
<1>11. TypeOK'
  <2>1. DOMAIN buf' = 0 .. buflen' - 1
    BY <1>8, CopiedDomain DEF EndedBuf, Shape, TypeOK
  <2>2. touched' \in Nat /\ buflen' \in Nat /\ realloc' \in BOOLEAN /\ ret' \in BOOLEAN
    BY <1>2, <1>7, <1>8 DEF Shape, TypeOK
  <2>3. QED
    BY <1>9, <2>1, <2>2 DEF TypeOK
<1>12. ASSUME NEW i \in 1 .. Top - 1
       PROVE  /\ "IN_CHILD" \in stack'[i].flags <=> i < Top - 1
              /\ "CHILD" \in stack'[i].flags <=> i > 1
              /\ "INLINE" \notin stack'[i].flags
              /\ stack'[i].depth = i - 1
              /\ stack'[i].len >= 5
              /\ stack'[i].offset = stack[i].offset
              /\ i > 1 => stack'[i].offset
                            = stack'[i - 1].offset + stack'[i - 1].len - 6
  <2>1. i \in 1 .. Top /\ i < Top
    BY <1>1, <1>2
  <2>2. /\ "IN_CHILD" \in stack[i].flags
        /\ "CHILD" \in stack[i].flags <=> i > 1
        /\ "INLINE" \notin stack[i].flags
        /\ stack[i].depth = i - 1
        /\ stack[i].len >= 5
        /\ i > 1 => stack[i].offset = stack[i - 1].offset + stack[i - 1].len - 6
    BY <1>3, <2>1 DEF Shape, Nested
  <2>3. /\ i # Top - 1 => stack'[i] = stack[i]
        /\ i = Top - 1 => stack'[i] = p /\ stack[i] = q
    BY <1>1, <1>2, <1>9 DEF q
  <2>4. /\ "CHILD" \in stack'[i].flags <=> i > 1
        /\ "INLINE" \notin stack'[i].flags
        /\ stack'[i].depth = i - 1
        /\ stack'[i].len >= 5
        /\ stack'[i].offset = stack[i].offset
    BY <1>6, <1>7, <2>2, <2>3
  <2>5. "IN_CHILD" \in stack'[i].flags <=> i < Top - 1
    <3>1. CASE i = Top - 1
      <4>1. "IN_CHILD" \notin stack'[i].flags
        BY <1>6, <2>3, <3>1
      <4>2. ~(i < Top - 1)
        BY <1>2, <3>1
      <4>3. QED
        BY <4>1, <4>2
    <3>2. CASE i # Top - 1
      <4>1. "IN_CHILD" \in stack'[i].flags
        BY <2>2, <2>3, <3>2
      <4>2. i < Top - 1
        BY <1>2, <2>1, <3>2
      <4>3. QED
        BY <4>1, <4>2
    <3>3. QED
      BY <3>1, <3>2
  <2>6. ASSUME i > 1
        PROVE  stack'[i].offset = stack'[i - 1].offset + stack'[i - 1].len - 6
    <3>1. i - 1 \in 1 .. Top - 2
      BY <1>2, <2>6
    <3>2. stack'[i - 1] = stack[i - 1]
      BY <1>9, <3>1
    <3>3. QED
      BY <2>2, <2>4, <2>6, <3>2
  <2>7. QED
    BY <2>4, <2>5, <2>6
<1>13. Nested'
  BY <1>10, <1>12 DEF Nested
<1>14. RoomForParents'
  BY <1>7, <1>8, <1>10 DEF RoomForParents
<1>15. "INLINE" \notin stack'[1].flags /\ stack'[1].offset = stack[1].offset
  <2>1. 1 \in 1 .. Top - 1
    BY <1>1, <1>2
  <2>2. QED
    BY <1>12, <2>1
<1>16. InlineRoot'
  BY <1>15 DEF InlineRoot
<1>17. AfterRoot'
  <2>1. ASSUME NEW i \in 1 .. Top - 1 PROVE stack'[1].offset <= stack'[i].offset
    <3>1. i \in 1 .. Top
      BY <1>2
    <3>2. stack[1].offset <= stack[i].offset
      BY <3>1 DEF Shape, AfterRoot
    <3>3. QED
      BY <1>12, <1>15, <3>2
  <2>2. QED
    BY <1>10, <2>1 DEF AfterRoot
<1>18. Kept
  BY <1>2, <1>7, <1>8, <1>10, <1>15 DEF Kept, LongerBuffer, WritesInside
<1>19. QED
  BY <1>11, <1>13, <1>14, <1>16, <1>17, <1>18 DEF Shape

-----------------------------------------------------------------------------
(* A new root holds its bytes.                                             *)
LEMMA NewRootStep ==
    ASSUME NEW size \in Nat, NEW cells, NEW body,
           Len(cells) \in Nat, Len(cells) >= 5, size <= MaxSize,
           Len(cells) <= RootLength(size),
           NewRoot(size, cells, body)
    PROVE  IInv'
<1> DEFINE d == [flags |-> RootFlags(size), len |-> Len(cells),
                 offset |-> 0, depth |-> 0]
<1>1. /\ RootLength(size) \in Nat /\ RootLength(size) <= MaxSize
      /\ "INLINE" \in RootFlags(size) => RootLength(size) = InlineSize
      /\ RootFlags(size) \in SUBSET Flags
      /\ "CHILD" \notin RootFlags(size) /\ "IN_CHILD" \notin RootFlags(size)
  BY Sizes DEF RootLength, RootFlags, Flags
<1>2. /\ stack' = <<d>> /\ buflen' = RootLength(size)
      /\ buf' = Copied(Resized(<<>>, 0, RootLength(size)), 0, cells)
      /\ realloc' = TRUE /\ ret' = TRUE /\ touched' = Len(cells)
  BY DEF NewRoot
<1>3. /\ d \in Bson /\ d.flags = RootFlags(size) /\ d.len = Len(cells)
      /\ d.offset = 0 /\ d.depth = 0
  BY <1>1 DEF Bson
<1> HIDE DEF d
<1>4. /\ stack' \in Seq(Bson) /\ Len(stack') = 1 /\ stack'[1] = d /\ stack' # <<>>
  BY <1>2, <1>3
<1>5. Top' = 1 /\ Current' = d
  BY <1>4 DEF Top, Current
<1>6. TypeOK'
  <2>1. DOMAIN buf' = 0 .. buflen' - 1
    BY <1>2, CopiedDomain, ResizedDomain
  <2>2. QED
    BY <1>1, <1>2, <1>4, <2>1 DEF TypeOK
<1>7. Nested'
  <2>1. ASSUME NEW i \in 1 .. Top'
        PROVE  /\ i = 1 /\ stack'[i] = d /\ ~(i < Top') /\ ~(i > 1) /\ d.depth = i - 1
    BY <1>3, <1>4, <1>5
  <2>2. d.len >= 5
    BY <1>3
  <2>3. QED
    BY <1>1, <1>3, <1>5, <2>1, <2>2 DEF Nested
<1>8. WritesFit'
  BY <1>2 DEF WritesFit
<1>9. RoomForParents'
  <2>1. d.offset + d.len + d.depth <= buflen'
    BY <1>1, <1>2, <1>3
  <2>2. QED
    BY <1>5, <2>1 DEF RoomForParents
<1>10. Owned' /\ InlineRoot'
  BY <1>1, <1>2, <1>3, <1>4 DEF Owned, InlineRoot
<1>11. AfterRoot'
  BY <1>3, <1>4, <1>5 DEF AfterRoot
<1>12. QED
  BY <1>6, <1>7, <1>8, <1>9, <1>10, <1>11 DEF IInv, Shape

LEMMA DocumentLength ==
    ASSUME NEW e \in Elements
    PROVE  5 + e.size \in Nat /\ Len(Document(e)) = 5 + e.size
<1>1. e.size \in Nat
  BY ElementsAssumption
<1> DEFINE S == {DataByte(e), Nul} \cup {LenByte(5 + e.size, j) : j \in 0 .. 3}
<1>2. LenCells(5 + e.size) \in Seq(S) /\ Len(LenCells(5 + e.size)) = 4
  BY DEF LenCells
<1>3. Repeat(DataByte(e), e.size) \in Seq(S) /\ Len(Repeat(DataByte(e), e.size)) = e.size
  BY <1>1 DEF Repeat
<1>4. <<Nul>> \in Seq(S) /\ Len(<<Nul>>) = 1
  OBVIOUS
<1> HIDE DEF S
<1>5. Len(Document(e)) = 4 + e.size + 1
  <2> DEFINE header == LenCells(5 + e.size)
             body   == Repeat(DataByte(e), e.size)
  <2>1. /\ header \in Seq(S) /\ Len(header) = 4
        /\ body \in Seq(S) /\ Len(body) = e.size
    BY <1>2, <1>3
  <2>2. Document(e) = (header \o body) \o <<Nul>>
    BY <2>1 DEF Document, Encoded, ElementCells
  <2> HIDE DEF header, body
  <2>3. header \o body \in Seq(S) /\ Len(header \o body) = Len(header) + Len(body)
    BY <2>1, ConcatProperties
  <2>4. Len((header \o body) \o <<Nul>>) = Len(header \o body) + Len(<<Nul>>)
    BY <1>4, <2>3, ConcatProperties
  <2>5. QED
    BY <1>1, <1>4, <2>1, <2>2, <2>3, <2>4
<1>6. QED
  BY <1>1, <1>5

LEMMA InitEstablishes == Init => IInv
<1> SUFFICES ASSUME Init PROVE IInv
  OBVIOUS
<1>1. stack = <<>> /\ Top = 0
  BY DEF Init, Top
<1>2. TypeOK
  <2>1. DOMAIN buf = 0 .. buflen - 1
    BY DEF Init
  <2>2. QED
    BY <2>1 DEF Init, TypeOK
<1>3. Nested
  BY <1>1 DEF Nested
<1>4. QED
  BY <1>1, <1>2, <1>3 DEF IInv, Shape, WritesFit, RoomForParents, Owned, InlineRoot, AfterRoot

LEMMA DestroyStep ==
    ASSUME IInv, bson_destroy
    PROVE  IInv'
<1>1. stack' = <<>> /\ Top' = 0 /\ buf' = <<>> /\ buflen' = 0
      /\ UNCHANGED <<realloc, ret, touched>>
  BY DEF bson_destroy, Top
<1>2. TypeOK'
  <2>1. DOMAIN buf' = 0 .. buflen' - 1
    BY <1>1
  <2>2. QED
    BY <1>1, <2>1 DEF IInv, Shape, TypeOK
<1>3. Nested'
  BY <1>1 DEF Nested
<1>4. QED
  BY <1>1, <1>2, <1>3 DEF IInv, Shape, WritesFit, RoomForParents, Owned, InlineRoot, AfterRoot

(* The calls on an open document, and IInv.                                *)
LEMMA OpenStep ==
    ASSUME Shape, Reserved,
           Build \/ bson_reinit \/ \E e \in Elements : bson_reserve_buffer(e)
    PROVE  Shape' /\ Kept
BY AppendElementStep, BeginChildStep, EndChildStep, ReinitStep, ReserveStep DEF Build

LEMMA KeptFacts ==
    ASSUME IInv, Shape', Kept, stack # <<>>
    PROVE  IInv'
<1>1. /\ buflen \in Nat /\ buflen' \in Nat /\ touched \in Nat /\ touched' \in Nat
      /\ touched <= buflen /\ buflen <= MaxSize /\ stack[1].offset = 0
  BY DEF IInv, Shape, TypeOK, WritesFit, Owned
<1>2. WritesFit' /\ Owned'
  BY <1>1, Sizes DEF Kept, LongerBuffer, WritesInside, WritesFit, Owned
<1>3. QED
  BY <1>2 DEF IInv

LEMMA NextPreserves ==
    ASSUME IInv, Reserved, [Next]_vars
    PROVE  IInv'
<1>1. ASSUME NEW size \in SizedNew, bson_sized_new(size)
      PROVE  IInv'
  <2>1. size \in Nat /\ size <= MaxSize
    BY ParametersAssumption, Sizes
  <2>2. Len(EmptyDoc) \in Nat /\ Len(EmptyDoc) >= 5 /\ Len(EmptyDoc) <= RootLength(size)
    BY <2>1, EmptyDocFacts, Sizes DEF RootLength
  <2>3. QED
    BY <1>1, <2>1, <2>2, NewRootStep DEF bson_sized_new
<1>2. ASSUME NEW e \in Elements, bson_new_from_data(e)
      PROVE  IInv'
  <2> DEFINE size == 5 + e.size
  <2>1. size \in Nat /\ size >= 5 /\ Len(Document(e)) = size
    BY DocumentLength, ElementsAssumption
  <2>2. size <= MaxSize /\ NewRoot(size, Document(e), ElementCells(e))
    BY <1>2 DEF bson_new_from_data
  <2> HIDE DEF size
  <2>3. /\ Len(Document(e)) \in Nat /\ Len(Document(e)) >= 5
        /\ Len(Document(e)) <= RootLength(size)
    BY <2>1, Sizes DEF RootLength
  <2>4. QED
    BY <2>1, <2>2, <2>3, NewRootStep
<1>3. CASE Build \/ bson_reinit \/ \E e \in Elements : bson_reserve_buffer(e)
  <2>1. stack # <<>>
    <3>1. Top >= 2 => stack # <<>>
      BY DEF Top
    <3>2. QED
      BY <1>3, <3>1 DEF Build, AppendElement, BeginChild, EndChild, bson_reinit,
                        bson_reserve_buffer, Appendable
  <2>2. QED
    BY <1>3, <2>1, OpenStep, KeptFacts DEF IInv
<1>4. CASE bson_destroy
  BY <1>4, DestroyStep
<1>5. CASE UNCHANGED vars
  BY <1>5, Unchanged DEF vars, IInv, Shape, TypeOK, WritesFit, Owned
<1>6. QED
  BY <1>1, <1>2, <1>3, <1>4, <1>5 DEF Next

-----------------------------------------------------------------------------
(* Documents built with the append functions keep the invariant, as long   *)
(* as no function copies more than it told _bson_append.                   *)
THEOREM Invariance ==
    ASSUME Reserved
    PROVE  Spec => []IInv
<1>1. Init => IInv
  BY InitEstablishes
<1>2. IInv /\ [Next]_vars => IInv'
  BY NextPreserves
<1>3. QED
  BY <1>1, <1>2, PTL DEF Spec

(* The fields of the open documents have their types, and the buffer has   *)
(* the length bson_impl_alloc_t gives it.                                  *)
THEOREM TypeCorrect ==
    ASSUME Reserved
    PROVE  Spec => []TypeOK
<1>1. IInv => TypeOK
  BY DEF IInv, Shape
<1>2. QED
  BY <1>1, Invariance, PTL

(* Each open subdocument starts at the empty document its parent ends with *)
(* and knows its depth, wherever _bson_grow has moved the buffer to.       *)
THEOREM ChildrenAreNested ==
    ASSUME Reserved
    PROVE  Spec => []Nested
<1>1. IInv => Nested
  BY DEF IInv, Shape
<1>2. QED
  BY <1>1, Invariance, PTL

(* No append, begin, end, reinit or reserve_buffer writes past the buffer. *)
THEOREM NoWriteOutside ==
    ASSUME Reserved
    PROVE  Spec => []WritesFit
<1>1. IInv => WritesFit
  BY DEF IInv
<1>2. QED
  BY <1>1, Invariance, PTL

(* bson_append_document_end never lacks the room it does not ask for.      *)
THEOREM EndAlwaysFits ==
    ASSUME Reserved
    PROVE  Spec => []RoomForParents
<1>1. IInv => RoomForParents
  BY DEF IInv, Shape
<1>2. QED
  BY <1>1, Invariance, PTL

(* No document, open ones included, gets longer than its int32 can say.    *)
THEOREM LengthsStayEncodable ==
    ASSUME Reserved
    PROVE  Spec => []LengthsFit
<1>1. IInv => LengthsFit
  <2> SUFFICES ASSUME IInv, stack # <<>>
               PROVE  Current.offset - stack[1].offset + Current.len + Current.depth
                         <= MaxSize
    BY DEF LengthsFit
  <2>1. /\ Current.offset \in Nat /\ Current.len \in Nat
        /\ Current.depth = Top - 1 /\ Top \in Nat
        /\ Current.offset + Current.len + Current.depth <= buflen
        /\ buflen \in Nat /\ buflen <= MaxSize
    BY CurrentFacts DEF IInv, Owned
  <2>2. stack[1].offset = 0
    BY DEF IInv, Owned
  <2>3. QED
    BY <2>1, <2>2, Sizes
<1>2. QED
  BY <1>1, Invariance, PTL

=============================================================================
