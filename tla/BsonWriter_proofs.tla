------------------------- MODULE BsonWriter_proofs --------------------------
(***************************************************************************)
(* The writer, for every buffer of the caller's and every set of elements  *)
(* that copy no more than they reserve: the documents ended lie one behind *)
(* the other in the buffer, and neither they nor the bytes the caller had  *)
(* there are touched again.                                                *)
(***************************************************************************)
EXTENDS BsonWriter, BsonDocument_proofs, NaturalsInduction, WellFoundedInduction

-----------------------------------------------------------------------------
(* What a call on an open document that starts at o or later does to the   *)
(* buffer b: in c the bytes in front of o are those of b.                  *)
Safe(b, c, o) == \A i \in DOMAIN b : i < o => i \in DOMAIN c /\ c[i] = b[i]

LEMMA SafeSame == ASSUME NEW b, NEW o PROVE Safe(b, b, o)
BY DEF Safe

LEMMA SafeTransitive ==
    ASSUME NEW a, NEW b, NEW c, NEW o, Safe(a, b, o), Safe(b, c, o)
    PROVE  Safe(a, c, o)
BY DEF Safe

-----------------------------------------------------------------------------
(* What memcpy, realloc and the helpers made of them leave in front of o.  *)
LEMMA CopiedSafe ==
    ASSUME NEW b, NEW o \in Nat, NEW at \in Int, o <= at,
           NEW l \in Nat, DOMAIN b = 0 .. l - 1, NEW s
    PROVE  Safe(b, Copied(b, at, s), o)
BY DEF Safe, Copied

LEMMA ResizedSafe ==
    ASSUME NEW b, NEW o \in Nat, NEW l \in Nat, DOMAIN b = 0 .. l - 1,
           NEW n \in Nat, n <= l, NEW m \in Nat, l <= m,
           n = l \/ o <= n
    PROVE  Safe(b, Resized(b, n, m), o)
BY DEF Safe, Resized

(* _bson_grow of a document d: an inline one has nothing in front of it.   *)
LEMMA GrownSafe ==
    ASSUME NEW d, NEW size, NEW l, GrowPre(d, size, l),
           NEW m \in Grow(d, size, l),
           NEW b, DOMAIN b = 0 .. l - 1,
           NEW o \in Nat, o <= d.offset, d.offset + d.len <= l
    PROVE  Safe(b, GrownBuf(d, size, b, l, m), o)
<1>1. /\ l \in Nat /\ d.len \in Nat /\ d.offset \in Nat
      /\ "INLINE" \in d.flags => d.offset = 0
  BY DEF GrowPre, Bson
<1>2. m \in Nat /\ l <= m
  BY GrowFacts
<1>3. CASE Holds(d, size, l)
  BY <1>3, SafeSame DEF GrownBuf
<1>4. CASE ~Holds(d, size, l) /\ "INLINE" \in d.flags
  <2>1. GrownBuf(d, size, b, l, m) = Resized(b, d.len, m)
    BY <1>4 DEF GrownBuf
  <2>2. d.len <= l /\ o <= d.len
    BY <1>1, <1>4
  <2>3. QED
    BY <1>1, <1>2, <2>1, <2>2, ResizedSafe
<1>5. CASE ~Holds(d, size, l) /\ "INLINE" \notin d.flags
  <2>1. GrownBuf(d, size, b, l, m) = Resized(b, l, m)
    BY <1>5 DEF GrownBuf
  <2>2. QED
    BY <1>1, <1>2, <2>1, ResizedSafe
<1>6. QED
  BY <1>3, <1>4, <1>5

LEMMA AppendedSafe ==
    ASSUME NEW d \in Bson, d.len >= 5, NEW o \in Nat, o <= d.offset,
           NEW b, NEW l \in Nat, DOMAIN b = 0 .. l - 1,
           NEW cells, Len(cells) \in Nat
    PROVE  Safe(b, AppendedBuf(b, d, cells), o)
<1> DEFINE at == d.offset + d.len - 1
           c1 == Copied(b, at, cells)
           n  == d.len + Len(cells)
           c2 == Copied(c1, d.offset, LenCells(n))
           to == at + Len(cells)
<1>1. /\ at \in Int /\ o <= at /\ d.offset \in Int /\ to \in Int /\ o <= to
      /\ n \in Nat
  BY DEF Bson
<1>2. AppendedBuf(b, d, cells) = Copied(c2, to, <<Nul>>)
  BY DEF AppendedBuf
<1>3. DOMAIN c1 = 0 .. l - 1 /\ DOMAIN c2 = 0 .. l - 1
  BY CopiedDomain
<1> HIDE DEF at, n, to
<1>5. Safe(b, c1, o)
  BY <1>1, CopiedSafe
<1> HIDE DEF c1
<1>6. Safe(c1, c2, o)
  BY <1>1, <1>3, CopiedSafe
<1> HIDE DEF c2
<1>7. Safe(c2, Copied(c2, to, <<Nul>>), o)
  BY <1>1, <1>3, CopiedSafe
<1>8. QED
  BY <1>2, <1>5, <1>6, <1>7, SafeTransitive

-----------------------------------------------------------------------------
(* Where the root starts, and what the last document may assume of it.     *)
LEMMA RootFacts ==
    ASSUME Shape, stack # <<>>
    PROVE  /\ stack[1].offset \in Nat /\ stack[1].offset <= Current.offset
           /\ DOMAIN buf = 0 .. buflen - 1
<1>1. /\ stack \in Seq(Bson) /\ 1 \in 1 .. Top /\ Top \in 1 .. Top
      /\ DOMAIN stack = 1 .. Top
  BY CurrentFacts DEF Shape, TypeOK
<1>2. stack[1].offset <= Current.offset
  BY <1>1 DEF Shape, AfterRoot, Current
<1>3. stack[1] \in Bson
  BY <1>1
<1>4. QED
  BY <1>2, <1>3 DEF Bson, Shape, TypeOK

(* Each call on an open document keeps what is in front of the root.       *)
LEMMA AppendElementSafe ==
    ASSUME Shape, NEW e \in Elements, AppendElement(e)
    PROVE  Safe(buf, buf', stack[1].offset)
<1>1. stack # <<>>
  BY DEF AppendElement, Appendable
<1>2. CASE Refuse
  BY <1>2, SafeSame DEF Refuse
<1>3. CASE ~Refuse
  <2> DEFINE d == GrownDoc(Current, e.n_bytes, buflen)
             o == stack[1].offset
  <2>1. PICK l \in Grow(Current, e.n_bytes, buflen) :
           buf' = AppendedBuf(GrownBuf(Current, e.n_bytes, buf, buflen, l), d,
                              Repeat(DataByte(e), e.size))
    BY <1>3 DEF AppendElement, ElementCells
  <2>2. /\ GrowPre(Current, e.n_bytes, buflen) /\ buflen \in Nat
        /\ Current.len \in Nat /\ Current.offset \in Nat /\ Current.len >= 5
        /\ Current.depth \in Nat
        /\ Current.offset + Current.len + Current.depth <= buflen
    BY <1>1, CurrentFacts, ElementsAssumption
  <2>3. o \in Nat /\ o <= Current.offset /\ DOMAIN buf = 0 .. buflen - 1
    BY <1>1, RootFacts
  <2>4. l \in Nat /\ SameButInline(d, Current)
    BY <2>2, GrowFacts
  <2>5. d \in Bson /\ d.len >= 5 /\ o <= d.offset
    BY <2>2, <2>3, <2>4 DEF SameButInline
  <2>6. Current.offset + Current.len <= buflen
    BY <2>2
  <2> DEFINE b == GrownBuf(Current, e.n_bytes, buf, buflen, l)
  <2>7. DOMAIN b = 0 .. l - 1
    BY <2>3, GrownDomain
  <2> HIDE DEF o, d
  <2>8. Safe(buf, b, o)
    BY <2>2, <2>3, <2>6, GrownSafe
  <2> HIDE DEF b
  <2>9. Safe(b, AppendedBuf(b, d, Repeat(DataByte(e), e.size)), o)
    BY <2>3, <2>4, <2>5, <2>7, ElementsAssumption, RepeatFacts, AppendedSafe
  <2>10. buf' = AppendedBuf(b, d, Repeat(DataByte(e), e.size))
    BY <2>1 DEF b
  <2>11. Safe(buf, buf', o)
    BY <2>8, <2>9, <2>10, SafeTransitive
  <2>12. QED
    BY <2>11 DEF o
<1>4. QED
  BY <1>2, <1>3

LEMMA ReserveSafe ==
    ASSUME Shape, NEW e \in Elements, bson_reserve_buffer(e)
    PROVE  Safe(buf, buf', stack[1].offset)
<1>1. stack # <<>>
  BY DEF bson_reserve_buffer, Appendable
<1>2. CASE Refuse
  BY <1>2, SafeSame DEF Refuse
<1>3. CASE ~Refuse
  <2> DEFINE size == 5 + e.size
             d    == GrownDoc(Current, size, buflen)
             o    == stack[1].offset
  <2>1. PICK l \in Grow(Current, size, buflen) :
           buf' = Copied(GrownBuf(Current, size, buf, buflen, l), d.offset, Document(e))
    BY <1>3 DEF bson_reserve_buffer
  <2>2. size \in Nat
    BY ElementsAssumption
  <2>3. /\ GrowPre(Current, size, buflen) /\ buflen \in Nat
        /\ Current.len \in Nat /\ Current.offset \in Nat /\ Current.depth \in Nat
        /\ Current.offset + Current.len + Current.depth <= buflen
    BY <1>1, <2>2, CurrentFacts
  <2>4. o \in Nat /\ o <= Current.offset /\ DOMAIN buf = 0 .. buflen - 1
    BY <1>1, RootFacts
  <2>5. l \in Nat /\ SameButInline(d, Current)
    BY <2>3, GrowFacts
  <2>6. d.offset \in Int /\ o <= d.offset
    BY <2>3, <2>4, <2>5 DEF SameButInline
  <2>7. Current.offset + Current.len <= buflen
    BY <2>3
  <2> DEFINE b == GrownBuf(Current, size, buf, buflen, l)
  <2>8. DOMAIN b = 0 .. l - 1
    BY <2>4, GrownDomain
  <2> HIDE DEF o, d, size
  <2>9. Safe(buf, b, o)
    BY <2>3, <2>4, <2>7, GrownSafe
  <2> HIDE DEF b
  <2>10. Safe(b, Copied(b, d.offset, Document(e)), o)
    BY <2>4, <2>5, <2>6, <2>8, CopiedSafe
  <2>11. buf' = Copied(b, d.offset, Document(e))
    BY <2>1 DEF b
  <2>12. Safe(buf, buf', o)
    BY <2>9, <2>10, <2>11, SafeTransitive
  <2>13. QED
    BY <2>12 DEF o
<1>4. QED
  BY <1>2, <1>3

LEMMA ReinitSafe ==
    ASSUME Shape, bson_reinit
    PROVE  Safe(buf, buf', stack[1].offset)
<1>1. stack # <<>> /\ buf' = Copied(buf, Current.offset, EmptyDoc)
  BY DEF bson_reinit, Appendable
<1>2. Current.offset \in Nat /\ buflen \in Nat
  BY <1>1, CurrentFacts
<1>3. QED
  BY <1>1, <1>2, RootFacts, CopiedSafe

LEMMA EndChildSafe ==
    ASSUME Shape, EndChild
    PROVE  Safe(buf, buf', stack[1].offset)
<1> DEFINE q == stack[Top - 1]
           p == Ended(q, Current)
           o == stack[1].offset
<1>1. Top >= 2 /\ buf' = EndedBuf(buf, p)
  BY DEF EndChild
<1>2. stack # <<>> /\ stack \in Seq(Bson)
  <2>1. stack \in Seq(Bson)
    BY DEF Shape, TypeOK
  <2>2. QED
    BY <1>1, <2>1 DEF Top
<1>3. /\ Top \in Nat /\ Top - 1 \in 1 .. Top /\ DOMAIN stack = 1 .. Top
      /\ Current.len \in Nat /\ Current.len >= 5 /\ buflen \in Nat
  BY <1>1, <1>2, CurrentFacts
<1>4. q \in Bson /\ q.len >= 5 /\ o <= q.offset
  BY <1>2, <1>3 DEF Shape, Nested, AfterRoot
<1>5. o \in Nat /\ DOMAIN buf = 0 .. buflen - 1
  BY <1>2, RootFacts
<1>6. p.offset = q.offset /\ p.len = q.len + Current.len - 5
  BY <1>4 DEF Ended, Bson
<1>7. q.offset \in Nat /\ q.len \in Nat
  BY <1>4 DEF Bson
<1> HIDE DEF p, q, o
<1>8. /\ p.offset + p.len - 1 \in Int /\ o <= p.offset + p.len - 1
      /\ p.offset \in Int /\ o <= p.offset /\ p.len \in Nat
  BY SMTT(30), <1>3, <1>4, <1>5, <1>6, <1>7
<1> DEFINE at == p.offset + p.len - 1
           b  == Copied(buf, at, <<Nul>>)
<1>9. DOMAIN b = 0 .. buflen - 1
  BY <1>5, CopiedDomain
<1>11. buf' = Copied(b, p.offset, LenCells(p.len))
  BY <1>1 DEF EndedBuf
<1>12. at \in Int /\ o <= at
  BY <1>8
<1> HIDE DEF at
<1>13. Safe(buf, b, o)
  BY <1>3, <1>5, <1>12, CopiedSafe
<1> HIDE DEF b
<1>14. Safe(b, Copied(b, p.offset, LenCells(p.len)), o)
  BY <1>3, <1>5, <1>8, <1>9, CopiedSafe
<1>15. Safe(buf, buf', o)
  BY <1>11, <1>13, <1>14, SafeTransitive
<1>16. QED
  BY <1>15 DEF o

(* An inline parent is moved first, when it is all there is in its buffer. *)
LEMMA SpillSafe ==
    ASSUME Shape, stack # <<>>, NEW l \in SpillGrow(Current)
    PROVE  Safe(buf, SpillBuf(Current, l), stack[1].offset)
<1>1. /\ Current.len \in Nat /\ Current.offset \in Nat /\ Current.depth \in Nat
      /\ Current.offset + Current.len + Current.depth <= buflen /\ buflen \in Nat
      /\ \A size \in Nat : GrowPre(Current, size, buflen)
      /\ Top = 1 => Current.depth = 0
  BY CurrentFacts
<1>2. CASE Spills(Current)
  <2> DEFINE size == SpillSize - Current.len
             o    == stack[1].offset
  <2>1. buflen = InlineSize /\ Current.len <= buflen
    <3>1. GrowPre(Current, 0, buflen)
      BY <1>1
    <3>2. QED
      BY <1>1, <1>2, <3>1 DEF GrowPre, Spills
  <2>2. size \in Nat
    BY <1>1, <2>1, Sizes
  <2>3. /\ l \in Grow(Current, size, buflen) /\ GrowPre(Current, size, buflen)
        /\ SpillBuf(Current, l) = GrownBuf(Current, size, buf, buflen, l)
    BY <1>1, <1>2, <2>2 DEF SpillGrow, SpillBuf
  <2>4. o \in Nat /\ o <= Current.offset /\ DOMAIN buf = 0 .. buflen - 1
    BY RootFacts
  <2>5. Current.offset + Current.len <= buflen
    BY <1>1
  <2> HIDE DEF size, o
  <2>6. Safe(buf, GrownBuf(Current, size, buf, buflen, l), o)
    BY <2>3, <2>4, <2>5, GrownSafe
  <2>7. QED
    BY <2>3, <2>6 DEF o
<1>3. CASE ~Spills(Current)
  BY <1>3, SafeSame DEF SpillBuf
<1>4. QED
  BY <1>2, <1>3

LEMMA BeginChildSafe ==
    ASSUME Shape, NEW k \in KeyLengths, BeginChild(k)
    PROVE  Safe(buf, buf', stack[1].offset)
<1> DEFINE n     == 1 + k + 1 + 5
           cells == ChildHeader(k) \o EmptyDoc
           d     == SpillDoc(Current)
           o     == stack[1].offset
<1>1. stack # <<>>
  BY DEF BeginChild, Appendable
<1>2. k \in Nat /\ n \in Nat /\ Len(cells) = n
  BY ParametersAssumption, ChildCells
<1>3. /\ Current \in Bson /\ Current.len \in Nat /\ Current.len >= 5
      /\ Current.offset \in Nat /\ Current.depth \in Nat
      /\ o \in Nat /\ o <= Current.offset
  BY <1>1, CurrentFacts, RootFacts DEF Bson
<1>4. CASE Refuse
  BY <1>4, SafeSame DEF Refuse
<1> HIDE DEF n, cells
<1>5. ASSUME NEW l \in SpillGrow(Current), buf' = SpillBuf(Current, l)
      PROVE  Safe(buf, buf', stack[1].offset)
  BY <1>1, <1>5, SpillSafe
<1>6. ASSUME NEW l1 \in SpillGrow(Current),
             NEW l2 \in Grow(d, n, l1),
             buf' = AppendedBuf(GrownBuf(d, n, SpillBuf(Current, l1), l1, l2), d, cells)
      PROVE  Safe(buf, buf', stack[1].offset)
  <2> DEFINE b1 == SpillBuf(Current, l1)
             b2 == GrownBuf(d, n, b1, l1, l2)
  <2>1. /\ l1 \in Nat
        /\ SameButInline(d, Current) /\ "INLINE" \notin d.flags
        /\ Current.offset + Current.len + Current.depth <= l1
        /\ DOMAIN b1 = 0 .. l1 - 1
    BY <1>1, SpillFacts
  <2>2. Safe(buf, b1, o)
    BY <1>1, SpillSafe
  <2> HIDE DEF d, o, b1
  <2>3. /\ GrowPre(d, n, l1) /\ d \in Bson /\ d.len >= 5
        /\ o <= d.offset /\ d.offset + d.len <= l1
    BY <1>2, <1>3, <2>1 DEF GrowPre, SameButInline
  <2>4. l2 \in Nat
    BY <1>6, <2>3, GrowFacts
  <2>5. DOMAIN b2 = 0 .. l2 - 1
    BY <1>6, <2>1, GrownDomain
  <2>6. Safe(b1, b2, o)
    BY <1>3, <1>6, <2>1, <2>3, GrownSafe
  <2>7. buf' = AppendedBuf(b2, d, cells)
    BY <1>6 DEF b1
  <2> HIDE DEF b2
  <2>8. Safe(b2, AppendedBuf(b2, d, cells), o)
    BY <1>2, <1>3, <2>3, <2>4, <2>5, AppendedSafe
  <2>9. Safe(buf, buf', o)
    <3>1. Safe(buf, b2, o)
      BY <2>2, <2>6, SafeTransitive
    <3>2. QED
      BY <2>7, <2>8, <3>1, SafeTransitive
  <2>10. QED
    BY <2>9 DEF o
<1>7. QED
  BY <1>4, <1>5, <1>6 DEF BeginChild, n, cells

LEMMA WriteSafe ==
    ASSUME Shape, Write
    PROVE  Safe(buf, buf', stack[1].offset)
BY AppendElementSafe, BeginChildSafe, EndChildSafe, ReinitSafe, ReserveSafe
   DEF Write, Build

(* There is nothing to call them on when no document is open.              *)
LEMMA WriteNeedsOpen ==
    ASSUME Shape, Write
    PROVE  stack # <<>>
<1>1. stack \in Seq(Bson)
  BY DEF Shape, TypeOK
<1>2. ASSUME Top >= 2 PROVE stack # <<>>
  BY <1>1, <1>2 DEF Top
<1>3. QED
  BY <1>2 DEF Write, Build, AppendElement, BeginChild, EndChild, bson_reinit,
              bson_reserve_buffer, Appendable

-----------------------------------------------------------------------------
(* How bson_writer_begin makes room: doubling reaches every length the     *)
(* model asks for.                                                         *)
Before == {p \in Nat \X Nat : p[1] < p[2]}

LEMMA BeforeWellFounded == IsWellFoundedOn(Before, Nat)
BY NatLessThanWellFounded DEF OpToRel, Before

LEMMA LeastNat ==
    ASSUME NEW S \in SUBSET Nat, S # {}
    PROVE  \E m \in S : \A k \in S : m <= k
<1>1. PICK m \in S : \A k \in S : <<k, m>> \notin Before
  BY BeforeWellFounded, WFMin
<1>2. ASSUME NEW k \in S PROVE m <= k
  <2>1. m \in Nat /\ k \in Nat /\ <<k, m>> \notin Before
    BY <1>1
  <2>2. ~ k < m
    BY <2>1 DEF Before
  <2>3. QED
    BY <2>1, <2>2
<1>3. QED
  BY <1>2

InReach(n) == n <= 1073741824

LEMMA WriterSizes ==
    FirstBuffer \in Nat /\ FirstBuffer >= 1 /\ MaxBuffer \in Nat /\ InReach(MaxBuffer)
BY SMT, WriterAssumption DEF InReach

LEMMA PowerInReach ==
    ASSUME NEW n \in Nat, 1 <= n, InReach(n)
    PROVE  \E p \in PowersOfTwo : n <= p /\ p <= 2 * n
BY SMT DEF PowersOfTwo, InReach

LEMMA DoubledFacts ==
    ASSUME NEW l \in Nat, NEW n \in Nat, 1 <= n, n <= MaxBuffer
    PROVE  /\ Doubled(l, n) \in Nat /\ l <= Doubled(l, n) /\ n <= Doubled(l, n)
<1>1. CASE n <= l
  BY <1>1 DEF Doubled
<1>2. CASE ~(n <= l)
  <2> DEFINE first   == IF l = 0 THEN FirstBuffer ELSE l
             lengths == {p * first : p \in {q \in PowersOfTwo : q <= 2 * n}}
             S       == {m \in lengths : m >= n}
  <2>1. first \in Nat /\ first >= 1
    BY WriterSizes
  <2> HIDE DEF first
  <2>2. ASSUME NEW p \in PowersOfTwo PROVE p * first \in Nat /\ p <= p * first
    <3>1. p \in Nat
      BY PowersAreNat
    <3>2. QED
      BY <2>1, <3>1
  <2>3. lengths \in SUBSET Nat
    BY <2>2
  <2>4. S \in SUBSET Nat /\ S # {}
    <3>1. PICK p \in PowersOfTwo : n <= p /\ p <= 2 * n
      <4>1. InReach(n)
        BY SMT, WriterSizes DEF InReach
      <4>2. QED
        BY <4>1, PowerInReach
    <3>2. p * first \in lengths
      BY <3>1
    <3>3. p * first >= n
      <4>1. p \in Nat
        BY PowersAreNat
      <4>2. QED
        BY <2>2, <3>1, <4>1
    <3>4. QED
      BY <2>3, <3>2, <3>3
  <2> HIDE DEF lengths
  <2>5. PICK m \in S : \A k \in S : m <= k
    BY <2>4, LeastNat
  <2>6. m \in lengths /\ m >= n /\ \A k \in lengths : k >= n => k >= m
    BY <2>3, <2>5
  <2>7. Doubled(l, n)
          = CHOOSE x \in lengths : x >= n /\ \A k \in lengths : k >= n => k >= x
    BY <1>2 DEF Doubled, lengths, first
  <2>8. Doubled(l, n) \in lengths /\ Doubled(l, n) >= n
    BY <2>6, <2>7
  <2>9. Doubled(l, n) \in Nat
    BY <2>3, <2>8
  <2>10. QED
    BY <1>2, <2>8, <2>9
<1>3. QED
  BY <1>1, <1>2

LEMMA BegunSafe ==
    ASSUME NEW o \in Nat, NEW b, NEW l \in Nat, DOMAIN b = 0 .. l - 1
    PROVE  Safe(b, BegunBuf(b, o), o) /\ DOMAIN BegunBuf(b, o) = 0 .. l - 1
BY CopiedSafe, CopiedDomain DEF BegunBuf

-----------------------------------------------------------------------------
(***************************************************************************)
(* The inductive invariant.  Between begin and end the root is the         *)
(* document at the writer's offset, which is inside the buffer.  That      *)
(* makes every write of libbson's one behind all that is finished.         *)
(***************************************************************************)
WriterTypes == writer \in {"none", "open"} /\ ready \in BOOLEAN /\ offset \in Nat

History ==
    /\ finished \in Seq({finished[i] : i \in DOMAIN finished})
    /\ \A i \in DOMAIN finished :
          /\ finished[i].at \in Nat /\ finished[i].len \in Nat
          /\ finished[i].at + finished[i].len <= offset

Chained == \A i \in DOMAIN finished :
               finished[i].at + finished[i].len =
                  IF i < Len(finished) THEN finished[i + 1].at ELSE offset

WhenNone == writer = "none" => stack = <<>> /\ finished = <<>>

WhenOpen == writer = "open" => offset <= buflen /\ (ready <=> stack = <<>>)

InPlace == stack # <<>> => writer = "open" /\ stack[1].offset = offset

WInv == /\ Shape /\ WriterTypes /\ History /\ Chained
        /\ WhenNone /\ WhenOpen /\ InPlace

(* What a step of an open writer does to the bytes.                        *)
BytesKept == writer = "open" /\ writer' = "open"
                 => offset <= offset' /\ Safe(buf, buf', offset)

LEMMA WriterInitEstablishes == WriterInit => WInv
<1> SUFFICES ASSUME WriterInit PROVE WInv
  OBVIOUS
<1>1. /\ stack = <<>> /\ buf = <<>> /\ writer = "none" /\ ready = FALSE
      /\ offset = 0 /\ finished = <<>>
  BY DEF WriterInit, Init
<1>2. Shape
  BY InitEstablishes DEF WriterInit, IInv
<1>4. WriterTypes /\ WhenNone /\ WhenOpen /\ InPlace
  BY <1>1 DEF WriterTypes, WhenNone, WhenOpen, InPlace
<1>6. History /\ Chained
  BY <1>1 DEF History, Chained
<1>7. QED
  BY <1>2, <1>4, <1>6 DEF WInv

(* A state in which no document is open.                                   *)
LEMMA NoDocument ==
    ASSUME stack' = <<>>, buflen' \in Nat, DOMAIN buf' = 0 .. buflen' - 1,
           realloc' \in BOOLEAN, ret' \in BOOLEAN, touched' \in Nat
    PROVE  Shape'
<1>1. Top' = 0
  BY DEF Top
<1>2. TypeOK'
  BY DEF TypeOK
<1>3. Nested' /\ AfterRoot'
  BY <1>1 DEF Nested, AfterRoot
<1>4. RoomForParents' /\ InlineRoot'
  BY DEF RoomForParents, InlineRoot
<1>5. QED
  BY <1>2, <1>3, <1>4 DEF Shape

LEMMA NewStep ==
    ASSUME WInv, NEW b \in Buffers, bson_writer_new(b)
    PROVE  WInv' /\ BytesKept
<1>1. /\ writer = "none" /\ writer' = "open" /\ ready' = TRUE /\ offset' = b.offset
      /\ buflen' = b.buflen /\ realloc' = b.realloc
      /\ buf' = [i \in 0 .. b.buflen - 1 |-> IF i < b.offset THEN CallerByte ELSE Junk]
      /\ stack' = stack /\ ret' = ret /\ touched' = touched /\ finished' = finished
  BY DEF bson_writer_new
<1>2. /\ b.buflen \in Nat /\ b.realloc \in BOOLEAN
      /\ b.offset \in Nat /\ b.offset <= b.buflen
  BY SMT, WriterAssumption
<1>3. stack = <<>> /\ finished = <<>>
  BY <1>1 DEF WInv, WhenNone
<1>4. Shape'
  <2>1. DOMAIN buf' = 0 .. buflen' - 1
    BY <1>1
  <2>2. ret \in BOOLEAN /\ touched \in Nat
    BY DEF WInv, Shape, TypeOK
  <2>3. QED
    BY <1>1, <1>2, <1>3, <2>1, <2>2, NoDocument
<1>5. WriterTypes' /\ WhenNone' /\ WhenOpen' /\ InPlace'
  BY <1>1, <1>2, <1>3 DEF WriterTypes, WhenNone, WhenOpen, InPlace
<1>6. History' /\ Chained'
  BY <1>1, <1>3 DEF History, Chained
<1>8. QED
  BY <1>1, <1>4, <1>5, <1>6 DEF WInv, BytesKept

LEMMA BeginStep ==
    ASSUME WInv, bson_writer_begin
    PROVE  WInv' /\ BytesKept
<1>1. writer = "open" /\ ready /\ offset + 5 <= MaxBuffer
  BY DEF bson_writer_begin
<1>2. /\ offset \in Nat /\ buflen \in Nat /\ offset <= buflen /\ stack = <<>>
      /\ DOMAIN buf = 0 .. buflen - 1
  BY <1>1 DEF WInv, WriterTypes, WhenOpen, Shape, TypeOK
<1>3. CASE Refuse /\ UNCHANGED wvars
  <2>1. /\ UNCHANGED <<stack, buf, buflen, realloc, touched, elements>> /\ ret' = FALSE
        /\ writer' = writer /\ ready' = ready /\ offset' = offset /\ finished' = finished
    BY <1>3 DEF Refuse, wvars
  <2>2. Shape'
    BY <2>1, Unchanged DEF WInv
  <2>3. WriterTypes' /\ WhenNone' /\ WhenOpen' /\ InPlace'
    BY <2>1 DEF WInv, WriterTypes, WhenNone, WhenOpen, InPlace
  <2>4. History' /\ Chained'
    BY <2>1 DEF WInv, History, Chained
  <2>5. BytesKept
    BY <2>1, SafeSame DEF BytesKept, WInv, WriterTypes
  <2>6. QED
    BY <2>2, <2>3, <2>4, <2>5 DEF WInv
<1>4. CASE ~(Refuse /\ UNCHANGED wvars)
  <2> DEFINE l == Doubled(buflen, offset + 5)
             b == IF l = buflen THEN buf ELSE Resized(buf, buflen, l)
  <2>1. /\ buflen' = l /\ buf' = BegunBuf(b, offset)
        /\ stack' = <<BegunDocument>> /\ ret' = TRUE /\ ready' = FALSE
        /\ touched' = offset + 6
        /\ realloc' = realloc /\ writer' = writer /\ offset' = offset
        /\ finished' = finished
    BY <1>4 DEF bson_writer_begin
  <2>2. l \in Nat /\ buflen <= l /\ offset + 5 <= l
    BY <1>1, <1>2, DoubledFacts
  <2>3. DOMAIN b = 0 .. l - 1 /\ Safe(buf, b, offset)
    <3>1. CASE l = buflen
      BY <1>2, <3>1, SafeSame
    <3>2. CASE l # buflen
      <4>1. DOMAIN Resized(buf, buflen, l) = 0 .. l - 1
        BY ResizedDomain
      <4>2. Safe(buf, Resized(buf, buflen, l), offset)
        BY <1>2, <2>2, ResizedSafe
      <4>3. QED
        BY <3>2, <4>1, <4>2
    <3>3. QED
      BY <3>1, <3>2
  <2> HIDE DEF l, b
  <2>4. /\ DOMAIN buf' = 0 .. l - 1 /\ Safe(buf, buf', offset)
    <3>1. /\ DOMAIN BegunBuf(b, offset) = 0 .. l - 1
          /\ Safe(b, BegunBuf(b, offset), offset)
      BY <1>2, <2>2, <2>3, BegunSafe
    <3>2. QED
      BY <2>1, <2>3, <3>1, SafeTransitive
  <2>5. /\ BegunDocument \in Bson /\ BegunDocument.offset = offset
        /\ BegunDocument.len = 5 /\ BegunDocument.depth = 0
        /\ BegunDocument.flags = {"STATIC", "NO_FREE"}
    BY <1>2 DEF BegunDocument, Bson, Flags
  <2>6. stack' \in Seq(Bson) /\ Top' = 1 /\ Current' = BegunDocument
        /\ stack'[1] = BegunDocument /\ stack' # <<>>
    BY <2>1, <2>5 DEF Top, Current
  <2>7. Shape'
    <3>1. TypeOK'
      <4>1. realloc \in BOOLEAN
        BY DEF WInv, Shape, TypeOK
      <4>2. QED
        BY <1>2, <2>1, <2>2, <2>4, <2>6, <4>1 DEF TypeOK
    <3>2. Nested'
      <4> SUFFICES ASSUME NEW i \in 1 .. 1
                   PROVE  /\ "IN_CHILD" \in stack'[i].flags <=> i < 1
                          /\ "CHILD" \in stack'[i].flags <=> i > 1
                          /\ "INLINE" \in stack'[i].flags => 1 = 1
                          /\ stack'[i].depth = i - 1
                          /\ stack'[i].len >= 5
                          /\ i > 1 => stack'[i].offset
                                        = stack'[i - 1].offset + stack'[i - 1].len - 6
        BY <2>6 DEF Nested
      <4>1. i = 1 /\ stack'[i] = BegunDocument
        BY <2>6
      <4>2. QED
        BY <2>5, <4>1
    <3>3. RoomForParents'
      BY <1>2, <2>1, <2>2, <2>5, <2>6 DEF RoomForParents
    <3>4. InlineRoot'
      BY <2>5, <2>6 DEF InlineRoot
    <3>5. AfterRoot'
      <4>1. \A i \in 1 .. 1 : stack'[1].offset <= stack'[i].offset
        BY <1>2, <2>5, <2>6
      <4>2. QED
        BY <2>6, <4>1 DEF AfterRoot
    <3>6. QED
      BY <3>1, <3>2, <3>3, <3>4, <3>5 DEF Shape
  <2>8. WriterTypes' /\ WhenNone'
    BY <1>1, <1>2, <2>1 DEF WInv, WriterTypes, WhenNone
  <2>9. WhenOpen' /\ InPlace'
    BY <1>1, <1>2, <2>1, <2>2, <2>5, <2>6 DEF WhenOpen, InPlace
  <2>11. History' /\ Chained'
    BY <2>1 DEF WInv, History, Chained
  <2>12. QED
    BY <1>2, <2>1, <2>4, <2>7, <2>8, <2>9, <2>11 DEF WInv, BytesKept
<1>5. QED
  BY <1>3, <1>4

(* An append, begin or end of a subdocument, reinit or reserve_buffer.     *)
LEMMA WriteStep ==
    ASSUME WInv, Reserved, Write, UNCHANGED wvars
    PROVE  WInv' /\ BytesKept
<1>1. /\ writer' = writer /\ ready' = ready /\ offset' = offset
      /\ finished' = finished
  BY DEF wvars
<1>2. Shape /\ stack # <<>>
  BY WriteNeedsOpen DEF WInv
<1>3. Shape' /\ Kept
  BY <1>2, OpenStep DEF Write
<1>4. writer = "open" /\ stack[1].offset = offset
  BY <1>2 DEF WInv, InPlace
<1>5. Safe(buf, buf', offset)
  BY <1>2, <1>4, WriteSafe
<1>6. stack' # <<>> /\ stack'[1].offset = offset /\ buflen <= buflen'
      /\ buflen \in Nat /\ buflen' \in Nat
  BY <1>2, <1>3, <1>4 DEF Kept, LongerBuffer, Shape, TypeOK
<1>7. WriterTypes' /\ WhenNone' /\ WhenOpen' /\ InPlace'
  BY <1>1, <1>2, <1>4, <1>6 DEF WInv, WriterTypes, WhenNone, WhenOpen, InPlace
<1>9. History' /\ Chained'
  BY <1>1 DEF WInv, History, Chained
<1>10. QED
  BY <1>1, <1>3, <1>5, <1>7, <1>9 DEF WInv, BytesKept, WriterTypes

(* A document that is ended is the last of those finished.                 *)
LEMMA EndStep ==
    ASSUME WInv, bson_writer_end
    PROVE  WInv' /\ BytesKept
<1> DEFINE n == stack[1].len
           d == [at |-> offset, len |-> n, body |-> elements[1].body]
           S == {finished[i] : i \in DOMAIN finished}
           N == Len(finished)
<1>1. /\ writer = "open" /\ Top = 1
      /\ offset' = offset + n /\ ready' = TRUE /\ stack' = <<>>
      /\ finished' = Append(finished, d)
      /\ UNCHANGED <<buf, buflen, realloc, ret, touched, writer>>
  BY DEF bson_writer_end, AfterDocument
<1>2. Shape /\ stack # <<>>
  <2>1. stack = <<>> => Top = 0
    BY DEF Top
  <2>2. QED
    BY <1>1, <2>1 DEF WInv
<1>3. /\ Current = stack[1] /\ n \in Nat
      /\ Current.offset = offset /\ Current.depth = 0
      /\ Current.offset + Current.len + Current.depth <= buflen
  <2>1. Current = stack[1]
    BY <1>1 DEF Current
  <2>2. Current.len \in Nat /\ Current.depth = 0
        /\ Current.offset + Current.len + Current.depth <= buflen
    BY <1>1, <1>2, CurrentFacts
  <2>3. QED
    BY <1>2, <2>1, <2>2 DEF WInv, InPlace
<1>4. /\ offset \in Nat /\ buflen \in Nat /\ DOMAIN buf = 0 .. buflen - 1
      /\ finished \in Seq(S) /\ N \in Nat /\ DOMAIN finished = 1 .. N
  BY DEF WInv, WriterTypes, Shape, TypeOK, History
<1>5. offset + n <= buflen
  BY <1>3, <1>4
<1> HIDE DEF n
<1>6. Shape'
  <2>1. realloc \in BOOLEAN /\ ret \in BOOLEAN /\ touched \in Nat
    BY <1>2 DEF Shape, TypeOK
  <2>2. QED
    BY <1>1, <1>4, <2>1, NoDocument
<1>7. WriterTypes' /\ WhenNone' /\ WhenOpen' /\ InPlace'
  BY <1>1, <1>3, <1>4, <1>5 DEF WInv, WriterTypes, WhenNone, WhenOpen, InPlace
<1> HIDE DEF d, S, N
<1>9. /\ finished' \in Seq(S \cup {d}) /\ Len(finished') = N + 1
      /\ DOMAIN finished' = 1 .. N + 1
      /\ finished'[N + 1] = d /\ \A i \in 1 .. N : finished'[i] = finished[i]
  <2>1. finished \in Seq(S \cup {d}) /\ d \in S \cup {d}
    BY <1>4
  <2>2. Len(finished) = N
    BY DEF N
  <2>3. QED
    BY <1>1, <1>4, <2>1, <2>2, AppendProperties
<1>10. d.at = offset /\ d.len = n
  BY DEF d
<1>11. History'
  <2>1. ASSUME NEW i \in 1 .. N + 1
        PROVE  /\ finished'[i].at \in Nat /\ finished'[i].len \in Nat
               /\ finished'[i].at + finished'[i].len <= offset'
    <3>1. CASE i = N + 1
      BY <1>1, <1>3, <1>4, <1>9, <1>10, <3>1
    <3>2. CASE i # N + 1
      <4>1. i \in 1 .. N
        BY <1>4, <3>2
      <4>2. /\ finished[i].at \in Nat /\ finished[i].len \in Nat
            /\ finished[i].at + finished[i].len <= offset
        BY <1>4, <4>1 DEF WInv, History
      <4>3. QED
        BY <1>1, <1>3, <1>4, <1>9, <4>1, <4>2
    <3>3. QED
      BY <3>1, <3>2
  <2>2. finished' \in Seq({finished'[i] : i \in DOMAIN finished'})
    BY <1>9
  <2>3. QED
    BY <1>9, <2>1, <2>2 DEF History
<1>12. Chained'
  <2>1. ASSUME NEW i \in 1 .. N + 1
        PROVE  finished'[i].at + finished'[i].len
                  = IF i < N + 1 THEN finished'[i + 1].at ELSE offset'
    <3>1. CASE i = N + 1
      BY <1>1, <1>4, <1>9, <1>10, <3>1
    <3>2. CASE i = N
      <4>1. i \in 1 .. N /\ i < N + 1 /\ ~(i < Len(finished))
        BY <1>4, <3>2 DEF N
      <4>2. finished[i].at + finished[i].len = offset
        BY <1>4, <4>1 DEF WInv, Chained
      <4>3. QED
        BY <1>9, <1>10, <3>2, <4>1, <4>2
    <3>3. CASE i # N + 1 /\ i # N
      <4>1. i \in 1 .. N /\ i < N + 1 /\ i + 1 \in 1 .. N /\ i < N
        BY <1>4, <3>3
      <4>2. finished[i].at + finished[i].len = finished[i + 1].at
        BY <1>4, <4>1 DEF WInv, Chained, N
      <4>3. QED
        BY <1>9, <4>1, <4>2
    <3>4. QED
      BY <3>1, <3>2, <3>3
  <2>2. QED
    BY <1>9, <2>1 DEF Chained
<1>13. BytesKept
  BY <1>1, <1>3, <1>4, SafeSame DEF BytesKept
<1>14. QED
  BY <1>6, <1>7, <1>11, <1>12, <1>13 DEF WInv

LEMMA RollbackStep ==
    ASSUME WInv, bson_writer_rollback
    PROVE  WInv' /\ BytesKept
<1>1. /\ writer = "open" /\ offset' = offset /\ ready' = TRUE /\ stack' = <<>>
      /\ UNCHANGED <<buf, buflen, realloc, ret, touched, writer, finished>>
  BY DEF bson_writer_rollback, AfterRollback
<1>2. Shape'
  <2>1. /\ buflen \in Nat /\ DOMAIN buf = 0 .. buflen - 1
        /\ realloc \in BOOLEAN /\ ret \in BOOLEAN /\ touched \in Nat
    BY DEF WInv, Shape, TypeOK
  <2>2. QED
    BY <1>1, <2>1, NoDocument
<1>3. WriterTypes' /\ WhenNone' /\ WhenOpen' /\ InPlace'
  BY <1>1 DEF WInv, WriterTypes, WhenNone, WhenOpen, InPlace
<1>4. History' /\ Chained'
  BY <1>1 DEF WInv, History, Chained
<1>5. BytesKept
  BY <1>1, SafeSame DEF BytesKept, WInv, WriterTypes
<1>6. QED
  BY <1>2, <1>3, <1>4, <1>5 DEF WInv

LEMMA DestroyWriterStep ==
    ASSUME WInv, bson_writer_destroy
    PROVE  WInv' /\ BytesKept
<1>1. /\ writer = "open" /\ ready /\ writer' = "none" /\ ready' = FALSE
      /\ offset' = 0 /\ finished' = <<>> /\ buf' = <<>> /\ buflen' = 0
      /\ touched' = 0 /\ realloc' = TRUE /\ ret' = TRUE /\ stack' = stack
  BY DEF bson_writer_destroy
<1>2. stack' = <<>>
  BY <1>1 DEF WInv, WhenOpen
<1>3. DOMAIN buf' = 0 .. buflen' - 1 /\ DOMAIN buf' = {}
  BY <1>1
<1>4. Shape'
  BY <1>1, <1>2, <1>3, NoDocument
<1>5. WriterTypes' /\ WhenNone' /\ WhenOpen' /\ InPlace'
  BY <1>1, <1>2, <1>3 DEF WriterTypes, WhenNone, WhenOpen, InPlace
<1>6. History' /\ Chained'
  BY <1>1 DEF History, Chained
<1>7. QED
  BY <1>1, <1>4, <1>5, <1>6 DEF WInv, BytesKept

LEMMA WriterStep ==
    ASSUME WInv, Reserved, [WriterNext]_allvars
    PROVE  WInv' /\ BytesKept
<1>1. CASE UNCHANGED allvars
  <2>1. /\ UNCHANGED <<stack, buf, buflen, realloc, touched>> /\ ret' = ret
        /\ writer' = writer /\ ready' = ready /\ offset' = offset /\ finished' = finished
    BY <1>1 DEF allvars, vars, wvars
  <2>2. Shape'
    <3>1. ret' \in BOOLEAN
      BY <2>1 DEF WInv, Shape, TypeOK
    <3>2. QED
      BY <2>1, <3>1, Unchanged DEF WInv
  <2>3. WriterTypes' /\ WhenNone' /\ WhenOpen' /\ InPlace'
    BY <2>1 DEF WInv, WriterTypes, WhenNone, WhenOpen, InPlace
  <2>4. History' /\ Chained'
    BY <2>1 DEF WInv, History, Chained
  <2>5. BytesKept
    BY <2>1, SafeSame DEF BytesKept, WInv, WriterTypes
  <2>6. QED
    BY <2>2, <2>3, <2>4, <2>5 DEF WInv
<1>2. CASE WriterNext
  BY <1>2, NewStep, BeginStep, WriteStep, EndStep, RollbackStep, DestroyWriterStep
     DEF WriterNext
<1>3. QED
  BY <1>1, <1>2

-----------------------------------------------------------------------------
THEOREM WriterInvariance ==
    ASSUME Reserved
    PROVE  WriterSpec => []WInv
<1>1. WriterInit => WInv
  BY WriterInitEstablishes
<1>2. WInv /\ [WriterNext]_allvars => WInv'
  BY WriterStep
<1>3. QED
  BY <1>1, <1>2, PTL DEF WriterSpec

(* The documents ended lie one behind the other, from where the writer     *)
(* began to where it is, all inside the buffer: bson_writer_begin neither  *)
(* overlaps nor leaves a gap, whatever was rolled back in between.         *)
THEOREM DocumentsAdjacent ==
    ASSUME Reserved
    PROVE  WriterSpec => []FinishedAdjacent
<1>1. WInv => FinishedAdjacent
  <2> SUFFICES ASSUME WInv, NEW i \in DOMAIN finished
               PROVE  /\ finished[i].at + finished[i].len =
                           IF i < Len(finished) THEN finished[i + 1].at ELSE offset
                      /\ finished[i].at + finished[i].len <= buflen
    BY DEF FinishedAdjacent
  <2>1. finished[i].at + finished[i].len =
           IF i < Len(finished) THEN finished[i + 1].at ELSE offset
    BY DEF WInv, Chained
  <2>2. writer = "open"
    <3>1. finished # <<>>
      OBVIOUS
    <3>2. QED
      BY <3>1 DEF WInv, WhenNone, WriterTypes
  <2>3. /\ offset <= buflen /\ offset \in Nat /\ buflen \in Nat
        /\ finished[i].at \in Nat /\ finished[i].len \in Nat
        /\ finished[i].at + finished[i].len <= offset
    BY <2>2 DEF WInv, WhenOpen, WriterTypes, Shape, TypeOK, History
  <2>4. finished[i].at + finished[i].len <= buflen
    BY <2>3
  <2>5. QED
    BY <2>1, <2>4
<1>2. QED
  BY <1>1, WriterInvariance, PTL

(* No byte in front of the writer's offset, of the caller's or of a        *)
(* document that was ended, changes while the writer is in use, though the *)
(* buffer may be reallocated, documents given up, appends refused; and the *)
(* offset only moves on.                                                   *)
THEOREM FinishedStays ==
    ASSUME Reserved
    PROVE  WriterSpec => FinishedKept
<1>1. ASSUME WInv, [WriterNext]_allvars
      PROVE  [writer = "open" /\ writer' = "open" =>
                 /\ offset <= offset'
                 /\ \A i \in DOMAIN buf : i < offset =>
                       i \in DOMAIN buf' /\ buf'[i] = buf[i]]_allvars
  <2>1. BytesKept
    BY <1>1, WriterStep
  <2>2. QED
    BY <2>1 DEF BytesKept, Safe
<1>2. QED
  BY <1>1, WriterInvariance, PTL DEF WriterSpec, FinishedKept

(* The append functions keep to the caller's buffer, whether or not it can *)
(* grow and wherever in it the document begins.                            *)
THEOREM AppendsInside ==
    ASSUME Reserved
    PROVE  WriterSpec => AppendsFit
<1>1. ASSUME WInv, [WriterNext]_allvars
      PROVE  [Write /\ touched' # touched /\ UNCHANGED wvars
                 => touched' <= buflen']_allvars
  <2>1. ASSUME Write PROVE WritesInside
    BY <1>1, <2>1, OpenStep DEF WInv, Write, Kept
  <2>2. QED
    BY <2>1 DEF WritesInside
<1>2. QED
  BY <1>1, WriterInvariance, PTL DEF WriterSpec, AppendsFit

=============================================================================
