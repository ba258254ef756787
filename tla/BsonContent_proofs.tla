------------------------- MODULE BsonContent_proofs -------------------------
(***************************************************************************)
(* What the bytes say, for every size of the buffers and every set of      *)
(* elements that copy no more than they reserve: the document that takes   *)
(* appends is the encoding of all that was appended to it, and so is each  *)
(* document a writer has ended.                                            *)
(***************************************************************************)
EXTENDS BsonWriter_proofs

(* The cells s are in the buffer b from `from' on.                         *)
Says(b, from, s) ==
    \A j \in 1 .. Len(s) : from + j - 1 \in DOMAIN b /\ b[from + j - 1] = s[j]

-----------------------------------------------------------------------------
(***************************************************************************)
(* The inductive invariant.  An open parent holds its elements and, behind *)
(* them, the type and the key of the child that is open in it, which       *)
(* begins right there; what it says of its own length is out of date.      *)
(* Only the last document is complete.  Since each one begins behind the   *)
(* other, a write to the last touches none of what its parents hold.       *)
(***************************************************************************)
Cell == {Nul, KeyByte} \cup {LenByte(n, j) : n \in Nat, j \in 0 .. 3}
                       \cup {DataByte(e) : e \in Elements}

Text  == [key : Nat, body : Seq(Cell)]
Texts == elements \in Seq(Text) /\ Len(elements) = Top

(* What stands in the i-th document in front of the next one.              *)
Front(es, i) == es[i].body \o ChildHeader(es[i + 1].key)

Ordered == \A i, j \in 1 .. Top : i <= j => stack[i].offset <= stack[j].offset

ParentsSay ==
    \A i \in 1 .. Top : i < Top =>
        /\ stack[i + 1].offset = stack[i].offset + 4 + Len(Front(elements, i))
        /\ Says(buf, stack[i].offset + 4, Front(elements, i))

CurrentSays ==
    stack # <<>> =>
        /\ Current.len = 5 + Len(elements[Top].body)
        /\ Says(buf, Current.offset, Encoded(elements[Top].body))

Content == Texts /\ Ordered /\ ParentsSay /\ CurrentSays

FinishedSay ==
    \A i \in DOMAIN finished :
        /\ finished[i].body \in Seq(Cell)
        /\ finished[i].len = 5 + Len(finished[i].body)
        /\ Says(buf, finished[i].at, Encoded(finished[i].body))

-----------------------------------------------------------------------------
(* The cells the texts are made of.                                        *)
LEMMA CellsAreCells ==
    /\ Nul \in Cell /\ KeyByte \in Cell
    /\ \A n \in Nat : \A j \in 0 .. 3 : LenByte(n, j) \in Cell
    /\ \A e \in Elements : DataByte(e) \in Cell
BY DEF Cell

LEMMA LenCellsFacts ==
    ASSUME NEW n \in Nat
    PROVE  LenCells(n) \in Seq(Cell) /\ Len(LenCells(n)) = 4
<1>1. \A j \in 1 .. 4 : LenByte(n, j - 1) \in Cell
  <2>1. \A j \in 1 .. 4 : j - 1 \in 0 .. 3
    OBVIOUS
  <2>2. QED
    BY <2>1, CellsAreCells
<1>2. QED
  BY <1>1 DEF LenCells

LEMMA NulFacts == <<Nul>> \in Seq(Cell) /\ Len(<<Nul>>) = 1
BY CellsAreCells

LEMMA ElementCellsFacts ==
    ASSUME NEW e \in Elements
    PROVE  ElementCells(e) \in Seq(Cell) /\ Len(ElementCells(e)) = e.size
<1>1. e.size \in Nat /\ DataByte(e) \in Cell
  BY ElementsAssumption, CellsAreCells
<1>2. QED
  BY <1>1 DEF ElementCells, Repeat

LEMMA HeaderFacts ==
    ASSUME NEW k \in Nat
    PROVE  ChildHeader(k) \in Seq(Cell) /\ Len(ChildHeader(k)) = 1 + k + 1
<1>1. Repeat(KeyByte, 1 + k) \in Seq(Cell) /\ Len(Repeat(KeyByte, 1 + k)) = 1 + k
  BY CellsAreCells DEF Repeat
<1>2. QED
  BY <1>1, NulFacts, ConcatProperties DEF ChildHeader

LEMMA EncodedFacts ==
    ASSUME NEW body \in Seq(Cell)
    PROVE  /\ Encoded(body) \in Seq(Cell) /\ Len(Encoded(body)) = 5 + Len(body)
           /\ Len(body) \in Nat
<1> DEFINE n == 5 + Len(body)
<1>1. Len(body) \in Nat /\ n \in Nat
  OBVIOUS
<1>2. LenCells(n) \in Seq(Cell) /\ Len(LenCells(n)) = 4
  BY <1>1, LenCellsFacts
<1>3. Encoded(body) = (LenCells(n) \o body) \o <<Nul>>
  BY DEF Encoded
<1> DEFINE header == LenCells(n)
           front  == header \o body
<1>4. header \in Seq(Cell) /\ Len(header) = 4 /\ Encoded(body) = front \o <<Nul>>
  BY <1>2, <1>3
<1> HIDE DEF header
<1>4a. front \in Seq(Cell) /\ Len(front) = Len(header) + Len(body)
  BY <1>4, ConcatProperties
<1> HIDE DEF front
<1>5. front \in Seq(Cell) /\ Len(front) = 4 + Len(body) /\ Encoded(body) = front \o <<Nul>>
  BY <1>1, <1>4, <1>4a
<1>6. /\ front \o <<Nul>> \in Seq(Cell)
      /\ Len(front \o <<Nul>>) = Len(front) + Len(<<Nul>>)
  BY <1>5, NulFacts, ConcatProperties
<1>7. QED
  BY <1>1, <1>5, <1>6, NulFacts

LEMMA EmptyIsEncoded ==
    Encoded(<<>>) = EmptyDoc /\ <<>> \in Seq(Cell) /\ EmptyDoc \in Seq(Cell)
<1>1. <<>> \in Seq(Cell) /\ Len(<<>>) = 0
  OBVIOUS
<1>2. LenCells(5) \in Seq(Cell)
  BY LenCellsFacts
<1>3. LenCells(5) \o <<>> = LenCells(5)
  BY <1>2, ConcatEmptySeq
<1>4. Encoded(<<>>) = (LenCells(5) \o <<>>) \o <<Nul>>
  BY DEF Encoded
<1>5. Encoded(<<>>) = EmptyDoc
  BY <1>3, <1>4 DEF EmptyDoc
<1>6. QED
  BY <1>1, <1>5, EncodedFacts

-----------------------------------------------------------------------------
(* What stands in a buffer, part by part.                                  *)
LEMMA SaysBoth ==
    ASSUME NEW b, NEW from \in Int, NEW s \in Seq(Cell), NEW t \in Seq(Cell)
    PROVE  Says(b, from, s \o t) <=> Says(b, from, s) /\ Says(b, from + Len(s), t)
<1> DEFINE n == Len(s)
           m == Len(t)
<1>1. /\ n \in Nat /\ m \in Nat /\ Len(s \o t) = n + m
      /\ \A i \in 1 .. n + m : (s \o t)[i] = IF i <= n THEN s[i] ELSE t[i - n]
  BY ConcatProperties
<1>2. Len(s) = n /\ Len(t) = m
  OBVIOUS
<1> DEFINE u == s \o t
<1> HIDE DEF n, m, u
<1>3. ASSUME Says(b, from, s), Says(b, from + n, t) PROVE Says(b, from, u)
  <2> SUFFICES ASSUME NEW i \in 1 .. n + m
               PROVE  from + i - 1 \in DOMAIN b /\ b[from + i - 1] = u[i]
    BY <1>1 DEF Says, u
  <2>1. CASE i <= n
    <3>1. i \in 1 .. Len(s) /\ u[i] = s[i]
      BY <1>1, <1>2, <2>1 DEF u
    <3>2. QED
      BY <1>3, <3>1 DEF Says
  <2>2. CASE ~(i <= n)
    <3>1. i - n \in 1 .. Len(t) /\ u[i] = t[i - n]
      BY <1>1, <1>2, <2>2 DEF u
    <3>2. (from + n) + (i - n) - 1 = from + i - 1
      BY <1>1
    <3>3. QED
      BY <1>3, <3>1, <3>2 DEF Says
  <2>3. QED
    BY <2>1, <2>2
<1>4. ASSUME Says(b, from, u) PROVE Says(b, from, s) /\ Says(b, from + n, t)
  <2>1. \A i \in 1 .. n + m : from + i - 1 \in DOMAIN b /\ b[from + i - 1] = u[i]
    BY <1>1, <1>4 DEF Says, u
  <2>2. ASSUME NEW i \in 1 .. n
        PROVE  from + i - 1 \in DOMAIN b /\ b[from + i - 1] = s[i]
    <3>1. i \in 1 .. n + m /\ u[i] = s[i]
      BY <1>1 DEF u
    <3>2. QED
      BY <2>1, <3>1
  <2>3. ASSUME NEW i \in 1 .. m
        PROVE  (from + n) + i - 1 \in DOMAIN b /\ b[(from + n) + i - 1] = t[i]
    <3>1. n + i \in 1 .. n + m /\ u[n + i] = t[i]
      <4>1. n + i \in 1 .. n + m /\ ~(n + i <= n) /\ (n + i) - n = i
        BY <1>1
      <4>2. QED
        BY <1>1, <4>1 DEF u
    <3>2. (from + n) + i - 1 = from + (n + i) - 1
      BY <1>1
    <3>3. QED
      BY <2>1, <3>1, <3>2
  <2>4. QED
    BY <1>2, <2>2, <2>3 DEF Says
<1>5. QED
  BY <1>2, <1>3, <1>4 DEF u

LEMMA SaysSafe ==
    ASSUME NEW b, NEW c, NEW o \in Int, Safe(b, c, o),
           NEW from \in Int, NEW s \in Seq(Cell), Says(b, from, s),
           from + Len(s) <= o
    PROVE  Says(c, from, s)
<1> SUFFICES ASSUME NEW i \in 1 .. Len(s)
             PROVE  from + i - 1 \in DOMAIN c /\ c[from + i - 1] = s[i]
  BY DEF Says
<1>1. from + i - 1 \in DOMAIN b /\ b[from + i - 1] = s[i]
  BY DEF Says
<1>2. from + i - 1 < o
  OBVIOUS
<1>3. QED
  BY <1>1, <1>2 DEF Safe

LEMMA SaysCopied ==
    ASSUME NEW b, NEW l \in Nat, DOMAIN b = 0 .. l - 1,
           NEW at \in Nat, NEW s \in Seq(Cell), at + Len(s) <= l
    PROVE  Says(Copied(b, at, s), at, s)
<1> SUFFICES ASSUME NEW i \in 1 .. Len(s)
             PROVE  /\ at + i - 1 \in DOMAIN Copied(b, at, s)
                    /\ Copied(b, at, s)[at + i - 1] = s[i]
  BY DEF Says
<1> DEFINE x == at + i - 1
<1>1. x \in 0 .. l - 1 /\ at <= x /\ x < at + Len(s) /\ x - at + 1 = i
  OBVIOUS
<1> HIDE DEF x
<1>2. x \in DOMAIN Copied(b, at, s) /\ Copied(b, at, s)[x] = s[i]
  BY <1>1 DEF Copied
<1>3. QED
  BY <1>2 DEF x

(* A copy leaves what is in front of it and behind it.                     *)
LEMMA SaysBeside ==
    ASSUME NEW b, NEW at \in Int, NEW s \in Seq(Cell),
           NEW from \in Int, NEW t \in Seq(Cell), Says(b, from, t),
           from + Len(t) <= at \/ at + Len(s) <= from
    PROVE  Says(Copied(b, at, s), from, t)
<1> SUFFICES ASSUME NEW i \in 1 .. Len(t)
             PROVE  /\ from + i - 1 \in DOMAIN Copied(b, at, s)
                    /\ Copied(b, at, s)[from + i - 1] = t[i]
  BY DEF Says
<1> DEFINE x == from + i - 1
<1>1. x \in DOMAIN b /\ b[x] = t[i]
  BY DEF Says
<1>2. ~(at <= x /\ x < at + Len(s))
  OBVIOUS
<1> HIDE DEF x
<1>3. x \in DOMAIN Copied(b, at, s) /\ Copied(b, at, s)[x] = b[x]
  BY <1>1, <1>2 DEF Copied
<1>4. QED
  BY <1>1, <1>3 DEF x

(* A document read out of the buffer.                                      *)
LEMMA CellsAreEncoded ==
    ASSUME NEW from \in Int, NEW body \in Seq(Cell), Says(buf, from, Encoded(body))
    PROVE  Cells(from, 5 + Len(body)) = Encoded(body)
<1>1. Encoded(body) \in Seq(Cell) /\ Len(Encoded(body)) = 5 + Len(body)
  BY EncodedFacts
<1> DEFINE s == Encoded(body)
<1> HIDE DEF s
<1>2. s \in Seq(Cell) /\ Len(s) = 5 + Len(body) /\ Says(buf, from, s)
  BY <1>1 DEF s
<1>3. s = [j \in 1 .. Len(s) |-> s[j]]
  BY <1>2
<1>4. \A j \in 1 .. Len(s) : buf[from + j - 1] = s[j]
  BY <1>2 DEF Says
<1>5. Cells(from, Len(s)) = s
  BY <1>3, <1>4 DEF Cells
<1>6. QED
  BY <1>2, <1>5 DEF s

-----------------------------------------------------------------------------
(* A document on its own: its length, its elements and its NUL.            *)
LEMMA EncodedParts ==
    ASSUME NEW b, NEW o \in Int, NEW body \in Seq(Cell)
    PROVE  Says(b, o, Encoded(body)) <=>
              /\ Says(b, o, LenCells(5 + Len(body)))
              /\ Says(b, o + 4, body)
              /\ Says(b, o + 4 + Len(body), <<Nul>>)
<1> DEFINE header == LenCells(5 + Len(body))
           front  == header \o body
<1>1. Len(body) \in Nat /\ Len(body) + 5 \in Nat
  OBVIOUS
<1>2. header \in Seq(Cell) /\ Len(header) = 4 /\ Encoded(body) = front \o <<Nul>>
  BY <1>1, LenCellsFacts DEF Encoded
<1> HIDE DEF header
<1>3. /\ front \in Seq(Cell) /\ Len(front) = 4 + Len(body)
      /\ Says(b, o, front) <=> Says(b, o, header) /\ Says(b, o + 4, body)
  <2>1. front \in Seq(Cell) /\ Len(front) = Len(header) + Len(body)
    BY <1>2, ConcatProperties
  <2>2. Says(b, o, front) <=> Says(b, o, header) /\ Says(b, o + Len(header), body)
    BY <1>2, SaysBoth
  <2>3. QED
    BY <1>1, <1>2, <2>1, <2>2
<1> HIDE DEF front
<1>4. Says(b, o, front \o <<Nul>>)
         <=> Says(b, o, front) /\ Says(b, o + Len(front), <<Nul>>)
  BY <1>3, NulFacts, SaysBoth
<1>5. o + Len(front) = o + 4 + Len(body)
  BY <1>1, <1>3
<1>6. QED
  BY <1>2, <1>3, <1>4, <1>5 DEF header

(* _bson_grow keeps all of a document, its parents and what is in front.   *)
LEMMA GrownKeeps ==
    ASSUME NEW d, NEW size, NEW l, GrowPre(d, size, l),
           NEW m \in Grow(d, size, l),
           NEW b, DOMAIN b = 0 .. l - 1, d.offset + d.len <= l
    PROVE  Safe(b, GrownBuf(d, size, b, l, m), d.offset + d.len)
<1>1. /\ l \in Nat /\ d.len \in Nat /\ d.offset \in Nat
      /\ "INLINE" \in d.flags => d.offset = 0
  BY DEF GrowPre, Bson
<1>2. m \in Nat /\ l <= m
  BY GrowFacts
<1>3. d.offset + d.len \in Nat
  BY <1>1
<1>4. CASE Holds(d, size, l)
  BY <1>4, SafeSame DEF GrownBuf
<1>5. CASE ~Holds(d, size, l) /\ "INLINE" \in d.flags
  <2>1. GrownBuf(d, size, b, l, m) = Resized(b, d.len, m)
    BY <1>5 DEF GrownBuf
  <2>2. d.len <= l /\ d.offset + d.len <= d.len
    BY <1>1, <1>5
  <2>3. QED
    BY <1>1, <1>2, <1>3, <2>1, <2>2, ResizedSafe
<1>6. CASE ~Holds(d, size, l) /\ "INLINE" \notin d.flags
  <2>1. GrownBuf(d, size, b, l, m) = Resized(b, l, m)
    BY <1>6 DEF GrownBuf
  <2>2. QED
    BY <1>1, <1>2, <1>3, <2>1, ResizedSafe
<1>7. QED
  BY <1>4, <1>5, <1>6

(* _bson_append_va turns the encoding of a body into that of a longer one. *)
LEMMA AppendedSays ==
    ASSUME NEW d \in Bson, NEW b, NEW l \in Nat, DOMAIN b = 0 .. l - 1,
           NEW body \in Seq(Cell), d.len = 5 + Len(body),
           Says(b, d.offset, Encoded(body)),
           NEW cells \in Seq(Cell), d.offset + d.len + Len(cells) <= l
    PROVE  /\ Says(AppendedBuf(b, d, cells), d.offset, Encoded(body \o cells))
           /\ body \o cells \in Seq(Cell)
           /\ d.len + Len(cells) = 5 + Len(body \o cells)
<1> DEFINE o  == d.offset
           n  == d.len + Len(cells)
           at == o + d.len - 1
           to == at + Len(cells)
           b1 == Copied(b, at, cells)
           b2 == Copied(b1, o, LenCells(n))
           b3 == Copied(b2, to, <<Nul>>)
           more == body \o cells
<1>1. AppendedBuf(b, d, cells) = b3
  BY DEF AppendedBuf
<1>2. more \in Seq(Cell) /\ Len(more) = Len(body) + Len(cells)
  BY ConcatProperties
<1> HIDE DEF more
<1>3. /\ o \in Nat /\ d.len \in Nat /\ Len(cells) \in Nat /\ Len(body) \in Nat
      /\ n \in Nat /\ at \in Nat /\ to \in Nat /\ to + 1 <= l
      /\ at = o + 4 + Len(body) /\ to = o + 4 + Len(more) /\ n = 5 + Len(more)
      /\ o + 4 <= at /\ at <= to /\ o + 4 \in Nat /\ o + 4 + Len(more) \in Int
  <2> DEFINE lb == Len(body)
             lc == Len(cells)
             dl == d.len
  <2>1. /\ lb \in Nat /\ lc \in Nat /\ dl \in Nat /\ o \in Nat
        /\ dl = 5 + lb /\ o + dl + lc <= l /\ Len(more) = lb + lc
    BY <1>2 DEF Bson
  <2>2. n = dl + lc /\ at = o + dl - 1 /\ to = o + dl - 1 + lc
    OBVIOUS
  <2> HIDE DEF lb, lc, dl, o, n, at, to
  <2>3. /\ n \in Nat /\ at \in Nat /\ to \in Nat /\ to + 1 <= l
        /\ at = o + 4 + lb /\ to = o + 4 + Len(more) /\ n = 5 + Len(more)
        /\ o + 4 <= at /\ at <= to /\ o + 4 \in Nat /\ o + 4 + Len(more) \in Int
    BY <2>1, <2>2
  <2>4. QED
    BY <2>1, <2>3 DEF lb, lc, dl
<1> HIDE DEF o, n, at, to
<1>4. /\ LenCells(n) \in Seq(Cell) /\ Len(LenCells(n)) = 4
      /\ o + Len(LenCells(n)) = o + 4
  BY <1>3, LenCellsFacts
<1>5. DOMAIN b1 = 0 .. l - 1 /\ DOMAIN b2 = 0 .. l - 1
  BY CopiedDomain
<1>6. Says(b, o + 4, body)
  BY SMTT(30), <1>3, EncodedParts DEF o
<1>7. Says(b1, o + 4, body) /\ Says(b1, at, cells)
  <2>1. Says(b1, o + 4, body)
    BY <1>3, <1>6, SaysBeside
  <2>2. at + Len(cells) <= l
    BY <1>3 DEF to
  <2>3. QED
    BY <1>3, <2>1, <2>2, SaysCopied
<1>8. Says(b1, o + 4, more)
  <2>1. (o + 4) + Len(body) = at
    BY <1>3
  <2>2. QED
    BY <1>3, <1>7, <2>1, SaysBoth DEF more
<1> HIDE DEF b1
<1>9. Says(b2, o + 4, more) /\ Says(b2, o, LenCells(n))
  <2>1. o + 4 <= l
    BY <1>3
  <2>2. Says(b2, o, LenCells(n))
    BY <1>3, <1>4, <1>5, <2>1, SaysCopied
  <2>3. Says(b2, o + 4, more)
    <3>1. o + Len(LenCells(n)) <= o + 4 /\ o \in Int /\ o + 4 \in Int
      BY <1>3, <1>4
    <3>2. QED
      BY <1>2, <1>3, <1>4, <1>8, <3>1, SaysBeside
  <2>4. QED
    BY <2>2, <2>3
<1> HIDE DEF b2
<1>10. Says(b3, to, <<Nul>>)
  BY <1>3, <1>5, NulFacts, SaysCopied
<1>11. Says(b3, o + 4, more) /\ Says(b3, o, LenCells(n))
  <2>1. /\ (o + 4) + Len(more) <= to /\ o + 4 <= to
        /\ o \in Int /\ o + 4 \in Int /\ to \in Int
    BY <1>3
  <2>2. Says(b3, o + 4, more)
    BY <1>2, <1>9, <2>1, NulFacts, SaysBeside
  <2>3. o + Len(LenCells(n)) <= to
    BY <1>4, <2>1
  <2>4. Says(b3, o, LenCells(n))
    BY <1>4, <1>9, <2>1, <2>3, NulFacts, SaysBeside
  <2>5. QED
    BY <2>2, <2>4
<1> HIDE DEF b3
<1>12. Says(b3, o, Encoded(more))
  <2>1. Says(b3, o, LenCells(5 + Len(more))) /\ Says(b3, o + 4 + Len(more), <<Nul>>)
    BY <1>3, <1>10, <1>11
  <2>2. o \in Int
    BY <1>3
  <2>3. QED
    BY <1>2, <1>11, <2>1, <2>2, EncodedParts
<1>13. QED
  BY <1>1, <1>2, <1>3, <1>12 DEF more, o, n

-----------------------------------------------------------------------------
(* The open documents and what they hold.                                  *)
LEMMA TextFacts ==
    ASSUME Shape, Texts, stack # <<>>, NEW i \in 1 .. Top
    PROVE  /\ elements[i] \in Text /\ elements[i].key \in Nat
           /\ elements[i].body \in Seq(Cell) /\ Len(elements[i].body) \in Nat
           /\ stack[i] \in Bson /\ stack[i].offset \in Nat /\ stack[i].len \in Nat
<1>1. stack \in Seq(Bson) /\ Len(stack) = Top
  BY DEF Shape, TypeOK, Top
<1>2. elements \in Seq(Text) /\ Len(elements) = Top
  BY DEF Texts
<1>3. elements[i] \in Text /\ stack[i] \in Bson
  <2>1. elements[i] \in Text
    BY <1>2
  <2>2. stack[i] \in Bson
    BY <1>1
  <2>3. QED
    BY <2>1, <2>2
<1>4. QED
  BY <1>3 DEF Text, Bson

LEMMA FrontFacts ==
    ASSUME Shape, Texts, stack # <<>>, NEW i \in 1 .. Top, i < Top
    PROVE  Front(elements, i) \in Seq(Cell) /\ Len(Front(elements, i)) \in Nat
<1>1. i + 1 \in 1 .. Top
  BY CurrentFacts
<1>2. elements[i].body \in Seq(Cell)
  BY TextFacts
<1>3. ChildHeader(elements[i + 1].key) \in Seq(Cell)
  <2>1. elements[i + 1].key \in Nat
    BY <1>1, TextFacts
  <2>2. QED
    BY <2>1, HeaderFacts
<1>4. Front(elements, i) \in Seq(Cell)
  BY <1>2, <1>3, ConcatProperties DEF Front
<1>5. QED
  BY <1>4

LEMMA CurrentText ==
    ASSUME Shape, Content, stack # <<>>
    PROVE  /\ Top \in 1 .. Top /\ elements[Top].body \in Seq(Cell)
           /\ Len(elements[Top].body) \in Nat
           /\ Current.len = 5 + Len(elements[Top].body)
           /\ Says(buf, Current.offset, Encoded(elements[Top].body))
<1>1. Top \in 1 .. Top
  BY CurrentFacts
<1>2. elements[Top].body \in Seq(Cell) /\ Len(elements[Top].body) \in Nat
  BY <1>1, TextFacts DEF Content
<1>3. QED
  BY <1>1, <1>2 DEF Content, CurrentSays

(* What keeps the bytes in front of the k-th document keeps what all its   *)
(* parents hold.                                                           *)
LEMMA ParentsKept ==
    ASSUME Shape, Content, stack # <<>>, NEW k \in 1 .. Top,
           Safe(buf, buf', stack[k].offset),
           NEW i \in 1 .. Top, i < k
    PROVE  Says(buf', stack[i].offset + 4, Front(elements, i))
<1>1. Top \in Nat /\ Texts
  BY CurrentFacts DEF Content
<1>2. i < Top /\ i + 1 \in 1 .. Top /\ i + 1 <= k
  BY <1>1
<1>3. /\ stack[i + 1].offset = stack[i].offset + 4 + Len(Front(elements, i))
      /\ Says(buf, stack[i].offset + 4, Front(elements, i))
  BY <1>2 DEF Content, ParentsSay
<1>4. stack[i + 1].offset <= stack[k].offset
  BY <1>2 DEF Content, Ordered
<1>5. Front(elements, i) \in Seq(Cell) /\ Len(Front(elements, i)) \in Nat
  BY <1>1, <1>2, FrontFacts
<1>6. stack[i].offset \in Nat /\ stack[k].offset \in Nat
  BY <1>1, TextFacts
<1> DEFINE o == stack[k].offset
           f == stack[i].offset + 4
           s == Front(elements, i)
<1>7. /\ o \in Int /\ f \in Int /\ s \in Seq(Cell) /\ f + Len(s) <= o
      /\ Says(buf, f, s) /\ Safe(buf, buf', o)
  BY <1>3, <1>4, <1>5, <1>6
<1> HIDE DEF o, f, s
<1>8. Says(buf', f, s)
  BY <1>7, SaysSafe
<1>9. QED
  BY <1>8 DEF f, s

(* A step that rewrites the last document from its first byte on, as the   *)
(* encoding of a body.                                                     *)
SameTexts(body) ==
    /\ elements' \in Seq(Text) /\ Len(elements') = Top
    /\ elements'[Top].body = body
    /\ \A i \in 1 .. Top : /\ elements'[i].key = elements[i].key
                           /\ i < Top => elements'[i].body = elements[i].body

LEMMA SetBody ==
    ASSUME Shape, Texts, stack # <<>>, NEW body \in Seq(Cell),
           elements' = [elements EXCEPT ![Top].body = body]
    PROVE  SameTexts(body)
<1>1. /\ elements \in Seq(Text) /\ Len(elements) = Top /\ Top \in 1 .. Top /\ Top \in Nat
  BY CurrentFacts DEF Texts
<1>2. elements[Top] \in Text
  BY <1>1
<1> DEFINE t == [elements[Top] EXCEPT !.body = body]
<1>3. t \in Text /\ t.body = body /\ t.key = elements[Top].key
  BY <1>2 DEF Text
<1>4. elements' = [elements EXCEPT ![Top] = t]
  OBVIOUS
<1> HIDE DEF t
<1>5. /\ elements' \in Seq(Text) /\ Len(elements') = Top /\ elements'[Top] = t
      /\ \A i \in 1 .. Top : i # Top => elements'[i] = elements[i]
  BY <1>1, <1>3, <1>4
<1>6. ASSUME NEW i \in 1 .. Top
      PROVE  /\ elements'[i].key = elements[i].key
             /\ i < Top => elements'[i].body = elements[i].body
  <2>1. CASE i = Top
    BY <1>1, <1>3, <1>5, <2>1
  <2>2. CASE i # Top
    BY <1>5, <2>2
  <2>3. QED
    BY <2>1, <2>2
<1>7. QED
  BY <1>3, <1>5, <1>6 DEF SameTexts

LEMMA TopContent ==
    ASSUME Shape, Content, stack # <<>>,
           NEW d \in Bson, d.offset = Current.offset,
           stack' = [stack EXCEPT ![Top] = d],
           NEW body \in Seq(Cell), d.len = 5 + Len(body), SameTexts(body),
           Safe(buf, buf', Current.offset),
           Says(buf', Current.offset, Encoded(body))
    PROVE  Content'
<1>1. /\ stack \in Seq(Bson) /\ Top = Len(stack) /\ Top \in Nat /\ Top \in 1 .. Top
  BY CurrentFacts DEF Shape, TypeOK, Top
<1>2. /\ Len(stack') = Top /\ stack'[Top] = d
      /\ \A i \in 1 .. Top : i # Top => stack'[i] = stack[i]
  BY <1>1
<1>3. Top' = Top /\ Current' = d
  BY <1>2 DEF Top, Current
<1>4. \A i \in 1 .. Top : stack'[i].offset = stack[i].offset
  BY <1>2 DEF Current
<1>5. Texts'
  BY <1>3 DEF Texts, SameTexts
<1>6. Ordered'
  BY <1>3, <1>4 DEF Content, Ordered
<1>7. ParentsSay'
  <2> SUFFICES ASSUME NEW i \in 1 .. Top, i < Top
               PROVE  /\ stack'[i + 1].offset
                           = stack'[i].offset + 4 + Len(Front(elements', i))
                      /\ Says(buf', stack'[i].offset + 4, Front(elements', i))
    BY <1>3 DEF ParentsSay
  <2>1. i + 1 \in 1 .. Top
    BY <1>1
  <2>2. Front(elements', i) = Front(elements, i)
    BY <2>1 DEF SameTexts, Front
  <2>3. stack[i + 1].offset = stack[i].offset + 4 + Len(Front(elements, i))
    BY DEF Content, ParentsSay
  <2>4. Says(buf', stack[i].offset + 4, Front(elements, i))
    BY <1>1, ParentsKept DEF Current
  <2>5. QED
    BY <1>4, <2>1, <2>2, <2>3, <2>4
<1>8. CurrentSays'
  <2>1. elements'[Top].body = body
    BY DEF SameTexts
  <2>2. QED
    BY <1>3, <2>1 DEF CurrentSays
<1>9. QED
  BY <1>5, <1>6, <1>7, <1>8 DEF Content

(* A step that only moves the buffer, or does nothing to it.               *)
LEMMA MovedContent ==
    ASSUME Shape, Content, stack # <<>>,
           NEW d, SameButInline(d, Current),
           stack' = [stack EXCEPT ![Top] = d],
           elements' = elements,
           Safe(buf, buf', Current.offset + Current.len)
    PROVE  Content'
<1> DEFINE body == elements[Top].body
<1>1. /\ Top \in 1 .. Top /\ body \in Seq(Cell) /\ Current.len = 5 + Len(body)
      /\ Says(buf, Current.offset, Encoded(body))
  BY CurrentText
<1>2. Current.offset \in Nat /\ Current.len \in Nat
  BY CurrentFacts
<1>3. d \in Bson /\ d.offset = Current.offset /\ d.len = 5 + Len(body)
  BY <1>1 DEF SameButInline
<1>4. SameTexts(body)
  BY DEF Content, Texts, SameTexts
<1>5. Safe(buf, buf', Current.offset)
  BY <1>2 DEF Safe
<1> HIDE DEF body
<1>6. Encoded(body) \in Seq(Cell) /\ Len(Encoded(body)) = 5 + Len(body)
  BY <1>1, EncodedFacts
<1>7. Says(buf', Current.offset, Encoded(body))
  <2>1. /\ Current.offset \in Int /\ Current.offset + Current.len \in Int
        /\ Current.offset + Len(Encoded(body)) <= Current.offset + Current.len
    BY <1>1, <1>2, <1>6
  <2>2. QED
    BY <1>1, <1>6, <2>1, SaysSafe
<1>8. QED
  BY <1>1, <1>3, <1>4, <1>5, <1>7, TopContent

-----------------------------------------------------------------------------
(* _bson_append_va on a buffer b grown for it: the encoding of the last    *)
(* document becomes that of a longer one.                                  *)
LEMMA GrownSays ==
    ASSUME Shape, Content, stack # <<>>,
           NEW b, NEW l \in Nat, DOMAIN b = 0 .. l - 1,
           Safe(buf, b, Current.offset + Current.len),
           NEW d, SameButInline(d, Current),
           NEW cells \in Seq(Cell), Current.offset + Current.len + Len(cells) <= l,
           buf' = AppendedBuf(b, d, cells)
    PROVE  /\ Safe(buf, buf', Current.offset)
           /\ Says(buf', Current.offset, Encoded(elements[Top].body \o cells))
           /\ elements[Top].body \o cells \in Seq(Cell)
           /\ Current.len + Len(cells) = 5 + Len(elements[Top].body \o cells)
<1> DEFINE body == elements[Top].body
           o    == Current.offset
<1>1. /\ Top \in 1 .. Top /\ body \in Seq(Cell) /\ Current.len = 5 + Len(body)
      /\ Says(buf, o, Encoded(body))
  BY CurrentText
<1>2. o \in Nat /\ Current.len \in Nat /\ Current.len >= 5
  BY CurrentFacts
<1>3. d \in Bson /\ d.offset = o /\ d.len = Current.len /\ Len(cells) \in Nat
  BY DEF SameButInline
<1>4. Encoded(body) \in Seq(Cell) /\ Len(Encoded(body)) = 5 + Len(body)
  BY <1>1, EncodedFacts
<1>5. Safe(buf, b, o)
  BY <1>2 DEF Safe
<1> HIDE DEF o, body
<1>6. Says(b, o, Encoded(body))
  <2>1. o \in Int /\ o + Current.len \in Int /\ o + Len(Encoded(body)) <= o + Current.len
    BY <1>1, <1>2, <1>4
  <2>2. Safe(buf, b, o + Current.len)
    BY DEF o
  <2>3. QED
    BY <1>1, <1>4, <2>1, <2>2, SaysSafe
<1>7. Safe(b, AppendedBuf(b, d, cells), o)
  BY <1>2, <1>3, AppendedSafe
<1>8. Safe(buf, buf', o)
  BY <1>5, <1>7, SafeTransitive
<1>9. d.offset + d.len + Len(cells) <= l
  BY <1>3 DEF o
<1>10. /\ Says(buf', d.offset, Encoded(body \o cells))
       /\ body \o cells \in Seq(Cell)
       /\ d.len + Len(cells) = 5 + Len(body \o cells)
  BY <1>1, <1>3, <1>6, <1>9, AppendedSays
<1>11. QED
  BY <1>3, <1>8, <1>10 DEF o, body

(* The calls on an open document.                                          *)
LEMMA AppendElementContent ==
    ASSUME Shape, Reserved, Content, NEW e \in Elements, AppendElement(e)
    PROVE  Content'
<1>1. stack # <<>>
  BY DEF AppendElement, Appendable
<1>2. /\ Current \in Bson /\ Current.len \in Nat /\ Current.len >= 5
      /\ Current.offset \in Nat /\ Current.depth \in Nat /\ buflen \in Nat
      /\ Current.offset + Current.len + Current.depth <= buflen
      /\ Current.offset + Current.len <= buflen
      /\ DOMAIN buf = 0 .. buflen - 1
      /\ e.n_bytes \in Nat /\ e.size \in Nat /\ e.size <= e.n_bytes
      /\ GrowPre(Current, e.n_bytes, buflen)
  <2>1. /\ e.n_bytes \in Nat /\ e.size \in Nat /\ e.size <= e.n_bytes
    BY ElementsAssumption DEF Reserved
  <2>2. /\ Current \in Bson /\ Current.len \in Nat /\ Current.len >= 5
        /\ Current.offset \in Nat /\ Current.depth \in Nat /\ buflen \in Nat
        /\ Current.offset + Current.len + Current.depth <= buflen
        /\ GrowPre(Current, e.n_bytes, buflen)
    BY <1>1, <2>1, CurrentFacts DEF Bson
  <2>3. Current.offset + Current.len <= buflen
    BY <2>2
  <2>4. QED
    BY <2>1, <2>2, <2>3 DEF Shape, TypeOK
<1>3. CASE Refuse
  <2>1. stack' = [stack EXCEPT ![Top] = Current]
    BY <1>3 DEF Refuse, Current, Shape, TypeOK
  <2>2. SameButInline(Current, Current) /\ elements' = elements /\ buf' = buf
    BY <1>2, <1>3 DEF Refuse, SameButInline
  <2>3. QED
    BY <1>1, <2>1, <2>2, SafeSame, MovedContent
<1>4. CASE ~Refuse
  <2> DEFINE cells == ElementCells(e)
             d     == GrownDoc(Current, e.n_bytes, buflen)
             body  == elements[Top].body
  <2>1. PICK l \in Grow(Current, e.n_bytes, buflen) :
           /\ buf' = AppendedBuf(GrownBuf(Current, e.n_bytes, buf, buflen, l), d, cells)
           /\ stack' = [stack EXCEPT ![Top] = Lengthened(d, cells)]
           /\ elements' = [elements EXCEPT ![Top].body = @ \o cells]
    BY <1>4 DEF AppendElement
  <2> DEFINE b == GrownBuf(Current, e.n_bytes, buf, buflen, l)
  <2>2. cells \in Seq(Cell) /\ Len(cells) = e.size
    BY ElementCellsFacts
  <2>3. /\ l \in Nat /\ Current.offset + Current.len + e.n_bytes + Current.depth <= l
        /\ SameButInline(d, Current) /\ DOMAIN b = 0 .. l - 1
        /\ Safe(buf, b, Current.offset + Current.len)
    BY <1>2, GrowFacts, GrownDomain, GrownKeeps
  <2>4. Current.offset + Current.len + Len(cells) <= l
    BY SMTT(30), <1>2, <2>2, <2>3
  <2>5. /\ Safe(buf, buf', Current.offset)
        /\ Says(buf', Current.offset, Encoded(body \o cells))
        /\ body \o cells \in Seq(Cell)
        /\ Current.len + Len(cells) = 5 + Len(body \o cells)
    <3> HIDE DEF cells, d, b
    <3>1. buf' = AppendedBuf(b, d, cells)
      BY <2>1 DEF b
    <3>2. QED
      BY <1>1, <2>2, <2>3, <2>4, <3>1, GrownSays
  <2> DEFINE n == Lengthened(d, cells)
  <2>6. n \in Bson /\ n.offset = Current.offset /\ n.len = 5 + Len(body \o cells)
    <3>1. d \in Bson /\ d.offset = Current.offset /\ d.len = Current.len
      BY <2>3 DEF SameButInline
    <3>2. Len(cells) \in Nat
      BY <1>2, <2>2
    <3> HIDE DEF d, cells
    <3>3. n \in Bson /\ n.offset = d.offset /\ n.len = d.len + Len(cells)
      BY <3>1, <3>2, LengthenedIs
    <3>4. QED
      BY <2>5, <3>1, <3>3
  <2>7. stack' = [stack EXCEPT ![Top] = n]
    BY <2>1
  <2>8. SameTexts(body \o cells)
    <3>1. elements' = [elements EXCEPT ![Top].body = body \o cells]
      BY <2>1
    <3>2. QED
      BY <1>1, <2>5, <3>1, SetBody DEF Content
  <2> HIDE DEF n, d, cells, body, b
  <2>9. QED
    BY <1>1, <2>5, <2>6, <2>7, <2>8, TopContent
<1>5. QED
  BY <1>3, <1>4

LEMMA ReinitContent ==
    ASSUME Shape, Content, bson_reinit
    PROVE  Content'
<1>1. stack # <<>>
  BY DEF bson_reinit, Appendable
<1> DEFINE d == [Current EXCEPT !.len = 5]
<1>2. /\ Current \in Bson /\ Current.offset \in Nat /\ Current.len \in Nat
      /\ Current.len >= 5 /\ Current.depth \in Nat /\ buflen \in Nat
      /\ Current.offset + Current.len + Current.depth <= buflen
      /\ DOMAIN buf = 0 .. buflen - 1
  BY <1>1, CurrentFacts DEF Bson, Shape, TypeOK
<1>3. d \in Bson /\ d.offset = Current.offset /\ d.len = 5 + Len(<<>>)
  <2>1. d \in Bson /\ d.offset = Current.offset /\ d.len = 5
    BY <1>2 DEF Bson
  <2>2. QED
    BY <2>1
<1>4. stack' = [stack EXCEPT ![Top] = d]
  <2>1. stack' = [stack EXCEPT ![Top] = [stack[Top] EXCEPT !.len = 5]]
    BY DEF bson_reinit
  <2>2. QED
    BY <2>1 DEF Current
<1>5. buf' = Copied(buf, Current.offset, EmptyDoc)
  BY DEF bson_reinit
<1>6. SameTexts(<<>>)
  <2>1. elements' = [elements EXCEPT ![Top].body = <<>>]
    BY DEF bson_reinit
  <2>2. QED
    BY <1>1, <2>1, EmptyIsEncoded, SetBody DEF Content
<1>7. Safe(buf, buf', Current.offset)
  BY <1>2, <1>5, CopiedSafe
<1>8. Says(buf', Current.offset, Encoded(<<>>))
  <2>1. Current.offset + Len(EmptyDoc) <= buflen
    BY <1>2, EmptyDocFacts
  <2>2. QED
    BY <1>2, <1>5, <2>1, EmptyIsEncoded, SaysCopied
<1> HIDE DEF d
<1>9. QED
  BY <1>1, <1>3, <1>4, <1>6, <1>7, <1>8, EmptyIsEncoded, TopContent

LEMMA ReserveContent ==
    ASSUME Shape, Content, NEW e \in Elements, bson_reserve_buffer(e)
    PROVE  Content'
<1> DEFINE size == 5 + e.size
<1>1. stack # <<>>
  BY DEF bson_reserve_buffer, Appendable
<1>2. /\ Current \in Bson /\ Current.len \in Nat /\ Current.len >= 5
      /\ Current.offset \in Nat /\ Current.depth \in Nat /\ buflen \in Nat
      /\ Current.offset + Current.len <= buflen
      /\ DOMAIN buf = 0 .. buflen - 1
      /\ size \in Nat /\ GrowPre(Current, size, buflen)
  <2>1. size \in Nat
    BY ElementsAssumption
  <2>2. /\ Current \in Bson /\ Current.len \in Nat /\ Current.len >= 5
        /\ Current.offset \in Nat /\ Current.depth \in Nat /\ buflen \in Nat
        /\ Current.offset + Current.len + Current.depth <= buflen
        /\ GrowPre(Current, size, buflen)
    BY <1>1, <2>1, CurrentFacts DEF Bson
  <2>3. Current.offset + Current.len <= buflen
    BY <2>2
  <2>4. QED
    BY <2>1, <2>2, <2>3 DEF Shape, TypeOK
<1>3. CASE Refuse
  <2>1. stack' = [stack EXCEPT ![Top] = Current]
    BY <1>3 DEF Refuse, Current, Shape, TypeOK
  <2>2. SameButInline(Current, Current) /\ elements' = elements /\ buf' = buf
    BY <1>2, <1>3 DEF Refuse, SameButInline
  <2>3. QED
    BY <1>1, <2>1, <2>2, SafeSame, MovedContent
<1>4. CASE ~Refuse
  <2> DEFINE d == GrownDoc(Current, size, buflen)
             n == [d EXCEPT !.len = size]
             cells == ElementCells(e)
  <2>1. PICK l \in Grow(Current, size, buflen) :
           /\ buf' = Copied(GrownBuf(Current, size, buf, buflen, l), d.offset,
                            Encoded(cells))
           /\ stack' = [stack EXCEPT ![Top] = n]
           /\ elements' = [elements EXCEPT ![Top].body = cells]
    BY <1>4 DEF bson_reserve_buffer, Document
  <2> DEFINE b == GrownBuf(Current, size, buf, buflen, l)
  <2>2. /\ l \in Nat /\ Current.offset + Current.len + size + Current.depth <= l
        /\ SameButInline(d, Current) /\ DOMAIN b = 0 .. l - 1
        /\ Safe(buf, b, Current.offset + Current.len)
    BY <1>2, GrowFacts, GrownDomain, GrownKeeps
  <2>3. cells \in Seq(Cell) /\ Len(cells) = e.size
    BY ElementCellsFacts
  <2>4. n \in Bson /\ n.offset = Current.offset /\ n.len = 5 + Len(cells)
    BY <1>2, <2>2, <2>3 DEF SameButInline, Bson
  <2>5. SameTexts(cells)
    BY <1>1, <2>1, <2>3, SetBody DEF Content
  <2>6. d.offset = Current.offset
    BY <2>2 DEF SameButInline
  <2>7. stack' = [stack EXCEPT ![Top] = n] /\ buf' = Copied(b, Current.offset, Encoded(cells))
    BY <2>1, <2>6
  <2>8. /\ Encoded(cells) \in Seq(Cell)
        /\ Current.offset + Len(Encoded(cells)) <= l
    <3>1. Encoded(cells) \in Seq(Cell) /\ Len(Encoded(cells)) = size
      BY <2>3, EncodedFacts
    <3>2. QED
      BY <1>2, <2>2, <3>1
  <2> HIDE DEF n, d, cells, b, size
  <2>9. Safe(buf, b, Current.offset)
    BY <1>2, <2>2 DEF Safe
  <2>10. Safe(b, Copied(b, Current.offset, Encoded(cells)), Current.offset)
    BY <1>2, <2>2, CopiedSafe
  <2>11. Safe(buf, buf', Current.offset)
    BY <2>7, <2>9, <2>10, SafeTransitive
  <2>12. Says(buf', Current.offset, Encoded(cells))
    BY <1>2, <2>2, <2>7, <2>8, SaysCopied
  <2>13. QED
    BY <1>1, <2>3, <2>4, <2>5, <2>7, <2>11, <2>12, TopContent
<1>5. QED
  BY <1>3, <1>4

(* An empty child pushed behind its type and key.                          *)
LEMMA PushContent ==
    ASSUME Shape, Content, stack # <<>>, NEW k \in Nat,
           NEW q \in Bson, q.offset = Current.offset,
           NEW c \in Bson, c.len = 5,
           c.offset = Current.offset + 4 + Len(elements[Top].body \o ChildHeader(k)),
           stack' = Append([stack EXCEPT ![Top] = q], c),
           elements' = Append(elements, [key |-> k, body |-> <<>>]),
           Safe(buf, buf', Current.offset),
           Says(buf', Current.offset + 4, elements[Top].body \o ChildHeader(k)),
           Says(buf', c.offset, Encoded(<<>>))
    PROVE  Content'
<1> DEFINE t == [key |-> k, body |-> <<>>]
           s == [stack EXCEPT ![Top] = q]
<1>1. /\ stack \in Seq(Bson) /\ Top = Len(stack) /\ Top \in Nat /\ Top \in 1 .. Top
      /\ elements \in Seq(Text) /\ Len(elements) = Top
  BY CurrentFacts DEF Shape, TypeOK, Top, Content, Texts
<1>2. t \in Text /\ t.key = k /\ t.body = <<>>
  BY EmptyIsEncoded DEF Text
<1>3. /\ s \in Seq(Bson) /\ Len(s) = Top /\ s[Top] = q
      /\ \A i \in 1 .. Top : i # Top => s[i] = stack[i]
  BY <1>1
<1>4. stack' = Append(s, c) /\ elements' = Append(elements, t)
  OBVIOUS
<1> HIDE DEF s, t
<1>5. /\ Len(stack') = Top + 1 /\ stack'[Top + 1] = c /\ stack'[Top] = q
      /\ \A i \in 1 .. Top : i # Top => stack'[i] = stack[i]
  <2>1. /\ Len(Append(s, c)) = Top + 1 /\ Append(s, c)[Top + 1] = c
        /\ \A i \in 1 .. Top : Append(s, c)[i] = s[i]
    BY <1>3, AppendProperties
  <2>2. QED
    BY <1>1, <1>3, <1>4, <2>1
<1>6. /\ elements' \in Seq(Text) /\ Len(elements') = Top + 1
      /\ elements'[Top + 1] = t
      /\ \A i \in 1 .. Top : elements'[i] = elements[i]
  <2>1. /\ Append(elements, t) \in Seq(Text) /\ Len(Append(elements, t)) = Top + 1
        /\ Append(elements, t)[Top + 1] = t
        /\ \A i \in 1 .. Top : Append(elements, t)[i] = elements[i]
    BY <1>1, <1>2, AppendProperties
  <2>2. QED
    BY <1>4, <2>1
<1>7. Top' = Top + 1 /\ Current' = c
  BY <1>5 DEF Top, Current
<1>8. \A i \in 1 .. Top : stack'[i].offset = stack[i].offset
  BY <1>5 DEF Current
<1>9. Current.offset \in Nat /\ Len(elements[Top].body \o ChildHeader(k)) \in Nat
  <2>1. elements[Top].body \in Seq(Cell) /\ Current.offset \in Nat
    BY CurrentText, CurrentFacts
  <2>2. elements[Top].body \o ChildHeader(k) \in Seq(Cell)
    BY <2>1, HeaderFacts, ConcatProperties
  <2>3. QED
    BY <2>1, <2>2
<1>10. Texts'
  BY <1>6, <1>7 DEF Texts
<1>11. Ordered'
  <2> SUFFICES ASSUME NEW i \in 1 .. Top + 1, NEW j \in 1 .. Top + 1, i <= j
               PROVE  stack'[i].offset <= stack'[j].offset
    BY <1>7 DEF Ordered
  <2>1. c.offset \in Nat /\ Current.offset <= c.offset
    BY SMTT(30), <1>9
  <2>2. ASSUME NEW x \in 1 .. Top PROVE stack[x].offset <= Current.offset /\ stack[x].offset \in Nat
    <3>1. x <= Top
      OBVIOUS
    <3>2. QED
      BY <1>1, <3>1, TextFacts DEF Content, Ordered, Current
  <2>3. CASE j = Top + 1 /\ i = Top + 1
    BY <1>5, <2>1, <2>3
  <2>4. CASE j = Top + 1 /\ i # Top + 1
    <3>1. i \in 1 .. Top /\ stack'[j] = c
      BY <1>1, <1>5, <2>4
    <3>2. stack[i].offset <= Current.offset /\ stack[i].offset \in Nat
      BY <2>2, <3>1
    <3>3. stack'[i].offset = stack[i].offset /\ stack'[j].offset = c.offset
      BY <1>8, <3>1
    <3> DEFINE x == stack[i].offset
               y == Current.offset
               z == c.offset
    <3>4. x \in Nat /\ y \in Nat /\ z \in Nat /\ x <= y /\ y <= z
      BY <1>9, <2>1, <3>2
    <3>5. stack'[i].offset = x /\ stack'[j].offset = z
      BY <3>3
    <3> HIDE DEF x, y, z
    <3>6. x <= z
      BY <3>4
    <3>7. QED
      BY <3>5, <3>6
  <2>5. CASE j # Top + 1
    <3>1. i \in 1 .. Top /\ j \in 1 .. Top
      BY <1>1, <2>5
    <3>2. QED
      BY <1>8, <3>1 DEF Content, Ordered
  <2>6. QED
    BY <2>3, <2>4, <2>5
<1>12. ParentsSay'
  <2> SUFFICES ASSUME NEW i \in 1 .. Top + 1, i < Top + 1
               PROVE  /\ stack'[i + 1].offset
                           = stack'[i].offset + 4 + Len(Front(elements', i))
                      /\ Says(buf', stack'[i].offset + 4, Front(elements', i))
    BY <1>7 DEF ParentsSay
  <2>1. i \in 1 .. Top
    BY <1>1
  <2>2. CASE i = Top
    <3>1. Front(elements', i) = elements[Top].body \o ChildHeader(k)
      BY <1>1, <1>2, <1>6, <2>2 DEF Front
    <3>2. stack'[i].offset = Current.offset /\ stack'[i + 1].offset = c.offset
      BY <1>5, <2>2
    <3>3. QED
      BY <3>1, <3>2
  <2>3. CASE i # Top
    <3>1. i < Top /\ i + 1 \in 1 .. Top
      BY <1>1, <2>3
    <3>2. Front(elements', i) = Front(elements, i)
      BY <1>6, <2>1, <3>1 DEF Front
    <3>3. stack[i + 1].offset = stack[i].offset + 4 + Len(Front(elements, i))
      BY <2>1, <3>1 DEF Content, ParentsSay
    <3>4. Says(buf', stack[i].offset + 4, Front(elements, i))
      BY <1>1, <2>1, <3>1, ParentsKept DEF Current
    <3>5. QED
      BY <1>8, <2>1, <3>1, <3>2, <3>3, <3>4
  <2>4. QED
    BY <2>2, <2>3
<1>13. CurrentSays'
  <2>1. elements'[Top + 1].body = <<>>
    BY <1>2, <1>6
  <2>2. c.len = 5 + Len(<<>>)
    OBVIOUS
  <2>3. /\ c.len = 5 + Len(elements'[Top + 1].body)
        /\ Says(buf', c.offset, Encoded(elements'[Top + 1].body))
    BY <2>1, <2>2
  <2>4. QED
    BY <1>7, <2>3 DEF CurrentSays
<1>14. QED
  BY <1>10, <1>11, <1>12, <1>13 DEF Content

(* An inline parent that is moved keeps its bytes.                         *)
LEMMA SpillKeeps ==
    ASSUME Shape, stack # <<>>, NEW l \in SpillGrow(Current)
    PROVE  Safe(buf, SpillBuf(Current, l), Current.offset + Current.len)
<1>1. /\ Current.len \in Nat /\ Current.offset \in Nat /\ Current.depth \in Nat
      /\ Current.offset + Current.len + Current.depth <= buflen /\ buflen \in Nat
      /\ \A size \in Nat : GrowPre(Current, size, buflen)
      /\ DOMAIN buf = 0 .. buflen - 1
  BY CurrentFacts DEF Bson, Shape, TypeOK
<1>2. CASE Spills(Current)
  <2> DEFINE size == SpillSize - Current.len
  <2>1. buflen = InlineSize /\ Current.offset + Current.len <= buflen
    <3>1. GrowPre(Current, 0, buflen)
      BY <1>1
    <3>2. QED
      BY <1>1, <1>2, <3>1 DEF GrowPre, Spills
  <2>2. size \in Nat
    BY <1>1, <2>1, Sizes
  <2>3. /\ l \in Grow(Current, size, buflen) /\ GrowPre(Current, size, buflen)
        /\ SpillBuf(Current, l) = GrownBuf(Current, size, buf, buflen, l)
    BY <1>1, <1>2, <2>2 DEF SpillGrow, SpillBuf
  <2> HIDE DEF size
  <2>4. QED
    BY <1>1, <2>1, <2>3, GrownKeeps
<1>3. CASE ~Spills(Current)
  BY <1>3, SafeSame DEF SpillBuf
<1>4. QED
  BY <1>2, <1>3

LEMMA BeginChildContent ==
    ASSUME Shape, Content, NEW k \in KeyLengths, BeginChild(k)
    PROVE  Content'
<1> DEFINE n     == 1 + k + 1 + 5
           cells == ChildHeader(k) \o EmptyDoc
           d     == SpillDoc(Current)
<1>1. stack # <<>>
  BY DEF BeginChild, Appendable
<1>2. k \in Nat /\ n \in Nat /\ Len(cells) = n
  BY ParametersAssumption, ChildCells
<1>3. /\ Current \in Bson /\ Current.len \in Nat /\ Current.len >= 5
      /\ Current.offset \in Nat /\ buflen \in Nat
      /\ Current.depth \in Nat
  BY <1>1, CurrentFacts DEF Bson
<1>4. cells \in Seq(Cell)
  BY <1>2, HeaderFacts, EmptyIsEncoded, ConcatProperties
<1>5. CASE Refuse
  <2>1. stack' = [stack EXCEPT ![Top] = Current]
    BY <1>5 DEF Refuse, Current, Shape, TypeOK
  <2>2. SameButInline(Current, Current) /\ elements' = elements /\ buf' = buf
    BY <1>3, <1>5 DEF Refuse, SameButInline
  <2>3. QED
    BY <1>1, <2>1, <2>2, SafeSame, MovedContent
<1>6. ASSUME NEW l \in SpillGrow(Current),
             buf' = SpillBuf(Current, l),
             stack' = [stack EXCEPT ![Top] = d],
             elements' = elements
      PROVE  Content'
  <2>1. SameButInline(d, Current)
    BY <1>1, SpillFacts
  <2>2. Safe(buf, buf', Current.offset + Current.len)
    BY <1>1, <1>6, SpillKeeps
  <2> HIDE DEF d
  <2>3. QED
    BY <1>1, <1>6, <2>1, <2>2, MovedContent
<1> HIDE DEF n, cells
<1>7. ASSUME NEW l1 \in SpillGrow(Current),
             NEW l2 \in Grow(d, n, l1),
             buf' = AppendedBuf(GrownBuf(d, n, SpillBuf(Current, l1), l1, l2), d, cells),
             stack' = Append([stack EXCEPT ![Top] =
                                [Lengthened(GrownDoc(d, n, l1), cells)
                                   EXCEPT !.flags = @ \cup {"IN_CHILD"}]],
                             ChildOf(Lengthened(GrownDoc(d, n, l1), cells))),
             elements' = Append(elements, [key |-> k, body |-> <<>>])
      PROVE  Content'
  <2> DEFINE b1 == SpillBuf(Current, l1)
             b2 == GrownBuf(d, n, b1, l1, l2)
             g  == GrownDoc(d, n, l1)
             p  == Lengthened(g, cells)
             q  == [p EXCEPT !.flags = @ \cup {"IN_CHILD"}]
             c  == ChildOf(p)
             o  == Current.offset
             body  == elements[Top].body
             front == body \o ChildHeader(k)
  <2>1. /\ l1 \in Nat /\ SameButInline(d, Current) /\ "INLINE" \notin d.flags
        /\ Current.offset + Current.len + Current.depth <= l1
        /\ DOMAIN b1 = 0 .. l1 - 1
        /\ Safe(buf, b1, o + Current.len)
    BY <1>1, SpillFacts, SpillKeeps
  <2> HIDE DEF d, b1
  <2>2. /\ GrowPre(d, n, l1) /\ d \in Bson /\ d.offset = o /\ d.len = Current.len
        /\ d.depth = Current.depth
        /\ d.offset + d.len <= l1
    BY <1>2, <1>3, <2>1 DEF GrowPre, SameButInline
  <2>3. /\ l2 \in Nat /\ d.offset + d.len + n + d.depth <= l2 /\ SameButInline(g, d)
        /\ DOMAIN b2 = 0 .. l2 - 1
        /\ Safe(b1, b2, o + Current.len)
    BY <1>7, <2>1, <2>2, GrowFacts, GrownDomain, GrownKeeps
  <2> HIDE DEF g, b2
  <2>4. Safe(buf, b2, Current.offset + Current.len)
    BY <2>1, <2>3, SafeTransitive
  <2>5. Current.offset + Current.len + Len(cells) <= l2
    BY <1>2, <1>3, <2>2, <2>3
  <2>6. buf' = AppendedBuf(b2, d, cells)
    BY <1>7 DEF b1, b2
  <2>7. /\ Safe(buf, buf', o)
        /\ Says(buf', o, Encoded(body \o cells))
        /\ body \o cells \in Seq(Cell)
        /\ Current.len + Len(cells) = 5 + Len(body \o cells)
    BY <1>1, <1>4, <2>1, <2>3, <2>4, <2>5, <2>6, GrownSays
  <2>8. body \in Seq(Cell) /\ Current.len = 5 + Len(body) /\ Len(body) \in Nat
    BY <1>1, CurrentText
  <2>9. ChildHeader(k) \in Seq(Cell) /\ Len(ChildHeader(k)) = 1 + k + 1
    BY <1>2, HeaderFacts
  <2> DEFINE h == ChildHeader(k)
  <2> HIDE DEF body
  <2>10. front \in Seq(Cell) /\ Len(front) = Len(body) + 1 + k + 1
    <3>1. h \in Seq(Cell) /\ Len(h) = 1 + k + 1 /\ front = body \o h
      BY <2>9
    <3> HIDE DEF h
    <3>2. body \o h \in Seq(Cell) /\ Len(body \o h) = Len(body) + Len(h)
      BY <2>8, <3>1, ConcatProperties
    <3>3. QED
      BY <1>2, <2>8, <3>1, <3>2
  <2>11. body \o cells = front \o EmptyDoc
    <3>1. /\ h \in Seq(Cell) /\ front = body \o h /\ cells = h \o EmptyDoc
          /\ EmptyDoc \in Seq(Cell)
      BY <2>9, EmptyIsEncoded DEF cells
    <3> HIDE DEF h, front
    <3>2. (body \o h) \o EmptyDoc = body \o (h \o EmptyDoc)
      BY <2>8, <3>1, ConcatAssociative
    <3>3. QED
      BY <3>1, <3>2
  <2> HIDE DEF front, o
  <2>12. Says(buf', o + 4, front \o EmptyDoc)
    <3>1. o \in Int
      BY <1>3 DEF o
    <3> DEFINE more == body \o cells
    <3>2. more \in Seq(Cell) /\ Says(buf', o, Encoded(more)) /\ more = front \o EmptyDoc
      BY <2>7, <2>11
    <3> HIDE DEF more
    <3>3. Says(buf', o + 4, more)
      BY <3>1, <3>2, EncodedParts
    <3>4. QED
      BY <3>2, <3>3
  <2>13. Says(buf', o + 4, front) /\ Says(buf', o + 4 + Len(front), EmptyDoc)
    <3>1. o + 4 \in Int
      BY <1>3 DEF o
    <3>2. QED
      BY <2>10, <2>12, <3>1, EmptyIsEncoded, SaysBoth
  <2>14. /\ p \in Bson /\ p.offset = o /\ p.len = Current.len + n
         /\ p.flags \in SUBSET Flags
    <3>1. g \in Bson /\ g.offset = o /\ g.len = Current.len
      BY <2>2, <2>3 DEF SameButInline
    <3>2. p \in Bson /\ p.offset = g.offset /\ p.len = g.len + Len(cells)
      BY <1>2, <3>1, LengthenedIs
    <3>3. QED
      BY <1>2, <3>1, <3>2 DEF Bson
  <2> HIDE DEF p
  <2>15. q \in Bson /\ q.offset = Current.offset
    <3>1. "IN_CHILD" \in Flags
      BY DEF Flags
    <3>2. QED
      BY <2>14, <3>1 DEF Bson, o
  <2>16. p.len = Len(front) + 10
    BY <1>2, <2>8, <2>10, <2>14 DEF n
  <2>17. c \in Bson /\ c.len = 5 /\ c.offset = Current.offset + 4 + Len(front)
    <3>1. p.offset + p.len - 1 - 5 = Current.offset + 4 + Len(front)
      BY SMTT(30), <1>3, <2>10, <2>14, <2>16 DEF o
    <3>2. p.offset + p.len - 1 - 5 \in Nat
      BY <1>3, <2>10, <3>1
    <3>3. (IF "CHILD" \in p.flags THEN p.depth + 1 ELSE 1) \in Nat
      BY <2>14 DEF Bson
    <3>4. {"CHILD", "NO_FREE", "STATIC"} \in SUBSET Flags
      BY DEF Flags
    <3>5. QED
      BY <3>1, <3>2, <3>3, <3>4 DEF ChildOf, Bson
  <2>18. stack' = Append([stack EXCEPT ![Top] = q], c)
    BY <1>7 DEF p, g
  <2> HIDE DEF q, c
  <2>19. Says(buf', c.offset, Encoded(<<>>))
    BY <2>13, <2>17, EmptyIsEncoded DEF o
  <2>20. QED
    BY <1>1, <1>2, <1>7, <2>7, <2>13, <2>15, <2>17, <2>18, <2>19, PushContent
       DEF front, body, o
<1>8. QED
  BY <1>5, <1>6, <1>7 DEF BeginChild, n, cells

(* The last document dropped, and its parent rewritten with a new body.    *)
LEMMA PopContent ==
    ASSUME Shape, Content, stack # <<>>,
           NEW t \in Nat, t >= 1, t + 1 = Top,
           NEW p \in Bson, p.offset = stack[t].offset,
           NEW body \in Seq(Cell), p.len = 5 + Len(body),
           stack' = [SubSeq(stack, 1, t) EXCEPT ![t] = p],
           elements' = [SubSeq(elements, 1, t) EXCEPT ![t].body = body],
           Safe(buf, buf', stack[t].offset),
           Says(buf', stack[t].offset, Encoded(body))
    PROVE  Content'
<1> DEFINE ss == SubSeq(stack, 1, t)
           es == SubSeq(elements, 1, t)
           e  == [elements[t] EXCEPT !.body = body]
<1>1. /\ stack \in Seq(Bson) /\ Top = Len(stack) /\ Top \in Nat /\ t \in 1 .. Top
      /\ elements \in Seq(Text) /\ Len(elements) = Top /\ t \in 1 .. t
  BY CurrentFacts DEF Shape, TypeOK, Top, Content, Texts
<1>2. /\ ss \in Seq(Bson) /\ Len(ss) = t /\ \A i \in 1 .. t : ss[i] = stack[i]
  BY <1>1
<1>3. /\ es \in Seq(Text) /\ Len(es) = t /\ \A i \in 1 .. t : es[i] = elements[i]
  BY <1>1
<1>4. e \in Text /\ e.body = body /\ e.key = elements[t].key
  BY <1>1, TextFacts DEF Text, Content
<1>5. stack' = [ss EXCEPT ![t] = p] /\ elements' = [es EXCEPT ![t] = e]
  BY <1>1, <1>3
<1> HIDE DEF ss, es, e
<1>6. /\ Len(stack') = t /\ stack'[t] = p
      /\ \A i \in 1 .. t : i # t => stack'[i] = stack[i]
  BY <1>1, <1>2, <1>5
<1>7. /\ elements' \in Seq(Text) /\ Len(elements') = t /\ elements'[t] = e
      /\ \A i \in 1 .. t : i # t => elements'[i] = elements[i]
  <2>1. t \in 1 .. Len(es) /\ e \in Text /\ es \in Seq(Text) /\ Len(es) = t
    BY <1>1, <1>3, <1>4
  <2>2. elements' = [es EXCEPT ![t] = e]
    BY <1>5
  <2> DEFINE new == [es EXCEPT ![t] = e]
  <2>3. new \in Seq(Text) /\ Len(new) = t /\ new[t] = e
    BY <2>1
  <2>4. \A i \in 1 .. t : i # t => new[i] = es[i]
    BY <2>1
  <2>5. QED
    BY <1>3, <2>2, <2>3, <2>4
<1>8. Top' = t /\ Current' = p
  BY <1>6 DEF Top, Current
<1>9. \A i \in 1 .. t : stack'[i].offset = stack[i].offset /\ i \in 1 .. Top
  BY <1>1, <1>6
<1>10. Texts'
  BY <1>7, <1>8 DEF Texts
<1>11. Ordered'
  BY <1>8, <1>9 DEF Content, Ordered
<1>12. ParentsSay'
  <2> SUFFICES ASSUME NEW i \in 1 .. t, i < t
               PROVE  /\ stack'[i + 1].offset
                           = stack'[i].offset + 4 + Len(Front(elements', i))
                      /\ Says(buf', stack'[i].offset + 4, Front(elements', i))
    BY <1>8 DEF ParentsSay
  <2>1. i + 1 \in 1 .. t /\ i \in 1 .. Top /\ i < Top
    <3>1. t \in Nat /\ t + 1 = Top
      OBVIOUS
    <3>2. QED
      BY <3>1
  <2>2. Front(elements', i) = Front(elements, i)
    <3>1. elements'[i].body = elements[i].body
      BY <1>7
    <3>2. elements'[i + 1].key = elements[i + 1].key
      BY <1>4, <1>7, <2>1
    <3>3. QED
      BY <3>1, <3>2 DEF Front
  <2>3. stack[i + 1].offset = stack[i].offset + 4 + Len(Front(elements, i))
    BY <2>1 DEF Content, ParentsSay
  <2>4. Says(buf', stack[i].offset + 4, Front(elements, i))
    BY <1>1, <2>1, ParentsKept
  <2>5. QED
    BY <1>9, <2>1, <2>2, <2>3, <2>4
<1>13. CurrentSays'
  <2>1. elements'[t].body = body
    BY <1>4, <1>7
  <2>2. QED
    BY <1>8, <2>1 DEF CurrentSays
<1>14. QED
  BY <1>10, <1>11, <1>12, <1>13 DEF Content

(* A child that is ended becomes a part of its parent's body.              *)
LEMMA EndChildContent ==
    ASSUME Shape, Content, EndChild
    PROVE  Content'
<1> DEFINE t  == Top - 1
           q  == stack[t]
           p  == Ended(q, Current)
           child == elements[Top].body
           front == Front(elements, t)
           body  == front \o Encoded(child)
           o     == q.offset
<1>1. Top >= 2
  BY DEF EndChild
<1>2. stack # <<>> /\ stack \in Seq(Bson) /\ Top = Len(stack)
  <2>1. stack \in Seq(Bson)
    BY DEF Shape, TypeOK
  <2>2. QED
    BY <1>1, <2>1 DEF Top
<1>3. /\ Top \in Nat /\ Top \in 1 .. Top /\ t \in 1 .. Top /\ t < Top /\ t + 1 = Top
      /\ t \in Nat /\ t >= 1 /\ Top > 1 /\ Top - 1 = t
      /\ Current.len \in Nat /\ Current.len >= 5 /\ Current.offset \in Nat
      /\ buflen \in Nat /\ DOMAIN buf = 0 .. buflen - 1
      /\ Current.offset + Current.len + Current.depth <= buflen
      /\ Current.depth = Top - 1
  BY <1>1, <1>2, CurrentFacts DEF Shape, TypeOK
<1> HIDE DEF t
<1>4. q \in Bson /\ o \in Nat /\ q.len \in Nat /\ Current.offset = o + q.len - 6
  BY <1>2, <1>3, TextFacts DEF Shape, Nested, Content, Current
<1>5. /\ Current.offset = o + 4 + Len(front) /\ Says(buf, o + 4, front)
      /\ front \in Seq(Cell) /\ Len(front) \in Nat
  BY <1>2, <1>3, FrontFacts DEF Content, ParentsSay, Current
<1>6. /\ child \in Seq(Cell) /\ Current.len = 5 + Len(child) /\ Len(child) \in Nat
      /\ Says(buf, Current.offset, Encoded(child))
      /\ Encoded(child) \in Seq(Cell) /\ Len(Encoded(child)) = 5 + Len(child)
  BY <1>2, CurrentText, EncodedFacts
<1>7. elements' = [SubSeq(elements, 1, t) EXCEPT ![t].body = body]
  <2>1. elements' = [SubSeq(elements, 1, t) EXCEPT
                       ![t].body = @ \o ChildHeader(elements[Top].key) \o Encoded(child)]
    BY DEF EndChild, t
  <2>2. elements \in Seq(Text) /\ Len(elements) = Top
    BY DEF Content, Texts
  <2>3. SubSeq(elements, 1, t)[t] = elements[t]
    BY <1>3, <2>2
  <2>4. front = elements[t].body \o ChildHeader(elements[Top].key)
    BY <1>3 DEF Front
  <2>5. QED
    BY <2>1, <2>3, <2>4
<1>8. /\ p.offset = o /\ p.len = q.len + Current.len - 5
  BY <1>4 DEF Ended, Bson
<1>9. /\ stack' = [SubSeq(stack, 1, t) EXCEPT ![t] = p]
      /\ buf' = EndedBuf(buf, p)
  BY DEF EndChild, t
<1>10. p \in Bson
  <2>1. q.len + Current.len - 5 \in Nat
    BY SMTT(30), <1>3, <1>4
  <2>2. QED
    BY <1>4, <2>1 DEF Ended, Bson
<1> HIDE DEF p, q, child, front, o
<1>11. body \in Seq(Cell) /\ Len(body) = Len(front) + 5 + Len(child) /\ Len(body) \in Nat
  <2> DEFINE e == Encoded(child)
  <2>1. e \in Seq(Cell) /\ Len(e) = 5 + Len(child) /\ body = front \o e
    BY <1>6
  <2> HIDE DEF e, body
  <2>2. front \o e \in Seq(Cell) /\ Len(front \o e) = Len(front) + Len(e)
    BY <1>5, <2>1, ConcatProperties
  <2>3. QED
    BY <1>5, <1>6, <2>1, <2>2
<1>12. Says(buf, o + 4, body)
  <2>1. o + 4 \in Int /\ o + 4 + Len(front) = Current.offset
    BY <1>4, <1>5
  <2>2. QED
    BY <1>5, <1>6, <2>1, SaysBoth
<1> HIDE DEF body
<1>13. p.len = 5 + Len(body) /\ p.len \in Nat
       /\ o + p.len <= buflen /\ o + p.len - 1 \in Nat
       /\ o + p.len - 1 = o + 4 + Len(body)
  <2> DEFINE cl == Current.len
             co == Current.offset
             ql == q.len
  <2>1. /\ cl \in Nat /\ co \in Nat /\ ql \in Nat /\ o \in Nat /\ cl >= 5
        /\ co = o + ql - 6 /\ co = o + 4 + Len(front) /\ cl = 5 + Len(child)
        /\ Len(front) \in Nat /\ Len(child) \in Nat /\ Len(body) \in Nat
        /\ Len(body) = Len(front) + 5 + Len(child) /\ p.len = ql + cl - 5
        /\ co + cl + (Top - 1) <= buflen /\ Top \in Nat /\ Top >= 2
    BY <1>1, <1>3, <1>4, <1>5, <1>6, <1>8, <1>11
  <2> HIDE DEF cl, co, ql
  <2>2. ql = Len(front) + 10 /\ p.len = 5 + Len(body)
    BY <2>1
  <2>3. o + p.len = (co + cl) + 1
    BY <2>1, <2>2
  <2>4. co + cl + 1 <= buflen
    BY <1>3, <2>1
  <2>5. QED
    BY <2>1, <2>2, <2>3, <2>4
<1> DEFINE at == o + p.len - 1
           b  == Copied(buf, at, <<Nul>>)
<1>14. at \in Nat /\ at + 1 <= buflen /\ at = o + 4 + Len(body) /\ o + 4 <= at
  BY <1>4, <1>11, <1>13
<1>15. buf' = Copied(b, o, LenCells(p.len))
  BY <1>8, <1>9 DEF EndedBuf
<1>16. LenCells(p.len) \in Seq(Cell) /\ Len(LenCells(p.len)) = 4
  BY <1>13, LenCellsFacts
<1>17. DOMAIN b = 0 .. buflen - 1
  BY <1>3, CopiedDomain
<1> HIDE DEF at
<1>18. Says(b, at, <<Nul>>) /\ Says(b, o + 4, body) /\ Safe(buf, b, o)
  <2>1. Says(b, at, <<Nul>>)
    BY <1>3, <1>14, NulFacts, SaysCopied
  <2>2. /\ o + 4 \in Int /\ at \in Int /\ (o + 4) + Len(body) <= at /\ o <= at
        /\ o \in Nat
    BY <1>4, <1>14
  <2>3. Says(b, o + 4, body)
    BY <1>11, <1>12, <2>2, NulFacts, SaysBeside
  <2>4. Safe(buf, b, o)
    BY <1>3, <2>2, CopiedSafe
  <2>5. QED
    BY <2>1, <2>3, <2>4
<1> HIDE DEF b
<1>19. Says(buf', o, Encoded(body)) /\ Safe(buf, buf', o)
  <2>1. o \in Nat /\ o \in Int /\ o + 4 \in Int /\ at \in Int
        /\ o + Len(LenCells(p.len)) <= o + 4 /\ o + Len(LenCells(p.len)) <= at
        /\ o + Len(LenCells(p.len)) <= buflen
    BY <1>3, <1>4, <1>14, <1>16
  <2>2. Says(buf', o, LenCells(p.len))
    BY <1>3, <1>15, <1>16, <1>17, <2>1, SaysCopied
  <2>3. Says(buf', o + 4, body)
    BY <1>11, <1>15, <1>16, <1>18, <2>1, SaysBeside
  <2>4. Says(buf', at, <<Nul>>)
    BY <1>15, <1>16, <1>18, <2>1, NulFacts, SaysBeside
  <2>5. Says(buf', o, Encoded(body))
    <3>1. Says(buf', o, LenCells(5 + Len(body))) /\ Says(buf', o + 4 + Len(body), <<Nul>>)
      BY <1>13, <1>14, <2>2, <2>4
    <3>2. QED
      BY <1>11, <2>1, <2>3, <3>1, EncodedParts
  <2>6. Safe(b, Copied(b, o, LenCells(p.len)), o)
    BY <1>3, <1>17, <2>1, CopiedSafe
  <2>7. QED
    BY <1>15, <1>18, <2>5, <2>6, SafeTransitive
<1>20. QED
  BY <1>2, <1>3, <1>7, <1>8, <1>9, <1>10, <1>11, <1>13, <1>19, PopContent DEF o, q

-----------------------------------------------------------------------------
(* A root on its own, and no document at all.                              *)
LEMMA RootContent ==
    ASSUME NEW d \in Bson, stack' = <<d>>,
           NEW body \in Seq(Cell), d.len = 5 + Len(body),
           elements' = <<[key |-> 0, body |-> body]>>,
           Says(buf', d.offset, Encoded(body))
    PROVE  Content'
<1>1. Top' = 1 /\ Current' = d /\ stack'[1] = d
  BY DEF Top, Current
<1>2. /\ elements' \in Seq(Text) /\ Len(elements') = 1
      /\ elements'[1].body = body
  <2> DEFINE t == [key |-> 0, body |-> body]
  <2>1. t \in Text /\ t.body = body
    BY DEF Text
  <2>2. elements' = <<t>>
    OBVIOUS
  <2> HIDE DEF t
  <2>3. QED
    BY <2>1, <2>2
<1>3. Texts'
  BY <1>1, <1>2 DEF Texts
<1>4. Ordered'
  <2>1. d.offset <= d.offset
    BY DEF Bson
  <2>2. QED
    BY <1>1, <2>1 DEF Ordered
<1>5. ParentsSay'
  BY <1>1 DEF ParentsSay
<1>6. CurrentSays'
  BY <1>1, <1>2 DEF CurrentSays
<1>7. QED
  BY <1>3, <1>4, <1>5, <1>6 DEF Content

LEMMA NoContent ==
    ASSUME stack' = <<>>, elements' = <<>>
    PROVE  Content'
<1>1. Top' = 0
  BY DEF Top
<1>2. Texts'
  BY <1>1 DEF Texts
<1>3. Ordered' /\ ParentsSay' /\ CurrentSays'
  BY <1>1 DEF Ordered, ParentsSay, CurrentSays
<1>4. QED
  BY <1>2, <1>3 DEF Content

LEMMA NewRootContent ==
    ASSUME NEW size \in Nat, NEW body \in Seq(Cell),
           Len(Encoded(body)) <= RootLength(size),
           NewRoot(size, Encoded(body), body)
    PROVE  Content'
<1> DEFINE d == [flags |-> RootFlags(size), len |-> Len(Encoded(body)),
                 offset |-> 0, depth |-> 0]
           b == Resized(<<>>, 0, RootLength(size))
<1>1. /\ stack' = <<d>> /\ elements' = <<[key |-> 0, body |-> body]>>
      /\ buf' = Copied(b, 0, Encoded(body))
  BY DEF NewRoot
<1>2. /\ Encoded(body) \in Seq(Cell) /\ Len(Encoded(body)) = 5 + Len(body)
      /\ Len(body) \in Nat
  BY EncodedFacts
<1>3. RootFlags(size) \in SUBSET Flags /\ RootLength(size) \in Nat
  BY Sizes DEF RootFlags, RootLength, Flags
<1>4. d \in Bson /\ d.offset = 0 /\ d.len = 5 + Len(body)
  BY <1>2, <1>3 DEF Bson
<1>5. DOMAIN b = 0 .. RootLength(size) - 1
  BY ResizedDomain
<1> HIDE DEF b, d
<1>6. 0 + Len(Encoded(body)) <= RootLength(size)
  BY <1>2, <1>3
<1>7. Says(buf', 0, Encoded(body))
  BY <1>1, <1>2, <1>3, <1>5, <1>6, SaysCopied
<1>8. QED
  BY <1>1, <1>4, <1>7, RootContent

LEMMA OpenContent ==
    ASSUME Shape, Reserved, Content, Write
    PROVE  Content'
BY AppendElementContent, BeginChildContent, EndChildContent, ReinitContent,
   ReserveContent DEF Write, Build

LEMMA SameContent ==
    ASSUME Content, UNCHANGED <<stack, elements, buf>>
    PROVE  Content'
BY DEF Content, Texts, Ordered, ParentsSay, CurrentSays, Top, Current

LEMMA NextContent ==
    ASSUME IInv, Reserved, Content, [Next]_vars
    PROVE  Content'
<1>1. ASSUME NEW size \in SizedNew, bson_sized_new(size)
      PROVE  Content'
  <2>1. size \in Nat
    BY ParametersAssumption, Sizes
  <2>2. Len(Encoded(<<>>)) <= RootLength(size)
    <3>1. Len(Encoded(<<>>)) = 5
      BY EmptyIsEncoded, EmptyDocFacts
    <3>2. 5 <= RootLength(size)
      BY <2>1, Sizes DEF RootLength
    <3>3. QED
      BY <3>1, <3>2
  <2>3. NewRoot(size, Encoded(<<>>), <<>>)
    BY <1>1, EmptyIsEncoded DEF bson_sized_new
  <2>4. QED
    BY <2>1, <2>2, <2>3, EmptyIsEncoded, NewRootContent
<1>2. ASSUME NEW e \in Elements, bson_new_from_data(e)
      PROVE  Content'
  <2> DEFINE size == 5 + e.size
             body == ElementCells(e)
  <2>1. body \in Seq(Cell) /\ Len(body) = e.size /\ size \in Nat
    BY ElementCellsFacts, ElementsAssumption
  <2>2. NewRoot(size, Encoded(body), body)
    BY <1>2 DEF bson_new_from_data, Document
  <2>3. Len(Encoded(body)) = size
    BY <2>1, EncodedFacts
  <2> HIDE DEF size, body
  <2>4. Len(Encoded(body)) <= RootLength(size)
    BY <2>1, <2>3, Sizes DEF RootLength
  <2>5. QED
    BY <2>1, <2>2, <2>4, NewRootContent
<1>3. CASE Build \/ bson_reinit \/ \E e \in Elements : bson_reserve_buffer(e)
  BY <1>3, OpenContent DEF Write, IInv
<1>4. CASE bson_destroy
  BY <1>4, NoContent DEF bson_destroy
<1>5. CASE UNCHANGED vars
  BY <1>5, SameContent DEF vars
<1>6. QED
  BY <1>1, <1>2, <1>3, <1>4, <1>5 DEF Next

LEMMA InitContent == Init => Content
<1> SUFFICES ASSUME Init PROVE Content
  OBVIOUS
<1>1. stack = <<>> /\ elements = <<>> /\ Top = 0
  BY DEF Init, Top
<1>2. Texts
  BY <1>1 DEF Texts
<1>3. Ordered /\ ParentsSay /\ CurrentSays
  BY <1>1 DEF Ordered, ParentsSay, CurrentSays
<1>4. QED
  BY <1>2, <1>3 DEF Content

(* The document that takes appends is, byte by byte, its length, what was  *)
(* appended to it and a NUL: whatever the sizes, however often and for     *)
(* whichever document of the chain _bson_grow has moved the buffer, and    *)
(* however deep the subdocuments that were begun and ended in it.          *)
THEOREM DocumentsEncode ==
    ASSUME Reserved
    PROVE  Spec => []CurrentEncodesItsElements
<1>1. Init => IInv /\ Content
  BY InitEstablishes, InitContent
<1>2. IInv /\ Content /\ [Next]_vars => (IInv /\ Content)'
  BY NextPreserves, NextContent
<1>3. IInv /\ Content => CurrentEncodesItsElements
  <2> SUFFICES ASSUME IInv, Content, stack # <<>>
               PROVE  Cells(Current.offset, Current.len) = Encoded(elements[Top].body)
    BY DEF CurrentEncodesItsElements
  <2> DEFINE body == elements[Top].body
  <2>1. /\ body \in Seq(Cell) /\ Current.len = 5 + Len(body)
        /\ Says(buf, Current.offset, Encoded(body))
    BY CurrentText DEF IInv
  <2>2. Current.offset \in Int
    BY CurrentFacts DEF IInv
  <2> HIDE DEF body
  <2>3. Cells(Current.offset, 5 + Len(body)) = Encoded(body)
    BY <2>1, <2>2, CellsAreEncoded
  <2>4. QED
    BY <2>1, <2>3 DEF body
<1>4. QED
  BY <1>1, <1>2, <1>3, PTL DEF Spec

-----------------------------------------------------------------------------
(* The writer.  What it has ended is in front of its offset, where nothing *)
(* is written.                                                             *)
WContent == WInv /\ Content /\ FinishedSay

LEMMA FinishedKeeps ==
    ASSUME WInv, FinishedSay, Safe(buf, buf', offset), finished' = finished
    PROVE  FinishedSay'
<1> SUFFICES ASSUME NEW i \in DOMAIN finished
             PROVE  /\ finished[i].body \in Seq(Cell)
                    /\ finished[i].len = 5 + Len(finished[i].body)
                    /\ Says(buf', finished[i].at, Encoded(finished[i].body))
  BY DEF FinishedSay
<1> DEFINE s  == Encoded(finished[i].body)
           at == finished[i].at
<1>1. /\ finished[i].body \in Seq(Cell)
      /\ finished[i].len = 5 + Len(finished[i].body)
      /\ Says(buf, at, s)
  BY DEF FinishedSay
<1>2. /\ at \in Nat /\ finished[i].len \in Nat /\ at + finished[i].len <= offset
      /\ offset \in Nat
  BY DEF WInv, History, WriterTypes
<1>3. s \in Seq(Cell) /\ Len(s) = finished[i].len
  BY <1>1, EncodedFacts
<1> HIDE DEF s, at
<1>4. at + Len(s) <= offset /\ at \in Int /\ offset \in Int
  BY <1>2, <1>3
<1>5. Says(buf', at, s)
  BY <1>1, <1>3, <1>4, SaysSafe
<1>6. QED
  BY <1>1, <1>5 DEF s, at

LEMMA BeginContent ==
    ASSUME WContent, bson_writer_begin
    PROVE  Content' /\ FinishedSay'
<1>1. /\ writer = "open" /\ writer' = "open" /\ stack = <<>>
      /\ offset \in Nat /\ buflen \in Nat /\ finished' = finished
      /\ offset + 5 <= MaxBuffer
      /\ DOMAIN buf = 0 .. buflen - 1
  BY DEF bson_writer_begin, wvars, WContent, WInv, WhenOpen, WriterTypes, Shape, TypeOK
<1>2. FinishedSay'
  <2>1. BytesKept
    BY BeginStep DEF WContent
  <2>2. QED
    BY <1>1, <2>1, FinishedKeeps DEF WContent, BytesKept
<1>3. CASE Refuse
  BY <1>2, <1>3, SameContent DEF WContent, Refuse
<1>4. CASE ~Refuse
  <2> DEFINE l == Doubled(buflen, offset + 5)
             b == IF l = buflen THEN buf ELSE Resized(buf, buflen, l)
             d == BegunDocument
  <2>1. /\ buf' = Copied(b, offset, EmptyDoc \o <<Nul>>)
        /\ stack' = <<d>> /\ elements' = <<[key |-> 0, body |-> <<>>]>>
    BY <1>4 DEF bson_writer_begin, BegunBuf
  <2>2. l \in Nat /\ offset + 5 <= l
    BY <1>1, DoubledFacts
  <2>3. DOMAIN b = 0 .. l - 1
    BY <1>1, ResizedDomain
  <2>4. d \in Bson /\ d.offset = offset /\ d.len = 5 + Len(<<>>)
    <3>1. d \in Bson /\ d.offset = offset /\ d.len = 5
      BY <1>1 DEF BegunDocument, Bson, Flags
    <3>2. QED
      BY <3>1
  <2> HIDE DEF l, b, d
  <2>5. Says(buf', offset, Encoded(<<>>))
    <3> DEFINE s == EmptyDoc \o <<Nul>>
    <3>1. EmptyDoc \in Seq(Cell) /\ Len(EmptyDoc) = 5 /\ Encoded(<<>>) = EmptyDoc
      BY EmptyIsEncoded, EmptyDocFacts
    <3>2. Len(s) = 6 /\ \A i \in 1 .. 5 : s[i] = EmptyDoc[i]
      <4> DEFINE e == EmptyDoc
                 z == <<Nul>>
      <4>1. e \in Seq(Cell) /\ Len(e) = 5 /\ z \in Seq(Cell) /\ Len(z) = 1
        BY <3>1, NulFacts
      <4> HIDE DEF e, z
      <4>2. /\ Len(e \o z) = Len(e) + Len(z)
            /\ \A i \in 1 .. Len(e) + Len(z) :
                  (e \o z)[i] = IF i <= Len(e) THEN e[i] ELSE z[i - Len(e)]
        BY <4>1, ConcatProperties
      <4>3. Len(e \o z) = 6 /\ \A i \in 1 .. 5 : (e \o z)[i] = e[i]
        BY <4>1, <4>2
      <4>4. QED
        BY <4>3 DEF e, z
    <3>3. buf' = Copied(b, offset, s)
      BY <2>1
    <3> HIDE DEF s
    <3>4. ASSUME NEW i \in 1 .. 5
          PROVE  offset + i - 1 \in DOMAIN buf' /\ buf'[offset + i - 1] = EmptyDoc[i]
      <4> DEFINE x == offset + i - 1
      <4>1. x \in 0 .. l - 1 /\ offset <= x /\ x < offset + 6 /\ x - offset + 1 = i
        BY <1>1, <2>2
      <4> HIDE DEF x
      <4>2. x \in DOMAIN buf' /\ buf'[x] = s[i]
        BY <2>3, <3>2, <3>3, <4>1 DEF Copied
      <4>3. QED
        BY <3>2, <4>2 DEF x
    <3>5. QED
      BY <3>1, <3>4 DEF Says
  <2>6. Content'
    BY <2>1, <2>4, <2>5, EmptyIsEncoded, RootContent
  <2>7. QED
    BY <1>2, <2>6
<1>5. QED
  BY <1>3, <1>4

LEMMA EndContent ==
    ASSUME WContent, bson_writer_end
    PROVE  Content' /\ FinishedSay'
<1> DEFINE body == elements[1].body
           n == stack[1].len
           d == [at |-> offset, len |-> n, body |-> body]
           S == {finished[i] : i \in DOMAIN finished}
           N == Len(finished)
<1>1. /\ writer = "open" /\ Top = 1 /\ stack' = <<>> /\ elements' = <<>>
      /\ finished' = Append(finished, d) /\ buf' = buf
  BY DEF bson_writer_end
<1>2. Content'
  BY <1>1, NoContent
<1>3. stack # <<>> /\ Shape
  <2>1. stack = <<>> => Top = 0
    BY DEF Top
  <2>2. QED
    BY <1>1, <2>1 DEF WContent, WInv
<1>4. /\ body \in Seq(Cell) /\ n = 5 + Len(body)
      /\ Says(buf, offset, Encoded(body))
  <2>1. Current = stack[1] /\ stack[1].offset = offset
    BY <1>1, <1>3 DEF Current, WContent, WInv, InPlace
  <2>2. QED
    BY <1>1, <1>3, <2>1, CurrentText DEF WContent
<1>5. finished \in Seq(S) /\ N \in Nat /\ DOMAIN finished = 1 .. N /\ Len(finished) = N
  BY DEF WContent, WInv, History
<1>6. d.at = offset /\ d.len = n /\ d.body = body
  OBVIOUS
<1> HIDE DEF d, S, N, body, n
<1>7. /\ DOMAIN finished' = 1 .. N + 1
      /\ finished'[N + 1] = d /\ \A i \in 1 .. N : finished'[i] = finished[i]
  <2>1. finished \in Seq(S \cup {d}) /\ d \in S \cup {d}
    BY <1>5
  <2>2. QED
    BY <1>1, <1>5, <2>1, AppendProperties
<1>8. ASSUME NEW i \in 1 .. N + 1
      PROVE  /\ finished'[i].body \in Seq(Cell)
             /\ finished'[i].len = 5 + Len(finished'[i].body)
             /\ Says(buf', finished'[i].at, Encoded(finished'[i].body))
  <2>1. CASE i = N + 1
    BY <1>1, <1>4, <1>6, <1>7, <2>1
  <2>2. CASE i # N + 1
    <3>1. i \in DOMAIN finished /\ finished'[i] = finished[i]
      BY <1>5, <1>7, <2>2
    <3>2. QED
      BY <1>1, <3>1 DEF WContent, FinishedSay
  <2>3. QED
    BY <2>1, <2>2
<1>9. FinishedSay'
  BY <1>7, <1>8 DEF FinishedSay
<1>10. QED
  BY <1>2, <1>9

LEMMA WriterContentStep ==
    ASSUME WContent, Reserved, [WriterNext]_allvars
    PROVE  WContent'
<1>1. WInv' /\ BytesKept
  BY WriterStep DEF WContent
<1>2. CASE UNCHANGED allvars
  <2>1. /\ UNCHANGED <<stack, elements, buf>> /\ finished' = finished
    BY <1>2 DEF allvars, vars, wvars
  <2>2. Content'
    BY <2>1, SameContent DEF WContent
  <2>3. FinishedSay'
    BY <2>1, SafeSame, FinishedKeeps DEF WContent
  <2>4. QED
    BY <1>1, <2>2, <2>3 DEF WContent
<1>3. ASSUME NEW b \in Buffers, bson_writer_new(b)
      PROVE  WContent'
  <2>1. /\ stack = <<>> /\ finished = <<>>
        /\ stack' = stack /\ elements' = elements /\ finished' = finished
    BY <1>3 DEF bson_writer_new, WContent, WInv, WhenNone
  <2>2. elements = <<>>
    <3>1. Len(elements) = 0 /\ elements \in Seq(Text)
      BY <2>1 DEF WContent, Content, Texts, Top
    <3>2. QED
      BY <3>1
  <2>3. Content' /\ FinishedSay'
    BY <2>1, <2>2, NoContent DEF FinishedSay
  <2>4. QED
    BY <1>1, <2>3 DEF WContent
<1>4. CASE bson_writer_begin
  BY <1>1, <1>4, BeginContent DEF WContent
<1>5. CASE Write /\ UNCHANGED wvars
  <2>1. Content'
    BY <1>5, OpenContent DEF WContent, WInv
  <2>2. Shape /\ stack # <<>>
    BY <1>5, WriteNeedsOpen DEF WContent, WInv
  <2>3. Safe(buf, buf', offset)
    BY <1>5, <2>2, WriteSafe DEF WContent, WInv, InPlace
  <2>4. finished' = finished
    BY <1>5 DEF wvars
  <2>5. FinishedSay'
    BY <2>3, <2>4, FinishedKeeps DEF WContent
  <2>6. QED
    BY <1>1, <2>1, <2>5 DEF WContent
<1>6. CASE bson_writer_end
  BY <1>1, <1>6, EndContent DEF WContent
<1>7. CASE bson_writer_rollback
  <2>1. stack' = <<>> /\ elements' = <<>> /\ buf' = buf /\ finished' = finished
    BY <1>7 DEF bson_writer_rollback
  <2>2. Content' /\ FinishedSay'
    BY <2>1, NoContent, SafeSame, FinishedKeeps DEF WContent
  <2>3. QED
    BY <1>1, <2>2 DEF WContent
<1>8. CASE bson_writer_destroy
  <2>1. stack' = stack /\ elements' = elements /\ finished' = <<>> /\ stack = <<>>
    BY <1>8 DEF bson_writer_destroy, WContent, WInv, WhenOpen
  <2>2. elements = <<>>
    <3>1. Len(elements) = 0 /\ elements \in Seq(Text)
      BY <2>1 DEF WContent, Content, Texts, Top
    <3>2. QED
      BY <3>1
  <2>3. Content' /\ FinishedSay'
    BY <2>1, <2>2, NoContent DEF FinishedSay
  <2>4. QED
    BY <1>1, <2>3 DEF WContent
<1>9. QED
  BY <1>2, <1>3, <1>4, <1>5, <1>6, <1>7, <1>8 DEF WriterNext

(* Each document ended with bson_writer_end stays, in the caller's buffer, *)
(* the encoding of all that was appended to it between its begin and its   *)
(* end, whatever is begun, appended, grown or rolled back behind it.       *)
THEOREM FinishedDocumentsEncode ==
    ASSUME Reserved
    PROVE  WriterSpec => []FinishedEncode
<1>1. WriterInit => WContent
  <2> SUFFICES ASSUME WriterInit PROVE WContent
    OBVIOUS
  <2>1. WInv
    BY WriterInitEstablishes
  <2>2. Content
    BY InitContent DEF WriterInit
  <2>3. FinishedSay
    BY DEF WriterInit, FinishedSay
  <2>4. QED
    BY <2>1, <2>2, <2>3 DEF WContent
<1>2. WContent /\ [WriterNext]_allvars => WContent'
  BY WriterContentStep
<1>3. WContent => FinishedEncode
  <2> SUFFICES ASSUME WContent, NEW i \in DOMAIN finished
               PROVE  Cells(finished[i].at, finished[i].len) = Encoded(finished[i].body)
    BY DEF FinishedEncode
  <2>1. /\ finished[i].body \in Seq(Cell)
        /\ finished[i].len = 5 + Len(finished[i].body)
        /\ Says(buf, finished[i].at, Encoded(finished[i].body))
    BY DEF WContent, FinishedSay
  <2>2. finished[i].at \in Int
    BY DEF WContent, WInv, History
  <2>3. Cells(finished[i].at, 5 + Len(finished[i].body)) = Encoded(finished[i].body)
    BY <2>1, <2>2, CellsAreEncoded
  <2>4. QED
    BY <2>1, <2>3
<1>4. QED
  BY <1>1, <1>2, <1>3, PTL DEF WriterSpec

=============================================================================
