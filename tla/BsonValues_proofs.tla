-------------------------- MODULE BsonValues_proofs --------------------------
(***************************************************************************)
(* Ownership, for any number of bson_t variables and any elements and      *)
(* values a program gives them: every block that malloc gave has one       *)
(* owner, nothing points to a block that was freed, and every document     *)
(* fits the room it counts with.                                           *)
(***************************************************************************)
EXTENDS BsonValues, FiniteSetTheorems, SequenceTheorems, WellFoundedInduction,
        TLAPS

ByteBlocks == {<<"bytes", n>> : n \in Nat}

IsDoc(d) == d = [flags |-> d.flags, len |-> d.len, struct |-> d.struct, buf |-> d.buf,
                 alloclen |-> d.alloclen, inline |-> d.inline, views |-> d.views]

(* A bson_t in slot h: its bytes are in itself, in a block of its own, in  *)
(* the caller's buffer, or in another bson_t's place.                      *)
DocOk(d, h) ==
    /\ IsDoc(d)
    /\ "none" \notin d.flags
    /\ d.struct = IF "STATIC" \in d.flags THEN Stack ELSE Struct(h)
    /\ \/ d.flags \cap {"INLINE", "NO_FREE", "RDONLY"} = {"INLINE"} /\ d.buf = Inline(h)
       \/ d.flags \cap {"INLINE", "NO_FREE", "RDONLY"} = {"NO_FREE"} /\ d.buf = CallersBuf
       \/ /\ d.flags \cap {"INLINE", "NO_FREE", "RDONLY"} = {"RDONLY"} /\ "STATIC" \in d.flags
          /\ d.buf.at = "inline" \/ d.buf \in {Block(b) : b \in ByteBlocks}
       \/ /\ d.flags \cap {"INLINE", "NO_FREE", "RDONLY"} = {}
          /\ d.buf \in {Block(b) : b \in ByteBlocks}

(* The blocks a bson_t, the caller's buffer and the value are to free.     *)
DocBlocks(d) ==
    IF "none" \in d.flags THEN {}
    ELSE {b \in {d.struct} : d.struct # Stack}
            \cup {b \in {d.buf.of} : d.buf.at = "block" /\ "RDONLY" \notin d.flags}
CallerBlocks == {cbuf.block} \ {Null}
ValueBlocks  == IF value.at = "owned" THEN value.blocks ELSE {}

Types ==
    /\ docs = [h \in Slots |-> docs[h]]
    /\ \A h \in Slots : docs[h] = NoDoc \/ DocOk(docs[h], h)
    /\ cbuf.block \in {Null} \cup ByteBlocks
    /\ value.at = "owned" => /\ IsFiniteSet(value.blocks)
                             /\ value.blocks \subseteq {<<"value", i>> : i \in Nat}

(* What malloc gave and nobody freed is what is owned, and no block is     *)
(* owned twice.                                                            *)
Ledger ==
    /\ \A b : b \in DOMAIN mem <=> \/ \E h \in Slots : b \in DocBlocks(docs[h])
                                   \/ b \in CallerBlocks \cup ValueBlocks
    /\ \A g, h \in Slots : g # h => DocBlocks(docs[g]) \cap DocBlocks(docs[h]) = {}
    /\ \A h \in Slots : DocBlocks(docs[h]) \cap CallerBlocks = {}

(* The caller's buffer is lent to one document at most.                    *)
LentOnce == \A g, h \in Lent : g = h /\ cbuf.block # Null

(* The bytes that d reads in place are those of one of the documents its   *)
(* caller has promised to leave alone.                                     *)
Source(d) ==
    \E g \in d.views \cap Slots :
        /\ Live(g) /\ ~Is(g, "RDONLY")
        /\ \/ docs[g].buf = d.buf
           \/ docs[g].buf = CallersBuf /\ d.buf = Block(cbuf.block)

ViewsRight ==
    \A h \in Slots : Live(h) /\ Is(h, "RDONLY") => Source(docs[h])

(***************************************************************************)
(* The inductive invariant.                                                *)
(***************************************************************************)
IInv == Types /\ Ledger /\ LentOnce /\ ViewsRight

-----------------------------------------------------------------------------
(* Blocks of different kinds, and those of different bson_t, differ.       *)
LEMMA Apart ==
    /\ \A g, h : Struct(g) = Struct(h) => g = h
    /\ \A h : Struct(h) # Stack /\ Struct(h) # Null /\ Struct(h) \notin ByteBlocks
    /\ \A h, i : Struct(h) # <<"value", i>>
    /\ \A b \in ByteBlocks : b # Null /\ b # Stack /\ \A i : b # <<"value", i>>
    /\ \A i : Null # <<"value", i>>
    /\ Stack # Null
BY DEF Struct, Stack, Null, ByteBlocks

Before == {p \in Nat \X Nat : p[1] < p[2]}

LEMMA BeforeWellFounded == IsWellFoundedOn(Before, Nat)
BY NatLessThanWellFounded DEF OpToRel, Before

LEMMA MinFacts ==
    ASSUME NEW S \in SUBSET Nat, S # {}
    PROVE  Min(S) \in S
<1>1. PICK m \in S : \A x \in S : <<x, m>> \notin Before
  BY BeforeWellFounded, WFMin
<1>2. ASSUME NEW x \in S PROVE m <= x
  <2>1. m \in Nat /\ x \in Nat /\ <<x, m>> \notin Before
    BY <1>1
  <2>2. ~ x < m
    BY <2>1 DEF Before
  <2>3. QED
    BY <2>1, <2>2
<1>3. QED
  BY <1>2 DEF Min

(* Of one more block than a finite set has, one is not in the set.         *)
LEMMA OneIsFree ==
    ASSUME NEW used, IsFiniteSet(used), NEW use
    PROVE  \E n \in 1 .. Cardinality(used) + 1 : <<use, n>> \notin used
<1> DEFINE N == Cardinality(used)
           f == [n \in 1 .. N + 1 |-> <<use, n>>]
<1>1. N \in Nat
  BY FS_CardinalityType
<1>2. IsFiniteSet(1 .. N + 1) /\ Cardinality(1 .. N + 1) = N + 1
  BY <1>1, FS_Interval
<1>3. SUFFICES ASSUME \A n \in 1 .. N + 1 : <<use, n>> \in used PROVE FALSE
  OBVIOUS
<1>4. f \in Injection(1 .. N + 1, used)
  BY <1>3 DEF Injection, IsInjective
<1>5. Cardinality(1 .. N + 1) <= Cardinality(used)
  BY <1>4, FS_Injection
<1>6. QED
  BY <1>1, <1>2, <1>5

(* The image of a finite set.                                              *)
LEMMA ImageFinite ==
    ASSUME NEW S, IsFiniteSet(S), NEW f, DOMAIN f = S
    PROVE  IsFiniteSet({f[x] : x \in S})
<1> DEFINE g == [x \in S |-> f[x]]
<1>1. g \in Surjection(S, {f[x] : x \in S})
  BY DEF Surjection
<1>2. QED
  BY <1>1, FS_Surjection

-----------------------------------------------------------------------------
LEMMA KnownBlocks ==
    ASSUME Types, NEW h \in Slots
    PROVE  DocBlocks(docs[h]) \subseteq {Struct(h)} \cup ByteBlocks
<1>1. CASE docs[h] = NoDoc
  BY <1>1 DEF NoDoc, DocBlocks
<1>2. CASE DocOk(docs[h], h)
  BY <1>2, Apart DEF DocOk, DocBlocks, Block, Inline, CallersBuf
<1>3. QED
  BY <1>1, <1>2 DEF Types

(* malloc gives a block that nobody has.                                   *)
LEMMA FreshBlock ==
    ASSUME Types, Ledger
    PROVE  /\ Fresh("bytes") \in ByteBlocks
           /\ Fresh("bytes") \notin DOMAIN mem /\ Fresh("bytes") # cbuf.block
<1> DEFINE live == {h \in Slots : Live(h)}
           inBlock == {h \in live : docs[h].buf.at = "block"}
           structs == {docs[h].struct : h \in live}
           bufs == {docs[h].buf.of : h \in inBlock}
           values == IF value.at = "owned" THEN value.blocks ELSE {}
           used == Referenced \cup DOMAIN mem
<1>1. IsFiniteSet(live) /\ IsFiniteSet(inBlock)
  <2>1. live \in SUBSET Slots /\ inBlock \in SUBSET Slots
    OBVIOUS
  <2>2. QED
    BY <2>1, SlotsAssumption, FS_Subset
<1>2. IsFiniteSet(structs)
  <2> DEFINE f == [h \in live |-> docs[h].struct]
  <2>1. IsFiniteSet({f[h] : h \in live})
    BY <1>1, ImageFinite
  <2>2. {f[h] : h \in live} = structs
    OBVIOUS
  <2>3. QED
    BY <2>1, <2>2
<1>3. IsFiniteSet(bufs)
  <2> DEFINE f == [h \in inBlock |-> docs[h].buf.of]
  <2>1. IsFiniteSet({f[h] : h \in inBlock})
    BY <1>1, ImageFinite, ZenonT(40)
  <2>2. {f[h] : h \in inBlock} = bufs
    OBVIOUS
  <2>3. QED
    BY <2>1, <2>2
<1>4. IsFiniteSet(values)
  BY FS_EmptySet DEF Types
<1>5. Referenced = ((structs \cup bufs) \cup {cbuf.block}) \cup values
  BY DEF Referenced
<1>6. DOMAIN mem \subseteq Referenced
  <2> SUFFICES ASSUME NEW b \in DOMAIN mem PROVE b \in Referenced
    OBVIOUS
  <2>1. CASE \E h \in Slots : b \in DocBlocks(docs[h])
    BY <1>5, <2>1 DEF DocBlocks, Live, Is
  <2>2. CASE b \in CallerBlocks \cup ValueBlocks
    BY <1>5, <2>2 DEF CallerBlocks, ValueBlocks
  <2>3. QED
    BY <2>1, <2>2 DEF Ledger
<1>7. IsFiniteSet(used)
  <2>1. IsFiniteSet({cbuf.block})
    BY FS_Singleton
  <2> HIDE DEF structs, bufs, values
  <2>2. IsFiniteSet(structs \cup bufs)
    BY <1>2, <1>3, FS_Union
  <2>3. IsFiniteSet((structs \cup bufs) \cup {cbuf.block})
    BY <2>1, <2>2, FS_Union
  <2>4. IsFiniteSet(Referenced)
    BY <1>4, <1>5, <2>3, FS_Union
  <2>5. used = Referenced
    BY <1>6
  <2>6. QED
    BY <2>4, <2>5
<1> DEFINE S == {n \in 1 .. Cardinality(used) + 1 : <<"bytes", n>> \notin used}
<1>8. Cardinality(used) \in Nat
  BY <1>7, FS_CardinalityType
<1>9. S \in SUBSET Nat /\ S # {}
  <2> HIDE DEF used
  <2>1. \E n \in 1 .. Cardinality(used) + 1 : <<"bytes", n>> \notin used
    BY <1>7, OneIsFree
  <2>2. QED
    BY <1>8, <2>1
<1>10. Min(S) \in S
  BY <1>9, MinFacts
<1>11. Fresh("bytes") = <<"bytes", Min(S)>>
  BY DEF Fresh
<1>12. cbuf.block \in used
  BY <1>5
<1>13. Min(S) \in Nat /\ <<"bytes", Min(S)>> \notin used
  <2> HIDE DEF used
  <2>1. QED
    BY <1>8, <1>10
<1>14. QED
  BY <1>11, <1>12, <1>13 DEF ByteBlocks

(* A slot that is not in use has no block of its own yet.                  *)
LEMMA FreshStruct ==
    ASSUME Types, Ledger, NEW h \in Slots, ~Live(h)
    PROVE  Struct(h) \notin DOMAIN mem
<1> SUFFICES ASSUME Struct(h) \in DOMAIN mem PROVE FALSE
  OBVIOUS
<1>1. CASE \E g \in Slots : Struct(h) \in DocBlocks(docs[g])
  <2>1. PICK g \in Slots : Struct(h) \in DocBlocks(docs[g])
    BY <1>1
  <2>2. g = h
    BY <2>1, KnownBlocks, Apart
  <2>3. QED
    BY <2>1, <2>2 DEF DocBlocks, Live, Is
<1>2. CASE Struct(h) \in CallerBlocks \cup ValueBlocks
  BY <1>2, Apart DEF CallerBlocks, ValueBlocks, Types
<1>3. QED
  BY <1>1, <1>2 DEF Ledger

(* bson_destroy frees what a bson_t owns.                                  *)
LEMMA FreesOwn ==
    ASSUME NEW h, NEW d, DocOk(d, h)
    PROVE  Frees(d) = DocBlocks(d)
BY Apart DEF Frees, DocBlocks, DocOk, BlockOf, Block, Inline, CallersBuf

-----------------------------------------------------------------------------
(* One bson_t becomes d.  Of the blocks of that bson_t and of the caller's *)
(* buffer some are gone, and some new ones are theirs.                     *)
Held(h) == DocBlocks(docs[h]) \cup CallerBlocks

LedgerPut(h, d, gone, new) ==
    /\ \A b : b \in DOMAIN mem' <=> (b \in DOMAIN mem /\ b \notin gone) \/ b \in new
    /\ gone \subseteq Held(h) /\ new \cap DOMAIN mem = {}
    /\ \A b : b \in DocBlocks(d) \cup CallerBlocks'
                 <=> (b \in Held(h) /\ b \notin gone) \/ b \in new
    /\ DocBlocks(d) \cap CallerBlocks' = {}

LEMMA LedgerStep ==
    ASSUME Types, Ledger, NEW h \in Slots, NEW d, NEW gone, NEW new,
           docs' = [docs EXCEPT ![h] = d], value' = value,
           LedgerPut(h, d, gone, new)
    PROVE  Ledger'
<1>1. /\ docs'[h] = d
      /\ \A g \in Slots : g # h => docs'[g] = docs[g]
  BY DEF Types
<1>2. ValueBlocks' = ValueBlocks
  BY DEF ValueBlocks
<1>3. \A g \in Slots : DocBlocks(docs[g]) \cap ValueBlocks = {}
  BY KnownBlocks, Apart DEF Types, ValueBlocks
<1>4. CallerBlocks \cap ValueBlocks = {}
  BY Apart DEF Types, ValueBlocks, CallerBlocks
<1>5. ASSUME NEW b
      PROVE  b \in DOMAIN mem' <=> \/ \E g \in Slots : b \in DocBlocks(docs'[g])
                                   \/ b \in CallerBlocks' \cup ValueBlocks'
  <2>1. b \in gone => /\ \A g \in Slots : g # h => b \notin DocBlocks(docs[g])
                      /\ b \notin ValueBlocks
    BY <1>3, <1>4 DEF LedgerPut, Held, Ledger
  <2>2. b \in DOMAIN mem <=> \/ \E g \in Slots : g # h /\ b \in DocBlocks(docs[g])
                             \/ b \in Held(h) \cup ValueBlocks
    BY DEF Ledger, Held
  <2>3. (\E g \in Slots : b \in DocBlocks(docs'[g]))
           <=> (\E g \in Slots : g # h /\ b \in DocBlocks(docs[g])) \/ b \in DocBlocks(d)
    BY <1>1
  <2>4. b \in DOMAIN mem' <=> (b \in DOMAIN mem /\ b \notin gone) \/ b \in new
    BY DEF LedgerPut
  <2>5. b \in DocBlocks(d) \cup CallerBlocks'
                 <=> (b \in Held(h) /\ b \notin gone) \/ b \in new
    BY DEF LedgerPut
  <2>6. QED
    BY <1>2, <2>1, <2>2, <2>3, <2>4, <2>5
<1>6. ASSUME NEW g \in Slots, g # h
      PROVE  DocBlocks(docs[g]) \cap (DocBlocks(d) \cup CallerBlocks') = {}
  <2> SUFFICES ASSUME NEW b \in DocBlocks(docs[g]), b \in DocBlocks(d) \cup CallerBlocks'
               PROVE  FALSE
    OBVIOUS
  <2>1. b \in DOMAIN mem
    BY DEF Ledger
  <2>2. b \in Held(h)
    BY <2>1 DEF LedgerPut
  <2>3. QED
    BY <2>2, <1>6 DEF Held, Ledger
<1>7. \A f, g \in Slots : f # g => DocBlocks(docs'[f]) \cap DocBlocks(docs'[g]) = {}
  <2> SUFFICES ASSUME NEW f \in Slots, NEW g \in Slots, f # g
               PROVE  DocBlocks(docs'[f]) \cap DocBlocks(docs'[g]) = {}
    OBVIOUS
  <2>1. CASE f # h /\ g # h
    BY <2>1, <1>1 DEF Ledger
  <2>2. CASE f = h
    BY <2>2, <1>1, <1>6
  <2>3. CASE g = h
    BY <2>3, <1>1, <1>6
  <2>4. QED
    BY <2>1, <2>2, <2>3
<1>8. \A g \in Slots : DocBlocks(docs'[g]) \cap CallerBlocks' = {}
  BY <1>1, <1>6 DEF LedgerPut
<1>9. QED
  BY <1>5, <1>7, <1>8 DEF Ledger

(* The bson_t that becomes d is not being read in place: the views stay    *)
(* right, and so does d if it is one.                                      *)
ViewsPut(h, d) ==
    /\ ~Live(h) \/ ~Borrowed(h)
    /\ cbuf'.block = cbuf.block \/ Lent \subseteq {h}
    /\ "none" \notin d.flags /\ "RDONLY" \in d.flags
          => Source(d) /\ ~Live(h) /\ cbuf' = cbuf

LEMMA ViewsStep ==
    ASSUME Types, ViewsRight, NEW h \in Slots, NEW d,
           docs' = [docs EXCEPT ![h] = d], ViewsPut(h, d)
    PROVE  ViewsRight'
<1>1. /\ docs'[h] = d
      /\ \A g \in Slots : g # h => docs'[g] = docs[g]
  BY DEF Types
<1>2. SUFFICES ASSUME NEW g \in Slots, "none" \notin docs'[g].flags,
                      "RDONLY" \in docs'[g].flags
               PROVE  \E s \in docs'[g].views \cap Slots :
                         /\ "none" \notin docs'[s].flags /\ "RDONLY" \notin docs'[s].flags
                         /\ \/ docs'[s].buf = docs'[g].buf
                            \/ docs'[s].buf = CallersBuf /\ docs'[g].buf = Block(cbuf'.block)
  BY DEF ViewsRight, Source, Live, Is, CallersBuf, Block, Null
<1>3. CASE g = h
  <2>1. Source(d) /\ ~Live(h) /\ cbuf' = cbuf
    BY <1>1, <1>2, <1>3 DEF ViewsPut
  <2>2. PICK s \in d.views \cap Slots :
           /\ Live(s) /\ ~Is(s, "RDONLY")
           /\ \/ docs[s].buf = d.buf
              \/ docs[s].buf = CallersBuf /\ d.buf = Block(cbuf.block)
    BY <2>1 DEF Source
  <2>3. docs'[s] = docs[s]
    BY <1>1, <2>1, <2>2
  <2>4. QED
    BY <1>1, <1>3, <2>1, <2>2, <2>3 DEF Live, Is
<1>4. CASE g # h
  <2>1. docs'[g] = docs[g] /\ Live(g) /\ Is(g, "RDONLY")
    BY <1>1, <1>2, <1>4 DEF Live, Is
  <2>2. PICK s \in docs[g].views \cap Slots :
           /\ Live(s) /\ ~Is(s, "RDONLY")
           /\ \/ docs[s].buf = docs[g].buf
              \/ docs[s].buf = CallersBuf /\ docs[g].buf = Block(cbuf.block)
    BY <1>2, <2>1 DEF ViewsRight, Source
  <2>3. s # h
    BY <2>1, <2>2 DEF ViewsPut, Borrowed
  <2>4. docs'[s] = docs[s]
    BY <1>1, <2>2, <2>3
  <2>5. docs[s].buf = CallersBuf => cbuf'.block = cbuf.block
    BY <2>2, <2>3 DEF ViewsPut, Lent
  <2>6. QED
    BY <2>1, <2>2, <2>4, <2>5 DEF Live, Is
<1>5. QED
  BY <1>3, <1>4

LentPut(h, d) ==
    "none" \notin d.flags /\ d.buf = CallersBuf => cbuf'.block # Null /\ Lent \subseteq {h}

LEMMA LentStep ==
    ASSUME Types, LentOnce, NEW h \in Slots, NEW d,
           docs' = [docs EXCEPT ![h] = d], LentPut(h, d), ViewsPut(h, d)
    PROVE  LentOnce'
<1>1. /\ docs'[h] = d
      /\ \A g \in Slots : g # h => docs'[g] = docs[g]
  BY DEF Types
<1>2. ASSUME NEW g \in Lent', g # h
      PROVE  g \in Lent /\ cbuf'.block = cbuf.block /\ cbuf.block # Null
  <2>1. g \in Lent
    BY <1>1, <1>2 DEF Lent, Live, Is
  <2>2. QED
    BY <1>2, <2>1 DEF ViewsPut, LentOnce
<1>3. h \in Lent' => cbuf'.block # Null /\ Lent \subseteq {h}
  BY <1>1 DEF LentPut, Lent, Live, Is
<1>4. SUFFICES ASSUME NEW f \in Lent', NEW g \in Lent'
               PROVE  f = g /\ cbuf'.block # Null
  BY DEF LentOnce
<1>5. QED
  BY <1>2, <1>3 DEF LentOnce

LEMMA PutStep ==
    ASSUME IInv, NEW h \in Slots, NEW d, NEW gone, NEW new,
           docs' = [docs EXCEPT ![h] = d], value' = value,
           d = NoDoc \/ DocOk(d, h), cbuf'.block \in {Null} \cup ByteBlocks,
           LedgerPut(h, d, gone, new), ViewsPut(h, d), LentPut(h, d)
    PROVE  IInv'
<1>1. Types /\ Ledger /\ LentOnce /\ ViewsRight
  BY DEF IInv
<1>2. /\ docs'[h] = d
      /\ \A g \in Slots : g # h => docs'[g] = docs[g]
      /\ docs' = [g \in Slots |-> docs'[g]]
  BY <1>1 DEF Types
<1>3. Types'
  <2>1. \A g \in Slots : docs'[g] = NoDoc \/ DocOk(docs'[g], g)
    BY <1>1, <1>2 DEF Types
  <2>2. value'.at = "owned" => /\ IsFiniteSet(value'.blocks)
                               /\ value'.blocks \subseteq {<<"value", i>> : i \in Nat}
    BY <1>1 DEF Types
  <2>3. QED
    BY <1>2, <2>1, <2>2 DEF Types, DocOk, NoDoc, Stack, Struct, Inline, Block, CallersBuf,
                            Null, ByteBlocks
<1>4. QED
  BY <1>1, <1>3, LedgerStep, ViewsStep, LentStep DEF IInv

-----------------------------------------------------------------------------
(* A bson_t with another value in one field.                               *)
WithFlags(d, x)    == [d EXCEPT !.flags = x]
WithStruct(d, x)   == [d EXCEPT !.struct = x]
WithBuf(d, x)      == [d EXCEPT !.buf = x]
WithAlloclen(d, x) == [d EXCEPT !.alloclen = x]
WithInline(d, x)   == [d EXCEPT !.inline = x]

LEMMA WithFlagsFacts ==
    ASSUME NEW d, IsDoc(d), NEW x
    PROVE  /\ IsDoc(WithFlags(d, x)) /\ WithFlags(d, x).flags = x
           /\ WithFlags(d, x).struct = d.struct /\ WithFlags(d, x).buf = d.buf
<1>1. WithFlags(d, x)
     = [flags |-> x, len |-> d.len, struct |-> d.struct, buf |-> d.buf,
        alloclen |-> d.alloclen, inline |-> d.inline, views |-> d.views]
  BY SMT DEF IsDoc, WithFlags
<1>2. QED
  BY <1>1 DEF IsDoc

LEMMA WithStructFacts ==
    ASSUME NEW d, IsDoc(d), NEW x
    PROVE  /\ IsDoc(WithStruct(d, x)) /\ WithStruct(d, x).flags = d.flags
           /\ WithStruct(d, x).struct = x /\ WithStruct(d, x).buf = d.buf
<1>1. WithStruct(d, x)
     = [flags |-> d.flags, len |-> d.len, struct |-> x, buf |-> d.buf,
        alloclen |-> d.alloclen, inline |-> d.inline, views |-> d.views]
  BY SMT DEF IsDoc, WithStruct
<1>2. QED
  BY <1>1 DEF IsDoc

LEMMA WithBufFacts ==
    ASSUME NEW d, IsDoc(d), NEW x
    PROVE  /\ IsDoc(WithBuf(d, x)) /\ WithBuf(d, x).flags = d.flags
           /\ WithBuf(d, x).struct = d.struct /\ WithBuf(d, x).buf = x
<1>1. WithBuf(d, x)
     = [flags |-> d.flags, len |-> d.len, struct |-> d.struct, buf |-> x,
        alloclen |-> d.alloclen, inline |-> d.inline, views |-> d.views]
  BY SMT DEF IsDoc, WithBuf
<1>2. QED
  BY <1>1 DEF IsDoc

LEMMA WithAlloclenFacts ==
    ASSUME NEW d, IsDoc(d), NEW x
    PROVE  /\ IsDoc(WithAlloclen(d, x)) /\ WithAlloclen(d, x).flags = d.flags
           /\ WithAlloclen(d, x).struct = d.struct /\ WithAlloclen(d, x).buf = d.buf
<1>1. WithAlloclen(d, x)
     = [flags |-> d.flags, len |-> d.len, struct |-> d.struct, buf |-> d.buf,
        alloclen |-> x, inline |-> d.inline, views |-> d.views]
  BY SMT DEF IsDoc, WithAlloclen
<1>2. QED
  BY <1>1 DEF IsDoc

LEMMA WithInlineFacts ==
    ASSUME NEW d, IsDoc(d), NEW x
    PROVE  /\ IsDoc(WithInline(d, x)) /\ WithInline(d, x).flags = d.flags
           /\ WithInline(d, x).struct = d.struct /\ WithInline(d, x).buf = d.buf
<1>1. WithInline(d, x)
     = [flags |-> d.flags, len |-> d.len, struct |-> d.struct, buf |-> d.buf,
        alloclen |-> d.alloclen, inline |-> x, views |-> d.views]
  BY SMT DEF IsDoc, WithInline
<1>2. QED
  BY <1>1 DEF IsDoc

(* What growth makes of a bson_t, and bson_steal of the one it takes.       *)
WithBuffer(d, b, size) == [d EXCEPT !.buf = b, !.alloclen = size]
WithSpill(d, b, size)  == [d EXCEPT !.flags = @ \ {"INLINE"}, !.buf = b, !.alloclen = size,
                                    !.inline = <<>>]
WithOwner(d, flags, struct) == [d EXCEPT !.flags = flags, !.struct = struct]

LEMMA WithBufferFacts ==
    ASSUME NEW d, IsDoc(d), NEW b, NEW size
    PROVE  LET e == WithBuffer(d, b, size)
           IN  IsDoc(e) /\ e.flags = d.flags /\ e.struct = d.struct /\ e.buf = b
<1>1. WithBuffer(d, b, size) = WithAlloclen(WithBuf(d, b), size)
  BY Zenon DEF WithBuffer, WithAlloclen, WithBuf
<1>2. QED
  BY <1>1, WithAlloclenFacts, WithBufFacts

LEMMA WithSpillFacts ==
    ASSUME NEW d, IsDoc(d), NEW b, NEW size
    PROVE  LET e == WithSpill(d, b, size)
           IN  /\ IsDoc(e) /\ e.flags = d.flags \ {"INLINE"}
               /\ e.struct = d.struct /\ e.buf = b
<1> DEFINE e1 == WithFlags(d, d.flags \ {"INLINE"})
           e2 == WithAlloclen(WithBuf(e1, b), size)
<1>1. WithSpill(d, b, size) = WithInline(e2, <<>>)
  BY Zenon DEF WithSpill, WithFlags, WithBuf, WithAlloclen, WithInline
<1>2. IsDoc(e1) /\ e1.flags = d.flags \ {"INLINE"} /\ e1.struct = d.struct
  BY WithFlagsFacts
<1>3. IsDoc(e2) /\ e2.flags = e1.flags /\ e2.struct = e1.struct /\ e2.buf = b
  BY <1>2, WithAlloclenFacts, WithBufFacts
<1> HIDE DEF e1, e2
<1>4. QED
  BY <1>1, <1>2, <1>3, WithInlineFacts

LEMMA WithOwnerFacts ==
    ASSUME NEW d, IsDoc(d), NEW flags, NEW struct
    PROVE  LET e == WithOwner(d, flags, struct)
           IN  IsDoc(e) /\ e.flags = flags /\ e.struct = struct /\ e.buf = d.buf
<1>1. WithOwner(d, flags, struct) = WithStruct(WithFlags(d, flags), struct)
  BY Zenon DEF WithOwner, WithStruct, WithFlags
<1>2. QED
  BY <1>1, WithStructFacts, WithFlagsFacts

-----------------------------------------------------------------------------
(* The bson_t that the functions of bson.c make, and their blocks.         *)
LEMMA InlineDocs ==
    ASSUME NEW h, NEW struct \in {Stack, Struct(h)}, NEW bytes
    PROVE  /\ DocOk(InlineDoc(h, struct, bytes), h)
           /\ DocBlocks(InlineDoc(h, struct, bytes)) = {struct} \ {Stack}
           /\ "RDONLY" \notin InlineDoc(h, struct, bytes).flags
           /\ InlineDoc(h, struct, bytes).buf = Inline(h)
<1> DEFINE d == InlineDoc(h, struct, bytes)
<1>1. /\ d.flags = {"INLINE"} \cup (IF struct = Stack THEN {"STATIC"} ELSE {})
      /\ d.struct = struct /\ d.buf = Inline(h)
      /\ d = [flags |-> d.flags, len |-> d.len, struct |-> d.struct, buf |-> d.buf,
              alloclen |-> d.alloclen, inline |-> d.inline, views |-> d.views]
  BY DEF InlineDoc
<1>2. d.flags \cap {"INLINE", "NO_FREE", "RDONLY"} = {"INLINE"} /\ "none" \notin d.flags
  BY <1>1
<1>3. d.struct = IF "STATIC" \in d.flags THEN Stack ELSE Struct(h)
  BY <1>1, Apart
<1>4. DocOk(d, h)
  BY <1>1, <1>2, <1>3 DEF DocOk, IsDoc
<1>5. DocBlocks(d) = {struct} \ {Stack}
  BY <1>1, <1>2 DEF DocBlocks, Inline
<1>6. QED
  BY <1>1, <1>2, <1>4, <1>5

LEMMA AllocDocs ==
    ASSUME NEW h, NEW flags \in {{}, {"STATIC"}}, NEW b \in ByteBlocks,
           NEW len, NEW alloclen
    PROVE  LET struct == IF flags = {} THEN Struct(h) ELSE Stack
               d == AllocDoc(flags, struct, Block(b), len, alloclen)
           IN  /\ DocOk(d, h) /\ DocBlocks(d) = {b} \cup ({struct} \ {Stack})
               /\ "RDONLY" \notin d.flags /\ d.buf = Block(b)
<1> DEFINE struct == IF flags = {} THEN Struct(h) ELSE Stack
           d == AllocDoc(flags, struct, Block(b), len, alloclen)
<1>1. /\ d.flags = flags /\ d.struct = struct /\ d.buf = Block(b)
      /\ d = [flags |-> d.flags, len |-> d.len, struct |-> d.struct, buf |-> d.buf,
              alloclen |-> d.alloclen, inline |-> d.inline, views |-> d.views]
  BY DEF AllocDoc
<1>2. d.flags \cap {"INLINE", "NO_FREE", "RDONLY"} = {} /\ "none" \notin d.flags
  BY <1>1
<1>3. d.struct = IF "STATIC" \in d.flags THEN Stack ELSE Struct(h)
  BY <1>1
<1>4. DocOk(d, h)
  BY <1>1, <1>2, <1>3 DEF DocOk, IsDoc
<1>5. DocBlocks(d) = {b} \cup ({struct} \ {Stack})
  BY <1>1, <1>2 DEF DocBlocks, Block
<1>6. QED
  BY <1>1, <1>2, <1>4, <1>5

(* A bson_t that was not in use becomes d, and gets the blocks `new' from  *)
(* malloc.                                                                 *)
LEMMA NewStep ==
    ASSUME IInv, NEW h \in Slots, ~Live(h), NEW d, NEW new,
           docs' = [docs EXCEPT ![h] = d], value' = value, cbuf' = cbuf,
           DocOk(d, h), "RDONLY" \notin d.flags, d.buf # CallersBuf,
           \A b : b \in DOMAIN mem' <=> b \in DOMAIN mem \/ b \in new,
           new \cap DOMAIN mem = {}, DocBlocks(d) = new
    PROVE  IInv'
<1>1. DocBlocks(docs[h]) = {}
  BY DEF DocBlocks, Live, Is
<1>2. CallerBlocks' = CallerBlocks /\ CallerBlocks \subseteq DOMAIN mem
  BY DEF CallerBlocks, IInv, Ledger, Null
<1>3. LedgerPut(h, d, {}, new)
  BY <1>1, <1>2 DEF LedgerPut, Held
<1>4. ViewsPut(h, d) /\ LentPut(h, d)
  BY DEF ViewsPut, LentPut
<1>5. QED
  BY <1>3, <1>4, PutStep DEF IInv, Types

LEMMA InitStep ==
    ASSUME IInv, NEW h \in Slots, bson_init(h) \/ bson_new(h)
    PROVE  IInv'
<1>1. CASE bson_init(h)
  <2> DEFINE d == InlineDoc(h, Stack, EmptyDocument)
  <2>1. ~Live(h) /\ docs' = [docs EXCEPT ![h] = d] /\ UNCHANGED <<mem, cbuf, value>>
    BY <1>1 DEF bson_init, Put
  <2>2. DocOk(d, h) /\ DocBlocks(d) = {} /\ "RDONLY" \notin d.flags /\ d.buf = Inline(h)
    BY InlineDocs
  <2>3. d.buf # CallersBuf
    BY <2>2 DEF Inline, CallersBuf
  <2> HIDE DEF d
  <2>4. QED
    BY <2>1, <2>2, <2>3, NewStep
<1>2. CASE bson_new(h)
  <2> DEFINE d == InlineDoc(h, Struct(h), EmptyDocument)
  <2>1. /\ ~Live(h) /\ docs' = [docs EXCEPT ![h] = d] /\ UNCHANGED <<cbuf, value>>
        /\ mem' = Malloc(mem, Struct(h), 0, <<>>)
    BY <1>2 DEF bson_new, Put
  <2>2. /\ DocOk(d, h) /\ DocBlocks(d) = {Struct(h)} \ {Stack}
        /\ "RDONLY" \notin d.flags /\ d.buf = Inline(h)
    BY InlineDocs
  <2>3. d.buf # CallersBuf /\ DocBlocks(d) = {Struct(h)}
    BY <2>2, Apart DEF Inline, CallersBuf
  <2>4. Struct(h) \notin DOMAIN mem
    BY <2>1, FreshStruct DEF IInv
  <2>5. DOMAIN mem' = DOMAIN mem \cup {Struct(h)}
    BY <2>1 DEF Malloc
  <2> HIDE DEF d
  <2>6. /\ \A b : b \in DOMAIN mem' <=> b \in DOMAIN mem \/ b \in DocBlocks(d)
        /\ DocBlocks(d) \cap DOMAIN mem = {}
    BY <2>3, <2>4, <2>5
  <2>7. QED
    BY <2>1, <2>2, <2>3, <2>6, NewStep
<1>3. QED
  BY <1>1, <1>2

LEMMA SizedNewStep ==
    ASSUME IInv, NEW h \in Slots, ~Live(h), NEW size, NEW bytes,
           SizedNew(h, size, bytes), UNCHANGED <<cbuf, value>>
    PROVE  IInv'
<1>1. Struct(h) \notin DOMAIN mem /\ Struct(h) # Stack
  BY FreshStruct, Apart DEF IInv
<1>2. CASE size <= InlineSize
  <2> DEFINE d == InlineDoc(h, Struct(h), bytes)
  <2>1. /\ docs' = [docs EXCEPT ![h] = d]
        /\ mem' = Malloc(mem, Struct(h), 0, <<>>)
    BY <1>2 DEF SizedNew, Put
  <2>2. /\ DocOk(d, h) /\ DocBlocks(d) = {Struct(h)} \ {Stack}
        /\ "RDONLY" \notin d.flags /\ d.buf = Inline(h)
    BY InlineDocs
  <2>3. d.buf # CallersBuf /\ DocBlocks(d) = {Struct(h)}
    BY <1>1, <2>2 DEF Inline, CallersBuf
  <2>4. DOMAIN mem' = DOMAIN mem \cup {Struct(h)}
    BY <2>1 DEF Malloc
  <2> HIDE DEF d
  <2>5. /\ \A b : b \in DOMAIN mem' <=> b \in DOMAIN mem \/ b \in DocBlocks(d)
        /\ DocBlocks(d) \cap DOMAIN mem = {}
    BY <1>1, <2>3, <2>4
  <2>6. QED
    BY <2>1, <2>2, <2>3, <2>5, NewStep
<1>3. CASE ~(size <= InlineSize)
  <2> DEFINE F == Fresh("bytes")
             d == AllocDoc({}, Struct(h), Block(F), Len(bytes), size)
  <2>1. /\ docs' = [docs EXCEPT ![h] = d]
        /\ mem' = Malloc(Malloc(mem, Struct(h), 0, <<>>), F, size, bytes)
    BY <1>3 DEF SizedNew, Put
  <2>2. F \in ByteBlocks /\ F \notin DOMAIN mem
    BY FreshBlock DEF IInv
  <2>3. DOMAIN mem' = (DOMAIN mem \cup {Struct(h)}) \cup {F}
    BY <2>1 DEF Malloc
  <2> HIDE DEF F
  <2>4. /\ DocOk(d, h) /\ DocBlocks(d) = {F} \cup ({Struct(h)} \ {Stack})
        /\ "RDONLY" \notin d.flags /\ d.buf = Block(F)
    BY <2>2, AllocDocs
  <2>5. d.buf # CallersBuf /\ DocBlocks(d) = {F, Struct(h)}
    BY <1>1, <2>4 DEF Block, CallersBuf
  <2> HIDE DEF d
  <2>6. /\ \A b : b \in DOMAIN mem' <=> b \in DOMAIN mem \/ b \in DocBlocks(d)
        /\ DocBlocks(d) \cap DOMAIN mem = {}
    BY <1>1, <2>2, <2>3, <2>5
  <2>7. QED
    BY <2>1, <2>4, <2>5, <2>6, NewStep
<1>4. QED
  BY <1>2, <1>3

-----------------------------------------------------------------------------
(* A change to the fields of a bson_t that are not about ownership.        *)
SameOwner(d, e) ==
    /\ IsDoc(e)
    /\ e.flags = d.flags /\ e.struct = d.struct /\ e.buf = d.buf

LEMMA SameOwnerFacts ==
    ASSUME NEW h, NEW d, NEW e, DocOk(d, h), SameOwner(d, e)
    PROVE  DocOk(e, h) /\ DocBlocks(e) = DocBlocks(d)
<1>1. e.flags = d.flags /\ e.struct = d.struct /\ e.buf = d.buf
  BY DEF SameOwner
<1>2. DocOk(e, h)
  BY <1>1 DEF DocOk, SameOwner
<1>3. DocBlocks(e) = DocBlocks(d)
  BY <1>1 DEF DocBlocks
<1>4. QED
  BY <1>2, <1>3

LEMMA FieldsPut ==
    ASSUME NEW h, NEW d, DocOk(d, h), NEW x
    PROVE  /\ SameOwner(d, [d EXCEPT !.len = x])
           /\ SameOwner(d, [d EXCEPT !.inline = x])
BY SMT DEF DocOk, SameOwner, IsDoc

(* A bson_t that can be written: it is d, or it is made from d, which has  *)
(* no blocks yet.                                                          *)
WritableAs(h, d) ==
    /\ DocOk(d, h) /\ "RDONLY" \notin d.flags
    /\ DocBlocks(docs[h]) = DocBlocks(d)
    /\ \/ Live(h) /\ ~Borrowed(h) /\ docs[h].buf = d.buf
       \/ ~Live(h) /\ "INLINE" \in d.flags

LEMMA WritableLent ==
    ASSUME IInv, NEW h \in Slots, NEW d, WritableAs(h, d), d.buf = CallersBuf
    PROVE  Lent \subseteq {h} /\ cbuf.block # Null
<1>1. "INLINE" \notin d.flags
  BY DEF WritableAs, DocOk, CallersBuf, Inline
<1>2. h \in Lent
  BY <1>1 DEF WritableAs, Lent
<1>3. QED
  BY <1>2 DEF IInv, LentOnce

LEMMA SameBlocksStep ==
    ASSUME IInv, NEW h \in Slots, NEW d, WritableAs(h, d), NEW e, SameOwner(d, e),
           docs' = [docs EXCEPT ![h] = e], UNCHANGED <<cbuf, value>>,
           DOMAIN mem' = DOMAIN mem
    PROVE  IInv'
<1>1. /\ DocOk(e, h) /\ DocBlocks(e) = DocBlocks(docs[h])
      /\ "RDONLY" \notin e.flags /\ e.buf = d.buf
  BY SameOwnerFacts DEF WritableAs, SameOwner
<1>2. CallerBlocks' = CallerBlocks
  BY DEF CallerBlocks, Null
<1>3. DocBlocks(docs[h]) \cap CallerBlocks = {}
  BY DEF IInv, Ledger
<1>4. LedgerPut(h, e, {}, {})
  BY <1>1, <1>2, <1>3 DEF LedgerPut, Held
<1>5. ViewsPut(h, e)
  BY <1>1 DEF ViewsPut, WritableAs
<1>6. LentPut(h, e)
  BY <1>1, WritableLent DEF LentPut
<1>7. QED
  BY <1>1, <1>4, <1>5, <1>6, PutStep DEF IInv, Types

LEMMA InPlaceStep ==
    ASSUME IInv, NEW h \in Slots, NEW d, WritableAs(h, d), NEW bytes,
           InPlace(h, d, bytes), value' = value
    PROVE  IInv'
<1>1. CASE "INLINE" \in d.flags
  <2>1. /\ docs' = [docs EXCEPT ![h] = [d EXCEPT !.inline = bytes]]
        /\ UNCHANGED <<mem, cbuf, value>>
    BY <1>1 DEF InPlace, Put
  <2>2. SameOwner(d, [d EXCEPT !.inline = bytes])
    BY FieldsPut DEF WritableAs
  <2>3. QED
    BY <2>1, <2>2, SameBlocksStep
<1>2. CASE "INLINE" \notin d.flags
  <2>1. /\ docs' = [docs EXCEPT ![h] = d] /\ UNCHANGED <<cbuf, value>>
        /\ mem' = [mem EXCEPT ![BlockOf(d.buf)].bytes = bytes]
    BY <1>2 DEF InPlace, Put
  <2>2. DOMAIN mem' = DOMAIN mem
    BY <2>1
  <2>3. SameOwner(d, d)
    BY DEF WritableAs, DocOk, SameOwner
  <2>4. QED
    BY <2>1, <2>2, <2>3, SameBlocksStep
<1>3. QED
  BY <1>1, <1>2

LEMMA SpilledStep ==
    ASSUME IInv, NEW h \in Slots, NEW d, WritableAs(h, d), "INLINE" \in d.flags,
           NEW size, NEW bytes, Spilled(h, d, size, bytes), value' = value
    PROVE  IInv'
<1> DEFINE F == Fresh("bytes")
           e == [d EXCEPT !.flags = @ \ {"INLINE"}, !.buf = Block(F),
                          !.alloclen = size, !.inline = <<>>]
<1>1. /\ docs' = [docs EXCEPT ![h] = e] /\ UNCHANGED <<cbuf, value>>
      /\ mem' = Malloc(mem, F, size, bytes)
  BY DEF Spilled, Put
<1>2. F \in ByteBlocks /\ F \notin DOMAIN mem /\ F # cbuf.block
  BY FreshBlock DEF IInv
<1>3. DOMAIN mem' = DOMAIN mem \cup {F}
  BY <1>1 DEF Malloc
<1> HIDE DEF F
<1>4. /\ IsDoc(e)
      /\ e.flags = d.flags \ {"INLINE"} /\ e.struct = d.struct /\ e.buf = Block(F)
  <2>1. e = WithSpill(d, Block(F), size)
    BY DEF WithSpill
  <2> HIDE DEF e
  <2>2. IsDoc(d)
    BY DEF WritableAs, DocOk
  <2>3. QED
    BY <2>1, <2>2, WithSpillFacts
<1>5. d.flags \cap {"INLINE", "NO_FREE", "RDONLY"} = {"INLINE"} /\ d.buf = Inline(h)
  BY DEF WritableAs, DocOk
<1> HIDE DEF e
<1>6. /\ e.flags \cap {"INLINE", "NO_FREE", "RDONLY"} = {} /\ "none" \notin e.flags
      /\ e.struct = IF "STATIC" \in e.flags THEN Stack ELSE Struct(h)
  BY <1>4, <1>5 DEF WritableAs, DocOk
<1>7. DocOk(e, h)
  BY <1>2, <1>4, <1>6 DEF DocOk
<1>8. DocBlocks(e) = DocBlocks(docs[h]) \cup {F}
  BY <1>4, <1>5, <1>6 DEF DocBlocks, WritableAs, Block, Inline, DocOk
<1>9. LedgerPut(h, e, {}, {F})
  <2>1. CallerBlocks' = CallerBlocks /\ F \notin CallerBlocks
    BY <1>1, <1>2 DEF CallerBlocks, Null
  <2>2. DocBlocks(docs[h]) \cap CallerBlocks = {}
    BY DEF IInv, Ledger
  <2>3. QED
    BY <1>2, <1>3, <1>8, <2>1, <2>2 DEF LedgerPut, Held
<1>10. ViewsPut(h, e) /\ LentPut(h, e)
  BY <1>1, <1>4, <1>6 DEF ViewsPut, LentPut, WritableAs, Block, CallersBuf
<1>11. QED
  BY <1>1, <1>7, <1>9, <1>10, PutStep DEF IInv, Types

(* realloc moved the bytes: the block they were in is gone.                *)
LEMMA MovedStep ==
    ASSUME IInv, NEW h \in Slots, NEW d, WritableAs(h, d), "INLINE" \notin d.flags,
           NEW size, NEW bytes, Moved(h, d, size, bytes), value' = value
    PROVE  IInv'
<1> DEFINE F == Fresh("bytes")
           e == [d EXCEPT !.buf = Block(F), !.alloclen = size]
<1>1. mem' = Malloc(Free(mem, {BlockOf(d.buf)}), F, size, bytes)
  BY DEF Moved
<1>2. F \in ByteBlocks /\ F \notin DOMAIN mem /\ F # cbuf.block
  BY FreshBlock DEF IInv
<1>3. DOMAIN mem' = (DOMAIN mem \ {BlockOf(d.buf)}) \cup {F}
  BY <1>1 DEF Malloc, Free
<1>4. /\ Live(h) /\ ~Borrowed(h) /\ docs[h].buf = d.buf /\ DocOk(d, h)
      /\ DocBlocks(docs[h]) = DocBlocks(d)
  BY DEF WritableAs
<1>5. DocBlocks(d) \cap CallerBlocks = {} /\ DocBlocks(d) \subseteq DOMAIN mem
  BY <1>4 DEF IInv, Ledger
<1>6. CASE d.buf = CallersBuf
  <2>1. /\ docs' = [docs EXCEPT ![h] = d] /\ cbuf' = [block |-> F, len |-> size]
    BY <1>6 DEF Moved, Put
  <2>2. BlockOf(d.buf) = cbuf.block
    BY <1>6 DEF BlockOf, CallersBuf
  <2> HIDE DEF F
  <2>3. F # Null
    BY <1>2, Apart
  <2>4. Lent \subseteq {h} /\ cbuf.block # Null
    BY <1>6, WritableLent
  <2>5. CallerBlocks' = {F} /\ CallerBlocks = {cbuf.block}
    BY <2>1, <2>3, <2>4 DEF CallerBlocks, Null
  <2>6. LedgerPut(h, d, {cbuf.block}, {F})
    <3>1. cbuf.block \notin DocBlocks(d) /\ F \notin DocBlocks(d)
      BY <1>2, <1>5, <2>5
    <3>2. QED
      BY <1>2, <1>3, <1>4, <1>5, <2>2, <2>5, <3>1 DEF LedgerPut, Held
  <2>7. ViewsPut(h, d) /\ LentPut(h, d)
    BY <1>4, <2>1, <2>3, <2>4 DEF ViewsPut, LentPut, WritableAs, Null
  <2>8. cbuf'.block \in ByteBlocks
    BY <1>2, <2>1
  <2>9. QED
    BY <1>4, <2>1, <2>6, <2>7, <2>8, PutStep
<1>7. CASE d.buf # CallersBuf
  <2>1. docs' = [docs EXCEPT ![h] = e] /\ UNCHANGED <<cbuf, value>>
    BY <1>7 DEF Moved, Put
  <2> HIDE DEF F
  <2>2. /\ d.flags \cap {"INLINE", "NO_FREE", "RDONLY"} = {}
        /\ d.buf.at = "block" /\ d.buf.of \in ByteBlocks
    BY <1>4, <1>7 DEF WritableAs, DocOk, Block
  <2>3. /\ IsDoc(e)
        /\ e.flags = d.flags /\ e.struct = d.struct /\ e.buf = Block(F)
    <3>1. e = WithBuffer(d, Block(F), size)
      BY DEF WithBuffer
    <3> HIDE DEF e
    <3>2. IsDoc(d)
      BY <1>4 DEF DocOk
    <3>3. QED
      BY <3>1, <3>2, WithBufferFacts
  <2> HIDE DEF e
  <2>4. DocOk(e, h)
    BY <1>2, <1>4, <2>2, <2>3 DEF DocOk
  <2>5. BlockOf(d.buf) = d.buf.of
    BY <2>2 DEF BlockOf
  <2>6. /\ DocBlocks(d) = {d.buf.of} \cup ({d.struct} \ {Stack})
        /\ DocBlocks(e) = {F} \cup ({d.struct} \ {Stack})
        /\ d.struct # d.buf.of
    <3>1. d.struct \in {Stack, Struct(h)}
      BY <1>4 DEF DocOk
    <3>2. d.struct # d.buf.of
      BY <2>2, <3>1, Apart
    <3>3. QED
      BY <1>4, <2>2, <2>3, <3>2 DEF DocBlocks, Block, DocOk
  <2>7. CallerBlocks' = CallerBlocks /\ F \notin CallerBlocks
    BY <1>2, <2>1 DEF CallerBlocks, Null
  <2>8. LedgerPut(h, e, {d.buf.of}, {F})
    <3>1. d.buf.of \notin CallerBlocks /\ F \notin DocBlocks(d)
      BY <1>2, <1>5, <2>6
    <3>2. QED
      BY <1>2, <1>3, <1>4, <1>5, <2>5, <2>6, <2>7, <3>1 DEF LedgerPut, Held
  <2>9. ViewsPut(h, e) /\ LentPut(h, e)
    BY <1>4, <2>1, <2>2, <2>3 DEF ViewsPut, LentPut, Block, CallersBuf
  <2>10. QED
    BY <2>1, <2>4, <2>8, <2>9, PutStep DEF IInv, Types
<1>8. QED
  BY <1>6, <1>7

LEMMA AppendStep ==
    ASSUME IInv, NEW h \in Slots, NEW d, WritableAs(h, d), NEW data, NEW call,
           _bson_append(h, d, data, call), value' = value
    PROVE  IInv'
<1>1. PICK bytes, after :
         /\ after = [d EXCEPT !.len = Len(bytes)]
         /\ \/ InPlace(h, after, bytes)
            \/ \E size : /\ "INLINE" \in d.flags
                         /\ Spilled(h, after, size, bytes)
            \/ \E size : /\ "INLINE" \notin d.flags
                         /\ Moved(h, after, size, bytes)
  BY DEF _bson_append
<1>2. SameOwner(d, after)
  BY <1>1, FieldsPut DEF WritableAs
<1>3. WritableAs(h, after) /\ after.flags = d.flags
  BY <1>2, SameOwnerFacts DEF WritableAs, SameOwner
<1>4. QED
  BY <1>1, <1>3, InPlaceStep, SpilledStep, MovedStep

-----------------------------------------------------------------------------
(* The calls that initialise a bson_t.                                     *)
LEMMA CopyToStep ==
    ASSUME IInv, NEW g \in Slots, NEW h \in Slots, bson_copy_to(g, h)
    PROVE  IInv'
<1>1. ~Live(h) /\ CopiedTo(g, h) /\ UNCHANGED <<cbuf, value>>
  BY DEF bson_copy_to
<1>2. CASE Is(g, "INLINE")
  <2> DEFINE d == InlineDoc(h, Stack, Data(g))
  <2>1. docs' = [docs EXCEPT ![h] = d] /\ mem' = mem
    BY <1>1, <1>2 DEF CopiedTo, Put
  <2>2. DocOk(d, h) /\ DocBlocks(d) = {} /\ "RDONLY" \notin d.flags /\ d.buf = Inline(h)
    BY InlineDocs
  <2>3. d.buf # CallersBuf
    BY <2>2 DEF Inline, CallersBuf
  <2> HIDE DEF d
  <2>4. QED
    BY <1>1, <2>1, <2>2, <2>3, NewStep
<1>3. CASE ~Is(g, "INLINE")
  <2> DEFINE F == Fresh("bytes")
             size == PowerOfTwo(docs[g].len)
             d == AllocDoc({"STATIC"}, Stack, Block(F), docs[g].len, size)
  <2>1. docs' = [docs EXCEPT ![h] = d] /\ mem' = Malloc(mem, F, size, Data(g))
    BY <1>1, <1>3 DEF CopiedTo, Put
  <2>2. F \in ByteBlocks /\ F \notin DOMAIN mem
    BY FreshBlock DEF IInv
  <2>3. DOMAIN mem' = DOMAIN mem \cup {F}
    BY <2>1 DEF Malloc
  <2> HIDE DEF F, size
  <2>4. /\ DocOk(d, h) /\ DocBlocks(d) = {F}
        /\ "RDONLY" \notin d.flags /\ d.buf = Block(F)
    BY <2>2, AllocDocs
  <2>5. d.buf # CallersBuf
    BY <2>4 DEF Block, CallersBuf
  <2> HIDE DEF d
  <2>6. /\ \A b : b \in DOMAIN mem' <=> b \in DOMAIN mem \/ b \in DocBlocks(d)
        /\ DocBlocks(d) \cap DOMAIN mem = {}
    BY <2>2, <2>3, <2>4
  <2>7. QED
    BY <1>1, <2>1, <2>4, <2>5, <2>6, NewStep
<1>4. QED
  BY <1>2, <1>3

LEMMA CopyStep ==
    ASSUME IInv, NEW h \in Slots,
           \/ \E size \in Reserves : bson_sized_new(h, size)
           \/ \E g \in Slots : bson_copy(g, h)
    PROVE  IInv'
BY SizedNewStep DEF bson_sized_new, bson_copy

(* bson_init_static on a view reads what that view reads.                  *)
LEMMA InitStaticStep ==
    ASSUME IInv, NEW g \in Slots, NEW h \in Slots, bson_init_static(g, h)
    PROVE  IInv'
<1> DEFINE at == IF docs[g].buf = CallersBuf THEN Block(cbuf.block) ELSE docs[g].buf
           d0 == AllocDoc({"STATIC", "RDONLY"}, Stack, at, docs[g].len, docs[g].len)
           V  == {g} \cup docs[g].views
           d  == [d0 EXCEPT !.views = V]
<1>1. /\ Live(g) /\ ~Live(h) /\ docs' = [docs EXCEPT ![h] = d]
      /\ UNCHANGED <<mem, cbuf, value>>
  BY DEF bson_init_static, Put
<1>2. DocOk(docs[g], g)
  BY <1>1 DEF IInv, Types, Live, Is, NoDoc
<1>3. docs[g].buf = CallersBuf => cbuf.block \in ByteBlocks
  BY <1>1 DEF IInv, LentOnce, Lent, Types
<1>4. at.at = "inline" \/ at \in {Block(b) : b \in ByteBlocks}
  BY <1>2, <1>3 DEF DocOk, Inline, CallersBuf, Block
<1>5. at # CallersBuf
  BY <1>4 DEF CallersBuf, Block
<1>6. \E s \in V \cap Slots :
        /\ Live(s) /\ ~Is(s, "RDONLY")
        /\ \/ docs[s].buf = at
           \/ docs[s].buf = CallersBuf /\ at = Block(cbuf.block)
  <2>1. CASE ~Is(g, "RDONLY")
    BY <1>1, <2>1
  <2>2. CASE Is(g, "RDONLY")
    <3>1. docs[g].buf # CallersBuf
      BY <1>2, <2>2 DEF DocOk, Is, CallersBuf, Block
    <3>2. docs[g].buf = at
      BY <2>2, <3>1
    <3>3. Source(docs[g])
      BY <1>1, <2>2, <3>2 DEF IInv, ViewsRight
    <3>4. QED
      BY <3>2, <3>3 DEF Source
  <2>3. QED
    BY <2>1, <2>2
<1> HIDE DEF at, V
<1>7. /\ d.flags = {"STATIC", "RDONLY"} /\ d.struct = Stack /\ d.buf = at
      /\ d.views = V /\ IsDoc(d)
  BY DEF AllocDoc, IsDoc
<1> HIDE DEF d
<1>8. DocOk(d, h) /\ DocBlocks(d) = {}
  BY <1>4, <1>7 DEF DocOk, DocBlocks
<1>9. DocBlocks(docs[h]) = {} /\ CallerBlocks' = CallerBlocks
  BY <1>1 DEF DocBlocks, Live, Is, CallerBlocks, Null
<1>10. LedgerPut(h, d, {}, {})
  BY <1>1, <1>8, <1>9 DEF LedgerPut, Held
<1>11. ViewsPut(h, d)
  BY <1>1, <1>6, <1>7 DEF ViewsPut, Source
<1>12. LentPut(h, d)
  BY <1>5, <1>7 DEF LentPut
<1>13. QED
  BY <1>1, <1>8, <1>10, <1>11, <1>12, PutStep DEF IInv, Types

LEMMA NewFromBufferStep ==
    ASSUME IInv, NEW h \in Slots, bson_new_from_buffer(h)
    PROVE  IInv'
<1>1. ~Live(h) /\ Lent = {} /\ value' = value
  BY DEF bson_new_from_buffer
<1>2. Struct(h) \notin DOMAIN mem /\ Struct(h) # Stack /\ Struct(h) \notin ByteBlocks
  BY <1>1, FreshStruct, Apart DEF IInv
<1>3. ASSUME NEW len
      PROVE  LET d == AllocDoc({"NO_FREE"}, Struct(h), CallersBuf, len, 0)
             IN  DocOk(d, h) /\ DocBlocks(d) = {Struct(h)} /\ "RDONLY" \notin d.flags
  <2> DEFINE d == AllocDoc({"NO_FREE"}, Struct(h), CallersBuf, len, 0)
  <2>1. /\ d.flags = {"NO_FREE"} /\ d.struct = Struct(h) /\ d.buf = CallersBuf /\ IsDoc(d)
    BY DEF AllocDoc, IsDoc
  <2> HIDE DEF d
  <2>2. DocOk(d, h) /\ DocBlocks(d) = {Struct(h)} /\ "RDONLY" \notin d.flags
    BY <1>2, <2>1 DEF DocOk, DocBlocks, CallersBuf
  <2>3. QED
    BY <2>2 DEF d
<1>4. DocBlocks(docs[h]) = {} /\ CallerBlocks \subseteq DOMAIN mem
  BY <1>1 DEF DocBlocks, Live, Is, IInv, Ledger
<1>5. CASE cbuf.block = Null
  <2> DEFINE F == Fresh("bytes")
             d == AllocDoc({"NO_FREE"}, Struct(h), CallersBuf, 5, 0)
  <2>1. /\ mem' = Malloc(Malloc(mem, Struct(h), 0, <<>>), F, 5, EmptyDocument)
        /\ cbuf' = [block |-> F, len |-> 5] /\ docs' = [docs EXCEPT ![h] = d]
    BY <1>5 DEF bson_new_from_buffer, Put
  <2>2. F \in ByteBlocks /\ F \notin DOMAIN mem
    BY FreshBlock DEF IInv
  <2>3. DOMAIN mem' = DOMAIN mem \cup {Struct(h), F}
    BY <2>1 DEF Malloc
  <2> HIDE DEF F
  <2>4. DocOk(d, h) /\ DocBlocks(d) = {Struct(h)} /\ "RDONLY" \notin d.flags
    BY <1>3
  <2> HIDE DEF d
  <2>5. cbuf'.block = F /\ F # Null
    BY <2>1, <2>2, Apart
  <2>6. CallerBlocks = {} /\ CallerBlocks' = {F}
    BY <1>5, <2>5 DEF CallerBlocks, Null
  <2>7. LedgerPut(h, d, {}, {Struct(h), F})
    BY <1>2, <1>4, <2>2, <2>3, <2>4, <2>6 DEF LedgerPut, Held
  <2>8. ViewsPut(h, d) /\ LentPut(h, d)
    BY <1>1, <2>4, <2>5 DEF ViewsPut, LentPut, Null
  <2>9. QED
    BY <1>1, <2>1, <2>2, <2>4, <2>5, <2>7, <2>8, PutStep
<1>6. CASE cbuf.block # Null
  <2> DEFINE d == AllocDoc({"NO_FREE"}, Struct(h), CallersBuf,
                           Length(mem[cbuf.block].bytes, 0), 0)
  <2>1. /\ mem' = Malloc(mem, Struct(h), 0, <<>>) /\ cbuf' = cbuf
        /\ docs' = [docs EXCEPT ![h] = d]
    BY <1>6 DEF bson_new_from_buffer, Put
  <2>2. DOMAIN mem' = DOMAIN mem \cup {Struct(h)}
    BY <2>1 DEF Malloc
  <2>3. DocOk(d, h) /\ DocBlocks(d) = {Struct(h)} /\ "RDONLY" \notin d.flags
    BY <1>3
  <2> HIDE DEF d
  <2>4. CallerBlocks' = CallerBlocks /\ Struct(h) \notin CallerBlocks
    BY <1>2, <1>4, <2>1 DEF CallerBlocks, Null
  <2>5. LedgerPut(h, d, {}, {Struct(h)})
    BY <1>2, <1>4, <2>2, <2>3, <2>4 DEF LedgerPut, Held
  <2>6. ViewsPut(h, d) /\ LentPut(h, d)
    BY <1>1, <1>6, <2>1, <2>3 DEF ViewsPut, LentPut, Null
  <2>7. QED
    BY <1>1, <2>1, <2>3, <2>5, <2>6, PutStep DEF IInv, Types
<1>7. QED
  BY <1>5, <1>6

-----------------------------------------------------------------------------
(* The calls that change a bson_t.                                         *)
LEMMA WritableFacts ==
    ASSUME IInv, NEW h \in Slots, Writable(h)
    PROVE  WritableAs(h, docs[h])
<1>1. Live(h) /\ ~Is(h, "RDONLY") /\ ~Borrowed(h)
  BY DEF Writable
<1>2. DocOk(docs[h], h)
  BY <1>1 DEF IInv, Types, Live, Is, NoDoc
<1>3. QED
  BY <1>1, <1>2 DEF WritableAs, Is

LEMMA ReinitStep ==
    ASSUME IInv, NEW h \in Slots, bson_reinit(h)
    PROVE  IInv'
<1>1. Writable(h) /\ InPlace(h, [docs[h] EXCEPT !.len = 5], EmptyDocument) /\ value' = value
  BY DEF bson_reinit
<1>2. WritableAs(h, docs[h])
  BY <1>1, WritableFacts
<1> DEFINE e == [docs[h] EXCEPT !.len = 5]
<1>3. SameOwner(docs[h], e)
  BY <1>2, FieldsPut DEF WritableAs
<1>4. InPlace(h, e, EmptyDocument)
  BY <1>1
<1> HIDE DEF e
<1>5. WritableAs(h, e)
  BY <1>2, <1>3, SameOwnerFacts DEF WritableAs, SameOwner
<1>6. QED
  BY <1>1, <1>4, <1>5, InPlaceStep

LEMMA UnchangedStep ==
    ASSUME IInv, UNCHANGED <<docs, mem, cbuf, value>>
    PROVE  IInv'
<1>1. Types'
  BY DEF IInv, Types, DocOk, IsDoc, NoDoc, Struct, Stack, Block, Inline, CallersBuf, Null,
         ByteBlocks
<1>2. Ledger'
  BY ZenonT(40) DEF IInv, Ledger, DocBlocks, CallerBlocks, ValueBlocks, Stack, Null
<1>3. LentOnce'
  BY DEF IInv, LentOnce, Lent, Live, Is, CallersBuf, Null
<1>4. ViewsRight'
  BY DEF IInv, ViewsRight, Source, Live, Is, CallersBuf, Null, Block
<1>5. QED
  BY <1>1, <1>2, <1>3, <1>4 DEF IInv

LEMMA ChangeStep ==
    ASSUME IInv, Change
    PROVE  IInv'
<1>1. PICK h \in Slots :
        \/ bson_reinit(h)
        \/ \E key, v : AppendValue(h, key, v)
        \/ \E g \in Slots : bson_concat(h, g)
        \/ \E g \in Slots : AppendIter(h, g)
        \/ \E g \in Slots, key \in Keys : bson_copy_to_excluding_noinit(g, h, {key})
  BY DEF Change
<1>2. CASE bson_reinit(h)
  BY <1>2, ReinitStep
<1>3. CASE \E key, v : AppendValue(h, key, v)
  <2>1. PICK call : /\ Writable(h) /\ _bson_append(h, docs[h], Data(h), call)
                    /\ value' = value
    BY <1>3 DEF AppendValue, Appendable
  <2>2. QED
    BY <2>1, WritableFacts, AppendStep
<1>4. CASE \E g \in Slots : bson_concat(h, g)
  <2>1. PICK g \in Slots : bson_concat(h, g)
    BY <1>4
  <2>2. Writable(h) /\ value' = value
    BY <2>1 DEF bson_concat
  <2>3. CASE UNCHANGED <<docs, mem, cbuf>>
    BY <2>2, <2>3, UnchangedStep
  <2>4. CASE \E call : _bson_append(h, docs[h], Data(h), call)
    BY <2>2, <2>4, WritableFacts, AppendStep
  <2>5. QED
    BY <2>1, <2>3, <2>4 DEF bson_concat
<1>5. CASE \E g \in Slots : AppendIter(h, g)
  <2>1. PICK call : /\ Writable(h) /\ _bson_append(h, docs[h], Data(h), call)
                    /\ value' = value
    BY <1>5 DEF AppendIter
  <2>2. QED
    BY <2>1, WritableFacts, AppendStep
<1>6. CASE \E g \in Slots, key \in Keys : bson_copy_to_excluding_noinit(g, h, {key})
  <2>1. PICK call : /\ Writable(h) /\ _bson_append(h, docs[h], Data(h), call)
                    /\ value' = value
    BY <1>6 DEF bson_copy_to_excluding_noinit
  <2>2. QED
    BY <2>1, WritableFacts, AppendStep
<1>7. QED
  BY <1>1, <1>2, <1>3, <1>4, <1>5, <1>6

LEMMA ExcludingStep ==
    ASSUME IInv, NEW g \in Slots, NEW h \in Slots, NEW excluded,
           bson_copy_to_excluding(g, h, excluded)
    PROVE  IInv'
<1> DEFINE d == InlineDoc(h, Stack, EmptyDocument)
<1>1. PICK call : ~Live(h) /\ _bson_append(h, d, EmptyDocument, call) /\ value' = value
  BY DEF bson_copy_to_excluding
<1>2. DocOk(d, h) /\ DocBlocks(d) = {} /\ "RDONLY" \notin d.flags /\ d.buf = Inline(h)
  BY InlineDocs
<1>3. "INLINE" \in d.flags
  BY DEF InlineDoc
<1> HIDE DEF d
<1>4. DocBlocks(docs[h]) = {}
  BY <1>1 DEF DocBlocks, Live, Is
<1>5. WritableAs(h, d)
  BY <1>1, <1>2, <1>3, <1>4 DEF WritableAs
<1>6. QED
  BY <1>1, <1>5, AppendStep

LEMMA CreateStep ==
    ASSUME IInv, Create
    PROVE  IInv'
BY InitStep, NewFromBufferStep, CopyStep, CopyToStep, InitStaticStep, ExcludingStep
   DEF Create

-----------------------------------------------------------------------------
(* The calls that end the use of a bson_t, or give its bytes away.         *)
LEMMA DestroyStep ==
    ASSUME IInv, NEW h \in Slots, bson_destroy(h)
    PROVE  IInv'
<1> DEFINE s == docs[h]
<1>1. /\ Live(h) /\ ~Borrowed(h) /\ docs' = [docs EXCEPT ![h] = NoDoc]
      /\ mem' = Free(mem, Frees(s)) /\ UNCHANGED <<cbuf, value>>
  BY DEF bson_destroy, Put
<1>2. DocOk(s, h)
  BY <1>1 DEF IInv, Types, Live, Is, NoDoc
<1>3. DOMAIN mem' = DOMAIN mem \ DocBlocks(s)
  BY <1>1, <1>2, FreesOwn DEF Free
<1>4. DocBlocks(NoDoc) = {} /\ CallerBlocks' = CallerBlocks
  BY <1>1 DEF DocBlocks, NoDoc, CallerBlocks, Null
<1>5. DocBlocks(s) \cap CallerBlocks = {}
  BY DEF IInv, Ledger
<1>6. LedgerPut(h, NoDoc, DocBlocks(s), {})
  BY <1>3, <1>4, <1>5 DEF LedgerPut, Held
<1>7. ViewsPut(h, NoDoc) /\ LentPut(h, NoDoc)
  BY <1>1 DEF ViewsPut, LentPut, NoDoc
<1>8. QED
  BY <1>1, <1>6, <1>7, PutStep DEF IInv, Types

LEMMA DestroyWithStealStep ==
    ASSUME IInv, NEW h \in Slots, bson_destroy_with_steal(h)
    PROVE  IInv'
<1> DEFINE s == docs[h]
           F == Fresh("bytes")
<1>1. /\ Live(h) /\ ~Borrowed(h) /\ "RDONLY" \notin s.flags
      /\ docs' = [docs EXCEPT ![h] = NoDoc] /\ value' = value
      /\ cbuf.block = Null \/ h \in Lent
  BY DEF bson_destroy_with_steal, Put, Is
<1>2. DocOk(s, h)
  BY <1>1 DEF IInv, Types, Live, Is, NoDoc
<1>3. Lent \subseteq {h} /\ (h \notin Lent => Lent = {} /\ cbuf.block = Null)
  BY <1>1 DEF IInv, LentOnce
<1>4. Frees(s) = DocBlocks(s) /\ DocBlocks(NoDoc) = {}
  BY <1>2, FreesOwn DEF DocBlocks, NoDoc
<1>5. DocBlocks(s) \cap CallerBlocks = {} /\ DocBlocks(s) \subseteq DOMAIN mem
  BY DEF IInv, Ledger
<1>6. ViewsPut(h, NoDoc) /\ LentPut(h, NoDoc)
  BY <1>1, <1>3 DEF ViewsPut, LentPut, NoDoc
<1>7. CASE "INLINE" \in s.flags
  <2>1. /\ mem' = Malloc(Free(mem, DocBlocks(s)), F, s.len, Data(h))
        /\ cbuf' = [block |-> F, len |-> s.len]
    BY <1>4, <1>7 DEF bson_destroy_with_steal, Is
  <2>2. F \in ByteBlocks /\ F \notin DOMAIN mem
    BY FreshBlock DEF IInv
  <2> HIDE DEF F
  <2>3. DOMAIN mem' = (DOMAIN mem \ DocBlocks(s)) \cup {F}
    BY <2>1 DEF Malloc, Free
  <2>4. h \notin Lent
    BY <1>2, <1>7 DEF DocOk, Lent, Inline, CallersBuf
  <2>5. CallerBlocks = {} /\ CallerBlocks' = {F}
    BY <1>3, <2>1, <2>2, <2>4, Apart DEF CallerBlocks, Null
  <2>6. LedgerPut(h, NoDoc, DocBlocks(s), {F})
    BY <1>4, <2>2, <2>3, <2>5 DEF LedgerPut, Held
  <2>7. cbuf'.block \in ByteBlocks
    BY <2>1, <2>2
  <2>8. QED
    BY <1>1, <1>6, <2>6, <2>7, PutStep
<1>8. CASE "INLINE" \notin s.flags /\ s.buf = CallersBuf
  <2>1. mem' = Free(mem, GivenAway(s)) /\ cbuf' = [block |-> BlockOf(s.buf), len |-> s.len]
    BY <1>8 DEF bson_destroy_with_steal, Is
  <2>2. GivenAway(s) = DocBlocks(s) /\ BlockOf(s.buf) = cbuf.block
    BY <1>4, <1>8 DEF GivenAway, BlockOf, CallersBuf
  <2>3. DOMAIN mem' = DOMAIN mem \ DocBlocks(s) /\ cbuf'.block = cbuf.block
    BY <2>1, <2>2 DEF Free
  <2>4. CallerBlocks' = CallerBlocks
    BY <2>3 DEF CallerBlocks, Null
  <2>5. LedgerPut(h, NoDoc, DocBlocks(s), {})
    BY <1>4, <1>5, <2>3, <2>4 DEF LedgerPut, Held
  <2>6. cbuf'.block \in {Null} \cup ByteBlocks
    BY <2>3 DEF IInv, Types
  <2>7. QED
    BY <1>1, <1>6, <2>5, <2>6, PutStep
<1>9. CASE "INLINE" \notin s.flags /\ s.buf # CallersBuf
  <2>1. mem' = Free(mem, GivenAway(s)) /\ cbuf' = [block |-> BlockOf(s.buf), len |-> s.len]
    BY <1>9 DEF bson_destroy_with_steal, Is
  <2>2. s.buf.at = "block" /\ s.buf.of \in ByteBlocks
    BY <1>1, <1>2, <1>9 DEF DocOk, Block
  <2>3. GivenAway(s) = DocBlocks(s) \ {s.buf.of} /\ BlockOf(s.buf) = s.buf.of
    BY <1>4, <2>2 DEF GivenAway, BlockOf
  <2>4. DOMAIN mem' = DOMAIN mem \ (DocBlocks(s) \ {s.buf.of}) /\ cbuf'.block = s.buf.of
    BY <2>1, <2>3 DEF Free
  <2>5. h \notin Lent
    BY <1>9 DEF Lent
  <2>6. CallerBlocks = {} /\ CallerBlocks' = {s.buf.of}
    BY <1>3, <2>2, <2>4, <2>5, Apart DEF CallerBlocks, Null
  <2>7. s.buf.of \in DocBlocks(s)
    BY <1>1, <2>2 DEF DocBlocks, Live, Is
  <2>8. LedgerPut(h, NoDoc, DocBlocks(s) \ {s.buf.of}, {})
    BY <1>4, <2>4, <2>6, <2>7 DEF LedgerPut, Held
  <2>9. cbuf'.block \in ByteBlocks
    BY <2>2, <2>4
  <2>10. QED
    BY <1>1, <1>6, <2>8, <2>9, PutStep
<1>10. QED
  BY <1>7, <1>8, <1>9

(* The calls that leave every bson_t as it is.                             *)
LEMMA DocsKeptStep ==
    ASSUME IInv, docs' = docs, cbuf'.block = cbuf.block \/ Lent = {},
           cbuf'.block \in {Null} \cup ByteBlocks,
           value'.at = "owned" => /\ IsFiniteSet(value'.blocks)
                                  /\ value'.blocks \subseteq {<<"value", i>> : i \in Nat},
           \A b : b \in DOMAIN mem' <=> \/ \E h \in Slots : b \in DocBlocks(docs[h])
                                        \/ b \in CallerBlocks' \cup ValueBlocks',
           CallerBlocks' \subseteq CallerBlocks
    PROVE  IInv'
<1>1. Types'
  BY DEF IInv, Types, DocOk, IsDoc, NoDoc, Struct, Stack, Block, Inline, CallersBuf, Null,
         ByteBlocks
<1>2. Ledger'
  BY ZenonT(40) DEF IInv, Ledger, DocBlocks, Stack
<1>3. LentOnce'
  BY DEF IInv, LentOnce, Lent, Live, Is, CallersBuf, Null
<1>4. ViewsRight'
  BY DEF IInv, ViewsRight, Source, Lent, Live, Is, CallersBuf, Null, Block
<1>5. QED
  BY <1>1, <1>2, <1>3, <1>4 DEF IInv

LEMMA BlocksApart ==
    ASSUME IInv
    PROVE  /\ \A h \in Slots : DocBlocks(docs[h]) \cap (CallerBlocks \cup ValueBlocks) = {}
           /\ CallerBlocks \cap ValueBlocks = {}
<1>1. ValueBlocks \subseteq {<<"value", i>> : i \in Nat}
  BY DEF IInv, Types, ValueBlocks
<1>2. CallerBlocks \subseteq ByteBlocks
  BY DEF IInv, Types, CallerBlocks
<1>3. \A h \in Slots : DocBlocks(docs[h]) \subseteq {Struct(h)} \cup ByteBlocks
  BY KnownBlocks DEF IInv
<1>4. \A h \in Slots : DocBlocks(docs[h]) \cap CallerBlocks = {}
  BY DEF IInv, Ledger
<1>5. QED
  BY <1>1, <1>2, <1>3, <1>4, Apart

LEMMA FreeBufferStep ==
    ASSUME IInv, FreeBuffer
    PROVE  IInv'
<1>1. /\ cbuf.block # Null /\ Lent = {} /\ mem' = Free(mem, {cbuf.block})
      /\ cbuf' = NoBuffer /\ UNCHANGED <<docs, value>>
  BY DEF FreeBuffer
<1>2. /\ CallerBlocks' = {} /\ CallerBlocks = {cbuf.block} /\ cbuf'.block = Null
      /\ ValueBlocks' = ValueBlocks /\ DOMAIN mem' = DOMAIN mem \ {cbuf.block}
  BY <1>1 DEF CallerBlocks, ValueBlocks, NoBuffer, Null, Free
<1>3. ASSUME NEW b
      PROVE  b \in DOMAIN mem' <=> \/ \E h \in Slots : b \in DocBlocks(docs[h])
                                   \/ b \in CallerBlocks' \cup ValueBlocks'
  BY <1>2, BlocksApart DEF IInv, Ledger
<1>4. value'.at = "owned" => /\ IsFiniteSet(value'.blocks)
                             /\ value'.blocks \subseteq {<<"value", i>> : i \in Nat}
  BY <1>1 DEF IInv, Types
<1>5. QED
  BY <1>1, <1>2, <1>3, <1>4, DocsKeptStep

LEMMA UseValueStep ==
    ASSUME IInv, UseValue
    PROVE  IInv'
<1>1. \A b : b \in DOMAIN mem <=> \/ \E h \in Slots : b \in DocBlocks(docs[h])
                                  \/ b \in CallerBlocks \cup ValueBlocks
  BY DEF IInv, Ledger
<1>2. ASSUME UNCHANGED <<docs, cbuf>>
      PROVE  /\ CallerBlocks' = CallerBlocks /\ cbuf'.block = cbuf.block
             /\ cbuf'.block \in {Null} \cup ByteBlocks
  BY <1>2 DEF CallerBlocks, Null, IInv, Types
<1>3. CASE \E h \in Slots : BorrowValue(h)
  <2>1. /\ value.at = "none" /\ value'.at = "borrowed" /\ UNCHANGED <<docs, mem, cbuf>>
    BY <1>3 DEF BorrowValue
  <2>2. ValueBlocks = {} /\ ValueBlocks' = {}
    BY <2>1 DEF ValueBlocks
  <2>3. QED
    BY <1>1, <1>2, <2>1, <2>2, DocsKeptStep
<1>4. CASE bson_value_copy
  <2> DEFINE n == BlocksOf(ValueNow)
             blocks == {<<"value", i>> : i \in 1 .. n}
  <2>1. /\ value.at = "borrowed" /\ UNCHANGED <<docs, cbuf>>
        /\ value'.at = "owned" /\ value'.blocks = blocks
        /\ DOMAIN mem' = DOMAIN mem \cup blocks
    BY <1>4 DEF bson_value_copy
  <2>2. n \in Nat
    BY DEF BlocksOf
  <2> HIDE DEF n
  <2>3. IsFiniteSet(blocks) /\ blocks \subseteq {<<"value", i>> : i \in Nat}
    <3> DEFINE f == [i \in 1 .. n |-> <<"value", i>>]
    <3>1. IsFiniteSet(1 .. n)
      BY <2>2, FS_Interval
    <3>2. IsFiniteSet({f[i] : i \in 1 .. n})
      BY <3>1, ImageFinite
    <3>3. {f[i] : i \in 1 .. n} = blocks
      OBVIOUS
    <3>4. QED
      BY <2>2, <3>2, <3>3
  <2> HIDE DEF blocks
  <2>4. ValueBlocks = {} /\ ValueBlocks' = blocks
    BY <2>1 DEF ValueBlocks
  <2>5. QED
    BY <1>1, <1>2, <2>1, <2>3, <2>4, DocsKeptStep
<1>5. CASE bson_value_destroy
  <2>1. /\ value'.at = "none" /\ UNCHANGED <<docs, cbuf>>
        /\ mem' = IF value.at = "owned" THEN Free(mem, value.blocks) ELSE mem
    BY <1>5 DEF bson_value_destroy, NoValue
  <2>2. ValueBlocks' = {} /\ DOMAIN mem' = DOMAIN mem \ ValueBlocks
    BY <2>1 DEF ValueBlocks, Free
  <2>3. ASSUME NEW b
        PROVE  b \in DOMAIN mem' <=> \/ \E h \in Slots : b \in DocBlocks(docs[h])
                                     \/ b \in CallerBlocks' \cup ValueBlocks'
    BY <1>1, <1>2, <2>1, <2>2, BlocksApart
  <2>4. QED
    BY <1>2, <2>1, <2>3, DocsKeptStep
<1>6. QED
  BY <1>3, <1>4, <1>5 DEF UseValue

(* bson_steal, of a document that is not a view: what src owned belongs to *)
(* dst, but for a bson_t that malloc gave.                                 *)
LEMMA StolenDocs ==
    ASSUME NEW dst, NEW src, NEW s, DocOk(s, src), s.buf # CallersBuf,
           "RDONLY" \notin s.flags, NEW bytes, NEW d,
           d = IF "INLINE" \in s.flags THEN InlineDoc(dst, Stack, bytes)
               ELSE WithOwner(s, s.flags \cup {"STATIC"}, Stack)
    PROVE  /\ DocOk(d, dst) /\ "RDONLY" \notin d.flags /\ d.buf # CallersBuf
           /\ DocBlocks(d) = DocBlocks(s) \ StolenFrom(s)
           /\ StolenFrom(s) \subseteq DocBlocks(s)
<1>1. StolenFrom(s) = {s.struct} \ {Stack} /\ StolenFrom(s) \subseteq DocBlocks(s)
  BY Apart DEF StolenFrom, DocBlocks, DocOk
<1>2. CASE "INLINE" \in s.flags
  <2>1. d = InlineDoc(dst, Stack, bytes)
    BY <1>2
  <2>2. DocOk(d, dst) /\ DocBlocks(d) = {} /\ "RDONLY" \notin d.flags /\ d.buf = Inline(dst)
    BY <2>1, InlineDocs
  <2>3. s.buf = Inline(src)
    BY <1>2 DEF DocOk
  <2>4. DocBlocks(s) = {s.struct} \ {Stack} /\ d.buf # CallersBuf
    BY <2>2, <2>3 DEF DocBlocks, DocOk, Inline, CallersBuf
  <2>5. QED
    BY <1>1, <2>2, <2>4
<1>3. CASE "INLINE" \notin s.flags
  <2>1. d = WithOwner(s, s.flags \cup {"STATIC"}, Stack) /\ IsDoc(s)
    BY <1>3 DEF DocOk
  <2>2. IsDoc(d) /\ d.flags = s.flags \cup {"STATIC"} /\ d.struct = Stack /\ d.buf = s.buf
    BY <2>1, WithOwnerFacts
  <2>3. /\ s.flags \cap {"INLINE", "NO_FREE", "RDONLY"} = {} /\ "none" \notin s.flags
        /\ s.buf \in {Block(b) : b \in ByteBlocks} /\ s.buf.at = "block"
        /\ s.buf.of \in ByteBlocks
    BY <1>3 DEF DocOk, Block
  <2>4. s.struct \in {Stack, Struct(src)} /\ s.struct # s.buf.of
    BY <2>3, Apart DEF DocOk
  <2>5. DocBlocks(s) = ({s.struct} \ {Stack}) \cup {s.buf.of}
    BY <2>3 DEF DocBlocks
  <2>6. /\ d.flags \cap {"INLINE", "NO_FREE", "RDONLY"} = {} /\ "none" \notin d.flags
        /\ "STATIC" \in d.flags
    BY <2>2, <2>3
  <2>7. DocOk(d, dst) /\ "RDONLY" \notin d.flags
    BY <2>2, <2>3, <2>6 DEF DocOk
  <2>8. DocBlocks(d) = {s.buf.of}
    BY <2>2, <2>3, <2>6 DEF DocBlocks
  <2>9. QED
    BY <1>1, <2>2, <2>4, <2>5, <2>7, <2>8
<1>4. QED
  BY <1>2, <1>3

(* What bson_t src has passes to dst, but for the blocks `gone'.           *)
LEMMA MoveStep ==
    ASSUME IInv, NEW dst \in Slots, NEW src \in Slots, NEW d, NEW gone,
           ~Live(dst), Live(src), ~Borrowed(src), src \notin Lent,
           docs' = [docs EXCEPT ![src] = NoDoc, ![dst] = d],
           cbuf' = cbuf, value' = value,
           DOMAIN mem' = DOMAIN mem \ gone, gone \subseteq DocBlocks(docs[src]),
           DocOk(d, dst), "RDONLY" \notin d.flags, d.buf # CallersBuf,
           DocBlocks(d) = DocBlocks(docs[src]) \ gone
    PROVE  IInv'
<1>1. src # dst
  OBVIOUS
<1>2. /\ docs'[dst] = d /\ docs'[src] = NoDoc
      /\ \A g \in Slots : g # src /\ g # dst => docs'[g] = docs[g]
      /\ docs' = [g \in Slots |-> docs'[g]]
  BY <1>1 DEF IInv, Types
<1>3. DocBlocks(docs[dst]) = {} /\ DocBlocks(docs'[src]) = {}
  BY <1>2 DEF DocBlocks, Live, Is, NoDoc
<1>4. CallerBlocks' = CallerBlocks /\ ValueBlocks' = ValueBlocks
  BY DEF CallerBlocks, ValueBlocks, Null
<1>5. Types'
  <2>1. \A g \in Slots : docs'[g] = NoDoc \/ DocOk(docs'[g], g)
    BY <1>2 DEF IInv, Types
  <2>2. /\ cbuf'.block \in {Null} \cup ByteBlocks
        /\ value'.at = "owned" => /\ IsFiniteSet(value'.blocks)
                                  /\ value'.blocks \subseteq {<<"value", i>> : i \in Nat}
    BY DEF IInv, Types
  <2>3. QED
    BY <1>2, <2>1, <2>2 DEF Types, DocOk, IsDoc, NoDoc, Stack, Struct, Inline, Block,
                            CallersBuf, Null, ByteBlocks
<1>6. ASSUME NEW b
      PROVE  b \in DOMAIN mem' <=> \/ \E g \in Slots : b \in DocBlocks(docs'[g])
                                   \/ b \in CallerBlocks' \cup ValueBlocks'
  <2>1. b \in gone => /\ \A g \in Slots : g # src => b \notin DocBlocks(docs[g])
                      /\ b \notin CallerBlocks \cup ValueBlocks
    BY BlocksApart DEF IInv, Ledger
  <2>2. b \in DOMAIN mem <=> \/ \E g \in Slots : g # src /\ g # dst /\ b \in DocBlocks(docs[g])
                             \/ b \in DocBlocks(docs[src])
                             \/ b \in CallerBlocks \cup ValueBlocks
    BY <1>3 DEF IInv, Ledger
  <2>3. (\E g \in Slots : b \in DocBlocks(docs'[g]))
           <=> \/ \E g \in Slots : g # src /\ g # dst /\ b \in DocBlocks(docs[g])
               \/ b \in DocBlocks(d)
    BY <1>2, <1>3
  <2>4. QED
    BY <1>4, <2>1, <2>2, <2>3
<1>7. \A g \in Slots : g # dst /\ g # src
         => DocBlocks(docs'[g]) = DocBlocks(docs[g]) /\ DocBlocks(docs[g]) \cap DocBlocks(d) = {}
  BY <1>2 DEF IInv, Ledger
<1>8. \A f, g \in Slots : f # g => DocBlocks(docs'[f]) \cap DocBlocks(docs'[g]) = {}
  <2> SUFFICES ASSUME NEW f \in Slots, NEW g \in Slots, f # g, f # src, g # src
               PROVE  DocBlocks(docs'[f]) \cap DocBlocks(docs'[g]) = {}
    BY <1>3
  <2>1. CASE f # dst /\ g # dst
    BY <1>7, <2>1 DEF IInv, Ledger
  <2>2. CASE f = dst \/ g = dst
    BY <1>2, <1>7, <2>2
  <2>3. QED
    BY <2>1, <2>2
<1>9. \A g \in Slots : DocBlocks(docs'[g]) \cap CallerBlocks' = {}
  <2>1. DocBlocks(d) \cap CallerBlocks = {}
    BY DEF IInv, Ledger
  <2>2. \A g \in Slots : DocBlocks(docs[g]) \cap CallerBlocks = {}
    BY DEF IInv, Ledger
  <2>3. QED
    BY <1>2, <1>3, <1>4, <2>1, <2>2
<1>10. LentOnce'
  <2>1. Lent' \subseteq Lent
    BY <1>2 DEF Lent, Live, Is, CallersBuf, Null, NoDoc
  <2>2. QED
    BY <2>1 DEF IInv, LentOnce, Null
<1>11. ViewsRight'
  <2> SUFFICES ASSUME NEW g \in Slots, "none" \notin docs'[g].flags,
                      "RDONLY" \in docs'[g].flags
               PROVE  \E s \in docs'[g].views \cap Slots :
                         /\ "none" \notin docs'[s].flags /\ "RDONLY" \notin docs'[s].flags
                         /\ \/ docs'[s].buf = docs'[g].buf
                            \/ docs'[s].buf = CallersBuf /\ docs'[g].buf = Block(cbuf'.block)
    BY DEF ViewsRight, Source, Live, Is, CallersBuf, Block, Null
  <2>1. g # src /\ g # dst /\ docs'[g] = docs[g]
    BY <1>2 DEF NoDoc
  <2>2. PICK s \in docs[g].views \cap Slots :
           /\ Live(s) /\ ~Is(s, "RDONLY")
           /\ \/ docs[s].buf = docs[g].buf
              \/ docs[s].buf = CallersBuf /\ docs[g].buf = Block(cbuf.block)
    BY <2>1 DEF IInv, ViewsRight, Source, Live, Is
  <2>3. s # src /\ s # dst
    BY <2>1, <2>2 DEF Borrowed, Live, Is
  <2>4. QED
    BY <1>2, <2>1, <2>2, <2>3 DEF Live, Is
<1>12. QED
  BY <1>5, <1>6, <1>8, <1>9, <1>10, <1>11 DEF IInv, Ledger

LEMMA StealStep ==
    ASSUME IInv, NEW dst \in Slots, NEW src \in Slots, bson_steal(dst, src)
    PROVE  IInv'
<1> DEFINE s == docs[src]
<1>1. /\ ~Live(dst) /\ Live(src) /\ ~Borrowed(src) /\ src \notin Lent
      /\ UNCHANGED <<cbuf, value>>
  BY DEF bson_steal
<1>2. DocOk(s, src) /\ s.buf # CallersBuf
  BY <1>1 DEF IInv, Types, Live, Is, NoDoc, Lent
<1>3. CASE Is(src, "RDONLY")
  <2> DEFINE d == InlineDoc(dst, Stack, EmptyDocument)
  <2>1. docs' = [docs EXCEPT ![dst] = d] /\ mem' = mem
    BY <1>3 DEF bson_steal, Put
  <2>2. /\ DocOk(d, dst) /\ DocBlocks(d) = {} /\ "RDONLY" \notin d.flags
        /\ d.buf = Inline(dst)
    BY InlineDocs
  <2>3. d.buf # CallersBuf
    BY <2>2 DEF Inline, CallersBuf
  <2> HIDE DEF d
  <2>4. QED
    BY <1>1, <2>1, <2>2, <2>3, NewStep
<1>4. CASE ~Is(src, "RDONLY")
  <2> DEFINE d == IF "INLINE" \in s.flags THEN InlineDoc(dst, Stack, Data(src))
                  ELSE WithOwner(s, s.flags \cup {"STATIC"}, Stack)
  <2>1. docs' = [docs EXCEPT ![src] = NoDoc, ![dst] = d] /\ mem' = Free(mem, StolenFrom(s))
    BY <1>4 DEF bson_steal, Is, WithOwner
  <2>2. DOMAIN mem' = DOMAIN mem \ StolenFrom(s)
    BY <2>1 DEF Free
  <2>3. /\ DocOk(d, dst) /\ "RDONLY" \notin d.flags /\ d.buf # CallersBuf
        /\ DocBlocks(d) = DocBlocks(s) \ StolenFrom(s)
        /\ StolenFrom(s) \subseteq DocBlocks(s)
    BY <1>2, <1>4, StolenDocs DEF Is
  <2> HIDE DEF d
  <2>4. QED
    BY <1>1, <2>1, <2>2, <2>3, MoveStep
<1>5. QED
  BY <1>3, <1>4

-----------------------------------------------------------------------------
LEMMA InitIInv == Init => IInv
<1> SUFFICES ASSUME Init PROVE IInv
  OBVIOUS
<1>1. /\ docs = [h \in Slots |-> NoDoc] /\ mem = <<>> /\ cbuf = NoBuffer /\ value = NoValue
      /\ \A h \in Slots : docs[h] = NoDoc
  BY DEF Init
<1>2. DOMAIN mem = {} /\ CallerBlocks = {} /\ ValueBlocks = {} /\ cbuf.block = Null
  BY <1>1 DEF CallerBlocks, ValueBlocks, NoBuffer, NoValue, Null
<1>3. \A h \in Slots : ~Live(h) /\ DocBlocks(docs[h]) = {}
  BY <1>1 DEF Live, Is, NoDoc, DocBlocks
<1>4. Types
  BY <1>1, <1>2 DEF Types, NoValue
<1>5. Ledger
  BY <1>2, <1>3 DEF Ledger
<1>6. LentOnce /\ ViewsRight
  BY <1>3 DEF LentOnce, Lent, ViewsRight
<1>7. QED
  BY <1>4, <1>5, <1>6 DEF IInv

LEMMA NextIInv == IInv /\ [Next]_vars => IInv'
<1> SUFFICES ASSUME IInv, [Next]_vars PROVE IInv'
  OBVIOUS
<1>1. CASE Create
  BY <1>1, CreateStep
<1>2. CASE Change
  BY <1>2, ChangeStep
<1>3. CASE Destroy
  BY <1>3, DestroyStep, DestroyWithStealStep, StealStep DEF Destroy
<1>4. CASE FreeBuffer
  BY <1>4, FreeBufferStep
<1>5. CASE UseValue
  BY <1>5, UseValueStep
<1>6. CASE UNCHANGED vars
  BY <1>6, UnchangedStep DEF vars
<1>7. QED
  BY <1>1, <1>2, <1>3, <1>4, <1>5, <1>6 DEF Next

(* The blocks of every bson_t, of the buffer lent to bson_new_from_buffer  *)
(* and of the bson_value_t stay accounted for, whatever the calls of       *)
(* bson.c are and whatever comes of them.                                  *)
THEOREM Invariance == Spec => []IInv
<1>1. Init => IInv
  BY InitIInv
<1>2. IInv /\ [Next]_vars => IInv'
  BY NextIInv
<1>3. QED
  BY <1>1, <1>2, PTL DEF Spec

(* Who owns b, as a triple of Owned.                                       *)
LEMMA OwnerOf ==
    ASSUME IInv, NEW o \in Owned
    PROVE  \/ \E h \in Slots : /\ Live(h) /\ o = <<"struct", h, Struct(h)>>
                               /\ o[3] \in DocBlocks(docs[h]) /\ o[3] \notin ByteBlocks
           \/ \E h \in Slots : /\ Live(h) /\ o = <<"bytes", h, docs[h].buf.of>>
                               /\ o[3] \in DocBlocks(docs[h]) /\ o[3] \in ByteBlocks
           \/ o = <<"buffer", Null, o[3]>> /\ o[3] \in CallerBlocks /\ o[3] = cbuf.block
           \/ o = <<"value", Null, o[3]>> /\ o[3] \in ValueBlocks
<1>1. \A h \in Slots : Live(h) => DocOk(docs[h], h)
  BY DEF IInv, Types, Live, Is, NoDoc
<1>2. CASE \E h \in Slots : /\ Live(h) /\ docs[h].struct # Stack
                            /\ o = <<"struct", h, docs[h].struct>>
  <2>1. PICK h \in Slots : /\ Live(h) /\ docs[h].struct # Stack
                           /\ o = <<"struct", h, docs[h].struct>>
    BY <1>2
  <2>2. docs[h].struct = Struct(h) /\ docs[h].struct \in DocBlocks(docs[h])
    BY <1>1, <2>1 DEF DocOk, DocBlocks
  <2>3. Struct(h) \notin ByteBlocks /\ o[3] = docs[h].struct
    BY <2>1, Apart
  <2>4. QED
    BY <2>1, <2>2, <2>3
<1>3. CASE \E h \in Slots : /\ Live(h) /\ docs[h].buf.at = "block" /\ ~Is(h, "RDONLY")
                            /\ o = <<"bytes", h, docs[h].buf.of>>
  <2>1. PICK h \in Slots : /\ Live(h) /\ docs[h].buf.at = "block" /\ ~Is(h, "RDONLY")
                           /\ o = <<"bytes", h, docs[h].buf.of>>
    BY <1>3
  <2>2. DocOk(docs[h], h) /\ "RDONLY" \notin docs[h].flags
    BY <1>1, <2>1 DEF Is
  <2>3. docs[h].buf.of \in ByteBlocks
    BY <2>1, <2>2 DEF DocOk, Block, Inline, CallersBuf
  <2>4. docs[h].buf.of \in DocBlocks(docs[h])
    BY <2>1, <2>2 DEF DocOk, DocBlocks
  <2>5. QED
    BY <2>1, <2>3, <2>4
<1>4. CASE \E b \in {cbuf.block} \ {Null} : o = <<"buffer", Null, b>>
  BY <1>4 DEF CallerBlocks
<1>5. CASE \E b \in ValueBlocks : o = <<"value", Null, b>>
  BY <1>5
<1>6. QED
  BY <1>2, <1>3, <1>4, <1>5 DEF Owned, ValueBlocks

LEMMA OneOwner ==
    ASSUME IInv
    PROVE  EachBlockHasOneOwner
<1>1. \A b : b \in DOMAIN mem <=> \/ \E h \in Slots : b \in DocBlocks(docs[h])
                                  \/ b \in CallerBlocks \cup ValueBlocks
  BY DEF IInv, Ledger
<1>2. ASSUME NEW o \in Owned PROVE o[3] \in DOMAIN mem
  BY <1>1, OwnerOf
<1>3. ASSUME NEW b \in DOMAIN mem PROVE \E o \in Owned : o[3] = b
  <2>1. CASE \E h \in Slots : b \in DocBlocks(docs[h])
    <3>1. PICK h \in Slots : b \in DocBlocks(docs[h])
      BY <2>1
    <3>2. Live(h)
      BY <3>1 DEF DocBlocks, Live, Is
    <3>3. CASE b = docs[h].struct /\ docs[h].struct # Stack
      <4>1. <<"struct", h, b>> \in Owned
        BY <3>2, <3>3 DEF Owned
      <4>2. QED
        BY <4>1
    <3>4. CASE b = docs[h].buf.of /\ docs[h].buf.at = "block" /\ ~Is(h, "RDONLY")
      <4>1. <<"bytes", h, b>> \in Owned
        BY <3>2, <3>4 DEF Owned
      <4>2. QED
        BY <4>1
    <3>5. QED
      BY <3>1, <3>2, <3>3, <3>4 DEF DocBlocks, Is
  <2>2. CASE b \in CallerBlocks
    <3>1. <<"buffer", Null, b>> \in Owned
      BY <2>2 DEF Owned, CallerBlocks
    <3>2. QED
      BY <3>1
  <2>3. CASE b \in ValueBlocks
    <3>1. <<"value", Null, b>> \in Owned
      BY <2>3 DEF Owned, ValueBlocks
    <3>2. QED
      BY <3>1
  <2>4. QED
    BY <1>1, <2>1, <2>2, <2>3
<1>4. ASSUME NEW o \in Owned, NEW p \in Owned, o[3] = p[3]
      PROVE  o = p
  <2> DEFINE OfStruct(x, h) == /\ x = <<"struct", h, Struct(h)>>
                               /\ x[3] \in DocBlocks(docs[h]) /\ x[3] \notin ByteBlocks
             OfBytes(x, h)  == /\ x = <<"bytes", h, docs[h].buf.of>>
                               /\ x[3] \in DocBlocks(docs[h]) /\ x[3] \in ByteBlocks
  <2>1. \A x \in Owned :
          \/ \E h \in Slots : OfStruct(x, h)
          \/ \E h \in Slots : OfBytes(x, h)
          \/ x = <<"buffer", Null, cbuf.block>> /\ x[3] \in CallerBlocks
          \/ x = <<"value", Null, x[3]>> /\ x[3] \in ValueBlocks
    BY OwnerOf
  <2>2. \A g, h \in Slots : g # h => DocBlocks(docs[g]) \cap DocBlocks(docs[h]) = {}
    BY DEF IInv, Ledger
  <2>3. CASE \E h \in Slots : o[3] \in DocBlocks(docs[h])
    <3>1. PICK h \in Slots : o[3] \in DocBlocks(docs[h])
      BY <2>3
    <3>2. OfStruct(o, h) \/ OfBytes(o, h)
      BY <2>1, <2>2, <3>1, BlocksApart
    <3>3. OfStruct(p, h) \/ OfBytes(p, h)
      BY <2>1, <2>2, <3>1, <1>4, BlocksApart
    <3>4. QED
      BY <1>4, <3>2, <3>3
  <2>4. CASE o[3] \in CallerBlocks
    <3>1. o = <<"buffer", Null, cbuf.block>>
      BY <2>1, <2>4, BlocksApart
    <3>2. p = <<"buffer", Null, cbuf.block>>
      BY <1>4, <2>1, <2>4, BlocksApart
    <3>3. QED
      BY <3>1, <3>2
  <2>5. CASE o[3] \in ValueBlocks
    <3>1. o = <<"value", Null, o[3]>>
      BY <2>1, <2>5, BlocksApart
    <3>2. p = <<"value", Null, p[3]>>
      BY <1>4, <2>1, <2>5, BlocksApart
    <3>3. QED
      BY <1>4, <3>1, <3>2
  <2>6. QED
    BY <2>1, <2>3, <2>4, <2>5
<1>5. ASSUME NEW h \in Slots, Live(h), docs[h].buf.at = "block"
      PROVE  docs[h].buf.of \in DOMAIN mem
  <2>1. CASE ~Is(h, "RDONLY")
    <3>1. docs[h].buf.of \in DocBlocks(docs[h])
      BY <1>5, <2>1 DEF DocBlocks, Live, Is
    <3>2. QED
      BY <1>1, <3>1
  <2>2. CASE Is(h, "RDONLY")
    <3>1. PICK g \in Slots : /\ Live(g) /\ ~Is(g, "RDONLY")
                             /\ \/ docs[g].buf = docs[h].buf
                                \/ docs[g].buf = CallersBuf /\ docs[h].buf = Block(cbuf.block)
      BY <1>5, <2>2 DEF IInv, ViewsRight, Source
    <3>2. CASE docs[g].buf = docs[h].buf
      <4>1. docs[h].buf.of \in DocBlocks(docs[g])
        BY <1>5, <3>1, <3>2 DEF DocBlocks, Live, Is
      <4>2. QED
        BY <1>1, <4>1
    <3>3. CASE docs[g].buf = CallersBuf /\ docs[h].buf = Block(cbuf.block)
      <4>1. cbuf.block # Null /\ docs[h].buf.of = cbuf.block
        BY <3>1, <3>3 DEF IInv, LentOnce, Lent, Block
      <4>2. QED
        BY <1>1, <4>1 DEF CallerBlocks
    <3>4. QED
      BY <3>1, <3>2, <3>3
  <2>3. QED
    BY <2>1, <2>2
<1>6. {o[3] : o \in Owned} = DOMAIN mem
  BY <1>2, <1>3
<1>7. QED
  BY <1>4, <1>5, <1>6 DEF EachBlockHasOneOwner

(* Every block malloc gave is owned by exactly one of the bson_t that was  *)
(* allocated, its document, the caller's buffer and the bson_value_t, and  *)
(* no bson_t in use, not even one made by bson_init_static, points to a    *)
(* block that was freed: for any number of bson_t and any contents.        *)
THEOREM BlocksHaveOneOwner == Spec => []EachBlockHasOneOwner
<1>1. IInv => EachBlockHasOneOwner
  BY OneOwner
<1>2. QED
  BY <1>1, Invariance, PTL

-----------------------------------------------------------------------------
(* A step that leaves the bson_t g, its bytes and its room as they are.    *)
DataIn(p, ds, m, c) ==
    IF p.at = "inline" THEN ds[p.of].inline
                       ELSE m[IF p.at = "caller" THEN c.block ELSE p.of].bytes

LEMMA DataIsIn ==
    /\ \A h : Data(h) = DataIn(docs[h].buf, docs, mem, cbuf)
    /\ \A h : Data(h)' = DataIn(docs'[h].buf, docs', mem', cbuf')
BY DEF Data, DataIn, BlockOf

Untouched(g) ==
    /\ docs'[g] = docs[g] /\ Data(g)' = Data(g)
    /\ ~Is(g, "RDONLY") /\ ~Is(g, "INLINE") =>
          /\ docs[g].buf = CallersBuf => cbuf' = cbuf
          /\ mem'[BlockOf(docs[g].buf)] = mem[BlockOf(docs[g].buf)]

(* The slots of H are given other bson_t, and the blocks `touched' other   *)
(* bytes, or they are gone.                                                *)
Touches(H, touched) ==
    /\ \A g \in Slots \ H : Live(g) => /\ docs'[g] = docs[g]
                                       /\ touched \cap DocBlocks(docs[g]) = {}
    /\ \A h \in H : Live(h) => ~Borrowed(h)
    /\ \A b \in DOMAIN mem \ touched : mem'[b] = mem[b]
    /\ Lent \subseteq H \/ (cbuf' = cbuf /\ cbuf.block \notin touched)

LEMMA LiveDocs ==
    ASSUME IInv, NEW g \in Slots, Live(g)
    PROVE  /\ DocOk(docs[g], g) /\ DocBlocks(docs[g]) \subseteq DOMAIN mem
           /\ \/ Is(g, "INLINE") /\ ~Is(g, "RDONLY") /\ docs[g].buf = Inline(g)
              \/ /\ ~Is(g, "INLINE") /\ ~Is(g, "RDONLY") /\ docs[g].buf = CallersBuf
                 /\ g \in Lent /\ cbuf.block \in CallerBlocks /\ cbuf.block \in DOMAIN mem
              \/ /\ ~Is(g, "INLINE") /\ ~Is(g, "RDONLY") /\ docs[g].buf.at = "block"
                 /\ docs[g].buf.of \in DocBlocks(docs[g])
                 /\ docs[g].buf.of \in ByteBlocks
                 /\ docs[g].buf = Block(docs[g].buf.of)
              \/ Is(g, "RDONLY") /\ ~Is(g, "INLINE") /\ docs[g].buf # CallersBuf
<1>1. DocOk(docs[g], g)
  BY DEF IInv, Types, Live, Is, NoDoc
<1>2. DocBlocks(docs[g]) \subseteq DOMAIN mem
  BY DEF IInv, Ledger
<1>3. CASE docs[g].flags \cap {"INLINE", "NO_FREE", "RDONLY"} = {"INLINE"}
  BY <1>1, <1>2, <1>3 DEF DocOk, Is
<1>4. CASE docs[g].flags \cap {"INLINE", "NO_FREE", "RDONLY"} = {"NO_FREE"}
  <2>1. docs[g].buf = CallersBuf
    BY <1>1, <1>4 DEF DocOk
  <2>2. g \in Lent /\ cbuf.block # Null
    BY <2>1 DEF Lent, IInv, LentOnce
  <2>3. cbuf.block \in CallerBlocks /\ cbuf.block \in DOMAIN mem
    BY <2>2 DEF CallerBlocks, IInv, Ledger
  <2>4. ~Is(g, "INLINE") /\ ~Is(g, "RDONLY")
    BY <1>4 DEF Is
  <2>5. QED
    BY <1>1, <1>2, <2>1, <2>2, <2>3, <2>4
<1>5. CASE docs[g].flags \cap {"INLINE", "NO_FREE", "RDONLY"} = {"RDONLY"}
  BY <1>1, <1>2, <1>5 DEF DocOk, Is, CallersBuf, Block
<1>6. CASE docs[g].flags \cap {"INLINE", "NO_FREE", "RDONLY"} = {}
  <2>1. docs[g].buf \in {Block(b) : b \in ByteBlocks}
    BY <1>1, <1>6 DEF DocOk
  <2>2. /\ docs[g].buf.at = "block" /\ docs[g].buf.of \in ByteBlocks
        /\ docs[g].buf = Block(docs[g].buf.of)
    BY <2>1 DEF Block
  <2>3. docs[g].buf.of \in DocBlocks(docs[g])
    BY <1>1, <1>6, <2>2 DEF DocBlocks, DocOk
  <2>4. ~Is(g, "INLINE") /\ ~Is(g, "RDONLY")
    BY <1>6 DEF Is
  <2>5. QED
    BY <1>1, <1>2, <2>2, <2>3, <2>4
<1>7. QED
  BY <1>1, <1>3, <1>4, <1>5, <1>6 DEF DocOk

(* A bson_t that is not in H is untouched, and so is one that reads bytes  *)
(* in place: nobody writes where they are.                                 *)
LEMMA OwnerUntouched ==
    ASSUME IInv, NEW H, NEW touched, Touches(H, touched),
           NEW g \in Slots \ H, Live(g), ~Is(g, "RDONLY")
    PROVE  Untouched(g)
<1>1. docs'[g] = docs[g] /\ touched \cap DocBlocks(docs[g]) = {}
  BY DEF Touches
<1>2. CASE Is(g, "INLINE") /\ docs[g].buf = Inline(g)
  <2>1. Data(g) = docs[g].inline /\ Data(g)' = docs'[g].inline
    BY <1>1, <1>2, DataIsIn DEF DataIn, Inline
  <2>2. QED
    BY <1>1, <1>2, <2>1 DEF Untouched
<1>3. CASE docs[g].buf = CallersBuf /\ g \in Lent /\ cbuf.block \in DOMAIN mem
  <2>1. cbuf' = cbuf /\ mem'[cbuf.block] = mem[cbuf.block]
    BY <1>3 DEF Touches
  <2>2. Data(g) = mem[cbuf.block].bytes /\ Data(g)' = mem'[cbuf'.block].bytes
    BY <1>1, <1>3, DataIsIn DEF DataIn, CallersBuf
  <2>3. BlockOf(docs[g].buf) = cbuf.block
    BY <1>3 DEF BlockOf, CallersBuf
  <2>4. QED
    BY <1>1, <2>1, <2>2, <2>3 DEF Untouched
<1>4. CASE /\ docs[g].buf.at = "block" /\ docs[g].buf.of \in DocBlocks(docs[g])
           /\ DocBlocks(docs[g]) \subseteq DOMAIN mem
  <2>1. mem'[docs[g].buf.of] = mem[docs[g].buf.of]
    BY <1>1, <1>4 DEF Touches
  <2>2. Data(g) = mem[docs[g].buf.of].bytes /\ Data(g)' = mem'[docs[g].buf.of].bytes
    BY <1>1, <1>4, DataIsIn DEF DataIn
  <2>3. BlockOf(docs[g].buf) = docs[g].buf.of /\ docs[g].buf # CallersBuf
    BY <1>4 DEF BlockOf, CallersBuf
  <2>4. QED
    BY <1>1, <2>1, <2>2, <2>3 DEF Untouched
<1>5. QED
  BY <1>2, <1>3, <1>4, LiveDocs

LEMMA OthersUntouched ==
    ASSUME IInv, NEW H, NEW touched, Touches(H, touched),
           NEW g \in Slots \ H, Live(g)
    PROVE  Untouched(g)
<1>1. CASE ~Is(g, "RDONLY")
  BY <1>1, OwnerUntouched
<1>2. CASE Is(g, "RDONLY")
  <2>1. PICK s \in docs[g].views \cap Slots :
           /\ Live(s) /\ ~Is(s, "RDONLY")
           /\ \/ docs[s].buf = docs[g].buf
              \/ docs[s].buf = CallersBuf /\ docs[g].buf = Block(cbuf.block)
    BY <1>2 DEF IInv, ViewsRight, Source
  <2>2. s \notin H
    BY <2>1 DEF Touches, Borrowed
  <2>3. Untouched(s)
    BY <2>1, <2>2, OwnerUntouched
  <2>4. docs'[g] = docs[g] /\ docs'[s] = docs[s] /\ Data(s)' = Data(s)
    BY <2>3 DEF Touches, Untouched
  <2>5. CASE docs[s].buf = docs[g].buf
    <3>1. Data(g) = Data(s) /\ Data(g)' = Data(s)'
      BY <2>4, <2>5, DataIsIn
    <3>2. QED
      BY <1>2, <2>4, <3>1 DEF Untouched
  <2>6. CASE docs[s].buf = CallersBuf /\ docs[g].buf = Block(cbuf.block)
    <3>1. cbuf' = cbuf
      BY <2>1, <2>2, <2>6 DEF Touches, Lent
    <3>2. Data(g) = Data(s) /\ Data(g)' = Data(s)'
      BY <2>4, <2>6, <3>1, DataIsIn DEF DataIn, CallersBuf, Block
    <3>3. QED
      BY <1>2, <2>4, <3>2 DEF Untouched
  <2>7. QED
    BY <2>1, <2>5, <2>6
<1>3. QED
  BY <1>1, <1>2

-----------------------------------------------------------------------------
(* The bytes of a document that bson_init_static takes.                    *)
Octets == 0 .. 255
Whole(bytes) == bytes \in Seq(Octets) /\ IsDocument(bytes)

LEMMA LargestFacts == /\ Largest \in Nat /\ Largest <= Huge /\ 5 <= Largest
                      /\ MaxBytes \in Nat /\ MaxBytes <= Largest
BY SMT, SizesAssumption DEF Largest, Huge

LEMMA LittleEndian ==
    ASSUME NEW n \in Nat, n <= Largest
    PROVE  \E w, x, y, z \in Octets :
              /\ LE32(n) = <<w, x, y, z>> /\ z < 128
              /\ w + 256 * x + 65536 * y + 16777216 * z = n
<1> DEFINE w == n % 256
           x == (n \div 256) % 256
           y == (n \div 65536) % 256
           z == n \div 16777216
<1>1. w \in Octets /\ x \in Octets /\ y \in Octets
  BY SMT DEF Octets
<1>2. z \in Octets /\ z < 128
  BY SMT DEF Octets, Largest
<1>3. w + 256 * x + 65536 * y + 16777216 * z = n
  <2> DEFINE a == n \div 256
             b == a \div 256
  <2>1. n = w + 256 * a /\ a \in Nat
    BY SMT
  <2>2. a = x + 256 * b /\ b \in Nat
    BY <2>1, SMT
  <2>3. b = n \div 65536
    BY SMT
  <2>4. b = y + 256 * (b \div 256) /\ b \div 256 \in Nat
    BY <2>2, <2>3, SMT
  <2>5. b \div 256 = z
    BY <2>3, SMT
  <2>6. w \in Int /\ x \in Int /\ y \in Int /\ z \in Int
    BY <1>1, <1>2 DEF Octets
  <2> HIDE DEF w, x, y, z, a, b
  <2>7. n = w + 256 * (x + 256 * (y + 256 * z))
    BY <2>1, <2>2, <2>4, <2>5
  <2>8. QED
    BY <2>6, <2>7, SMT
<1>4. LE32(n) = <<w, x, y, z>>
  BY DEF LE32
<1> HIDE DEF w, x, y, z
<1>5. QED
  BY <1>1, <1>2, <1>3, <1>4

(* What a length, bytes and a 0 make, for any set of bytes.                *)
Frame(w, x, y, z, body) == <<w, x, y, z>> \o body \o <<0>>

LEMMA Framed ==
    ASSUME NEW S, 0 \in S, NEW w \in S, NEW x \in S, NEW y \in S, NEW z \in S,
           NEW body \in Seq(S)
    PROVE  LET d == Frame(w, x, y, z, body)
           IN  /\ d \in Seq(S) /\ Len(d) = Len(body) + 5
               /\ d[1] = w /\ d[2] = x /\ d[3] = y /\ d[4] = z /\ d[Len(d)] = 0
<1> DEFINE le == <<w, x, y, z>>
           front == le \o body
           last == <<0>>
           d == front \o last
<1>1. /\ le \in Seq(S) /\ Len(le) = 4
      /\ le[1] = w /\ le[2] = x /\ le[3] = y /\ le[4] = z
  OBVIOUS
<1>2. last \in Seq(S) /\ Len(last) = 1 /\ last[1] = 0
  OBVIOUS
<1>3. Len(body) \in Nat
  BY LenProperties
<1> HIDE DEF le, last
<1>4. /\ front \in Seq(S) /\ Len(front) = Len(body) + 4
      /\ front[1] = le[1] /\ front[2] = le[2] /\ front[3] = le[3] /\ front[4] = le[4]
  <2>1. /\ front \in Seq(S) /\ Len(front) = Len(le) + Len(body)
        /\ \A i \in 1 .. Len(le) + Len(body) :
              front[i] = IF i <= Len(le) THEN le[i] ELSE body[i - Len(le)]
    BY <1>1, ConcatProperties
  <2>2. \A i \in Int : 1 <= i /\ i <= 4 => front[i] = le[i]
    BY <1>1, <1>3, <2>1
  <2>3. QED
    BY <1>1, <1>3, <2>1, <2>2
<1> HIDE DEF front
<1>5. /\ d \in Seq(S) /\ Len(d) = Len(body) + 5
      /\ d[1] = front[1] /\ d[2] = front[2] /\ d[3] = front[3] /\ d[4] = front[4]
      /\ d[Len(body) + 5] = 0
  <2>1. /\ d \in Seq(S) /\ Len(d) = Len(front) + Len(last)
        /\ \A i \in 1 .. Len(front) + Len(last) :
              d[i] = IF i <= Len(front) THEN front[i] ELSE last[i - Len(front)]
    BY <1>2, <1>4, ConcatProperties
  <2>2. \A i \in Int : 1 <= i /\ i <= 4 => d[i] = front[i]
    BY <1>2, <1>3, <1>4, <2>1
  <2>3. Len(body) + 5 \in 1 .. Len(front) + Len(last) /\ Len(body) + 5 - Len(front) = 1
    BY <1>2, <1>3, <1>4
  <2>4. d[Len(body) + 5] = last[1]
    BY <1>3, <1>4, <2>1, <2>3
  <2>5. QED
    BY <1>2, <1>3, <1>4, <2>1, <2>2, <2>4
<1> HIDE DEF d
<1>6. /\ d[1] = w /\ d[2] = x /\ d[3] = y /\ d[4] = z /\ d[Len(d)] = 0
  BY <1>1, <1>4, <1>5
<1>7. QED
  BY <1>5, <1>6 DEF Frame, d, front, le, last

(* The length ahead of the elements and the 0 behind them are right.       *)
LEMMA DocumentWhole ==
    ASSUME NEW body \in Seq(Octets), Len(body) + 5 <= Largest
    PROVE  Whole(Document(body)) /\ Len(Document(body)) = Len(body) + 5
<1> DEFINE d == Document(body)
<1>1. Len(body) \in Nat
  BY LenProperties
<1>2. Len(body) + 5 \in Nat
  BY <1>1
<1>3. PICK w, x, y, z \in Octets :
          /\ LE32(Len(body) + 5) = <<w, x, y, z>> /\ z < 128
          /\ w + 256 * x + 65536 * y + 16777216 * z = Len(body) + 5
  BY <1>2, LittleEndian
<1>4. 0 \in Octets
  BY DEF Octets
<1>5. /\ d \in Seq(Octets) /\ Len(d) = Len(body) + 5
      /\ d[1] = w /\ d[2] = x /\ d[3] = y /\ d[4] = z /\ d[Len(d)] = 0
  <2> DEFINE le == LE32(Len(body) + 5)
  <2>1. le = <<w, x, y, z>> /\ d = le \o body \o <<0>>
    BY <1>3 DEF Document
  <2> HIDE DEF le
  <2>2. d = Frame(w, x, y, z, body)
    BY <2>1 DEF Frame
  <2> HIDE DEF d
  <2>3. QED
    BY <1>4, <2>2, Framed
<1> HIDE DEF d
<1> DEFINE win == [raw |-> 0, len |-> Len(d)]
<1>6. DOMAIN d = 1 .. Len(d)
  BY <1>5, LenProperties
<1>7. 1 \in DOMAIN d /\ 2 \in DOMAIN d /\ 3 \in DOMAIN d /\ 4 \in DOMAIN d
  BY <1>1, <1>5, <1>6
<1>8. /\ Iter(d)!At(d, win, 0) = w /\ Iter(d)!At(d, win, 0 + 1) = x
      /\ Iter(d)!At(d, win, 0 + 2) = y /\ Iter(d)!At(d, win, 0 + 3) = z
  BY <1>5, <1>7 DEF Iter!At
<1>9. w \in Int /\ x \in Int /\ y \in Int /\ z \in Int
  BY DEF Octets
<1> HIDE DEF win
<1>10. Iter(d)!U32(d, win, 0) = w + 256 * x + 65536 * y + 16777216 * z
  BY <1>3, <1>8, <1>9, SMTT(40) DEF Iter!U32
<1>11. Iter(d)!Acceptable(d)
  BY <1>1, <1>3, <1>5, <1>10 DEF Iter!Acceptable, win
<1>12. QED
  BY <1>5, <1>11 DEF Whole, IsDocument, d

(* The 5 bytes of bson_init.                                               *)
LEMMA EmptyWhole == Whole(EmptyDocument) /\ Len(EmptyDocument) = 5
<1> DEFINE none == <<>>
<1>1. none \in Seq(Octets) /\ Len(none) = 0
  OBVIOUS
<1>2. EmptyDocument = Document(none)
  BY DEF EmptyDocument
<1> HIDE DEF none
<1>3. Len(none) + 5 = 5 /\ Len(none) + 5 <= Largest
  BY <1>1, LargestFacts
<1>4. QED
  BY <1>1, <1>2, <1>3, DocumentWhole

LEMMA PowerFacts ==
    ASSUME NEW n \in Nat, n <= Largest
    PROVE  PowerOfTwo(n) \in Nat /\ PowerOfTwo(n) >= n
<1> DEFINE S == {p \in PowersOfTwo : p >= n}
<1>1. PowersOfTwo \in SUBSET Nat /\ Largest \in PowersOfTwo
  BY SMT DEF PowersOfTwo, Largest
<1>2. S \in SUBSET Nat /\ Largest \in S
  BY <1>1
<1>3. Min(S) \in S
  BY <1>2, MinFacts
<1>4. QED
  BY <1>1, <1>3 DEF PowerOfTwo

LEMMA FlattenOne ==
    ASSUME NEW S, NEW s \in Seq(S)
    PROVE  FlattenSeq(<<s>>) = s
<1> DEFINE F(f) == [i \in 1 .. 1 |-> IF i = 1 THEN <<s>>[i] ELSE f[i - 1] \o <<s>>[i]]
           f0 == [i \in 1 .. 1 |-> s]
           g == CHOOSE f : f = F(f)
<1>1. f0 = F(f0)
  OBVIOUS
<1>2. g = F(g)
  BY <1>1
<1>3. g[1] = s
  BY <1>2
<1>4. FlattenSeq(<<s>>) = g[1]
  BY DEF FlattenSeq
<1>5. QED
  BY <1>3, <1>4

LEMMA WholeFacts ==
    ASSUME NEW bytes, Whole(bytes)
    PROVE  bytes \in Seq(Octets) /\ Len(bytes) \in Nat /\ Len(bytes) >= 5
<1>1. bytes \in Seq(Octets)
  BY DEF Whole
<1>2. Len(bytes) \in Nat
  BY <1>1, LenProperties
<1>3. Len(bytes) >= 5
  BY DEF Whole, IsDocument, Iter!Acceptable
<1>4. QED
  BY <1>1, <1>2, <1>3

(* The elements of a document, and those with more behind them.            *)
LEMMA BodyFacts ==
    ASSUME NEW bytes, Whole(bytes)
    PROVE  /\ SubSeq(bytes, 5, Len(bytes) - 1) \in Seq(Octets)
           /\ Len(SubSeq(bytes, 5, Len(bytes) - 1)) = Len(bytes) - 5
<1>1. bytes \in Seq(Octets) /\ Len(bytes) \in Nat /\ Len(bytes) >= 5
  BY WholeFacts
<1>2. \A i \in 5 .. Len(bytes) - 1 : bytes[i] \in Octets
  BY <1>1, ElementOfSeq
<1> DEFINE n == Len(bytes) - 1
<1>3. n \in Int /\ n - 5 + 1 = Len(bytes) - 5 /\ (5 <= n \/ Len(bytes) - 5 = 0)
  <2>1. \A l \in Nat : l >= 5 => l - 1 \in Int /\ (l - 1) - 5 + 1 = l - 5
                                 /\ (5 <= l - 1 \/ l - 5 = 0)
    OBVIOUS
  <2>2. QED
    BY <1>1, <2>1
<1> HIDE DEF n
<1>4. /\ SubSeq(bytes, 5, n) \in Seq(Octets)
      /\ Len(SubSeq(bytes, 5, n)) = IF 5 <= n THEN n - 5 + 1 ELSE 0
  BY <1>2, <1>3, SubSeqProperties DEF n
<1>5. ~(5 <= n) => Len(bytes) - 5 = 0
  BY <1>3
<1>6. QED
  BY <1>3, <1>4, <1>5 DEF n

LEMMA SealedFacts ==
    ASSUME NEW d, NEW data, Whole(data), d.len = Len(data),
           NEW call, call.bytes \in Seq(Octets), Len(data) + Len(call.bytes) <= Largest
    PROVE  /\ Whole(Sealed(d, data, call))
           /\ Len(Sealed(d, data, call)) = Len(data) + Len(call.bytes)
<1> DEFINE body == SubSeq(data, 5, Len(data) - 1)
           more == call.bytes
<1>1. Len(data) \in Nat /\ Len(more) \in Nat
  BY WholeFacts, LenProperties
<1>2. body \in Seq(Octets) /\ Len(body) = Len(data) - 5
  BY BodyFacts
<1>3. Sealed(d, data, call) = Document(body \o more)
  BY DEF Sealed
<1>4. more \in Seq(Octets) /\ Len(data) + Len(more) <= Largest
  OBVIOUS
<1> HIDE DEF body, more
<1>5. body \o more \in Seq(Octets) /\ Len(body \o more) = Len(body) + Len(more)
  BY <1>2, <1>4, ConcatProperties
<1> DEFINE all == body \o more
<1>6. all \in Seq(Octets) /\ Len(all) + 5 = Len(data) + Len(more) /\ Len(all) + 5 <= Largest
  BY <1>1, <1>2, <1>4, <1>5
<1> HIDE DEF all
<1>7. Whole(Document(all)) /\ Len(Document(all)) = Len(all) + 5
  BY <1>6, DocumentWhole
<1>8. QED
  BY <1>3, <1>6, <1>7 DEF all, more

-----------------------------------------------------------------------------
(***************************************************************************)
(* The bytes of a bson_t are a document of the length it has, no longer    *)
(* than the room it counts with, and that room is there; so it is for what *)
(* is in the caller's buffer when no bson_t is lent it.                    *)
(***************************************************************************)
RoomOf(d, c)  == IF d.buf = CallersBuf THEN c.len ELSE d.alloclen
PlaceOf(d, c) == IF d.buf.at = "caller" THEN c.block ELSE d.buf.of

FitsAs(d, bytes, m, c) ==
    /\ Whole(bytes) /\ d.len = Len(bytes) /\ d.len <= MaxBytes
    /\ "RDONLY" \in d.flags => d.alloclen = d.len
    /\ "INLINE" \in d.flags => d.len <= InlineSize
    /\ "RDONLY" \notin d.flags /\ "INLINE" \notin d.flags =>
          /\ RoomOf(d, c) \in Nat /\ d.len <= RoomOf(d, c)
          /\ m[PlaceOf(d, c)].size \in Nat /\ RoomOf(d, c) <= m[PlaceOf(d, c)].size

CallerFitsAs(m, c) ==
    c.block # Null =>
        /\ Whole(m[c.block].bytes) /\ Len(m[c.block].bytes) <= MaxBytes
        /\ c.len \in Nat /\ Len(m[c.block].bytes) <= c.len
        /\ m[c.block].size \in Nat /\ c.len <= m[c.block].size

FInv ==
    /\ \A h \in Slots : Live(h) => FitsAs(docs[h], Data(h), mem, cbuf)
    /\ CallerFitsAs(mem, cbuf)

LEMMA FitsTheRoom ==
    ASSUME IInv, FInv
    PROVE  DocumentsFit
<1> SUFFICES ASSUME NEW h \in Slots, Live(h)
             PROVE  /\ Len(Data(h)) = docs[h].len /\ IsDocument(Data(h))
                    /\ docs[h].len <= (IF Is(h, "INLINE") THEN InlineSize ELSE BufLen(docs[h]))
                    /\ ~Is(h, "RDONLY") /\ ~Is(h, "INLINE") =>
                          BufLen(docs[h]) <= mem[BlockOf(docs[h].buf)].size
  BY DEF DocumentsFit
<1>1. FitsAs(docs[h], Data(h), mem, cbuf)
  BY DEF FInv
<1>2. Len(Data(h)) = docs[h].len /\ IsDocument(Data(h)) /\ docs[h].len \in Nat
  BY <1>1, WholeFacts DEF FitsAs, Whole
<1>3. Is(h, "RDONLY") => docs[h].buf # CallersBuf /\ ~Is(h, "INLINE")
  BY LiveDocs
<1>4. Is(h, "RDONLY") => docs[h].len <= BufLen(docs[h])
  BY <1>1, <1>2, <1>3 DEF FitsAs, BufLen, Is
<1>5. QED
  BY <1>1, <1>2, <1>3, <1>4 DEF FitsAs, BufLen, BlockOf, RoomOf, PlaceOf, Is

(* A step changes the bson_t in the slots of H, and the blocks `touched'.  *)
LEMMA FitsStep ==
    ASSUME IInv, FInv, NEW H, NEW touched, Touches(H, touched),
           \A g \in Slots \ H : docs'[g] = docs[g],
           \A h \in H : "none" \in docs'[h].flags \/ FitsAs(docs'[h], Data(h)', mem', cbuf'),
           CallerFitsAs(mem', cbuf')
    PROVE  FInv'
<1>1. ASSUME NEW g \in Slots, "none" \notin docs'[g].flags
      PROVE  FitsAs(docs'[g], Data(g)', mem', cbuf')
  <2>1. CASE g \in H
    BY <1>1, <2>1
  <2>2. CASE g \notin H
    <3>1. docs'[g] = docs[g] /\ Live(g)
      BY <1>1, <2>2 DEF Live, Is
    <3>2. Untouched(g)
      BY <2>2, <3>1, OthersUntouched
    <3>3. Data(g)' = Data(g)
      BY <3>2 DEF Untouched
    <3>4. FitsAs(docs[g], Data(g), mem, cbuf)
      BY <3>1 DEF FInv
    <3>5. CASE Is(g, "RDONLY") \/ Is(g, "INLINE")
      BY <3>1, <3>3, <3>4, <3>5 DEF FitsAs, Is
    <3>6. CASE ~Is(g, "RDONLY") /\ ~Is(g, "INLINE")
      <4>1. docs[g].buf = CallersBuf \/ docs[g].buf.at = "block"
        BY <3>1, <3>6, LiveDocs
      <4>2. /\ RoomOf(docs[g], cbuf') = RoomOf(docs[g], cbuf)
            /\ PlaceOf(docs[g], cbuf') = PlaceOf(docs[g], cbuf)
            /\ BlockOf(docs[g].buf) = PlaceOf(docs[g], cbuf)
        BY <3>2, <3>6, <4>1 DEF Untouched, RoomOf, PlaceOf, BlockOf, CallersBuf
      <4>3. mem'[PlaceOf(docs[g], cbuf)] = mem[PlaceOf(docs[g], cbuf)]
        BY <3>2, <3>6, <4>2 DEF Untouched
      <4>4. QED
        BY <3>1, <3>3, <3>4, <3>6, <4>2, <4>3 DEF FitsAs, Is
    <3>7. QED
      BY <3>5, <3>6
  <2>3. QED
    BY <2>1, <2>2
<1>2. \A g \in Slots : Live(g)' <=> "none" \notin docs'[g].flags
  BY DEF Live, Is
<1>3. QED
  BY <1>1, <1>2 DEF FInv

LEMMA CallerKept ==
    ASSUME IInv, FInv, cbuf' = cbuf,
           cbuf.block \in DOMAIN mem => mem'[cbuf.block] = mem[cbuf.block]
    PROVE  CallerFitsAs(mem', cbuf')
<1>1. cbuf.block # Null => cbuf.block \in DOMAIN mem
  BY DEF IInv, Ledger, CallerBlocks
<1>2. QED
  BY <1>1 DEF FInv, CallerFitsAs

LEMMA MallocFacts ==
    ASSUME NEW m, NEW b, NEW size, NEW bytes
    PROVE  /\ DOMAIN Malloc(m, b, size, bytes) = DOMAIN m \cup {b}
           /\ Malloc(m, b, size, bytes)[b].size = size
           /\ Malloc(m, b, size, bytes)[b].bytes = bytes
           /\ \A c \in DOMAIN m : c # b => Malloc(m, b, size, bytes)[c] = m[c]
BY DEF Malloc

LEMMA FreeFacts ==
    ASSUME NEW m, NEW bs
    PROVE  /\ DOMAIN Free(m, bs) = DOMAIN m \ bs
           /\ \A c \in DOMAIN m \ bs : Free(m, bs)[c] = m[c]
BY DEF Free

(* A bson_t that was not in use gets these bytes.                          *)
LEMMA NewFits ==
    ASSUME IInv, FInv, NEW h \in Slots, ~Live(h), NEW d, NEW bytes,
           docs' = [docs EXCEPT ![h] = d], cbuf' = cbuf,
           \A b \in DOMAIN mem : mem'[b] = mem[b],
           DataIn(d.buf, docs', mem', cbuf') = bytes, FitsAs(d, bytes, mem', cbuf')
    PROVE  FInv'
<1>1. docs'[h] = d /\ \A g \in Slots \ {h} : docs'[g] = docs[g]
  BY DEF IInv, Types
<1>2. Touches({h}, {})
  BY <1>1 DEF Touches
<1>3. Data(h)' = bytes
  BY <1>1, DataIsIn
<1>4. CallerFitsAs(mem', cbuf')
  BY CallerKept
<1>5. QED
  BY <1>1, <1>2, <1>3, <1>4, FitsStep

LEMMA InlineFitsAs ==
    ASSUME NEW h, NEW struct, NEW bytes, Whole(bytes), Len(bytes) <= InlineSize,
           Len(bytes) <= MaxBytes, NEW ds, NEW m, NEW c
    PROVE  /\ FitsAs(InlineDoc(h, struct, bytes), bytes, m, c)
           /\ ds[h] = InlineDoc(h, struct, bytes)
                 => DataIn(InlineDoc(h, struct, bytes).buf, ds, m, c) = bytes
<1> DEFINE d == InlineDoc(h, struct, bytes)
<1>1. /\ d.len = Len(bytes) /\ d.inline = bytes /\ d.buf = Inline(h)
      /\ "INLINE" \in d.flags /\ "RDONLY" \notin d.flags
  BY DEF InlineDoc
<1> HIDE DEF d
<1>2. FitsAs(d, bytes, m, c)
  BY <1>1 DEF FitsAs
<1>3. ds[h] = d => DataIn(d.buf, ds, m, c) = bytes
  BY <1>1 DEF DataIn, Inline
<1>4. QED
  BY <1>2, <1>3 DEF d

(* The bytes of d are in block b, all of which it has.                     *)
InBlock(d, b, bytes, m) ==
    /\ Whole(bytes) /\ Len(bytes) <= MaxBytes
    /\ "RDONLY" \notin d.flags /\ "INLINE" \notin d.flags
    /\ d.buf = Block(b) /\ d.len = Len(bytes)
    /\ d.alloclen \in Nat /\ Len(bytes) <= d.alloclen
    /\ m[b].size = d.alloclen /\ m[b].bytes = bytes

LEMMA BlockFitsAs ==
    ASSUME NEW d, NEW b, NEW bytes, NEW m, InBlock(d, b, bytes, m), NEW c, NEW ds
    PROVE  FitsAs(d, bytes, m, c) /\ DataIn(d.buf, ds, m, c) = bytes
<1>1. RoomOf(d, c) = d.alloclen /\ PlaceOf(d, c) = b
  BY DEF InBlock, RoomOf, PlaceOf, Block, CallersBuf
<1>2. FitsAs(d, bytes, m, c)
  BY <1>1 DEF InBlock, FitsAs
<1>3. DataIn(d.buf, ds, m, c) = bytes
  BY DEF InBlock, DataIn, Block
<1>4. QED
  BY <1>2, <1>3

LEMMA LiveFits ==
    ASSUME FInv, NEW g \in Slots, Live(g)
    PROVE  /\ Whole(Data(g)) /\ docs[g].len = Len(Data(g))
           /\ docs[g].len \in Nat /\ docs[g].len >= 5
           /\ docs[g].len <= MaxBytes /\ docs[g].len <= Largest
<1>1. Whole(Data(g)) /\ docs[g].len = Len(Data(g)) /\ docs[g].len <= MaxBytes
  BY DEF FInv, FitsAs
<1>2. docs[g].len \in Nat /\ docs[g].len >= 5
  BY <1>1, WholeFacts
<1>3. QED
  BY <1>1, <1>2, LargestFacts

LEMMA InitFits ==
    ASSUME IInv, FInv, NEW h \in Slots, bson_init(h) \/ bson_new(h)
    PROVE  FInv'
<1> DEFINE d(struct) == InlineDoc(h, struct, EmptyDocument)
<1>1. Len(EmptyDocument) <= InlineSize /\ Len(EmptyDocument) <= MaxBytes
  BY EmptyWhole, SizesAssumption
<1>2. PICK struct : ~Live(h) /\ docs' = [docs EXCEPT ![h] = d(struct)] /\ cbuf' = cbuf
                    /\ \A b \in DOMAIN mem : mem'[b] = mem[b]
  <2>1. CASE bson_init(h)
    BY <2>1 DEF bson_init, Put
  <2>2. CASE bson_new(h)
    <3>1. ~Live(h) /\ docs' = [docs EXCEPT ![h] = d(Struct(h))] /\ cbuf' = cbuf
          /\ mem' = Malloc(mem, Struct(h), 0, <<>>)
      BY <2>2 DEF bson_new, Put
    <3>2. Struct(h) \notin DOMAIN mem
      BY <3>1, FreshStruct DEF IInv
    <3>3. QED
      BY <3>1, <3>2 DEF Malloc
  <2>3. QED
    BY <2>1, <2>2
<1>3. docs'[h] = d(struct)
  BY <1>2 DEF IInv, Types
<1> DEFINE e == d(struct)
<1>4. Whole(EmptyDocument) /\ docs'[h] = InlineDoc(h, struct, EmptyDocument)
  BY <1>3, EmptyWhole
<1>5. FitsAs(e, EmptyDocument, mem', cbuf') /\ DataIn(e.buf, docs', mem', cbuf') = EmptyDocument
  BY <1>1, <1>4, InlineFitsAs
<1>6. docs' = [docs EXCEPT ![h] = e]
  BY <1>2
<1> HIDE DEF d, e
<1>7. QED
  BY <1>2, <1>5, <1>6, NewFits

LEMMA SizedNewFits ==
    ASSUME IInv, FInv, NEW h \in Slots, ~Live(h), NEW size \in Nat, NEW bytes,
           Whole(bytes), Len(bytes) <= MaxBytes,
           size <= InlineSize => Len(bytes) <= InlineSize,
           size > InlineSize => Len(bytes) <= size,
           SizedNew(h, size, bytes), cbuf' = cbuf
    PROVE  FInv'
<1>1. Struct(h) \notin DOMAIN mem
  BY FreshStruct DEF IInv
<1>2. CASE size <= InlineSize
  <2> DEFINE d == InlineDoc(h, Struct(h), bytes)
  <2>1. /\ docs' = [docs EXCEPT ![h] = d]
        /\ mem' = Malloc(mem, Struct(h), 0, <<>>)
    BY <1>2 DEF SizedNew, Put
  <2>2. docs'[h] = d
    BY <2>1 DEF IInv, Types
  <2>3. FitsAs(d, bytes, mem', cbuf') /\ DataIn(d.buf, docs', mem', cbuf') = bytes
    BY <1>2, <2>2, InlineFitsAs
  <2> HIDE DEF d
  <2>4. \A b \in DOMAIN mem : mem'[b] = mem[b]
    BY <1>1, <2>1 DEF Malloc
  <2>5. QED
    BY <2>1, <2>3, <2>4, NewFits
<1>3. CASE ~(size <= InlineSize)
  <2> DEFINE F == Fresh("bytes")
             d == AllocDoc({}, Struct(h), Block(F), Len(bytes), size)
             m == Malloc(mem, Struct(h), 0, <<>>)
  <2>1. docs' = [docs EXCEPT ![h] = d] /\ mem' = Malloc(m, F, size, bytes)
    BY <1>3 DEF SizedNew, Put
  <2>2. F \in ByteBlocks /\ F \notin DOMAIN mem
    BY FreshBlock DEF IInv
  <2> HIDE DEF F
  <2>3. DOMAIN m = DOMAIN mem \cup {Struct(h)} /\ \A b \in DOMAIN mem : m[b] = mem[b]
    BY <1>1 DEF Malloc
  <2> HIDE DEF m
  <2>4. mem'[F].size = size /\ mem'[F].bytes = bytes /\ \A b \in DOMAIN mem : mem'[b] = mem[b]
    BY <2>1, <2>2, <2>3 DEF Malloc
  <2>5. Len(bytes) <= size
    BY <1>3, SizesAssumption
  <2>6. /\ "RDONLY" \notin d.flags /\ "INLINE" \notin d.flags /\ d.buf = Block(F)
        /\ d.len = Len(bytes) /\ d.alloclen = size
    BY DEF AllocDoc
  <2> HIDE DEF d
  <2>7. FitsAs(d, bytes, mem', cbuf') /\ DataIn(d.buf, docs', mem', cbuf') = bytes
    <3>1. InBlock(d, F, bytes, mem')
      BY <2>4, <2>5, <2>6 DEF InBlock
    <3>2. QED
      BY <3>1, BlockFitsAs
  <2>8. QED
    BY <2>1, <2>4, <2>7, NewFits
<1>4. QED
  BY <1>2, <1>3

LEMMA SizedCopyFits ==
    ASSUME IInv, FInv, NEW h \in Slots,
           \/ \E size \in Reserves : bson_sized_new(h, size)
           \/ \E g \in Slots : bson_copy(g, h)
    PROVE  FInv'
<1>1. ASSUME NEW size \in Reserves, bson_sized_new(h, size)
      PROVE  FInv'
  <2>1. ~Live(h) /\ SizedNew(h, size, EmptyDocument) /\ cbuf' = cbuf
    BY <1>1 DEF bson_sized_new
  <2>2. /\ size \in Nat /\ Len(EmptyDocument) <= MaxBytes /\ Len(EmptyDocument) <= InlineSize
        /\ size > InlineSize => Len(EmptyDocument) <= size
    BY SizesAssumption, EmptyWhole
  <2>3. QED
    BY <2>1, <2>2, EmptyWhole, SizedNewFits
<1>2. ASSUME NEW g \in Slots, bson_copy(g, h)
      PROVE  FInv'
  <2>1. ~Live(h) /\ Live(g) /\ SizedNew(h, docs[g].len, Data(g)) /\ cbuf' = cbuf
    BY <1>2 DEF bson_copy
  <2>2. /\ Whole(Data(g)) /\ docs[g].len = Len(Data(g)) /\ docs[g].len \in Nat
        /\ docs[g].len <= MaxBytes
    BY <2>1, LiveFits
  <2>3. QED
    BY <2>1, <2>2, SizedNewFits
<1>3. QED
  BY <1>1, <1>2

LEMMA CopyToFits ==
    ASSUME IInv, FInv, NEW g \in Slots, NEW h \in Slots, bson_copy_to(g, h)
    PROVE  FInv'
<1>1. Live(g) /\ ~Live(h) /\ CopiedTo(g, h) /\ cbuf' = cbuf
  BY DEF bson_copy_to
<1> DEFINE bytes == Data(g)
           len == docs[g].len
<1>2. /\ Whole(bytes) /\ len = Len(bytes) /\ len \in Nat /\ len <= MaxBytes /\ len <= Largest
  BY <1>1, LiveFits
<1>3. Is(g, "INLINE") => len <= InlineSize
  BY <1>1 DEF FInv, FitsAs, Is
<1> HIDE DEF bytes, len
<1>4. CASE Is(g, "INLINE")
  <2> DEFINE d == InlineDoc(h, Stack, bytes)
  <2>1. docs' = [docs EXCEPT ![h] = d] /\ mem' = mem
    BY <1>1, <1>4 DEF CopiedTo, Put, bytes
  <2>2. docs'[h] = d
    BY <2>1 DEF IInv, Types
  <2>3. FitsAs(d, bytes, mem', cbuf') /\ DataIn(d.buf, docs', mem', cbuf') = bytes
    BY <1>2, <1>3, <1>4, <2>2, InlineFitsAs
  <2> HIDE DEF d
  <2>4. QED
    BY <1>1, <2>1, <2>3, NewFits
<1>5. CASE ~Is(g, "INLINE")
  <2> DEFINE F == Fresh("bytes")
             size == PowerOfTwo(len)
             d == AllocDoc({"STATIC"}, Stack, Block(F), len, size)
  <2>1. docs' = [docs EXCEPT ![h] = d] /\ mem' = Malloc(mem, F, size, bytes)
    BY <1>1, <1>5 DEF CopiedTo, Put, bytes, len
  <2>2. F \notin DOMAIN mem
    BY FreshBlock DEF IInv
  <2>3. size \in Nat /\ len <= size
    BY <1>2, PowerFacts
  <2> HIDE DEF F, size
  <2>4. mem'[F].size = size /\ mem'[F].bytes = bytes /\ \A b \in DOMAIN mem : mem'[b] = mem[b]
    BY <2>1, <2>2 DEF Malloc
  <2>5. /\ "RDONLY" \notin d.flags /\ "INLINE" \notin d.flags /\ d.buf = Block(F)
        /\ d.len = len /\ d.alloclen = size
    BY DEF AllocDoc
  <2> HIDE DEF d
  <2>6. InBlock(d, F, bytes, mem')
    BY <1>2, <2>3, <2>4, <2>5 DEF InBlock
  <2>7. FitsAs(d, bytes, mem', cbuf') /\ DataIn(d.buf, docs', mem', cbuf') = bytes
    BY <2>6, BlockFitsAs
  <2>8. QED
    BY <1>1, <2>1, <2>4, <2>7, NewFits
<1>6. QED
  BY <1>4, <1>5

(* The bson_t that owns the bytes g has, be they its own or read in place. *)
LEMMA OwnerOfBytes ==
    ASSUME IInv, NEW g \in Slots, Live(g)
    PROVE  \E s \in Slots :
              /\ Live(s) /\ ~Is(s, "RDONLY")
              /\ \/ docs[s].buf = docs[g].buf
                 \/ docs[s].buf = CallersBuf /\ docs[g].buf = Block(cbuf.block)
BY DEF IInv, ViewsRight, Source

LEMMA InitStaticFits ==
    ASSUME IInv, FInv, NEW g \in Slots, NEW h \in Slots, bson_init_static(g, h)
    PROVE  FInv'
<1> DEFINE at == IF docs[g].buf = CallersBuf THEN Block(cbuf.block) ELSE docs[g].buf
           d0 == AllocDoc({"STATIC", "RDONLY"}, Stack, at, docs[g].len, docs[g].len)
           V  == {g} \cup docs[g].views
           d  == [d0 EXCEPT !.views = V]
<1>1. /\ Live(g) /\ ~Live(h) /\ docs' = [docs EXCEPT ![h] = d]
      /\ mem' = mem /\ cbuf' = cbuf
  BY DEF bson_init_static, Put
<1>2. /\ Whole(Data(g)) /\ docs[g].len = Len(Data(g)) /\ docs[g].len <= MaxBytes
  BY <1>1, LiveFits
<1>3. DataIn(at, docs, mem, cbuf) = Data(g)
  BY DataIsIn, SMTT(40) DEF DataIn, CallersBuf, Block
<1>4. at.at = "inline" => at.of \in Slots /\ at.of # h
  <2> SUFFICES ASSUME at.at = "inline" PROVE at.of \in Slots /\ at.of # h
    OBVIOUS
  <2>1. docs[g].buf = at
    BY DEF Block
  <2> HIDE DEF at
  <2>2. PICK s \in Slots :
              /\ Live(s) /\ ~Is(s, "RDONLY")
              /\ \/ docs[s].buf = docs[g].buf
                 \/ docs[s].buf = CallersBuf /\ docs[g].buf = Block(cbuf.block)
    BY <1>1, OwnerOfBytes
  <2>3. docs[s].buf = at
    BY <2>1, <2>2 DEF Block
  <2>4. docs[s].buf = Inline(s)
    BY <2>2, <2>3, LiveDocs DEF CallersBuf
  <2>5. at.of = s
    BY <2>3, <2>4 DEF Inline
  <2>6. QED
    BY <1>1, <2>2, <2>5
<1>5. \A x \in Slots : x # h => docs'[x] = docs[x]
  BY <1>1 DEF IInv, Types
<1> HIDE DEF at, V
<1>6. DataIn(at, docs', mem', cbuf') = Data(g)
  BY <1>1, <1>3, <1>4, <1>5 DEF DataIn
<1>7. /\ d.flags = {"STATIC", "RDONLY"} /\ d.buf = at
      /\ d.len = docs[g].len /\ d.alloclen = docs[g].len
  BY DEF AllocDoc
<1> HIDE DEF d
<1>8. FitsAs(d, Data(g), mem', cbuf')
  BY <1>2, <1>7 DEF FitsAs
<1>9. QED
  BY <1>1, <1>6, <1>7, <1>8, NewFits

LEMMA LengthIs ==
    ASSUME NEW bytes, Whole(bytes)
    PROVE  Length(bytes, 0) = Len(bytes)
<1> DEFINE w == [raw |-> 0, len |-> Len(bytes)]
<1>1. Iter(bytes)!U32(bytes, w, 0) = Len(bytes)
  BY DEF Whole, IsDocument, Iter!Acceptable
<1>2. Length(bytes, 0) = U32(bytes, w, 0)
  BY DEF Length
<1> HIDE DEF w
<1>3. \A i : Iter(bytes)!At(bytes, w, i) = At(bytes, w, i)
  BY DEF Iter!At, At
<1>4. Iter(bytes)!U32(bytes, w, 0) = U32(bytes, w, 0)
  BY <1>3, SMT DEF Iter!U32, U32, Iter!Huge, Huge
<1>5. QED
  BY <1>1, <1>2, <1>4

(* The caller's buffer is a block with these bytes, all of which it knows. *)
HasBytes(bytes, size, m, c) ==
    /\ Whole(bytes) /\ Len(bytes) <= MaxBytes /\ size \in Nat /\ Len(bytes) <= size
    /\ c.len = size /\ m[c.block].size = size /\ m[c.block].bytes = bytes

LEMMA HasBytesFits ==
    ASSUME NEW bytes, NEW size, NEW m, NEW c, HasBytes(bytes, size, m, c)
    PROVE  CallerFitsAs(m, c)
BY DEF HasBytes, CallerFitsAs

(* The bytes of d are those of the caller's buffer.                        *)
LentAs(d, bytes, m, c) ==
    /\ "RDONLY" \notin d.flags /\ "INLINE" \notin d.flags /\ d.buf = CallersBuf
    /\ c.block # Null /\ m[c.block].bytes = bytes /\ d.len = Len(bytes)
    /\ CallerFitsAs(m, c)

LEMMA LentFitsAs ==
    ASSUME NEW d, NEW bytes, NEW m, NEW c, LentAs(d, bytes, m, c), NEW ds
    PROVE  FitsAs(d, bytes, m, c) /\ DataIn(d.buf, ds, m, c) = bytes
<1>1. RoomOf(d, c) = c.len /\ PlaceOf(d, c) = c.block
  BY DEF LentAs, RoomOf, PlaceOf, CallersBuf
<1>2. /\ Whole(bytes) /\ Len(bytes) <= MaxBytes /\ c.len \in Nat /\ Len(bytes) <= c.len
      /\ m[c.block].size \in Nat /\ c.len <= m[c.block].size
  BY DEF LentAs, CallerFitsAs
<1>3. FitsAs(d, bytes, m, c)
  BY <1>1, <1>2 DEF LentAs, FitsAs
<1>4. DataIn(d.buf, ds, m, c) = bytes
  BY DEF LentAs, DataIn, CallersBuf
<1>5. QED
  BY <1>3, <1>4

(* The bson_t in slot h is now d, with these bytes.                        *)
LEMMA PutFits ==
    ASSUME IInv, FInv, NEW h \in Slots, NEW d, NEW bytes,
           docs' = [docs EXCEPT ![h] = d], NEW touched, Touches({h}, touched),
           DataIn(d.buf, docs', mem', cbuf') = bytes, FitsAs(d, bytes, mem', cbuf'),
           CallerFitsAs(mem', cbuf')
    PROVE  FInv'
<1>1. docs'[h] = d /\ \A g \in Slots \ {h} : docs'[g] = docs[g]
  BY DEF IInv, Types
<1>2. Data(h)' = bytes
  BY <1>1, DataIsIn
<1>3. QED
  BY <1>1, <1>2, FitsStep

LEMMA NewFromBufferFits ==
    ASSUME IInv, FInv, NEW h \in Slots, bson_new_from_buffer(h)
    PROVE  FInv'
<1>1. ~Live(h) /\ Lent = {}
  BY DEF bson_new_from_buffer
<1>2. Struct(h) \notin DOMAIN mem
  BY <1>1, FreshStruct DEF IInv
<1> DEFINE m == Malloc(mem, Struct(h), 0, <<>>)
<1>3. DOMAIN m = DOMAIN mem \cup {Struct(h)} /\ \A b \in DOMAIN mem : m[b] = mem[b]
  BY <1>2 DEF Malloc
<1>4. ASSUME \A b \in DOMAIN mem : mem'[b] = mem[b],
             NEW d, docs' = [docs EXCEPT ![h] = d]
      PROVE  Touches({h}, {})
  BY <1>1, <1>4 DEF IInv, Types, Touches
<1>5. CASE cbuf.block = Null
  <2> DEFINE F == Fresh("bytes")
             d == AllocDoc({"NO_FREE"}, Struct(h), CallersBuf, 5, 0)
  <2>1. /\ mem' = Malloc(m, F, 5, EmptyDocument)
        /\ cbuf' = [block |-> F, len |-> 5] /\ docs' = [docs EXCEPT ![h] = d]
    BY <1>5 DEF bson_new_from_buffer, Put
  <2>2. F \in ByteBlocks /\ F \notin DOMAIN mem
    BY FreshBlock DEF IInv
  <2> HIDE DEF F, m
  <2>3. /\ mem'[F].size = 5 /\ mem'[F].bytes = EmptyDocument
        /\ \A b \in DOMAIN mem : mem'[b] = mem[b]
    BY <1>3, <2>1, <2>2 DEF Malloc
  <2>4. F # Null /\ cbuf'.block = F /\ cbuf'.len = 5
    BY <2>1, <2>2, Apart
  <2>5. CallerFitsAs(mem', cbuf')
    <3>1. /\ Whole(EmptyDocument) /\ Len(EmptyDocument) <= MaxBytes
          /\ Len(EmptyDocument) <= 5 /\ 5 \in Nat
      BY EmptyWhole, SizesAssumption
    <3>2. HasBytes(EmptyDocument, 5, mem', cbuf')
      BY <2>3, <2>4, <3>1 DEF HasBytes
    <3>3. QED
      BY <3>2, HasBytesFits
  <2>6. /\ "RDONLY" \notin d.flags /\ "INLINE" \notin d.flags /\ d.buf = CallersBuf
        /\ d.len = 5
    BY DEF AllocDoc
  <2> HIDE DEF d
  <2>7. LentAs(d, EmptyDocument, mem', cbuf')
    BY <2>3, <2>4, <2>5, <2>6, EmptyWhole DEF LentAs
  <2>8. FitsAs(d, EmptyDocument, mem', cbuf') /\ DataIn(d.buf, docs', mem', cbuf') = EmptyDocument
    BY <2>7, LentFitsAs
  <2>9. Touches({h}, {})
    BY <1>4, <2>1, <2>3
  <2>10. QED
    BY <2>1, <2>5, <2>8, <2>9, PutFits
<1>6. CASE cbuf.block # Null
  <2> DEFINE bytes == mem[cbuf.block].bytes
             d == AllocDoc({"NO_FREE"}, Struct(h), CallersBuf, Length(bytes, 0), 0)
  <2>1. mem' = m /\ cbuf' = cbuf /\ docs' = [docs EXCEPT ![h] = d]
    BY <1>6 DEF bson_new_from_buffer, Put
  <2>2. cbuf.block \in DOMAIN mem
    BY <1>6 DEF IInv, Ledger, CallerBlocks
  <2> HIDE DEF m
  <2>3. mem'[cbuf'.block] = mem[cbuf.block] /\ \A b \in DOMAIN mem : mem'[b] = mem[b]
    BY <1>3, <2>1, <2>2
  <2>4. CallerFitsAs(mem', cbuf')
    BY <2>1, <2>3, CallerKept
  <2>5. Length(bytes, 0) = Len(bytes)
    <3>1. Whole(bytes)
      BY <1>6 DEF FInv, CallerFitsAs
    <3>2. QED
      BY <3>1, LengthIs
  <2>6. /\ "RDONLY" \notin d.flags /\ "INLINE" \notin d.flags /\ d.buf = CallersBuf
        /\ d.len = Len(bytes)
    BY <2>5 DEF AllocDoc
  <2>7. mem'[cbuf'.block].bytes = bytes
    BY <2>3
  <2> HIDE DEF d, bytes
  <2>8. LentAs(d, bytes, mem', cbuf')
    BY <1>6, <2>1, <2>4, <2>6, <2>7 DEF LentAs
  <2>9. FitsAs(d, bytes, mem', cbuf') /\ DataIn(d.buf, docs', mem', cbuf') = bytes
    BY <2>8, LentFitsAs
  <2>10. Touches({h}, {})
    BY <1>4, <2>1, <2>3
  <2>11. QED
    BY <2>1, <2>4, <2>9, <2>10, PutFits
<1>7. QED
  BY <1>5, <1>6

-----------------------------------------------------------------------------
(* Every block is a size and bytes.                                        *)
AreBlocks(m) == \A b \in DOMAIN m : m[b] = [size |-> m[b].size, bytes |-> m[b].bytes]

LEMMA MallocBlocks ==
    ASSUME NEW m, AreBlocks(m), NEW b, NEW size, NEW bytes
    PROVE  AreBlocks(Malloc(m, b, size, bytes))
BY DEF AreBlocks, Malloc

LEMMA FreeBlocks ==
    ASSUME NEW m, AreBlocks(m), NEW bs
    PROVE  AreBlocks(Free(m, bs))
BY DEF AreBlocks, Free

(* What a call that writes in place does to the block of the bytes.        *)
Rewritten(m, b, bytes) == [m EXCEPT ![b].bytes = bytes]

LEMMA RewrittenFacts ==
    ASSUME NEW m, AreBlocks(m), NEW b, NEW bytes
    PROVE  /\ DOMAIN Rewritten(m, b, bytes) = DOMAIN m
           /\ \A c \in DOMAIN m : c # b => Rewritten(m, b, bytes)[c] = m[c]
           /\ b \in DOMAIN m => Rewritten(m, b, bytes)[b] = [size |-> m[b].size, bytes |-> bytes]
           /\ AreBlocks(Rewritten(m, b, bytes))
<1> DEFINE new == [m[b] EXCEPT !.bytes = bytes]
           r == Rewritten(m, b, bytes)
<1>1. b \in DOMAIN m => new = [size |-> m[b].size, bytes |-> bytes]
  <2>1. ASSUME NEW x, x = [size |-> x.size, bytes |-> x.bytes]
        PROVE  [x EXCEPT !.bytes = bytes] = [size |-> x.size, bytes |-> bytes]
    BY <2>1, SMT
  <2>2. QED
    BY <2>1 DEF AreBlocks
<1>2. r = [m EXCEPT ![b] = new]
  BY DEF Rewritten
<1> HIDE DEF new, r
<1>3. DOMAIN r = DOMAIN m /\ \A c \in DOMAIN m : r[c] = IF c = b THEN new ELSE m[c]
  BY <1>2
<1>4. AreBlocks(r)
  BY <1>1, <1>3 DEF AreBlocks
<1>5. QED
  BY <1>1, <1>3, <1>4 DEF r

LEMMA AppendBlocks ==
    ASSUME AreBlocks(mem), NEW h, NEW d, NEW data, NEW call, _bson_append(h, d, data, call)
    PROVE  AreBlocks(mem')
<1>1. \/ mem' = mem
      \/ \E b, bytes : mem' = Rewritten(mem, b, bytes)
      \/ \E b, size, bytes : mem' = Malloc(mem, b, size, bytes)
      \/ \E a, b, size, bytes : mem' = Malloc(Free(mem, {a}), b, size, bytes)
  BY DEF _bson_append, InPlace, Spilled, Moved, Rewritten
<1>2. QED
  BY <1>1, MallocBlocks, FreeBlocks, RewrittenFacts

LEMMA CreateBlocks ==
    ASSUME AreBlocks(mem), Create
    PROVE  AreBlocks(mem')
<1>1. CASE \/ mem' = mem
           \/ \E b, size, bytes : mem' = Malloc(mem, b, size, bytes)
           \/ \E a, b, s, t, x, y : mem' = Malloc(Malloc(mem, a, s, x), b, t, y)
  BY <1>1, MallocBlocks
<1>2. CASE \E h, d, data, call : _bson_append(h, d, data, call)
  BY <1>2, AppendBlocks
<1>3. QED
  BY <1>1, <1>2
     DEF Create, bson_init, bson_new, bson_new_from_buffer, bson_sized_new, bson_copy,
         SizedNew, bson_copy_to, CopiedTo, bson_init_static, bson_copy_to_excluding

LEMMA ChangeBlocks ==
    ASSUME AreBlocks(mem), Change
    PROVE  AreBlocks(mem')
<1>1. CASE \/ mem' = mem
           \/ \E b, bytes : mem' = Rewritten(mem, b, bytes)
  BY <1>1, RewrittenFacts
<1>2. CASE \E h, d, data, call : _bson_append(h, d, data, call)
  BY <1>2, AppendBlocks
<1>3. QED
  BY <1>1, <1>2
     DEF Change, bson_reinit, InPlace, Rewritten, AppendValue, bson_concat, AppendIter,
         bson_copy_to_excluding_noinit

LEMMA OtherBlocks ==
    ASSUME AreBlocks(mem), Destroy \/ FreeBuffer \/ UseValue
    PROVE  AreBlocks(mem')
<1>1. CASE \/ mem' = mem
           \/ \E bs : mem' = Free(mem, bs)
           \/ \E bs, b, size, bytes : mem' = Malloc(Free(mem, bs), b, size, bytes)
  BY <1>1, MallocBlocks, FreeBlocks
<1>2. CASE bson_value_copy
  BY <1>2 DEF bson_value_copy, AreBlocks
<1>3. QED
  BY <1>1, <1>2
     DEF Destroy, bson_destroy, bson_destroy_with_steal, bson_steal, FreeBuffer, UseValue,
         BorrowValue, bson_value_destroy

LEMMA BlocksAlways == Spec => []AreBlocks(mem)
<1>1. Init => AreBlocks(mem)
  BY DEF Init, AreBlocks
<1>2. AreBlocks(mem) /\ [Next]_vars => AreBlocks(mem)'
  BY CreateBlocks, ChangeBlocks, OtherBlocks DEF Next, vars, AreBlocks
<1>3. QED
  BY <1>1, <1>2, PTL DEF Spec

-----------------------------------------------------------------------------
(* What a call that writes makes of the other fields of a bson_t.          *)
LEMMA OtherFields ==
    ASSUME NEW d, IsDoc(d), NEW x, NEW b, NEW size
    PROVE  /\ LET e == [d EXCEPT !.len = x]
              IN  e.len = x /\ e.flags = d.flags /\ e.buf = d.buf /\ e.alloclen = d.alloclen
           /\ LET e == [d EXCEPT !.inline = x]
              IN  e.len = d.len /\ e.flags = d.flags /\ e.buf = d.buf /\ e.inline = x
           /\ LET e == WithBuffer(d, b, size)
              IN  e.len = d.len /\ e.flags = d.flags /\ e.buf = b /\ e.alloclen = size
           /\ LET e == WithSpill(d, b, size)
              IN  /\ e.len = d.len /\ e.flags = d.flags \ {"INLINE"}
                  /\ e.buf = b /\ e.alloclen = size
<1>1. LET e == [d EXCEPT !.len = x]
      IN  e.len = x /\ e.flags = d.flags /\ e.buf = d.buf /\ e.alloclen = d.alloclen
  BY SMT DEF IsDoc
<1>2. LET e == [d EXCEPT !.inline = x]
      IN  e.len = d.len /\ e.flags = d.flags /\ e.buf = d.buf /\ e.inline = x
  BY SMT DEF IsDoc
<1>3. LET e == WithBuffer(d, b, size)
      IN  e.len = d.len /\ e.flags = d.flags /\ e.buf = b /\ e.alloclen = size
  BY SMT DEF IsDoc, WithBuffer
<1>4. LET e == WithSpill(d, b, size)
      IN  e.len = d.len /\ e.flags = d.flags \ {"INLINE"} /\ e.buf = b /\ e.alloclen = size
  BY SMT DEF IsDoc, WithSpill
<1>5. QED
  BY <1>1, <1>2, <1>3, <1>4

(* The block of the bytes that a call may write.                           *)
LEMMA WritableBlock ==
    ASSUME IInv, NEW h \in Slots, NEW d, WritableAs(h, d), "INLINE" \notin d.flags
    PROVE  /\ BlockOf(d.buf) \in DOMAIN mem /\ BlockOf(d.buf) = PlaceOf(d, cbuf)
           /\ \/ d.buf = CallersBuf /\ BlockOf(d.buf) = cbuf.block /\ cbuf.block \in CallerBlocks
              \/ /\ d.buf # CallersBuf /\ d.buf = Block(BlockOf(d.buf))
                 /\ BlockOf(d.buf) \in DocBlocks(docs[h]) /\ BlockOf(d.buf) # cbuf.block
<1>1. DocOk(d, h) /\ "RDONLY" \notin d.flags /\ DocBlocks(docs[h]) = DocBlocks(d)
  BY DEF WritableAs
<1>2. BlockOf(d.buf) = PlaceOf(d, cbuf)
  BY DEF BlockOf, PlaceOf
<1>3. CASE d.buf = CallersBuf
  <2>1. cbuf.block # Null
    BY <1>3, WritableLent
  <2>2. cbuf.block \in CallerBlocks /\ BlockOf(d.buf) = cbuf.block
    BY <1>3, <2>1 DEF CallerBlocks, BlockOf, CallersBuf
  <2>3. cbuf.block \in DOMAIN mem
    BY <2>2 DEF IInv, Ledger
  <2>4. QED
    BY <1>2, <1>3, <2>2, <2>3
<1>4. CASE d.buf # CallersBuf
  <2>1. d.buf \in {Block(b) : b \in ByteBlocks}
    BY <1>1, <1>4 DEF DocOk
  <2>2. /\ BlockOf(d.buf) = d.buf.of /\ d.buf = Block(d.buf.of) /\ d.buf.at = "block"
        /\ d.buf.of \in ByteBlocks
    BY <2>1 DEF BlockOf, Block
  <2>3. d.buf.of \in DocBlocks(docs[h])
    BY <1>1, <2>2 DEF DocBlocks, DocOk
  <2>4. d.buf.of \in DOMAIN mem /\ d.buf.of \notin CallerBlocks
    BY <2>3 DEF IInv, Ledger
  <2>5. d.buf.of # cbuf.block
    BY <2>2, <2>4, Apart DEF CallerBlocks
  <2>6. QED
    BY <1>2, <1>4, <2>2, <2>3, <2>4, <2>5
<1>5. QED
  BY <1>3, <1>4

LEMMA WriteTouches ==
    ASSUME IInv, NEW h \in Slots, NEW d, WritableAs(h, d), NEW e,
           docs' = [docs EXCEPT ![h] = e], NEW touched,
           touched = {} \/ (touched = {BlockOf(d.buf)} /\ "INLINE" \notin d.flags),
           \A b \in DOMAIN mem \ touched : mem'[b] = mem[b],
           d.buf = CallersBuf \/ cbuf' = cbuf
    PROVE  Touches({h}, touched)
<1>1. \A g \in Slots \ {h} : docs'[g] = docs[g]
  BY DEF IInv, Types
<1>2. \A g \in Slots \ {h} : touched \cap DocBlocks(docs[g]) = {}
  <2> SUFFICES ASSUME NEW g \in Slots \ {h}, touched # {}
               PROVE  touched \cap DocBlocks(docs[g]) = {}
    OBVIOUS
  <2>1. touched = {BlockOf(d.buf)} /\ "INLINE" \notin d.flags
    OBVIOUS
  <2>2. BlockOf(d.buf) \in CallerBlocks \/ BlockOf(d.buf) \in DocBlocks(docs[h])
    BY <2>1, WritableBlock
  <2>3. BlockOf(d.buf) \notin DocBlocks(docs[g])
    BY <2>2 DEF IInv, Ledger
  <2>4. QED
    BY <2>1, <2>3
<1>3. Live(h) => ~Borrowed(h)
  BY DEF WritableAs
<1>4. Lent \subseteq {h} \/ (cbuf' = cbuf /\ cbuf.block \notin touched)
  <2>1. CASE d.buf = CallersBuf
    BY <2>1, WritableLent
  <2>2. CASE d.buf # CallersBuf
    BY <2>2, WritableBlock
  <2>3. QED
    BY <2>1, <2>2
<1>5. QED
  BY <1>1, <1>2, <1>3, <1>4 DEF Touches

(* The bytes to write to d, and the room that d counts with.               *)
Written(d, bytes) == Whole(bytes) /\ d.len = Len(bytes) /\ Len(bytes) <= MaxBytes

Roomy(d) ==
    "INLINE" \notin d.flags =>
        /\ RoomOf(d, cbuf) \in Nat /\ mem[PlaceOf(d, cbuf)].size \in Nat
        /\ RoomOf(d, cbuf) <= mem[PlaceOf(d, cbuf)].size

InRoom(d, bytes) == Len(bytes) <= (IF "INLINE" \in d.flags THEN InlineSize ELSE RoomOf(d, cbuf))

LEMMA InPlaceFits ==
    ASSUME IInv, FInv, AreBlocks(mem), NEW h \in Slots, NEW d, WritableAs(h, d), NEW bytes,
           Written(d, bytes), Roomy(d), InRoom(d, bytes), InPlace(h, d, bytes)
    PROVE  FInv'
<1>1. /\ cbuf' = cbuf /\ DocOk(d, h) /\ IsDoc(d) /\ "RDONLY" \notin d.flags
  BY DEF InPlace, WritableAs, DocOk
<1>2. CASE "INLINE" \in d.flags
  <2> DEFINE e == [d EXCEPT !.inline = bytes]
  <2>1. docs' = [docs EXCEPT ![h] = e] /\ mem' = mem
    BY <1>2 DEF InPlace, Put
  <2>2. e.len = d.len /\ e.flags = d.flags /\ e.buf = d.buf /\ e.inline = bytes
    BY <1>1, OtherFields
  <2> HIDE DEF e
  <2>3. Touches({h}, {})
    BY <1>1, <2>1, WriteTouches
  <2>4. CallerFitsAs(mem', cbuf')
    BY <1>1, <2>1, CallerKept
  <2>5. FitsAs(e, bytes, mem', cbuf')
    BY <1>1, <1>2, <2>2 DEF FitsAs, Written, InRoom
  <2>6. docs'[h] = e /\ e.buf = Inline(h)
    BY <1>1, <1>2, <2>1, <2>2 DEF IInv, Types, DocOk
  <2>7. DataIn(e.buf, docs', mem', cbuf') = bytes
    BY <2>2, <2>6 DEF DataIn, Inline
  <2>8. QED
    BY <2>1, <2>3, <2>4, <2>5, <2>7, PutFits
<1>3. CASE "INLINE" \notin d.flags
  <2> DEFINE B == BlockOf(d.buf)
  <2>1. docs' = [docs EXCEPT ![h] = d] /\ mem' = Rewritten(mem, B, bytes)
    BY <1>3 DEF InPlace, Put, Rewritten
  <2>2. /\ B \in DOMAIN mem /\ B = PlaceOf(d, cbuf)
        /\ \/ d.buf = CallersBuf /\ B = cbuf.block
           \/ d.buf # CallersBuf /\ d.buf = Block(B) /\ B # cbuf.block
    BY <1>3, WritableBlock
  <2> HIDE DEF B
  <2>3. /\ mem'[B] = [size |-> mem[B].size, bytes |-> bytes]
        /\ \A b \in DOMAIN mem \ {B} : mem'[b] = mem[b]
    BY <2>1, <2>2, RewrittenFacts
  <2>4. mem'[B].size = mem[B].size /\ mem'[B].bytes = bytes
    BY <2>3
  <2>5. Touches({h}, {B})
    BY <1>1, <1>3, <2>1, <2>3, WriteTouches DEF B
  <2>6. FitsAs(d, bytes, mem', cbuf')
    BY <1>1, <1>3, <2>2, <2>4 DEF FitsAs, Written, InRoom, Roomy
  <2>7. DataIn(d.buf, docs', mem', cbuf') = bytes
    BY <1>1, <2>2, <2>4 DEF DataIn, CallersBuf, Block
  <2>8. CallerFitsAs(mem', cbuf')
    <3>1. CASE d.buf = CallersBuf
      <4>1. B = cbuf.block /\ RoomOf(d, cbuf) = cbuf.len
        BY <2>2, <3>1 DEF RoomOf
      <4>2. QED
        BY <1>1, <1>3, <2>2, <2>4, <4>1 DEF CallerFitsAs, Written, InRoom, Roomy
    <3>2. CASE d.buf # CallersBuf
      BY <1>1, <2>2, <2>3, <3>2, CallerKept
    <3>3. QED
      BY <3>1, <3>2
  <2>9. QED
    BY <2>1, <2>5, <2>6, <2>7, <2>8, PutFits
<1>4. QED
  BY <1>2, <1>3

LEMMA SpilledFits ==
    ASSUME IInv, FInv, NEW h \in Slots, NEW d, WritableAs(h, d), "INLINE" \in d.flags,
           NEW bytes, Written(d, bytes), NEW size \in Nat, Len(bytes) <= size,
           Spilled(h, d, size, bytes)
    PROVE  FInv'
<1> DEFINE F == Fresh("bytes")
           e == WithSpill(d, Block(F), size)
<1>1. /\ docs' = [docs EXCEPT ![h] = e] /\ cbuf' = cbuf
      /\ mem' = Malloc(mem, F, size, bytes)
  BY DEF Spilled, Put, WithSpill
<1>2. F \notin DOMAIN mem
  BY FreshBlock DEF IInv
<1> HIDE DEF F
<1>3. IsDoc(d) /\ "RDONLY" \notin d.flags
  BY DEF WritableAs, DocOk
<1>4. e.len = d.len /\ e.flags = d.flags \ {"INLINE"} /\ e.buf = Block(F) /\ e.alloclen = size
  BY <1>3, OtherFields
<1> HIDE DEF e
<1>5. /\ mem'[F].size = size /\ mem'[F].bytes = bytes
      /\ \A b \in DOMAIN mem : mem'[b] = mem[b]
  BY <1>1, <1>2 DEF Malloc
<1>6. InBlock(e, F, bytes, mem')
  BY <1>3, <1>4, <1>5 DEF InBlock, Written
<1>7. FitsAs(e, bytes, mem', cbuf') /\ DataIn(e.buf, docs', mem', cbuf') = bytes
  BY <1>6, BlockFitsAs
<1>8. Touches({h}, {})
  BY <1>1, <1>5, WriteTouches
<1>9. CallerFitsAs(mem', cbuf')
  BY <1>1, <1>5, CallerKept
<1>10. QED
  BY <1>1, <1>7, <1>8, <1>9, PutFits

LEMMA MovedFits ==
    ASSUME IInv, FInv, NEW h \in Slots, NEW d, WritableAs(h, d), "INLINE" \notin d.flags,
           NEW bytes, Written(d, bytes), NEW size \in Nat, Len(bytes) <= size,
           Moved(h, d, size, bytes)
    PROVE  FInv'
<1> DEFINE F == Fresh("bytes")
           B == BlockOf(d.buf)
           e == WithBuffer(d, Block(F), size)
           m == Free(mem, {B})
<1>1. mem' = Malloc(m, F, size, bytes)
  BY DEF Moved
<1>2. F \notin DOMAIN mem /\ F # Null
  BY FreshBlock, Apart DEF IInv
<1>3. IsDoc(d) /\ "RDONLY" \notin d.flags
  BY DEF WritableAs, DocOk
<1>4. /\ B \in DOMAIN mem
      /\ \/ d.buf = CallersBuf /\ B = cbuf.block
         \/ d.buf # CallersBuf /\ B # cbuf.block
  BY WritableBlock
<1>5. d.buf = CallersBuf \/ cbuf' = cbuf
  BY DEF Moved
<1>6. DOMAIN m = DOMAIN mem \ {B} /\ \A b \in DOMAIN mem \ {B} : m[b] = mem[b]
  BY DEF Free
<1>7. CASE d.buf = CallersBuf
  <2>1. docs' = [docs EXCEPT ![h] = d] /\ cbuf' = [block |-> F, len |-> size]
    BY <1>7 DEF Moved, Put
  <2> HIDE DEF F, m
  <2>2. /\ mem'[F].size = size /\ mem'[F].bytes = bytes
        /\ \A b \in DOMAIN mem \ {B} : mem'[b] = mem[b]
    BY <1>1, <1>2, <1>6 DEF Malloc
  <2>3. cbuf'.block = F /\ cbuf'.len = size
    BY <2>1
  <2>4. HasBytes(bytes, size, mem', cbuf')
    BY <2>2, <2>3 DEF HasBytes, Written
  <2>5. CallerFitsAs(mem', cbuf')
    BY <2>4, HasBytesFits
  <2>6. LentAs(d, bytes, mem', cbuf')
    BY <1>2, <1>3, <1>7, <2>2, <2>3, <2>5 DEF LentAs, Written
  <2>7. FitsAs(d, bytes, mem', cbuf') /\ DataIn(d.buf, docs', mem', cbuf') = bytes
    BY <2>6, LentFitsAs
  <2>8. Touches({h}, {B})
    BY <1>7, <2>1, <2>2, WriteTouches
  <2>9. QED
    BY <2>1, <2>5, <2>7, <2>8, PutFits
<1>8. CASE d.buf # CallersBuf
  <2>1. docs' = [docs EXCEPT ![h] = e] /\ cbuf' = cbuf
    BY <1>8 DEF Moved, Put, WithBuffer
  <2> HIDE DEF F, m
  <2>2. /\ mem'[F].size = size /\ mem'[F].bytes = bytes
        /\ \A b \in DOMAIN mem \ {B} : mem'[b] = mem[b]
    BY <1>1, <1>2, <1>6 DEF Malloc
  <2>3. e.len = d.len /\ e.flags = d.flags /\ e.buf = Block(F) /\ e.alloclen = size
    BY <1>3, OtherFields
  <2> HIDE DEF e
  <2>4. InBlock(e, F, bytes, mem')
    BY <1>3, <2>2, <2>3 DEF InBlock, Written
  <2>5. FitsAs(e, bytes, mem', cbuf') /\ DataIn(e.buf, docs', mem', cbuf') = bytes
    BY <2>4, BlockFitsAs
  <2>6. Touches({h}, {B})
    BY <2>1, <2>2, WriteTouches
  <2>7. CallerFitsAs(mem', cbuf')
    BY <1>4, <1>8, <2>1, <2>2, CallerKept
  <2>8. QED
    BY <2>1, <2>5, <2>6, <2>7, PutFits
<1>9. QED
  BY <1>7, <1>8

(* What _bson_append is told to reserve is enough for what it copies.      *)
Reserving(call) ==
    call.bytes \in Seq(Octets) /\ call.n_bytes \in Nat /\ Len(call.bytes) <= call.n_bytes

LEMMA AppendFits ==
    ASSUME IInv, FInv, AreBlocks(mem), NEW h \in Slots, NEW d, WritableAs(h, d), Roomy(d),
           NEW data, Whole(data), d.len = Len(data), NEW call, Reserving(call),
           d.len + call.n_bytes <= MaxBytes, _bson_append(h, d, data, call)
    PROVE  FInv'
<1> DEFINE bytes == Sealed(d, data, call)
           need == d.len + call.n_bytes
           size == PowerOfTwo(need)
           e == [d EXCEPT !.len = Len(bytes)]
<1>1. /\ Len(data) \in Nat /\ Len(call.bytes) \in Nat /\ call.n_bytes \in Nat
      /\ Len(call.bytes) <= call.n_bytes /\ call.bytes \in Seq(Octets)
      /\ MaxBytes \in Nat /\ MaxBytes <= Largest
  BY WholeFacts, LenProperties, LargestFacts DEF Reserving
<1>2. need \in Nat /\ need <= MaxBytes /\ need <= Largest /\ Len(data) + Len(call.bytes) <= need
  BY <1>1, LargestFacts
<1>3. Len(data) + Len(call.bytes) <= Largest
  BY <1>1, <1>2, LargestFacts
<1>4. Whole(bytes) /\ Len(bytes) = Len(data) + Len(call.bytes)
  BY <1>1, <1>3, SealedFacts
<1>5. size \in Nat /\ need <= size
  BY <1>2, PowerFacts
<1>6. Len(bytes) \in Nat /\ Len(bytes) <= need /\ Len(bytes) <= size /\ Len(bytes) <= MaxBytes
  BY <1>1, <1>2, <1>4, <1>5
<1>7. /\ IF need <= (IF "INLINE" \in d.flags THEN InlineSize ELSE BufLen(d))
         THEN InPlace(h, e, bytes)
         ELSE IF "INLINE" \in d.flags THEN Spilled(h, e, size, bytes)
                                      ELSE Moved(h, e, size, bytes)
  BY DEF _bson_append
<1>8. IsDoc(d)
  BY DEF WritableAs, DocOk
<1>9. e.len = Len(bytes) /\ e.flags = d.flags /\ e.buf = d.buf /\ e.alloclen = d.alloclen
  BY <1>8, OtherFields
<1>10. WritableAs(h, e)
  <2>1. SameOwner(d, e)
    BY FieldsPut DEF WritableAs
  <2> HIDE DEF e
  <2>2. QED
    BY <1>9, <2>1, SameOwnerFacts DEF WritableAs
<1> HIDE DEF e, bytes, size, need
<1>11. Written(e, bytes)
  BY <1>4, <1>6, <1>9 DEF Written
<1>12. Roomy(e) /\ RoomOf(e, cbuf) = BufLen(d) /\ ("INLINE" \notin d.flags => BufLen(d) \in Nat)
  BY <1>9 DEF Roomy, RoomOf, PlaceOf, BufLen
<1>13. CASE /\ need <= (IF "INLINE" \in d.flags THEN InlineSize ELSE BufLen(d))
            /\ InPlace(h, e, bytes)
  <2>1. InRoom(e, bytes)
    BY <1>2, <1>6, <1>9, <1>12, <1>13, SizesAssumption DEF InRoom
  <2>2. QED
    BY <1>10, <1>11, <1>12, <1>13, <2>1, InPlaceFits
<1>14. CASE "INLINE" \in d.flags /\ Spilled(h, e, size, bytes)
  BY <1>5, <1>6, <1>9, <1>10, <1>11, <1>14, SpilledFits
<1>15. CASE "INLINE" \notin d.flags /\ Moved(h, e, size, bytes)
  BY <1>5, <1>6, <1>9, <1>10, <1>11, <1>15, MovedFits
<1>16. QED
  BY <1>7, <1>13, <1>14, <1>15

-----------------------------------------------------------------------------
(* The calls of _bson_append that a program can make now: for the elements *)
(* it has, for the value it read or copied, and for those of a document.   *)
EveryCallReserves ==
    /\ \A e \in Given : Reserving(bson_append_value(e.key, e.value))
    /\ value.at # "none" => \A key \in Keys : Reserving(bson_append_value(key, ValueNow))
    /\ \A g \in Slots : Live(g) =>
          /\ \A i \in DOMAIN Appends(g) : Reserving(Appends(g)[i].call)
          /\ \A key \in Keys : Reserving(Excluding(Appends(g), {key}))

LEMMA WritableFits ==
    ASSUME IInv, FInv, NEW h \in Slots, Writable(h)
    PROVE  /\ WritableAs(h, docs[h]) /\ Roomy(docs[h])
           /\ Whole(Data(h)) /\ docs[h].len = Len(Data(h))
           /\ \A bytes : Len(bytes) \in Nat /\ Len(bytes) <= docs[h].len
                             => InRoom(docs[h], bytes)
<1>1. Live(h) /\ "RDONLY" \notin docs[h].flags
  BY DEF Writable, Is
<1>2. FitsAs(docs[h], Data(h), mem, cbuf)
  BY <1>1 DEF FInv
<1>3. Roomy(docs[h])
  BY <1>1, <1>2 DEF FitsAs, Roomy
<1>4. docs[h].len \in Nat
  BY <1>1, LiveFits
<1>5. ASSUME NEW bytes, Len(bytes) \in Nat, Len(bytes) <= docs[h].len
      PROVE  InRoom(docs[h], bytes)
  BY <1>1, <1>2, <1>4, <1>5, SizesAssumption DEF FitsAs, InRoom
<1>6. QED
  BY <1>1, <1>2, <1>3, <1>5, WritableFacts DEF FitsAs

LEMMA ReinitFits ==
    ASSUME IInv, FInv, AreBlocks(mem), NEW h \in Slots, bson_reinit(h)
    PROVE  FInv'
<1> DEFINE d == docs[h]
           e == [d EXCEPT !.len = 5]
<1>1. Writable(h) /\ InPlace(h, e, EmptyDocument)
  BY DEF bson_reinit
<1>2. /\ WritableAs(h, d) /\ Roomy(d) /\ d.len \in Nat /\ d.len >= 5
      /\ InRoom(d, EmptyDocument)
  <2>1. Live(h)
    BY <1>1 DEF Writable
  <2>2. d.len \in Nat /\ d.len >= 5
    BY <2>1, LiveFits
  <2>3. Len(EmptyDocument) \in Nat /\ Len(EmptyDocument) <= d.len
    BY <2>2, EmptyWhole
  <2>4. QED
    BY <1>1, <2>2, <2>3, WritableFits
<1>3. IsDoc(d)
  BY <1>2 DEF WritableAs, DocOk
<1>4. SameOwner(d, e)
  BY <1>2, FieldsPut DEF WritableAs
<1> HIDE DEF d
<1>5. e.len = 5 /\ e.flags = d.flags /\ e.buf = d.buf /\ e.alloclen = d.alloclen
  BY <1>3, OtherFields
<1> HIDE DEF e
<1>6. WritableAs(h, e)
  BY <1>2, <1>4, <1>5, SameOwnerFacts DEF WritableAs
<1>7. Written(e, EmptyDocument)
  BY <1>5, EmptyWhole, SizesAssumption DEF Written
<1>8. Roomy(e) /\ InRoom(e, EmptyDocument)
  BY <1>2, <1>5 DEF Roomy, InRoom, RoomOf, PlaceOf
<1>9. QED
  BY <1>1, <1>6, <1>7, <1>8, InPlaceFits

LEMMA AppendCallFits ==
    ASSUME IInv, FInv, AreBlocks(mem), NEW h \in Slots, Writable(h), NEW call,
           Reserving(call), docs[h].len + call.n_bytes <= MaxBytes,
           _bson_append(h, docs[h], Data(h), call)
    PROVE  FInv'
BY WritableFits, AppendFits

LEMMA UnchangedFits ==
    ASSUME FInv, UNCHANGED <<docs, mem, cbuf>>
    PROVE  FInv'
<1>1. \A h : Data(h)' = Data(h)
  BY DataIsIn
<1>2. QED
  BY <1>1 DEF FInv, Live, Is

LEMMA ConcatFits ==
    ASSUME IInv, FInv, AreBlocks(mem), NEW g \in Slots, NEW h \in Slots, bson_concat(h, g)
    PROVE  FInv'
<1> DEFINE body == SubSeq(Data(g), 5, docs[g].len - 1)
           call == Appending(Len(body), <<body>>)
<1>1. /\ Live(g) /\ Writable(h) /\ docs[h].len + Len(body) <= MaxBytes
      /\ \/ UNCHANGED <<docs, mem, cbuf>>
         \/ _bson_append(h, docs[h], Data(h), call)
  BY DEF bson_concat
<1>2. body \in Seq(Octets)
  <2>1. Whole(Data(g)) /\ docs[g].len = Len(Data(g))
    BY <1>1, LiveFits
  <2>2. QED
    BY <2>1, BodyFacts
<1> HIDE DEF body
<1>3. call.n_bytes = Len(body) /\ call.bytes = body
  BY <1>2, FlattenOne DEF Appending
<1>4. Reserving(call)
  BY <1>2, <1>3, LenProperties DEF Reserving
<1> HIDE DEF call
<1>5. QED
  BY <1>1, <1>3, <1>4, UnchangedFits, AppendCallFits

LEMMA ExcludingFits ==
    ASSUME IInv, FInv, AreBlocks(mem), EveryCallReserves, NEW g \in Slots, NEW h \in Slots,
           NEW key \in Keys, bson_copy_to_excluding(g, h, {key})
    PROVE  FInv'
<1> DEFINE d == InlineDoc(h, Stack, EmptyDocument)
           call == Excluding(Appends(g), {key})
<1>1. /\ Live(g) /\ ~Live(h) /\ 5 + call.n_bytes <= MaxBytes
      /\ _bson_append(h, d, EmptyDocument, call)
  BY DEF bson_copy_to_excluding
<1>2. Reserving(call)
  BY <1>1 DEF EveryCallReserves
<1> HIDE DEF call
<1>3. DocOk(d, h) /\ DocBlocks(d) = {} /\ "RDONLY" \notin d.flags
  BY InlineDocs
<1>4. "INLINE" \in d.flags /\ d.len = Len(EmptyDocument)
  BY DEF InlineDoc
<1> HIDE DEF d
<1>5. DocBlocks(docs[h]) = {}
  BY <1>1 DEF DocBlocks, Live, Is
<1>6. WritableAs(h, d) /\ Roomy(d)
  BY <1>1, <1>3, <1>4, <1>5 DEF WritableAs, Roomy
<1>7. d.len + call.n_bytes <= MaxBytes
  BY <1>1, <1>4, EmptyWhole
<1>8. QED
  BY <1>1, <1>2, <1>4, <1>6, <1>7, EmptyWhole, AppendFits

LEMMA ChangeFits ==
    ASSUME IInv, FInv, AreBlocks(mem), EveryCallReserves, Change
    PROVE  FInv'
<1>1. PICK h \in Slots :
        \/ bson_reinit(h)
        \/ \E e \in Given : AppendValue(h, e.key, e.value)
        \/ \E key \in Keys : value.at # "none" /\ AppendValue(h, key, ValueNow)
        \/ \E g \in Slots : bson_concat(h, g)
        \/ \E g \in Slots : AppendIter(h, g)
        \/ \E g \in Slots, key \in Keys : bson_copy_to_excluding_noinit(g, h, {key})
  BY DEF Change
<1>2. CASE bson_reinit(h)
  BY <1>2, ReinitFits
<1>3. ASSUME NEW key, NEW v, AppendValue(h, key, v), Reserving(bson_append_value(key, v))
      PROVE  FInv'
  <2> DEFINE call == bson_append_value(key, v)
  <2>1. /\ Writable(h) /\ docs[h].len + call.n_bytes <= MaxBytes
        /\ _bson_append(h, docs[h], Data(h), call)
    BY <1>3 DEF AppendValue, Appendable
  <2>2. Reserving(call)
    BY <1>3
  <2> HIDE DEF call
  <2>3. QED
    BY <2>1, <2>2, AppendCallFits
<1>4. CASE \E e \in Given : AppendValue(h, e.key, e.value)
  BY <1>3, <1>4 DEF EveryCallReserves
<1>5. CASE \E key \in Keys : value.at # "none" /\ AppendValue(h, key, ValueNow)
  BY <1>3, <1>5 DEF EveryCallReserves
<1>6. CASE \E g \in Slots : bson_concat(h, g)
  BY <1>6, ConcatFits
<1>7. ASSUME NEW g \in Slots, AppendIter(h, g)
      PROVE  FInv'
  <2>1. PICK i \in DOMAIN Appends(g) :
          /\ Writable(h) /\ docs[h].len + Appends(g)[i].call.n_bytes <= MaxBytes
          /\ _bson_append(h, docs[h], Data(h), Appends(g)[i].call)
    BY <1>7 DEF AppendIter, Appendable
  <2> DEFINE call == Appends(g)[i].call
  <2>2. Reserving(call)
    BY <1>7 DEF EveryCallReserves, AppendIter
  <2>3. /\ Writable(h) /\ docs[h].len + call.n_bytes <= MaxBytes
        /\ _bson_append(h, docs[h], Data(h), call)
    BY <2>1
  <2> HIDE DEF call
  <2>4. QED
    BY <2>2, <2>3, AppendCallFits
<1>8. ASSUME NEW g \in Slots, NEW key \in Keys, bson_copy_to_excluding_noinit(g, h, {key})
      PROVE  FInv'
  <2> DEFINE call == Excluding(Appends(g), {key})
  <2>1. /\ Live(g) /\ Writable(h) /\ docs[h].len + call.n_bytes <= MaxBytes
        /\ _bson_append(h, docs[h], Data(h), call)
    BY <1>8 DEF bson_copy_to_excluding_noinit
  <2>2. Reserving(call)
    BY <2>1 DEF EveryCallReserves
  <2> HIDE DEF call
  <2>3. QED
    BY <2>1, <2>2, AppendCallFits
<1>9. QED
  BY <1>1, <1>2, <1>4, <1>5, <1>6, <1>7, <1>8

-----------------------------------------------------------------------------
(* The calls that destroy a bson_t.                                        *)
(* The bson_t in slot h is gone, and so are some of the blocks it had.     *)
LEMMA GoneFits ==
    ASSUME IInv, FInv, NEW h \in Slots, Live(h), ~Borrowed(h),
           docs' = [docs EXCEPT ![h] = NoDoc],
           NEW gone, gone \subseteq DocBlocks(docs[h]),
           \A b \in DOMAIN mem \ gone : mem'[b] = mem[b],
           cbuf' = cbuf \/ (Lent \subseteq {h} /\ CallerFitsAs(mem', cbuf'))
    PROVE  FInv'
<1>1. \A g \in Slots \ {h} : docs'[g] = docs[g] /\ gone \cap DocBlocks(docs[g]) = {}
  BY DEF IInv, Types, Ledger
<1>2. "none" \in docs'[h].flags
  BY DEF IInv, Types, NoDoc
<1>3. gone \cap CallerBlocks = {} /\ gone \subseteq DOMAIN mem
  BY DEF IInv, Ledger
<1>4. cbuf.block \notin gone
  <2>1. CASE cbuf.block = Null
    BY <2>1, KnownBlocks, Apart DEF IInv
  <2>2. CASE cbuf.block # Null
    BY <1>3, <2>2 DEF CallerBlocks
  <2>3. QED
    BY <2>1, <2>2
<1>5. Touches({h}, gone)
  BY <1>1, <1>4 DEF Touches
<1>6. CallerFitsAs(mem', cbuf')
  BY <1>4, CallerKept
<1>7. QED
  BY <1>1, <1>2, <1>5, <1>6, FitsStep

LEMMA DestroyFits ==
    ASSUME IInv, FInv, NEW h \in Slots, bson_destroy(h)
    PROVE  FInv'
<1>1. /\ Live(h) /\ ~Borrowed(h) /\ docs' = [docs EXCEPT ![h] = NoDoc]
      /\ mem' = Free(mem, Frees(docs[h])) /\ cbuf' = cbuf
  BY DEF bson_destroy, Put
<1>2. Frees(docs[h]) = DocBlocks(docs[h])
  BY <1>1, LiveDocs, FreesOwn
<1>3. \A b \in DOMAIN mem \ DocBlocks(docs[h]) : mem'[b] = mem[b]
  BY <1>1, <1>2 DEF Free
<1>4. QED
  BY <1>1, <1>3, GoneFits

LEMMA DestroyWithStealFits ==
    ASSUME IInv, FInv, NEW h \in Slots, bson_destroy_with_steal(h)
    PROVE  FInv'
<1> DEFINE s == docs[h]
           F == Fresh("bytes")
<1>1. /\ Live(h) /\ ~Borrowed(h) /\ ~Is(h, "RDONLY")
      /\ docs' = [docs EXCEPT ![h] = NoDoc]
      /\ cbuf.block = Null \/ h \in Lent
  BY DEF bson_destroy_with_steal, Put
<1>2. Lent \subseteq {h}
  BY <1>1 DEF IInv, LentOnce
<1>3. Frees(s) = DocBlocks(s)
  BY <1>1, LiveDocs, FreesOwn
<1>4. /\ Whole(Data(h)) /\ s.len = Len(Data(h)) /\ s.len \in Nat /\ s.len <= MaxBytes
  BY <1>1, LiveFits
<1>5. CASE Is(h, "INLINE")
  <2>1. /\ mem' = Malloc(Free(mem, DocBlocks(s)), F, s.len, Data(h))
        /\ cbuf' = [block |-> F, len |-> s.len]
    BY <1>3, <1>5 DEF bson_destroy_with_steal
  <2>2. F \notin DOMAIN mem
    BY FreshBlock DEF IInv
  <2> HIDE DEF F
  <2>3. /\ mem'[F].size = s.len /\ mem'[F].bytes = Data(h)
        /\ \A b \in DOMAIN mem \ DocBlocks(s) : mem'[b] = mem[b]
    BY <2>1, <2>2 DEF Malloc, Free
  <2>4. cbuf'.block = F /\ cbuf'.len = s.len
    BY <2>1
  <2>5. HasBytes(Data(h), s.len, mem', cbuf')
    BY <1>4, <2>3, <2>4 DEF HasBytes
  <2>6. CallerFitsAs(mem', cbuf')
    BY <2>5, HasBytesFits
  <2>7. QED
    BY <1>1, <1>2, <2>3, <2>6, GoneFits
<1>6. CASE ~Is(h, "INLINE")
  <2> DEFINE B == BlockOf(s.buf)
  <2>1. /\ mem' = Free(mem, GivenAway(s)) /\ cbuf' = [block |-> B, len |-> s.len]
    BY <1>6 DEF bson_destroy_with_steal
  <2>2. /\ B \in DOMAIN mem /\ B = PlaceOf(s, cbuf)
        /\ \/ B \in CallerBlocks /\ s.buf = CallersBuf
           \/ s.buf = Block(B)
    BY <1>1, <1>6, WritableFacts, WritableBlock DEF Writable, Is
  <2>3. GivenAway(s) \subseteq DocBlocks(s) /\ B \notin GivenAway(s)
    <3>1. CASE B \in CallerBlocks
      BY <1>3, <3>1 DEF GivenAway, IInv, Ledger
    <3>2. CASE s.buf = Block(B)
      BY <1>3, <3>2 DEF GivenAway, Block
    <3>3. QED
      BY <2>2, <3>1, <3>2
  <2> HIDE DEF B
  <2>4. mem'[B] = mem[B] /\ \A b \in DOMAIN mem \ GivenAway(s) : mem'[b] = mem[b]
    BY <2>1, <2>2, <2>3 DEF Free
  <2>5. cbuf'.block = B /\ cbuf'.len = s.len
    BY <2>1
  <2>6. mem[B].bytes = Data(h)
    <3>1. s.buf.at # "inline"
      BY <2>2 DEF CallersBuf, Block
    <3>2. QED
      BY <3>1 DEF Data, B
  <2>7. /\ RoomOf(s, cbuf) \in Nat /\ s.len <= RoomOf(s, cbuf)
        /\ mem[B].size \in Nat /\ RoomOf(s, cbuf) <= mem[B].size
    BY <1>1, <1>6, <2>2 DEF FInv, FitsAs, Is
  <2>8. s.len <= mem[B].size
    BY <1>4, <2>7
  <2>9. CallerFitsAs(mem', cbuf')
    BY <1>4, <2>4, <2>5, <2>6, <2>7, <2>8 DEF CallerFitsAs
  <2>10. QED
    BY <1>1, <1>2, <2>3, <2>4, <2>9, GoneFits
<1>7. QED
  BY <1>5, <1>6

LEMMA FreeBufferFits ==
    ASSUME IInv, FInv, FreeBuffer
    PROVE  FInv'
<1>1. /\ Lent = {} /\ mem' = Free(mem, {cbuf.block}) /\ cbuf' = NoBuffer /\ docs' = docs
      /\ cbuf.block # Null
  BY DEF FreeBuffer
<1>2. \A g \in Slots : {cbuf.block} \cap DocBlocks(docs[g]) = {}
  BY <1>1 DEF IInv, Ledger, CallerBlocks
<1>3. \A b \in DOMAIN mem \ {cbuf.block} : mem'[b] = mem[b]
  BY <1>1 DEF Free
<1>4. Touches({}, {cbuf.block})
  BY <1>1, <1>2, <1>3 DEF Touches
<1>5. CallerFitsAs(mem', cbuf')
  BY <1>1 DEF CallerFitsAs, NoBuffer
<1>6. QED
  BY <1>1, <1>4, <1>5, FitsStep

LEMMA UseValueFits ==
    ASSUME IInv, FInv, UseValue
    PROVE  FInv'
<1>1. docs' = docs /\ cbuf' = cbuf
  BY DEF UseValue, BorrowValue, bson_value_copy, bson_value_destroy
<1> DEFINE gone == {<<"value", i>> : i \in Nat}
<1>2. \A b \in DOMAIN mem \ gone : mem'[b] = mem[b]
  <2>1. CASE \E h \in Slots : BorrowValue(h)
    BY <2>1 DEF BorrowValue
  <2>2. CASE bson_value_copy
    <3> DEFINE n == BlocksOf(ValueNow)
               blocks == {<<"value", i>> : i \in 1 .. n}
    <3>1. mem' = [b \in DOMAIN mem \cup blocks |->
                     IF b \in blocks THEN [size |-> 0, bytes |-> <<>>] ELSE mem[b]]
      BY <2>2 DEF bson_value_copy
    <3>2. blocks \subseteq gone
      <4>1. n \in Nat
        BY DEF BlocksOf
      <4> HIDE DEF n
      <4>2. QED
        BY <4>1
    <3> HIDE DEF blocks, gone
    <3>3. QED
      BY <3>1, <3>2
  <2>3. CASE bson_value_destroy
    <3>1. mem' = IF value.at = "owned" THEN Free(mem, value.blocks) ELSE mem
      BY <2>3 DEF bson_value_destroy
    <3>2. value.at = "owned" => value.blocks \subseteq gone
      BY DEF IInv, Types
    <3> HIDE DEF gone
    <3>3. QED
      BY <3>1, <3>2 DEF Free
  <2>4. QED
    BY <2>1, <2>2, <2>3 DEF UseValue
<1>3. gone \cap CallerBlocks = {}
  BY Apart DEF IInv, Types, CallerBlocks
<1>4. \A g \in Slots : gone \cap DocBlocks(docs[g]) = {}
  BY KnownBlocks, Apart DEF IInv, Ledger
<1>5. cbuf.block \notin gone
  BY <1>3, Apart DEF CallerBlocks
<1> HIDE DEF gone
<1>6. Touches({}, gone)
  BY <1>1, <1>2, <1>4, <1>5 DEF Touches
<1>7. CallerFitsAs(mem', cbuf')
  BY <1>1, <1>2, <1>5, CallerKept
<1>8. QED
  BY <1>1, <1>6, <1>7, FitsStep

(* What src had is what dst has.                                           *)
LEMMA StealFits ==
    ASSUME IInv, FInv, NEW dst \in Slots, NEW src \in Slots, bson_steal(dst, src)
    PROVE  FInv'
<1> DEFINE s == docs[src]
<1>1. /\ ~Live(dst) /\ Live(src) /\ ~Borrowed(src) /\ src \notin Lent /\ cbuf' = cbuf
  BY DEF bson_steal
<1>2. /\ Whole(Data(src)) /\ s.len = Len(Data(src)) /\ s.len <= MaxBytes
  BY <1>1, LiveFits
<1>3. CASE Is(src, "RDONLY")
  <2> DEFINE d == InlineDoc(dst, Stack, EmptyDocument)
  <2>1. docs' = [docs EXCEPT ![dst] = d] /\ mem' = mem
    BY <1>3 DEF bson_steal, Put
  <2>2. docs'[dst] = d
    BY <2>1 DEF IInv, Types
  <2>3. /\ Whole(EmptyDocument) /\ Len(EmptyDocument) <= InlineSize
        /\ Len(EmptyDocument) <= MaxBytes
    BY EmptyWhole, SizesAssumption
  <2>4. FitsAs(d, EmptyDocument, mem', cbuf') /\ DataIn(d.buf, docs', mem', cbuf') = EmptyDocument
    BY <2>2, <2>3, InlineFitsAs
  <2> HIDE DEF d
  <2>5. QED
    BY <1>1, <2>1, <2>4, NewFits
<1>4. CASE ~Is(src, "RDONLY")
  <2> DEFINE d == IF "INLINE" \in s.flags THEN InlineDoc(dst, Stack, Data(src))
                  ELSE WithOwner(s, s.flags \cup {"STATIC"}, Stack)
             gone == StolenFrom(s)
  <2>1. docs' = [docs EXCEPT ![src] = NoDoc, ![dst] = d] /\ mem' = Free(mem, gone)
    BY <1>4 DEF bson_steal, Is, WithOwner
  <2>2. /\ docs'[dst] = d /\ docs'[src] = NoDoc /\ src # dst
        /\ \A g \in Slots \ {src, dst} : docs'[g] = docs[g]
    BY <1>1, <2>1 DEF IInv, Types
  <2>3. DocOk(s, src) /\ s.buf # CallersBuf
    BY <1>1, LiveDocs DEF Lent
  <2>4. gone \subseteq DocBlocks(s)
    BY <2>3, Apart DEF StolenFrom, DocBlocks, DocOk
  <2>5. \A b \in DOMAIN mem \ gone : mem'[b] = mem[b]
    BY <2>1 DEF Free
  <2>6. /\ gone \cap CallerBlocks = {}
        /\ \A g \in Slots \ {src} : gone \cap DocBlocks(docs[g]) = {}
    BY <2>4 DEF IInv, Ledger
  <2>7. cbuf.block \notin gone
    <3>1. CASE cbuf.block = Null
      BY <2>4, <3>1, KnownBlocks, Apart DEF IInv
    <3>2. CASE cbuf.block # Null
      BY <2>6, <3>2 DEF CallerBlocks
    <3>3. QED
      BY <3>1, <3>2
  <2>8. Touches({src, dst}, gone)
    BY <1>1, <2>2, <2>5, <2>6, <2>7 DEF Touches
  <2>9. CallerFitsAs(mem', cbuf')
    BY <1>1, <2>5, <2>7, CallerKept
  <2>10. "none" \in docs'[src].flags
    BY <2>2 DEF NoDoc
  <2>11. FitsAs(d, Data(src), mem', cbuf') /\ Data(dst)' = Data(src)
    <3>1. FitsAs(s, Data(src), mem, cbuf)
      BY <1>1 DEF FInv
    <3>2. CASE "INLINE" \in s.flags
      <4>1. Len(Data(src)) <= InlineSize /\ Len(Data(src)) <= MaxBytes
        BY <1>2, <3>1, <3>2 DEF FitsAs
      <4>2. d = InlineDoc(dst, Stack, Data(src))
        BY <3>2
      <4> HIDE DEF d
      <4>3. /\ FitsAs(d, Data(src), mem', cbuf')
            /\ DataIn(d.buf, docs', mem', cbuf') = Data(src)
        BY <1>2, <2>2, <4>1, <4>2, InlineFitsAs
      <4>4. QED
        BY <2>2, <4>3, DataIsIn
    <3>3. CASE "INLINE" \notin s.flags
      <4>1. d = WithOwner(s, s.flags \cup {"STATIC"}, Stack) /\ IsDoc(s)
        BY <2>3, <3>3 DEF DocOk
      <4> HIDE DEF d
      <4>2. /\ d.flags = s.flags \cup {"STATIC"} /\ d.buf = s.buf
            /\ d.len = s.len /\ d.alloclen = s.alloclen
        BY <4>1, SMT DEF WithOwner, IsDoc
      <4>3. s.buf.of \in DocBlocks(s) /\ s.buf.of \in ByteBlocks /\ s.buf.at = "block"
        BY <1>1, <1>4, <2>3, <3>3, LiveDocs DEF Is
      <4>4. s.buf.of \notin gone /\ s.buf.of \in DOMAIN mem
        <5>1. s.struct \in {Stack, Struct(src)}
          BY <2>3 DEF DocOk
        <5>2. s.buf.of \in DOMAIN mem
          BY <4>3 DEF IInv, Ledger
        <5>3. QED
          BY <4>3, <5>1, <5>2, Apart DEF StolenFrom
      <4>5. mem'[s.buf.of] = mem[s.buf.of]
        BY <2>5, <4>4
      <4>6. /\ RoomOf(d, cbuf') = RoomOf(s, cbuf) /\ PlaceOf(d, cbuf') = s.buf.of
            /\ PlaceOf(s, cbuf) = s.buf.of
        BY <1>1, <4>2, <4>3 DEF RoomOf, PlaceOf
      <4>7. FitsAs(d, Data(src), mem', cbuf')
        BY <1>4, <3>1, <3>3, <4>2, <4>5, <4>6 DEF FitsAs, Is
      <4>8. Data(dst)' = Data(src)
        BY <2>2, <4>2, <4>3, <4>5, DataIsIn DEF DataIn
      <4>9. QED
        BY <4>7, <4>8
    <3>4. QED
      BY <3>2, <3>3
  <2> HIDE DEF d, gone
  <2>12. QED
    BY <2>2, <2>8, <2>9, <2>10, <2>11, FitsStep
<1>5. QED
  BY <1>3, <1>4

-----------------------------------------------------------------------------
LEMMA NoneFit == Init => FInv
BY DEF Init, FInv, CallerFitsAs, NoBuffer, NoDoc, Live, Is

LEMMA NextFits ==
    ASSUME IInv, AreBlocks(mem), EveryCallReserves, FInv, [Next]_vars
    PROVE  FInv'
<1>1. CASE Create
  <2>1. PICK h \in Slots :
          \/ bson_init(h) \/ bson_new(h) \/ bson_new_from_buffer(h)
          \/ \E size \in Reserves : bson_sized_new(h, size)
          \/ \E g \in Slots : bson_copy(g, h) \/ bson_copy_to(g, h) \/ bson_init_static(g, h)
          \/ \E g \in Slots, key \in Keys : bson_copy_to_excluding(g, h, {key})
    BY <1>1 DEF Create
  <2>2. CASE bson_init(h) \/ bson_new(h) \/ bson_new_from_buffer(h)
    BY <2>2, InitFits, NewFromBufferFits
  <2>3. CASE \/ \E size \in Reserves : bson_sized_new(h, size)
             \/ \E g \in Slots : bson_copy(g, h)
    BY <2>3, SizedCopyFits
  <2>4. CASE \E g \in Slots : bson_copy_to(g, h) \/ bson_init_static(g, h)
    BY <2>4, CopyToFits, InitStaticFits
  <2>5. CASE \E g \in Slots, key \in Keys : bson_copy_to_excluding(g, h, {key})
    BY <2>5, ExcludingFits
  <2>6. QED
    BY <2>1, <2>2, <2>3, <2>4, <2>5
<1>2. CASE Change
  BY <1>2, ChangeFits
<1>3. CASE Destroy
  BY <1>3, DestroyFits, DestroyWithStealFits, StealFits DEF Destroy
<1>4. CASE FreeBuffer
  BY <1>4, FreeBufferFits
<1>5. CASE UseValue
  BY <1>5, UseValueFits
<1>6. CASE UNCHANGED vars
  BY <1>6, UnchangedFits DEF vars
<1>7. QED
  BY <1>1, <1>2, <1>3, <1>4, <1>5, <1>6 DEF Next

(***************************************************************************)
(* As long as the calls of _bson_append reserve what they copy, every      *)
(* document is as long as its bson_t says, its bytes begin with that       *)
(* length and end with a 0, they fit the room that the next append will    *)
(* count with, and that room is there in the block: through growth in      *)
(* place and by realloc, stealing, and the buffer going back and forth     *)
(* between the caller and the bson_t.                                      *)
(***************************************************************************)
THEOREM DocumentsFitTheirRoom == Spec /\ []EveryCallReserves => []DocumentsFit
<1>1. IInv /\ AreBlocks(mem) /\ EveryCallReserves /\ FInv /\ [Next]_vars => FInv'
  BY NextFits
<1>2. IInv /\ FInv => DocumentsFit
  BY FitsTheRoom
<1>3. QED
  BY <1>1, <1>2, NoneFit, Invariance, BlocksAlways, PTL DEF Spec

-----------------------------------------------------------------------------
(* What the append functions owe _bson_append.  Their pieces, copied one   *)
(* behind the other:                                                       *)
Piece(s, n) == s \in Seq(Octets) /\ Len(s) = n

LEMMA PiecesJoin ==
    ASSUME NEW s, NEW m \in Nat, Piece(s, m), NEW t, NEW n \in Nat, Piece(t, n)
    PROVE  Piece(s \o t, m + n)
BY ConcatProperties DEF Piece

LEMMA JoinTwo ==
    ASSUME NEW a, NEW i \in Nat, Piece(a, i),
           NEW b, NEW j \in Nat, Piece(b, j)
    PROVE  Piece(FlattenSeq(<<a, b>>), i + j)
<1> DEFINE s == <<a, b>>
           F(f) == [x \in 1 .. 2 |-> IF x = 1 THEN s[x] ELSE f[x - 1] \o s[x]]
           q == a \o b
           f0 == [x \in 1 .. 2 |-> IF x = 1 THEN a ELSE q]
           g == CHOOSE f : f = F(f)
<1>1. f0 = F(f0)
  OBVIOUS
<1>2. g = F(g)
  BY <1>1
<1> HIDE DEF g, f0
<1>3. ASSUME NEW x \in 1 .. 2
      PROVE  g[x] = IF x = 1 THEN s[x] ELSE g[x - 1] \o s[x]
  <2> HIDE DEF s
  <2>1. F(g)[x] = IF x = 1 THEN s[x] ELSE g[x - 1] \o s[x]
    OBVIOUS
  <2> HIDE DEF F
  <2>2. QED
    BY <1>2, <2>1
<1>4. /\ g[1] = a
      /\ g[2] = g[1] \o b
  BY <1>3
<1>5. Piece(g[2], i + j) /\ i + j \in Nat
  BY <1>4, PiecesJoin
<1>6. FlattenSeq(s) = g[2]
  BY DEF FlattenSeq, g
<1>7. QED
  BY <1>5, <1>6

LEMMA JoinThree ==
    ASSUME NEW a, NEW i \in Nat, Piece(a, i),
           NEW b, NEW j \in Nat, Piece(b, j),
           NEW c, NEW k \in Nat, Piece(c, k)
    PROVE  Piece(FlattenSeq(<<a, b, c>>), (i + j) + k)
<1> DEFINE s == <<a, b, c>>
           F(f) == [x \in 1 .. 3 |-> IF x = 1 THEN s[x] ELSE f[x - 1] \o s[x]]
           q2 == a \o b
           q3 == q2 \o c
           f0 == [x \in 1 .. 3 |-> IF x = 1 THEN a ELSE IF x = 2 THEN q2 ELSE q3]
           g == CHOOSE f : f = F(f)
<1>1. f0 = F(f0)
  <2>1. s[1] = a /\ s[2] = b /\ s[3] = c
    OBVIOUS
  <2> HIDE DEF q2, q3
  <2>2. f0[1] = a /\ f0[2] = q2 /\ f0[3] = q3
    OBVIOUS
  <2>3. f0 = [x \in 1 .. 3 |-> f0[x]]
    OBVIOUS
  <2> HIDE DEF s, f0
  <2>4. ASSUME NEW x \in 1 .. 3
        PROVE  f0[x] = IF x = 1 THEN s[x] ELSE f0[x - 1] \o s[x]
    <3>1. x = 1 \/ x = 2 \/ x = 3
      OBVIOUS
    <3>2. /\ x = 2 => x - 1 = 1 /\ x # 1
          /\ x = 3 => x - 1 = 2 /\ x # 1
      OBVIOUS
    <3>3. QED
      BY <2>1, <2>2, <3>1, <3>2 DEF q2, q3
  <2>5. QED
    BY <2>3, <2>4
<1>2. g = F(g)
  BY <1>1
<1> HIDE DEF g, f0
<1>3. ASSUME NEW x \in 1 .. 3
      PROVE  g[x] = IF x = 1 THEN s[x] ELSE g[x - 1] \o s[x]
  <2> HIDE DEF s
  <2>1. F(g)[x] = IF x = 1 THEN s[x] ELSE g[x - 1] \o s[x]
    OBVIOUS
  <2> HIDE DEF F
  <2>2. QED
    BY <1>2, <2>1
<1>4. /\ g[1] = a
      /\ g[2] = g[1] \o b
      /\ g[3] = g[2] \o c
  <2>1. s[1] = a /\ s[2] = b /\ s[3] = c
    OBVIOUS
  <2> HIDE DEF s
  <2>2. /\ 1 \in 1 .. 3 /\ 2 \in 1 .. 3 /\ 3 \in 1 .. 3
        /\ 2 # 1 /\ 3 # 1
        /\ 2 - 1 = 1 /\ 3 - 1 = 2
    OBVIOUS
  <2>3. g[1] = s[1]
    BY <1>3, <2>2, Zenon
  <2>4. g[2] = g[2 - 1] \o s[2]
    BY <1>3, <2>2, Zenon
  <2>5. g[3] = g[3 - 1] \o s[3]
    BY <1>3, <2>2, Zenon
  <2>6. QED
    BY <2>1, <2>2, <2>3, <2>4, <2>5, Zenon
<1>5. Piece(g[2], i + j) /\ i + j \in Nat
  BY <1>4, PiecesJoin
<1>6. Piece(g[3], (i + j) + k) /\ (i + j) + k \in Nat
  BY <1>4, <1>5, PiecesJoin
<1>7. FlattenSeq(s) = g[3]
  BY DEF FlattenSeq, g
<1>8. QED
  BY <1>6, <1>7

LEMMA JoinFour ==
    ASSUME NEW a, NEW i \in Nat, Piece(a, i),
           NEW b, NEW j \in Nat, Piece(b, j),
           NEW c, NEW k \in Nat, Piece(c, k),
           NEW d, NEW l \in Nat, Piece(d, l)
    PROVE  Piece(FlattenSeq(<<a, b, c, d>>), ((i + j) + k) + l)
<1> DEFINE s == <<a, b, c, d>>
           F(f) == [x \in 1 .. 4 |-> IF x = 1 THEN s[x] ELSE f[x - 1] \o s[x]]
           q2 == a \o b
           q3 == q2 \o c
           q4 == q3 \o d
           f0 == [x \in 1 .. 4 |-> IF x = 1 THEN a ELSE IF x = 2 THEN q2
                                   ELSE IF x = 3 THEN q3 ELSE q4]
           g == CHOOSE f : f = F(f)
<1>1. f0 = F(f0)
  <2>1. s[1] = a /\ s[2] = b /\ s[3] = c /\ s[4] = d
    OBVIOUS
  <2> HIDE DEF q2, q3, q4
  <2>2. f0[1] = a /\ f0[2] = q2 /\ f0[3] = q3 /\ f0[4] = q4
    OBVIOUS
  <2>3. f0 = [x \in 1 .. 4 |-> f0[x]]
    OBVIOUS
  <2> HIDE DEF s, f0
  <2>4. ASSUME NEW x \in 1 .. 4
        PROVE  f0[x] = IF x = 1 THEN s[x] ELSE f0[x - 1] \o s[x]
    <3>1. x = 1 \/ x = 2 \/ x = 3 \/ x = 4
      OBVIOUS
    <3>2. /\ x = 2 => x - 1 = 1 /\ x # 1
          /\ x = 3 => x - 1 = 2 /\ x # 1
          /\ x = 4 => x - 1 = 3 /\ x # 1
      OBVIOUS
    <3>3. QED
      BY <2>1, <2>2, <3>1, <3>2 DEF q2, q3, q4
  <2>5. QED
    BY <2>3, <2>4
<1>2. g = F(g)
  BY <1>1
<1> HIDE DEF g, f0
<1>3. ASSUME NEW x \in 1 .. 4
      PROVE  g[x] = IF x = 1 THEN s[x] ELSE g[x - 1] \o s[x]
  <2> HIDE DEF s
  <2>1. F(g)[x] = IF x = 1 THEN s[x] ELSE g[x - 1] \o s[x]
    OBVIOUS
  <2> HIDE DEF F
  <2>2. QED
    BY <1>2, <2>1
<1>4. /\ g[1] = a
      /\ g[2] = g[1] \o b
      /\ g[3] = g[2] \o c
      /\ g[4] = g[3] \o d
  <2>1. s[1] = a /\ s[2] = b /\ s[3] = c /\ s[4] = d
    OBVIOUS
  <2> HIDE DEF s
  <2>2. /\ 1 \in 1 .. 4 /\ 2 \in 1 .. 4 /\ 3 \in 1 .. 4 /\ 4 \in 1 .. 4
        /\ 2 # 1 /\ 3 # 1 /\ 4 # 1
        /\ 2 - 1 = 1 /\ 3 - 1 = 2 /\ 4 - 1 = 3
    OBVIOUS
  <2>3. g[1] = s[1]
    BY <1>3, <2>2, Zenon
  <2>4. g[2] = g[2 - 1] \o s[2]
    BY <1>3, <2>2, Zenon
  <2>5. g[3] = g[3 - 1] \o s[3]
    BY <1>3, <2>2, Zenon
  <2>6. g[4] = g[4 - 1] \o s[4]
    BY <1>3, <2>2, Zenon
  <2>7. QED
    BY <2>1, <2>2, <2>3, <2>4, <2>5, <2>6, Zenon
<1>5. Piece(g[2], i + j) /\ i + j \in Nat
  BY <1>4, PiecesJoin
<1>6. Piece(g[3], (i + j) + k) /\ (i + j) + k \in Nat
  BY <1>4, <1>5, PiecesJoin
<1>7. Piece(g[4], ((i + j) + k) + l) /\ ((i + j) + k) + l \in Nat
  BY <1>4, <1>6, PiecesJoin
<1>8. FlattenSeq(s) = g[4]
  BY DEF FlattenSeq, g
<1>9. QED
  BY <1>7, <1>8

LEMMA JoinFive ==
    ASSUME NEW a, NEW i \in Nat, Piece(a, i),
           NEW b, NEW j \in Nat, Piece(b, j),
           NEW c, NEW k \in Nat, Piece(c, k),
           NEW d, NEW l \in Nat, Piece(d, l),
           NEW e, NEW m \in Nat, Piece(e, m)
    PROVE  Piece(FlattenSeq(<<a, b, c, d, e>>), (((i + j) + k) + l) + m)
<1> DEFINE s == <<a, b, c, d, e>>
           F(f) == [x \in 1 .. 5 |-> IF x = 1 THEN s[x] ELSE f[x - 1] \o s[x]]
           q2 == a \o b
           q3 == q2 \o c
           q4 == q3 \o d
           q5 == q4 \o e
           f0 == [x \in 1 .. 5 |-> IF x = 1 THEN a ELSE IF x = 2 THEN q2
                                   ELSE IF x = 3 THEN q3 ELSE IF x = 4 THEN q4 ELSE q5]
           g == CHOOSE f : f = F(f)
<1>1. f0 = F(f0)
  <2>1. s[1] = a /\ s[2] = b /\ s[3] = c /\ s[4] = d /\ s[5] = e
    OBVIOUS
  <2> HIDE DEF q2, q3, q4, q5
  <2>2. f0[1] = a /\ f0[2] = q2 /\ f0[3] = q3 /\ f0[4] = q4 /\ f0[5] = q5
    OBVIOUS
  <2>3. f0 = [x \in 1 .. 5 |-> f0[x]]
    OBVIOUS
  <2> HIDE DEF s, f0
  <2>4. ASSUME NEW x \in 1 .. 5
        PROVE  f0[x] = IF x = 1 THEN s[x] ELSE f0[x - 1] \o s[x]
    <3>1. x = 1 \/ x = 2 \/ x = 3 \/ x = 4 \/ x = 5
      OBVIOUS
    <3>2. /\ x = 2 => x - 1 = 1 /\ x # 1
          /\ x = 3 => x - 1 = 2 /\ x # 1
          /\ x = 4 => x - 1 = 3 /\ x # 1
          /\ x = 5 => x - 1 = 4 /\ x # 1
      OBVIOUS
    <3>3. QED
      BY <2>1, <2>2, <3>1, <3>2 DEF q2, q3, q4, q5
  <2>5. QED
    BY <2>3, <2>4
<1>2. g = F(g)
  BY <1>1
<1> HIDE DEF g, f0
<1>3. ASSUME NEW x \in 1 .. 5
      PROVE  g[x] = IF x = 1 THEN s[x] ELSE g[x - 1] \o s[x]
  <2> HIDE DEF s
  <2>1. F(g)[x] = IF x = 1 THEN s[x] ELSE g[x - 1] \o s[x]
    OBVIOUS
  <2> HIDE DEF F
  <2>2. QED
    BY <1>2, <2>1
<1>4. /\ g[1] = a
      /\ g[2] = g[1] \o b
      /\ g[3] = g[2] \o c
      /\ g[4] = g[3] \o d
      /\ g[5] = g[4] \o e
  <2>1. s[1] = a /\ s[2] = b /\ s[3] = c /\ s[4] = d /\ s[5] = e
    OBVIOUS
  <2> HIDE DEF s
  <2>2. /\ 1 \in 1 .. 5 /\ 2 \in 1 .. 5 /\ 3 \in 1 .. 5 /\ 4 \in 1 .. 5 /\ 5 \in 1 .. 5
        /\ 2 # 1 /\ 3 # 1 /\ 4 # 1 /\ 5 # 1
        /\ 2 - 1 = 1 /\ 3 - 1 = 2 /\ 4 - 1 = 3 /\ 5 - 1 = 4
    OBVIOUS
  <2>3. g[1] = s[1]
    BY <1>3, <2>2, Zenon
  <2>4. g[2] = g[2 - 1] \o s[2]
    BY <1>3, <2>2, Zenon
  <2>5. g[3] = g[3 - 1] \o s[3]
    BY <1>3, <2>2, Zenon
  <2>6. g[4] = g[4 - 1] \o s[4]
    BY <1>3, <2>2, Zenon
  <2>7. g[5] = g[5 - 1] \o s[5]
    BY <1>3, <2>2, Zenon
  <2>8. QED
    BY <2>1, <2>2, <2>3, <2>4, <2>5, <2>6, <2>7, Zenon
<1>5. Piece(g[2], i + j) /\ i + j \in Nat
  BY <1>4, PiecesJoin
<1>6. Piece(g[3], (i + j) + k) /\ (i + j) + k \in Nat
  BY <1>4, <1>5, PiecesJoin
<1>7. Piece(g[4], ((i + j) + k) + l) /\ ((i + j) + k) + l \in Nat
  BY <1>4, <1>6, PiecesJoin
<1>8. Piece(g[5], (((i + j) + k) + l) + m) /\ (((i + j) + k) + l) + m \in Nat
  BY <1>4, <1>7, PiecesJoin
<1>9. FlattenSeq(s) = g[5]
  BY DEF FlattenSeq, g
<1>10. QED
  BY <1>8, <1>9

LEMMA LengthBytes ==
    ASSUME NEW n \in Nat, n <= Huge
    PROVE  Piece(LE32(n), 4)
<1>1. /\ n % 256 \in Octets /\ (n \div 256) % 256 \in Octets
      /\ (n \div 65536) % 256 \in Octets /\ n \div 16777216 \in Octets
  BY SMT DEF Octets, Huge
<1> DEFINE w == n % 256
           x == (n \div 256) % 256
           y == (n \div 65536) % 256
           z == n \div 16777216
<1>2. LE32(n) = <<w, x, y, z>>
  BY DEF LE32
<1>3. w \in Octets /\ x \in Octets /\ y \in Octets /\ z \in Octets
  BY <1>1
<1> HIDE DEF w, x, y, z
<1>4. <<w, x, y, z>> \in Seq(Octets) /\ Len(<<w, x, y, z>>) = 4
  BY <1>3
<1>5. QED
  BY <1>2, <1>4 DEF Piece

LEMMA CStringFacts ==
    ASSUME NEW s \in Seq(Octets)
    PROVE  /\ CString(s) \in Seq(Octets)
           /\ Len(CString(s)) \in Nat /\ Len(CString(s)) <= Len(s)
<1>1. Len(s) \in Nat /\ DOMAIN s = 1 .. Len(s)
  BY LenProperties
<1>2. CASE ~Contains(s, 0)
  BY <1>1, <1>2 DEF CString
<1>3. CASE Contains(s, 0)
  <2> DEFINE Z == {i \in DOMAIN s : s[i] = 0}
             m == Min(Z)
  <2>1. Z \in SUBSET Nat /\ Z # {}
    BY <1>1, <1>3 DEF Contains
  <2>2. m \in Z
    BY <2>1, MinFacts
  <2>3. m \in Nat /\ 1 <= m /\ m <= Len(s)
    BY <1>1, <2>2
  <2>4. CString(s) = SubSeq(s, 1, m - 1)
    BY <1>3 DEF CString
  <2> HIDE DEF m
  <2>5. \A i \in 1 .. m - 1 : s[i] \in Octets
    BY <1>1, <2>3, ElementOfSeq
  <2>6. /\ SubSeq(s, 1, m - 1) \in Seq(Octets)
        /\ Len(SubSeq(s, 1, m - 1)) = IF 1 <= m - 1 THEN m - 1 - 1 + 1 ELSE 0
    BY <2>3, <2>5, SubSeqProperties
  <2>7. QED
    BY <1>1, <2>3, <2>4, <2>6
<1>4. QED
  BY <1>2, <1>3

(* A call whose pieces have together as many bytes as it reserves.         *)
Exact(call) == Piece(call.bytes, call.n_bytes) /\ call.n_bytes \in Nat

LEMMA ExactOne ==
    ASSUME NEW a, NEW i \in Nat, Piece(a, i),
           NEW n, n = i
    PROVE  Exact(Appending(n, <<a>>))
<1>1. FlattenSeq(<<a>>) = a
  BY FlattenOne DEF Piece
<1>2. QED
  BY <1>1 DEF Exact, Appending

LEMMA ExactTwo ==
    ASSUME NEW a, NEW i \in Nat, Piece(a, i),
           NEW b, NEW j \in Nat, Piece(b, j),
           NEW n, n = i + j
    PROVE  Exact(Appending(n, <<a, b>>))
<1> DEFINE all == FlattenSeq(<<a, b>>)
<1>1. Piece(all, i + j)
  BY JoinTwo
<1> HIDE DEF all
<1>2. Piece(all, n) /\ n \in Nat
  BY <1>1
<1>3. QED
  BY <1>2 DEF Exact, Appending, all

LEMMA ExactThree ==
    ASSUME NEW a, NEW i \in Nat, Piece(a, i),
           NEW b, NEW j \in Nat, Piece(b, j),
           NEW c, NEW k \in Nat, Piece(c, k),
           NEW n, n = (i + j) + k
    PROVE  Exact(Appending(n, <<a, b, c>>))
<1> DEFINE all == FlattenSeq(<<a, b, c>>)
<1>1. Piece(all, (i + j) + k)
  BY JoinThree
<1> HIDE DEF all
<1>2. Piece(all, n) /\ n \in Nat
  BY <1>1
<1>3. QED
  BY <1>2 DEF Exact, Appending, all

LEMMA ExactFour ==
    ASSUME NEW a, NEW i \in Nat, Piece(a, i),
           NEW b, NEW j \in Nat, Piece(b, j),
           NEW c, NEW k \in Nat, Piece(c, k),
           NEW d, NEW l \in Nat, Piece(d, l),
           NEW n, n = ((i + j) + k) + l
    PROVE  Exact(Appending(n, <<a, b, c, d>>))
<1> DEFINE all == FlattenSeq(<<a, b, c, d>>)
<1>1. Piece(all, ((i + j) + k) + l)
  BY JoinFour
<1> HIDE DEF all
<1>2. Piece(all, n) /\ n \in Nat
  BY <1>1
<1>3. QED
  BY <1>2 DEF Exact, Appending, all

LEMMA ExactFive ==
    ASSUME NEW a, NEW i \in Nat, Piece(a, i),
           NEW b, NEW j \in Nat, Piece(b, j),
           NEW c, NEW k \in Nat, Piece(c, k),
           NEW d, NEW l \in Nat, Piece(d, l),
           NEW e, NEW m \in Nat, Piece(e, m),
           NEW n, n = (((i + j) + k) + l) + m
    PROVE  Exact(Appending(n, <<a, b, c, d, e>>))
<1> DEFINE all == FlattenSeq(<<a, b, c, d, e>>)
<1>1. Piece(all, (((i + j) + k) + l) + m)
  BY JoinFive
<1> HIDE DEF all
<1>2. Piece(all, n) /\ n \in Nat
  BY <1>1
<1>3. QED
  BY <1>2 DEF Exact, Appending, all

(* A value with the bytes of its type, short enough for an int32 length.   *)
HasItsBytes(v) ==
    /\ v.type \in Octets /\ v.subtype \in Octets
    /\ v.data \in Seq(Octets) /\ v.more \in Seq(Octets)
    /\ Len(v.data) + Len(v.more) + 16 <= Huge
    /\ v.type \in {DOUBLE, INT32, INT64, DECIMAL128} => Len(v.data) = SizeOf[v.type]
    /\ v.type = OID => Len(v.data) = 12
    /\ v.type = DATE_TIME => Len(v.data) = 8
    /\ v.type = TIMESTAMP => Len(v.data) = 4 /\ Len(v.more) = 4
    /\ v.type = DBPOINTER => Len(v.more) = 12

LEMMA HeaderPiece ==
    ASSUME NEW t \in Octets, NEW key \in Seq(Octets)
    PROVE  Piece(Header(t, key), 1 + Len(key) + 1) /\ 1 + Len(key) + 1 \in Nat
<1>1. Len(key) \in Nat /\ 0 \in Octets
  BY LenProperties DEF Octets
<1>2. Piece(<<t>>, 1) /\ Piece(key, Len(key)) /\ Piece(<<0>>, 1)
  BY <1>1 DEF Piece
<1>3. Piece(<<t>> \o key, 1 + Len(key)) /\ 1 + Len(key) \in Nat
  BY <1>1, <1>2, PiecesJoin
<1>4. Piece((<<t>> \o key) \o <<0>>, (1 + Len(key)) + 1)
  BY <1>2, <1>3, PiecesJoin
<1>5. QED
  BY <1>1, <1>4 DEF Header

(* What the values are made of.                                            *)
LEMMA ValuePieces ==
    ASSUME NEW v, HasItsBytes(v)
    PROVE  /\ Len(v.data) \in Nat /\ Piece(v.data, Len(v.data))
           /\ Len(v.more) \in Nat /\ Piece(v.more, Len(v.more))
           /\ Piece(<<0>>, 1) /\ Piece(<<1>>, 1) /\ Piece(<<v.subtype>>, 1)
           /\ LET code == CString(v.data) \o <<0>>
              IN  Len(code) \in Nat /\ Piece(code, Len(code)) /\ Len(code) <= Len(v.data) + 1
<1>1. /\ v.data \in Seq(Octets) /\ v.more \in Seq(Octets) /\ v.subtype \in Octets
  BY DEF HasItsBytes
<1>2. 0 \in Octets /\ 1 \in Octets
  BY DEF Octets
<1>3. Len(v.data) \in Nat /\ Len(v.more) \in Nat
  BY <1>1, LenProperties
<1>4. Piece(<<0>>, 1) /\ Piece(<<1>>, 1) /\ Piece(<<v.subtype>>, 1)
  BY <1>1, <1>2 DEF Piece
<1> DEFINE text == CString(v.data)
<1>5. text \in Seq(Octets) /\ Len(text) \in Nat /\ Len(text) <= Len(v.data)
  BY <1>1, CStringFacts
<1> HIDE DEF text
<1>6. Piece(text, Len(text))
  BY <1>5 DEF Piece
<1>7. Piece(text \o <<0>>, Len(text) + 1)
  BY <1>4, <1>5, <1>6, PiecesJoin
<1>8. Len(text \o <<0>>) = Len(text) + 1 /\ text \o <<0>> \in Seq(Octets)
  BY <1>7 DEF Piece
<1>9. QED
  BY <1>1, <1>3, <1>4, <1>5, <1>8 DEF Piece, text

(* A length that fits an int32.                                            *)
LEMMA LengthPieces ==
    ASSUME NEW v, HasItsBytes(v), NEW n \in Nat, n <= Len(v.data) + Len(v.more) + 10
    PROVE  Piece(LE32(n), 4)
<1> DEFINE a == Len(v.data)
           b == Len(v.more)
<1>1. a \in Nat /\ b \in Nat
  BY ValuePieces
<1>2. Huge \in Nat
  BY SMT DEF Huge
<1>3. a + b + 16 <= Huge
  BY DEF HasItsBytes
<1>4. n <= a + b + 10
  OBVIOUS
<1> HIDE DEF a, b
<1>5. n <= Huge
  BY <1>1, <1>2, <1>3, <1>4
<1>6. QED
  BY <1>5, LengthBytes

LEMMA FixedSizesExact ==
    ASSUME NEW key \in Seq(Octets), NEW v, HasItsBytes(v),
           v.type \in {DOUBLE, INT32, INT64, DECIMAL128, OID, DATE_TIME, TIMESTAMP}
    PROVE  /\ v.type \in {DOUBLE, INT32, INT64, DECIMAL128} => Exact(bson_append_number(key, v))
           /\ v.type = OID => Exact(bson_append_oid(key, v))
           /\ v.type = DATE_TIME => Exact(bson_append_date_time(key, v))
           /\ v.type = TIMESTAMP => Exact(bson_append_timestamp(key, v))
<1> DEFINE h == 1 + Len(key) + 1
<1>1. v.type \in Octets /\ OID \in Octets /\ DATE_TIME \in Octets /\ TIMESTAMP \in Octets
  BY DEF HasItsBytes, Octets, OID, DATE_TIME, TIMESTAMP
<1>2. h \in Nat /\ \A t \in Octets : Piece(Header(t, key), h)
  BY HeaderPiece
<1>3. /\ Len(v.data) \in Nat /\ Piece(v.data, Len(v.data))
      /\ Len(v.more) \in Nat /\ Piece(v.more, Len(v.more))
  BY ValuePieces
<1> HIDE DEF h
<1>4. ASSUME v.type \in {DOUBLE, INT32, INT64, DECIMAL128}
      PROVE  Exact(bson_append_number(key, v))
  <2> DEFINE n == SizeOf[v.type]
  <2>1. Len(v.data) = n
    BY <1>4 DEF HasItsBytes
  <2> HIDE DEF n
  <2>2. Exact(Appending(h + n, <<Header(v.type, key), v.data>>))
    BY <1>1, <1>2, <1>3, <2>1, ExactTwo
  <2>3. QED
    BY <2>2 DEF bson_append_number, h, n
<1>5. ASSUME v.type = OID
      PROVE  Exact(bson_append_oid(key, v))
  <2>1. Piece(v.data, 12)
    BY <1>3, <1>5 DEF HasItsBytes
  <2>2. Exact(Appending(h + 12, <<Header(OID, key), v.data>>))
    BY <1>1, <1>2, <2>1, ExactTwo
  <2>3. QED
    BY <2>2 DEF bson_append_oid, h
<1>6. ASSUME v.type = DATE_TIME
      PROVE  Exact(bson_append_date_time(key, v))
  <2>1. Piece(v.data, 8)
    BY <1>3, <1>6 DEF HasItsBytes
  <2>2. Exact(Appending(h + 8, <<Header(DATE_TIME, key), v.data>>))
    BY <1>1, <1>2, <2>1, ExactTwo
  <2>3. QED
    BY <2>2 DEF bson_append_date_time, h
<1>7. ASSUME v.type = TIMESTAMP
      PROVE  Exact(bson_append_timestamp(key, v))
  <2> DEFINE both == v.more \o v.data
  <2>1. Piece(v.more, 4) /\ Piece(v.data, 4)
    BY <1>3, <1>7 DEF HasItsBytes
  <2>2. Piece(both, 4 + 4)
    BY <2>1, PiecesJoin
  <2> HIDE DEF both
  <2>3. Piece(both, 8)
    BY <2>2
  <2>4. Exact(Appending(h + 8, <<Header(TIMESTAMP, key), both>>))
    BY <1>1, <1>2, <2>3, ExactTwo
  <2>5. QED
    BY <2>4 DEF bson_append_timestamp, h, both
<1>8. QED
  BY <1>4, <1>5, <1>6, <1>7

LEMMA EmptiesAndTextsExact ==
    ASSUME NEW key \in Seq(Octets), NEW v, HasItsBytes(v)
    PROVE  /\ Exact(bson_append_null(key, v)) /\ Exact(bson_append_undefined(key, v))
           /\ Exact(bson_append_bool(key, v))
           /\ Exact(bson_append_utf8(key, v)) /\ Exact(bson_append_symbol(key, v))
           /\ Exact(bson_append_code(key, v))
<1> DEFINE h == 1 + Len(key) + 1
           n == Len(v.data)
           code == CString(v.data) \o <<0>>
           c == Len(code)
<1>1. /\ v.type \in Octets /\ UNDEFINED \in Octets /\ BOOL \in Octets /\ UTF8 \in Octets
      /\ SYMBOL \in Octets /\ CODE \in Octets
  BY DEF HasItsBytes, Octets, UNDEFINED, BOOL, UTF8, SYMBOL, CODE
<1>2. h \in Nat /\ \A t \in Octets : Piece(Header(t, key), h)
  BY HeaderPiece
<1>3. /\ n \in Nat /\ Piece(v.data, n) /\ Len(v.more) \in Nat
      /\ Piece(<<0>>, 1) /\ Piece(<<1>>, 1)
      /\ c \in Nat /\ Piece(code, c) /\ c <= n + 1
  BY ValuePieces
<1> DEFINE m == Len(v.more)
<1>0. n + m + 10 = Len(v.data) + Len(v.more) + 10
  OBVIOUS
<1> HIDE DEF h, n, code, c, m
<1>4. Piece(LE32(n + 1), 4) /\ Piece(LE32(c), 4)
  <2>1. m \in Nat
    BY <1>3 DEF m
  <2>2. n + 1 \in Nat /\ n + 1 <= n + m + 10 /\ c <= n + m + 10
    BY <1>3, <2>1
  <2>3. QED
    BY <1>0, <1>3, <2>2, LengthPieces
<1>5. Exact(bson_append_null(key, v))
  <2>1. Exact(Appending(h, <<Header(v.type, key)>>))
    BY <1>1, <1>2, ExactOne
  <2>2. QED
    BY <2>1 DEF bson_append_null, h
<1>6. Exact(bson_append_undefined(key, v))
  <2>1. Exact(Appending(h, <<Header(UNDEFINED, key)>>))
    BY <1>1, <1>2, ExactOne
  <2>2. QED
    BY <2>1 DEF bson_append_undefined, h
<1>7. Exact(bson_append_bool(key, v))
  <2> DEFINE one == IF v.data = <<0>> THEN 0 ELSE 1
  <2>1. Piece(<<one>>, 1)
    BY <1>3
  <2> HIDE DEF one
  <2>2. Exact(Appending(h + 1, <<Header(BOOL, key), <<one>>>>))
    BY <1>1, <1>2, <2>1, ExactTwo
  <2>3. QED
    BY <2>2 DEF bson_append_bool, h, one
<1>8. \A t \in Octets : Exact(Appending(h + 4 + n + 1,
                                        <<Header(t, key), LE32(n + 1), v.data, <<0>>>>))
  BY <1>2, <1>3, <1>4, ExactFour
<1>9. Exact(bson_append_utf8(key, v)) /\ Exact(bson_append_symbol(key, v))
  BY <1>1, <1>8 DEF bson_append_utf8, bson_append_symbol, h, n
<1>10. Exact(bson_append_code(key, v))
  <2>1. Exact(Appending(h + 4 + c, <<Header(CODE, key), LE32(c), code>>))
    BY <1>1, <1>2, <1>3, <1>4, ExactThree
  <2>2. QED
    BY <2>1 DEF bson_append_code, h, c, code
<1>11. QED
  BY <1>5, <1>6, <1>7, <1>9, <1>10
LEMMA DocumentsAndBinariesExact ==
    ASSUME NEW key \in Seq(Octets), NEW v, HasItsBytes(v)
    PROVE  /\ Exact(bson_append_document(key, v)) /\ Exact(bson_append_array(key, v))
           /\ Exact(bson_append_binary(key, v))
<1> DEFINE h == 1 + Len(key) + 1
           n == Len(v.data)
           m == Len(v.more)
<1>1. DOCUMENT \in Octets /\ ARRAY \in Octets /\ BINARY \in Octets
  BY DEF Octets, DOCUMENT, ARRAY, BINARY
<1>2. h \in Nat /\ \A t \in Octets : Piece(Header(t, key), h)
  BY HeaderPiece
<1>3. /\ n \in Nat /\ Piece(v.data, n) /\ m \in Nat
      /\ Piece(<<v.subtype>>, 1)
  BY ValuePieces
<1>4. n + m + 10 = Len(v.data) + Len(v.more) + 10
  OBVIOUS
<1> HIDE DEF h, n, m
<1>5. Piece(LE32(n), 4) /\ Piece(LE32(n + 4), 4)
  <2>1. /\ n + 4 \in Nat /\ n + 4 <= n + m + 10 /\ n <= n + m + 10
    BY <1>3
  <2>2. QED
    BY <1>3, <1>4, <2>1, LengthPieces
<1>6. \A t \in Octets : Exact(Appending(h + n, <<Header(t, key), v.data>>))
  BY <1>2, <1>3, ExactTwo
<1>7. Exact(bson_append_document(key, v)) /\ Exact(bson_append_array(key, v))
  BY <1>1, <1>6 DEF bson_append_document, bson_append_array, h, n
<1> DEFINE b == Header(BINARY, key)
<1>8. Piece(b, h)
  BY <1>1, <1>2
<1> HIDE DEF b
<1>9. Exact(Appending(h + 4 + 1 + 4 + n, <<b, LE32(n + 4), <<v.subtype>>, LE32(n), v.data>>))
  BY <1>2, <1>3, <1>5, <1>8, ExactFive
<1>10. Exact(Appending(h + 4 + 1 + n, <<b, LE32(n), <<v.subtype>>, v.data>>))
  BY <1>2, <1>3, <1>5, <1>8, ExactFour
<1>11. Exact(bson_append_binary(key, v))
  BY <1>9, <1>10 DEF bson_append_binary, h, n, b
<1>12. QED
  BY <1>7, <1>11

LEMMA CodesAndPointersExact ==
    ASSUME NEW key \in Seq(Octets), NEW v, HasItsBytes(v)
    PROVE  /\ Exact(bson_append_code_with_scope(key, v))
           /\ v.type = DBPOINTER => Exact(bson_append_dbpointer(key, v))
<1> DEFINE h == 1 + Len(key) + 1
           n == Len(v.data)
           m == Len(v.more)
           code == CString(v.data) \o <<0>>
           c == Len(code)
<1>1. CODEWSCOPE \in Octets /\ DBPOINTER \in Octets
  BY DEF Octets, CODEWSCOPE, DBPOINTER
<1>2. h \in Nat /\ Piece(Header(CODEWSCOPE, key), h) /\ Piece(Header(DBPOINTER, key), h)
  BY <1>1, HeaderPiece
<1>3. /\ n \in Nat /\ m \in Nat /\ Piece(v.more, m)
      /\ c \in Nat /\ Piece(code, c) /\ c <= n + 1
  BY ValuePieces
<1>4. n + m + 10 = Len(v.data) + Len(v.more) + 10
  OBVIOUS
<1> HIDE DEF h, n, m, code, c
<1> DEFINE all == 4 + 4 + c + m
<1>5. Piece(LE32(c), 4) /\ Piece(LE32(all), 4) /\ all \in Nat
  <2>1. all \in Nat /\ all <= n + m + 10 /\ c <= n + m + 10
    BY <1>3
  <2> HIDE DEF all
  <2>2. QED
    BY <1>3, <1>4, <2>1, LengthPieces
<1>6. h + all = (((h + 4) + 4) + c) + m
  BY <1>2, <1>3
<1> HIDE DEF all
<1>7. Exact(bson_append_code_with_scope(key, v))
  <2>1. Exact(Appending(h + all,
                        <<Header(CODEWSCOPE, key), LE32(all), LE32(c), code, v.more>>))
    BY <1>2, <1>3, <1>5, <1>6, ExactFive
  <2>2. QED
    BY <2>1 DEF bson_append_code_with_scope, h, all, m, c, code
<1>8. ASSUME v.type = DBPOINTER
      PROVE  Exact(bson_append_dbpointer(key, v))
  <2>1. Piece(v.more, 12)
    BY <1>3, <1>8 DEF HasItsBytes, m
  <2>2. Exact(Appending(h + 4 + c + 12, <<Header(DBPOINTER, key), LE32(c), code, v.more>>))
    BY <1>2, <1>3, <1>5, <2>1, ExactFour
  <2>3. QED
    BY <2>2 DEF bson_append_dbpointer, h, c, code
<1>9. QED
  BY <1>7, <1>8

(* Every append function but that of regexes tells _bson_append to reserve *)
(* what it copies (bson.c:726-1833): what DocumentsFitTheirRoom asks of    *)
(* the calls, for the values whose fields have the bytes of their type and *)
(* whose lengths are those of an int32.                                    *)
THEOREM AppendsReserve ==
    ASSUME NEW key \in Seq(Octets), NEW v, HasItsBytes(v), v.type # REGEX
    PROVE  Reserving(bson_append_value(key, v))
<1>1. ASSUME NEW call, Exact(call)
      PROVE  Reserving(call)
  BY <1>1 DEF Exact, Piece, Reserving
<1>2. Reserving(Refused)
  BY DEF Reserving, Refused
<1> DEFINE a == bson_append_value(key, v)
<1>3. /\ Exact(bson_append_null(key, v)) /\ Exact(bson_append_undefined(key, v))
      /\ Exact(bson_append_bool(key, v))
      /\ Exact(bson_append_utf8(key, v)) /\ Exact(bson_append_symbol(key, v))
      /\ Exact(bson_append_code(key, v))
  BY EmptiesAndTextsExact
<1>4. /\ Exact(bson_append_document(key, v)) /\ Exact(bson_append_array(key, v))
      /\ Exact(bson_append_binary(key, v)) /\ Exact(bson_append_code_with_scope(key, v))
  BY DocumentsAndBinariesExact, CodesAndPointersExact
<1>5. /\ v.type \in {DOUBLE, INT32, INT64, DECIMAL128} => Exact(bson_append_number(key, v))
      /\ v.type = OID => Exact(bson_append_oid(key, v))
      /\ v.type = DATE_TIME => Exact(bson_append_date_time(key, v))
      /\ v.type = TIMESTAMP => Exact(bson_append_timestamp(key, v))
      /\ v.type = DBPOINTER => Exact(bson_append_dbpointer(key, v))
  BY FixedSizesExact, CodesAndPointersExact
<1>6. a = Refused \/ Exact(a)
  BY <1>3, <1>4, <1>5, ZenonT(120) DEF bson_append_value
<1>7. QED
  BY <1>1, <1>2, <1>6

=============================================================================
