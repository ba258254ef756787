--------------------------- MODULE BsonIter_proofs ---------------------------
(***************************************************************************)
(* Iterating, for every buffer, every key and path, and every byte written *)
(* by the overwriting functions: the iterators of a caller stay at         *)
(* elements, what they give lies in them, and they stop where no element   *)
(* is.                                                                     *)
(***************************************************************************)
EXTENDS BsonIter, WellFoundedInduction, TLAPS

Window   == [raw : Nat, len : Nat]
Iterator == [raw : Nat \cup {None}, len : Nat, off : Nat, next_off : Nat,
             d1 : Nat \cup {-1}, d2 : Nat, d3 : Nat, d4 : Nat, err_off : Nat]

(* What _bson_iter_next_internal leaves in an iterator for a value that    *)
(* starts at o, by type.                                                   *)
SizedFields(it, t, o) ==
    /\ it.d1 = IF t \in Empty THEN -1 ELSE o
    /\ it.next_off = o + SizeOf[t]

BoolFields(d, it, o) == it.d1 = o /\ it.next_off = o + 1 /\ At(d, it, o) \in {0, 1}

StringFields(d, it, o) ==
    /\ it.d1 = o /\ it.d2 = o + 4
    /\ U32(d, it, o) >= 1 /\ it.next_off = o + 4 + U32(d, it, o)
    /\ At(d, it, it.next_off - 1) = 0

BinaryFields(d, it, o) ==
    /\ it.d1 = o /\ it.d2 = o + 4 /\ it.d3 = o + 5
    /\ it.next_off = o + 5 + U32(d, it, o)
    /\ At(d, it, o + 4) = SUBTYPE_BINARY_DEPRECATED =>
          U32(d, it, o) >= 4 /\ U32(d, it, o + 5) = U32(d, it, o) - 4

DocumentFields(d, it, o) ==
    it.d1 = o /\ o + 4 < it.len /\ it.next_off = o + U32(d, it, o)

RegexFields(d, it, o) ==
    it.d1 = o /\ IsCString(d, it, o, it.d2) /\ IsCString(d, it, it.d2, it.next_off)

DbpointerFields(d, it, o) ==
    /\ it.d1 = o /\ it.d2 = o + 4 /\ it.d3 = o + 4 + U32(d, it, o)
    /\ U32(d, it, o) >= 1 /\ it.next_off = it.d3 + 12
    /\ At(d, it, it.d3 - 1) = 0

CodewscopeFields(d, it, o) ==
    /\ it.d1 = o /\ it.d2 = o + 4 /\ it.d3 = o + 8
    /\ it.d4 = o + 8 + U32(d, it, o + 4) /\ U32(d, it, o + 4) >= 1
    /\ it.next_off = o + U32(d, it, o) /\ it.d4 + 4 < it.next_off
    /\ U32(d, it, it.d4) = it.next_off - it.d4

Fields(d, it, t, o) ==
    /\ t \in Sized             => SizedFields(it, t, o)
    /\ t = BOOL                => BoolFields(d, it, o)
    /\ t \in Strings           => StringFields(d, it, o)
    /\ t = BINARY              => BinaryFields(d, it, o)
    /\ t \in {DOCUMENT, ARRAY} => DocumentFields(d, it, o)
    /\ t = REGEX               => RegexFields(d, it, o)
    /\ t = DBPOINTER           => DbpointerFields(d, it, o)
    /\ t = CODEWSCOPE          => CodewscopeFields(d, it, o)

Types == Sized \cup Strings \cup {BOOL, BINARY, DOCUMENT, ARRAY, REGEX, DBPOINTER, CODEWSCOPE}

(* An iterator is at an element: its key and the fields of its value.      *)
Parsed(d, it) ==
    /\ it.off >= 4 /\ it.next_off < it.len
    /\ At(d, it, it.off) \in Types
    /\ \E o \in it.off + 2 .. it.len :
          IsCString(d, it, it.off + 1, o) /\ Fields(d, it, At(d, it, it.off), o)

Fresh(it) == it.off = 0 /\ it.next_off = 4

(* A valid iterator reads its window, and is at an element or before the   *)
(* first.                                                                  *)
Valid(d, it, w) ==
    /\ it.raw = w.raw /\ it.len = w.len /\ it.err_off = 0
    /\ Fresh(it) \/ Parsed(d, it)

(* An iterator that is not valid any more stopped where no element is.     *)
Stopped(d, it, w) ==
    /\ ElementEnds(d, w, it.off) = {}
    /\ w.len >= 5 /\ At(d, w, w.len - 1) = 0
          => (it.err_off = 0 <=> it.off = w.len - 1)

(* A window lies in the document or array that an iterator is at.          *)
Holds(d, it, w) ==
    /\ it.raw # None /\ it.off > 0 /\ At(d, it, it.off) \in {DOCUMENT, ARRAY}
    /\ it.raw + it.d1 <= w.raw
    /\ w.raw + w.len <= it.raw + it.next_off

(* The iterators s of a caller and their windows w.  Only the one on top   *)
(* may have stopped: those below it are at the documents that hold the     *)
(* ones above them.                                                        *)
Stack(d, s, w) ==
    /\ s \in Seq(Iterator) /\ w \in Seq(Window)
    /\ Len(w) = Len(s) /\ Len(s) >= 1
    /\ \A i \in 1 .. Len(s) : /\ s[i].raw # None => Valid(d, s[i], w[i])
                              /\ s[i].raw = None => Stopped(d, s[i], w[i])
                              /\ w[i].len = U32(d, w[i], 0)
    /\ \A i, j \in 1 .. Len(s) : i < j => Holds(d, s[i], w[j])

(* Of a call in progress, the iterators the caller had are still there.    *)
Calling == /\ call = [path |-> call.path, kind |-> call.kind, base |-> call.base]
           /\ call = Idle \/ call.base \in 1 .. Len(iters)

(***************************************************************************)
(* The inductive invariant.                                                *)
(***************************************************************************)
IInv == data \in Seq(0 .. 255) /\ Stack(data, iters, windows) /\ Calling

-----------------------------------------------------------------------------
(* Bytes, lengths and C strings.                                           *)
LEMMA AtType ==
    ASSUME NEW d \in Seq(0 .. 255), NEW w, NEW x
    PROVE  At(d, w, x) \in 0 .. 255
BY DEF At

LEMMA U32Type ==
    ASSUME NEW d \in Seq(0 .. 255), NEW w, NEW x
    PROVE  U32(d, w, x) \in Nat
<1> DEFINE a == At(d, w, x)
           b == At(d, w, x + 1)
           c == At(d, w, x + 2)
           e == At(d, w, x + 3)
<1>1. a \in 0 .. 255 /\ b \in 0 .. 255 /\ c \in 0 .. 255 /\ e \in 0 .. 255
  BY AtType
<1>2. U32(d, w, x) = IF e >= 128 THEN Huge
                     ELSE a + 256 * b + 65536 * c + 16777216 * e
  BY SMT DEF U32
<1>3. Huge \in Nat
  BY SMT DEF Huge
<1> HIDE DEF a, b, c, e
<1>4. QED
  BY <1>1, <1>2, <1>3, SMT

(* What is read depends on where a window begins, not on how long it is.   *)
LEMMA SameStart ==
    ASSUME NEW d, NEW v, NEW w, v.raw = w.raw
    PROVE  /\ \A x : At(d, v, x) = At(d, w, x)
           /\ \A x : U32(d, v, x) = U32(d, w, x)
           /\ \A i, e : IsCString(d, v, i, e) <=> IsCString(d, w, i, e)
<1>1. \A x : At(d, v, x) = At(d, w, x)
  BY DEF At
<1>2. \A x : U32(d, v, x) = U32(d, w, x)
  BY <1>1, SMT DEF U32
<1>3. \A i, e : IsCString(d, v, i, e) <=> IsCString(d, w, i, e)
  BY <1>1 DEF IsCString
<1>4. QED
  BY <1>1, <1>2, <1>3

Before == {p \in Nat \X Nat : p[1] < p[2]}

LEMMA BeforeWellFounded == IsWellFoundedOn(Before, Nat)
BY NatLessThanWellFounded DEF OpToRel, Before

(* The least of a set of numbers, which need not be finite.                *)
LEMMA MinFacts ==
    ASSUME NEW S \in SUBSET Nat, S # {}
    PROVE  Min(S) \in S /\ \A x \in S : Min(S) <= x
<1>1. PICK m \in S : \A x \in S : <<x, m>> \notin Before
  BY BeforeWellFounded, WFMin
<1>2. ASSUME NEW x \in S PROVE m <= x
  <2>1. m \in Nat /\ x \in Nat /\ <<x, m>> \notin Before
    BY <1>1
  <2>2. ~ x < m
    BY <2>1 DEF Before
  <2>3. QED
    BY <2>1, <2>2
<1>3. QED
  BY <1>2 DEF Min

(* A C string ends at its first 0, which the loops of                      *)
(* _bson_iter_next_internal look for.                                      *)
LEMMA NulsEnd ==
    ASSUME NEW it \in Iterator, NEW i \in Nat, Nuls(it, i) # {}
    PROVE  /\ Min(Nuls(it, i)) \in i .. it.len - 1
           /\ IsCString(data, it, i, Min(Nuls(it, i)) + 1)
<1> DEFINE S == Nuls(it, i)
           m == Min(S)
<1>1. it.len \in Nat
  BY DEF Iterator
<1>2. S \in SUBSET Nat
  BY <1>1 DEF Nuls
<1>3. m \in S /\ \A x \in S : m <= x
  BY <1>2, MinFacts
<1>4. m \in i .. it.len - 1 /\ At(data, it, m) = 0
  BY <1>3 DEF Nuls
<1>5. ASSUME NEW j \in i .. m + 1 - 1, At(data, it, j) = 0 PROVE j = m
  <2>1. j \in S
    BY <1>1, <1>4, <1>5 DEF Nuls
  <2>2. QED
    BY <1>3, <1>4, <2>1
<1>6. QED
  BY <1>1, <1>4, <1>5 DEF IsCString

LEMMA EndIsNul ==
    ASSUME NEW it \in Iterator, NEW i \in Nat, NEW e \in Int, e <= it.len,
           IsCString(data, it, i, e)
    PROVE  Nuls(it, i) # {}
<1>1. e - 1 \in Nuls(it, i)
  BY DEF IsCString, Nuls, Iterator
<1>2. QED
  BY <1>1

LEMMA EndIsUnique ==
    ASSUME NEW d, NEW w, NEW i \in Int, NEW e \in Int, NEW f \in Int,
           IsCString(d, w, i, e), IsCString(d, w, i, f)
    PROVE  e = f
<1>1. CASE e < f
  <2>1. e - 1 \in i .. f - 1 /\ e - 1 \in i .. e - 1
    BY <1>1 DEF IsCString
  <2>2. QED
    BY <2>1 DEF IsCString
<1>2. CASE f < e
  <2>1. f - 1 \in i .. e - 1 /\ f - 1 \in i .. f - 1
    BY <1>2 DEF IsCString
  <2>2. QED
    BY <2>1 DEF IsCString
<1>3. QED
  BY <1>1, <1>2

-----------------------------------------------------------------------------
(* Which branch of _bson_iter_next_internal a type takes.                  *)
LEMMA SizeFacts ==
    /\ \A t \in Sized : SizeOf[t] \in 0 .. 16
    /\ \A t \in Empty : SizeOf[t] = 0
    /\ \A t \in Sized \ Empty : SizeOf[t] >= 1
BY DEF SizeOf, Sized, Empty, Wide, DOUBLE, UNDEFINED, OID, DATE_TIME, NULL, INT32,
       TIMESTAMP, INT64, DECIMAL128, MAXKEY, MINKEY

LEMMA Branches ==
    ASSUME NEW it, NEW t, NEW o
    PROVE  /\ t \in Sized => Value(it, t, o) = SizedValue(it, t, o)
           /\ t = BOOL => Value(it, t, o) = BoolValue(it, o)
           /\ t \in Strings => Value(it, t, o) = StringValue(it, o)
           /\ t = BINARY => Value(it, t, o) = BinaryValue(it, o)
           /\ t \in {DOCUMENT, ARRAY} => Value(it, t, o) = DocumentValue(it, o)
           /\ t = REGEX => Value(it, t, o) = RegexValue(it, o)
           /\ t = DBPOINTER => Value(it, t, o) = DbpointerValue(it, o)
           /\ t = CODEWSCOPE => Value(it, t, o) = CodewscopeValue(it, o)
           /\ t \notin Types => Value(it, t, o) = {Bad(o)}
BY DEF Value, Types, Sized, Empty, Wide, Strings, DOUBLE, UTF8, DOCUMENT, ARRAY, BINARY,
       UNDEFINED, OID, BOOL, DATE_TIME, NULL, REGEX, DBPOINTER, CODE, SYMBOL, CODEWSCOPE,
       INT32, TIMESTAMP, INT64, DECIMAL128, MAXKEY, MINKEY

LEMMA TypesApart ==
    /\ \A t \in Sized : t \notin Strings \cup {BOOL, BINARY, DOCUMENT, ARRAY, REGEX,
                                              DBPOINTER, CODEWSCOPE}
    /\ \A t \in Strings : t \notin {BOOL, BINARY, DOCUMENT, ARRAY, REGEX, DBPOINTER,
                                    CODEWSCOPE}
    /\ BOOL \notin {BINARY, DOCUMENT, ARRAY, REGEX, DBPOINTER, CODEWSCOPE}
    /\ BINARY \notin {DOCUMENT, ARRAY, REGEX, DBPOINTER, CODEWSCOPE}
    /\ {DOCUMENT, ARRAY} \cap {REGEX, DBPOINTER, CODEWSCOPE} = {}
    /\ REGEX # DBPOINTER /\ REGEX # CODEWSCOPE /\ DBPOINTER # CODEWSCOPE
BY DEF Sized, Empty, Wide, Strings, DOUBLE, UTF8, DOCUMENT, ARRAY, BINARY, UNDEFINED, OID,
       BOOL, DATE_TIME, NULL, REGEX, DBPOINTER, CODE, SYMBOL, CODEWSCOPE, INT32, TIMESTAMP,
       INT64, DECIMAL128, MAXKEY, MINKEY

(* The fields of a value are those of its type and of no other.            *)
LEMMA OneBranch ==
    ASSUME NEW d, NEW it, NEW t, NEW o
    PROVE  /\ t \in Sized /\ SizedFields(it, t, o) => t \in Types /\ Fields(d, it, t, o)
           /\ t = BOOL /\ BoolFields(d, it, o) => t \in Types /\ Fields(d, it, t, o)
           /\ t \in Strings /\ StringFields(d, it, o) => t \in Types /\ Fields(d, it, t, o)
           /\ t = BINARY /\ BinaryFields(d, it, o) => t \in Types /\ Fields(d, it, t, o)
           /\ t \in {DOCUMENT, ARRAY} /\ DocumentFields(d, it, o) => t \in Types /\ Fields(d, it, t, o)
           /\ t = REGEX /\ RegexFields(d, it, o) => t \in Types /\ Fields(d, it, t, o)
           /\ t = DBPOINTER /\ DbpointerFields(d, it, o) => t \in Types /\ Fields(d, it, t, o)
           /\ t = CODEWSCOPE /\ CodewscopeFields(d, it, o) => t \in Types /\ Fields(d, it, t, o)
<1>1. ASSUME t \in Sized, SizedFields(it, t, o)
      PROVE  t \in Types /\ Fields(d, it, t, o)
  BY <1>1, TypesApart DEF Fields, Types
<1>2. ASSUME t = BOOL, BoolFields(d, it, o)
      PROVE  t \in Types /\ Fields(d, it, t, o)
  BY <1>2, TypesApart DEF Fields, Types
<1>3. ASSUME t \in Strings, StringFields(d, it, o)
      PROVE  t \in Types /\ Fields(d, it, t, o)
  BY <1>3, TypesApart DEF Fields, Types
<1>4. ASSUME t = BINARY, BinaryFields(d, it, o)
      PROVE  t \in Types /\ Fields(d, it, t, o)
  BY <1>4, TypesApart DEF Fields, Types
<1>5. ASSUME t \in {DOCUMENT, ARRAY}, DocumentFields(d, it, o)
      PROVE  t \in Types /\ Fields(d, it, t, o)
  BY <1>5, TypesApart DEF Fields, Types
<1>6. ASSUME t = REGEX, RegexFields(d, it, o)
      PROVE  t \in Types /\ Fields(d, it, t, o)
  BY <1>6, TypesApart DEF Fields, Types
<1>7. ASSUME t = DBPOINTER, DbpointerFields(d, it, o)
      PROVE  t \in Types /\ Fields(d, it, t, o)
  BY <1>7, TypesApart DEF Fields, Types
<1>8. ASSUME t = CODEWSCOPE, CodewscopeFields(d, it, o)
      PROVE  t \in Types /\ Fields(d, it, t, o)
  BY <1>8, TypesApart DEF Fields, Types
<1>9. QED
  BY <1>1, <1>2, <1>3, <1>4, <1>5, <1>6, <1>7, <1>8

LEMMA PositionedFields ==
    ASSUME NEW it \in Iterator, NEW v, v.ok, v.next_off < it.len
    PROVE  LET p == Positioned(it, v) IN
           /\ p = [raw |-> it.raw, len |-> it.len, off |-> it.next_off,
                   next_off |-> v.next_off, d1 |-> v.d1, d2 |-> v.d2, d3 |-> v.d3,
                   d4 |-> v.d4, err_off |-> 0]
           /\ p.raw = it.raw /\ p.len = it.len /\ p.off = it.next_off
           /\ p.next_off = v.next_off /\ p.err_off = 0
           /\ p.d1 = v.d1 /\ p.d2 = v.d2 /\ p.d3 = v.d3 /\ p.d4 = v.d4
BY DEF Positioned, Iterator

(* A value that is accepted has the fields of its type.                    *)
LEMMA AcceptedFields ==
    ASSUME data \in Seq(0 .. 255), NEW it \in Iterator, NEW t, NEW o \in Nat,
           o <= it.len, NEW v \in Value(it, t, o), v.ok, v.next_off < it.len
    PROVE  /\ t \in Types
           /\ v.d1 \in Nat \cup {-1} /\ v.d2 \in Nat /\ v.d3 \in Nat /\ v.d4 \in Nat
           /\ v.next_off \in Nat
           /\ Fields(data, Positioned(it, v), t, o)
<1> DEFINE p == Positioned(it, v)
<1>1. /\ p.raw = it.raw /\ p.len = it.len /\ p.next_off = v.next_off
      /\ p.d1 = v.d1 /\ p.d2 = v.d2 /\ p.d3 = v.d3 /\ p.d4 = v.d4
  BY PositionedFields
<1> HIDE DEF p
<1>2. /\ \A x : At(data, p, x) = At(data, it, x)
      /\ \A x : U32(data, p, x) = U32(data, it, x)
      /\ \A i, e : IsCString(data, p, i, e) <=> IsCString(data, it, i, e)
  BY <1>1, SameStart
<1>3. /\ \A x : At(data, it, x) \in 0 .. 255
      /\ \A x : U32(data, it, x) \in Nat
  BY AtType, U32Type
<1>4. it.len \in Nat
  BY DEF Iterator
<1>. SUFFICES /\ t \in Types
              /\ v.d1 \in Nat \cup {-1} /\ v.d2 \in Nat /\ v.d3 \in Nat /\ v.d4 \in Nat
              /\ v.next_off \in Nat
              /\ Fields(data, p, t, o)
  BY DEF p
<1>5. CASE t \in Sized
  <2>1. v = Good(o, IF t \in Empty THEN -1 ELSE o, 0, 0, 0, o + SizeOf[t])
    BY <1>5, Branches DEF SizedValue
  <2>2. SizeOf[t] \in Nat
    BY SMTT(30), <1>5, SizeFacts
  <2>3. v.d1 = (IF t \in Empty THEN -1 ELSE o) /\ v.d2 = 0 /\ v.d3 = 0 /\ v.d4 = 0
        /\ v.next_off = o + SizeOf[t]
    BY <2>1 DEF Good
  <2>4. SizedFields(p, t, o)
    BY <1>1, <2>3 DEF SizedFields
  <2>5. QED
    BY <1>5, <2>2, <2>3, <2>4, OneBranch
<1>6. CASE t = BOOL
  <2>1. v \in {IF o < it.len /\ At(data, it, o) \in {0, 1} THEN Good(o, o, 0, 0, 0, o + 1)
                                                        ELSE Bad(o)}
    BY <1>6, Branches DEF BoolValue
  <2>2. v = Good(o, o, 0, 0, 0, o + 1) /\ At(data, it, o) \in {0, 1}
    BY <2>1 DEF Bad
  <2>3. v.d1 = o /\ v.d2 = 0 /\ v.d3 = 0 /\ v.d4 = 0 /\ v.next_off = o + 1
    BY <2>2 DEF Good
  <2>4. BoolFields(data, p, o)
    BY <1>1, <1>2, <2>2, <2>3 DEF BoolFields
  <2>5. QED
    BY <1>6, <2>3, <2>4, OneBranch
<1>7. CASE t \in Strings
  <2> DEFINE l == U32(data, it, o)
  <2>1. v \in StringValue(it, o)
    BY <1>7, Branches
  <2>2. v = Good(o, o, o + 4, 0, 0, o + 4 + l) /\ l # 0
        /\ At(data, it, o + 4 + l - 1) = 0
    BY <2>1 DEF StringValue, Bad
  <2>3. v.d1 = o /\ v.d2 = o + 4 /\ v.d3 = 0 /\ v.d4 = 0 /\ v.next_off = o + 4 + l
    BY <2>2 DEF Good
  <2>4. l \in Nat
    BY <1>3
  <2>5. StringFields(data, p, o)
    BY <1>1, <1>2, <2>2, <2>3, <2>4 DEF StringFields
  <2> HIDE DEF l
  <2>6. QED
    BY <1>7, <2>3, <2>4, <2>5, OneBranch
<1>8. CASE t = BINARY
  <2> DEFINE l == U32(data, it, o)
             old == At(data, it, o + 4) = SUBTYPE_BINARY_DEPRECATED
  <2>1. v \in BinaryValue(it, o)
    BY <1>8, Branches
  <2>2. /\ v = Good(o, o, o + 4, o + 5, 0, o + 5 + l)
        /\ old => ~(l < 4) /\ U32(data, it, o + 5) = l - 4
    BY <2>1 DEF BinaryValue, Bad
  <2>3. v.d1 = o /\ v.d2 = o + 4 /\ v.d3 = o + 5 /\ v.d4 = 0 /\ v.next_off = o + 5 + l
    BY <2>2 DEF Good
  <2>4. l \in Nat
    BY <1>3
  <2>5. BinaryFields(data, p, o)
    BY <1>1, <1>2, <2>2, <2>3, <2>4 DEF BinaryFields
  <2> HIDE DEF l
  <2>6. QED
    BY <1>8, <2>3, <2>4, <2>5, OneBranch
<1>9. CASE t \in {DOCUMENT, ARRAY}
  <2> DEFINE l == U32(data, it, o)
  <2>1. v \in DocumentValue(it, o)
    BY <1>9, Branches
  <2>2. v = Good(o, o, 0, 0, 0, o + l) /\ ~(o >= it.len - 4)
    BY <2>1 DEF DocumentValue, Bad
  <2>3. v.d1 = o /\ v.d2 = 0 /\ v.d3 = 0 /\ v.d4 = 0 /\ v.next_off = o + l
    BY <2>2 DEF Good
  <2>4. l \in Nat
    BY <1>3
  <2>5. DocumentFields(data, p, o)
    BY <1>1, <1>2, <1>4, <2>2, <2>3, <2>4 DEF DocumentFields
  <2> HIDE DEF l
  <2>6. QED
    BY <1>9, <2>3, <2>4, <2>5, OneBranch
<1>10. CASE t = REGEX
  <2> DEFINE regex == Nuls(it, o)
             options == Nuls(it, Min(regex) + 1)
  <2>1. v \in RegexValue(it, o)
    BY <1>10, Branches
  <2>2. /\ regex # {} /\ options # {}
        /\ v = Good(Min(options), o, Min(regex) + 1, 0, 0, Min(options) + 1)
    BY <2>1 DEF RegexValue, Bad
  <2>3. Min(regex) \in o .. it.len - 1 /\ IsCString(data, it, o, Min(regex) + 1)
    BY <2>2, NulsEnd
  <2>4. /\ Min(options) \in Min(regex) + 1 .. it.len - 1
        /\ IsCString(data, it, Min(regex) + 1, Min(options) + 1)
    BY <2>2, <2>3, NulsEnd
  <2> HIDE DEF regex, options
  <2>5. v.d1 = o /\ v.d2 = Min(regex) + 1 /\ v.next_off = Min(options) + 1
        /\ v.d3 = 0 /\ v.d4 = 0
    BY <2>2 DEF Good
  <2>6. RegexFields(data, p, o)
    BY <1>1, <1>2, <2>3, <2>4, <2>5 DEF RegexFields
  <2>7. QED
    BY <1>4, <1>10, <2>3, <2>4, <2>5, <2>6, OneBranch
<1>11. CASE t = DBPOINTER
  <2> DEFINE l == U32(data, it, o)
  <2>1. v \in DbpointerValue(it, o)
    BY <1>11, Branches
  <2>2. /\ v = Good(o, o, o + 4, o + 4 + l, 0, o + 4 + l + 12) /\ l # 0
        /\ ~(At(data, it, o + l + 3) # 0)
    BY <2>1 DEF DbpointerValue, Bad
  <2>3. v.d1 = o /\ v.d2 = o + 4 /\ v.d3 = o + 4 + l /\ v.d4 = 0
        /\ v.next_off = o + 4 + l + 12
    BY <2>2 DEF Good
  <2>4. l \in Nat
    BY <1>3
  <2>5. DbpointerFields(data, p, o)
    <3>1. At(data, p, v.d3 - 1) = 0
      BY <1>2, <2>2, <2>3, <2>4
    <3>2. QED
      BY <1>1, <1>2, <2>2, <2>3, <2>4, <3>1 DEF DbpointerFields
  <2> HIDE DEF l
  <2>6. QED
    BY <1>11, <2>3, <2>4, <2>5, OneBranch
<1>12. CASE t = CODEWSCOPE
  <2> DEFINE l == U32(data, it, o)
             code == U32(data, it, o + 4)
  <2>1. v \in CodewscopeValue(it, o)
    BY <1>12, Branches
  <2>2. /\ v = Good(o, o, o + 4, o + 8, o + 8 + code, o + l) /\ code # 0
        /\ ~(o + 8 + code + 4 >= o + l)
        /\ U32(data, it, o + 8 + code) = o + l - (o + 8 + code)
    BY <2>1 DEF CodewscopeValue, Bad
  <2>3. v.d1 = o /\ v.d2 = o + 4 /\ v.d3 = o + 8 /\ v.d4 = o + 8 + code
        /\ v.next_off = o + l
    BY <2>2 DEF Good
  <2>4. l \in Nat /\ code \in Nat
    BY <1>3
  <2>5. CodewscopeFields(data, p, o)
    BY <1>1, <1>2, <2>2, <2>3, <2>4 DEF CodewscopeFields
  <2> HIDE DEF l, code
  <2>6. QED
    BY <1>12, <2>3, <2>4, <2>5, OneBranch
<1>13. CASE t \notin Types
  BY <1>13, Branches DEF Bad
<1>14. QED
  BY <1>5, <1>6, <1>7, <1>8, <1>9, <1>10, <1>11, <1>12, <1>13 DEF Types

-----------------------------------------------------------------------------
(* The branches against the grammar.                                       *)
LEMMA ValueOfType ==
    ASSUME NEW d, NEW w, NEW t, NEW i, NEW e
    PROVE  /\ t \in Sized => (IsValue(d, w, t, i, e) <=> e = i + SizeOf[t])
           /\ t = BOOL =>
                (IsValue(d, w, t, i, e) <=> e = i + 1 /\ At(d, w, i) \in {0, 1})
           /\ t \in Strings => (IsValue(d, w, t, i, e) <=> IsString(d, w, i, e))
           /\ t = BINARY =>
                (IsValue(d, w, t, i, e) <=>
                    /\ U32(d, w, i) = e - i - 5
                    /\ \/ At(d, w, i + 4) # SUBTYPE_BINARY_DEPRECATED
                       \/ e >= i + 9 /\ U32(d, w, i + 5) = e - i - 9)
           /\ t \in {DOCUMENT, ARRAY} =>
                (IsValue(d, w, t, i, e) <=> i + 4 < w.len /\ U32(d, w, i) = e - i)
           /\ t = REGEX =>
                (IsValue(d, w, t, i, e) <=>
                    \E m \in i .. e : IsCString(d, w, i, m) /\ IsCString(d, w, m, e))
           /\ t = DBPOINTER => (IsValue(d, w, t, i, e) <=> IsString(d, w, i, e - 12))
           /\ t = CODEWSCOPE =>
                (IsValue(d, w, t, i, e) <=>
                    /\ U32(d, w, i) = e - i
                    /\ \E m \in i + 9 .. e - 5 :
                          U32(d, w, i + 4) = m - i - 8 /\ U32(d, w, m) = e - m)
           /\ t \notin Types => ~IsValue(d, w, t, i, e)
<1>1. CASE t \in Sized
  BY <1>1, TypesApart DEF IsValue, Types
<1>2. CASE t = BOOL
  BY <1>2, TypesApart DEF IsValue, Types
<1>3. CASE t \in Strings
  BY <1>3, TypesApart DEF IsValue, Types
<1>4. CASE t = BINARY
  BY <1>4, TypesApart DEF IsValue, Types
<1>5. CASE t \in {DOCUMENT, ARRAY}
  BY <1>5, TypesApart DEF IsValue, Types
<1>6. CASE t = REGEX
  BY <1>6, TypesApart DEF IsValue, Types
<1>7. CASE t = DBPOINTER
  BY <1>7, TypesApart DEF IsValue, Types
<1>8. CASE t = CODEWSCOPE
  BY <1>8, TypesApart DEF IsValue, Types
<1>9. CASE t \notin Types
  BY <1>9, TypesApart DEF IsValue, Types
<1>10. QED
  BY <1>1, <1>2, <1>3, <1>4, <1>5, <1>6, <1>7, <1>8, <1>9 DEF Types

(* An iterator with the fields of a value is at one.                       *)
LEMMA FieldsOfValue ==
    ASSUME NEW d \in Seq(0 .. 255), NEW it \in Iterator, NEW t \in Types, NEW o \in Nat,
           Fields(d, it, t, o)
    PROVE  IsValue(d, it, t, o, it.next_off) /\ it.next_off >= o
<1> DEFINE e == it.next_off
<1>1. e \in Nat /\ it.len \in Nat /\ it.d2 \in Nat /\ it.d4 \in Nat
  BY DEF Iterator
<1>2. /\ \A x : At(d, it, x) \in 0 .. 255
      /\ \A x : U32(d, it, x) \in Nat
  BY AtType, U32Type
<1> SUFFICES IsValue(d, it, t, o, e) /\ e >= o
  OBVIOUS
<1>3. CASE t \in Sized
  <2>1. e = o + SizeOf[t] /\ SizeOf[t] \in Nat
    BY SMTT(30), <1>3, SizeFacts DEF Fields, SizedFields
  <2>2. QED
    BY <1>1, <1>3, <2>1, ValueOfType
<1>4. CASE t = BOOL
  <2>1. e = o + 1 /\ At(d, it, o) \in {0, 1}
    BY <1>4 DEF Fields, BoolFields
  <2>2. QED
    BY <1>1, <1>4, <2>1, ValueOfType
<1>5. CASE t \in Strings
  <2> DEFINE l == U32(d, it, o)
  <2>1. l >= 1 /\ e = o + 4 + l /\ At(d, it, e - 1) = 0
    BY <1>5 DEF Fields, StringFields
  <2>2. l \in Nat
    BY <1>2
  <2>3. e > o + 4 /\ l = e - o - 4
    BY <2>1, <2>2
  <2>4. IsString(d, it, o, e)
    BY <2>1, <2>3 DEF IsString
  <2> HIDE DEF l
  <2>5. QED
    BY <1>1, <1>5, <2>3, <2>4, ValueOfType
<1>6. CASE t = BINARY
  <2> DEFINE l == U32(d, it, o)
             old == At(d, it, o + 4) = SUBTYPE_BINARY_DEPRECATED
             inner == U32(d, it, o + 5)
  <2>1. e = o + 5 + l /\ (old => l >= 4 /\ inner = l - 4)
    BY <1>6 DEF Fields, BinaryFields
  <2>2. l \in Nat /\ inner \in Nat
    BY <1>2
  <2>3. IsValue(d, it, t, o, e) <=>
           l = e - o - 5 /\ (~old \/ (e >= o + 9 /\ inner = e - o - 9))
    BY <1>6, ValueOfType
  <2> HIDE DEF l, old, inner
  <2>4. QED
    BY <1>1, <2>1, <2>2, <2>3
<1>7. CASE t \in {DOCUMENT, ARRAY}
  <2> DEFINE l == U32(d, it, o)
  <2>1. o + 4 < it.len /\ e = o + l
    BY <1>7 DEF Fields, DocumentFields
  <2>2. l \in Nat
    BY <1>2
  <2>3. IsValue(d, it, t, o, e) <=> o + 4 < it.len /\ l = e - o
    BY <1>7, ValueOfType
  <2> HIDE DEF l
  <2>4. QED
    BY <1>1, <2>1, <2>2, <2>3
<1>8. CASE t = REGEX
  <2>1. IsCString(d, it, o, it.d2) /\ IsCString(d, it, it.d2, e)
    BY <1>8 DEF Fields, RegexFields
  <2>2. it.d2 \in o .. e
    BY <1>1, <2>1 DEF IsCString
  <2>3. QED
    BY <1>1, <1>8, <2>1, <2>2, ValueOfType
<1>9. CASE t = DBPOINTER
  <2> DEFINE l == U32(d, it, o)
  <2>1. l >= 1 /\ it.d3 = o + 4 + l /\ e = it.d3 + 12 /\ At(d, it, it.d3 - 1) = 0
    BY <1>9 DEF Fields, DbpointerFields
  <2>2. l \in Nat
    BY <1>2
  <2>3. it.d3 = e - 12 /\ e - 12 > o + 4 /\ l = e - 12 - o - 4 /\ e >= o
    BY <1>1, <2>1, <2>2, SMTT(40)
  <2>4. IsString(d, it, o, e - 12)
    BY <2>1, <2>3 DEF IsString
  <2>5. QED
    BY <1>9, <2>3, <2>4, ValueOfType
<1>10. CASE t = CODEWSCOPE
  <2> DEFINE l == U32(d, it, o)
             code == U32(d, it, o + 4)
             m == it.d4
  <2>1. /\ m = o + 8 + code /\ code >= 1 /\ e = o + l /\ m + 4 < e
        /\ U32(d, it, m) = e - m
    BY <1>10 DEF Fields, CodewscopeFields
  <2>2. l \in Nat /\ code \in Nat
    BY <1>2
  <2>3. IsValue(d, it, t, o, e) <=>
           /\ l = e - o
           /\ \E x \in o + 9 .. e - 5 : code = x - o - 8 /\ U32(d, it, x) = e - x
    BY <1>10, ValueOfType, SMTT(40)
  <2>4. m \in Nat /\ U32(d, it, m) = e - m
    BY <1>1, <2>1
  <2> HIDE DEF l, code, m, e
  <2>5. m \in o + 9 .. e - 5 /\ code = m - o - 8 /\ l = e - o /\ e >= o
    BY <1>1, <2>1, <2>2, <2>4
  <2>6. QED
    BY <2>3, <2>4, <2>5
<1>11. QED
  BY <1>3, <1>4, <1>5, <1>6, <1>7, <1>8, <1>9, <1>10 DEF Types

(* Where a value is refused, or does not end in the window, no value is;   *)
(* and the offset reported is not 0.                                       *)
LEMMA RefusedIsNoValue ==
    ASSUME data \in Seq(0 .. 255), NEW it \in Iterator, it.next_off \in Nat \ {0},
           NEW t, NEW o \in Nat, o >= 6, o <= it.len,
           NEW v \in Value(it, t, o), ~(v.ok /\ v.next_off < it.len)
    PROVE  /\ v.err_off \in Nat \ {0}
           /\ \A e \in Int : e < it.len => ~IsValue(data, it, t, o, e)
<1>1. /\ \A x : At(data, it, x) \in 0 .. 255
      /\ \A x : U32(data, it, x) \in Nat
  BY AtType, U32Type
<1>2. it.len \in Nat
  BY DEF Iterator
<1> SUFFICES ASSUME NEW e \in Int, e < it.len
             PROVE  v.err_off \in Nat \ {0} /\ ~IsValue(data, it, t, o, e)
  <2>1. it.len - 1 \in Int /\ it.len - 1 < it.len
    BY <1>2
  <2>2. QED
    BY <2>1
<1>3. CASE t \in Sized
  <2>1. v = Good(o, IF t \in Empty THEN -1 ELSE o, 0, 0, 0, o + SizeOf[t])
    BY <1>3, Branches DEF SizedValue
  <2>2. v.ok /\ v.err_off = o /\ v.next_off = o + SizeOf[t]
    BY <2>1 DEF Good
  <2>3. IsValue(data, it, t, o, e) <=> e = o + SizeOf[t]
    BY <1>3, ValueOfType
  <2>4. QED
    BY <1>2, <2>2, <2>3
<1>4. CASE t = BOOL
  <2>1. v = IF o < it.len /\ At(data, it, o) \in {0, 1} THEN Good(o, o, 0, 0, 0, o + 1)
                                                        ELSE Bad(o)
    BY <1>4, Branches DEF BoolValue
  <2>2. v.err_off = o
    BY <2>1 DEF Good, Bad
  <2>3. IsValue(data, it, t, o, e) <=> e = o + 1 /\ At(data, it, o) \in {0, 1}
    BY <1>4, ValueOfType
  <2>4. o < it.len /\ At(data, it, o) \in {0, 1} => v.ok /\ v.next_off = o + 1
    BY <2>1 DEF Good
  <2>5. QED
    BY <1>2, <2>2, <2>3, <2>4
<1>5. CASE t \in Strings
  <2> DEFINE l == U32(data, it, o)
             last == At(data, it, o + 4 + l - 1)
  <2>1. v \in StringValue(it, o)
    BY <1>5, Branches
  <2>2. v = IF \/ o + 4 >= it.len \/ l > it.len - (o + 4)
               \/ l = 0 \/ o + 4 + l >= it.len
            THEN Bad(o)
            ELSE IF last # 0 THEN Bad(o + 4 + l - 1)
            ELSE Good(o, o, o + 4, 0, 0, o + 4 + l)
    BY <2>1 DEF StringValue
  <2>3. l \in Nat
    BY <1>1
  <2>4. IsValue(data, it, t, o, e) =>
           e > o + 4 /\ l = e - o - 4 /\ At(data, it, e - 1) = 0
    BY <1>5, ValueOfType DEF IsString
  <2>5. IsValue(data, it, t, o, e) => l >= 1 /\ o + 4 + l < it.len /\ last = 0
    <3>1. SUFFICES ASSUME IsValue(data, it, t, o, e)
                   PROVE  l >= 1 /\ o + 4 + l < it.len /\ last = 0
      OBVIOUS
    <3>2. e > o + 4 /\ l = e - o - 4 /\ e - 1 = o + 4 + l - 1
      BY <2>3, <2>4, <3>1
    <3>3. last = 0
      BY <2>4, <3>1, <3>2
    <3>4. QED
      BY <1>2, <2>3, <3>2, <3>3
  <2> HIDE DEF l, last
  <2>6. l >= 1 /\ o + 4 + l < it.len /\ last = 0
           => v = Good(o, o, o + 4, 0, 0, o + 4 + l)
    BY <1>2, <2>2, <2>3
  <2>7. l >= 1 /\ o + 4 + l < it.len /\ last = 0 => FALSE
    BY <2>6 DEF Good
  <2>8. \/ v.err_off = o
        \/ l # 0 /\ v.err_off = o + 4 + l - 1
    BY <2>2 DEF Good, Bad
  <2>9. QED
    BY <2>3, <2>5, <2>7, <2>8
<1>6. CASE t = BINARY
  <2> DEFINE l == U32(data, it, o)
             old == At(data, it, o + 4) = SUBTYPE_BINARY_DEPRECATED
             inner == U32(data, it, o + 5)
  <2>1. v \in BinaryValue(it, o)
    BY <1>6, Branches
  <2>2. l \in Nat /\ inner \in Nat
    BY <1>1
  <2>3. v \in IF o >= it.len - 4 \/ l >= it.len - o \/ (old /\ l < 4) THEN {Bad(o)}
              ELSE IF old /\ o + 9 > it.len THEN {Bad(o), Bad(o + 5)}
              ELSE IF old /\ inner # l - 4 THEN {Bad(o + 5)}
              ELSE {Good(o, o, o + 4, o + 5, 0, o + 5 + l)}
    BY <2>1 DEF BinaryValue
  <2>4. IsValue(data, it, t, o, e) <=>
           l = e - o - 5 /\ (~old \/ (e >= o + 9 /\ inner = e - o - 9))
    BY <1>6, ValueOfType, SMTT(40)
  <2> HIDE DEF l, old, inner
  <2>5. IsValue(data, it, t, o, e) =>
           /\ ~(o >= it.len - 4 \/ l >= it.len - o \/ (old /\ l < 4))
           /\ ~(old /\ o + 9 > it.len) /\ ~(old /\ inner # l - 4)
           /\ o + 5 + l < it.len
    BY <1>2, <2>2, <2>4
  <2>6. IsValue(data, it, t, o, e) => v = Good(o, o, o + 4, o + 5, 0, o + 5 + l)
    BY <2>3, <2>5
  <2>7. IsValue(data, it, t, o, e) => FALSE
    BY <2>5, <2>6 DEF Good
  <2>8. v.err_off = o \/ v.err_off = o + 5
    BY <2>3 DEF Good, Bad
  <2>9. QED
    BY <2>7, <2>8
<1>7. CASE t \in {DOCUMENT, ARRAY}
  <2> DEFINE l == U32(data, it, o)
  <2>1. v \in DocumentValue(it, o)
    BY <1>7, Branches
  <2>2. l \in Nat
    BY <1>1
  <2>3. v = IF o >= it.len - 4 \/ l > it.len \/ l > it.len - o THEN Bad(o)
                                      ELSE Good(o, o, 0, 0, 0, o + l)
    BY <2>1 DEF DocumentValue
  <2>4. IsValue(data, it, t, o, e) <=> o + 4 < it.len /\ l = e - o
    BY <1>7, ValueOfType
  <2> HIDE DEF l
  <2>5. IsValue(data, it, t, o, e) =>
           ~(o >= it.len - 4 \/ l > it.len \/ l > it.len - o) /\ o + l < it.len
    BY <1>2, <2>2, <2>4
  <2>6. IsValue(data, it, t, o, e) => FALSE
    BY <2>3, <2>5 DEF Good
  <2>7. v.err_off = o
    BY <2>3 DEF Good, Bad
  <2>8. QED
    BY <2>6, <2>7
<1>8. CASE t = REGEX
  <2> DEFINE regex == Nuls(it, o)
             options == Nuls(it, Min(regex) + 1)
  <2>1. v \in RegexValue(it, o)
    BY <1>8, Branches
  <2>2. v = IF regex = {} \/ options = {} THEN Bad(it.next_off)
            ELSE Good(Min(options), o, Min(regex) + 1, 0, 0, Min(options) + 1)
    BY <2>1 DEF RegexValue
  <2>3. ASSUME IsValue(data, it, t, o, e)
        PROVE  regex # {} /\ options # {} /\ Min(options) + 1 < it.len
    <3>1. PICK m \in o .. e : IsCString(data, it, o, m) /\ IsCString(data, it, m, e)
      BY <1>8, <2>3, ValueOfType
    <3>2. regex # {}
      BY <1>2, <3>1, EndIsNul
    <3>3. Min(regex) \in o .. it.len - 1 /\ IsCString(data, it, o, Min(regex) + 1)
      BY <3>2, NulsEnd
    <3>4. Min(regex) + 1 = m
      BY <3>1, <3>3, EndIsUnique
    <3>5. options # {}
      <4>1. Min(regex) + 1 \in Nat /\ IsCString(data, it, Min(regex) + 1, e)
        BY <3>1, <3>3, <3>4
      <4>2. QED
        BY <1>2, <4>1, EndIsNul
    <3>6. /\ Min(options) \in Min(regex) + 1 .. it.len - 1
          /\ IsCString(data, it, Min(regex) + 1, Min(options) + 1)
      BY <3>3, <3>5, NulsEnd
    <3>7. Min(options) + 1 = e
      <4>1. /\ Min(regex) + 1 \in Int /\ Min(options) + 1 \in Int /\ e \in Int
            /\ IsCString(data, it, Min(regex) + 1, e)
        BY <3>1, <3>3, <3>4, <3>6
      <4> HIDE DEF regex, options
      <4>2. QED
        BY <3>6, <4>1, EndIsUnique
    <3>8. QED
      BY <3>2, <3>5, <3>7
  <2>4. regex # {} /\ options # {} => Min(options) \in Nat \ {0}
    <3>1. SUFFICES ASSUME regex # {}, options # {} PROVE Min(options) \in Nat \ {0}
      OBVIOUS
    <3>2. Min(regex) \in o .. it.len - 1
      BY <3>1, NulsEnd
    <3>3. Min(options) \in Min(regex) + 1 .. it.len - 1
      BY <3>1, <3>2, NulsEnd
    <3>4. QED
      BY <1>2, <3>2, <3>3
  <2> HIDE DEF regex, options
  <2>5. CASE regex = {} \/ options = {}
    <3>1. v.err_off = it.next_off
      BY <2>2, <2>5 DEF Bad
    <3>2. QED
      BY <2>3, <2>5, <3>1
  <2>6. CASE regex # {} /\ options # {}
    <3>1. v.ok /\ v.err_off = Min(options) /\ v.next_off = Min(options) + 1
      BY <2>2, <2>6 DEF Good
    <3>2. QED
      BY <2>3, <2>4, <2>6, <3>1
  <2>7. QED
    BY <2>5, <2>6
<1>9. CASE t = DBPOINTER
  <2> DEFINE l == U32(data, it, o)
             last == At(data, it, o + l + 3)
  <2>1. v \in DbpointerValue(it, o)
    BY <1>9, Branches
  <2>2. v = IF o >= it.len - 4 \/ l = 0 \/ l > it.len - o - 4 THEN Bad(o)
            ELSE IF last # 0 THEN Bad(o + l + 3)
            ELSE Good(o, o, o + 4, o + 4 + l, 0, o + 4 + l + 12)
    BY <2>1 DEF DbpointerValue
  <2>3. l \in Nat
    BY <1>1
  <2>4. IsValue(data, it, t, o, e) =>
           e - 12 > o + 4 /\ l = e - 12 - o - 4 /\ At(data, it, e - 12 - 1) = 0
    BY <1>9, ValueOfType DEF IsString
  <2>5. ASSUME IsValue(data, it, t, o, e)
        PROVE  l >= 1 /\ o + 4 + l + 12 < it.len /\ last = 0
    <3>1. e - 12 > o + 4 /\ l = e - 12 - o - 4 /\ e - 12 - 1 = o + l + 3
      BY <2>3, <2>4, <2>5
    <3>2. last = 0
      BY <2>4, <2>5, <3>1
    <3>3. QED
      BY <1>2, <2>3, <3>1, <3>2
  <2> HIDE DEF l, last
  <2>6. ~(l >= 1 /\ o + 4 + l + 12 < it.len /\ last = 0)
    <3>1. SUFFICES ASSUME l >= 1, o + 4 + l + 12 < it.len, last = 0 PROVE FALSE
      OBVIOUS
    <3>2. ~(o >= it.len - 4 \/ l = 0 \/ l > it.len - o - 4)
      BY <1>2, <2>3, <3>1
    <3>3. QED
      BY <2>2, <3>1, <3>2 DEF Good
  <2>7. v.err_off = o \/ v.err_off = o + l + 3
    BY <2>2 DEF Good, Bad
  <2>8. QED
    BY <2>3, <2>5, <2>6, <2>7
<1>10. CASE t = CODEWSCOPE
  <2> DEFINE l == U32(data, it, o)
             code == U32(data, it, o + 4)
             scope == o + 8 + code
             rest == U32(data, it, scope)
  <2>1. v \in CodewscopeValue(it, o)
    BY <1>10, Branches
  <2>2. v = IF \/ it.len < 19 \/ o >= it.len - 14 \/ l < 14 \/ l >= it.len - o
               \/ code = 0 \/ code >= it.len - o - 8
            THEN Bad(o)
            ELSE IF scope + 4 >= o + l THEN Bad(o + 4)
            ELSE IF rest # o + l - scope THEN Bad(scope)
            ELSE Good(o, o, o + 4, o + 8, scope, o + l)
    BY <2>1 DEF CodewscopeValue
  <2>3. l \in Nat /\ code \in Nat /\ scope \in Nat /\ scope = o + 8 + code
    BY <1>1
  <2>4. ASSUME IsValue(data, it, t, o, e)
        PROVE  /\ l = e - o /\ scope <= e - 5 /\ code >= 1
               /\ rest = e - scope
    <3>1. l = e - o
      BY <1>10, <2>4, ValueOfType
    <3>2. PICK m \in o + 9 .. e - 5 : code = m - o - 8 /\ U32(data, it, m) = e - m
      BY <1>10, <2>4, ValueOfType, SMTT(40)
    <3>3. m = scope
      BY <2>3, <3>2
    <3>4. QED
      BY <2>3, <3>1, <3>2, <3>3, SMTT(40)
  <2> HIDE DEF l, code, scope, rest
  <2>5. ASSUME IsValue(data, it, t, o, e) PROVE FALSE
    <3>1. l = e - o /\ scope <= e - 5 /\ code >= 1 /\ rest = e - scope
      BY <2>4, <2>5
    <3>2. ~(\/ it.len < 19 \/ o >= it.len - 14 \/ l < 14 \/ l >= it.len - o
            \/ code = 0 \/ code >= it.len - o - 8)
      BY <1>2, <2>3, <3>1, SMTT(40)
    <3>3. ~(scope + 4 >= o + l) /\ ~(rest # o + l - scope) /\ o + l < it.len
      BY <1>2, <2>3, <3>1
    <3>4. QED
      BY <2>2, <3>2, <3>3 DEF Good
  <2>6. v.err_off = o \/ v.err_off = o + 4 \/ v.err_off = scope
    BY <2>2 DEF Good, Bad
  <2>7. QED
    BY <2>3, <2>5, <2>6
<1>11. CASE t \notin Types
  <2>1. v = Bad(o)
    BY <1>11, Branches
  <2>2. QED
    BY <1>11, <2>1, ValueOfType DEF Bad
<1>12. QED
  BY <1>3, <1>4, <1>5, <1>6, <1>7, <1>8, <1>9, <1>10, <1>11 DEF Types

LEMMA SameWindow ==
    ASSUME NEW d, NEW v, NEW w, v.raw = w.raw, v.len = w.len
    PROVE  \A t, i, e : IsValue(d, v, t, i, e) <=> IsValue(d, w, t, i, e)
BY SameStart DEF IsValue, IsString

LEMMA InElementEnds ==
    ASSUME NEW d, NEW w, NEW i, NEW e
    PROVE  e \in ElementEnds(d, w, i) <=>
              \E k \in i + 2 .. w.len :
                 /\ IsCString(d, w, i + 1, k)
                 /\ e \in k .. w.len /\ e < w.len
                 /\ IsValue(d, w, At(d, w, i), k, e)
BY DEF ElementEnds, Ends

(* Where the next element begins.                                          *)
LEMMA NextBegins ==
    ASSUME NEW d \in Seq(0 .. 255), NEW it \in Iterator, NEW w \in Window, Valid(d, it, w)
    PROVE  it.next_off \in Nat /\ it.next_off >= 4 /\ (Fresh(it) \/ it.next_off < it.len)
<1>1. it.next_off \in Nat /\ it.off \in Nat /\ it.len \in Nat
  BY DEF Iterator
<1>2. CASE Fresh(it)
  BY <1>2 DEF Fresh
<1>3. CASE Parsed(d, it)
  <2>1. PICK o \in it.off + 2 .. it.len : Fields(d, it, At(d, it, it.off), o)
    BY <1>3 DEF Parsed
  <2>2. o \in Nat /\ o >= 6
    BY <1>1, <1>3 DEF Parsed
  <2>3. it.next_off >= o
    BY <1>3, <2>1, <2>2, FieldsOfValue DEF Parsed
  <2>4. QED
    BY <1>1, <1>3, <2>2, <2>3 DEF Parsed
<1>4. QED
  BY <1>2, <1>3 DEF Valid

(* bson_iter_next arrives at an element, or stops where none is.           *)
LEMMA AdvanceFacts ==
    ASSUME data \in Seq(0 .. 255), NEW it \in Iterator, NEW w \in Window,
           it.raw # None, Valid(data, it, w), NEW to \in Advance(it)
    PROVE  /\ to \in Iterator
           /\ to.raw # None => Valid(data, to, w) /\ Parsed(data, to)
           /\ to.raw = None => Stopped(data, to, w)
<1> DEFINE i == it.next_off
           key == Nuls(it, i + 1)
           o == Min(key) + 1
           t == At(data, it, i)
<1>1. it.raw = w.raw /\ it.len = w.len /\ it.err_off = 0 /\ it.raw \in Nat
  BY DEF Valid, Window
<1>2. i \in Nat /\ i >= 4 /\ it.len \in Nat /\ (Fresh(it) \/ i < it.len)
  BY NextBegins DEF Iterator
<1>3. to \in IF key = {} THEN {Invalid(it, it.err_off)}
             ELSE {Positioned(it, v) : v \in Value(it, t, o)}
  BY DEF Advance
<1>4. ASSUME NEW err \in Nat
      PROVE  LET p == Invalid(it, err) IN
             /\ p \in Iterator /\ p.raw = None /\ p.off = i /\ p.err_off = err
  BY <1>2 DEF Invalid, Initial, Iterator, None
<1>5. /\ \A x : At(data, it, x) = At(data, w, x)
      /\ \A a, e : IsCString(data, it, a, e) <=> IsCString(data, w, a, e)
      /\ \A s, a, e : IsValue(data, it, s, a, e) <=> IsValue(data, w, s, a, e)
  BY <1>1, SameStart, SameWindow
<1>6. CASE key = {}
  <2>1. to.raw = None /\ to.off = i /\ to.err_off = 0 /\ to \in Iterator
    BY <1>1, <1>3, <1>4, <1>6
  <2>2. ASSUME NEW k \in i + 2 .. w.len, IsCString(data, w, i + 1, k) PROVE FALSE
    <3>1. IsCString(data, it, i + 1, k) /\ k \in Int /\ k <= it.len /\ i + 1 \in Nat
      BY <1>1, <1>2, <1>5, <2>2
    <3>2. QED
      BY <1>6, <3>1, EndIsNul
  <2>3. ElementEnds(data, w, i) = {}
    BY <2>2, InElementEnds
  <2>4. ASSUME w.len >= 5, At(data, w, w.len - 1) = 0 PROVE i = w.len - 1
    <3>1. At(data, it, it.len - 1) = 0
      BY <1>1, <1>5, <2>4
    <3>2. it.len - 1 \notin i + 1 .. it.len - 1
      BY <1>6, <3>1 DEF Nuls
    <3>3. i < it.len
      BY <1>1, <1>2, <2>4 DEF Fresh
    <3>4. QED
      BY <1>1, <1>2, <3>2, <3>3
  <2>5. QED
    BY <2>1, <2>3, <2>4 DEF Stopped
<1>7. CASE key # {}
  <2>1. PICK v \in Value(it, t, o) : to = Positioned(it, v)
    BY <1>3, <1>7
  <2>2. /\ Min(key) \in i + 1 .. it.len - 1
        /\ IsCString(data, it, i + 1, o)
    BY <1>2, <1>7, NulsEnd
  <2> HIDE DEF key
  <2>3. o \in Nat /\ o >= 6 /\ o <= it.len /\ o >= i + 2
    BY <1>2, <2>2
  <2> HIDE DEF o, t, i
  <2>4. CASE v.ok /\ v.next_off < it.len
    <3>1. /\ t \in Types
          /\ v.d1 \in Nat \cup {-1} /\ v.d2 \in Nat /\ v.d3 \in Nat /\ v.d4 \in Nat
          /\ v.next_off \in Nat /\ Fields(data, to, t, o)
      BY <2>1, <2>3, <2>4, AcceptedFields
    <3>2. /\ to = [raw |-> it.raw, len |-> it.len, off |-> it.next_off,
                   next_off |-> v.next_off, d1 |-> v.d1, d2 |-> v.d2, d3 |-> v.d3,
                   d4 |-> v.d4, err_off |-> 0]
          /\ to.raw = it.raw /\ to.len = it.len /\ to.off = it.next_off
          /\ to.next_off = v.next_off /\ to.err_off = 0
      BY <2>1, <2>4, PositionedFields
    <3>3. to \in Iterator
      BY <1>1, <1>2, <3>1, <3>2 DEF Iterator, i
    <3>4. /\ \A x : At(data, to, x) = At(data, it, x)
          /\ \A a, e : IsCString(data, to, a, e) <=> IsCString(data, it, a, e)
      BY <3>2, SameStart
    <3>5. Parsed(data, to)
      <4>1. to.off = i /\ to.len = it.len /\ to.off >= 4 /\ to.next_off < to.len
        BY <1>2, <2>4, <3>2 DEF i
      <4>2. At(data, to, to.off) = t
        BY <3>4, <4>1 DEF t
      <4>3. o \in to.off + 2 .. to.len
        BY <1>2, <2>3, <4>1
      <4>4. QED
        BY <2>2, <3>1, <3>4, <4>1, <4>2, <4>3 DEF Parsed
    <3>6. Valid(data, to, w)
      BY <1>1, <3>2, <3>5 DEF Valid
    <3>7. QED
      BY <1>1, <3>2, <3>3, <3>5, <3>6 DEF None
  <2>5. CASE ~(v.ok /\ v.next_off < it.len)
    <3>1. /\ v.err_off \in Nat \ {0}
          /\ \A e \in Int : e < it.len => ~IsValue(data, it, t, o, e)
      <4>1. it.next_off \in Nat \ {0}
        BY <1>2 DEF i
      <4>2. QED
        BY <2>3, <2>5, <4>1, RefusedIsNoValue
    <3>2. to.raw = None /\ to.off = i /\ to.err_off = v.err_off /\ to \in Iterator
      BY <1>4, <2>1, <2>5, <3>1 DEF Positioned
    <3>3. ASSUME NEW e, e \in ElementEnds(data, w, i) PROVE FALSE
      <4>1. PICK k \in i + 2 .. w.len :
               /\ IsCString(data, w, i + 1, k)
               /\ e \in k .. w.len /\ e < w.len
               /\ IsValue(data, w, At(data, w, i), k, e)
        BY <3>3, InElementEnds
      <4>2. k \in Int /\ e \in Int /\ e < it.len
        BY <1>1, <1>2, <4>1
      <4>3. IsCString(data, it, i + 1, k) /\ IsValue(data, it, t, k, e)
        BY <1>5, <4>1 DEF t
      <4>4. k = o
        <5>1. i + 1 \in Int /\ o \in Int
          BY <1>2, <2>3
        <5>2. QED
          BY <2>2, <4>2, <4>3, <5>1, EndIsUnique
      <4>5. QED
        BY <3>1, <4>2, <4>3, <4>4
    <3>4. i # w.len - 1
      BY <1>1, <1>2, <2>2
    <3>5. QED
      BY <3>1, <3>2, <3>3, <3>4 DEF Stopped
  <2>6. QED
    BY <2>4, <2>5
<1>8. QED
  BY <1>6, <1>7

-----------------------------------------------------------------------------
(* What the invariant says of the elements iterators are at.               *)
LEMMA ParsedIsElement ==
    ASSUME NEW d \in Seq(0 .. 255), NEW it \in Iterator, NEW w,
           it.raw = w.raw, it.len = w.len, Parsed(d, it)
    PROVE  it.next_off \in ElementEnds(d, w, it.off)
<1> DEFINE t == At(d, it, it.off)
<1>1. it.off \in Nat /\ it.len \in Nat /\ it.next_off \in Nat
  BY DEF Iterator
<1>2. PICK o \in it.off + 2 .. it.len :
         IsCString(d, it, it.off + 1, o) /\ Fields(d, it, t, o)
  BY DEF Parsed
<1>3. t \in Types /\ o \in Nat /\ it.next_off < it.len
  BY <1>1 DEF Parsed
<1>4. IsValue(d, it, t, o, it.next_off) /\ it.next_off >= o
  BY <1>2, <1>3, FieldsOfValue
<1>5. IsValue(d, w, At(d, w, it.off), o, it.next_off) /\ IsCString(d, w, it.off + 1, o)
  <2>1. At(d, it, it.off) = At(d, w, it.off)
    BY SameStart
  <2>2. QED
    BY <1>2, <1>4, <2>1, SameStart, SameWindow
<1>6. it.next_off \in o .. w.len /\ it.next_off < w.len /\ o \in it.off + 2 .. w.len
  BY <1>1, <1>3, <1>4
<1>7. QED
  BY <1>5, <1>6, InElementEnds

LEMMA ParsedDocument ==
    ASSUME NEW d \in Seq(0 .. 255), NEW it \in Iterator, Parsed(d, it),
           At(d, it, it.off) \in {DOCUMENT, ARRAY}
    PROVE  /\ it.d1 \in Nat /\ it.d1 >= it.off + 2 /\ it.d1 >= 6
           /\ it.next_off = it.d1 + U32(d, it, it.d1) /\ it.next_off < it.len
           /\ IsCString(d, it, it.off + 1, it.d1)
<1>1. it.off \in Nat /\ it.len \in Nat
  BY DEF Iterator
<1>2. PICK o \in it.off + 2 .. it.len :
         IsCString(d, it, it.off + 1, o) /\ Fields(d, it, At(d, it, it.off), o)
  BY DEF Parsed
<1>3. DocumentFields(d, it, o)
  BY <1>2 DEF Fields
<1>4. it.off >= 4 /\ it.next_off < it.len
  BY DEF Parsed
<1>5. QED
  BY <1>1, <1>2, <1>3, <1>4 DEF DocumentFields

(* The getters of each type, from the fields of the value.                 *)
LEMMA GettersOfParsed ==
    ASSUME data \in Seq(0 .. 255), NEW it \in Iterator, Parsed(data, it)
    PROVE  /\ \A p \in Texts(it) \cup Blobs(it) :
                 p.n >= 0 /\ p.at > it.off + 1 /\ p.at + p.n <= it.next_off
           /\ \A p \in Texts(it) : p.n > 0 /\ At(data, it, p.at + p.n - 1) = 0
<1> DEFINE t == Type(it)
           Inside(p) == p.n >= 0 /\ p.at > it.off + 1 /\ p.at + p.n <= it.next_off
           Ended(p) == p.n > 0 /\ At(data, it, p.at + p.n - 1) = 0
<1>1. /\ it.off \in Nat /\ it.len \in Nat /\ it.next_off \in Nat
      /\ it.d2 \in Nat /\ it.d3 \in Nat /\ it.d4 \in Nat
  BY DEF Iterator
<1>2. PICK o \in it.off + 2 .. it.len : Fields(data, it, t, o)
  BY DEF Parsed, Type
<1>3. /\ \A x : At(data, it, x) \in 0 .. 255
      /\ \A x : U32(data, it, x) \in Nat
  BY AtType, U32Type
<1>4. t \in Types
  BY DEF Parsed, Type
<1>5. o \in Nat /\ o > it.off + 1
  BY <1>1
<1> SUFFICES /\ \A p \in Texts(it) \cup Blobs(it) : Inside(p)
             /\ \A p \in Texts(it) : Ended(p)
  OBVIOUS
<1>6. CASE t \in Sized
  <2>1. Texts(it) = {}
    BY <1>6, TypesApart DEF Texts
  <2>2. CASE t \in Empty
    <3>1. Blobs(it) = {}
      BY <1>6, <2>2, TypesApart DEF Blobs
    <3>2. QED
      BY <2>1, <3>1
  <2>3. CASE t \notin Empty
    <3>1. Blobs(it) = {[at |-> it.d1, n |-> SizeOf[t]]}
      BY <1>6, <2>3, TypesApart DEF Blobs
    <3>2. it.d1 = o /\ it.next_off = o + SizeOf[t] /\ SizeOf[t] \in Nat
      BY <1>2, <1>6, <2>3, SizeFacts, SMTT(40) DEF Fields, SizedFields
    <3>3. Inside([at |-> it.d1, n |-> SizeOf[t]])
      BY <1>1, <1>5, <3>2
    <3>4. QED
      BY <2>1, <3>1, <3>3
  <2>4. QED
    BY <2>2, <2>3
<1>7. CASE t = BOOL
  <2>1. Texts(it) = {} /\ Blobs(it) = {[at |-> it.d1, n |-> 1]}
    BY <1>7, TypesApart DEF Texts, Blobs
  <2>2. it.d1 = o /\ it.next_off = o + 1
    BY <1>2, <1>7 DEF Fields, BoolFields
  <2>3. Inside([at |-> it.d1, n |-> 1])
    BY <1>1, <1>5, <2>2
  <2>4. QED
    BY <2>1, <2>3
<1>8. CASE t \in Strings
  <2> DEFINE l == U32(data, it, it.d1)
             p == [at |-> it.d2, n |-> l]
  <2>1. Texts(it) = {p} /\ Blobs(it) = {}
    BY <1>8, TypesApart DEF Texts, Blobs
  <2>2. /\ it.d1 = o /\ it.d2 = o + 4 /\ l >= 1 /\ it.next_off = o + 4 + l
        /\ At(data, it, it.next_off - 1) = 0
    BY <1>2, <1>8 DEF Fields, StringFields
  <2>3. l \in Nat
    BY <1>3
  <2> HIDE DEF l
  <2>4. Inside(p)
    BY <1>1, <1>5, <2>2, <2>3
  <2>5. it.d2 + l - 1 = it.next_off - 1
    BY <1>1, <1>5, <2>2, <2>3
  <2>6. Ended(p)
    BY <2>2, <2>3, <2>5
  <2>7. QED
    BY <2>1, <2>4, <2>6
<1>9. CASE t = BINARY
  <2> DEFINE l == U32(data, it, it.d1)
             old == At(data, it, it.d2) = SUBTYPE_BINARY_DEPRECATED
             p == IF old THEN [at |-> it.d3 + 4, n |-> l - 4] ELSE [at |-> it.d3, n |-> l]
  <2>1. Texts(it) = {} /\ Blobs(it) = {p}
    BY <1>9, TypesApart DEF Texts, Blobs
  <2>2. /\ it.d1 = o /\ it.d2 = o + 4 /\ it.d3 = o + 5 /\ it.next_off = o + 5 + l
        /\ old => l >= 4
    BY <1>2, <1>9 DEF Fields, BinaryFields
  <2>3. l \in Nat
    BY <1>3
  <2> HIDE DEF l, old
  <2>4. Inside(p)
    BY SMTT(30), <1>1, <1>5, <2>2, <2>3
  <2>5. QED
    BY <2>1, <2>4
<1>10. CASE t \in {DOCUMENT, ARRAY}
  <2> DEFINE l == U32(data, it, it.d1)
             p == [at |-> it.d1, n |-> l]
  <2>1. Texts(it) = {} /\ Blobs(it) = {p}
    BY <1>10, TypesApart DEF Texts, Blobs
  <2>2. it.d1 = o /\ it.next_off = o + l
    BY <1>2, <1>10 DEF Fields, DocumentFields
  <2>3. l \in Nat
    BY <1>3
  <2> HIDE DEF l
  <2>4. Inside(p)
    BY <1>1, <1>5, <2>2, <2>3
  <2>5. QED
    BY <2>1, <2>4
<1>11. CASE t = REGEX
  <2> DEFINE p == [at |-> it.d1, n |-> it.d2 - it.d1]
             q == [at |-> it.d2, n |-> it.next_off - it.d2]
  <2>1. Texts(it) = {p, q} /\ Blobs(it) = {}
    BY <1>11, TypesApart DEF Texts, Blobs
  <2>2. it.d1 = o /\ IsCString(data, it, o, it.d2) /\ IsCString(data, it, it.d2, it.next_off)
    BY <1>2, <1>11 DEF Fields, RegexFields
  <2>3. /\ it.d2 > o /\ At(data, it, it.d2 - 1) = 0
        /\ it.next_off > it.d2 /\ At(data, it, it.next_off - 1) = 0
    BY SMTT(30), <1>1, <1>5, <2>2 DEF IsCString
  <2>4. Inside(p) /\ Inside(q)
    BY SMTT(30), <1>1, <1>5, <2>2, <2>3
  <2>5. it.d1 + (it.d2 - it.d1) - 1 = it.d2 - 1
        /\ it.d2 + (it.next_off - it.d2) - 1 = it.next_off - 1
    BY SMTT(30), <1>1, <1>5, <2>2
  <2>6. Ended(p) /\ Ended(q)
    BY SMTT(30), <1>1, <1>5, <2>2, <2>3, <2>5
  <2>7. QED
    BY <2>1, <2>4, <2>6
<1>12. CASE t = DBPOINTER
  <2> DEFINE l == U32(data, it, it.d1)
             p == [at |-> it.d2, n |-> l]
             q == [at |-> it.d3, n |-> 12]
  <2>1. Texts(it) = {p} /\ Blobs(it) = {q}
    BY <1>12, TypesApart DEF Texts, Blobs
  <2>2. /\ it.d1 = o /\ it.d2 = o + 4 /\ it.d3 = o + 4 + l
        /\ l >= 1 /\ it.next_off = it.d3 + 12 /\ At(data, it, it.d3 - 1) = 0
    BY <1>2, <1>12 DEF Fields, DbpointerFields
  <2>3. l \in Nat
    BY <1>3
  <2> HIDE DEF l
  <2>4. Inside(p) /\ Inside(q)
    BY <1>1, <1>5, <2>2, <2>3
  <2>5. it.d2 + l - 1 = it.d3 - 1
    BY <1>1, <1>5, <2>2, <2>3
  <2>6. Ended(p)
    BY <2>2, <2>3, <2>5
  <2>7. QED
    BY <2>1, <2>4, <2>6
<1>13. CASE t = CODEWSCOPE
  <2> DEFINE code == U32(data, it, it.d2)
             rest == U32(data, it, it.d4)
             p == [at |-> it.d3, n |-> code]
             q == [at |-> it.d4, n |-> rest]
  <2>1. Texts(it) = {} /\ Blobs(it) = {p, q}
    BY <1>13, TypesApart DEF Texts, Blobs
  <2>2. /\ it.d2 = o + 4 /\ it.d3 = o + 8 /\ it.d4 = o + 8 + code
        /\ it.d4 + 4 < it.next_off /\ rest = it.next_off - it.d4
    BY <1>2, <1>13 DEF Fields, CodewscopeFields
  <2>3. code \in Nat /\ rest \in Nat
    BY <1>3
  <2> HIDE DEF code, rest
  <2>4. Inside(p) /\ Inside(q)
    BY SMTT(30), <1>1, <1>5, <2>2, <2>3
  <2>5. QED
    BY <2>1, <2>4
<1>14. QED
  BY <1>4, <1>6, <1>7, <1>8, <1>9, <1>10, <1>11, <1>12, <1>13 DEF Types

(* What the runs check, of each state with the invariant.                  *)
LEMMA IInvConsequences ==
    ASSUME IInv
    PROVE  AtElement /\ EndIsRight /\ GettersInside /\ ChildrenInside
<1>1. /\ \A i \in 1 .. Top : iters[i] \in Iterator /\ windows[i] \in Window
      /\ Top \in Nat /\ Len(windows) = Top
  BY DEF IInv, Stack, Top
<1>2. \A i \in 1 .. Top : iters[i].raw # None => Valid(data, iters[i], windows[i])
  BY DEF IInv, Stack, Top
<1>3. ASSUME NEW i \in 1 .. Top, OnElement(iters[i])
      PROVE  Parsed(data, iters[i])
  BY <1>2, <1>3 DEF OnElement, Valid, Fresh
<1>4. data \in Seq(0 .. 255)
  BY DEF IInv
<1>5. AtElement
  <2>1. SUFFICES ASSUME NEW i \in 1 .. Top, iters[i].raw # None
                 PROVE  /\ iters[i].raw = windows[i].raw /\ iters[i].len = windows[i].len
                        /\ OnElement(iters[i]) => iters[i].next_off
                              \in ElementEnds(data, windows[i], iters[i].off)
    BY DEF AtElement
  <2>2. iters[i].raw = windows[i].raw /\ iters[i].len = windows[i].len
    BY <1>2, <2>1 DEF Valid
  <2>3. QED
    BY <1>1, <1>3, <1>4, <2>2, ParsedIsElement
<1>6. EndIsRight
  BY DEF IInv, Stack, Stopped, EndIsRight, Top
<1>7. GettersInside
  BY <1>1, <1>3, <1>4, GettersOfParsed DEF GettersInside
<1>8. ChildrenInside
  <2>1. \A i \in 1 .. Top : windows[i].len = U32(data, windows[i], 0)
    BY DEF IInv, Stack, Top
  <2>2. ASSUME NEW i \in 1 .. Top - 1
        PROVE  /\ windows[i + 1].raw >= windows[i].raw + 6
               /\ windows[i + 1].raw + windows[i + 1].len < windows[i].raw + windows[i].len
    <3> DEFINE it == iters[i]
               p == windows[i]
               c == windows[i + 1]
    <3>1. i \in 1 .. Top /\ i + 1 \in 1 .. Top /\ i < i + 1
      BY <1>1
    <3>2. Holds(data, it, c)
      BY <3>1 DEF IInv, Stack, Top
    <3>3. OnElement(it)
      BY <3>2 DEF Holds, OnElement
    <3>4. Parsed(data, it) /\ it.raw = p.raw /\ it.len = p.len
      BY <1>2, <1>3, <3>1, <3>3 DEF OnElement, Valid
    <3>5. it.d1 \in Nat /\ it.d1 >= 6 /\ it.next_off < it.len
      BY <1>1, <1>4, <3>1, <3>2, <3>4, ParsedDocument DEF Holds
    <3>6. it \in Iterator /\ p \in Window /\ c \in Window
      BY <1>1, <3>1
    <3>7. it.raw + it.d1 <= c.raw /\ c.raw + c.len <= it.raw + it.next_off
      BY <3>2 DEF Holds
    <3>8. it.next_off \in Nat /\ p.raw \in Nat /\ p.len \in Nat /\ c.raw \in Nat
          /\ c.len \in Nat
      BY <3>6 DEF Iterator, Window
    <3> HIDE DEF it, p, c
    <3>9. c.raw >= p.raw + 6 /\ c.raw + c.len < p.raw + p.len
      BY <3>4, <3>5, <3>7, <3>8
    <3>10. QED
      BY <3>9 DEF p, c
  <2>3. QED
    BY <2>1, <2>2 DEF ChildrenInside
<1>9. QED
  BY <1>5, <1>6, <1>7, <1>8

-----------------------------------------------------------------------------
(* What the operations do to a stack of iterators.                         *)
LEMMA ReplaceTop ==
    ASSUME NEW d, NEW s, NEW w, Stack(d, s, w), NEW it \in Iterator,
           it.raw # None => Valid(d, it, w[Len(s)]),
           it.raw = None => Stopped(d, it, w[Len(s)])
    PROVE  Stack(d, [s EXCEPT ![Len(s)] = it], w)
<1> DEFINE n == Len(s)
           r == [s EXCEPT ![n] = it]
<1>1. s \in Seq(Iterator) /\ w \in Seq(Window) /\ n \in Nat /\ n >= 1 /\ Len(w) = n
  BY DEF Stack
<1>2. r \in Seq(Iterator) /\ Len(r) = n /\ r[n] = it
      /\ \A i \in 1 .. n : i # n => r[i] = s[i]
  BY <1>1
<1> HIDE DEF n, r
<1>3. ASSUME NEW i \in 1 .. n
      PROVE  /\ r[i].raw # None => Valid(d, r[i], w[i])
             /\ r[i].raw = None => Stopped(d, r[i], w[i])
             /\ w[i].len = U32(d, w[i], 0)
  <2>1. CASE i = n
    BY <1>2, <2>1 DEF Stack, n
  <2>2. CASE i # n
    BY <1>2, <2>2 DEF Stack, n
  <2>3. QED
    BY <2>1, <2>2
<1>4. ASSUME NEW i \in 1 .. n, NEW j \in 1 .. n, i < j
      PROVE  Holds(d, r[i], w[j])
  <2>1. i # n
    BY <1>1, <1>4
  <2>2. QED
    BY <1>2, <1>4, <2>1 DEF Stack, n
<1>5. Stack(d, r, w)
  BY <1>1, <1>2, <1>3, <1>4 DEF Stack
<1>6. QED
  BY <1>5 DEF r, n

(* bson_iter_recurse on the document or array the top is at.               *)
LEMMA PushTop ==
    ASSUME data \in Seq(0 .. 255), NEW s, NEW w, Stack(data, s, w),
           Recursible(s[Len(s)])
    PROVE  LET c == ChildWindow(s[Len(s)]) IN Stack(data, Recursed(s, c), Append(w, c))
<1> DEFINE n == Len(s)
           it == s[n]
           c == ChildWindow(it)
           r == Recursed(s, c)
           v == Append(w, c)
<1>1. s \in Seq(Iterator) /\ w \in Seq(Window) /\ n \in Nat /\ n >= 1 /\ Len(w) = n
  BY DEF Stack
<1>2. it \in Iterator /\ w[n] \in Window
  BY <1>1
<1>3. it.raw # None /\ it.off > 0 /\ At(data, it, it.off) \in {DOCUMENT, ARRAY}
  BY DEF Recursible, OnElement, Type
<1>4. Valid(data, it, w[n]) /\ Parsed(data, it) /\ it.raw = w[n].raw /\ it.len = w[n].len
  <2>1. Valid(data, it, w[n])
    BY <1>1, <1>3 DEF Stack
  <2>2. QED
    BY <1>3, <2>1 DEF Valid, Fresh
<1>5. /\ it.d1 \in Nat /\ it.d1 >= 6
      /\ it.next_off = it.d1 + U32(data, it, it.d1) /\ it.next_off < it.len
  BY <1>2, <1>3, <1>4, ParsedDocument
<1>6. it.raw \in Nat /\ it.next_off \in Nat /\ it.len \in Nat
      /\ U32(data, it, it.d1) \in Nat
  BY <1>2, <1>3, U32Type DEF Iterator
<1>7. /\ c.raw = it.raw + it.d1 /\ c.len = U32(data, it, it.d1) /\ c \in Window
      /\ c.raw + c.len = it.raw + it.next_off
  BY <1>5, <1>6, SMTT(40) DEF ChildWindow, Window
<1>8. c.len = U32(data, c, 0)
  <2>1. ASSUME NEW x \in 0 .. 3 PROVE At(data, c, x) = At(data, it, it.d1 + x)
    <3> DEFINE m == c.raw + x + 1
    <3>1. m = it.raw + (it.d1 + x) + 1
      BY <1>5, <1>6, <1>7, SMTT(40)
    <3>2. At(data, c, x) = IF m \in DOMAIN data THEN data[m] ELSE 0
      BY DEF At
    <3> HIDE DEF m, it, c
    <3>3. QED
      BY <3>1, <3>2 DEF At
  <2>2. /\ At(data, c, 0) = At(data, it, it.d1)
        /\ At(data, c, 0 + 1) = At(data, it, it.d1 + 1)
        /\ At(data, c, 0 + 2) = At(data, it, it.d1 + 2)
        /\ At(data, c, 0 + 3) = At(data, it, it.d1 + 3)
    BY <1>5, <2>1
  <2> HIDE DEF it, c
  <2>3. U32(data, c, 0) = U32(data, it, it.d1)
    BY <2>2, SMT DEF U32
  <2>4. QED
    BY <1>7, <2>3
<1> DEFINE f == Initial(c.raw, c.len)
<1>9. f \in Iterator /\ f.raw # None /\ Valid(data, f, c)
  BY <1>7 DEF Initial, Iterator, Window, Valid, Fresh, None
<1> HIDE DEF c, f
<1>10. /\ r = Append(s, f) /\ r \in Seq(Iterator) /\ v \in Seq(Window)
       /\ Len(r) = n + 1 /\ Len(v) = n + 1 /\ r[n + 1] = f /\ v[n + 1] = c
       /\ \A i \in 1 .. n : r[i] = s[i] /\ v[i] = w[i]
  BY <1>1, <1>7, <1>9 DEF Recursed, f
<1> HIDE DEF r, v, n
<1>11. ASSUME NEW i \in 1 .. n
       PROVE  Holds(data, s[i], c)
  <2>1. CASE i = n
    BY <1>3, <1>5, <1>6, <1>7, <2>1, SMTT(40) DEF Holds
  <2>2. CASE i # n
    <3>1. i < n /\ n \in 1 .. n
      BY <1>1, <2>2
    <3>2. Holds(data, s[i], w[n])
      BY <3>1 DEF Stack, n
    <3>3. s[i] \in Iterator
      BY <1>1 DEF n
    <3>4. /\ s[i].raw \in Int /\ s[i].d1 \in Int /\ s[i].next_off \in Int
          /\ s[i].raw + s[i].d1 <= it.raw
          /\ it.raw + it.len <= s[i].raw + s[i].next_off
      BY <1>4, <3>2, <3>3 DEF Holds, Iterator, None
    <3>5. c.raw \in Nat /\ c.len \in Nat
      BY <1>7 DEF Window
    <3> DEFINE start == s[i].raw + s[i].d1
               end == s[i].raw + s[i].next_off
    <3>6. start \in Int /\ end \in Int /\ start <= it.raw /\ it.raw + it.len <= end
      BY <3>4
    <3> HIDE DEF it, start, end
    <3>7. start <= c.raw
      BY SMTT(30), <1>5, <1>6, <1>7, <3>6
    <3>8. c.raw + c.len = it.raw + it.next_off /\ it.next_off < it.len
      BY <1>5, <1>7
    <3>9. it.raw + it.next_off <= end
      BY <1>6, <3>6, <3>8
    <3>10. QED
      BY <3>2, <3>7, <3>8, <3>9 DEF Holds, start, end
  <2>3. QED
    BY <2>1, <2>2
<1>12. ASSUME NEW i \in 1 .. n + 1
       PROVE  /\ r[i].raw # None => Valid(data, r[i], v[i])
              /\ r[i].raw = None => Stopped(data, r[i], v[i])
              /\ v[i].len = U32(data, v[i], 0)
  <2>1. CASE i = n + 1
    BY <1>8, <1>9, <1>10, <2>1
  <2>2. CASE i \in 1 .. n
    BY <1>10, <2>2 DEF Stack, n
  <2>3. QED
    BY <1>1, <2>1, <2>2
<1>13. ASSUME NEW i \in 1 .. n + 1, NEW j \in 1 .. n + 1, i < j
       PROVE  Holds(data, r[i], v[j])
  <2>1. i \in 1 .. n
    BY <1>1, <1>13
  <2>2. CASE j = n + 1
    BY <1>10, <1>11, <2>1, <2>2
  <2>3. CASE j \in 1 .. n
    BY <1>10, <1>13, <2>1, <2>3 DEF Stack, n
  <2>4. QED
    BY <1>1, <2>2, <2>3
<1>14. Stack(data, r, v)
  BY <1>1, <1>10, <1>12, <1>13 DEF Stack
<1>15. QED
  BY <1>14 DEF r, v, c, it, n

(* Some of the iterators below the top, and perhaps the top.               *)
LEMMA KeepBottom ==
    ASSUME NEW d, NEW s, NEW w, Stack(d, s, w), NEW b \in 1 .. Len(s)
    PROVE  Stack(d, SubSeq(s, 1, b), SubSeq(w, 1, b)) /\ Len(SubSeq(s, 1, b)) = b
<1> DEFINE n == Len(s)
           r == SubSeq(s, 1, b)
           v == SubSeq(w, 1, b)
<1>1. s \in Seq(Iterator) /\ w \in Seq(Window) /\ n \in Nat /\ n >= 1 /\ Len(w) = n
  BY DEF Stack
<1>2. /\ r \in Seq(Iterator) /\ v \in Seq(Window) /\ Len(r) = b /\ Len(v) = b
      /\ \A i \in 1 .. b : r[i] = s[i] /\ v[i] = w[i]
  BY <1>1
<1> HIDE DEF r, v
<1>3. \A i \in 1 .. b : i \in 1 .. n
  BY <1>1
<1>4. ASSUME NEW i \in 1 .. b
      PROVE  /\ r[i].raw # None => Valid(d, r[i], v[i])
             /\ r[i].raw = None => Stopped(d, r[i], v[i])
             /\ v[i].len = U32(d, v[i], 0)
  BY <1>2, <1>3 DEF Stack
<1>5. ASSUME NEW i \in 1 .. b, NEW j \in 1 .. b, i < j
      PROVE  Holds(d, r[i], v[j])
  BY <1>2, <1>3, <1>5 DEF Stack
<1>6. Stack(d, r, v)
  BY <1>2, <1>4, <1>5 DEF Stack
<1>7. QED
  BY <1>2, <1>6 DEF r, v

LEMMA KeepLast ==
    ASSUME NEW d, NEW s, NEW w, Stack(d, s, w), NEW b \in 1 .. Len(s), b < Len(s)
    PROVE  Stack(d, Append(SubSeq(s, 1, b), s[Len(s)]), Append(SubSeq(w, 1, b), w[Len(w)]))
<1> DEFINE n == Len(s)
           r == Append(SubSeq(s, 1, b), s[n])
           v == Append(SubSeq(w, 1, b), w[Len(w)])
           from == [i \in 1 .. b + 1 |-> IF i = b + 1 THEN n ELSE i]
<1>1. s \in Seq(Iterator) /\ w \in Seq(Window) /\ n \in Nat /\ n >= 1 /\ Len(w) = n
  BY DEF Stack
<1>2. /\ r \in Seq(Iterator) /\ v \in Seq(Window) /\ Len(r) = b + 1 /\ Len(v) = b + 1
      /\ \A i \in 1 .. b + 1 : r[i] = s[from[i]] /\ v[i] = w[from[i]]
  <2>1. /\ SubSeq(s, 1, b) \in Seq(Iterator) /\ Len(SubSeq(s, 1, b)) = b
        /\ SubSeq(w, 1, b) \in Seq(Window) /\ Len(SubSeq(w, 1, b)) = b
        /\ \A i \in 1 .. b : SubSeq(s, 1, b)[i] = s[i] /\ SubSeq(w, 1, b)[i] = w[i]
    BY <1>1
  <2>2. QED
    BY <1>1, <2>1
<1>3. /\ \A i \in 1 .. b + 1 : from[i] \in 1 .. n
      /\ \A i, j \in 1 .. b + 1 : i < j => from[i] < from[j]
  BY <1>1
<1> HIDE DEF r, v, from
<1>4. ASSUME NEW i \in 1 .. b + 1
      PROVE  /\ r[i].raw # None => Valid(d, r[i], v[i])
             /\ r[i].raw = None => Stopped(d, r[i], v[i])
             /\ v[i].len = U32(d, v[i], 0)
  BY <1>2, <1>3 DEF Stack
<1>5. ASSUME NEW i \in 1 .. b + 1, NEW j \in 1 .. b + 1, i < j
      PROVE  Holds(d, r[i], v[j])
  <2>1. from[i] \in 1 .. n /\ from[j] \in 1 .. n /\ from[i] < from[j]
    BY <1>3, <1>5
  <2>2. Holds(d, s[from[i]], w[from[j]])
    BY <2>1 DEF Stack
  <2>3. QED
    BY <1>2, <2>2
<1>6. Stack(d, r, v)
  <2>1. b + 1 \in Nat /\ b + 1 >= 1
    BY <1>1
  <2>2. QED
    BY <1>2, <1>4, <1>5, <2>1 DEF Stack
<1>7. QED
  BY <1>6 DEF r, v

-----------------------------------------------------------------------------
(* Overwriting: the bytes up to the P-th stay what they were, and with     *)
(* them types, keys and lengths.                                           *)
SameUntil(d, e, P) ==
    /\ e \in Seq(0 .. 255) /\ DOMAIN e = DOMAIN d
    /\ \A p \in DOMAIN d : p <= P => e[p] = d[p]

LEMMA BytesKept ==
    ASSUME NEW d, NEW e, NEW P \in Int, SameUntil(d, e, P), NEW w, w.raw \in Int
    PROVE  /\ \A x \in Int : w.raw + x + 1 <= P => At(e, w, x) = At(d, w, x)
           /\ \A x \in Int : w.raw + x + 4 <= P => U32(e, w, x) = U32(d, w, x)
           /\ \A i, k \in Int : w.raw + k <= P /\ IsCString(d, w, i, k)
                                   => IsCString(e, w, i, k)
<1>1. ASSUME NEW x \in Int, w.raw + x + 1 <= P PROVE At(e, w, x) = At(d, w, x)
  BY <1>1 DEF At, SameUntil
<1>2. ASSUME NEW x \in Int, w.raw + x + 4 <= P PROVE U32(e, w, x) = U32(d, w, x)
  <2>1. /\ At(e, w, x) = At(d, w, x) /\ At(e, w, x + 1) = At(d, w, x + 1)
        /\ At(e, w, x + 2) = At(d, w, x + 2) /\ At(e, w, x + 3) = At(d, w, x + 3)
    BY <1>1, <1>2
  <2>2. QED
    BY <2>1, SMT DEF U32
<1>3. ASSUME NEW i \in Int, NEW k \in Int, w.raw + k <= P, IsCString(d, w, i, k)
      PROVE  IsCString(e, w, i, k)
  <2>1. \A j \in i .. k - 1 : At(e, w, j) = At(d, w, j)
    BY <1>1, <1>3
  <2>2. QED
    BY <1>3, <2>1 DEF IsCString
<1>4. QED
  BY <1>1, <1>2, <1>3

(* The iterator of a document that holds the value overwritten ...         *)
LEMMA DocumentKept ==
    ASSUME NEW d \in Seq(0 .. 255), NEW e, NEW P \in Int, SameUntil(d, e, P),
           NEW it \in Iterator, it.raw # None, Parsed(d, it),
           At(d, it, it.off) \in {DOCUMENT, ARRAY}, it.raw + it.d1 + 4 <= P
    PROVE  Parsed(e, it) /\ At(e, it, it.off) = At(d, it, it.off)
<1> DEFINE o == it.d1
           t == At(d, it, it.off)
<1>1. it.raw \in Nat /\ it.off \in Nat /\ it.len \in Nat /\ it.next_off \in Nat
  BY DEF Iterator
<1>2. /\ o \in Nat /\ o >= it.off + 2 /\ it.next_off < it.len
      /\ IsCString(d, it, it.off + 1, o)
  BY ParsedDocument
<1>3. PICK p \in it.off + 2 .. it.len : Fields(d, it, t, p)
  BY DEF Parsed
<1>4. p = o /\ o + 4 < it.len /\ it.next_off = o + U32(d, it, o)
  BY <1>3 DEF Fields, DocumentFields
<1>5. At(e, it, it.off) = t
  BY SMTT(30), <1>1, <1>2, BytesKept
<1>6. U32(e, it, o) = U32(d, it, o) /\ IsCString(e, it, it.off + 1, o)
  <2>1. it.raw + o + 4 <= P /\ it.raw + o <= P /\ it.off + 1 \in Int
    BY <1>1, <1>2, SMTT(40)
  <2> HIDE DEF o
  <2>2. QED
    BY <1>1, <1>2, <2>1, BytesKept
<1>7. DocumentFields(e, it, o)
  BY <1>4, <1>6 DEF DocumentFields
<1>8. t \in Types /\ Fields(e, it, t, o)
  BY <1>7, OneBranch
<1>9. it.off >= 4
  BY DEF Parsed
<1>10. Parsed(e, it)
  BY <1>2, <1>3, <1>4, <1>5, <1>6, <1>8, <1>9 DEF Parsed
<1>11. QED
  BY <1>5, <1>10

(* ... and that of the value itself.                                       *)
LEMMA ValueKept ==
    ASSUME NEW d \in Seq(0 .. 255), NEW e, NEW it \in Iterator, it.raw # None,
           Parsed(d, it), At(d, it, it.off) \in Overwritable \cup {BOOL},
           it.d1 \in Int, SameUntil(d, e, it.raw + it.d1),
           At(d, it, it.off) = BOOL => At(e, it, it.d1) \in {0, 1}
    PROVE  Parsed(e, it) /\ it.d1 >= 6
<1> DEFINE o == it.d1
           t == At(d, it, it.off)
<1>1. it.raw \in Nat /\ it.off \in Nat /\ it.len \in Nat /\ it.next_off \in Nat
  BY DEF Iterator
<1>2. PICK p \in it.off + 2 .. it.len :
         IsCString(d, it, it.off + 1, p) /\ Fields(d, it, t, p)
  BY DEF Parsed
<1>3. it.off >= 4 /\ it.next_off < it.len
  BY DEF Parsed
<1>4. t \in Overwritable => t \in Sized /\ t \notin Empty
  BY DEF Overwritable, Sized, Empty, Wide, INT32, INT64, DOUBLE, DECIMAL128, NULL,
         UNDEFINED, MAXKEY, MINKEY
<1>5. p = o
  BY <1>2, <1>4 DEF Fields, SizedFields, BoolFields
<1>6. At(e, it, it.off) = t /\ IsCString(e, it, it.off + 1, o)
  <2>1. /\ it.raw + it.off + 1 <= it.raw + o /\ it.raw + o \in Int /\ it.off + 1 \in Int
        /\ o \in Int /\ it.raw \in Int /\ it.off \in Int
    BY SMTT(30), <1>1, <1>5
  <2>2. At(e, it, it.off) = t
    BY <2>1, BytesKept
  <2>3. IsCString(d, it, it.off + 1, o)
    BY <1>2, <1>5
  <2> HIDE DEF o
  <2>4. SameUntil(d, e, it.raw + o) /\ it.raw + o <= it.raw + o
    BY <2>1 DEF o
  <2>5. IsCString(e, it, it.off + 1, o)
    BY <2>1, <2>3, <2>4, BytesKept
  <2>6. QED
    BY <2>2, <2>5
<1>7. t \in Types /\ Fields(e, it, t, o)
  <2>1. CASE t \in Overwritable
    <3>1. SizedFields(it, t, o)
      BY <1>2, <1>4, <1>5, <2>1 DEF Fields
    <3>2. QED
      BY <1>4, <2>1, <3>1, OneBranch
  <2>2. CASE t = BOOL
    <3>1. BoolFields(e, it, o)
      BY <1>2, <1>5, <2>2 DEF Fields, BoolFields
    <3>2. QED
      BY <2>2, <3>1, OneBranch
  <2>3. QED
    BY <2>1, <2>2
<1>8. Parsed(e, it)
  BY <1>2, <1>3, <1>5, <1>6, <1>7 DEF Parsed
<1>9. QED
  BY <1>1, <1>3, <1>5, <1>8

LEMMA OverwriteStack ==
    ASSUME NEW d \in Seq(0 .. 255), NEW e, NEW s, NEW w, Stack(d, s, w),
           s[Len(s)].raw # None, s[Len(s)].off > 0, s[Len(s)].d1 \in Int,
           At(d, s[Len(s)], s[Len(s)].off) \in Overwritable \cup {BOOL},
           SameUntil(d, e, s[Len(s)].raw + s[Len(s)].d1),
           At(d, s[Len(s)], s[Len(s)].off) = BOOL
               => At(e, s[Len(s)], s[Len(s)].d1) \in {0, 1}
    PROVE  Stack(e, s, w)
<1> DEFINE n == Len(s)
           it == s[n]
           P == it.raw + it.d1
<1>1. s \in Seq(Iterator) /\ w \in Seq(Window) /\ n \in Nat /\ n >= 1 /\ Len(w) = n
  BY DEF Stack
<1>2. /\ \A i \in 1 .. n : s[i] \in Iterator /\ w[i] \in Window
      /\ n \in 1 .. n
  BY <1>1
<1>3. it \in Iterator /\ Valid(d, it, w[n]) /\ Parsed(d, it) /\ it.raw \in Nat
  <2>1. Valid(d, it, w[n])
    BY <1>2 DEF Stack
  <2>2. QED
    BY <1>2, <2>1 DEF Valid, Fresh, Iterator
<1>4. Parsed(e, it) /\ it.d1 >= 6
  BY <1>3, ValueKept
<1>5. P \in Int /\ SameUntil(d, e, P) /\ it.raw + 6 <= P /\ w[n].raw = it.raw
  BY <1>3, <1>4 DEF Valid
<1> HIDE DEF P, it
<1>6. ASSUME NEW i \in 1 .. n - 1
      PROVE  /\ i \in 1 .. n /\ Valid(d, s[i], w[i]) /\ s[i].raw # None
             /\ Parsed(e, s[i]) /\ At(e, s[i], s[i].off) = At(d, s[i], s[i].off)
             /\ w[i].raw + 4 <= P
  <2>1. i \in 1 .. n /\ i < n
    BY <1>1
  <2>2. Holds(d, s[i], w[n])
    BY <1>2, <2>1 DEF Stack, n
  <2>3. Valid(d, s[i], w[i])
    BY <2>1, <2>2 DEF Stack, Holds, n
  <2>4. Parsed(d, s[i])
    BY <2>2, <2>3 DEF Holds, Valid, Fresh
  <2>5. s[i].raw \in Nat /\ s[i].d1 \in Nat /\ s[i].d1 >= 6 /\ s[i] \in Iterator
    BY <1>2, <2>1, <2>2, <2>4, ParsedDocument DEF Holds, Iterator
  <2>6. s[i].raw + s[i].d1 <= it.raw
    BY <1>5, <2>2 DEF Holds
  <2>7. s[i].raw + s[i].d1 + 4 <= P /\ s[i].raw + 4 <= P
    <3> DEFINE a == s[i].raw
               b == s[i].d1
               c == it.raw
    <3>1. a \in Nat /\ b \in Nat /\ c \in Nat /\ P \in Int /\ a + b <= c /\ c + 6 <= P
      BY <1>3, <1>5, <2>5, <2>6
    <3> HIDE DEF a, b, c
    <3>2. a + b + 4 <= P /\ a + 4 <= P
      BY <3>1
    <3>3. QED
      BY <3>2 DEF a, b
  <2>8. Parsed(e, s[i]) /\ At(e, s[i], s[i].off) = At(d, s[i], s[i].off)
    BY <1>5, <2>2, <2>4, <2>5, <2>7, DocumentKept DEF Holds
  <2>9. w[i].raw = s[i].raw
    BY <2>3 DEF Valid
  <2>10. QED
    BY <2>1, <2>2, <2>3, <2>7, <2>8, <2>9 DEF Holds
<1>7. ASSUME NEW i \in 1 .. n
      PROVE  /\ s[i].raw # None => Valid(e, s[i], w[i])
             /\ s[i].raw = None => Stopped(e, s[i], w[i])
             /\ w[i].len = U32(e, w[i], 0)
  <2>1. CASE i = n
    <3>1. Valid(e, s[i], w[i])
      BY <1>3, <1>4, <2>1 DEF Valid, it
    <3>2. w[i].raw \in Int /\ w[i].raw + 0 + 4 <= P
      BY <1>3, <1>5, <2>1
    <3>3. U32(e, w[i], 0) = U32(d, w[i], 0)
      BY <1>5, <3>2, BytesKept
    <3>4. QED
      BY <2>1, <3>1, <3>3 DEF Stack, n
  <2>2. CASE i \in 1 .. n - 1
    <3>1. Valid(e, s[i], w[i]) /\ s[i].raw # None
      BY <1>6, <2>2 DEF Valid
    <3>2. w[i].raw \in Int /\ w[i].raw + 0 + 4 <= P
      BY <1>2, <1>6, <2>2 DEF Window
    <3>3. U32(e, w[i], 0) = U32(d, w[i], 0)
      BY <1>5, <3>2, BytesKept
    <3>4. QED
      BY <3>1, <3>3 DEF Stack, n
  <2>3. QED
    BY <1>1, <2>1, <2>2
<1>8. ASSUME NEW i \in 1 .. n, NEW j \in 1 .. n, i < j
      PROVE  Holds(e, s[i], w[j])
  <2>1. i \in 1 .. n - 1
    BY <1>1, <1>8
  <2>2. Holds(d, s[i], w[j])
    BY <1>8 DEF Stack, n
  <2>3. QED
    BY <1>6, <2>1, <2>2 DEF Holds
<1>9. QED
  BY <1>1, <1>7, <1>8 DEF Stack, n

-----------------------------------------------------------------------------
(* The initial states, and each action.                                    *)
LEMMA InitIInv ==
    ASSUME Init
    PROVE  IInv
<1> DEFINE n == Len(data)
           w == [raw |-> 0, len |-> n]
           it == Initial(0, n)
<1>1. data \in Seq(0 .. 255) /\ n \in Nat /\ n = U32(data, w, 0)
  BY InputsAssumption DEF Init, Acceptable
<1>2. iters = <<it>> /\ windows = <<w>> /\ call = Idle
  BY DEF Init
<1>3. it \in Iterator /\ w \in Window
  BY <1>1 DEF Initial, Iterator, Window
<1>4. it.raw # None /\ Valid(data, it, w)
  BY <1>1 DEF Initial, Valid, Fresh, None
<1>5. call = [path |-> call.path, kind |-> call.kind, base |-> call.base]
  BY <1>2 DEF Idle
<1> HIDE DEF w, it, n
<1>6. Stack(data, iters, windows)
  <2>1. /\ iters \in Seq(Iterator) /\ windows \in Seq(Window)
        /\ Len(iters) = 1 /\ Len(windows) = 1 /\ iters[1] = it /\ windows[1] = w
    BY <1>2, <1>3
  <2>2. w.len = U32(data, w, 0)
    BY <1>1 DEF w
  <2>3. \A i \in 1 .. 1 : i = 1
    OBVIOUS
  <2>4. QED
    BY <1>4, <2>1, <2>2, <2>3 DEF Stack
<1>7. QED
  BY <1>1, <1>2, <1>5, <1>6 DEF IInv, Calling

LEMMA NextIInv ==
    ASSUME IInv, bson_iter_next
    PROVE  IInv'
<1>1. PICK it \in Advance(iters[Top]) : iters' = Replaced(Top, it)
  BY DEF bson_iter_next
<1>2. data' = data /\ windows' = windows /\ call' = call /\ iters[Top].raw # None
      /\ call = Idle
  BY DEF bson_iter_next
<1>3. iters[Top] \in Iterator /\ windows[Top] \in Window
      /\ Valid(data, iters[Top], windows[Top])
  BY <1>2 DEF IInv, Stack, Top
<1>4. /\ it \in Iterator
      /\ it.raw # None => Valid(data, it, windows[Top])
      /\ it.raw = None => Stopped(data, it, windows[Top])
  BY <1>2, <1>3, AdvanceFacts DEF IInv
<1>5. Stack(data, iters', windows)
  BY <1>1, <1>4, ReplaceTop DEF IInv, Replaced, Top
<1>6. QED
  BY <1>2, <1>5 DEF IInv, Calling

LEMMA RecurseIInv ==
    ASSUME IInv, bson_iter_recurse
    PROVE  IInv'
<1>1. /\ iters' = Recursed(iters, ChildWindow(iters[Top]))
      /\ windows' = Append(windows, ChildWindow(iters[Top]))
      /\ data' = data /\ call' = call /\ call = Idle /\ Recursible(iters[Top])
  BY DEF bson_iter_recurse
<1>2. Stack(data, iters', windows')
  BY <1>1, PushTop DEF IInv, Top
<1>3. QED
  BY <1>1, <1>2 DEF IInv, Calling

LEMMA ReturnIInv ==
    ASSUME IInv, Return
    PROVE  IInv'
<1>1. /\ iters' = SubSeq(iters, 1, Top - 1) /\ windows' = SubSeq(windows, 1, Top - 1)
      /\ data' = data /\ call' = call /\ call = Idle
  BY DEF Return
<1>2. Top - 1 \in 1 .. Len(iters)
  BY DEF Return, IInv, Stack, Top
<1>3. Stack(data, iters', windows')
  BY <1>1, <1>2, KeepBottom DEF IInv
<1>4. QED
  BY <1>1, <1>3 DEF IInv, Calling

LEMMA ElementType ==
    ASSUME NEW S, NEW d \in Seq(S), NEW p \in DOMAIN d
    PROVE  d[p] \in S
OBVIOUS

(* Only the bytes of the value are written, which begin behind its key.    *)
LEMMA OverwrittenBytes ==
    ASSUME data \in Seq(0 .. 255), NEW it, it.raw \in Int, it.d1 \in Int,
           NEW bytes, DOMAIN bytes \subseteq Nat,
           \A i \in DOMAIN bytes : bytes[i] \in 0 .. 255
    PROVE  LET e == Overwritten(it, bytes) IN
           /\ SameUntil(data, e, it.raw + it.d1)
           /\ 0 \in DOMAIN bytes /\ bytes[0] \in {0, 1} => At(e, it, it.d1) \in {0, 1}
<1> DEFINE e == Overwritten(it, bytes)
           P == it.raw + it.d1
<1>1. DOMAIN e = DOMAIN data
  BY DEF Overwritten
<1>2. ASSUME NEW p \in DOMAIN data
      PROVE  /\ p <= P => e[p] = data[p]
             /\ p = P + 1 /\ 0 \in DOMAIN bytes => e[p] = bytes[0]
             /\ e[p] \in 0 .. 255
  <2> DEFINE i == p - 1 - it.raw - it.d1
  <2>1. e[p] = IF i \in DOMAIN bytes THEN bytes[i] ELSE data[p]
    BY DEF Overwritten
  <2>2. p \in Int /\ i \in Int /\ (p <= P => i < 0) /\ (p = P + 1 => i = 0)
    BY SMTT(40)
  <2> HIDE DEF i, e, P
  <2>3. data[p] \in 0 .. 255
    BY ElementType
  <2>4. QED
    BY <2>1, <2>2, <2>3
<1>3. e \in Seq(0 .. 255)
  <2>1. e = [p \in 1 .. Len(data) |-> e[p]]
    BY DEF Overwritten
  <2>2. \A p \in 1 .. Len(data) : e[p] \in 0 .. 255
    BY <1>2
  <2> HIDE DEF e
  <2>3. QED
    BY <2>1, <2>2
<1>4. ASSUME 0 \in DOMAIN bytes, bytes[0] \in {0, 1}
      PROVE  At(e, it, it.d1) \in {0, 1}
  <2>1. At(e, it, it.d1) = IF P + 1 \in DOMAIN e THEN e[P + 1] ELSE 0
    BY DEF At
  <2>2. QED
    BY <1>1, <1>2, <1>4, <2>1
<1>5. SameUntil(data, e, P)
  BY <1>1, <1>2, <1>3 DEF SameUntil
<1>6. QED
  BY <1>4, <1>5

LEMMA OverwriteIInv ==
    ASSUME IInv, bson_iter_overwrite
    PROVE  IInv'
<1> DEFINE it == iters[Top]
<1>1. /\ call = Idle /\ iters' = iters /\ windows' = windows /\ call' = call
      /\ it.raw # None /\ it.off > 0
  BY DEF bson_iter_overwrite, OnElement
<1>2. data \in Seq(0 .. 255) /\ Stack(data, iters, windows) /\ it \in Iterator
  BY DEF IInv, Stack, Top
<1>3. it.raw \in Int /\ it.d1 \in Int
  BY <1>1, <1>2, SMTT(40) DEF Iterator
<1>4. PICK bytes :
         /\ data' = Overwritten(it, bytes) /\ DOMAIN bytes \subseteq Nat
         /\ \A i \in DOMAIN bytes : bytes[i] \in 0 .. 255
         /\ Type(it) \in Overwritable \cup {BOOL}
         /\ Type(it) = BOOL => 0 \in DOMAIN bytes /\ bytes[0] \in {0, 1}
  <2>1. CASE Type(it) \in Overwritable
    <3>1. Type(it) # BOOL
      BY <2>1 DEF Overwritable, INT32, INT64, DOUBLE, DECIMAL128, BOOL
    <3>2. PICK b \in Fill : data' = Overwritten(it, [i \in 0 .. Width(it) - 1 |-> b])
      BY <3>1 DEF bson_iter_overwrite
    <3>3. b \in 0 .. 255
      BY InputsAssumption
    <3>4. WITNESS [i \in 0 .. Width(it) - 1 |-> b]
    <3>5. QED
      BY <2>1, <3>1, <3>2, <3>3
  <2>2. CASE Type(it) = BOOL
    <3>1. Type(it) \notin Overwritable
      BY <2>2 DEF Overwritable, INT32, INT64, DOUBLE, DECIMAL128, BOOL
    <3>2. PICK b \in {0, 1} : data' = Overwritten(it, [i \in {0} |-> b])
      BY <3>1 DEF bson_iter_overwrite
    <3>3. WITNESS [i \in {0} |-> b]
    <3>4. QED
      BY <2>2, <3>2
  <2>3. QED
    BY <2>1, <2>2 DEF bson_iter_overwrite
<1>5. SameUntil(data, data', it.raw + it.d1)
  BY <1>2, <1>3, <1>4, OverwrittenBytes
<1>6. Type(it) = BOOL => At(data', it, it.d1) \in {0, 1}
  BY <1>2, <1>3, <1>4, OverwrittenBytes
<1>7. Stack(data', iters, windows)
  BY <1>1, <1>2, <1>3, <1>4, <1>5, <1>6, OverwriteStack DEF Top, Type
<1>8. data' \in Seq(0 .. 255)
  BY <1>5 DEF SameUntil
<1>9. QED
  BY <1>1, <1>7, <1>8 DEF IInv, Calling

LEMMA CallIInv ==
    ASSUME IInv, NEW kind, NEW path, Call(kind, path)
    PROVE  IInv'
<1>1. /\ data' = data /\ iters' = iters /\ windows' = windows
      /\ call' = [path |-> path, kind |-> kind, base |-> Top]
  BY DEF Call
<1>2. Top \in 1 .. Len(iters)
  BY DEF IInv, Stack, Top
<1>3. QED
  BY <1>1, <1>2 DEF IInv, Calling

(* The end of a find, with the iterators it keeps.                         *)
LEMMA FinishedIInv ==
    ASSUME data \in Seq(0 .. 255), Calling, call # Idle,
           NEW s, NEW w, NEW ret \in BOOLEAN,
           Stack(data, s, w), Len(s) = Len(iters), Finished(s, w, ret)
    PROVE  IInv'
<1>1. /\ iters' = Kept(s, ret) /\ windows' = Kept(w, ret) /\ call' = Idle /\ data' = data
  BY DEF Finished
<1>2. call.base \in 1 .. Len(s) /\ Len(w) = Len(s)
  BY DEF Calling, Stack
<1>3. Stack(data, Kept(s, ret), Kept(w, ret))
  <2>1. CASE ret /\ Len(s) > call.base
    <3>1. /\ Kept(s, ret) = Append(SubSeq(s, 1, call.base), s[Len(s)])
          /\ Kept(w, ret) = Append(SubSeq(w, 1, call.base), w[Len(w)])
      BY <1>2, <2>1 DEF Kept
    <3>2. call.base < Len(s)
      BY <1>2, <2>1
    <3>3. QED
      BY <1>2, <3>1, <3>2, KeepLast
  <2>2. CASE ~(ret /\ Len(s) > call.base)
    <3>1. /\ Kept(s, ret) = SubSeq(s, 1, call.base)
          /\ Kept(w, ret) = SubSeq(w, 1, call.base)
      BY <1>2, <2>2 DEF Kept
    <3>2. QED
      BY <1>2, <3>1, KeepBottom
  <2>3. QED
    BY <2>1, <2>2
<1>4. Calling'
  BY <1>1 DEF Calling, Idle
<1>5. QED
  BY <1>1, <1>3, <1>4 DEF IInv

LEMMA FindNothingIInv ==
    ASSUME IInv, FindNothing
    PROVE  IInv'
<1>1. call.kind = "descendant" /\ Finished(iters, windows, FALSE)
  BY DEF FindNothing
<1>2. Idle.kind # "descendant"
  BY DEF Idle
<1>3. QED
  BY <1>1, <1>2, FinishedIInv DEF IInv

LEMMA FindNextIInv ==
    ASSUME IInv, FindNext
    PROVE  IInv'
<1>1. PICK it \in Advance(iters[Top]) :
         LET here == SameKey(it, it.off, Head(call.path), call.kind)
             s    == Replaced(Top, it)
         IN
         \/ it.raw = None /\ Finished(s, windows, FALSE)
         \/ /\ it.raw # None /\ ~here
            /\ iters' = s
            /\ UNCHANGED <<data, windows, call, found>>
         \/ it.raw # None /\ here /\ Len(call.path) = 1 /\ Finished(s, windows, TRUE)
         \/ /\ it.raw # None /\ here /\ Len(call.path) > 1 /\ ~Recursible(it)
            /\ Finished(s, windows, FALSE)
         \/ /\ it.raw # None /\ here /\ Len(call.path) > 1 /\ Recursible(it)
            /\ LET w == ChildWindow(it) IN
               /\ iters' = Recursed(s, w)
               /\ windows' = Append(windows, w)
            /\ call' = [call EXCEPT !.path = Tail(@)]
            /\ UNCHANGED <<data, found>>
  BY DEF FindNext
<1> DEFINE s == Replaced(Top, it)
<1>2. call # Idle
  BY DEF FindNext
<1>3. /\ data \in Seq(0 .. 255) /\ Stack(data, iters, windows) /\ Calling
      /\ Top \in Nat /\ Top >= 1 /\ iters \in Seq(Iterator)
  BY DEF IInv, Stack, Top
<1>4. Stack(data, s, windows) /\ Len(s) = Len(iters) /\ s[Len(s)] = it
  <2>1. iters[Top] \in Iterator /\ windows[Top] \in Window
    BY <1>3 DEF Stack, Top
  <2>2. CASE iters[Top].raw = None
    <3>1. it = iters[Top]
      BY <2>2 DEF Advance
    <3>2. s = iters
      BY <1>3, <3>1 DEF Replaced, Top
    <3>3. QED
      BY <1>3, <3>1, <3>2 DEF Top
  <2>3. CASE iters[Top].raw # None
    <3>1. Valid(data, iters[Top], windows[Top])
      BY <1>3, <2>3 DEF Stack, Top
    <3>2. /\ it \in Iterator
          /\ it.raw # None => Valid(data, it, windows[Top])
          /\ it.raw = None => Stopped(data, it, windows[Top])
      BY <1>3, <2>1, <2>3, <3>1, AdvanceFacts
    <3>3. Stack(data, s, windows)
      BY <1>3, <3>2, ReplaceTop DEF Replaced, Top
    <3>4. QED
      BY <1>3, <3>2, <3>3 DEF Replaced, Top
  <2>4. QED
    BY <2>2, <2>3
<1> HIDE DEF s
<1>5. CASE \E ret \in BOOLEAN : Finished(s, windows, ret)
  BY <1>2, <1>3, <1>4, <1>5, FinishedIInv
<1>6. CASE iters' = s /\ UNCHANGED <<data, windows, call, found>>
  BY <1>3, <1>4, <1>6 DEF IInv, Calling
<1>7. CASE /\ Recursible(it)
           /\ iters' = Recursed(s, ChildWindow(it))
           /\ windows' = Append(windows, ChildWindow(it))
           /\ call' = [call EXCEPT !.path = Tail(@)] /\ data' = data
  <2>1. Stack(data, iters', windows')
    BY <1>3, <1>4, <1>7, PushTop
  <2>2. /\ call' = [path |-> call'.path, kind |-> call'.kind, base |-> call'.base]
        /\ call'.base = call.base
    BY <1>3, <1>7 DEF Calling
  <2>3. call'.base \in 1 .. Len(iters')
    <3>1. Len(iters') = Len(s) + 1
      BY <1>4, <1>7 DEF Recursed, Stack
    <3>2. call.base \in 1 .. Len(iters) /\ Len(iters) \in Nat
      BY <1>2, <1>3 DEF Calling
    <3>3. QED
      BY <1>4, <2>2, <3>1, <3>2
  <2>4. QED
    BY <1>3, <1>7, <2>1, <2>2, <2>3 DEF IInv, Calling
<1>8. QED
  BY <1>1, <1>5, <1>6, <1>7 DEF s

LEMMA StepIInv ==
    ASSUME IInv, [Next]_vars
    PROVE  IInv'
<1>1. CASE bson_iter_next
  BY <1>1, NextIInv
<1>2. CASE bson_iter_recurse
  BY <1>2, RecurseIInv
<1>3. CASE Return
  BY <1>3, ReturnIInv
<1>4. CASE bson_iter_overwrite
  BY <1>4, OverwriteIInv
<1>5. CASE bson_iter_find
  BY <1>5, CallIInv DEF bson_iter_find
<1>6. CASE bson_iter_find_descendant
  BY <1>6, CallIInv DEF bson_iter_find_descendant
<1>7. CASE Find
  BY <1>7, FindNothingIInv, FindNextIInv DEF Find
<1>8. CASE UNCHANGED vars
  BY <1>8 DEF vars, IInv, Calling
<1>9. QED
  BY <1>1, <1>2, <1>3, <1>4, <1>5, <1>6, <1>7, <1>8 DEF Next

(***************************************************************************)
(* The invariant holds in every state of a caller iterating, recursing,    *)
(* overwriting and looking for keys.                                       *)
(***************************************************************************)
THEOREM Invariance == Spec => []IInv
<1>1. Init => IInv
  BY InitIInv
<1>2. IInv /\ [Next]_vars => IInv'
  BY StepIInv
<1>3. QED
  BY <1>1, <1>2, PTL DEF Spec

(* An iterator is at an element, all of it in its window, or between two,  *)
(* whatever the iterators of its subdocuments overwrote.                   *)
THEOREM StaysAtElements == Spec => []AtElement
BY Invariance, IInvConsequences, PTL

(* bson_iter_next fails only where no element is, and err_off is 0 at the  *)
(* end of a window that ends in a 0 and nowhere else.                      *)
THEOREM StopsAtTheEnd == Spec => []EndIsRight
BY Invariance, IInvConsequences, PTL

(* What the getters return lies in the value of the element.               *)
THEOREM GettersStayInside == Spec => []GettersInside
BY Invariance, IInvConsequences, PTL

(* The window of a child is strictly inside that of its parent, and begins *)
(* with its length whatever is overwritten.                                *)
THEOREM ChildrenStayInside == Spec => []ChildrenInside
BY Invariance, IInvConsequences, PTL

(* The elements of a window, by offset.  A set of offsets has a greatest,  *)
(* which is where the proofs about what follows an element begin.          *)
LEMMA GreatestFacts ==
    ASSUME NEW n \in Nat, NEW S \in SUBSET (0 .. n), S # {}
    PROVE  \E m \in S : \A x \in S : x <= m
<1> DEFINE R == {n - x : x \in S}
<1>1. R \in SUBSET Nat /\ R # {}
  <2>1. \A x \in S : n - x \in Nat
    OBVIOUS
  <2>2. QED
    BY <2>1
<1>2. Min(R) \in R /\ \A y \in R : Min(R) <= y
  BY <1>1, MinFacts
<1>3. PICK m \in S : Min(R) = n - m
  BY <1>2
<1>4. ASSUME NEW x \in S PROVE x <= m
  <2>1. n - m <= n - x
    BY <1>2, <1>3
  <2>2. QED
    BY <2>1
<1>5. QED
  BY <1>4

(* A value has one end, and so has an element.                             *)
LEMMA ValueEndsOnce ==
    ASSUME NEW d \in Seq(0 .. 255), NEW w, NEW t, NEW k \in Nat, NEW e \in Int, NEW f \in Int,
           IsValue(d, w, t, k, e), IsValue(d, w, t, k, f)
    PROVE  e = f
<1>1. U32(d, w, k) \in Nat
  BY U32Type
<1>2. CASE t \in Sized
  BY <1>2, TypesApart, SizeFacts DEF IsValue
<1>3. CASE t = BOOL
  BY <1>3, TypesApart DEF IsValue
<1>4. CASE t \in Strings
  <2>1. IsString(d, w, k, e) /\ IsString(d, w, k, f)
    BY <1>4, TypesApart DEF IsValue
  <2>2. QED
    BY <1>1, <2>1 DEF IsString
<1>5. CASE t \in {DOCUMENT, ARRAY}
  <2>1. U32(d, w, k) = e - k /\ U32(d, w, k) = f - k
    BY <1>5, TypesApart DEF IsValue
  <2>2. QED
    BY <1>1, <2>1
<1>6. CASE t = BINARY
  <2>1. U32(d, w, k) = e - k - 5 /\ U32(d, w, k) = f - k - 5
    BY <1>6, TypesApart DEF IsValue
  <2>2. QED
    BY <1>1, <2>1
<1>7. CASE t = REGEX
  <2>1. PICK m \in k .. e : IsCString(d, w, k, m) /\ IsCString(d, w, m, e)
    BY <1>7, TypesApart DEF IsValue
  <2>2. PICK l \in k .. f : IsCString(d, w, k, l) /\ IsCString(d, w, l, f)
    BY <1>7, TypesApart DEF IsValue
  <2>3. m = l
    BY <2>1, <2>2, EndIsUnique
  <2>4. QED
    BY <2>1, <2>2, <2>3, EndIsUnique
<1>8. CASE t = DBPOINTER
  <2>1. IsString(d, w, k, e - 12) /\ IsString(d, w, k, f - 12)
    BY <1>8, TypesApart DEF IsValue
  <2>2. QED
    BY <1>1, <2>1 DEF IsString
<1>9. CASE t = CODEWSCOPE
  <2>1. U32(d, w, k) = e - k /\ U32(d, w, k) = f - k
    BY <1>9, TypesApart DEF IsValue
  <2>2. QED
    BY <1>1, <2>1
<1>10. QED
  BY <1>2, <1>3, <1>4, <1>5, <1>6, <1>7, <1>8, <1>9 DEF IsValue

LEMMA ElementEndsOnce ==
    ASSUME NEW d \in Seq(0 .. 255), NEW w, w.len \in Nat, NEW i \in Nat,
           NEW e \in ElementEnds(d, w, i)
    PROVE  /\ e \in Nat /\ e >= i + 2 /\ e < w.len
           /\ ElementEnds(d, w, i) = {e}
           /\ (CHOOSE f \in ElementEnds(d, w, i) : TRUE) = e
<1>1. w.len \in Nat /\ i + 1 \in Int
  OBVIOUS
<1>2. PICK k \in i + 2 .. w.len : /\ IsCString(d, w, i + 1, k)
                                  /\ e \in k .. w.len /\ e < w.len
                                  /\ IsValue(d, w, At(d, w, i), k, e)
  BY InElementEnds
<1>3. k \in Nat /\ e \in Nat /\ e >= i + 2
  BY <1>1, <1>2
<1>4. ASSUME NEW f \in ElementEnds(d, w, i) PROVE f = e
  <2>1. PICK l \in i + 2 .. w.len : /\ IsCString(d, w, i + 1, l)
                                    /\ f \in l .. w.len
                                    /\ IsValue(d, w, At(d, w, i), l, f)
    BY InElementEnds
  <2>2. l \in Int /\ f \in Int
    BY <1>1, <2>1
  <2>3. l = k
    BY <1>1, <1>2, <1>3, <2>1, <2>2, EndIsUnique
  <2>4. QED
    BY <1>2, <1>3, <2>1, <2>2, <2>3, ValueEndsOnce
<1>5. QED
  BY <1>2, <1>3, <1>4

(* ElementsFrom is the function its recursion describes: the offsets that  *)
(* every set with i and with the end of each of its elements has are such  *)
(* a function.                                                             *)
LEMMA ElementsUnfold ==
    ASSUME NEW d \in Seq(0 .. 255), NEW w, w.len \in Nat, NEW i \in Nat
    PROVE  ElementsFrom(d, w)[i] =
              IF ElementEnds(d, w, i) = {} THEN {}
              ELSE {i} \cup ElementsFrom(d, w)[CHOOSE e \in ElementEnds(d, w, i) : TRUE]
<1> DEFINE E(j) == ElementEnds(d, w, j)
           next(j) == CHOOSE e \in ElementEnds(d, w, j) : TRUE
           Closed(S) == \A k \in S : E(k) # {} => next(k) \in S
           R(j) == {x \in Nat : \A S \in SUBSET Nat : j \in S /\ Closed(S) => x \in S}
           G(f) == [j \in Nat |-> IF E(j) = {} THEN {} ELSE {j} \cup f[next(j)]]
           h == [j \in Nat |-> {x \in R(j) : E(x) # {}}]
<1>1. ASSUME NEW j \in Nat, E(j) # {} PROVE next(j) \in Nat
  BY <1>1, ElementEndsOnce
<1> HIDE DEF E, next
<1>2. ASSUME NEW j \in Nat PROVE j \in R(j) /\ Closed(R(j))
  BY <1>1
<1>3. ASSUME NEW j \in Nat, E(j) = {} PROVE h[j] = {}
  <2>1. Closed({j}) /\ {j} \in SUBSET Nat
    BY <1>3
  <2>2. R(j) \subseteq {j}
    BY <2>1
  <2>3. QED
    BY <1>3, <2>2
<1>4. ASSUME NEW j \in Nat, E(j) # {} PROVE h[j] = {j} \cup h[next(j)]
  <2> DEFINE n == next(j)
             S == {j} \cup R(n)
  <2>1. n \in Nat
    BY <1>1, <1>4
  <2>2. S \in SUBSET Nat /\ j \in S /\ Closed(S)
    BY <1>2, <2>1
  <2>3. R(j) \subseteq S
    BY <2>2
  <2>4. n \in R(j)
    BY <1>2, <1>4
  <2>5. R(n) \subseteq R(j)
    BY <1>2, <2>4
  <2>6. R(j) = S
    BY <1>2, <2>3, <2>5
  <2>7. QED
    BY <1>4, <2>1, <2>6
<1>5. h = G(h)
  BY <1>3, <1>4
<1>6. ElementsFrom(d, w) = (CHOOSE f : f = G(f))
  BY DEF ElementsFrom, E, next
<1> HIDE DEF G, h
<1>7. ElementsFrom(d, w) = G(ElementsFrom(d, w))
  BY <1>5, <1>6
<1>8. QED
  BY <1>7 DEF G, E, next

LEMMA FromSteps ==
    ASSUME NEW d \in Seq(0 .. 255), NEW w, w.len \in Nat, NEW i \in Nat
    PROVE  /\ ElementEnds(d, w, i) = {} => ElementsFrom(d, w)[i] = {}
           /\ \A e \in ElementEnds(d, w, i) :
                 ElementsFrom(d, w)[i] = {i} \cup ElementsFrom(d, w)[e]
<1>1. ElementEnds(d, w, i) = {} => ElementsFrom(d, w)[i] = {}
  BY ElementsUnfold
<1>2. ASSUME NEW e \in ElementEnds(d, w, i)
      PROVE  ElementsFrom(d, w)[i] = {i} \cup ElementsFrom(d, w)[e]
  <2>1. (CHOOSE f \in ElementEnds(d, w, i) : TRUE) = e
    BY ElementEndsOnce
  <2>2. ElementEnds(d, w, i) # {}
    OBVIOUS
  <2> DEFINE next == CHOOSE f \in ElementEnds(d, w, i) : TRUE
  <2>3. ElementsFrom(d, w)[i] = {i} \cup ElementsFrom(d, w)[next]
    BY <2>2, ElementsUnfold
  <2>4. next = e
    BY <2>1
  <2> HIDE DEF next
  <2>5. QED
    BY <2>3, <2>4
<1>3. QED
  BY <1>1, <1>2

(* What holds of an offset where no element is, and of an element if it    *)
(* holds of its end, holds everywhere: it cannot fail at a greatest offset.*)
LEMMA ByNextElement ==
    ASSUME NEW d \in Seq(0 .. 255), NEW w, w.len \in Nat, NEW P \in SUBSET Nat,
           \A k \in Nat : ElementEnds(d, w, k) = {} => k \in P,
           \A k \in Nat : \A e \in ElementEnds(d, w, k) : e \in P => k \in P
    PROVE  P = Nat
<1> DEFINE Fails == {k \in 0 .. w.len : k \notin P}
<1>1. w.len \in Nat
  OBVIOUS
<1>2. ASSUME NEW k \in Nat, k \notin P PROVE k \in Fails
  <2>1. PICK e \in ElementEnds(d, w, k) : TRUE
    BY <1>2
  <2>2. k < w.len
    BY <1>1, ElementEndsOnce
  <2>3. QED
    BY <1>1, <1>2, <2>2
<1>3. ASSUME NEW m \in Fails PROVE \E x \in Fails : m < x
  <2>1. PICK e \in ElementEnds(d, w, m) : TRUE
    BY <1>1
  <2>2. e \in Nat /\ m < e
    BY <1>1, ElementEndsOnce
  <2>3. e \notin P
    BY <1>1
  <2>4. QED
    BY <1>2, <2>2, <2>3
<1>4. Fails = {}
  <2>1. SUFFICES ASSUME Fails # {} PROVE FALSE
    OBVIOUS
  <2>2. PICK m \in Fails : \A x \in Fails : x <= m
    BY <1>1, <2>1, GreatestFacts
  <2>3. PICK x \in Fails : m < x
    BY <1>3
  <2>4. x <= m /\ x \in Nat /\ m \in Nat
    BY <1>1, <2>2
  <2>5. QED
    BY <2>3, <2>4
<1>5. QED
  BY <1>2, <1>4

(* The elements from one on are some of those from an earlier one on.      *)
LEMMA FromForward ==
    ASSUME NEW d \in Seq(0 .. 255), NEW w, w.len \in Nat, NEW i \in Nat,
           NEW j \in ElementsFrom(d, w)[i]
    PROVE  /\ j \in Nat /\ i <= j /\ ElementEnds(d, w, j) # {}
           /\ ElementsFrom(d, w)[j] \subseteq ElementsFrom(d, w)[i]
<1> DEFINE L(k) == ElementsFrom(d, w)[k]
           E(k) == ElementEnds(d, w, k)
           P == {k \in Nat : \A x \in L(k) : /\ x \in Nat /\ k <= x /\ E(x) # {}
                                             /\ L(x) \subseteq L(k)}
<1>1. \A k \in Nat : E(k) = {} => L(k) = {}
  BY FromSteps
<1>2. \A k \in Nat : \A e \in E(k) : /\ L(k) = {k} \cup L(e)
                                     /\ e \in Nat /\ k <= e
  <2>1. \A k \in Nat : \A e \in E(k) : L(k) = {k} \cup L(e)
    BY FromSteps
  <2>2. \A k \in Nat : \A e \in E(k) : e \in Nat /\ k <= e
    BY ElementEndsOnce
  <2>3. QED
    BY <2>1, <2>2
<1> HIDE DEF L, E
<1>3. \A k \in Nat : E(k) = {} => k \in P
  BY <1>1
<1>4. ASSUME NEW k \in Nat, NEW e \in E(k), e \in P PROVE k \in P
  <2>1. ASSUME NEW x \in L(k)
        PROVE  x \in Nat /\ k <= x /\ E(x) # {} /\ L(x) \subseteq L(k)
    <3>1. CASE x = k
      BY <3>1
    <3>2. CASE x \in L(e)
      <4>1. x \in Nat /\ e <= x /\ E(x) # {} /\ L(x) \subseteq L(e)
        BY <1>4, <3>2
      <4>2. QED
        BY <1>2, <4>1
    <3>3. QED
      BY <1>2, <2>1, <3>1, <3>2
  <2>2. QED
    BY <2>1
<1>5. P = Nat
  BY <1>3, <1>4, ByNextElement DEF E
<1>6. QED
  BY <1>5 DEF L, E

(* The element behind one of them is one of them.                          *)
LEMMA FromNext ==
    ASSUME NEW d \in Seq(0 .. 255), NEW w, w.len \in Nat, NEW i \in Nat,
           NEW j \in ElementsFrom(d, w)[i], NEW e \in ElementEnds(d, w, j),
           ElementEnds(d, w, e) # {}
    PROVE  e \in ElementsFrom(d, w)[i]
<1>1. j \in Nat /\ ElementsFrom(d, w)[j] \subseteq ElementsFrom(d, w)[i]
  BY FromForward
<1>2. e \in Nat /\ ElementsFrom(d, w)[j] = {j} \cup ElementsFrom(d, w)[e]
  BY <1>1, FromSteps, ElementEndsOnce
<1>3. e \in ElementsFrom(d, w)[e]
  BY <1>2, FromSteps
<1>4. QED
  BY <1>1, <1>2, <1>3

(* Two buffers with the same elements at o and behind have the same        *)
(* elements from there on; where the elements before o are also the same,  *)
(* the same from any of them on.                                           *)
SameEnds(d, e, w, n) == \A k \in Nat : k >= n => ElementEnds(e, w, k) = ElementEnds(d, w, k)

EndsKept(d, e, w, o) ==
    \A k \in Nat : \A x \in ElementEnds(d, w, k) :
        x <= o /\ ElementEnds(d, w, x) # {} => x \in ElementEnds(e, w, k)

LEMMA SameBehind ==
    ASSUME NEW d \in Seq(0 .. 255), NEW e \in Seq(0 .. 255), NEW w, w.len \in Nat,
           NEW n \in Nat, SameEnds(d, e, w, n)
    PROVE  \A k \in Nat : k >= n => ElementsFrom(e, w)[k] = ElementsFrom(d, w)[k]
<1> DEFINE P == {k \in Nat : k >= n => ElementsFrom(e, w)[k] = ElementsFrom(d, w)[k]}
<1>1. ASSUME NEW k \in Nat, ElementEnds(d, w, k) = {} PROVE k \in P
  <2>1. SUFFICES ASSUME k >= n PROVE ElementsFrom(e, w)[k] = ElementsFrom(d, w)[k]
    OBVIOUS
  <2>2. ElementEnds(e, w, k) = {}
    BY <1>1, <2>1 DEF SameEnds
  <2>3. ElementsFrom(d, w)[k] = {}
    BY <1>1, FromSteps
  <2>4. ElementsFrom(e, w)[k] = {}
    BY <2>2, FromSteps
  <2>5. QED
    BY <2>3, <2>4
<1>2. ASSUME NEW k \in Nat, NEW x \in ElementEnds(d, w, k), x \in P PROVE k \in P
  <2>1. SUFFICES ASSUME k >= n PROVE ElementsFrom(e, w)[k] = ElementsFrom(d, w)[k]
    OBVIOUS
  <2>2. x \in Nat /\ x >= k
    BY ElementEndsOnce
  <2>3. ElementsFrom(e, w)[x] = ElementsFrom(d, w)[x]
    BY <1>2, <2>1, <2>2
  <2>4. x \in ElementEnds(e, w, k)
    BY <2>1 DEF SameEnds
  <2>5. ElementsFrom(d, w)[k] = {k} \cup ElementsFrom(d, w)[x]
    BY FromSteps
  <2>6. ElementsFrom(e, w)[k] = {k} \cup ElementsFrom(e, w)[x]
    BY <2>4, FromSteps
  <2>7. QED
    BY <2>3, <2>5, <2>6
<1>3. P = Nat
  BY <1>1, <1>2, ByNextElement
<1>4. QED
  BY <1>3

LEMMA SameThrough ==
    ASSUME NEW d \in Seq(0 .. 255), NEW e \in Seq(0 .. 255), NEW w, w.len \in Nat,
           NEW o \in Nat, NEW n \in ElementEnds(d, w, o), n \in ElementEnds(e, w, o),
           SameEnds(d, e, w, n), EndsKept(d, e, w, o)
    PROVE  \A i \in Nat : o \in ElementsFrom(d, w)[i]
                             => ElementsFrom(e, w)[i] = ElementsFrom(d, w)[i]
<1> DEFINE L(k) == ElementsFrom(d, w)[k]
           M(k) == ElementsFrom(e, w)[k]
           P == {k \in Nat : o \in L(k) => M(k) = L(k)}
<1>1. n \in Nat /\ L(o) = {o} \cup L(n) /\ M(o) = {o} \cup M(n)
  BY FromSteps, ElementEndsOnce
<1>2. M(n) = L(n)
  <2>1. n \in Nat /\ n >= n
    BY <1>1
  <2>2. \A k \in Nat : k >= n => ElementsFrom(e, w)[k] = ElementsFrom(d, w)[k]
    BY <2>1, SameBehind
  <2>3. QED
    BY <2>1, <2>2
<1>3. M(o) = L(o)
  BY <1>1, <1>2
<1>4. ASSUME NEW k \in Nat, ElementEnds(d, w, k) = {} PROVE k \in P
  BY <1>4, FromSteps
<1>5. ASSUME NEW k \in Nat, NEW x \in ElementEnds(d, w, k), x \in P PROVE k \in P
  <2>1. SUFFICES ASSUME o \in L(k), k # o PROVE M(k) = L(k)
    BY <1>3
  <2>2. x \in Nat /\ L(k) = {k} \cup L(x)
    BY FromSteps, ElementEndsOnce
  <2>3. o \in L(x)
    BY <2>1, <2>2
  <2>4. x <= o /\ ElementEnds(d, w, x) # {}
    <3>1. x <= o
      BY <2>2, <2>3, FromForward
    <3>2. ElementEnds(d, w, x) # {}
      BY <2>2, <2>3, FromSteps
    <3>3. QED
      BY <3>1, <3>2
  <2>5. x \in ElementEnds(e, w, k)
    BY <2>4 DEF EndsKept
  <2>6. M(k) = {k} \cup M(x)
    BY <2>5, FromSteps
  <2>7. QED
    BY <1>5, <2>2, <2>3, <2>6
<1>6. P = Nat
  BY <1>4, <1>5, ByNextElement
<1>7. QED
  BY <1>6

(* What is behind an offset is said by the bytes behind it; ...            *)
SameAt(d, e, w, x) == At(e, w, x) = At(d, w, x)

LEMMA ReadBehind ==
    ASSUME NEW d, NEW e, NEW w, NEW k \in Nat, \A x \in Int : x >= k => SameAt(d, e, w, x)
    PROVE  /\ \A x \in Int : x >= k => U32(e, w, x) = U32(d, w, x)
           /\ \A i, f \in Int : i >= k => (IsCString(e, w, i, f) <=> IsCString(d, w, i, f))
           /\ \A i, f \in Int : i >= k => (IsString(e, w, i, f) <=> IsString(d, w, i, f))
<1>1. ASSUME NEW x \in Int, x >= k PROVE U32(e, w, x) = U32(d, w, x)
  <2>1. /\ At(e, w, x) = At(d, w, x) /\ At(e, w, x + 1) = At(d, w, x + 1)
        /\ At(e, w, x + 2) = At(d, w, x + 2) /\ At(e, w, x + 3) = At(d, w, x + 3)
    <3>1. /\ x + 1 \in Int /\ x + 2 \in Int /\ x + 3 \in Int
          /\ x + 1 >= k /\ x + 2 >= k /\ x + 3 >= k
      BY <1>1
    <3>2. QED
      BY <1>1, <3>1 DEF SameAt
  <2>2. QED
    BY <2>1, SMT DEF U32
<1>2. ASSUME NEW i \in Int, NEW f \in Int, i >= k
      PROVE  /\ IsCString(e, w, i, f) <=> IsCString(d, w, i, f)
             /\ IsString(e, w, i, f) <=> IsString(d, w, i, f)
  <2>1. \A j \in i .. f - 1 : At(e, w, j) = At(d, w, j)
    BY <1>2 DEF SameAt
  <2>2. f > i + 4 => At(e, w, f - 1) = At(d, w, f - 1)
    BY <2>1
  <2>3. U32(e, w, i) = U32(d, w, i)
    BY <1>1, <1>2
  <2>4. IsCString(e, w, i, f) <=> IsCString(d, w, i, f)
    BY <2>1 DEF IsCString
  <2>5. IsString(e, w, i, f) <=> IsString(d, w, i, f)
    BY <2>2, <2>3 DEF IsString
  <2>6. QED
    BY <2>4, <2>5
<1>3. QED
  BY <1>1, <1>2

LEMMA ValueBehind ==
    ASSUME NEW d, NEW e, NEW w, NEW t, NEW k \in Nat, NEW f \in Int, f >= k,
           \A x \in Int : x >= k => SameAt(d, e, w, x), IsValue(d, w, t, k, f)
    PROVE  IsValue(e, w, t, k, f)
<1> DEFINE Behind ==
        /\ \A x \in Int : x >= k => U32(e, w, x) = U32(d, w, x)
        /\ \A i, x \in Int : i >= k => (IsCString(e, w, i, x) <=> IsCString(d, w, i, x))
        /\ \A i, x \in Int : i >= k => (IsString(e, w, i, x) <=> IsString(d, w, i, x))
<1>0. Behind
  BY ReadBehind
<1>1. /\ At(e, w, k) = At(d, w, k) /\ At(e, w, k + 4) = At(d, w, k + 4)
      /\ U32(e, w, k) = U32(d, w, k)
      /\ U32(e, w, k + 4) = U32(d, w, k + 4) /\ U32(e, w, k + 5) = U32(d, w, k + 5)
  <2>1. k + 4 \in Int /\ k + 5 \in Int /\ k >= k /\ k + 4 >= k /\ k + 5 >= k
    OBVIOUS
  <2>2. At(e, w, k) = At(d, w, k) /\ At(e, w, k + 4) = At(d, w, k + 4)
    BY <1>0, <2>1 DEF SameAt
  <2>3. QED
    BY <1>0, <2>1, <2>2
<1>2. CASE t \in Sized
  BY <1>2, TypesApart DEF IsValue
<1>3. CASE t = BOOL
  BY <1>1, <1>3, TypesApart DEF IsValue
<1>4. CASE t \in Strings
  <2>1. IsString(d, w, k, f)
    BY <1>4, TypesApart DEF IsValue
  <2>2. QED
    BY <1>0, <1>4, <2>1 DEF IsValue
<1>5. CASE t \in {DOCUMENT, ARRAY}
  BY <1>1, <1>5, TypesApart DEF IsValue
<1>6. CASE t = BINARY
  BY <1>1, <1>6, TypesApart DEF IsValue
<1>7. CASE t = REGEX
  <2>1. PICK m \in k .. f : IsCString(d, w, k, m) /\ IsCString(d, w, m, f)
    BY <1>7, TypesApart DEF IsValue
  <2>2. m \in Int /\ m >= k
    BY <2>1
  <2>3. IsCString(e, w, k, m) /\ IsCString(e, w, m, f)
    BY <1>0, <2>1, <2>2
  <2>4. QED
    BY <1>7, <2>1, <2>3 DEF IsValue
<1>8. CASE t = DBPOINTER
  <2>1. IsString(d, w, k, f - 12)
    BY <1>8, TypesApart DEF IsValue
  <2>2. f - 12 \in Int
    OBVIOUS
  <2>3. QED
    BY <1>0, <1>8, <2>1, <2>2 DEF IsValue
<1>9. CASE t = CODEWSCOPE
  <2>1. PICK m \in k + 9 .. f - 5 : U32(d, w, k + 4) = m - k - 8 /\ U32(d, w, m) = f - m
    BY <1>9, TypesApart DEF IsValue
  <2>2. U32(d, w, k) = f - k
    BY <1>9, TypesApart DEF IsValue
  <2>3. m \in Int /\ m >= k
    BY <2>1
  <2>4. U32(e, w, m) = U32(d, w, m)
    BY <1>0, <2>3
  <2>5. QED
    BY <1>1, <1>9, <2>1, <2>2, <2>4 DEF IsValue
<1>10. QED
  BY <1>2, <1>3, <1>4, <1>5, <1>6, <1>7, <1>8, <1>9 DEF IsValue

LEMMA EndsBehind ==
    ASSUME NEW d, NEW e, NEW w \in Window, NEW k \in Nat,
           \A x \in Int : x >= k => SameAt(d, e, w, x)
    PROVE  ElementEnds(e, w, k) = ElementEnds(d, w, k)
<1>1. ASSUME NEW a, NEW b, \A x \in Int : x >= k => SameAt(a, b, w, x),
             NEW f \in ElementEnds(a, w, k)
      PROVE  f \in ElementEnds(b, w, k)
  <2>1. PICK o \in k + 2 .. w.len : /\ IsCString(a, w, k + 1, o)
                                    /\ f \in o .. w.len /\ f < w.len
                                    /\ IsValue(a, w, At(a, w, k), o, f)
    BY <1>1, InElementEnds
  <2>2. o \in Nat /\ f \in Int /\ f >= o /\ w.len \in Nat /\ o >= k
    BY <2>1 DEF Window
  <2>3. IsCString(b, w, k + 1, o)
    <3>1. k \in Int /\ k + 1 \in Int /\ k + 1 >= k /\ o \in Int
      BY <2>2
    <3>2. QED
      BY <1>1, <2>1, <3>1, ReadBehind
  <2>4. At(b, w, k) = At(a, w, k)
    BY <1>1 DEF SameAt
  <2>5. \A x \in Int : x >= o => SameAt(a, b, w, x)
    BY <1>1, <2>2
  <2>6. IsValue(b, w, At(b, w, k), o, f)
    BY <2>1, <2>2, <2>4, <2>5, ValueBehind
  <2>7. QED
    BY <2>1, <2>3, <2>6, InElementEnds
<1>2. \A x \in Int : x >= k => SameAt(e, d, w, x)
  BY DEF SameAt
<1>3. \A f \in ElementEnds(d, w, k) : f \in ElementEnds(e, w, k)
  BY <1>1
<1>4. \A f \in ElementEnds(e, w, k) : f \in ElementEnds(d, w, k)
  BY <1>1, <1>2
<1>5. QED
  BY <1>3, <1>4

(* ... and an element in front of one by the bytes before that.  The four  *)
(* bytes of the length of a document are in front of it even if the length *)
(* is less than four: then there is a 0 where the next type would be.      *)
LEMMA ShortLength ==
    ASSUME NEW d \in Seq(0 .. 255), NEW w, NEW k \in Int, U32(d, w, k) < 4
    PROVE  At(d, w, k + U32(d, w, k)) = 0
<1> DEFINE a == At(d, w, k)
           b == At(d, w, k + 1)
           c == At(d, w, k + 2)
           f == At(d, w, k + 3)
           n == U32(d, w, k)
<1>1. a \in 0 .. 255 /\ b \in 0 .. 255 /\ c \in 0 .. 255 /\ f \in 0 .. 255
  BY AtType
<1>2. n = IF f >= 128 THEN Huge ELSE a + 256 * b + 65536 * c + 16777216 * f
  BY SMT DEF U32
<1>3. Huge >= 4
  BY SMT DEF Huge
<1>4. n < 4
  OBVIOUS
<1>5. b = 0 /\ c = 0 /\ f = 0 /\ n = a /\ a \in 0 .. 3
  <2> HIDE DEF a, b, c, f, n
  <2>1. f < 128
    <3>1. CASE f >= 128
      <4>1. n = Huge
        BY <1>2, <3>1
      <4>2. Huge \in Nat
        BY SMT DEF Huge
      <4>3. QED
        BY <1>3, <1>4, <4>1, <4>2
    <3>2. QED
      BY <1>1, <3>1
  <2>2. n = a + 256 * b + 65536 * c + 16777216 * f
    BY <1>1, <1>2, <2>1
  <2>3. QED
    BY <1>1, <1>4, <2>2, SMT
<1>6. a = 0 \/ a = 1 \/ a = 2 \/ a = 3
  BY <1>5
<1>7. CASE a = 0
  <2>1. k + n = k
    BY <1>5, <1>7
  <2>2. QED
    BY <1>7, <2>1
<1>8. CASE a = 1
  BY <1>5, <1>8
<1>9. CASE a = 2
  BY <1>5, <1>9
<1>10. CASE a = 3
  BY <1>5, <1>10
<1>11. QED
  BY <1>6, <1>7, <1>8, <1>9, <1>10

LEMMA ReadBefore ==
    ASSUME NEW d, NEW e, NEW w, NEW o \in Int, \A x \in Int : x < o => SameAt(d, e, w, x)
    PROVE  /\ \A x \in Int : x + 4 <= o => U32(e, w, x) = U32(d, w, x)
           /\ \A i, f \in Int : f <= o /\ IsCString(d, w, i, f) => IsCString(e, w, i, f)
           /\ \A i, f \in Int : f <= o /\ IsString(d, w, i, f) => IsString(e, w, i, f)
<1>1. ASSUME NEW x \in Int, x + 4 <= o PROVE U32(e, w, x) = U32(d, w, x)
  <2>1. /\ At(e, w, x) = At(d, w, x) /\ At(e, w, x + 1) = At(d, w, x + 1)
        /\ At(e, w, x + 2) = At(d, w, x + 2) /\ At(e, w, x + 3) = At(d, w, x + 3)
    <3>1. /\ x + 1 \in Int /\ x + 2 \in Int /\ x + 3 \in Int
          /\ x < o /\ x + 1 < o /\ x + 2 < o /\ x + 3 < o
      BY <1>1
    <3>2. QED
      BY <3>1 DEF SameAt
  <2>2. QED
    BY <2>1, SMT DEF U32
<1>2. ASSUME NEW i \in Int, NEW f \in Int, f <= o, IsCString(d, w, i, f)
      PROVE  IsCString(e, w, i, f)
  <2>1. \A j \in i .. f - 1 : At(e, w, j) = At(d, w, j)
    BY <1>2 DEF SameAt
  <2>2. QED
    BY <1>2, <2>1 DEF IsCString
<1>3. ASSUME NEW i \in Int, NEW f \in Int, f <= o, IsString(d, w, i, f)
      PROVE  IsString(e, w, i, f)
  <2>1. f > i + 4 /\ U32(d, w, i) = f - i - 4 /\ At(d, w, f - 1) = 0
    BY <1>3 DEF IsString
  <2>2. f - 1 \in Int /\ f - 1 < o /\ i + 4 <= o
    BY <1>3, <2>1
  <2>3. At(e, w, f - 1) = At(d, w, f - 1) /\ U32(e, w, i) = U32(d, w, i)
    BY <1>1, <2>2 DEF SameAt
  <2>4. QED
    BY <2>1, <2>3 DEF IsString
<1>4. QED
  BY <1>1, <1>2, <1>3

LEMMA ValueBefore ==
    ASSUME NEW d \in Seq(0 .. 255), NEW e, NEW w, NEW t, NEW k \in Nat, NEW o \in Int,
           NEW f \in Int, k <= f, f <= o, \A x \in Int : x < o => SameAt(d, e, w, x),
           IsValue(d, w, t, k, f), t \in {DOCUMENT, ARRAY} => k + 4 <= f
    PROVE  IsValue(e, w, t, k, f)
<1> DEFINE Front ==
        /\ \A x \in Int : x + 4 <= o => U32(e, w, x) = U32(d, w, x)
        /\ \A i, x \in Int : x <= o /\ IsCString(d, w, i, x) => IsCString(e, w, i, x)
        /\ \A i, x \in Int : x <= o /\ IsString(d, w, i, x) => IsString(e, w, i, x)
<1>0. Front
  BY ReadBefore
<1>1. /\ \A x \in Int : x + 4 <= o => U32(e, w, x) = U32(d, w, x)
      /\ \A x \in Int : x < o => At(e, w, x) = At(d, w, x)
      /\ U32(d, w, k) \in Nat
  BY <1>0, U32Type DEF SameAt
<1>2. CASE t \in Sized
  BY <1>2, TypesApart DEF IsValue
<1>3. CASE t = BOOL
  <2>1. f = k + 1 /\ At(d, w, k) \in {0, 1}
    BY <1>3, TypesApart DEF IsValue
  <2>2. k < o
    BY <2>1
  <2>3. QED
    BY <1>1, <1>3, <2>1, <2>2 DEF IsValue
<1>4. CASE t \in Strings
  <2>1. IsString(d, w, k, f)
    BY <1>4, TypesApart DEF IsValue
  <2>2. QED
    BY <1>0, <1>4, <2>1 DEF IsValue
<1>5. CASE t \in {DOCUMENT, ARRAY}
  <2>1. k + 4 < w.len /\ U32(d, w, k) = f - k
    BY <1>5, TypesApart DEF IsValue
  <2>2. k + 4 <= o
    BY <1>5
  <2>3. QED
    BY <1>1, <1>5, <2>1, <2>2 DEF IsValue
<1>6. CASE t = BINARY
  <2>1. /\ U32(d, w, k) = f - k - 5
        /\ \/ At(d, w, k + 4) # SUBTYPE_BINARY_DEPRECATED
           \/ f >= k + 9 /\ U32(d, w, k + 5) = f - k - 9
    BY <1>6, TypesApart DEF IsValue
  <2>2. k + 5 <= f
    BY <1>1, <2>1
  <2>3. U32(e, w, k) = U32(d, w, k) /\ At(e, w, k + 4) = At(d, w, k + 4)
    BY <1>1, <2>2
  <2>4. f >= k + 9 => U32(e, w, k + 5) = U32(d, w, k + 5)
    BY <1>1
  <2>5. QED
    BY <1>6, <2>1, <2>3, <2>4 DEF IsValue
<1>7. CASE t = REGEX
  <2>1. PICK m \in k .. f : IsCString(d, w, k, m) /\ IsCString(d, w, m, f)
    BY <1>7, TypesApart DEF IsValue
  <2>2. m \in Int /\ m <= o
    BY <2>1
  <2>3. IsCString(e, w, k, m) /\ IsCString(e, w, m, f)
    BY <1>0, <2>1, <2>2
  <2>4. QED
    BY <1>7, <2>1, <2>3 DEF IsValue
<1>8. CASE t = DBPOINTER
  <2>1. IsString(d, w, k, f - 12)
    BY <1>8, TypesApart DEF IsValue
  <2>2. f - 12 \in Int /\ f - 12 <= o
    OBVIOUS
  <2>3. QED
    BY <1>0, <1>8, <2>1, <2>2 DEF IsValue
<1>9. CASE t = CODEWSCOPE
  <2>1. PICK m \in k + 9 .. f - 5 : U32(d, w, k + 4) = m - k - 8 /\ U32(d, w, m) = f - m
    BY <1>9, TypesApart DEF IsValue
  <2>2. U32(d, w, k) = f - k
    BY <1>9, TypesApart DEF IsValue
  <2>3. m \in Int /\ m + 4 <= o /\ k + 4 \in Int /\ k + 4 + 4 <= o /\ k + 4 <= o
    BY <2>1
  <2>4. /\ U32(e, w, m) = U32(d, w, m) /\ U32(e, w, k + 4) = U32(d, w, k + 4)
        /\ U32(e, w, k) = U32(d, w, k)
    BY <1>1, <2>3
  <2>5. QED
    BY <1>9, <2>1, <2>2, <2>4 DEF IsValue
<1>10. QED
  BY <1>2, <1>3, <1>4, <1>5, <1>6, <1>7, <1>8, <1>9 DEF IsValue

LEMMA EndBefore ==
    ASSUME NEW d \in Seq(0 .. 255), NEW e, NEW w \in Window, NEW k \in Nat, NEW o \in Int,
           NEW f \in ElementEnds(d, w, k), f <= o, ElementEnds(d, w, f) # {},
           \A x \in Int : x < o => SameAt(d, e, w, x)
    PROVE  f \in ElementEnds(e, w, k)
<1> DEFINE t == At(d, w, k)
<1>1. PICK v \in k + 2 .. w.len : /\ IsCString(d, w, k + 1, v)
                                  /\ f \in v .. w.len /\ f < w.len
                                  /\ IsValue(d, w, t, v, f)
  BY InElementEnds
<1>2. v \in Nat /\ f \in Nat /\ v <= f /\ w.len \in Nat /\ k + 2 <= v
  BY <1>1 DEF Window
<1>3. At(e, w, k) = t
  BY <1>2 DEF SameAt
<1>4. IsCString(e, w, k + 1, v)
  <2>1. k + 1 \in Int /\ v \in Int /\ v <= o
    BY <1>2
  <2>2. QED
    BY <1>1, <2>1, ReadBefore
<1>5. ASSUME t \in {DOCUMENT, ARRAY} PROVE v + 4 <= f
  <2>1. U32(d, w, v) = f - v
    BY <1>1, <1>5, TypesApart DEF IsValue
  <2>2. SUFFICES ASSUME U32(d, w, v) < 4 PROVE FALSE
    BY <1>2, <2>1
  <2>3. At(d, w, f) = 0
    <3>1. v + U32(d, w, v) = f
      BY <1>2, <2>1
    <3>2. QED
      BY <1>2, <2>2, <3>1, ShortLength
  <2>4. PICK g \in ElementEnds(d, w, f) : TRUE
    OBVIOUS
  <2>5. \E i : IsValue(d, w, 0, i, g)
    BY <2>3, <2>4, InElementEnds
  <2>6. QED
    BY <2>5 DEF IsValue, Sized, Empty, Wide, Strings, DOUBLE, UTF8, DOCUMENT, ARRAY, BINARY,
       UNDEFINED, OID, BOOL, DATE_TIME, NULL, REGEX, DBPOINTER, CODE, SYMBOL, CODEWSCOPE,
       INT32, TIMESTAMP, INT64, DECIMAL128, MAXKEY, MINKEY
<1>6. IsValue(e, w, t, v, f)
  <2> HIDE DEF t
  <2>1. v \in Nat /\ f \in Int /\ v <= f /\ f <= o /\ IsValue(d, w, t, v, f)
    BY <1>1, <1>2
  <2>2. QED
    BY <1>5, <2>1, ValueBefore
<1>7. QED
  BY <1>1, <1>3, <1>4, <1>6, InElementEnds

-----------------------------------------------------------------------------
(* An iterator is at one of the elements of its window.                    *)
Listed(d, s, w) ==
    \A i \in 1 .. Len(s) : OnElement(s[i]) => s[i].off \in ElementsFrom(d, w[i])[4]

(* Overwriting writes between the fields d1 and next_off of the iterator.  *)
LEMMA OverwriteBytes ==
    ASSUME IInv, bson_iter_overwrite
    PROVE  LET it == iters[Top] IN
           /\ it \in Iterator /\ it.raw \in Nat /\ it.d1 \in Nat /\ it.d1 >= it.off + 2
           /\ it.d1 <= it.next_off /\ Parsed(data, it) /\ Valid(data, it, windows[Top])
           /\ DOMAIN data' = DOMAIN data
           /\ \A p \in DOMAIN data : p <= it.raw + it.d1 \/ p > it.raw + it.next_off
                                        => data'[p] = data[p]
<1> DEFINE it == iters[Top]
           t == Type(it)
<1>1. it.raw # None /\ it.off > 0 /\ t \in Overwritable \cup {BOOL}
  BY DEF bson_iter_overwrite, OnElement
<1>2. it \in Iterator /\ Valid(data, it, windows[Top])
  BY <1>1 DEF IInv, Stack, Top
<1>3. it.raw \in Nat /\ it.off \in Nat /\ it.next_off \in Nat /\ Parsed(data, it)
  BY <1>1, <1>2 DEF Iterator, Valid, Fresh
<1>4. PICK o \in it.off + 2 .. it.len : Fields(data, it, t, o)
  BY <1>3 DEF Parsed, Type
<1>5. o \in Nat /\ o >= it.off + 2
  BY <1>2, <1>3, <1>4 DEF Iterator
<1>6. PICK bytes, n :
         /\ data' = Overwritten(it, bytes) /\ DOMAIN bytes \subseteq 0 .. n - 1 /\ n \in Nat
         /\ it.d1 = o /\ it.next_off = o + n
  <2>1. CASE t \in Overwritable
    <3>1. t # BOOL
      BY <2>1 DEF Overwritable, INT32, INT64, DOUBLE, DECIMAL128, BOOL
    <3>2. t \in Sized /\ t \notin Empty
      BY <2>1 DEF Overwritable, Sized, Empty, Wide, INT32, INT64, DOUBLE, DECIMAL128, NULL,
         UNDEFINED, MAXKEY, MINKEY
    <3>3. it.d1 = o /\ it.next_off = o + SizeOf[t] /\ SizeOf[t] \in Nat
      BY <1>4, <3>2, SizeFacts DEF Fields, SizedFields
    <3>4. PICK b \in Fill : data' = Overwritten(it, [i \in 0 .. Width(it) - 1 |-> b])
      BY <3>1 DEF bson_iter_overwrite
    <3>5. Width(it) = SizeOf[t]
      BY DEF Width
    <3>6. DOMAIN [i \in 0 .. Width(it) - 1 |-> b] = 0 .. SizeOf[t] - 1
      BY <3>5
    <3>7. QED
      BY <3>3, <3>4, <3>6
  <2>2. CASE t = BOOL
    <3>1. t \notin Overwritable
      BY <2>2 DEF Overwritable, INT32, INT64, DOUBLE, DECIMAL128, BOOL
    <3>2. PICK b \in {0, 1} : data' = Overwritten(it, [i \in {0} |-> b])
      BY <3>1 DEF bson_iter_overwrite
    <3>3. it.d1 = o /\ it.next_off = o + 1
      BY <1>4, <2>2 DEF Fields, BoolFields
    <3>4. DOMAIN [i \in {0} |-> b] \subseteq 0 .. 1 - 1
      OBVIOUS
    <3>5. QED
      BY <3>2, <3>3, <3>4
  <2>3. QED
    BY <1>1, <2>1, <2>2
<1>7. DOMAIN data' = DOMAIN data
  BY <1>6 DEF Overwritten
<1>8. ASSUME NEW p \in DOMAIN data, p <= it.raw + it.d1 \/ p > it.raw + it.next_off
      PROVE  data'[p] = data[p]
  <2> DEFINE i == p - 1 - it.raw - it.d1
  <2>1. data'[p] = IF i \in DOMAIN bytes THEN bytes[i] ELSE data[p]
    BY <1>6 DEF Overwritten
  <2>2. p \in Int
    BY DEF IInv
  <2>3. i \notin 0 .. n - 1
    <3> DEFINE raw == it.raw
               d1 == it.d1
               next == it.next_off
    <3>1. raw \in Nat /\ d1 \in Nat /\ next = d1 + n /\ n \in Nat
          /\ (p <= raw + d1 \/ p > raw + next)
      BY <1>3, <1>5, <1>6, <1>8
    <3> HIDE DEF raw, d1, next
    <3>2. p - 1 - raw - d1 \notin 0 .. n - 1
      BY <2>2, <3>1
    <3>3. QED
      BY <3>2 DEF raw, d1
  <2>4. QED
    BY <1>6, <2>1, <2>3
<1>9. it.d1 \in Nat /\ it.d1 >= it.off + 2 /\ it.d1 <= it.next_off
  BY <1>5, <1>6
<1>10. QED
  BY <1>2, <1>3, <1>7, <1>8, <1>9

(* So of every document around it stays what is in front of the element    *)
(* its iterator is at, and what is behind it.                              *)
LEMMA OverwriteInside ==
    ASSUME IInv, bson_iter_overwrite, NEW i \in 1 .. Top
    PROVE  LET it == iters[i]
               w == windows[i]
           IN  /\ OnElement(it) /\ w \in Window
               /\ \A x \in Int : x < it.off \/ x >= it.next_off => SameAt(data, data', w, x)
<1> DEFINE it == iters[i]
           w == windows[i]
           top == iters[Top]
<1>1. /\ top \in Iterator /\ top.raw \in Nat /\ top.d1 \in Nat /\ top.d1 >= top.off + 2
      /\ top.d1 <= top.next_off /\ Parsed(data, top) /\ Valid(data, top, windows[Top])
  BY OverwriteBytes
<1>2. /\ DOMAIN data' = DOMAIN data
      /\ \A p \in DOMAIN data : p <= top.raw + top.d1 \/ p > top.raw + top.next_off
                                   => data'[p] = data[p]
  BY OverwriteBytes
<1>3. /\ Top \in Nat /\ it \in Iterator /\ w \in Window /\ windows[Top] \in Window
      /\ data \in Seq(0 .. 255)
  BY DEF IInv, Stack, Top
<1>4. OnElement(it) /\ it.raw = w.raw /\ it.raw \in Nat /\ it.off \in Nat
      /\ it.next_off \in Nat
  <2>1. CASE i = Top
    <3>1. OnElement(it)
      BY <2>1 DEF bson_iter_overwrite
    <3>2. QED
      BY <1>1, <1>3, <2>1, <3>1 DEF Valid, Iterator
  <2>2. CASE i # Top
    <3>1. i < Top /\ Top \in 1 .. Top
      BY <1>3, <2>2
    <3>2. Holds(data, it, windows[Top])
      BY <3>1 DEF IInv, Stack, Top
    <3>3. OnElement(it)
      BY <3>2 DEF Holds, OnElement
    <3>4. Valid(data, it, w)
      BY <3>3 DEF IInv, Stack, Top, OnElement
    <3>5. QED
      BY <1>3, <3>3, <3>4 DEF Valid, Iterator, OnElement
  <2>3. QED
    BY <2>1, <2>2
<1>5. /\ w.raw + it.off + 2 <= top.raw + top.d1
      /\ top.raw + top.next_off <= w.raw + it.next_off
  <2>1. CASE i = Top
    BY SMTT(30), <1>1, <1>3, <1>4, <2>1 DEF Iterator
  <2>2. CASE i # Top
    <3>1. i < Top /\ Top \in 1 .. Top
      BY <1>3, <2>2
    <3>2. Holds(data, it, windows[Top])
      BY <3>1 DEF IInv, Stack, Top
    <3>3. Valid(data, it, w)
      BY <1>4 DEF IInv, Stack, Top, OnElement
    <3>4. Parsed(data, it)
      BY <1>4, <3>3 DEF Valid, Fresh, OnElement
    <3>5. it.d1 \in Nat /\ it.d1 >= it.off + 2
      BY <1>3, <3>2, <3>4, ParsedDocument DEF Holds
    <3>6. /\ it.raw + it.d1 <= windows[Top].raw
          /\ windows[Top].raw + windows[Top].len <= it.raw + it.next_off
      BY <3>2 DEF Holds
    <3>7. /\ top.raw = windows[Top].raw /\ top.len = windows[Top].len
          /\ top.next_off < top.len
      BY <1>1 DEF Valid, Parsed
    <3> DEFINE a == w.raw
               b == it.off
               c == it.d1
               n == it.next_off
               r == top.raw
               l == top.len
               m == top.next_off
               u == top.d1
    <3>8. /\ a \in Nat /\ b \in Nat /\ c \in Nat /\ n \in Nat /\ r \in Nat /\ l \in Nat
          /\ m \in Nat /\ u \in Nat /\ c >= b + 2 /\ a + c <= r /\ r + l <= a + n /\ m < l
      BY <1>1, <1>3, <1>4, <3>5, <3>6, <3>7 DEF Iterator
    <3> HIDE DEF a, b, c, n, r, l, m, u
    <3>9. a + b + 2 <= r + u /\ r + m <= a + n
      BY <3>8
    <3>10. QED
      BY <3>9 DEF a, b, c, n, r, l, m, u
  <2>3. QED
    BY <2>1, <2>2
<1>6. ASSUME NEW x \in Int, x < it.off \/ x >= it.next_off
      PROVE  SameAt(data, data', w, x)
  <2> DEFINE p == w.raw + x + 1
  <2>1. ASSUME p \in DOMAIN data PROVE data'[p] = data[p]
    <3> DEFINE a == w.raw
               b == it.off
               n == it.next_off
               q == top.raw + top.d1
               s == top.raw + top.next_off
    <3>1. /\ a \in Nat /\ b \in Nat /\ n \in Nat /\ q \in Nat /\ s \in Nat
          /\ a + b + 2 <= q /\ s <= a + n /\ (x < b \/ x >= n)
      <4>1. w.raw \in Nat /\ top.next_off \in Nat
        BY <1>1, <1>3 DEF Iterator, Window
      <4>2. q \in Nat /\ s \in Nat
        BY <1>1, <4>1
      <4>3. QED
        BY <1>4, <1>5, <1>6, <4>1, <4>2
    <3> HIDE DEF a, b, n, q, s
    <3>2. a + x + 1 <= q \/ a + x + 1 > s
      BY <3>1
    <3>3. p <= q \/ p > s
      BY <3>2 DEF a
    <3>4. QED
      BY <1>2, <2>1, <3>3 DEF q, s
  <2>2. QED
    BY <1>2, <2>1 DEF SameAt, At
<1>7. QED
  BY <1>3, <1>4, <1>6

LEMMA OverwriteElements ==
    ASSUME IInv, Listed(data, iters, windows), bson_iter_overwrite, NEW i \in 1 .. Top
    PROVE  ElementsFrom(data', windows[i])[4] = ElementsFrom(data, windows[i])[4]
<1> DEFINE w == windows[i]
           o == iters[i].off
           n == iters[i].next_off
           d == data
           e == data'
<1>1. /\ OnElement(iters[i]) /\ w \in Window /\ w.len \in Nat
      /\ \A x \in Int : x < o \/ x >= n => SameAt(d, e, w, x)
  BY OverwriteInside DEF Window
<1>2. iters' = iters /\ windows' = windows
  BY DEF bson_iter_overwrite
<1>3. IInv'
  BY OverwriteIInv
<1>4. AtElement /\ AtElement'
  BY <1>3, IInvConsequences, PTL
<1>5. n \in ElementEnds(d, w, o) /\ n \in ElementEnds(e, w, o)
  <2>1. iters[i].raw # None
    BY <1>1 DEF OnElement
  <2>2. n \in ElementEnds(d, w, o)
    BY <1>1, <1>4, <2>1 DEF AtElement
  <2>3. n \in ElementEnds(e, w, o)
    BY <1>1, <1>2, <1>4, <2>1 DEF AtElement, Top, OnElement
  <2>4. QED
    BY <2>2, <2>3
<1>6. d \in Seq(0 .. 255) /\ e \in Seq(0 .. 255) /\ o \in Nat
  <2>1. d \in Seq(0 .. 255) /\ e \in Seq(0 .. 255)
    BY <1>3 DEF IInv
  <2>2. iters[i] \in Iterator
    BY DEF IInv, Stack, Top
  <2>3. QED
    BY <2>1, <2>2 DEF Iterator
<1>7. o \in ElementsFrom(d, w)[4]
  BY <1>1 DEF Listed, Top
<1> HIDE DEF w, o, n, d, e
<1>8. n \in Nat
  BY <1>1, <1>5, <1>6, ElementEndsOnce
<1>9. ASSUME NEW k \in Nat, k >= n PROVE ElementEnds(e, w, k) = ElementEnds(d, w, k)
  <2>1. \A x \in Int : x >= k => SameAt(d, e, w, x)
    BY <1>1, <1>8, <1>9
  <2>2. QED
    BY <1>1, <2>1, EndsBehind
<1>10. ASSUME NEW k \in Nat, NEW x \in ElementEnds(d, w, k), x <= o,
              ElementEnds(d, w, x) # {}
       PROVE  x \in ElementEnds(e, w, k)
  <2>1. o \in Int /\ \A y \in Int : y < o => SameAt(d, e, w, y)
    BY <1>1, <1>6
  <2>2. QED
    BY <1>1, <1>6, <1>10, <2>1, EndBefore
<1>11. SameEnds(d, e, w, n) /\ EndsKept(d, e, w, o)
  BY <1>9, <1>10 DEF SameEnds, EndsKept
<1>12. \A j \in Nat : o \in ElementsFrom(d, w)[j]
                         => ElementsFrom(e, w)[j] = ElementsFrom(d, w)[j]
  BY <1>1, <1>5, <1>6, <1>11, SameThrough
<1>13. ElementsFrom(e, w)[4] = ElementsFrom(d, w)[4]
  BY <1>7, <1>12
<1>14. QED
  BY <1>13 DEF w, d, e

(* The first element is one, and so is the one behind one.                 *)
LEMMA AdvanceGoes ==
    ASSUME NEW it, it.raw # None, NEW to \in Advance(it)
    PROVE  to.off = it.next_off
<1>1. \A err : Invalid(it, err).off = it.next_off
  BY DEF Invalid, Initial
<1>2. CASE Nuls(it, it.next_off + 1) = {}
  BY <1>1, <1>2 DEF Advance
<1>3. CASE Nuls(it, it.next_off + 1) # {}
  <2>1. \E v : to = Positioned(it, v)
    BY <1>3 DEF Advance
  <2>2. PICK v : to = Positioned(it, v)
    BY <2>1
  <2>3. CASE v.ok /\ v.next_off < it.len
    <3>1. to = [it EXCEPT !.off = it.next_off, !.next_off = v.next_off, !.err_off = 0,
                          !.d1 = v.d1, !.d2 = v.d2, !.d3 = v.d3, !.d4 = v.d4]
      BY <2>2, <2>3 DEF Positioned
    <3>2. QED
      BY <3>1
  <2>4. CASE ~(v.ok /\ v.next_off < it.len)
    BY <1>1, <2>2, <2>4 DEF Positioned
  <2>5. QED
    BY <2>3, <2>4
<1>4. QED
  BY <1>2, <1>3

LEMMA AdvanceListed ==
    ASSUME data \in Seq(0 .. 255), NEW it \in Iterator, NEW w \in Window,
           it.raw # None, Valid(data, it, w),
           OnElement(it) => it.off \in ElementsFrom(data, w)[4],
           NEW to \in Advance(it), to.raw # None
    PROVE  to.off \in ElementsFrom(data, w)[4]
<1> DEFINE o == it.next_off
<1>1. /\ to \in Iterator /\ Valid(data, to, w) /\ Parsed(data, to) /\ to.off = o
      /\ w.len \in Nat
  BY AdvanceFacts, AdvanceGoes DEF Window
<1>2. ElementEnds(data, w, o) # {}
  <2>1. to.next_off \in ElementEnds(data, w, to.off)
    BY <1>1, ParsedIsElement DEF Valid
  <2>2. QED
    BY <1>1, <2>1
<1>3. CASE Fresh(it)
  <2>1. o = 4
    BY <1>3 DEF Fresh
  <2>2. PICK e \in ElementEnds(data, w, 4) : TRUE
    BY <1>2, <2>1
  <2>3. ElementsFrom(data, w)[4] = {4} \cup ElementsFrom(data, w)[e]
    <3>1. 4 \in Nat
      OBVIOUS
    <3>2. QED
      BY <1>1, <2>2, <3>1, FromSteps
  <2>4. QED
    BY <1>1, <2>1, <2>3
<1>4. CASE Parsed(data, it)
  <2>1. it.off \in Nat /\ OnElement(it)
    BY <1>4 DEF Iterator, Parsed, OnElement
  <2>2. o \in ElementEnds(data, w, it.off)
    BY <1>4, ParsedIsElement DEF Valid
  <2>3. it.off \in ElementsFrom(data, w)[4]
    BY <2>1
  <2> HIDE DEF o
  <2>4. o \in ElementsFrom(data, w)[4]
    <3>1. 4 \in Nat
      OBVIOUS
    <3>2. QED
      BY <1>1, <1>2, <2>2, <2>3, <3>1, FromNext
  <2>5. QED
    BY <1>1, <2>4
<1>5. QED
  BY <1>3, <1>4 DEF Valid

LEMMA PushListed ==
    ASSUME NEW s \in Seq(Iterator), NEW w \in Seq(Window), Len(w) = Len(s),
           NEW c, NEW v, Listed(data, s, w), c.off = 0
    PROVE  Listed(data, Append(s, c), Append(w, v))
<1>1. /\ Len(Append(s, c)) = Len(s) + 1
      /\ \A i \in 1 .. Len(s) : Append(s, c)[i] = s[i] /\ Append(w, v)[i] = w[i]
      /\ Append(s, c)[Len(s) + 1] = c
  OBVIOUS
<1>2. ~OnElement(c)
  BY DEF OnElement
<1>3. QED
  BY <1>1, <1>2 DEF Listed

LEMMA BottomListed ==
    ASSUME NEW s \in Seq(Iterator), NEW w \in Seq(Window), Len(w) = Len(s),
           NEW b \in 1 .. Len(s), Listed(data, s, w)
    PROVE  Listed(data, SubSeq(s, 1, b), SubSeq(w, 1, b))
<1>1. /\ Len(SubSeq(s, 1, b)) = b
      /\ \A i \in 1 .. b : SubSeq(s, 1, b)[i] = s[i] /\ SubSeq(w, 1, b)[i] = w[i]
  OBVIOUS
<1>2. \A i \in 1 .. b : i \in 1 .. Len(s)
  OBVIOUS
<1>3. QED
  BY <1>1, <1>2 DEF Listed

LEMMA LastListed ==
    ASSUME NEW s \in Seq(Iterator), NEW w \in Seq(Window), Len(w) = Len(s),
           NEW b \in 1 .. Len(s), Listed(data, s, w)
    PROVE  Listed(data, Append(SubSeq(s, 1, b), s[Len(s)]), Append(SubSeq(w, 1, b), w[Len(w)]))
<1> DEFINE n == Len(s)
           r == SubSeq(s, 1, b)
           v == SubSeq(w, 1, b)
<1>1. /\ r \in Seq(Iterator) /\ v \in Seq(Window) /\ Len(r) = b /\ Len(v) = b
      /\ \A i \in 1 .. b : r[i] = s[i] /\ v[i] = w[i]
  OBVIOUS
<1>2. n \in 1 .. n /\ \A i \in 1 .. b : i \in 1 .. n
  OBVIOUS
<1> HIDE DEF r, v
<1>3. /\ Len(Append(r, s[n])) = b + 1
      /\ \A i \in 1 .. b : Append(r, s[n])[i] = s[i] /\ Append(v, w[Len(w)])[i] = w[i]
      /\ Append(r, s[n])[b + 1] = s[n] /\ Append(v, w[Len(w)])[b + 1] = w[n]
  BY <1>1
<1>4. QED
  BY <1>2, <1>3 DEF Listed, r, v

LEMMA FinishedListed ==
    ASSUME Calling, call # Idle, NEW s \in Seq(Iterator), NEW w \in Seq(Window),
           Len(w) = Len(s), Len(s) = Len(iters), NEW ret \in BOOLEAN,
           Listed(data, s, w), Finished(s, w, ret)
    PROVE  Listed(data', iters', windows')
<1>1. /\ iters' = Kept(s, ret) /\ windows' = Kept(w, ret) /\ data' = data
      /\ call.base \in 1 .. Len(s)
  BY DEF Finished, Calling
<1>2. CASE ret /\ Len(s) > call.base
  <2>1. /\ Kept(s, ret) = Append(SubSeq(s, 1, call.base), s[Len(s)])
        /\ Kept(w, ret) = Append(SubSeq(w, 1, call.base), w[Len(w)])
    BY <1>2 DEF Kept
  <2>2. QED
    BY <1>1, <2>1, LastListed
<1>3. CASE ~(ret /\ Len(s) > call.base)
  <2>1. /\ Kept(s, ret) = SubSeq(s, 1, call.base)
        /\ Kept(w, ret) = SubSeq(w, 1, call.base)
    BY <1>3 DEF Kept
  <2>2. QED
    BY <1>1, <2>1, BottomListed
<1>4. QED
  BY <1>2, <1>3

(* bson_iter_next, of the caller or of the loop of a find.                 *)
LEMMA AdvancedStack ==
    ASSUME IInv, Listed(data, iters, windows), NEW it \in Advance(iters[Top])
    PROVE  LET s == Replaced(Top, it) IN
           /\ Stack(data, s, windows) /\ Listed(data, s, windows)
           /\ s \in Seq(Iterator) /\ windows \in Seq(Window)
           /\ Len(windows) = Len(s) /\ Len(s) = Top /\ s[Top] = it
<1> DEFINE s == Replaced(Top, it)
           top == iters[Top]
           w == windows[Top]
<1>1. /\ data \in Seq(0 .. 255) /\ Stack(data, iters, windows) /\ Top \in Nat /\ Top >= 1
      /\ iters \in Seq(Iterator) /\ windows \in Seq(Window) /\ Len(windows) = Top
      /\ top \in Iterator /\ w \in Window
  BY DEF IInv, Stack, Top
<1>2. CASE top.raw = None
  <2>1. it = top
    BY <1>2 DEF Advance
  <2>2. s = iters
    BY <1>1, <2>1 DEF Replaced, Top
  <2>3. QED
    BY <1>1, <2>1, <2>2 DEF Top
<1>3. CASE top.raw # None
  <2>1. Valid(data, top, w)
    BY <1>1, <1>3 DEF Stack, Top
  <2>2. /\ it \in Iterator
        /\ it.raw # None => Valid(data, it, w)
        /\ it.raw = None => Stopped(data, it, w)
    BY <1>1, <1>3, <2>1, AdvanceFacts
  <2>3. Stack(data, s, windows)
    BY <1>1, <2>2, ReplaceTop DEF Replaced, Top
  <2>4. /\ s \in Seq(Iterator) /\ Len(s) = Top /\ s[Top] = it
        /\ \A i \in 1 .. Top : i # Top => s[i] = iters[i]
    BY <1>1, <2>2 DEF Replaced, Top
  <2>5. OnElement(it) => it.off \in ElementsFrom(data, w)[4]
    <3>1. OnElement(top) => top.off \in ElementsFrom(data, w)[4]
      BY <1>1 DEF Listed, Top
    <3>2. QED
      BY <1>1, <1>3, <2>1, <3>1, AdvanceListed DEF OnElement
  <2> HIDE DEF s
  <2>6. Listed(data, s, windows)
    <3>1. SUFFICES ASSUME NEW i \in 1 .. Top, OnElement(s[i])
                   PROVE  s[i].off \in ElementsFrom(data, windows[i])[4]
      BY <2>4 DEF Listed
    <3>2. QED
      BY <2>4, <2>5, <3>1 DEF Listed, Top
  <2>7. QED
    BY <1>1, <2>3, <2>4, <2>6 DEF s
<1>4. QED
  BY <1>2, <1>3

LEMMA FindNextListed ==
    ASSUME IInv, Listed(data, iters, windows), FindNext
    PROVE  Listed(data', iters', windows')
<1>1. PICK it \in Advance(iters[Top]) :
         LET here == SameKey(it, it.off, Head(call.path), call.kind)
             s    == Replaced(Top, it)
         IN
         \/ it.raw = None /\ Finished(s, windows, FALSE)
         \/ /\ it.raw # None /\ ~here
            /\ iters' = s
            /\ UNCHANGED <<data, windows, call, found>>
         \/ it.raw # None /\ here /\ Len(call.path) = 1 /\ Finished(s, windows, TRUE)
         \/ /\ it.raw # None /\ here /\ Len(call.path) > 1 /\ ~Recursible(it)
            /\ Finished(s, windows, FALSE)
         \/ /\ it.raw # None /\ here /\ Len(call.path) > 1 /\ Recursible(it)
            /\ LET w == ChildWindow(it) IN
               /\ iters' = Recursed(s, w)
               /\ windows' = Append(windows, w)
            /\ call' = [call EXCEPT !.path = Tail(@)]
            /\ UNCHANGED <<data, found>>
  BY DEF FindNext
<1> DEFINE s == Replaced(Top, it)
<1>2. call # Idle /\ Calling
  BY DEF FindNext, IInv
<1>3. /\ Stack(data, s, windows) /\ Listed(data, s, windows)
      /\ s \in Seq(Iterator) /\ windows \in Seq(Window)
      /\ Len(windows) = Len(s) /\ Len(s) = Len(iters)
  BY AdvancedStack DEF Top
<1> HIDE DEF s
<1>4. CASE \E ret \in BOOLEAN : Finished(s, windows, ret)
  BY <1>2, <1>3, <1>4, FinishedListed
<1>5. CASE iters' = s /\ UNCHANGED <<data, windows, call, found>>
  BY <1>3, <1>5
<1>6. CASE /\ iters' = Recursed(s, ChildWindow(it))
           /\ windows' = Append(windows, ChildWindow(it)) /\ data' = data
  <2> DEFINE c == ChildWindow(it)
             i == Initial(c.raw, c.len)
  <2>1. i.off = 0 /\ iters' = Append(s, i) /\ windows' = Append(windows, c)
    BY <1>6 DEF Recursed, Initial
  <2> HIDE DEF c, i
  <2>2. QED
    BY <1>3, <1>6, <2>1, PushListed
<1>7. QED
  BY <1>1, <1>4, <1>5, <1>6 DEF s

LEMMA StepListed ==
    ASSUME IInv, Listed(data, iters, windows), [Next]_vars
    PROVE  Listed(data', iters', windows')
<1>1. /\ iters \in Seq(Iterator) /\ windows \in Seq(Window) /\ Len(windows) = Len(iters)
      /\ Top \in Nat /\ Top >= 1
  BY DEF IInv, Stack, Top
<1>2. CASE bson_iter_next
  <2>1. PICK it \in Advance(iters[Top]) : iters' = Replaced(Top, it)
    BY <1>2 DEF bson_iter_next
  <2>2. QED
    BY <1>2, <2>1, AdvancedStack DEF bson_iter_next
<1>3. CASE bson_iter_recurse
  <2> DEFINE c == ChildWindow(iters[Top])
             i == Initial(c.raw, c.len)
  <2>1. /\ i.off = 0 /\ iters' = Append(iters, i) /\ windows' = Append(windows, c)
        /\ data' = data
    BY <1>3 DEF bson_iter_recurse, Recursed, Initial
  <2> HIDE DEF c, i
  <2>2. QED
    BY <1>1, <2>1, PushListed
<1>4. CASE Return
  <2>1. /\ iters' = SubSeq(iters, 1, Top - 1) /\ windows' = SubSeq(windows, 1, Top - 1)
        /\ data' = data /\ Top - 1 \in 1 .. Len(iters)
    BY <1>1, <1>4 DEF Return, Top
  <2>2. QED
    BY <1>1, <2>1, BottomListed
<1>5. CASE bson_iter_overwrite
  <2>1. \A i \in 1 .. Top : ElementsFrom(data', windows[i])[4]
                               = ElementsFrom(data, windows[i])[4]
    BY <1>5, OverwriteElements
  <2>2. iters' = iters /\ windows' = windows
    BY <1>5 DEF bson_iter_overwrite
  <2>3. QED
    BY <2>1, <2>2 DEF Listed, Top
<1>6. CASE bson_iter_find \/ bson_iter_find_descendant \/ UNCHANGED vars
  BY <1>6 DEF bson_iter_find, bson_iter_find_descendant, Call, vars
<1>7. CASE FindNothing
  <2>1. Finished(iters, windows, FALSE) /\ call.kind = "descendant"
    BY <1>7 DEF FindNothing
  <2>2. Idle.kind # "descendant"
    BY DEF Idle
  <2>3. QED
    BY <1>1, <2>1, <2>2, FinishedListed DEF IInv
<1>8. CASE FindNext
  BY <1>8, FindNextListed
<1>9. QED
  BY <1>2, <1>3, <1>4, <1>5, <1>6, <1>7, <1>8 DEF Next, Find

LEMMA InitListed ==
    ASSUME Init
    PROVE  Listed(data, iters, windows)
<1>1. iters = <<Initial(0, Len(data))>>
  BY DEF Init
<1>2. Len(iters) = 1 /\ iters[1].off = 0
  BY <1>1 DEF Initial
<1>3. \A i \in 1 .. 1 : ~OnElement(iters[i])
  BY <1>2 DEF OnElement
<1>4. QED
  BY <1>2, <1>3 DEF Listed

LEMMA ListedAlways == Spec => [](IInv /\ Listed(data, iters, windows))
<1>1. Init => IInv /\ Listed(data, iters, windows)
  BY InitIInv, InitListed
<1>2. IInv /\ Listed(data, iters, windows) /\ [Next]_vars
         => (IInv /\ Listed(data, iters, windows))'
  BY StepIInv, StepListed
<1>3. QED
  BY <1>1, <1>2, PTL DEF Spec

(* Overwriting a value changes no element of any of the documents around   *)
(* it, at whichever depth: not where they are nor how many there are.      *)
THEOREM OverwritesInPlace == Spec => OverwriteInPlace
<1> DEFINE A == data' # data => \A i \in 1 .. Top : ElementsFrom(data', windows[i])[4]
                                                  = ElementsFrom(data, windows[i])[4]
<1>1. ASSUME IInv, Listed(data, iters, windows), [Next]_vars
      PROVE  [A]_vars
  <2>1. CASE bson_iter_overwrite
    BY <1>1, <2>1, OverwriteElements
  <2>2. CASE ~bson_iter_overwrite
    <3>1. data' = data
      BY <1>1, <2>2 DEF Next, bson_iter_next, bson_iter_recurse, Return, bson_iter_find,
         bson_iter_find_descendant, Call, Find, FindNothing, FindNext, Finished, vars
    <3>2. QED
      BY <3>1
  <2>3. QED
    BY <2>1, <2>2
<1>2. QED
  BY <1>1, ListedAlways, PTL DEF Spec, OverwriteInPlace

-----------------------------------------------------------------------------
(* Repeating a step, as often as one likes: the pairs that every set closed *)
(* under the step has are a function.                                      *)
IsStep(step, T) == step \in [Nat \X T -> T]

Iterates(f, T, a, step) ==
    /\ f \in [Nat -> T] /\ f[0] = a
    /\ \A n \in Nat : f[n + 1] = step[<<n, f[n]>>]

LEMMA Iteration ==
    ASSUME NEW T, NEW a \in T, NEW step, IsStep(step, T)
    PROVE  \E f : Iterates(f, T, a, step)
<1> USE DEF IsStep
<1> DEFINE Closed(S) == <<0, a>> \in S /\ \A p \in S : <<p[1] + 1, step[p]>> \in S
           G == {p \in Nat \X T : \A S \in SUBSET (Nat \X T) : Closed(S) => p \in S}
           Only(n) == \E t \in T : <<n, t>> \in G /\ \A u \in T : <<n, u>> \in G => u = t
<1>1. G \in SUBSET (Nat \X T) /\ Closed(G)
  <2>1. G \in SUBSET (Nat \X T)
    OBVIOUS
  <2>2. <<0, a>> \in G
    OBVIOUS
  <2>3. ASSUME NEW p \in G PROVE <<p[1] + 1, step[p]>> \in G
    <3>1. p \in Nat \X T
      OBVIOUS
    <3>2. step[p] \in T /\ p[1] + 1 \in Nat
      BY <3>1
    <3>3. <<p[1] + 1, step[p]>> \in Nat \X T
      BY <3>2
    <3>4. ASSUME NEW S \in SUBSET (Nat \X T), Closed(S) PROVE <<p[1] + 1, step[p]>> \in S
      BY <3>4
    <3>5. QED
      BY <3>3, <3>4
  <2>4. QED
    BY <2>1, <2>2, <2>3
<1>2. ASSUME NEW S \in SUBSET (Nat \X T), Closed(S) PROVE G \subseteq S
  BY <1>2
<1>3. Only(0)
  <2>1. ASSUME NEW u \in T, <<0, u>> \in G, u # a PROVE FALSE
    <3> DEFINE S == G \ {<<0, u>>}
    <3>1. <<0, a>> \in S
      BY <1>1, <2>1
    <3>2. ASSUME NEW p \in S PROVE <<p[1] + 1, step[p]>> \in S
      <4>1. p \in Nat \X T /\ <<p[1] + 1, step[p]>> \in G
        BY <1>1
      <4>2. p[1] + 1 # 0
        BY <4>1
      <4>3. QED
        BY <4>1, <4>2
    <3>3. S \in SUBSET (Nat \X T)
      BY <1>1
    <3>4. QED
      BY <1>2, <2>1, <3>1, <3>2, <3>3
  <2> HIDE DEF G
  <2>2. QED
    BY <1>1, <2>1
<1>4. ASSUME NEW n \in Nat, Only(n) PROVE Only(n + 1)
  <2>1. PICK t \in T : <<n, t>> \in G /\ \A u \in T : <<n, u>> \in G => u = t
    BY <1>4
  <2>2. <<n + 1, step[<<n, t>>]>> \in G /\ step[<<n, t>>] \in T
    BY <1>1, <2>1
  <2>3. ASSUME NEW u \in T, <<n + 1, u>> \in G, u # step[<<n, t>>] PROVE FALSE
    <3> DEFINE S == G \ {<<n + 1, u>>}
    <3>1. <<0, a>> \in S
      BY <1>1
    <3>2. ASSUME NEW p \in S PROVE <<p[1] + 1, step[p]>> \in S
      <4>1. p \in Nat \X T /\ <<p[1] + 1, step[p]>> \in G
        BY <1>1
      <4>2. CASE p[1] = n
        <5>1. p[2] \in T /\ p = <<n, p[2]>> /\ p \in G
          BY <4>1, <4>2
        <5> HIDE DEF G
        <5>2. p[2] = t
          BY <2>1, <5>1
        <5>3. p = <<n, t>>
          BY <5>1, <5>2
        <5>4. step[p] # u
          BY <2>3, <5>3
        <5>5. QED
          BY <4>1, <5>4
      <4>3. CASE p[1] # n
        <5>1. p[1] + 1 # n + 1
          BY <4>1, <4>3
        <5>2. QED
          BY <4>1, <5>1
      <4>4. QED
        BY <4>2, <4>3
    <3>3. S \in SUBSET (Nat \X T)
      BY <1>1
    <3>4. QED
      BY <1>2, <2>3, <3>1, <3>2, <3>3
  <2> HIDE DEF G
  <2>4. QED
    BY <2>2, <2>3
<1> HIDE DEF G
<1>5. ASSUME NEW n \in Nat PROVE Only(n)
  <2> HIDE DEF Only
  <2> DEFINE Fails == {k \in Nat : ~Only(k)}
  <2>1. SUFFICES ASSUME Fails # {} PROVE FALSE
    OBVIOUS
  <2>2. Min(Fails) \in Fails /\ \A x \in Fails : Min(Fails) <= x
    BY <2>1, MinFacts
  <2> DEFINE m == Min(Fails)
  <2>3. m \in Nat /\ ~Only(m)
    BY <2>2
  <2> HIDE DEF m
  <2>4. m # 0
    BY <1>3, <2>3
  <2>5. m - 1 \in Nat /\ m - 1 < m /\ (m - 1) + 1 = m
    BY <2>3, <2>4
  <2>6. Only(m - 1)
    BY <2>2, <2>5 DEF m
  <2>7. QED
    BY <1>4, <2>3, <2>5, <2>6
<1> DEFINE f == [n \in Nat |-> CHOOSE t \in T : <<n, t>> \in G]
<1>6. ASSUME NEW n \in Nat PROVE f[n] \in T /\ <<n, f[n]>> \in G
  <2>1. \E t \in T : <<n, t>> \in G
    BY <1>5
  <2>2. QED
    BY <2>1
<1>7. ASSUME NEW n \in Nat, NEW t \in T, <<n, t>> \in G PROVE f[n] = t
  <2>1. PICK u \in T : \A v \in T : <<n, v>> \in G => v = u
    BY <1>5
  <2> HIDE DEF f
  <2>2. QED
    BY <1>6, <1>7, <2>1
<1>8. f \in [Nat -> T]
  <2>1. \A n \in Nat : f[n] \in T
    BY <1>6
  <2>2. QED
    BY <2>1
<1> HIDE DEF f
<1>9. f[0] = a
  BY <1>1, <1>7
<1>10. ASSUME NEW n \in Nat PROVE f[n + 1] = step[<<n, f[n]>>]
  <2>1. <<n, f[n]>> \in Nat \X T /\ <<n, f[n]>> \in G
    BY <1>6
  <2>2. <<n + 1, step[<<n, f[n]>>]>> \in G /\ step[<<n, f[n]>>] \in T /\ n + 1 \in Nat
    BY <1>1, <2>1
  <2>3. QED
    BY <1>7, <2>2
<1>11. Iterates(f, T, a, step)
  BY <1>8, <1>9, <1>10 DEF Iterates
<1>12. QED
  BY <1>11

-----------------------------------------------------------------------------
(* Looking for keys.  A place is a window and an offset in it, of which a  *)
(* search takes the first element with a key.  What Located is made of:    *)
Place == [raw : Nat, len : Nat, off : Nat]
Key   == Seq(1 .. 255)

KeyIn(d, w, i, key, kind) ==
    /\ IsCString(d, w, i + 1, i + 2 + Len(key))
    /\ \A j \in DOMAIN key :
          \/ At(d, w, i + j) = key[j]
          \/ kind = "find_case" /\ Lower(At(d, w, i + j)) = Lower(key[j])

With(d, w, key, kind) == {i \in ElementsFrom(d, w)[w.off] : KeyIn(d, w, i, key, kind)}

First(d, s, key, kind) == {[w EXCEPT !.off = Min(With(d, w, key, kind))] :
                              w \in {w \in s : With(d, w, key, kind) # {}}}

Documents(d, s) ==
    UNION {{[raw |-> w.raw + k, len |-> U32(d, w, k), off |-> 4] :
               k \in {k \in 0 .. w.len : IsCString(d, w, w.off + 1, k)}} :
           w \in {w \in s : At(d, w, w.off) \in {DOCUMENT, ARRAY}}}

Walk(d, from, path, kind) ==
    LET walk[n \in Nat] ==
            IF n = 0 \/ (kind = "descendant" /\ path[n] = <<>>) THEN {}
            ELSE First(d, IF n = 1 THEN {from} ELSE Documents(d, walk[n - 1]), path[n], kind)
    IN  walk

FoundFirst ==
    call = Idle /\ found # NotFound =>
        LET at == Walk(data, found.from, found.path, found.kind)[Len(found.path)] IN
        IF found.ret THEN at = {[raw |-> iters[Top].raw, len |-> iters[Top].len,
                                 off |-> iters[Top].off]}
                     ELSE at = {}

LEMMA LocatedIsWalk == FindIsFirst <=> FoundFirst
BY DEF FindIsFirst, FoundFirst, Located, Walk, With, First, Documents, KeyIn, KeyIs

(* Where a window is read and how far, not which record says it.           *)
LEMMA SameElements ==
    ASSUME NEW d \in Seq(0 .. 255), NEW v, NEW w, v.raw = w.raw, v.len = w.len, w.len \in Nat
    PROVE  /\ \A i : ElementEnds(d, v, i) = ElementEnds(d, w, i)
           /\ \A i \in Nat : ElementsFrom(d, v)[i] = ElementsFrom(d, w)[i]
<1>1. ASSUME NEW i PROVE ElementEnds(d, v, i) = ElementEnds(d, w, i)
  <2>1. \A e : e \in ElementEnds(d, v, i) <=> e \in ElementEnds(d, w, i)
    <3>1. At(d, v, i) = At(d, w, i)
      BY SameStart
    <3>2. \A k : IsCString(d, v, i + 1, k) <=> IsCString(d, w, i + 1, k)
      BY SameStart
    <3>3. \A k, e : IsValue(d, v, At(d, w, i), k, e) <=> IsValue(d, w, At(d, w, i), k, e)
      BY SameWindow
    <3>4. QED
      BY <3>1, <3>2, <3>3, InElementEnds
  <2>2. QED
    BY <2>1
<1> DEFINE P == {k \in Nat : ElementsFrom(d, v)[k] = ElementsFrom(d, w)[k]}
<1>2. ASSUME NEW k \in Nat, ElementEnds(d, w, k) = {} PROVE k \in P
  <2>1. ElementEnds(d, v, k) = {} /\ v.len \in Nat
    BY <1>1, <1>2
  <2>2. ElementsFrom(d, w)[k] = {}
    BY <1>2, FromSteps
  <2>3. ElementsFrom(d, v)[k] = {}
    BY <2>1, FromSteps
  <2>4. QED
    BY <2>2, <2>3
<1>3. ASSUME NEW k \in Nat, NEW e \in ElementEnds(d, w, k), e \in P PROVE k \in P
  <2>1. e \in ElementEnds(d, v, k) /\ v.len \in Nat
    BY <1>1
  <2>2. ElementsFrom(d, w)[k] = {k} \cup ElementsFrom(d, w)[e]
    BY FromSteps
  <2>3. ElementsFrom(d, v)[k] = {k} \cup ElementsFrom(d, v)[e]
    BY <2>1, FromSteps
  <2>4. QED
    BY <1>3, <2>2, <2>3
<1>4. P = Nat
  BY <1>2, <1>3, ByNextElement
<1>5. QED
  BY <1>1, <1>4

(* The loop compares the key as the grammar has it: no byte of a key is 0. *)
LEMMA LowerFacts == \A b \in 0 .. 255 : Lower(b) \in Nat /\ (Lower(b) = 0 <=> b = 0)
BY DEF Lower

LEMMA KeyCompared ==
    ASSUME data \in Seq(0 .. 255), NEW w, NEW v, v.raw = w.raw, NEW i \in Nat,
           NEW key \in Key, NEW kind
    PROVE  SameKey(v, i, key, kind) <=> KeyIn(data, w, i, key, kind)
<1> DEFINE n == Len(key)
           b(j) == At(data, w, i + j)
           Equal(j) == IF kind = "find_case" THEN Lower(b(j)) = Lower(key[j])
                                             ELSE b(j) = key[j]
<1>1. n \in Nat /\ DOMAIN key = 1 .. n /\ \A j \in 1 .. n : key[j] \in 1 .. 255
  <2>1. key \in Seq(1 .. 255)
    BY DEF Key
  <2>2. n \in Nat /\ DOMAIN key = 1 .. n
    BY <2>1
  <2>3. \A j \in DOMAIN key : key[j] \in 1 .. 255
    BY <2>1, ElementType
  <2>4. QED
    BY <2>2, <2>3
<1>2. \A j \in Int : b(j) \in 0 .. 255
  BY AtType
<1>3. SameKey(v, i, key, kind) <=> (\A j \in 1 .. n : Equal(j)) /\ b(n + 1) = 0
  <2>1. \A x : At(data, v, x) = At(data, w, x)
    BY SameStart
  <2>2. i + n + 1 = i + (n + 1)
    BY <1>1
  <2>3. QED
    BY <1>1, <2>1, <2>2 DEF SameKey
<1>4. ASSUME NEW j \in 1 .. n, Equal(j) PROVE b(j) # 0
  <2> DEFINE x == b(j)
             y == key[j]
  <2>1. x \in 0 .. 255 /\ y \in 1 .. 255 /\ (Lower(x) = Lower(y) \/ x = y)
    <3>1. i + j \in Int
      BY <1>1
    <3>2. x \in 0 .. 255
      BY <3>1, AtType
    <3>3. y \in 1 .. 255
      BY <1>1
    <3>4. Lower(x) = Lower(y) \/ x = y
      BY <1>4
    <3>5. QED
      BY <3>2, <3>3, <3>4
  <2> HIDE DEF x, y
  <2>2. y \in 0 .. 255 /\ y # 0
    BY <2>1
  <2>3. Lower(y) # 0
    BY <2>2, LowerFacts
  <2>4. x # 0
    BY <2>1, <2>2, <2>3, LowerFacts
  <2>5. QED
    BY <2>4 DEF x
<1>5. KeyIn(data, w, i, key, kind)
         <=> /\ IsCString(data, w, i + 1, i + 2 + n)
             /\ \A j \in 1 .. n : b(j) = key[j] \/ (kind = "find_case" /\ Lower(b(j)) = Lower(key[j]))
  BY <1>1 DEF KeyIn
<1> HIDE DEF b
<1>6. (\A j \in 1 .. n : Equal(j))
         <=> \A j \in 1 .. n : b(j) = key[j] \/ (kind = "find_case" /\ Lower(b(j)) = Lower(key[j]))
  OBVIOUS
<1>7. ASSUME \A j \in 1 .. n : Equal(j), b(n + 1) = 0
      PROVE  IsCString(data, w, i + 1, i + 2 + n)
  <2>1. ASSUME NEW x \in i + 1 .. i + 2 + n - 1
        PROVE  At(data, w, x) = 0 <=> x = i + 2 + n - 1
    <3>1. x - i \in 1 .. n + 1 /\ i + (x - i) = x
      BY <1>1
    <3>2. At(data, w, x) = b(x - i)
      BY <3>1 DEF b
    <3>3. CASE x - i = n + 1
      <4>1. b(x - i) = 0
        BY <1>7, <3>3
      <4>2. x = i + 2 + n - 1
        BY <1>1, <3>3
      <4>3. QED
        BY <3>2, <4>1, <4>2
    <3>4. CASE x - i \in 1 .. n
      <4>1. b(x - i) # 0
        BY <1>4, <1>7, <3>4
      <4>2. x # i + 2 + n - 1
        BY <1>1, <3>4
      <4>3. QED
        BY <3>2, <4>1, <4>2
    <3>5. QED
      BY <1>1, <3>1, <3>3, <3>4
  <2>2. i + 2 + n > i + 1
    BY <1>1
  <2>3. QED
    BY <2>1, <2>2 DEF IsCString
<1>8. ASSUME IsCString(data, w, i + 1, i + 2 + n) PROVE b(n + 1) = 0
  <2>1. i + (n + 1) \in i + 1 .. i + 2 + n - 1 /\ i + (n + 1) = i + 2 + n - 1
    BY <1>1
  <2>2. At(data, w, i + (n + 1)) = 0
    BY <1>8, <2>1 DEF IsCString
  <2>3. QED
    BY <2>2 DEF b
<1>9. QED
  BY <1>3, <1>5, <1>6, <1>7, <1>8

-----------------------------------------------------------------------------
(* The first element with a key, from an element on.                       *)
LEMMA FirstOfOne ==
    ASSUME NEW d, NEW p, NEW key, NEW kind
    PROVE  /\ With(d, p, key, kind) = {} => First(d, {p}, key, kind) = {}
           /\ With(d, p, key, kind) # {}
                 => First(d, {p}, key, kind) = {[p EXCEPT !.off = Min(With(d, p, key, kind))]}
<1> DEFINE W(w) == With(d, w, key, kind)
           S == {w \in {p} : W(w) # {}}
           F(w) == [w EXCEPT !.off = Min(W(w))]
<1>1. First(d, {p}, key, kind) = {F(w) : w \in S}
  BY DEF First
<1> HIDE DEF F, W
<1>2. CASE W(p) = {}
  <2>1. S = {}
    BY <1>2
  <2>2. QED
    BY <1>1, <1>2, <2>1 DEF W
<1>3. CASE W(p) # {}
  <2>1. S = {p}
    BY <1>3
  <2>2. {F(w) : w \in S} = {F(p)}
    BY <2>1
  <2>3. QED
    BY <1>1, <1>3, <2>2 DEF F, W
<1>4. QED
  BY <1>2, <1>3

LEMMA SameKeyIn ==
    ASSUME NEW d, NEW v, NEW w, v.raw = w.raw
    PROVE  \A i, key, kind : KeyIn(d, v, i, key, kind) <=> KeyIn(d, w, i, key, kind)
BY SameStart DEF KeyIn

LEMMA FirstHere ==
    ASSUME NEW d \in Seq(0 .. 255), NEW p \in Place, NEW key, NEW kind
    PROVE  /\ ElementEnds(d, p, p.off) = {} => First(d, {p}, key, kind) = {}
           /\ \A e \in ElementEnds(d, p, p.off) :
                 IF KeyIn(d, p, p.off, key, kind)
                 THEN First(d, {p}, key, kind) = {p}
                 ELSE First(d, {p}, key, kind) = First(d, {[p EXCEPT !.off = e]}, key, kind)
<1> DEFINE W(w) == With(d, w, key, kind)
           K(i) == KeyIn(d, p, i, key, kind)
           L(i) == ElementsFrom(d, p)[i]
<1>1. p.raw \in Nat /\ p.len \in Nat /\ p.off \in Nat
  BY DEF Place
<1>2. W(p) = {i \in L(p.off) : K(i)}
  BY DEF With
<1>3. ASSUME ElementEnds(d, p, p.off) = {} PROVE First(d, {p}, key, kind) = {}
  <2>1. L(p.off) = {}
    BY <1>1, <1>3, FromSteps
  <2>2. W(p) = {}
    BY <1>2, <2>1
  <2>3. QED
    BY <2>2, FirstOfOne
<1>4. ASSUME NEW e \in ElementEnds(d, p, p.off)
      PROVE  IF K(p.off) THEN First(d, {p}, key, kind) = {p}
             ELSE First(d, {p}, key, kind) = First(d, {[p EXCEPT !.off = e]}, key, kind)
  <2>1. L(p.off) = {p.off} \cup L(e) /\ e \in Nat
    BY <1>1, FromSteps, ElementEndsOnce
  <2>2. CASE K(p.off)
    <3>1. p.off \in W(p)
      BY <1>2, <2>1, <2>2
    <3>2. \A i \in W(p) : i \in Nat /\ p.off <= i
      BY <1>1, <1>2, FromForward
    <3>3. Min(W(p)) \in W(p) /\ \A x \in W(p) : Min(W(p)) <= x
      BY <3>1, <3>2, MinFacts
    <3> HIDE DEF W
    <3>4. Min(W(p)) \in Nat /\ Min(W(p)) = p.off
      BY <1>1, <3>1, <3>2, <3>3
    <3>5. [p EXCEPT !.off = p.off] = p
      BY DEF Place
    <3>6. First(d, {p}, key, kind) = {[p EXCEPT !.off = Min(W(p))]}
      BY <3>1, FirstOfOne DEF W
    <3>7. QED
      BY <2>2, <3>4, <3>5, <3>6
  <2>3. CASE ~K(p.off)
    <3> DEFINE q == [p EXCEPT !.off = e]
    <3>1. q.raw = p.raw /\ q.len = p.len /\ q.off = e
      BY DEF Place
    <3>2. [q EXCEPT !.off = Min(W(p))] = [p EXCEPT !.off = Min(W(p))]
      BY DEF Place
    <3> HIDE DEF q
    <3>3. ElementsFrom(d, q)[e] = L(e)
      BY <1>1, <2>1, <3>1, SameElements
    <3>4. \A i : KeyIn(d, q, i, key, kind) <=> K(i)
      BY <3>1, SameKeyIn
    <3>5. W(q) = {i \in ElementsFrom(d, q)[e] : KeyIn(d, q, i, key, kind)}
      BY <3>1 DEF With
    <3> HIDE DEF K, L
    <3>6. W(q) = W(p)
      <4>1. W(q) = {i \in L(e) : K(i)}
        BY <3>3, <3>4, <3>5 DEF L
      <4>2. W(p) = {i \in {p.off} \cup L(e) : K(i)}
        BY <1>2, <2>1
      <4> HIDE DEF W
      <4>3. QED
        BY <2>3, <4>1, <4>2
    <3> HIDE DEF W
    <3>7. W(p) = {} => First(d, {p}, key, kind) = {} /\ First(d, {q}, key, kind) = {}
      BY <3>6, FirstOfOne, ZenonT(40) DEF W
    <3>8. W(p) # {} => /\ First(d, {p}, key, kind) = {[p EXCEPT !.off = Min(W(p))]}
                       /\ First(d, {q}, key, kind) = {[q EXCEPT !.off = Min(W(q))]}
      BY <3>6, FirstOfOne DEF W
    <3>9. First(d, {p}, key, kind) = First(d, {q}, key, kind)
      BY <3>2, <3>6, <3>7, <3>8
    <3>10. QED
      BY <2>3, <3>9 DEF q
  <2>4. QED
    BY <2>2, <2>3
<1>5. QED
  BY <1>3, <1>4

(* Places lead to places.                                                  *)
LEMMA FirstPlaces ==
    ASSUME NEW d \in Seq(0 .. 255), NEW s \in SUBSET Place, NEW key, NEW kind
    PROVE  First(d, s, key, kind) \in SUBSET Place
<1>1. ASSUME NEW w \in s, With(d, w, key, kind) # {}
      PROVE  [w EXCEPT !.off = Min(With(d, w, key, kind))] \in Place
  <2> DEFINE W == With(d, w, key, kind)
  <2>1. w \in Place /\ w.len \in Nat /\ w.off \in Nat
    BY DEF Place
  <2>2. \A i \in W : i \in Nat
    BY <2>1, FromForward DEF With
  <2>3. Min(W) \in Nat
    BY <1>1, <2>2, MinFacts
  <2> HIDE DEF W
  <2>4. [w EXCEPT !.off = Min(W)] \in Place
    BY <2>1, <2>3 DEF Place
  <2>5. QED
    BY <2>4 DEF W
<1>2. QED
  BY <1>1 DEF First

LEMMA DocumentsPlaces ==
    ASSUME NEW d \in Seq(0 .. 255), NEW s \in SUBSET Place
    PROVE  Documents(d, s) \in SUBSET Place
<1>1. ASSUME NEW w \in s, NEW k \in 0 .. w.len
      PROVE  [raw |-> w.raw + k, len |-> U32(d, w, k), off |-> 4] \in Place
  <2>1. w.raw \in Nat /\ w.len \in Nat
    BY DEF Place
  <2>2. w.raw + k \in Nat /\ k \in Nat
    BY <2>1
  <2>3. U32(d, w, k) \in Nat
    BY U32Type
  <2>4. QED
    BY <2>2, <2>3 DEF Place
<1>2. QED
  BY <1>1 DEF Documents

(* Walk is the function its recursion describes.                           *)
Sought(d, from, path, kind, n, s) ==
    IF kind = "descendant" /\ path[n] = <<>> THEN {}
    ELSE First(d, IF n = 1 THEN {from} ELSE Documents(d, s), path[n], kind)

LEMMA WalkFacts ==
    ASSUME NEW d \in Seq(0 .. 255), NEW from \in Place, NEW path, NEW kind, NEW n \in Nat
    PROVE  /\ Walk(d, from, path, kind)[n] \in SUBSET Place
           /\ Walk(d, from, path, kind)[n + 1]
                 = Sought(d, from, path, kind, n + 1, Walk(d, from, path, kind)[n])
<1> DEFINE P == SUBSET Place
           Q(m, s) == Sought(d, from, path, kind, m, s)
           step == [p \in Nat \X P |-> Q(p[1] + 1, p[2])]
           G(f) == [m \in Nat |-> IF m = 0 THEN {} ELSE Q(m, f[m - 1])]
           w == Walk(d, from, path, kind)
<1>1. ASSUME NEW m, NEW s \in P PROVE Q(m, s) \in P
  <2>1. {from} \in P /\ {} \in P
    OBVIOUS
  <2>2. First(d, {from}, path[m], kind) \in P /\ First(d, Documents(d, s), path[m], kind) \in P
    BY <2>1, DocumentsPlaces, FirstPlaces
  <2>3. QED
    BY <2>1, <2>2 DEF Sought
<1>2. w = (CHOOSE f : f = G(f))
  <2>1. \A f, m : (IF m = 0 \/ (kind = "descendant" /\ path[m] = <<>>) THEN {}
                   ELSE First(d, IF m = 1 THEN {from} ELSE Documents(d, f[m - 1]),
                              path[m], kind))
                  = IF m = 0 THEN {} ELSE Q(m, f[m - 1])
    BY DEF Sought
  <2> DEFINE H(f) == [m \in Nat |->
                        IF m = 0 \/ (kind = "descendant" /\ path[m] = <<>>) THEN {}
                        ELSE First(d, IF m = 1 THEN {from} ELSE Documents(d, f[m - 1]),
                                   path[m], kind)]
  <2>2. \A f : H(f) = G(f)
    BY <2>1
  <2>3. w = CHOOSE f : f = H(f)
    BY DEF Walk
  <2> HIDE DEF H, G, w
  <2>4. QED
    BY <2>2, <2>3
<1> HIDE DEF P, Q
<1>3. step \in [Nat \X P -> P] /\ {} \in P
  <2>1. \A p \in Nat \X P : Q(p[1] + 1, p[2]) \in P
    BY <1>1
  <2>2. QED
    BY <2>1 DEF P
<1>4. PICK f \in [Nat -> P] : f[0] = {} /\ \A m \in Nat : f[m + 1] = step[<<m, f[m]>>]
  <2>1. IsStep(step, P)
    BY <1>3 DEF IsStep
  <2> HIDE DEF step
  <2>2. \E g : Iterates(g, P, {}, step)
    BY <1>3, <2>1, Iteration
  <2>3. QED
    BY <2>2 DEF Iterates
<1>5. ASSUME NEW m \in Nat, m # 0 PROVE f[m] = Q(m, f[m - 1])
  <2>1. m - 1 \in Nat /\ (m - 1) + 1 = m /\ f[m - 1] \in P
    BY <1>5
  <2>2. f[m] = step[<<m - 1, f[m - 1]>>]
    BY <1>4, <2>1
  <2>3. step[<<m - 1, f[m - 1]>>] = Q((m - 1) + 1, f[m - 1])
    BY <2>1
  <2>4. QED
    BY <2>1, <2>2, <2>3
<1>6. f = G(f)
  BY <1>4, <1>5
<1> HIDE DEF G, w
<1>7. w = G(w)
  BY <1>2, <1>6
<1>8. w[0] = {} /\ \A m \in Nat : w[m + 1] = Q(m + 1, w[m])
  <2>1. ASSUME NEW m \in Nat PROVE w[m + 1] = Q(m + 1, w[m])
    <3>1. m + 1 \in Nat /\ m + 1 # 0 /\ (m + 1) - 1 = m
      OBVIOUS
    <3>2. w[m + 1] = G(w)[m + 1]
      BY <1>7
    <3>3. G(w)[m + 1] = Q(m + 1, w[(m + 1) - 1])
      BY <3>1 DEF G
    <3>4. QED
      BY <3>1, <3>2, <3>3
  <2>2. w[0] = G(w)[0]
    BY <1>7
  <2>3. G(w)[0] = {}
    BY DEF G
  <2>4. QED
    BY <2>1, <2>2, <2>3
<1> DEFINE Fails == {m \in Nat : w[m] \notin P}
<1>9. ASSUME Fails # {} PROVE FALSE
  <2> DEFINE m == Min(Fails)
  <2>1. m \in Fails /\ \A x \in Fails : m <= x
    BY <1>9, MinFacts
  <2> HIDE DEF m
  <2>2. m \in Nat /\ w[m] \notin P /\ m # 0
    BY <1>3, <1>8, <2>1
  <2>3. m - 1 \in Nat /\ (m - 1) + 1 = m /\ ~ m <= m - 1
    BY <2>2
  <2>4. w[m - 1] \in P
    BY <2>1, <2>3
  <2>5. w[m] = Q(m, w[m - 1])
    BY <1>8, <2>3
  <2>6. QED
    BY <1>1, <2>2, <2>4, <2>5
<1>10. QED
  BY <1>8, <1>9 DEF P, Q, w

(* A key that is not in a document stays so behind its value.              *)
LEMMA WalkEnds ==
    ASSUME NEW d \in Seq(0 .. 255), NEW from \in Place, NEW path, NEW kind,
           NEW m \in Nat, m >= 1, Walk(d, from, path, kind)[m] = {}
    PROVE  \A n \in Nat : n >= m => Walk(d, from, path, kind)[n] = {}
<1> DEFINE w == Walk(d, from, path, kind)
           Fails == {n \in Nat : n >= m /\ w[n] # {}}
<1>1. SUFFICES ASSUME Fails # {} PROVE FALSE
  OBVIOUS
<1>2. PICK n \in Fails : \A x \in Fails : n <= x
  <2>1. Min(Fails) \in Fails /\ \A x \in Fails : Min(Fails) <= x
    BY <1>1, MinFacts
  <2>2. QED
    BY <2>1
<1> HIDE DEF w
<1>3. n \in Nat /\ n >= m /\ w[n] # {}
  BY <1>2
<1>4. n # m
  BY <1>3 DEF w
<1>5. n - 1 \in Nat /\ n - 1 >= m /\ n - 1 < n /\ (n - 1) + 1 = n /\ n # 1
  BY <1>3, <1>4
<1>6. w[n - 1] = {}
  <2>1. n - 1 \notin Fails
    BY <1>2, <1>5
  <2>2. QED
    BY <1>5, <2>1
<1>7. w[(n - 1) + 1] = Sought(d, from, path, kind, (n - 1) + 1, w[n - 1])
  <2>1. n - 1 \in Nat
    BY <1>5
  <2>2. QED
    BY <2>1, WalkFacts DEF w
<1>8. w[n] = Sought(d, from, path, kind, n, {})
  BY <1>5, <1>6, <1>7
<1>9. Documents(d, {}) = {} /\ \A key : First(d, {}, key, kind) = {}
  BY DEF Documents, First
<1>10. Sought(d, from, path, kind, n, {}) = {}
  BY <1>5, <1>9 DEF Sought
<1>11. QED
  BY <1>3, <1>8, <1>10

(* Where an iterator is, and where the next of it begins.                  *)
Here(it)  == [raw |-> it.raw, len |-> it.len, off |-> it.off]
Ahead(it) == [raw |-> it.raw, len |-> it.len, off |-> it.next_off]

(* bson_iter_next, of the loop of a find, brings it nearer to the first    *)
(* element with the key, or says that there is none.                       *)
LEMMA AdvanceFirst ==
    ASSUME IInv, iters[Top].raw # None, NEW it \in Advance(iters[Top]),
           NEW key \in Key, NEW kind
    PROVE  LET first == First(data, {Ahead(iters[Top])}, key, kind) IN
           /\ it.raw = None => first = {}
           /\ it.raw # None /\ ~SameKey(it, it.off, key, kind)
                 => first = First(data, {Ahead(it)}, key, kind)
           /\ it.raw # None /\ SameKey(it, it.off, key, kind) => first = {Here(it)}
           /\ it.raw # None => it \in Iterator /\ Parsed(data, it)
<1> DEFINE top == iters[Top]
           w == windows[Top]
           p == Ahead(top)
<1>1. /\ data \in Seq(0 .. 255) /\ top \in Iterator /\ w \in Window
      /\ Valid(data, top, w)
  BY DEF IInv, Stack, Top
<1>2. p.raw = w.raw /\ p.len = w.len /\ p.off = top.next_off
  BY <1>1 DEF Ahead, Valid
<1>3. p \in Place /\ w.len \in Nat /\ p.off \in Nat
  <2>1. top.raw \in Nat /\ top.len \in Nat /\ top.next_off \in Nat
    BY <1>1 DEF Iterator
  <2>2. QED
    BY <1>1, <2>1 DEF Ahead, Place, Window
<1>4. it.off = p.off
  BY <1>2, AdvanceGoes
<1>5. \A i : ElementEnds(data, p, i) = ElementEnds(data, w, i)
  <2> HIDE DEF p, w
  <2>1. QED
    BY <1>1, <1>2, <1>3, SameElements
<1>6. ASSUME it.raw = None PROVE First(data, {p}, key, kind) = {}
  <2>1. Stopped(data, it, w)
    BY <1>1, <1>6, AdvanceFacts
  <2>2. ElementEnds(data, p, p.off) = {}
    BY <1>4, <1>5, <2>1 DEF Stopped
  <2> HIDE DEF p
  <2>3. QED
    BY <1>1, <1>3, <2>2, FirstHere
<1>7. ASSUME it.raw # None
      PROVE  /\ it \in Iterator /\ Parsed(data, it)
             /\ IF SameKey(it, it.off, key, kind)
                THEN First(data, {p}, key, kind) = {Here(it)}
                ELSE First(data, {p}, key, kind) = First(data, {Ahead(it)}, key, kind)
  <2>1. it \in Iterator /\ Valid(data, it, w) /\ Parsed(data, it)
    BY <1>1, <1>7, AdvanceFacts
  <2>2. it.raw = p.raw /\ it.len = p.len
    BY <1>2, <2>1 DEF Valid
  <2>3. it.next_off \in ElementEnds(data, p, p.off)
    BY <1>1, <1>4, <2>1, <2>2, ParsedIsElement
  <2>4. Here(it) = p
    BY <1>2, <1>4, <2>2 DEF Here, Ahead
  <2>5. Ahead(it) = [p EXCEPT !.off = it.next_off]
    BY <2>2 DEF Ahead
  <2>6. SameKey(it, it.off, key, kind) <=> KeyIn(data, p, p.off, key, kind)
    BY <1>1, <1>3, <1>4, <2>2, KeyCompared
  <2> HIDE DEF p
  <2>7. IF KeyIn(data, p, p.off, key, kind)
        THEN First(data, {p}, key, kind) = {p}
        ELSE First(data, {p}, key, kind)
                = First(data, {[p EXCEPT !.off = it.next_off]}, key, kind)
    <3> DEFINE G(e) == IF KeyIn(data, p, p.off, key, kind)
                       THEN First(data, {p}, key, kind) = {p}
                       ELSE First(data, {p}, key, kind)
                               = First(data, {[p EXCEPT !.off = e]}, key, kind)
    <3>1. \A e \in ElementEnds(data, p, p.off) : G(e)
      BY <1>1, <1>3, FirstHere
    <3> HIDE DEF G
    <3>2. G(it.next_off)
      BY <2>3, <3>1
    <3>3. QED
      BY <3>2 DEF G
  <2> DEFINE F(x) == First(data, {x}, key, kind)
  <2> HIDE DEF F
  <2>8. IF SameKey(it, it.off, key, kind) THEN F(p) = {p} ELSE F(p) = F(Ahead(it))
    BY <2>5, <2>6, <2>7 DEF F
  <2>9. QED
    BY <2>1, <2>4, <2>8 DEF F, p
<1>8. QED
  BY <1>6, <1>7

(* And bson_iter_recurse to the first element of the document there.       *)
LEMMA DescendFirst ==
    ASSUME data \in Seq(0 .. 255), NEW it \in Iterator, it.raw # None, Parsed(data, it)
    PROVE  /\ ~Recursible(it) => Documents(data, {Here(it)}) = {}
           /\ Recursible(it) =>
                 LET w == ChildWindow(it) IN
                 /\ w.raw \in Nat
                 /\ Documents(data, {Here(it)}) = {Ahead(Initial(w.raw, w.len))}
<1> DEFINE p == Here(it)
           W == {v \in {p} : At(data, v, v.off) \in {DOCUMENT, ARRAY}}
           K(v) == {k \in 0 .. v.len : IsCString(data, v, v.off + 1, k)}
           D(v) == {[raw |-> v.raw + k, len |-> U32(data, v, k), off |-> 4] : k \in K(v)}
<1>1. Documents(data, {p}) = UNION {D(v) : v \in W}
  BY DEF Documents
<1>2. p.raw = it.raw /\ p.len = it.len /\ p.off = it.off
  BY DEF Here
<1>3. Recursible(it) <=> At(data, p, p.off) \in {DOCUMENT, ARRAY}
  <2>1. OnElement(it)
    BY DEF OnElement, Parsed, Iterator
  <2>2. At(data, it, it.off) = At(data, p, p.off)
    BY <1>2, SameStart
  <2>3. QED
    BY <2>1, <2>2 DEF Recursible, Type
<1> HIDE DEF p
<1>4. CASE ~Recursible(it)
  <2>1. W = {}
    BY <1>3, <1>4
  <2>2. QED
    BY <1>1, <1>4, <2>1 DEF p
<1>5. CASE Recursible(it)
  <2>1. /\ it.d1 \in Nat /\ it.next_off = it.d1 + U32(data, it, it.d1)
        /\ it.next_off < it.len /\ IsCString(data, it, it.off + 1, it.d1)
    BY <1>5, ParsedDocument DEF Recursible, Type
  <2>2. it.raw \in Nat /\ it.len \in Nat /\ it.off \in Nat /\ U32(data, it, it.d1) \in Nat
    BY U32Type DEF Iterator
  <2>3. it.d1 \in 0 .. p.len
    BY <1>2, <2>1, <2>2
  <2>4. \A e : IsCString(data, p, p.off + 1, e) <=> IsCString(data, it, it.off + 1, e)
    BY <1>2, SameStart
  <2>5. K(p) = {it.d1}
    <3>1. ASSUME NEW k \in K(p) PROVE k = it.d1
      <4>1. IsCString(data, it, it.off + 1, k) /\ k \in Int
        BY <2>4
      <4>2. it.off + 1 \in Int /\ it.d1 \in Int
        BY <2>1, <2>2
      <4>3. QED
        BY <2>1, <4>1, <4>2, EndIsUnique
    <3>2. it.d1 \in K(p)
      BY <2>1, <2>3, <2>4
    <3>3. QED
      BY <3>1, <3>2
  <2>6. U32(data, p, it.d1) = U32(data, it, it.d1)
    BY <1>2, SameStart
  <2>7. W = {p}
    BY <1>3, <1>5
  <2>8. D(p) = {[raw |-> it.raw + it.d1, len |-> U32(data, it, it.d1), off |-> 4]}
    <3> HIDE DEF K
    <3>1. D(p) = {[raw |-> p.raw + it.d1, len |-> U32(data, p, it.d1), off |-> 4]}
      BY <2>5
    <3>2. QED
      BY <1>2, <2>6, <3>1
  <2> HIDE DEF D
  <2>9. Documents(data, {p}) = D(p)
    BY <1>1, <2>7
  <2>10. ChildWindow(it) = [raw |-> it.raw + it.d1, len |-> U32(data, it, it.d1)]
    BY DEF ChildWindow
  <2>11. ChildWindow(it).raw \in Nat
    BY <2>1, <2>2, <2>10
  <2>12. Ahead(Initial(ChildWindow(it).raw, ChildWindow(it).len))
           = [raw |-> it.raw + it.d1, len |-> U32(data, it, it.d1), off |-> 4]
    BY <2>10 DEF Ahead, Initial
  <2>13. QED
    BY <1>5, <2>8, <2>9, <2>11, <2>12 DEF p
<1>6. QED
  BY <1>4, <1>5

(* A find in progress: what is left of its path, and that the first        *)
(* element with the key looked for now is still ahead.                     *)
Seeking ==
    call # Idle =>
        LET n  == Len(found.path)
            k  == n - Len(call.path)
            it == iters[Top]
        IN  /\ found = [path |-> found.path, kind |-> call.kind, from |-> found.from,
                        ret |-> FALSE]
            /\ found.from \in Place /\ found.path \in Seq(Key) /\ call.path \in Seq(Key)
            /\ Len(call.path) \in 1 .. n
            /\ \A i \in 1 .. Len(call.path) : call.path[i] = found.path[k + i]
            /\ it.raw # None
            /\ Walk(data, found.from, found.path, found.kind)[k + 1] =
                  IF call.kind = "descendant" /\ Head(call.path) = <<>> THEN {}
                  ELSE First(data, {Ahead(it)}, Head(call.path), call.kind)

LEMMA CallSeeks ==
    ASSUME IInv, iters[Top].raw # None, NEW kind, NEW path \in Seq(Key), path # <<>>,
           Call(kind, path)
    PROVE  Seeking'
<1> DEFINE top == iters[Top]
           w == Walk(data, Ahead(top), path, kind)
<1>1. /\ call' = [path |-> path, kind |-> kind, base |-> Top]
      /\ found' = [path |-> path, kind |-> kind, from |-> Ahead(top), ret |-> FALSE]
      /\ data' = data /\ iters' = iters /\ Top' = Top
  BY DEF Call, Ahead, Top
<1>2. Len(path) \in Nat /\ Len(path) >= 1 /\ Head(path) = path[1]
  OBVIOUS
<1>3. Ahead(top) \in Place
  <2>1. top \in Iterator
    BY DEF IInv, Stack, Top
  <2>2. top.raw \in Nat /\ top.len \in Nat /\ top.next_off \in Nat
    BY <2>1 DEF Iterator
  <2>3. QED
    BY <2>2 DEF Ahead, Place
<1>4. w[1] = Sought(data, Ahead(top), path, kind, 1, w[0])
  <2>1. data \in Seq(0 .. 255) /\ 0 \in Nat
    BY DEF IInv
  <2>2. w[0 + 1] = Sought(data, Ahead(top), path, kind, 0 + 1, w[0])
    BY <1>3, <2>1, WalkFacts
  <2>3. 0 + 1 = 1
    OBVIOUS
  <2>4. QED
    BY <2>2, <2>3
<1>5. w[1] = IF kind = "descendant" /\ Head(path) = <<>> THEN {}
             ELSE First(data, {Ahead(top)}, Head(path), kind)
  BY <1>2, <1>4 DEF Sought
<1> HIDE DEF w, top
<1>6. /\ found'.path = path /\ found'.kind = kind /\ found'.from = Ahead(top)
      /\ call'.path = path /\ call'.kind = kind
      /\ found' = [path |-> path, kind |-> kind, from |-> Ahead(top), ret |-> FALSE]
  BY <1>1
<1>7. Len(path) - Len(path) = 0 /\ 0 + 1 = 1 /\ \A i \in 1 .. Len(path) : 0 + i = i
  BY <1>2
<1>8. iters'[Top'] = top /\ top.raw # None
  BY <1>1 DEF top
<1>9. QED
  BY <1>1, <1>2, <1>3, <1>5, <1>6, <1>7, <1>8 DEF Seeking, w

(* The end of a find.                                                      *)
LEMMA FinishedFirst ==
    ASSUME IInv, call # Idle, Seeking, NEW s, NEW w, NEW ret \in BOOLEAN, Finished(s, w, ret),
           LET at == Walk(data, found.from, found.path, found.kind)[Len(found.path)]
           IN  IF ret THEN at = {Here(iters'[Top'])} ELSE at = {}
    PROVE  Seeking' /\ FoundFirst'
<1>1. call' = Idle /\ data' = data /\ found' = [found EXCEPT !.ret = ret]
  BY DEF Finished
<1>2. found' = [path |-> found.path, kind |-> found.kind, from |-> found.from, ret |-> ret]
  BY <1>1 DEF Seeking
<1>3. /\ found'.path = found.path /\ found'.kind = found.kind /\ found'.from = found.from
      /\ found'.ret = ret
  BY <1>2
<1>4. Seeking'
  BY <1>1 DEF Seeking
<1>5. FoundFirst'
  BY <1>1, <1>3 DEF FoundFirst, Here
<1>6. QED
  BY <1>4, <1>5

LEMMA FindNothingFirst ==
    ASSUME IInv, Seeking, FindNothing
    PROVE  Seeking' /\ FoundFirst'
<1> DEFINE n == Len(found.path)
           k == n - Len(call.path)
           w == Walk(data, found.from, found.path, found.kind)
<1>1. /\ call.kind = "descendant" /\ Head(call.path) = <<>>
      /\ Finished(iters, windows, FALSE)
  BY DEF FindNothing
<1>2. call # Idle
  BY <1>1 DEF Idle
<1>3. /\ found.from \in Place /\ Len(call.path) \in 1 .. n /\ n \in Nat
      /\ w[k + 1] = {}
  <2>1. /\ found.from \in Place /\ found.path \in Seq(Key) /\ Len(call.path) \in 1 .. n
        /\ w[k + 1] = IF call.kind = "descendant" /\ Head(call.path) = <<>> THEN {}
                      ELSE First(data, {Ahead(iters[Top])}, Head(call.path), call.kind)
    BY <1>2 DEF Seeking
  <2>2. n \in Nat
    BY <2>1
  <2> HIDE DEF w
  <2>3. QED
    BY <1>1, <2>1, <2>2
<1>4. w[n] = {}
  <2>1. k + 1 \in Nat /\ k + 1 >= 1 /\ n >= k + 1
    BY <1>3
  <2>2. data \in Seq(0 .. 255)
    BY DEF IInv
  <2> DEFINE m == k + 1
  <2> HIDE DEF m
  <2>3. m \in Nat /\ m >= 1 /\ w[m] = {} /\ n >= m
    BY <1>3, <2>1 DEF m
  <2>4. QED
    BY <1>3, <2>2, <2>3, WalkEnds
<1>5. QED
  BY <1>1, <1>2, <1>4, FinishedFirst

LEMMA FindNextFirst ==
    ASSUME IInv, Seeking, FindNext
    PROVE  Seeking' /\ (call' = Idle => FoundFirst')
<1>1. PICK it \in Advance(iters[Top]) :
         LET here == SameKey(it, it.off, Head(call.path), call.kind)
             s    == Replaced(Top, it)
         IN
         \/ it.raw = None /\ Finished(s, windows, FALSE)
         \/ /\ it.raw # None /\ ~here
            /\ iters' = s
            /\ UNCHANGED <<data, windows, call, found>>
         \/ it.raw # None /\ here /\ Len(call.path) = 1 /\ Finished(s, windows, TRUE)
         \/ /\ it.raw # None /\ here /\ Len(call.path) > 1 /\ ~Recursible(it)
            /\ Finished(s, windows, FALSE)
         \/ /\ it.raw # None /\ here /\ Len(call.path) > 1 /\ Recursible(it)
            /\ LET w == ChildWindow(it) IN
               /\ iters' = Recursed(s, w)
               /\ windows' = Append(windows, w)
            /\ call' = [call EXCEPT !.path = Tail(@)]
            /\ UNCHANGED <<data, found>>
  BY DEF FindNext
<1> DEFINE top  == iters[Top]
           key  == Head(call.path)
           here == SameKey(it, it.off, key, call.kind)
           s    == Replaced(Top, it)
           n    == Len(found.path)
           k    == n - Len(call.path)
           W(m) == Walk(data, found.from, found.path, found.kind)[m]
           L    == Len(call.path)
<1>2. call # Idle /\ (call.kind = "descendant" => key # <<>>)
  BY DEF FindNext
<1>3. /\ found = [path |-> found.path, kind |-> call.kind, from |-> found.from, ret |-> FALSE]
      /\ found.kind = call.kind
      /\ found.from \in Place /\ found.path \in Seq(Key) /\ call.path \in Seq(Key)
      /\ L \in 1 .. n /\ n \in Nat
      /\ \A i \in 1 .. L : call.path[i] = found.path[k + i]
      /\ top.raw # None
  BY <1>2 DEF Seeking
<1>4. W(k + 1) = First(data, {Ahead(top)}, key, call.kind)
  BY <1>2 DEF Seeking
<1>5. key = call.path[1] /\ key \in Key
  BY <1>3
<1>6. /\ it.raw = None => W(k + 1) = {}
      /\ it.raw # None /\ ~here => W(k + 1) = First(data, {Ahead(it)}, key, call.kind)
      /\ it.raw # None /\ here => W(k + 1) = {Here(it)}
      /\ it.raw # None => it \in Iterator /\ Parsed(data, it)
  BY <1>3, <1>4, <1>5, AdvanceFirst
<1>7. /\ data \in Seq(0 .. 255) /\ Top \in Nat /\ Top >= 1 /\ iters \in Seq(Iterator)
      /\ Top = Len(iters) /\ call.base \in 1 .. Top
  BY <1>2 DEF IInv, Stack, Top, Calling
<1>8. it.raw # None => s \in Seq(Iterator) /\ Len(s) = Top /\ s[Top] = it
  BY <1>6, <1>7 DEF Replaced
<1>9. k \in Nat /\ k + 1 \in 1 .. n
  BY <1>3
<1>10. \A m \in Nat : m >= 1 /\ m <= n /\ W(m) = {} => W(n) = {}
  BY <1>3, <1>7, WalkEnds
<1>11. CASE it.raw = None /\ Finished(s, windows, FALSE)
  <2>1. W(n) = {}
    <3>1. W(k + 1) = {}
      BY <1>6, <1>11
    <3>2. k \in Nat /\ n \in Nat /\ k + 1 \in 1 .. n
      BY <1>3, <1>9
    <3> HIDE DEF k, n
    <3>3. k + 1 \in Nat /\ k + 1 >= 1 /\ k + 1 <= n
      BY <3>2
    <3> HIDE DEF W
    <3>4. QED
      BY <1>10, <3>1, <3>3
  <2> HIDE DEF s
  <2>2. QED
    BY <1>2, <1>11, <2>1, FinishedFirst
<1>12. CASE /\ it.raw # None /\ ~here
            /\ iters' = s
            /\ UNCHANGED <<data, windows, call, found>>
  <2>1. iters'[Top'] = it
    <3>1. Len(s) = Top /\ s[Top] = it
      BY <1>8, <1>12
    <3>2. iters' = s
      BY <1>12
    <3> HIDE DEF s
    <3>3. QED
      BY <3>1, <3>2 DEF Top
  <2>2. call' = call /\ found' = found /\ data' = data
    BY <1>12
  <2>3. W(k + 1) = First(data, {Ahead(it)}, key, call.kind)
    BY <1>6, <1>12
  <2> HIDE DEF here, s, top
  <2>4. QED
    BY <1>2, <1>3, <1>12, <2>1, <2>2, <2>3 DEF Seeking
<1>13. CASE it.raw # None /\ here /\ L = 1 /\ Finished(s, windows, TRUE)
  <2>1. W(n) = {Here(it)}
    <3>1. k + 1 = n
      BY <1>3, <1>13
    <3>2. QED
      BY <1>6, <1>13, <3>1
  <2>2. iters'[Top'] = it
    <3>0. s \in Seq(Iterator) /\ Len(s) = Top /\ s[Top] = it
      BY <1>8, <1>13
    <3> HIDE DEF s
    <3>1. iters' = Kept(s, TRUE)
      BY <1>13 DEF Finished
    <3>2. CASE Len(s) > call.base
      <4> DEFINE r == SubSeq(s, 1, call.base)
      <4>1. r \in Seq(Iterator) /\ Len(r) \in Nat
        BY <1>7, <3>0
      <4>2. iters' = Append(r, it)
        BY <3>0, <3>1, <3>2 DEF Kept
      <4> HIDE DEF r
      <4>3. Len(iters') = Len(r) + 1 /\ iters'[Len(r) + 1] = it
        BY <4>1, <4>2
      <4>4. QED
        BY <4>3 DEF Top
    <3>3. CASE ~(Len(s) > call.base)
      <4>1. iters' = SubSeq(s, 1, call.base) /\ call.base = Len(s)
        BY <1>7, <3>0, <3>1, <3>3 DEF Kept
      <4>2. Len(iters') = Top /\ iters'[Top] = it
        BY <1>7, <3>0, <4>1
      <4>3. QED
        BY <4>2 DEF Top
    <3>4. QED
      BY <3>2, <3>3
  <2> HIDE DEF s
  <2>3. QED
    BY <1>2, <1>13, <2>1, <2>2, FinishedFirst
<1>14. ASSUME it.raw # None, here, L > 1
       PROVE  /\ k + 2 \in 2 .. n
              /\ W(k + 2) = IF call.kind = "descendant" /\ call.path[2] = <<>> THEN {}
                            ELSE First(data, Documents(data, {Here(it)}), call.path[2],
                                       call.kind)
  <2>1. k + 2 \in 2 .. n /\ k + 2 # 1 /\ (k + 1) + 1 = k + 2 /\ k + 1 \in Nat /\ 2 \in 1 .. L
    BY <1>3, <1>14
  <2>2. call.path[2] = found.path[k + 2]
    BY <1>3, <2>1
  <2>3. W(k + 1) = {Here(it)}
    BY <1>6, <1>14
  <2> DEFINE m == k + 1
  <2>4. W(m + 1) = Sought(data, found.from, found.path, found.kind, m + 1, W(m))
    <3>1. m \in Nat
      BY <2>1
    <3> HIDE DEF m
    <3>2. QED
      BY <1>3, <1>7, <3>1, WalkFacts
  <2>5. W(k + 2) = Sought(data, found.from, found.path, found.kind, k + 2, {Here(it)})
    BY <2>1, <2>3, <2>4
  <2> HIDE DEF W, m
  <2>6. QED
    BY <1>3, <2>1, <2>2, <2>5 DEF Sought
<1>15. CASE /\ it.raw # None /\ here /\ L > 1 /\ ~Recursible(it)
            /\ Finished(s, windows, FALSE)
  <2>1. Documents(data, {Here(it)}) = {}
    BY <1>6, <1>7, <1>15, DescendFirst
  <2>2. \A x : First(data, {}, x, call.kind) = {}
    BY DEF First
  <2>3. W(k + 2) = {} /\ k + 2 \in 2 .. n
    BY <1>14, <1>15, <2>1, <2>2
  <2>4. W(n) = {}
    <3>1. k + 2 \in Nat /\ k + 2 >= 1 /\ k + 2 <= n
      BY <1>3, <2>3
    <3> HIDE DEF W, k, n
    <3>2. QED
      BY <1>10, <2>3, <3>1
  <2> HIDE DEF s
  <2>5. QED
    BY <1>2, <1>15, <2>4, FinishedFirst
<1>16. CASE /\ it.raw # None /\ here /\ L > 1 /\ Recursible(it)
            /\ iters' = Recursed(s, ChildWindow(it))
            /\ call' = [call EXCEPT !.path = Tail(@)]
            /\ UNCHANGED <<data, found>>
  <2> DEFINE c == Initial(ChildWindow(it).raw, ChildWindow(it).len)
  <2>1. Documents(data, {Here(it)}) = {Ahead(c)} /\ c.raw # None
    <3>1. ChildWindow(it).raw \in Nat /\ Documents(data, {Here(it)}) = {Ahead(c)}
      BY <1>6, <1>7, <1>16, DescendFirst
    <3>2. QED
      BY <3>1 DEF Initial, None
  <2>2. iters'[Top'] = c
    <3>1. iters' = Append(s, c)
      BY <1>16 DEF Recursed
    <3>2. s \in Seq(Iterator)
      BY <1>8, <1>16
    <3> HIDE DEF s, c
    <3>3. Len(iters') = Len(s) + 1 /\ iters'[Len(s) + 1] = c
      BY <3>1, <3>2
    <3>4. QED
      BY <3>3 DEF Top
  <2>3. call'.path = Tail(call.path) /\ call'.kind = call.kind /\ found' = found /\ data' = data
    BY <1>7, <1>16 DEF IInv, Calling
  <2>4. /\ Tail(call.path) \in Seq(Key) /\ Len(Tail(call.path)) = L - 1
        /\ L - 1 \in 1 .. n /\ Head(Tail(call.path)) = call.path[2]
        /\ \A i \in 1 .. L - 1 : Tail(call.path)[i] = call.path[i + 1]
    BY <1>3, <1>16
  <2>5. /\ n - (L - 1) = k + 1 /\ (k + 1) + 1 = k + 2
        /\ \A i \in 1 .. L - 1 : /\ i + 1 \in 1 .. L /\ (k + 1) + i = k + (i + 1)
    <3>1. L \in Nat /\ n \in Nat /\ k = n - L
      BY <1>3
    <3> HIDE DEF L, n, k
    <3>2. QED
      BY <3>1
  <2>6. \A i \in 1 .. L - 1 : Tail(call.path)[i] = found.path[(k + 1) + i]
    BY <1>3, <2>4, <2>5
  <2>7. W(k + 2) = IF call.kind = "descendant" /\ call.path[2] = <<>> THEN {}
                   ELSE First(data, {Ahead(c)}, call.path[2], call.kind)
    BY <1>14, <1>16, <2>1
  <2>8. call' # Idle => Seeking'
    <3> DEFINE r == Tail(call.path)
    <3>1. W(n - (L - 1) + 1) = IF call.kind = "descendant" /\ Head(r) = <<>> THEN {}
                               ELSE First(data, {Ahead(c)}, Head(r), call.kind)
      BY <2>4, <2>5, <2>7
    <3>2. \A i \in 1 .. Len(r) : r[i] = found.path[(n - Len(r)) + i]
      BY <2>4, <2>5, <2>6
    <3>3. r \in Seq(Key) /\ Len(r) \in 1 .. n /\ L - 1 = Len(r)
      BY <2>4
    <3> HIDE DEF c, s, here, r
    <3>4. QED
      BY <1>3, <2>1, <2>2, <2>3, <3>1, <3>2, <3>3 DEF Seeking, r
  <2>9. call' # Idle
    <3>1. call'.path # <<>>
      BY <1>3, <1>16, <2>3, <2>4
    <3>2. QED
      BY <3>1 DEF Idle
  <2>10. QED
    BY <2>8, <2>9
<1>17. QED
  BY <1>1, <1>11, <1>12, <1>13, <1>15, <1>16 DEF s, here

LEMMA StepFirst ==
    ASSUME IInv, Seeking, FoundFirst, [Next]_vars
    PROVE  Seeking' /\ FoundFirst'
<1>1. CASE call' = Idle /\ found' = NotFound
  BY <1>1 DEF Seeking, FoundFirst
<1>2. CASE bson_iter_next \/ bson_iter_recurse \/ Return \/ bson_iter_overwrite
  BY <1>1, <1>2 DEF bson_iter_next, bson_iter_recurse, Return, bson_iter_overwrite
<1>3. CASE bson_iter_find \/ bson_iter_find_descendant
  <2> DEFINE P == Paths \cup {<<key>> : key \in Keys}
  <2>1. \E kind : \E path \in P : Call(kind, path)
    <3>1. CASE bson_iter_find
      <4>1. PICK kind \in {"find", "find_case"}, key \in Keys : Call(kind, <<key>>)
        BY <3>1 DEF bson_iter_find
      <4>2. <<key>> \in P
        OBVIOUS
      <4>3. QED
        BY <4>1, <4>2
    <3>2. CASE bson_iter_find_descendant
      <4>1. PICK path \in Paths : Call("descendant", path)
        BY <3>2 DEF bson_iter_find_descendant
      <4>2. QED
        BY <4>1
    <3>3. QED
      BY <1>3, <3>1, <3>2
  <2>2. iters[Top].raw # None
    BY <1>3 DEF bson_iter_find, bson_iter_find_descendant
  <2> HIDE DEF P
  <2>3. PICK kind : \E path \in P : Call(kind, path)
    BY <2>1
  <2>4. PICK path \in P : Call(kind, path)
    BY <2>3
  <2>5. path \in Seq(Key) /\ path # <<>>
    <3> USE DEF P
    <3>1. CASE path \in Paths
      BY <3>1, KeysAssumption DEF Key
    <3>2. CASE path \in {<<key>> : key \in Keys}
      <4>1. PICK key \in Keys : path = <<key>>
        BY <3>2
      <4>2. key \in Key
        BY KeysAssumption DEF Key
      <4>3. QED
        BY <4>1, <4>2
    <3>3. QED
      BY <3>1, <3>2
  <2>6. Seeking'
    BY <2>2, <2>4, <2>5, CallSeeks
  <2>7. call'.path = path
    BY <2>4 DEF Call
  <2>8. call' # Idle
    BY <2>5, <2>7 DEF Idle
  <2>9. QED
    BY <2>6, <2>8 DEF FoundFirst
<1>4. CASE FindNothing
  BY <1>4, FindNothingFirst
<1>5. CASE FindNext
  <2>1. Seeking' /\ (call' = Idle => FoundFirst')
    BY <1>5, FindNextFirst
  <2>2. QED
    BY <2>1 DEF FoundFirst
<1>6. CASE UNCHANGED vars
  BY <1>6 DEF vars, Seeking, FoundFirst, Top
<1>7. QED
  BY <1>2, <1>3, <1>4, <1>5, <1>6 DEF Next, Find

(* A find stops at the first element that has the key, counted from where  *)
(* the iterator was, and fails only if there is none.                      *)
THEOREM FindsFirst == Spec => []FindIsFirst
<1>1. Init => Seeking /\ FoundFirst
  BY DEF Init, Seeking, FoundFirst
<1>2. IInv /\ Seeking /\ FoundFirst /\ [Next]_vars => (Seeking /\ FoundFirst)'
  BY StepFirst
<1>3. FoundFirst => FindIsFirst
  BY LocatedIsWalk
<1>4. QED
  BY <1>1, <1>2, <1>3, Invariance, PTL DEF Spec

=============================================================================
