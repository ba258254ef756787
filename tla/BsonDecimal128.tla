---------------------------- MODULE BsonDecimal128 ----------------------------
(***************************************************************************)
(* Decimal128 to text and back (src/bson/bson-decimal128.c).               *)
(*                                                                         *)
(* A decimal is a sign, a significand and an exponent, or infinite, or     *)
(* NaN; the 113 bits of a significand and the bias of an exponent are not  *)
(* modelled bit by bit.  A significand of SignificandMax or more is one    *)
(* of the larger encodings that stand for zero.  A text is a sequence of   *)
(* character codes without its last 0.                                     *)
(***************************************************************************)
LOCAL INSTANCE Integers
LOCAL INSTANCE Sequences
LOCAL INSTANCE SequencesExt
LOCAL INSTANCE FiniteSetsExt

CONSTANTS MAX_DIGITS,      \* 34
          Half,            \* 17: the digits that go in one 64 bit number
          EXPONENT_MAX,    \* 6111
          EXPONENT_MIN,    \* -6176
          SignificandMax,  \* 2^113, more than 10^MAX_DIGITS
          RadixMax,        \* 2^14
          Junk             \* what may lie behind the array of digits

Number(negative, significand, exponent) ==
    [kind |-> "number", negative |-> negative, significand |-> significand, exponent |-> exponent]
Infinity(negative) == [kind |-> "infinity", negative |-> negative]
NaN == [kind |-> "nan"]

Zero == 48
Digit == 48 .. 57
Dot == 46
Minus == 45
INF == <<73, 110, 102, 105, 110, 105, 116, 121>>  \* Infinity
NAN == <<78, 97, 78>>

(* Without leading zeros, but for zero itself.                             *)
DigitsOf(n) ==
    LET size == CHOOSE k \in 1 .. 9 : n < 10 ^ k /\ (k = 1 \/ n >= 10 ^ (k - 1))
    IN  [i \in 1 .. size |-> Zero + ((n \div 10 ^ (size - i)) % 10)]

-----------------------------------------------------------------------------
Scientific(digits, exponent) ==
    <<Head(digits)>> \o (IF Len(digits) > 1 THEN <<Dot>> \o Tail(digits) ELSE <<>>)
        \o (IF exponent < 0 THEN <<69, Minus>> \o DigitsOf(-exponent) ELSE <<69, 43>> \o DigitsOf(exponent))

Regular(digits, exponent) ==
    LET radix == Len(digits) + exponent
    IN  CASE exponent = 0 -> digits
          [] exponent < 0 /\ radix > 0 ->
               SubSeq(digits, 1, radix) \o <<Dot>> \o SubSeq(digits, radix + 1, Len(digits))
          [] OTHER -> <<Zero, Dot>> \o [i \in 1 .. -radix |-> Zero] \o digits

bson_decimal128_to_string(dec) ==
    LET sign == IF dec.negative THEN <<Minus>> ELSE <<>>
        digits == IF dec.significand >= SignificandMax THEN <<Zero>> ELSE DigitsOf(dec.significand)
        exponent == Len(digits) - 1 + dec.exponent
    IN  CASE dec.kind = "nan" -> NAN
          [] dec.kind = "infinity" -> sign \o INF
          [] OTHER -> sign \o IF exponent < -6 \/ dec.exponent > 0
                              THEN Scientific(digits, exponent) ELSE Regular(digits, dec.exponent)

-----------------------------------------------------------------------------
_dec128_istreq(a, b) ==
    LET lower(s) == [i \in DOMAIN s |-> IF s[i] \in 65 .. 90 THEN s[i] + 32 ELSE s[i]]
    IN  lower(a) = lower(b)

Accepted(dec) == [ok |-> TRUE, dec |-> dec]
Refused == {[ok |-> FALSE, dec |-> NaN]}

(* The characters of s, from one of them on, that are in a set.            *)
EndOf(s, from, set) == Min({i \in from .. Len(s) + 1 : i > Len(s) \/ s[i] \notin set})
Span(s, from, set) == SubSeq(s, from, EndOf(s, from, set) - 1)

(* A text is a numeral and perhaps an exponent, which sscanf reads.        *)
Signed(s) == s # <<>> /\ s[1] \in {43, Minus}
Unsigned(s) == IF Signed(s) THEN Tail(s) ELSE s
Numeral(s) == Span(Unsigned(s), 1, Digit \cup {Dot})
ExponentPart(s) == SubSeq(Unsigned(s), Len(Numeral(s)) + 1, Len(Unsigned(s)))
ScanFrom(e) == EndOf(e, 2, {32})
ScanText(e) == SubSeq(e, ScanFrom(e), Len(e))
ValueOf(digits) == FoldLeft(LAMBDA n, c : 10 * n + (c - Zero), 0, digits)
ExponentOf(s) ==
    LET e == ScanText(ExponentPart(s)) IN
    CASE ExponentPart(s) = <<>> -> 0
      [] e[1] = Minus -> -ValueOf(Tail(e))
      [] OTHER -> ValueOf(Unsigned(e))
WellFormed(s) ==
    LET dots == {i \in DOMAIN Numeral(s) : Numeral(s)[i] = Dot}
        e == ExponentPart(s)
    IN  /\ \A i, j \in dots : i = j
        /\ Numeral(s) # <<Dot>>
        /\ e = <<>> \/ /\ e[1] \in {69, 101}
                       /\ LET n == Unsigned(ScanText(e))
                          IN  n # <<>> /\ \A i \in DOMAIN n : n[i] \in Digit

(* What the loop over the digits leaves behind, with the length of the     *)
(* numeral and the index of a character as C has them: from 0.             *)
Read(s) ==
    LET numeral == Numeral(s)
        read == SelectSeq(numeral, LAMBDA c : c # Dot)
        nonzero == EndOf(read, 1, {Zero})
        from == SubSeq(read, nonzero, Len(read))
    IN  [first_nonzero  |-> IF from = <<>> THEN 0 ELSE nonzero - 1,
         digits         |-> IF from = <<>> THEN <<Zero>> ELSE SubSeq(from, 1, Min({Len(from), MAX_DIGITS})),
         ndigits        |-> IF from = <<>> THEN 1 ELSE Len(from),
         is_zero        |-> from = <<>>,
         radix_position |-> IF Dot \in {numeral[i] : i \in DOMAIN numeral}
                            THEN Len(numeral) - EndOf(numeral, 1, Digit) ELSE 0,
         skipped        |-> (IF Signed(s) THEN 1 ELSE 0)
                               + (IF Len(read) < Len(numeral) THEN 1 ELSE 0)]

CharAt(s, i) == IF i < Len(s) THEN s[i + 1] ELSE 0

(* Trailing zeros are not significant.  The zeros are looked for in the    *)
(* text, as if a radix point came before all digits.                       *)
SignificantDigits(s, r) ==
    IF r.is_zero THEN 0
    ELSE Max({k \in 0 .. r.ndigits : k = 0 \/ CharAt(s, r.first_nonzero + k - 1 + r.skipped) # Zero})

-----------------------------------------------------------------------------
(* The exponent, the last digit and the number of digits while they are    *)
(* brought into range.                                                     *)
Shift(exponent, last_digit, ndigits) ==
    [exponent |-> exponent, last_digit |-> last_digit, ndigits |-> ndigits, ok |-> TRUE]
Failed(n) == [n EXCEPT !.ok = FALSE]

Unscaled(exponent, radix_position) ==
    IF 0 <= exponent /\ exponent <= radix_position /\ radix_position - exponent > RadixMax
    THEN EXPONENT_MIN ELSE exponent - radix_position

(* Too large an exponent: zeros are added to the digits; one zero too many *)
(* is allowed.                                                             *)
Lowered(n, significant) ==
    LET last == n.last_digit + n.exponent - EXPONENT_MAX
    IN  CASE n.exponent <= EXPONENT_MAX -> n
          [] last <= MAX_DIGITS \/ significant = 0 ->
               [n EXCEPT !.exponent = EXPONENT_MAX, !.last_digit = Min({last, MAX_DIGITS + 1})]
          [] OTHER -> Failed(n)

(* Too small an exponent, or too many digits: trailing zeros are dropped.  *)
DropUnstored(n, s, r, significant) ==
    IF CharAt(s, n.ndigits - 1 + r.skipped) # Zero /\ significant # 0 THEN Failed(n)
    ELSE [n EXCEPT !.ndigits = @ - 1]
(* The variant drops what is no zero.                                      *)
DropStored_Rounded(n, r) == [n EXCEPT !.last_digit = @ - 1]
DropStored(n, r) ==
    IF r.digits[n.last_digit + 1] # Zero THEN Failed(n) ELSE [n EXCEPT !.last_digit = @ - 1]
RaiseExponent(n) == IF n.ok /\ n.exponent < EXPONENT_MAX THEN [n EXCEPT !.exponent = @ + 1] ELSE Failed(n)

Raised(n, s, r, significant) ==
    CASE ~n.ok \/ (n.exponent >= EXPONENT_MIN /\ Len(r.digits) >= n.ndigits) -> n
      [] OTHER ->
           IF n.last_digit = 0
           THEN IF significant = 0 THEN [n EXCEPT !.exponent = EXPONENT_MIN] ELSE Failed(n)
           ELSE RaiseExponent(IF Len(r.digits) < n.ndigits THEN DropUnstored(n, s, r, significant)
                              ELSE DropStored(n, r))

RECURSIVE Normalised(_, _, _, _)
Normalised(n, s, r, significant) ==
    LET next == Raised(n, s, r, significant)
    IN  IF next = n THEN n ELSE Normalised(next, s, r, significant)

(* A digit behind the last one that is kept must be a zero.                *)
NeedsRounding(n, s, r, significant) ==
    /\ n.last_digit + 1 < significant
    /\ CharAt(s, r.first_nonzero + n.last_digit + r.skipped + 1) # Zero

(* The digits up to the last, of which there may be one more than the      *)
(* array has.                                                              *)
Digits(r, last_digit, junk) ==
    [i \in 1 .. last_digit + 1 |-> CASE i <= Len(r.digits) -> r.digits[i] - Zero
                                     [] i <= MAX_DIGITS -> 0
                                     [] OTHER -> junk]
Significand(digits) ==
    LET value(part) == FoldLeft(LAMBDA n, d : 10 * n + d, 0, part)
        high == Max({0, Len(digits) - Half})
    IN  value(SubSeq(digits, 1, high)) * 10 ^ Half + value(SubSeq(digits, high + 1, Len(digits)))

(* A significand with a bit too many is encoded as one that stands for     *)
(* zero; bits beyond are lost.                                             *)
Encoded(significand) ==
    IF (significand \div SignificandMax) % 2 = 1 THEN SignificandMax + (significand % (SignificandMax \div 4))
    ELSE significand % SignificandMax

(* All the results there may be.                                           *)
FromNumeral(s) ==
    LET r == Read(s)
        significant == SignificantDigits(s, r)
        start == Shift(Unscaled(ExponentOf(s), r.radix_position), Len(r.digits) - 1, r.ndigits)
        n == Normalised(Lowered(start, significant), s, r, significant)
    IN  IF ~n.ok \/ NeedsRounding(n, s, r, significant) THEN Refused
        ELSE {Accepted(Number(Signed(s) /\ s[1] = Minus,
                              IF significant = 0 THEN 0
                              ELSE Encoded(Significand(Digits(r, n.last_digit, junk))),
                              n.exponent)) : junk \in Junk}

bson_decimal128_from_string(s) ==
    LET word == Unsigned(s) IN
    CASE Numeral(s) = <<>> ->
           IF _dec128_istreq(word, INF) \/ _dec128_istreq(word, SubSeq(INF, 1, 3))
           THEN {Accepted(Infinity(Signed(s) /\ s[1] = Minus))}
           ELSE IF _dec128_istreq(word, NAN) THEN {Accepted(NaN)} ELSE Refused
      [] Numeral(s) # <<>> /\ ~WellFormed(s) -> Refused
      [] OTHER -> FromNumeral(s)

=============================================================================
