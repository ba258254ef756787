------------------------------ MODULE BsonDates ------------------------------
(***************************************************************************)
(* ISO 8601 dates: src/bson/bson-iso8601.c, and src/bson/bson-timegm.c,    *)
(* which looks for a time by bisection.  A text is a sequence of character *)
(* codes; a date is a number of seconds and one of milliseconds.           *)
(***************************************************************************)
LOCAL INSTANCE Integers
LOCAL INSTANCE Sequences
LOCAL INSTANCE SequencesExt
LOCAL INSTANCE FiniteSetsExt

CONSTANTS SECSPERMIN, MINSPERHOUR, HOURSPERDAY, \* 60, 60, 24
          TimeMin, TimeMax  \* bound: what the bisection starts from (int64_t)

SECSPERHOUR == SECSPERMIN * MINSPERHOUR
SECSPERDAY  == SECSPERHOUR * HOURSPERDAY

(* Division as in C.                                                       *)
Quotient(a, b) == IF a >= 0 THEN a \div b ELSE -((-a) \div b)

isleap(y) == y % 4 = 0 /\ (y % 100 # 0 \/ y % 400 = 0)
year_lengths(y) == IF isleap(y) THEN 366 ELSE 365
mon_lengths(y) == <<31, IF isleap(y) THEN 29 ELSE 28, 31, 30, 31, 30, 31, 31, 30, 31, 30, 31>>

leaps_thru_end_of(y) ==
    LET upto(z) == z \div 4 - z \div 100 + z \div 400
    IN  IF y >= 0 THEN upto(y) ELSE -(upto(-(y + 1)) + 1)

-----------------------------------------------------------------------------
(* From year y, tdays after it began, to the year that day is in.          *)
YearOf ==
    LET from[p \in Int \X Int] ==
            LET y == p[1]  tdays == p[2]
                tdelta == Quotient(tdays, 366)
                newy == y + (IF tdelta # 0 THEN tdelta ELSE IF tdays < 0 THEN -1 ELSE 1)
                leapdays == leaps_thru_end_of(newy - 1) - leaps_thru_end_of(y - 1)
            IN  IF tdays \in 0 .. year_lengths(y) - 1 THEN p
                ELSE from[<<newy, tdays - (newy - y) * 365 - leapdays>>]
    IN  from

(* From the second rem of day p[2] of year p[1] (before it if negative) to *)
(* the day it is in.                                                       *)
DayOf == [rem \in Int, p \in Int \X Int |->
    IF rem >= 0 THEN p
    ELSE IF p[2] > 0 THEN <<p[1], p[2] - 1>> ELSE <<p[1] - 1, year_lengths(p[1] - 1) - 1>>]

MonthOf == [p \in Int \X Int |->
    LET before == [m \in 0 .. 11 |-> FoldLeft(+, 0, SubSeq(mon_lengths(p[1]), 1, m))]
        m == Max({k \in 0 .. 11 : before[k] <= p[2]})
    IN  <<p[1], m, p[2] - before[m] + 1>>]

ClockOf(rem) == <<rem \div SECSPERHOUR, (rem % SECSPERHOUR) \div SECSPERMIN, rem % SECSPERMIN>>

(* The broken-down time of t, <<year, mon, mday, hour, min, sec>>.  There  *)
(* are no leap seconds, no offset, and no year out of range for the times  *)
(* of the bound.                                                           *)
timesub(t) ==
    LET tdays == Quotient(t, SECSPERDAY)
    IN  MonthOf[DayOf[t - tdays * SECSPERDAY, YearOf[<<1970, tdays>>]]] \o ClockOf(t % SECSPERDAY)

(* The sign of the difference of two broken-down times.                    *)
tmcomp(a, b) ==
    LET differ == {i \in 1 .. 6 : a[i] # b[i]}
    IN  IF differ = {} THEN 0 ELSE IF a[Min(differ)] < b[Min(differ)] THEN -1 ELSE 1

-----------------------------------------------------------------------------
(* A day of a month that may be out of the month.                          *)
Normal ==
    LET from[y \in Int, mon \in Int, mday \in Int] ==
            LET li == IF mon > 1 THEN 1 ELSE 0
                length == mon_lengths(y)[mon + 1]
            IN  IF mday <= 0 THEN from[y - 1, mon, mday + year_lengths(y - 1 + li)]
                ELSE IF mday > 366 THEN from[y + 1, mon, mday - year_lengths(y + li)]
                ELSE IF mday <= length THEN <<y, mon, mday>>
                ELSE from[IF mon = 11 THEN y + 1 ELSE y, (mon + 1) % 12, mday - length]
    IN  from

(* Where to look next between lo and hi.                                   *)
Middle(lo, hi) ==
    LET mid == Quotient(lo, 2) + Quotient(hi, 2)
    IN  IF mid < lo THEN lo ELSE IF mid > hi THEN hi ELSE mid

(* The times that are `your' among those from lo to hi: one or none.  An   *)
(* end that was looked at is left out.                                     *)
Bisect(your) ==
    LET from[lo \in Int, hi \in Int, t \in Int] ==
            LET lo1 == IF t = lo THEN lo + 1 ELSE lo
                hi1 == IF t = hi /\ t # lo THEN hi - 1 ELSE hi
                t1  == IF t = lo THEN t + 1 ELSE IF t = hi THEN t - 1 ELSE t
            IN  IF timesub(t) = your THEN {t}
                ELSE IF lo1 > hi1 THEN {}
                ELSE IF tmcomp(timesub(t), your) > 0 THEN from[lo1, t1, Middle(lo1, t1)]
                ELSE from[t1, hi1, Middle(t1, hi1)]
    IN  from[TimeMin, TimeMax, Middle(TimeMin, TimeMax)]

(* The time of second sec of a minute of day d.  Seconds beyond a minute   *)
(* are added to the time found without them.  The variant forgets them.    *)
TimeOf_SecondsLost ==
    [d \in Seq(Int), sec \in Int |-> Bisect(Append(d, sec % SECSPERMIN))]

TimeOf ==
    [d \in Seq(Int), sec \in Int |->
        LET outside == sec \notin 0 .. SECSPERMIN - 1
            saved == IF ~outside THEN 0 ELSE IF d[1] < 1970 THEN sec + 1 - SECSPERMIN ELSE sec
            left == IF ~outside THEN sec ELSE IF d[1] < 1970 THEN SECSPERMIN - 1 ELSE 0
        IN  {t + saved : t \in Bisect(Append(d, left))}]

(* tm is <<year, mon, mday, hour, min, sec>>, each maybe out of range.     *)
time2sub(tm) ==
    LET hour == tm[4] + tm[5] \div MINSPERHOUR
    IN  TimeOf[Normal[tm[1] + tm[2] \div 12, tm[2] % 12, tm[3] + hour \div HOURSPERDAY]
                  \o <<hour % HOURSPERDAY, tm[5] % MINSPERHOUR>>,
               tm[6]]

(* time2 tries again with the seconds in their range; time1 has no other   *)
(* type of time to try.                                                    *)
WithSecondsNormal(tm) == [tm EXCEPT ![5] = @ + tm[6] \div SECSPERMIN, ![6] = @ % SECSPERMIN]

time2(tm) == LET first == time2sub(tm)
             IN  IF first # {} THEN first ELSE time2sub(WithSecondsNormal(tm))

(* -1 says that no time was found.                                         *)
TimeFound == [found \in SUBSET Int |-> IF found = {} THEN -1 ELSE CHOOSE t \in found : TRUE]

_bson_timegm(tm) == TimeFound[time2(tm)]

-----------------------------------------------------------------------------
DASH == 45
COLON == 58
PLUS == 43
POINT == 46
SPACE == 32
CapitalT == 84
CapitalZ == 90

IsNumber(text) == \A i \in DOMAIN text : text[i] \in 48 .. 57
NumberOf(text) == FoldLeft(LAMBDA n, c : 10 * n + c - 48, 0, text)

(* parse_num, given the digits there must be (any number if -1).           *)
parse_num(text, digits, min, max) ==
    /\ digits >= 0 => Len(text) = digits
    /\ IsNumber(text) /\ NumberOf(text) \in min .. max

(* The token from `at' up to one of the terminals, or to the end of str.   *)
get_tok(terminals, str, at) ==
    LET ends == {k \in at .. Len(str) : str[k] \in terminals}
        end  == IF ends = {} THEN Len(str) + 1 ELSE Min(ends)
    IN  [found |-> ends # {}, text |-> SubSeq(str, at, end - 1),
         end |-> IF ends = {} THEN 0 ELSE str[end],
         next |-> IF ends = {} THEN end ELSE end + 1]

(* The tokens in their order: year, month, day, hour, minute, seconds if   *)
(* there is a colon before them and milliseconds if there is a point.      *)
Terminals == <<{DASH}, {DASH}, {CapitalT}, {COLON}, {COLON, PLUS, DASH, CapitalZ},
               {POINT, PLUS, DASH, CapitalZ}, {PLUS, DASH, CapitalZ}>>
Opening == <<0, 0, 0, 0, 0, COLON, POINT>>
First == [found |-> TRUE, text |-> <<>>, end |-> 0, next |-> 1]

NextToken(str, before, k) ==
    IF Opening[k] \in {0, before.end} THEN get_tok(Terminals[k], str, before.next)
    ELSE [before EXCEPT !.text = <<>>]

Tokens(str) ==
    Tail(FoldLeft(LAMBDA toks, k : Append(toks, NextToken(str, Last(toks), k)), <<First>>,
                  [k \in 1 .. 7 |-> k]))

(* The offset of a time zone in seconds: 0, or what is added for one.      *)
IsZone(tz) ==
    \/ tz = <<CapitalZ>>
    \/ /\ Len(tz) = 5 /\ tz[1] \in {PLUS, DASH}
       /\ parse_num(SubSeq(tz, 2, 3), -1, -23, 23) /\ parse_num(SubSeq(tz, 4, 5), -1, 0, 59)

Adjustment(tz) ==
    IF tz[1] = CapitalZ THEN 0
    ELSE (IF tz[1] = DASH THEN 1 ELSE -1)
            * (NumberOf(SubSeq(tz, 4, 5)) * 60 + NumberOf(SubSeq(tz, 2, 3)) * 60 * 60)

Millis(text) == NumberOf(text) * (CASE Len(text) = 1 -> 100 [] Len(text) = 2 -> 10 [] OTHER -> 1)

Bad == <<"error">>

(* The zone begins with the character that ended the token before it; at   *)
(* the end of the text that is the last one of that token.                 *)
Zone(str, tok) == SubSeq(str, tok[7].next - 1, Len(str))
IsToken(t, digits, min, max) == parse_num(t.text, digits, min, max)

Parseable(str, tok) ==
    /\ \A k \in 1 .. 5 : tok[k].found
    /\ \A k \in 6 .. 7 : Opening[k] = tok[k - 1].end
          => Len(str) - tok[k - 1].next + 1 >= 2 /\ tok[k].text # <<>>
    /\ IsToken(tok[1], 4, -9999, 9999) /\ IsToken(tok[2], 2, 1, 12) /\ IsToken(tok[3], 2, 1, 31)
    /\ IsToken(tok[4], 2, 0, 23) /\ IsToken(tok[5], 2, 0, 59)
    /\ tok[6].text # <<>> => IsToken(tok[6], 2, 0, 60)
    /\ IsZone(Zone(str, tok))
    /\ Len(tok[7].text) <= 3 /\ IsNumber(tok[7].text)

Parsed(str, tok) ==
    IF Parseable(str, tok)
    THEN <<_bson_timegm([k \in 1 .. 6 |-> NumberOf(tok[k].text) - (IF k = 2 THEN 1 ELSE 0)])
             + Adjustment(Zone(str, tok)), Millis(tok[7].text)>>
    ELSE Bad

_bson_iso8601_date_parse(str) ==
    CHOOSE answer \in {Parsed(str, tok) : tok \in {Tokens(str)}} : TRUE

(* n in at least w characters, padded with c.                              *)
Padded(n, w, c) ==
    [i \in 1 .. w |-> IF i < w /\ n < 10 ^ (w - i) THEN c ELSE 48 + ((n \div 10 ^ (w - i)) % 10)]

(* "%3d" pads the milliseconds with spaces.  gmtime_r is timesub.          *)
Formatted(tm) ==
    FlattenSeq([k \in 1 .. 6 |-> Padded(tm[k] + (IF k = 2 THEN 1 ELSE 0), IF k = 1 THEN 4 ELSE 2, 48)
                                    \o <<<<DASH>>, <<DASH>>, <<CapitalT>>, <<COLON>>, <<COLON>>, <<>>>>[k]])

_bson_iso8601_date_format(t, ms) ==
    Formatted(timesub(t)) \o (IF ms = 0 THEN <<>> ELSE <<POINT>> \o Padded(ms, 3, SPACE)) \o <<CapitalZ>>

=============================================================================
