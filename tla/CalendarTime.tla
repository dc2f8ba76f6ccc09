---------------------------- MODULE CalendarTime ----------------------------
(***************************************************************************)
(* time_ce.c: the time functions of the C library for a system without     *)
(* them.  Seconds since 1970 become the fields of a calendar and back, with *)
(* the time zone in three global variables that every call sets again from  *)
(* the date it is given, and one static buffer for the fields.  What        *)
(* Windows does (FILETIME, SYSTEMTIME) is the calendar itself.              *)
(***************************************************************************)
EXTENDS Integers, Sequences, SequencesExt, FiniteSets

CONSTANTS
  Instants,      \* times in seconds that are asked about
  Edits,         \* what a caller adds to the fields: [field, by]
  Formats,       \* formats of strftime: sequences of conversions and letters
  BufferSizes,   \* maxs of strftime
  Bias, DaylightBias,            \* the time zone, in minutes
  DaylightDate, StandardDate,    \* [month, day, secs]: between them is summer
  LastYear,      \* bound: of the calendar
  MaxEdits,      \* bound: edits between two calls
  TIME_MAX       \* the last time there is: of 31 bits in the code

VARIABLES
  localtime, isdst,   \* _localtime in seconds, _isdst
  tmbuf,              \* the static struct tm
  asked,              \* the time tmbuf was made from
  added,              \* what was added to its fields since, in seconds
  used,               \* the bias it was made with
  zone,               \* the bias of the zone SetTz found for it, 0 for gmtime
  result              \* what the last call returned
calendarVars == <<localtime, isdst, tmbuf, asked, added, used, zone, result>>

EPOCH_YR == 1970
SECS_DAY == 86400
Failed == -1
NoResult == [call |-> "none"]

-----------------------------------------------------------------------------
(* The calendar, which the system converts by. *)

LEAPYEAR(year) == year % 4 = 0 /\ (year % 100 # 0 \/ year % 400 = 0)
ytab == <<31, 28, 31, 30, 31, 30, 31, 31, 30, 31, 30, 31>>
DaysIn(year, mon) == IF mon = 1 /\ LEAPYEAR(year) THEN 29 ELSE ytab[mon + 1]

MonthStart(year, mon) ==
  LET start[m \in 0 .. 12] == IF m = 0 THEN 0 ELSE start[m - 1] + DaysIn(year, m - 1)
  IN  start[mon]
YearStart ==
  [y \in EPOCH_YR .. LastYear + 1 |->
     365 * (y - EPOCH_YR) + Cardinality({l \in EPOCH_YR .. y - 1 : LEAPYEAR(l)})]

\* Every time is of a year of the calendar, which is written in four digits; a
\* caller edits the fields that have a weight.
Weight == [sec |-> 1, min |-> 60, hour |-> 3600, mday |-> SECS_DAY]
ASSUME CalendarAssumption ==
  /\ Instants \subseteq 0 .. TIME_MAX /\ TIME_MAX \in Nat
  /\ LastYear \in EPOCH_YR .. 9999 /\ TIME_MAX \div SECS_DAY < YearStart[LastYear + 1]
  /\ \A e \in Edits : e.field \in DOMAIN Weight /\ e.by \in Int
  /\ Bias \in Int /\ DaylightBias \in Int /\ MaxEdits \in Nat

SystemTime(seconds) ==
  LET days == seconds \div SECS_DAY
      year == CHOOSE y \in EPOCH_YR .. LastYear : YearStart[y] <= days /\ days < YearStart[y + 1]
      yday == days - YearStart[year]
      mon == CHOOSE m \in 0 .. 11 : MonthStart(year, m) <= yday /\ yday < MonthStart(year, m + 1)
  IN  [year |-> year, month |-> mon + 1, day |-> yday - MonthStart(year, mon) + 1,
       wday |-> (days + 4) % 7, secs |-> seconds % SECS_DAY]

IsDate(st) ==
  /\ st.year \in EPOCH_YR .. LastYear /\ st.month \in 1 .. 12
  /\ st.day \in 1 .. DaysIn(st.year, st.month - 1) /\ st.secs \in 0 .. SECS_DAY - 1

-----------------------------------------------------------------------------
(* SetTz: summer is from one date to the other of the same year.  A date   *)
(* that is none is compared with what happens to be in memory.             *)

NotAfter(a, b) ==
  \/ a.month < b.month
  \/ a.month = b.month /\ a.day < b.day
  \/ a.month = b.month /\ a.day = b.day /\ a.secs <= b.secs
IsSummer(st) == NotAfter(DaylightDate, st) /\ NotAfter(st, StandardDate)
MaybeSummer(st) == IF IsDate(st) THEN {IsSummer(st)} ELSE BOOLEAN
BiasOf(summer) == IF summer THEN (Bias + DaylightBias) * 60 ELSE Bias * 60

SetTz(summer) == isdst' = summer /\ localtime' = BiasOf(summer)

-----------------------------------------------------------------------------
(* From seconds to fields. *)

\* The months from January on are counted as the 13th and 14th of the year
\* before, February as the 13th too.
JulianDays(st) ==
  LET days(m, y) == (153 * m - 457) \div 5 + 365 * y + y \div 4 - y \div 100 + y \div 400
      start == 1 + days(13, st.year - 1)
  IN  IF st.month >= 3 THEN st.day + days(st.month, st.year) - start
      ELSE st.day + days(13, st.year - 1) - start

SystemTimeToTm(st, summer) ==
  [hour |-> st.secs \div 3600, min |-> (st.secs \div 60) % 60, sec |-> st.secs % 60,
   mday |-> st.day, mon |-> st.month - 1, year |-> st.year, wday |-> st.wday,
   yday |-> JulianDays(st), isdst |-> summer]

TmToSystemTime(tm) ==
  [year |-> tm.year, month |-> tm.mon + 1, day |-> tm.mday, wday |-> tm.wday,
   secs |-> IF tm.hour \in 0 .. 23 /\ tm.min \in 0 .. 59 /\ tm.sec \in 0 .. 59
            THEN (tm.hour * 60 + tm.min) * 60 + tm.sec ELSE -1]

SecondsSince1970ToSystemTime(timer, local, bias) ==
  SystemTime(IF local THEN timer - bias ELSE timer)

\* Mutant: the second conversion is left out.
ConvertOnce(timer, local, bias, summer, newBias) ==
  [st |-> SecondsSince1970ToSystemTime(timer, local, bias), used |-> IF local THEN bias ELSE 0]

\* The time is converted with the bias of the call before and, if it is in
\* summer then, once more with its own: a time in winter keeps the first.
Converted(timer, local, bias, summer, newBias) ==
  LET by == IF summer THEN newBias ELSE bias
  IN  [st |-> SecondsSince1970ToSystemTime(timer, local, by), used |-> IF local THEN by ELSE 0]

InCalendar(seconds) == seconds \in 0 .. TIME_MAX

gmtime_r(timer, local) ==
  LET first == SecondsSince1970ToSystemTime(timer, local, localtime)
      summer == IsSummer(first)
      c == Converted(timer, local, localtime, summer, BiasOf(summer))
  IN  /\ SetTz(summer)
      /\ tmbuf' = SystemTimeToTm(c.st, summer)
      /\ asked' = timer /\ added' = 0 /\ used' = c.used
      /\ zone' = IF local THEN BiasOf(summer) ELSE 0
      /\ result' = [call |-> IF local THEN "localtime" ELSE "gmtime"]

gmtime == \E timer \in Instants : gmtime_r(timer, FALSE)
localtime_r ==
  \E timer \in Instants :
    /\ \A b \in {localtime, Bias * 60, (Bias + DaylightBias) * 60} : InCalendar(timer - b)
    /\ gmtime_r(timer, TRUE)

\* A date of the system, back to seconds.
SystemTimeToSecondsSince1970(st) ==
  (YearStart[st.year] + MonthStart(st.year, st.month - 1) + st.day - 1) * SECS_DAY + st.secs

\* time, and _tzset: the zone is set from the time it is.
time ==
  \E now \in Instants :
    /\ SetTz(IsSummer(SystemTime(now)))
    /\ result' = [call |-> "time", of |-> now,
                  is |-> SystemTimeToSecondsSince1970(SystemTime(now))]
    /\ UNCHANGED <<tmbuf, asked, added, used, zone>>

-----------------------------------------------------------------------------
(* From fields to seconds. *)

\* Days that are more than the month has go into the months that follow, none
\* of which has less than 28.
RollMonth(d) ==
  LET days == DaysIn(d.year, d.mon)
  IN  IF d.day < days THEN d
      ELSE [day |-> d.day - days, mon |-> (d.mon + 1) % 12,
            year |-> IF d.mon = 11 THEN d.year + 1 ELSE d.year]
Roll(day, mon, year) ==
  LET months == day \div 28
      rolled[k \in 0 .. months] ==
        IF k = 0 THEN [day |-> day, mon |-> mon, year |-> year] ELSE RollMonth(rolled[k - 1])
  IN  rolled[months]

\* The days of the years since 1970, as 32 bits without a sign.
DaysOfYears(year) ==
  LET n == year - EPOCH_YR
      more(k) == IF year % k # 0 /\ year % k < EPOCH_YR % k THEN 1 ELSE 0
  IN  n * 365 + (n \div 4 + more(4)) - (n \div 100 + more(100)) + (n \div 400 + more(400))

\* Seconds, minutes and hours that are too many or negative go into the next
\* larger field, months into years.  The day is an unsigned number: one below
\* the first of its month is millions of years later, which is an overflow.
Carried(tm) ==
  LET min == tm.min + tm.sec \div 60
      hour == tm.hour + min \div 60
  IN  [secs |-> ((hour % 24) * 60 + (min % 60)) * 60 + (tm.sec % 60),
       day |-> hour \div 24 + tm.mday - 1,
       mon |-> tm.mon % 12, year |-> tm.year + tm.mon \div 12]

Overflows(days, secs, bias) ==
  \/ (TIME_MAX - secs) \div SECS_DAY < days
  \/ bias > 0 /\ TIME_MAX - bias < secs + days * SECS_DAY
  \/ bias < 0 /\ secs + days * SECS_DAY < -bias

\* The fields are put right too; those of a day that wrapped are of no use.
mktime ==
  /\ tmbuf # NoResult
  /\ \E summer \in MaybeSummer(TmToSystemTime(tmbuf)) :
       LET c == Carried(tmbuf)
           to == IF c.day < 0 THEN [day |-> 0, mon |-> 0, year |-> LastYear]
                 ELSE Roll(c.day, c.mon, c.year)
           yday == MonthStart(to.year, to.mon) + to.day
           days == DaysOfYears(to.year) + yday
           fails == c.day < 0 \/ to.year < EPOCH_YR \/ Overflows(days, c.secs, BiasOf(summer))
       IN  /\ SetTz(summer)
           /\ result' = [call |-> "mktime",
                         is |-> IF fails THEN Failed ELSE c.secs + days * SECS_DAY + BiasOf(summer),
                         below |-> c.day < 0]
           /\ tmbuf' = IF c.day < 0 THEN NoResult
                       ELSE [hour |-> c.secs \div 3600, min |-> (c.secs \div 60) % 60,
                             sec |-> c.secs % 60, mday |-> to.day + 1, mon |-> to.mon,
                             year |-> to.year, wday |-> (days + 4) % 7, yday |-> yday,
                             isdst |-> tmbuf.isdst]
  /\ UNCHANGED <<asked, added, used, zone>>

\* The caller changes a field: so many seconds, minutes, hours or days more.
Edit ==
  /\ tmbuf # NoResult /\ result.call \in {"localtime", "gmtime", "edit"}
  /\ result.call = "edit" => result.is < MaxEdits
  /\ \E e \in Edits :
       /\ tmbuf' = [tmbuf EXCEPT ![e.field] = @ + e.by]
       /\ added' = added + e.by * Weight[e.field]
  /\ result' = [call |-> "edit", is |-> IF result.call = "edit" THEN result.is + 1 ELSE 1]
  /\ UNCHANGED <<localtime, isdst, asked, used, zone>>

-----------------------------------------------------------------------------
(* Text.  A piece has a number of letters and a value: the index of a name *)
(* or the last digits of a number.                                         *)

pow == <<10, 100, 1000, 10000>>
Number(ilen, ival) == [len |-> ilen, is |-> ival % pow[ilen]]
Name(n) == [len |-> 3, is |-> n]
Letter == [len |-> 1, is |-> 0]

Conversion(c, tm) ==
  CASE c = "a" -> <<Name(tm.wday)>>
    [] c = "b" -> <<Name(tm.mon)>>
    [] c = "c" -> <<Name(tm.wday), Letter, Name(tm.mon), Letter, Number(2, tm.mday), Letter,
                    Number(2, tm.hour), Letter, Number(2, tm.min), Letter, Number(2, tm.sec),
                    Letter, Number(4, tm.year)>>
    [] c = "d" -> <<Number(2, tm.mday)>>
    [] c = "H" -> <<Number(2, tm.hour)>>
    [] c = "I" -> <<Number(2, IF tm.hour % 12 = 0 THEN 12 ELSE tm.hour % 12)>>
    [] c = "j" -> <<Number(3, tm.yday + 1)>>
    [] c = "m" -> <<Number(2, tm.mon + 1)>>
    [] c = "M" -> <<Number(2, tm.min)>>
    [] c = "S" -> <<Number(2, tm.sec)>>
    [] c = "U" -> <<Number(2, tm.yday \div 7 + (IF tm.yday % 7 > tm.wday THEN 1 ELSE 0))>>
    [] c = "W" -> <<Number(2, (tm.yday + 7 - (IF tm.wday = 0 THEN 6 ELSE tm.wday - 1)) \div 7)>>
    [] c = "w" -> <<Number(1, tm.wday)>>
    [] c = "Y" -> <<Number(4, tm.year)>>
    [] c = "y" -> <<Number(2, (tm.year - 1900) % 100)>>
    [] c = "x" -> <<Number(2, tm.mon + 1), Letter, Number(2, tm.mday), Letter, Number(2, tm.year)>>
    [] c = "X" -> <<Number(2, tm.hour), Letter, Number(2, tm.min), Letter, Number(2, tm.sec)>>
    [] OTHER -> <<Letter>>

\* The pieces that fit; what does not is nothing at all to the caller.
Lengths(pieces) ==
  LET sum[i \in 0 .. Len(pieces)] == IF i = 0 THEN 0 ELSE sum[i - 1] + pieces[i].len
  IN  sum
Length(pieces) == Lengths(pieces)[Len(pieces)]
Fitting(pieces, maxs) == IF Length(pieces) > maxs - 1 THEN 0 ELSE Length(pieces)
strftime ==
  /\ tmbuf # NoResult /\ result.call \in {"gmtime", "mktime"}
  /\ \E f \in Formats, maxs \in BufferSizes :
       LET pieces == FlattenSeq([i \in DOMAIN f |-> Conversion(f[i], tmbuf)])
       IN  result' = [call |-> "strftime", of |-> result.call, format |-> f, text |-> pieces,
                      is |-> Fitting(pieces, maxs)]
  /\ UNCHANGED <<localtime, isdst, tmbuf, asked, added, used, zone>>

\* asctime of the fields, and a new line; ctime of the fields of localtime.
ASC_BUFF_SIZE == 26
asctime(tm) == Conversion("c", tm) \o <<Letter>>
ctime ==
  /\ result.call = "localtime"
  /\ result' = [call |-> "ctime", text |-> asctime(tmbuf),
                is |-> Fitting(asctime(tmbuf), ASC_BUFF_SIZE)]
  /\ UNCHANGED <<localtime, isdst, tmbuf, asked, added, used, zone>>

CalendarInit ==
  /\ localtime = 0 /\ isdst = FALSE /\ tmbuf = NoResult
  /\ asked = 0 /\ added = 0 /\ used = 0 /\ zone = 0 /\ result = NoResult

CalendarNext == time \/ gmtime \/ localtime_r \/ mktime \/ Edit \/ strftime \/ ctime
CalendarSpec == CalendarInit /\ [][CalendarNext]_calendarVars

-----------------------------------------------------------------------------
\* The fields a reader finds under the conversions of a date of HTTP.
Reads(text, format, c) == text[CHOOSE i \in DOMAIN format : format[i] = c].is
SecondsOf(year, mon, mday, hour, min, sec) ==
  (YearStart[year] + MonthStart(year, mon) + mday - 1) * SECS_DAY + (hour * 60 + min) * 60 + sec
DateFormat == <<"a", "d", "b", "Y", "H", "M", "S">>

\* The time survives the ways there and back.  The fields of localtime are the
\* local time, but for a time in winter that is converted first of all or after
\* one in summer, which is ahead by the bias of the call before it.
\* mktime gives the time they were made of, with what they are ahead and what
\* the caller added since, but for the difference of the zones of the two dates,
\* and fails only if that is out of range or a field took the day below the
\* first of its month; a date in the header of an answer reads as the time
\* gmtime was given, and the text of ctime, with nothing cut off, as the fields.
TimeSurvives ==
  LET ahead == zone - used
      fields == asked - zone + ahead
  IN
  /\ ahead # 0 => zone = BiasOf(FALSE) /\ used \in {0, BiasOf(TRUE)}
  /\ result.call = "mktime" /\ result.is # Failed =>
       result.is = asked + added + ahead + (localtime - zone)
  /\ result.call = "mktime" /\ result.is = Failed =>
       \/ ~InCalendar(fields + added) \/ ~InCalendar(fields + added + localtime)
       \/ result.below
  /\ result.call = "strftime" /\ result.of = "gmtime" /\ result.format = DateFormat /\ result.is # 0 =>
       LET read(c) == Reads(result.text, DateFormat, c)
       IN  /\ asked = SecondsOf(read("Y"), read("b"), read("d"), read("H"), read("M"), read("S"))
           /\ read("a") = (asked \div SECS_DAY + 4) % 7
  /\ result.call = "ctime" =>
       LET at(i) == result.text[i].is
       IN  /\ result.is = ASC_BUFF_SIZE - 1
           /\ fields = SecondsOf(at(13), at(3), at(5), at(7), at(9), at(11))
  /\ result.call = "time" => result.is = result.of

\* What time_ce.c says of its second version and the code does not do: the local
\* time is made with the bias found for that time, whatever call came before.
LocalTimeIsCurrent == result.call = "localtime" => used = zone
=============================================================================
