---------------------------- MODULE DateFunctions ----------------------------
(***************************************************************************)
(* The calendar functions of sheet-fn (families/date.rs, date2.rs) over    *)
(* the serial numbers of sheet-format/src/serial.rs: whole days of the     *)
(* 1900 system, in which serial 0 is 1900-01-00 and serial 60 the day      *)
(* 1900-02-29 that never was.  Times of day, the clock and the 1904 system *)
(* are left out.                                                           *)
(***************************************************************************)
EXTENDS Kernels

CONSTANT DateParts      \* text -> <<separator, number, number, number>>, as split3 cuts it

(* The first of the values that is an error; if none is, what `Of' makes   *)
(* of them after the errors among the plain arguments.                     *)
Checked(args, vs, Of(_)) == Unless(<<ScalarError(args)>> \o vs, LAMBDA all : Of(Tail(all)))

-----------------------------------------------------------------------------
(* The calendar.  Days are counted from 0000-03-01.                        *)

IsLeap(y) == (y % 4 = 0 /\ y % 100 # 0) \/ y % 400 = 0

MonthLength(y, m) ==
    CASE m = 2 -> IF IsLeap(y) THEN 29 ELSE 28
      [] m \in {4, 6, 9, 11} -> 30
      [] OTHER -> 31

DaysToYear(y) == 365 * y + y \div 4 - y \div 100 + y \div 400

DayNumber(y, m, d) ==
    DaysToYear(IF m <= 2 THEN y - 1 ELSE y) + (153 * ((m + 9) % 12) + 2) \div 5 + d - 1

Epoch == DayNumber(1899, 12, 31)

LastDay == DayNumber(9999, 12, 31)

Day(y, m, d) == [type |-> "date", y |-> y, m |-> m, d |-> d]

(* The day of a year that starts in March, and the day it is the n-th of.  *)
MarchDay(y, n, month) ==
    Day(IF month < 10 THEN y ELSE y + 1, 1 + ((month + 2) % 12), n - (153 * month + 2) \div 5 + 1)

MarchYear(day) ==
    (day - day \div 1460 + day \div 36524 - day \div 146096) \div 365

InYear(era, day, y) == MarchDay(400 * era + y, day - DaysToYear(y), (5 * (day - DaysToYear(y)) + 2) \div 153)

Civil(n) == InYear(n \div 146097, n % 146097, MarchYear(n % 146097))

(* The date of a serial, and the serial of a date.                         *)
DateAt(n) == IF n > LastDay THEN Error("#NUM!") ELSE Civil(n)

DateOf(serial) ==
    CASE serial.type = "error" -> serial
      [] serial.n < 0 -> Error("#NUM!")
      [] serial.n = 0 -> Day(1900, 1, 0)
      [] serial.n = 60 -> Day(1900, 2, 29)
      [] OTHER -> DateAt(Epoch + serial.n - (IF serial.n > 60 THEN 1 ELSE 0))

SerialAt(n) ==
    IF n < 1 \/ n > LastDay - Epoch THEN Error("#NUM!") ELSE Number(IF n > 59 THEN n + 1 ELSE n)

SerialOf(y, m, d) ==
    CASE <<y, m, d>> = <<1900, 1, 0>>  -> Number(0)
      [] <<y, m, d>> = <<1900, 2, 29>> -> Number(60)
      [] m \notin 1..12 -> Error("#NUM!")
      [] d \notin 1..MonthLength(y, m) -> Error("#NUM!")
      [] OTHER -> SerialAt(DayNumber(y, m, d) - Epoch)

(* 0 for Monday, by the calendar and not by the serial.                    *)
Weekday0(y, m, d) == (DayNumber(y, m, d) - DayNumber(1970, 1, 1) + 3) % 7

WeekdayOf(date) == Weekday0(date.y, date.m, date.d)

-----------------------------------------------------------------------------
(* Making and taking apart dates.                                          *)

Numeral(args, i) == ToNumber(First(args[i]))

Serial(args, i) ==
    LET n == Numeral(args, i) IN IF n.type = "number" /\ n.n < 0 THEN Error("#NUM!") ELSE n

(* A day that does not fit 16 bits is the largest that does.               *)
InMonth(first, day) ==
    CASE IsError(first) -> first
      [] IsError(DateOf(Number(first.n + day - 1))) -> Error("#NUM!")
      [] OTHER -> Number(first.n + day - 1)

InMonths(months, day) ==
    InMonth(SerialOf(months \div 12, 1 + (months % 12), 1),
            IF day \in -32768..32767 THEN day ELSE 32767)

Date(args) ==
    Checked(args, [i \in 1..3 |-> Numeral(args, i)],
            LAMBDA v : InMonths(12 * (IF v[1].n \in 0..1899 THEN v[1].n + 1900 ELSE v[1].n) + v[2].n - 1,
                                v[3].n))

PartOfDate(args, part) ==
    Checked(args, <<DateOf(Serial(args, 1))>>, LAMBDA v : Number(v[1][part]))

(* WEEKDAY goes by the serial, from Sunday.                                *)
WeekdayNumber(n, way) ==
    CASE way = 1 -> Number(1 + ((n - 1) % 7))
      [] way = 2 -> Number(1 + ((n - 2) % 7))
      [] way = 3 -> Number((n - 2) % 7)
      [] OTHER   -> Error("#NUM!")

WeekDay(args) ==
    Checked(args, <<Serial(args, 1), DateOf(Serial(args, 1)), Given(args, 2, 1)>>,
            LAMBDA v : WeekdayNumber(v[1].n, v[3].n))

(* Months later: the same day, or the last if there is none (`end': the    *)
(* last).                                                                  *)
SameDay(y, m, d, end) ==
    SerialOf(y, m, IF end \/ d > MonthLength(y, m) THEN MonthLength(y, m) ELSE d)

MonthsLater(date, months, end) == SameDay(months \div 12, 1 + (months % 12), date.d, end)

AddMonths(args, end) ==
    Checked(args, <<Serial(args, 1), Numeral(args, 2), DateOf(Serial(args, 1))>>,
            LAMBDA v : MonthsLater(v[3], 12 * v[3].y + v[3].m - 1 + v[2].n, end))

Shorthand(y) == IF y <= 29 THEN 2000 + y ELSE IF y < 100 THEN 1900 + y ELSE y

Parsed(parts) ==
    CASE parts[1] = "-" -> IF parts[2] >= 100 THEN SerialOf(parts[2], parts[3], parts[4]) ELSE Error("#NUM!")
      [] parts[1] = "/" -> SerialOf(Shorthand(parts[4]), parts[2], parts[3])

DateValue(v) ==
    CASE IsError(v) -> v
      [] ToText(v) \notin DOMAIN DateParts -> Error("#VALUE!")
      [] IsError(Parsed(DateParts[ToText(v)])) -> Error("#VALUE!")
      [] OTHER -> Parsed(DateParts[ToText(v)])

-----------------------------------------------------------------------------
(* Spans.                                                                  *)

Earlier(m1, d1, m2, d2) == m1 < m2 \/ (m1 = m2 /\ d1 < d2)

Months(s, e) == 12 * (e.y - s.y) + e.m - s.m - (IF e.d < s.d THEN 1 ELSE 0)

(* Days past the last whole month, counted from the month before.          *)
DaysPastMonth(s, e) ==
    e.d - s.d + (CASE e.d >= s.d -> 0
                   [] e.m = 1    -> 31
                   [] OTHER      -> MonthLength(e.y, e.m - 1))

EndInYear(e, y) == SerialOf(y, e.m, IF e.d < MonthLength(y, e.m) THEN e.d ELSE MonthLength(y, e.m))

DaysPastYear(s, e) ==
    Unless(<<EndInYear(e, IF Earlier(e.m, e.d, s.m, s.d) THEN s.y + 1 ELSE s.y), SerialOf(s.y, s.m, s.d)>>,
           LAMBDA v : Number(v[1].n - v[2].n))

DateDifIn(unit, from, to, s, e) ==
    CASE unit = "d"  -> Number(to - from)
      [] unit = "y"  -> Number(e.y - s.y - (IF Earlier(e.m, e.d, s.m, s.d) THEN 1 ELSE 0))
      [] unit = "m"  -> Number(Months(s, e))
      [] unit = "md" -> Number(DaysPastMonth(s, e))
      [] unit = "ym" -> Number(Months(s, e) % 12)
      [] unit = "yd" -> DaysPastYear(s, e)
      [] OTHER -> Error("#NUM!")

DateDif(args) ==
    Checked(args, <<Serial(args, 1), Serial(args, 2)>>, LAMBDA v :
        IF v[2].n < v[1].n THEN Error("#NUM!")
        ELSE Unless(<<DateOf(v[1]), DateOf(v[2])>>, LAMBDA dates :
                 DateDifIn(Folded(ToText(First(args[3]))), v[1].n, v[2].n, dates[1], dates[2])))

Days(args) ==
    Checked(args, <<Serial(args, 1), Serial(args, 2)>>, LAMBDA v : Number(v[1].n - v[2].n))

(* Months of 30 days.  The American way takes the end of February as the   *)
(* 30th where it starts, and a 31st as the 30th only after a start there.  *)
Days30(s, e, from, to) == 360 * (e.y - s.y) + 30 * (e.m - s.m) + to - from

Until(s, e, from, european) ==
    Days30(s, e, from, IF e.d = 31 /\ (european \/ from = 30) THEN 30 ELSE e.d)

Days360Of(s, e, european) ==
    Until(s, e, IF s.d = 31 \/ (~european /\ s.m = 2 /\ s.d = MonthLength(s.y, 2)) THEN 30 ELSE s.d, european)

Days360(args) ==
    Checked(args, <<Serial(args, 1), Serial(args, 2), Flag(args, 3, FALSE),
                    DateOf(Serial(args, 1)), DateOf(Serial(args, 2))>>,
            LAMBDA v : Number(Days360Of(v[4], v[5], v[3].b)))

YearsBetween(from, to, s, e, basis) ==
    CASE basis = 0 -> Number(Cut(Days360Of(s, e, FALSE), 360))
      [] basis = 1 -> Number(Cut((to - from) * (e.y - s.y + 1), DaysToYear(e.y) - DaysToYear(s.y - 1)))
      [] basis = 2 -> Number(Cut(to - from, 360))
      [] basis = 3 -> Number(Cut(to - from, 365))
      [] basis = 4 -> Number(Cut(Days360Of(s, e, TRUE), 360))
      [] OTHER -> Error("#NUM!")

YearsInOrder(from, to, basis) ==
    Unless(<<DateOf(Number(from)), DateOf(Number(to))>>,
           LAMBDA v : YearsBetween(from, to, v[1], v[2], basis))

YearFrac(args) ==
    Checked(args, <<Serial(args, 1), Serial(args, 2), Given(args, 3, 0)>>, LAMBDA v :
        CASE v[1].n = v[2].n -> Number(0)
          [] v[1].n < v[2].n -> YearsInOrder(v[1].n, v[2].n, v[3].n)
          [] v[1].n > v[2].n -> YearsInOrder(v[2].n, v[1].n, v[3].n))

-----------------------------------------------------------------------------
(* Working days.                                                           *)

DaySet(days) == [type |-> "days", days |-> days]

(* The holidays of the i-th argument: only what is given as a value must   *)
(* be a day.                                                               *)
OneHoliday(n) ==
    CASE IsError(n) -> n
      [] IsError(DateOf(n)) -> Error("#NUM!")
      [] OTHER -> DaySet({n.n})

Holidays(args, i) ==
    CASE i > Len(args) -> DaySet({})
      [] args[i].is = "scalar" -> OneHoliday(ToNumber(args[i].v))
      [] OTHER -> Unless(FlattenSeq(args[i].rows), LAMBDA vs :
                      DaySet({v.n : v \in {u \in ToSet(vs) : u.type = "number" /\ u.n >= 0}}))

(* The days of the week off, from Monday: a number of the list or seven    *)
(* marks.                                                                  *)
OffByNumber(n) ==
    CASE n \in 1..7   -> DaySet({(n + 4) % 7, (n + 5) % 7})
      [] n \in 11..17 -> DaySet({(n + 2) % 7})
      [] OTHER -> Error("#NUM!")

Mark(t, i) == SubSeq(t, i, i)

OffByMarks(t) ==
    IF Len(t) # 7 \/ \E i \in 1..Len(t) : Mark(t, i) \notin {"0", "1"} THEN Error("#VALUE!")
    ELSE DaySet({i \in 0..6 : Mark(t, i + 1) = "1"})

OffBy(v) ==
    CASE v.type = "error" -> v
      [] v.type = "blank" -> DaySet({5, 6})
      [] v.type = "text"  -> OffByMarks(v.t)
      [] OTHER -> OffByNumber(ToNumber(v).n)

Weekend(args, i) == IF i = 0 \/ i > Len(args) THEN DaySet({5, 6}) ELSE OffBy(First(args[i]))

IsWorkday(n, off, holidays) == n \notin holidays /\ WeekdayOf(DateOf(Number(n))) \notin off

Workdays(from, to, off, holidays) == {n \in from..to : IsWorkday(n, off, holidays)}

CountWorkdays(from, to, off, holidays) ==
    IF IsError(DateOf(Number(to))) THEN Error("#NUM!")
    ELSE Number(Cardinality(Workdays(from, to, off, holidays)))

(* Days, weekend and holidays are read in this order; `w' and `h' are the  *)
(* arguments that give the weekend (0: it is fixed) and the holidays.      *)
NetworkDays(args, w, h) ==
    Unless(<<ScalarError(SubSeq(args, 1, 2)), Serial(args, 1), Serial(args, 2), Weekend(args, w), Holidays(args, h)>>,
           LAMBDA v : IF v[2].n <= v[3].n THEN CountWorkdays(v[2].n, v[3].n, v[4].days, v[5].days)
                      ELSE UnaryValue("-", CountWorkdays(v[3].n, v[2].n, v[4].days, v[5].days)))

(* The walk from a day to the working day that many further or back: it    *)
(* ends within as many weeks as it counts days and meets holidays, or at   *)
(* the end of the calendar.                                                *)
LastSerial == LastDay - Epoch + 1

Clamped(n) == IF n < 0 THEN 0 ELSE IF n > LastSerial THEN LastSerial ELSE n

Passed(days, n, count) == {m \in days : IF count > 0 THEN m <= n ELSE m >= n}

Nth(days, count) ==
    IF Size(count) > Cardinality(days) THEN Error("#NUM!")
    ELSE Number(CHOOSE n \in days : Cardinality(Passed(days, n, count)) = Size(count))

Stretch(from, count, weeks) ==
    CASE from > LastSerial + 1 -> <<1, 0>>
      [] count > 0 -> <<from + 1, Clamped(from + 7 * weeks)>>
      [] count < 0 -> <<Clamped(from - 7 * weeks), from - 1>>

Walk(stretch, count, off, holidays) ==
    Nth(Workdays(stretch[1], stretch[2], off, holidays), count)

Workday(args, w, h) ==
    Unless(<<ScalarError(SubSeq(args, 1, 2)), Serial(args, 1), Numeral(args, 2), Weekend(args, w),
             IF w > 0 /\ Weekend(args, w) = DaySet(0..6) THEN Error("#VALUE!") ELSE Holidays(args, h)>>,
           LAMBDA v : IF v[3].n = 0 THEN v[2]
                      ELSE Walk(Stretch(v[2].n, v[3].n, Size(v[3].n) + Cardinality(v[5].days) + 1),
                                v[3].n, v[4].days, v[5].days))

-----------------------------------------------------------------------------
(* Weeks of the year.                                                      *)

DayOfYear(date) == DayNumber(date.y, date.m, date.d) - DayNumber(date.y, 1, 1) + 1

WeekFrom(date, start) == 1 + (DayOfYear(date) - 1 + ((Weekday0(date.y, 1, 1) - start) % 7)) \div 7

LongYear(y) == Weekday0(y, 1, 1) = 3 \/ (IsLeap(y) /\ Weekday0(y, 1, 1) = 2)

WeeksIn(y) == IF LongYear(y) THEN 53 ELSE 52

IsoWeekOf(date, week) ==
    CASE week < 1 -> WeeksIn(date.y - 1)
      [] week > WeeksIn(date.y) -> 1
      [] OTHER -> week

IsoWeek(date) == IsoWeekOf(date, (DayOfYear(date) - WeekdayOf(date) + 9) \div 7)

WeekOf(date, way) ==
    CASE way \in {1, 17} -> Number(WeekFrom(date, 6))
      [] way \in {2, 11} -> Number(WeekFrom(date, 0))
      [] way \in 12..16  -> Number(WeekFrom(date, way - 11))
      [] way = 21        -> Number(IsoWeek(date))
      [] OTHER -> Error("#NUM!")

WeekNum(args) ==
    Checked(args, <<Serial(args, 1), Given(args, 2, 1), DateOf(Serial(args, 1))>>,
            LAMBDA v : WeekOf(v[3], v[2].n))

IsoWeekNum(args) == Checked(args, <<DateOf(Serial(args, 1))>>, LAMBDA v : Number(IsoWeek(v[1])))

-----------------------------------------------------------------------------
DateMeta ==
       "DATE" :> <<3, 3, {}>>     @@ "YEAR" :> <<1, 1, {}>>    @@ "MONTH" :> <<1, 1, {}>>
    @@ "DAY" :> <<1, 1, {}>>      @@ "WEEKDAY" :> <<1, 2, {}>> @@ "EDATE" :> <<2, 2, {}>>
    @@ "EOMONTH" :> <<2, 2, {}>>  @@ "DATEDIF" :> <<3, 3, {}>> @@ "DAYS" :> <<2, 2, {}>>
    @@ "DAYS360" :> <<2, 3, {}>>  @@ "YEARFRAC" :> <<2, 3, {}>> @@ "DATEVALUE" :> <<1, 1, {}>>
    @@ "WEEKNUM" :> <<1, 2, {}>>  @@ "ISOWEEKNUM" :> <<1, 1, {}>>
    @@ "NETWORKDAYS" :> <<2, 3, {"range"}>>      @@ "WORKDAY" :> <<2, 3, {"range"}>>
    @@ "NETWORKDAYS.INTL" :> <<2, 4, {"range"}>> @@ "WORKDAY.INTL" :> <<2, 4, {"range"}>>

DateKernel(fn, args) ==
    CASE fn = "DATE"       -> Date(args)
      [] fn = "YEAR"       -> PartOfDate(args, "y")
      [] fn = "MONTH"      -> PartOfDate(args, "m")
      [] fn = "DAY"        -> PartOfDate(args, "d")
      [] fn = "WEEKDAY"    -> WeekDay(args)
      [] fn = "EDATE"      -> AddMonths(args, FALSE)
      [] fn = "EOMONTH"    -> AddMonths(args, TRUE)
      [] fn = "DATEDIF"    -> DateDif(args)
      [] fn = "DAYS"       -> Days(args)
      [] fn = "DAYS360"    -> Days360(args)
      [] fn = "YEARFRAC"   -> YearFrac(args)
      [] fn = "DATEVALUE"  -> DateValue(First(args[1]))
      [] fn = "WEEKNUM"    -> WeekNum(args)
      [] fn = "ISOWEEKNUM" -> IsoWeekNum(args)
      [] fn = "NETWORKDAYS"      -> NetworkDays(args, 0, 3)
      [] fn = "WORKDAY"          -> Workday(args, 0, 3)
      [] fn = "NETWORKDAYS.INTL" -> NetworkDays(args, 3, 4)
      [] fn = "WORKDAY.INTL"     -> Workday(args, 3, 4)
=============================================================================
