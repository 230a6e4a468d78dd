----------------------------- MODULE MCFunctions -----------------------------
(***************************************************************************)
(* Laws of the calendar: pairs of formulas over two dates (A1, A2), a      *)
(* count (B1) and a holiday (B2) that compute one thing in two ways.       *)
(***************************************************************************)
EXTENDS MCEvaluator

F(fn, args) == Func(fn, args)
Plus(a, b) == Binary("+", a, b)
Minus(a, b) == Binary("-", a, b)
Times(a, b) == Binary("*", a, b)
Over(a, b) == Binary("/", a, b)
Less(a, b) == Binary("<", a, b)
Same(a, b) == Binary("=", a, b)
Either2(c, a, b) == F("IF", <<c, a, b>>)
S(t) == Lit(Text(t))
NumError == Lit(Error("#NUM!"))
TrueLit == Lit(Bool(TRUE))
SignOf(e) == Minus(Less(N(0), e), Less(e, N(0)))
Year(e) == F("YEAR", <<e>>)
Month(e) == F("MONTH", <<e>>)
DayIn(e) == F("DAY", <<e>>)
DateFrom(year, month, day) == F("DATE", <<year, month, day>>)
EOMonth(e, n) == F("EOMONTH", <<e, n>>)
EDate(e, n) == F("EDATE", <<e, n>>)
Dif(unit) == F("DATEDIF", <<CellA1, CellA2, S(unit)>>)
Mid15 == DateFrom(Year(CellA1), Month(CellA1), N(15))
NewYear == DateFrom(Year(CellA1), N(1), N(1))
FromMonday(e) == F("WEEKDAY", <<e, N(2)>>)
Holiday == Span(A2, B2)

P(a, b) == Pair(Plain(a), Plain(b))

MCDates == "2020-02-29" :> <<"-", 2020, 2, 29>> @@ "2/29/20" :> <<"/", 2, 29, 20>>
           @@ "2021-02-29" :> <<"-", 2021, 2, 29>> @@ "12/31/30" :> <<"/", 12, 31, 30>>

(* What holds on every day, the day that never was included.               *)
Calendar == <<
    P(DateFrom(Year(CellA1), Month(CellA1), DayIn(CellA1)), Plus(CellA1, N(0))),
    P(DateFrom(Year(CellA1), Plus(Month(CellA1), CellB1), DayIn(CellA1)),
      Plus(Minus(DateFrom(Year(CellA1), Plus(Month(CellA1), CellB1), N(1)), N(1)), DayIn(CellA1))),
    P(FromMonday(CellA1), Plus(F("WEEKDAY", <<CellA1, N(3)>>), N(1))),
    P(F("WEEKDAY", <<Plus(CellA1, N(7))>>), F("WEEKDAY", <<CellA1>>)),
    P(Plus(F("NETWORKDAYS", <<CellA1, CellA2>>), F("NETWORKDAYS.INTL", <<CellA1, CellA2, S("1111100")>>)),
      Plus(Minus(CellA2, CellA1), Either2(Less(CellA2, CellA1), N(-1), N(1)))),
    P(Plus(F("DAYS", <<CellA1, CellA2>>), F("DAYS", <<CellA2, CellA1>>)), Minus(Plus(CellA1, CellA2), Plus(CellA1, CellA2))),
    P(Dif("D"), Either2(Less(CellA2, CellA1), NumError, F("DAYS", <<CellA2, CellA1>>))),
    P(Plus(Times(Dif("y"), N(12)), Dif("ym")), Dif("m")),
    P(F("WEEKNUM", <<CellA1, N(21)>>), F("ISOWEEKNUM", <<CellA1>>)) >>

(* What needs the calendar to be the real one.                             *)
RealCalendar == <<
    P(EOMonth(CellA1, CellB1), Minus(EDate(Plus(EOMonth(CellA1, N(0)), N(1)), CellB1), N(1))),
    P(EDate(CellA1, CellB1),
      F("MIN", <<EOMonth(CellA1, CellB1), Plus(EOMonth(CellA1, Minus(CellB1, N(1))), DayIn(CellA1))>>)),
    P(Plus(Plus(EOMonth(CellA1, Minus(Dif("m"), N(1))), DayIn(CellA1)), Dif("md")),
      Either2(Less(CellA2, CellA1), NumError, CellA2)),
    P(F("LET", <<x, Minus(DateFrom(Plus(Year(CellA1), Dif("y")), Month(CellA1), DayIn(CellA1)), N(0)),
                 Either2(Same(Plus(Month(CellA1), DayIn(CellA1)), N(31)), N(0), Less(CellA2, x))>>),
      Either2(Less(CellA2, CellA1), NumError,
              Either2(Same(Plus(Month(CellA1), DayIn(CellA1)), N(31)), N(0), Lit(Bool(FALSE))))),
    P(Either2(Same(CellB1, N(0)), N(0),
              F("NETWORKDAYS", <<Plus(CellA1, SignOf(CellB1)), F("WORKDAY", <<CellA1, CellB1>>)>>)),
      Plus(CellB1, N(0))),
    P(Either2(Same(CellB1, N(0)), N(0),
              F("NETWORKDAYS", <<Plus(CellA1, SignOf(CellB1)), F("WORKDAY", <<CellA1, CellB1, Holiday>>), Holiday>>)),
      Plus(CellB1, N(0))),
    P(Either2(Same(CellB1, N(0)), N(0),
              F("NETWORKDAYS.INTL", <<Plus(CellA1, SignOf(CellB1)),
                                      F("WORKDAY.INTL", <<CellA1, CellB1, N(12), CellB2>>), S("1000000"), CellB2>>)),
      Plus(CellB1, N(0))),
    P(F("NETWORKDAYS", <<CellA1, CellA2>>),
      Plus(F("NETWORKDAYS", <<CellA1, CellA2, CellB2>>),
           Times(Either2(Less(CellA2, CellA1), N(-1), N(1)),
                 Times(Less(FromMonday(CellB2), N(6)),
                       Times(Binary("<=", F("MIN", <<CellA1, CellA2>>), CellB2),
                             Binary("<=", CellB2, F("MAX", <<CellA1, CellA2>>))))))),
    P(F("NETWORKDAYS.INTL", <<CellA1, CellA2, N(7)>>), F("NETWORKDAYS.INTL", <<CellA1, CellA2, S("0000110")>>)),
    P(F("WORKDAY.INTL", <<CellA1, CellB1, S("1111111")>>),
      Either2(Plus(CellA1, CellB1), Lit(Error("#VALUE!")), Lit(Error("#VALUE!")))),
    P(F("NETWORKDAYS", <<CellA1, CellA1>>), Plus(N(0), Less(FromMonday(CellA1), N(6)))),
    P(F("DAYS360", <<Mid15, EDate(Mid15, CellB1)>>), Times(CellB1, N(30))),
    P(F("YEARFRAC", <<CellA1, CellA2>>),
      Over(F("DAYS360", <<F("MIN", <<CellA1, CellA2>>), F("MAX", <<CellA1, CellA2>>)>>), N(360))),
    P(F("YEARFRAC", <<CellA1, CellA2, N(4)>>),
      Over(F("DAYS360", <<F("MIN", <<CellA1, CellA2>>), F("MAX", <<CellA1, CellA2>>), TrueLit>>), N(360))),
    P(F("LET", <<x, Plus(Minus(CellA1, FromMonday(CellA1)), N(4)),
                 Plus(Over(Minus(x, DateFrom(Year(x), N(1), N(1))), N(7)), N(1))>>),
      F("ISOWEEKNUM", <<CellA1>>)),
    P(F("WEEKNUM", <<CellA1, N(2)>>),
      Plus(Over(Minus(Minus(CellA1, FromMonday(CellA1)), Minus(NewYear, FromMonday(NewYear))), N(7)), N(1))),
    P(HStacked(F("DATEVALUE", <<S("2020-02-29")>>),
               HStacked(F("DATEVALUE", <<S("12/31/30")>>), F("DATEVALUE", <<S("2021-02-29")>>))),
      HStacked(F("DATEVALUE", <<S("2/29/20")>>),
               HStacked(DateFrom(N(1930), N(12), N(31)), Lit(Error("#VALUE!"))))),
    Pair(Arrayed(EDate(ColA, CellB1)), Plain(VStacked(EDate(CellA1, CellB1), EDate(CellA2, CellB1)))) >>

FunctionSheets == MCSheets
    @@ "dates" :>
        [steps |->    A1 :> <<Number(43830), Number(43861), Number(43889), Number(43890), Number(44199)>>
                   @@ A2 :> <<Number(43890), Number(43921)>>
                   @@ B1 :> <<Number(0), Number(1), Number(-2), Number(13)>>
                   @@ B2 :> <<Number(43864), Blank, Number(43890)>>,
         laws |-> Calendar \o RealCalendar]
    @@ "epoch" :>
        [steps |->    A1 :> <<Number(0), Number(1), Number(31), Number(58), Number(59), Number(60), Number(61), Number(62)>>
                   @@ A2 :> <<Number(59), Number(60), Number(61), Blank, Number(426)>>
                   @@ B1 :> <<Number(0), Number(1), Number(2), Number(-1)>>,
         laws |-> Calendar]
=============================================================================
