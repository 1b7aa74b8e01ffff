------------------------------- MODULE Calendar -------------------------------
(***************************************************************************)
(* Dates as the server computes with them: Python's proleptic Gregorian    *)
(* calendar, the due dates of a recurrence rule (tasks/scheduler.py) and   *)
(* the windows of the leaderboard (api/leaderboard.py).                    *)
(*                                                                         *)
(* A date is <<year, month, day>>.  Dates are compared, and counted, by    *)
(* their ordinal: the first of January of the year 1, a Monday, has 1.     *)
(***************************************************************************)
EXTENDS Integers, FiniteSetsExt

Year(t)  == t[1]
Month(t) == t[2]
Day(t)   == t[3]

IsLeap(y) == y % 4 = 0 /\ (y % 100 # 0 \/ y % 400 = 0)

\* calendar.monthrange(y, m)[1]
MonthLength(y, m) ==
    IF m = 2 THEN IF IsLeap(y) THEN 29 ELSE 28
    ELSE IF m \in {4, 6, 9, 11} THEN 30 ELSE 31

IsDate(t) ==
    /\ t \in (Nat \ {0}) \X (1 .. 12) \X (1 .. 31)
    /\ Day(t) <= MonthLength(Year(t), Month(t))

\* date.toordinal()
Ordinal(t) ==
    LET y == Year(t) - 1
    IN  365 * y + y \div 4 - y \div 100 + y \div 400
        + SumFunctionOnSet([m \in 1 .. 12 |-> MonthLength(Year(t), m)], 1 .. Month(t) - 1)
        + Day(t)

\* date.weekday(): Monday is 0.
Weekday(ordinal) == (ordinal - 1) % 7

\* date.fromordinal()
FromOrdinal(o) ==
    LET y == CHOOSE y \in o \div 366 .. o \div 365 + 1 :
               Ordinal(<<y, 1, 1>>) <= o /\ o < Ordinal(<<y + 1, 1, 1>>)
        m == CHOOSE m \in 1 .. 12 :
               o - Ordinal(<<y, m, 1>>) \in 0 .. MonthLength(y, m) - 1
    IN  <<y, m, o - Ordinal(<<y, m, 1>>) + 1>>

\* t + timedelta(days=n)
PlusDays(t, n) == FromOrdinal(Ordinal(t) + n)

\* t + relativedelta(months=n): the same day of a later month, or its last.
PlusMonths(t, n) ==
    LET count == 12 * Year(t) + Month(t) - 1 + n
        y     == count \div 12
        m     == (count % 12) + 1
    IN  <<y, m, IF Day(t) > MonthLength(y, m) THEN MonthLength(y, m) ELSE Day(t)>>
-----------------------------------------------------------------------------
(* Due dates *)

\* A rule is [unit |-> "days", "weeks" or "months", n |-> interval_n].
PlusInterval(t, rule) ==
    CASE rule.unit = "days"   -> PlusDays(t, rule.n)
      [] rule.unit = "weeks"  -> PlusDays(t, 7 * rule.n)
      [] rule.unit = "months" -> PlusMonths(t, rule.n)

ShortestInterval(rule) ==
    CASE rule.unit = "days"   -> rule.n
      [] rule.unit = "weeks"  -> 7 * rule.n
      [] rule.unit = "months" -> 28 * rule.n

\* One more of the dates up to the horizon.
OneStep(done, rule, horizon) ==
    IF Ordinal(done.next) > horizon THEN done
    ELSE [next |-> PlusInterval(done.next, rule), due |-> done.due \cup {done.next}]

\* The dates from first to the horizon, one interval after the other.
Stepped(first, rule, horizon) ==
    LET intervals == (horizon - Ordinal(first)) \div ShortestInterval(rule)
    IN  FoldSet(LAMBDA k, done : OneStep(done, rule, horizon),
                [next |-> first, due |-> {}], 0 .. intervals).due

\* Mutant: the steps start at the floor, where the first date is older.
DueDatesFromFloor(first, rule, floor, horizon) ==
    Stepped(IF Ordinal(first) < floor THEN PlusDays(first, floor - Ordinal(first)) ELSE first,
            rule, horizon)

\* _compute_due_dates: dates before the floor are passed over.
DueDates(first, rule, floor, horizon) ==
    {t \in Stepped(first, rule, horizon) : Ordinal(t) >= floor}
-----------------------------------------------------------------------------
(* Windows *)

\* _compute_window: the ordinals of the days of a week or a month; none are
\* asked for of all time.
Window(scope, t) ==
    LET monday == Ordinal(t) - Weekday(Ordinal(t))
        first  == Ordinal(<<Year(t), Month(t), 1>>)
    IN  CASE scope = "this_week"  -> monday .. monday + 6
          [] scope = "this_month" -> first .. first + MonthLength(Year(t), Month(t)) - 1
          [] scope = "all_time"   -> {}
=============================================================================
