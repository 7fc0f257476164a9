---------------------------- MODULE MarketCalendar ----------------------------
(***************************************************************************)
(* The trading calendar of US equities: which days have a session, and     *)
(* when its regular hours are, in UTC.                                     *)
(*                                                                         *)
(* A day is its number since 1970-01-01, a weekday 0 (Monday) to 6, a time *)
(* its minute of the day.                                                  *)
(***************************************************************************)
EXTENDS Integers

\* The proleptic Gregorian calendar, from the chrono crate.
DayNumber(year, month, day) ==
    LET y == IF month <= 2 THEN year - 1 ELSE year
        era == y \div 400
        yearOfEra == y - era * 400
        dayOfYear == (153 * ((month + 9) % 12) + 2) \div 5 + day - 1
    IN  era * 146097 + yearOfEra * 365 + yearOfEra \div 4 - yearOfEra \div 100
            + dayOfYear - 719468

Weekday(n) == (n + 3) % 7

YearOf(n) ==
    CHOOSE y \in (1970 + n \div 366)..(1970 + n \div 365) :
        DayNumber(y, 1, 1) <= n /\ n < DayNumber(y + 1, 1, 1)

NthWeekday(year, month, weekday, nth) ==
    LET first == DayNumber(year, month, 1)
    IN  first + ((7 + weekday - Weekday(first)) % 7) + 7 * (nth - 1)

LastWeekday(year, month, weekday) ==
    LET last == IF month = 12 THEN DayNumber(year + 1, 1, 1) - 1
                ELSE DayNumber(year, month + 1, 1) - 1
    IN  last - ((7 + Weekday(last) - weekday) % 7)

\* A fixed holiday on a Saturday moves to Friday, on a Sunday to Monday.
ObservedFixed(year, month, day) ==
    LET actual == DayNumber(year, month, day)
    IN  CASE Weekday(actual) = 5 -> actual - 1
          [] Weekday(actual) = 6 -> actual + 1
          [] OTHER -> actual

GoodFriday(year) ==
    LET a == year % 19
        b == year \div 100
        c == year % 100
        g == (b - (b + 8) \div 25 + 1) \div 3
        h == (19 * a + b - b \div 4 - g + 15) % 30
        l == (32 + 2 * (b % 4) + 2 * (c \div 4) - h - (c % 4)) % 7
        m == (a + 11 * h + 22 * l) \div 451
        n == h + l - 7 * m + 114
    IN  DayNumber(year, n \div 31, (n % 31) + 1) - 2

Holidays(year) ==
    {ObservedFixed(year, 1, 1), NthWeekday(year, 1, 0, 3), NthWeekday(year, 2, 0, 3),
     GoodFriday(year), LastWeekday(year, 5, 0), ObservedFixed(year, 7, 4),
     NthWeekday(year, 9, 0, 1), NthWeekday(year, 11, 3, 4), ObservedFixed(year, 12, 25)}
        \union IF year >= 2022 THEN {ObservedFixed(year, 6, 19)} ELSE {}

\* The holidays of the next year too: its New Year may be observed in this one.
IsSession(n) ==
    /\ Weekday(n) \notin {5, 6}
    /\ n \notin Holidays(YearOf(n)) \union Holidays(YearOf(n) + 1)

\* No ten days pass without a session.
PreviousSession(n) ==
    CHOOSE d \in (n - 10)..n : IsSession(d) /\ \A e \in (d + 1)..n : ~IsSession(e)

\* expected_latest_us_equity_session: today's bar is due at 22:00.
ExpectedLatest(n, minute) == PreviousSession(IF minute < 22 * 60 THEN n - 1 ELSE n)

IsDst(n) ==
    LET year == YearOf(n)
    IN  NthWeekday(year, 3, 6, 2) <= n /\ n < NthWeekday(year, 11, 6, 1)

\* regular_session_utc_bounds
Opens(n) == IF IsDst(n) THEN 13 * 60 + 30 ELSE 14 * 60 + 30
Closes(n) == Opens(n) + 390

\* session_policy_state
SessionLabel(n, minute) ==
    IF ~IsSession(n) THEN "closed"
    ELSE IF minute < Opens(n) THEN "pre_market"
    ELSE IF minute >= Closes(n) THEN "after_hours" ELSE "regular"
=============================================================================
