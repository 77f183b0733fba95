-------------------------------- MODULE CivilTime --------------------------------
(***************************************************************************)
(* The calendar arithmetic of src/src/core/civil_date.rs and the daylight    *)
(* saving rules of src/src/config/timezone.rs and src/src/replay/driver.rs,  *)
(* checked against a calendar that is walked one day at a time.  Rust's      *)
(* integer division truncates; every dividend here is made non-negative or   *)
(* floored as the code does.                                                 *)
(***************************************************************************)
EXTENDS Integers

CONSTANTS
  Starts,      (* days to start from: [day, date, weekday], the first of a month *)
  Walk         (* bound: days walked from a start                          *)

VARIABLES
  day,         (* days since 1970-01-01                                     *)
  civil,       (* its date <<year, month, day>>, from the table of months   *)
  weekday,     (* 0 is Sunday                                               *)
  sundays,     (* Sundays of the month so far                               *)
  walked       (* bound                                                     *)

civilVars == <<day, civil, weekday, sundays, walked>>

TruncDiv(a, b) == IF a >= 0 THEN a \div b ELSE 0 - ((0 - a) \div b)

EraDays == 146097

YearOfEra(doe) == (doe - doe \div 1460 + doe \div 36524 - doe \div 146096) \div 365

CivilFromDays(days) ==
  LET z == days + 719468
      era == TruncDiv(IF z >= 0 THEN z ELSE z - 146096, EraDays)
      doe == z - era * EraDays
      yoe == YearOfEra(doe)
      doy == doe - (365 * yoe + yoe \div 4 - yoe \div 100)
      mp == (5 * doy + 2) \div 153
      month == IF mp < 10 THEN mp + 3 ELSE mp - 9
  IN <<yoe + era * 400 + (IF month <= 2 THEN 1 ELSE 0), month,
       doy - (153 * mp + 2) \div 5 + 1>>

YmdToDays(year, month, dom) ==
  LET y == IF month <= 2 THEN year - 1 ELSE year
      m == IF month <= 2 THEN month + 9 ELSE month - 3
      era == TruncDiv(IF y >= 0 THEN y ELSE y - 399, 400)
      yoe == y - era * 400
      doy == (153 * m + 2) \div 5 + dom - 1
  IN era * EraDays + yoe * 365 + yoe \div 4 - yoe \div 100 + doy - 719468

DayOfWeek(year, month, dom) ==
  LET days == YmdToDays(year, month, dom) + 4
      rem == days - 7 * TruncDiv(days, 7)
  IN IF rem < 0 THEN rem + 7 ELSE rem

NthSunday(year, month, n) == 1 + ((7 - DayOfWeek(year, month, 1)) % 7) + (n - 1) * 7

\* is_us_dst (timezone.rs), of a day and an hour of UTC.
IsUsDst(days, hour) ==
  LET date == CivilFromDays(days)
      at(month, sunday, h) == YmdToDays(date[1], month, sunday) * 24 + h
  IN \/ date[2] \in 4..10
     \/ date[2] = 3 /\ days * 24 + hour >= at(3, NthSunday(date[1], 3, 2), 7)
     \/ date[2] = 11 /\ days * 24 + hour < at(11, NthSunday(date[1], 11, 1), 6)

SecondSunday(weekdayOfFirst) == 1 + (IF weekdayOfFirst = 0 THEN 7 ELSE 14 - weekdayOfFirst)

\* is_us_dst (driver.rs), of a date; the weekday is chrono's.
IsUsDstDate(year, month, dom) ==
  LET first == DayOfWeek(year, month, 1)
  IN \/ month \in 4..10
     \/ month = 3 /\ dom >= SecondSunday(first)
     \/ month = 11 /\ dom < 1 + (IF first = 0 THEN 0 ELSE 7 - first)

\* resolve_offset of the NyClose rule, and utc_to_mt5_ms and mt5_to_utc_ms, in hours.
NyCloseOffset(hours) == IF IsUsDst(hours \div 24, hours % 24) THEN 3 ELSE 2
DateOffset(hours) == LET date == CivilFromDays(hours \div 24)
                     IN IF IsUsDstDate(date[1], date[2], date[3]) THEN 3 ELSE 2
UtcToMt5(hours) == hours + DateOffset(hours)
Mt5ToUtc(hours) == hours - DateOffset(hours)

(***************************************************************************)
(* The calendar, one day at a time.                                          *)
(***************************************************************************)
IsLeapYear(y) == (y % 4 = 0 /\ y % 100 # 0) \/ y % 400 = 0
LastOfMonth(y, m) == IF m \in {4, 6, 9, 11} THEN 30
                     ELSE IF m = 2 THEN (IF IsLeapYear(y) THEN 29 ELSE 28) ELSE 31

CivilInit ==
  \E s \in Starts :
    /\ day = s.day /\ civil = s.date /\ weekday = s.weekday
    /\ sundays = IF s.weekday = 0 THEN 1 ELSE 0
    /\ walked = 0

NextDay ==
  LET ends == civil[3] = LastOfMonth(civil[1], civil[2])
      sunday == weekday = 6
  IN /\ walked < Walk /\ walked' = walked + 1
     /\ day' = day + 1
     /\ weekday' = (weekday + 1) % 7
     /\ civil' = IF ~ends THEN [civil EXCEPT ![3] = @ + 1]
                 ELSE IF civil[2] < 12 THEN <<civil[1], civil[2] + 1, 1>>
                 ELSE <<civil[1] + 1, 1, 1>>
     /\ sundays' = (IF ends THEN 0 ELSE sundays) + (IF sunday THEN 1 ELSE 0)

CivilSpec == CivilInit /\ [][NextDay]_civilVars

\* A start is the first of a month, with its day and its weekday.
CivilLimits ==
  /\ Walk \in Nat
  /\ \A s \in Starts :
       /\ s.date \in Int \X (1 .. 12) \X {1}
       /\ s.day = YmdToDays(s.date[1], s.date[2], 1)
       /\ s.weekday = (s.day + 4) % 7     \* 1970-01-01 was a Thursday

\* Both conversions agree with the calendar on every day, across leap years,
\* centuries and the epoch ("returns invalid dates such as 2026-3-0", the regression
\* their comment names).
ConversionsMatchCalendar ==
  /\ CivilFromDays(day) = civil
  /\ YmdToDays(civil[1], civil[2], civil[3]) = day
  /\ DayOfWeek(civil[1], civil[2], civil[3]) = weekday

\* Daylight saving time lasts from the second Sunday of March, 07:00 UTC, to the first
\* of November, 06:00 UTC.
DstMatchesCalendar ==
  \A hour \in {0, 5, 6, 7, 23} :
    IsUsDst(day, hour) <=>
      \/ civil[2] \in 4..10
      \/ civil[2] = 3 /\ (sundays > 2 \/ (sundays = 2 /\ (weekday # 0 \/ hour >= 7)))
      \/ civil[2] = 11 /\ (sundays = 0 \/ (sundays = 1 /\ weekday = 0 /\ hour < 6))

\* The market is open from Sunday 22:00 to Friday 22:00 UTC.
MarketOpen(hours) ==
  LET hour == hours - 24 * day
  IN weekday \in 1..4 \/ (weekday = 0 /\ hour >= 22) \/ (weekday = 5 /\ hour < 22)

\* The replay's day-wise rule and the live rule, which know the time of the change
\* differently, give the same server time whenever the market is open, and the two
\* directions of the replay's conversion are then inverse to each other.
ReplayAgreesWithLive ==
  \A hours \in {24 * day + h : h \in {0, 7, 12, 21, 22, 23}} :
    MarketOpen(hours) => /\ UtcToMt5(hours) = hours + NyCloseOffset(hours)
                         /\ Mt5ToUtc(UtcToMt5(hours)) = hours

\* The calendar arithmetic of the program agrees with the calendar, on every day (civil_date.rs,
\* timezone.rs, driver.rs).
CalendarCorrect == ConversionsMatchCalendar /\ DstMatchesCalendar /\ ReplayAgreesWithLive
=============================================================================
