------------------------------ MODULE CivilDate -------------------------------
(***************************************************************************)
(* unix_secs_to_utc, which the logger (file names, log lines) and the      *)
(* tasks macros (timestamps) both hold a copy of, along a clock that       *)
(* counts by the rules of the Gregorian calendar.  Seconds are split into  *)
(* the days and the seconds of the day, for TLC's integers of 32 bits.     *)
(***************************************************************************)
EXTENDS Integers

CONSTANTS Years,   \* the years whose days are counted, from 1970 on
          Readings \* the seconds of the day at which the clock is read, 0 among them

VARIABLES days,    \* whole days since 1970-01-01
          tod,     \* second of the day
          date     \* the reference: year, month and day of the month

dateVars == <<days, tod, date>>

DateAssumption ==
    /\ Years \subseteq {y \in Nat : y >= 1970}
    /\ 0 \in Readings
    /\ Readings \subseteq {t \in Nat : t < 86400}

ASSUME DateAssumed == DateAssumption

----------------------------------------------------------------------------
(* The code: whole divisions, in eras of 400 years from the 1st of March   *)

Hour(t)   == t \div 3600
Minute(t) == (t % 3600) \div 60
Second(t) == t % 60

\* z >= 0 for every u64 of seconds.
Era(z)           == z \div 146097
DayOfEra(z)      == z - Era(z) * 146097
\* Broken: a leap day at the end of each century.
YearOfEraJulian(doe) == (doe - doe \div 1460 - doe \div 146096) \div 365
YearOfEra(doe) == (doe - doe \div 1460 + doe \div 36524 - doe \div 146096) \div 365
DayOfYear(doe, yoe) == doe - (365 * yoe + yoe \div 4 - yoe \div 100)
\* 0 for March.
MonthPart(doy) == (5 * doy + 2) \div 153

UnixSecsToUtc(d, t) ==
    LET z   == d + 719468
        doe == DayOfEra(z)
        yoe == YearOfEra(doe)
        doy == DayOfYear(doe, yoe)
        mp  == MonthPart(doy)
        mo  == IF mp < 10 THEN mp + 3 ELSE mp - 9
    IN  [y  |-> yoe + Era(z) * 400 + (IF mo <= 2 THEN 1 ELSE 0),
         mo |-> mo,
         d  |-> doy - (153 * mp + 2) \div 5 + 1,
         h  |-> Hour(t), m |-> Minute(t), s |-> Second(t)]

----------------------------------------------------------------------------
(* The reference                                                           *)

IsLeap(y) == y % 4 = 0 /\ (y % 100 # 0 \/ y % 400 = 0)
MonthLength(y, mo) ==
    IF mo = 2 THEN (IF IsLeap(y) THEN 29 ELSE 28) ELSE IF mo \in {4, 6, 9, 11} THEN 30 ELSE 31
LeapsBefore(y) == (y - 1) \div 4 - (y - 1) \div 100 + (y - 1) \div 400
NewYear(y) == 365 * (y - 1970) + LeapsBefore(y) - LeapsBefore(1970)

Tomorrow ==
    IF date.d < MonthLength(date.y, date.mo) THEN [y |-> date.y, mo |-> date.mo, d |-> date.d + 1]
    ELSE IF date.mo < 12 THEN [y |-> date.y, mo |-> date.mo + 1, d |-> 1]
    ELSE [y |-> date.y + 1, mo |-> 1, d |-> 1]

DateInit == \E y \in Years : days = NewYear(y) /\ tod = 0 /\ date = [y |-> y, mo |-> 1, d |-> 1]

\* The clock is read at the next of the times, of this day or of the next.
Tick ==
    LET later == {t \in Readings : t > tod}
    IN  \/ /\ tod' \in {t \in later : \A u \in later : t <= u}
           /\ UNCHANGED <<days, date>>
        \/ /\ later = {} /\ Tomorrow.y \in Years
           /\ days' = days + 1 /\ tod' = 0 /\ date' = Tomorrow

DateSpec == DateInit /\ [][Tick]_dateVars

----------------------------------------------------------------------------
\* The two copies of unix_secs_to_utc say the date and the time of day of the Gregorian
\* calendar, through the leap days, the centuries and the eras (message.rs:181-201,
\* core.rs:287-307).
UtcIsGregorian ==
    LET utc == UnixSecsToUtc(days, tod)
    IN  /\ [y |-> utc.y, mo |-> utc.mo, d |-> utc.d] = date
        /\ utc.h * 3600 + utc.m * 60 + utc.s = tod
        /\ utc.h \in 0 .. 23 /\ utc.m \in 0 .. 59 /\ utc.s \in 0 .. 59
==============================================================================
