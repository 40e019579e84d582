-------------------------------- MODULE Time --------------------------------
(***************************************************************************)
(* Broken-down time: gmtime_r, timegm and __isleap of libugly.             *)
(*                                                                         *)
(* A time_t is a pair <<day, sec>>: days since 1970 and seconds of the     *)
(* day, so that numbers stay below 2^31.  It is not negative.              *)
(***************************************************************************)
EXTENDS Integers, Sequences, FiniteSets

CONSTANTS Starts,    \* days on which the clock may begin
          Span,      \* bound: days that it runs
          Seconds    \* seconds of the day that are looked at

ASSUME TimeAssumption ==
  Starts \subseteq Nat /\ Span \in Nat /\ Seconds \subseteq 0 .. 86399

VARIABLES began, now,    \* days
          sec,           \* of the day
          tm             \* what gmtime_r says of it

clock == <<began, now, sec, tm>>

isleap(year) == year % 4 = 0 /\ (year % 100 # 0 \/ year % 400 = 0)

(* __spm[i] is spm[i + 1]. *)
spm == <<0, 31, 59, 90, 120, 151, 181, 212, 243, 273, 304, 334, 365>>

(* The days that the loop over the years subtracts before it is at year y. *)
Before(y) == 365 * (y - 1970) + Cardinality({i \in 1970 .. y - 1 : isleap(i)})

(* for (i=1970; ; ++i): the year, and the day in it. *)
YearOf(work) ==
  LET i == CHOOSE y \in 1970 + work \div 366 .. 1970 + work \div 365 :
             Before(y) <= work /\ work < Before(y + 1)
  IN  <<i, work - Before(i)>>

(* for (i=11; i && (__spm[i]>work); --i) ; *)
MonthOf(work) == CHOOSE i \in 0 .. 11 : spm[i + 1] <= work /\ work < spm[i + 2]

(* Mutant: the 29th of February is taken for the first of March. *)
gmtime_rMarch(day, s) ==
  LET y    == YearOf(day)
      late == isleap(y[1]) /\ y[2] > 59
      work == IF late THEN y[2] - 1 ELSE y[2]
  IN  [tm_sec |-> s % 60, tm_min |-> (s \div 60) % 60, tm_hour |-> s \div 3600,
       tm_wday |-> (4 + day) % 7, tm_year |-> y[1] - 1900, tm_yday |-> y[2],
       tm_mon |-> MonthOf(work),
       tm_mday |-> (IF late /\ y[2] = 59 THEN 2 ELSE 1) + work - spm[MonthOf(work) + 1]]

gmtime_r(day, s) ==
  LET y    == YearOf(day)
      late == isleap(y[1]) /\ y[2] > 58
      work == IF late THEN y[2] - 1 ELSE y[2]
  IN  [tm_sec |-> s % 60, tm_min |-> (s \div 60) % 60, tm_hour |-> s \div 3600,
       tm_wday |-> (4 + day) % 7, tm_year |-> y[1] - 1900, tm_yday |-> y[2],
       tm_mon |-> MonthOf(work),
       tm_mday |-> (IF late /\ y[2] = 59 THEN 2 ELSE 1) + work - spm[MonthOf(work) + 1]]

(* Carry to the next field, when it is above the limit of 60 that the code *)
(* tests for minutes and hours alike.                                      *)
Carry(t, low, high) ==
  IF t[low] > 60 THEN [t EXCEPT ![high] = @ + t[low] \div 60, ![low] = @ % 60] ELSE t

(* while (t->tm_mday>__spm[1+t->tm_mon]) *)
Days[t \in [{"tm_sec", "tm_min", "tm_hour", "tm_mday", "tm_mon", "tm_year", "tm_wday", "tm_yday"} -> Int]] ==
  IF t.tm_mday <= spm[t.tm_mon + 2] THEN t
  ELSE LET d == t.tm_mday - spm[t.tm_mon + 1]
                - (IF t.tm_mon = 1 /\ isleap(t.tm_year + 1900) THEN 1 ELSE 0)
       IN  Days[IF t.tm_mon < 11 THEN [t EXCEPT !.tm_mday = d, !.tm_mon = @ + 1]
                ELSE [t EXCEPT !.tm_mday = d, !.tm_mon = 0, !.tm_year = @ + 1]]

(* What timegm makes of the fields before it computes. *)
Normal(t) ==
  LET u == Carry(Carry(Carry(t, "tm_sec", "tm_min"), "tm_min", "tm_hour"), "tm_hour", "tm_mday")
      v == IF u.tm_mon > 12 THEN [u EXCEPT !.tm_year = @ + u.tm_mon \div 12, !.tm_mon = @ % 12] ELSE u
  IN  Days[IF v.tm_mon < 0 THEN [v EXCEPT !.tm_mon = 0] ELSE v]

(* Mutant: 2100 is passed a year late. *)
CenturiesLate(years) ==
  IF years < 132 THEN 0
  ELSE LET c == (years - 132) \div 100
       IN  (c \div 4) * 3 + 1 + (IF c % 4 = 3 THEN 2 ELSE c % 4)

(* "After 2100 we have to substract 3 leap years for every 400 years" *)
Centuries(years) ==
  IF years < 131 THEN 0
  ELSE LET c == (years - 131) \div 100
       IN  (c \div 4) * 3 + 1 + (IF c % 4 = 3 THEN 2 ELSE c % 4)

(* years is taken before the fields are made normal. *)
timegm(t0) ==
  LET years == t0.tm_year - 70
      t     == Normal(t0)
      yday  == spm[t.tm_mon + 1] + t.tm_mday - 1
               + (IF isleap(t.tm_year + 1900) /\ t.tm_mon > 1 THEN 1 ELSE 0)
      day   == years * 365 + (years + 1) \div 4 - Centuries(years) + yday
  IN  IF t.tm_year < 70 THEN <<-1, -1>>
      ELSE <<day, (t.tm_hour * 60 + t.tm_min) * 60 + t.tm_sec>>

ClockInit ==
  /\ began \in Starts /\ now = began /\ sec = 0
  /\ tm = gmtime_r(now, sec)

ClockTick ==
  /\ now < began + Span /\ now' = now + 1
  /\ sec' \in Seconds
  /\ tm' = gmtime_r(now', sec')
  /\ UNCHANGED began

ClockSpec == ClockInit /\ [][ClockTick]_clock

-----------------------------------------------------------------------------
(* Properties.                                                             *)

Civil == [year |-> tm.tm_year + 1900, mon |-> tm.tm_mon, mday |-> tm.tm_mday,
          wday |-> tm.tm_wday, yday |-> tm.tm_yday]

Days1970 == INSTANCE Calendar WITH date <- Civil

(* gmtime's dates follow each other as the days of the calendar do, over   *)
(* leap days, the ends of years and the centuries that are not leap years. *)
ImplementsCalendar == Days1970!CalendarSpec

(* timegm takes a time that gmtime has broken down back to where it was,   *)
(* though the two count leap years in different ways.                      *)
RoundTrip == timegm(tm) = <<now, sec>>
=============================================================================
