------------------------------ MODULE Calendar ------------------------------
(***************************************************************************)
(* The Gregorian calendar, one day after the other.  Months and weekdays   *)
(* are counted from 0 and days of the year too, as in struct tm; weekday 0 *)
(* is Sunday.                                                              *)
(***************************************************************************)
EXTENDS Naturals

VARIABLE date

Leap(y) == y % 4 = 0 /\ (y % 100 = 0 => y % 400 = 0)

Length(y, m) ==
  IF m = 1 THEN IF Leap(y) THEN 29 ELSE 28
  ELSE IF m \in {3, 5, 8, 10} THEN 30 ELSE 31

NewYear(y, w) == [year |-> y, mon |-> 0, mday |-> 1, wday |-> w, yday |-> 0]

(* The epoch was a Thursday; the calendar of a century tells its own. *)
CalendarInit ==
  date \in {NewYear(1970, 4), NewYear(2000, 6), NewYear(2100, 5), NewYear(2200, 3), NewYear(2400, 6)}

Tomorrow(d) ==
  LET w == (d.wday + 1) % 7
  IN  IF d.mday < Length(d.year, d.mon)
      THEN [d EXCEPT !.mday = @ + 1, !.yday = @ + 1, !.wday = w]
      ELSE IF d.mon < 11
           THEN [d EXCEPT !.mday = 1, !.mon = @ + 1, !.yday = @ + 1, !.wday = w]
           ELSE NewYear(d.year + 1, w)

CalendarSpec == CalendarInit /\ [][date' = Tomorrow(date)]_date
=============================================================================
