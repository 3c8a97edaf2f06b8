------------------------------ MODULE Calendar ------------------------------
(***************************************************************************)
(* The calendar of internal/vectorize/vectorize.go: day counts, weekdays   *)
(* and minutes between two timestamps, and the Gregorian calendar they are *)
(* to follow.                                                              *)
(*                                                                         *)
(* A timestamp t is the record of the numbers that the code decodes from   *)
(* fixed places of a string of 19 bytes or more: year, month, day, hour,   *)
(* minute, second.  Nothing makes them a date: Proper says when they are   *)
(* one.  Weekdays count from Monday, 0.                                    *)
(***************************************************************************)
EXTENDS Integers

\* Go's / and %, which truncate towards zero.
Quo(a, b) == IF a >= 0 THEN a \div b ELSE - ((- a) \div b)
Rem(a, b) == a - b * Quo(a, b)

LeapDays(y) == Quo(y, 4) - Quo(y, 100) + Quo(y, 400)

(***************************************************************************)
(* toUnixDays: the year begins with March, so that a leap day is its last. *)
(***************************************************************************)
\* Wrong: the leap day is in the year that begins after it.
toUnixDaysJanuary(y, m, d) ==
  LET month == IF m <= 2 THEN m + 12 ELSE m
      past  == IF m <= 2 THEN y - 1 ELSE y
  IN  365 * past + LeapDays(y) + Quo(153 * (month - 3) + 2, 5) + d - 719469

toUnixDays(y, m, d) ==
  LET month == IF m <= 2 THEN m + 12 ELSE m
      year  == IF m <= 2 THEN y - 1 ELSE y
  IN  365 * year + LeapDays(year) + Quo(153 * (month - 3) + 2, 5) + d - 719469

(***************************************************************************)
(* The weekday of parseHourWeekday.  Its table has no place for a month    *)
(* outside 1..12: the program panics.                                      *)
(***************************************************************************)
MonthShift == <<0, 3, 2, 5, 0, 3, 5, 1, 4, 6, 2, 4>>

weekday(y, m, d) ==
  LET year == IF m < 3 THEN y - 1 ELSE y
      dow  == Rem(year + LeapDays(year) + MonthShift[m] + d, 7)
  IN  Rem(dow + 6, 7)

(***************************************************************************)
(* parseMinutesBetween, of two timestamps that are long enough.            *)
(***************************************************************************)
Minutes(t) == toUnixDays(t.y, t.m, t.d) * 1440 + t.h * 60 + t.min + Quo(t.s, 60)

minutesBetween(later, earlier) ==
  LET diff == Minutes(later) - Minutes(earlier) IN IF diff < 0 THEN 0 ELSE diff

-----------------------------------------------------------------------------
(***************************************************************************)
(* The Gregorian calendar, one day after the other.                        *)
(***************************************************************************)
Leap(y) == y % 4 = 0 /\ (y % 100 # 0 \/ y % 400 = 0)

MonthLength(y, m) ==
  IF m = 2 THEN IF Leap(y) THEN 29 ELSE 28
  ELSE IF m \in {4, 6, 9, 11} THEN 30 ELSE 31

Date(y, m, d) == y \in Nat \ {0} /\ m \in 1 .. 12 /\ d \in 1 .. MonthLength(y, m)

NextDay(y, m, d) ==
  IF d < MonthLength(y, m) THEN <<y, m, d + 1>>
  ELSE IF m < 12 THEN <<y, m + 1, 1>> ELSE <<y + 1, 1, 1>>

Proper(t) ==
  Date(t.y, t.m, t.d) /\ t.h \in 0 .. 23 /\ t.min \in 0 .. 59 /\ t.s \in 0 .. 59

Seconds(t) == toUnixDays(t.y, t.m, t.d) * 86400 + t.h * 3600 + t.min * 60 + t.s
=============================================================================
