--------------------------- MODULE ScoringProofs ----------------------------
(***************************************************************************)
(* Scoring, for every set of inputs, every normalization and width of int: *)
(* the calendar of the vectorizer is the Gregorian one, numbers are read   *)
(* digit by digit, the parser keeps the types of what it reads into, the   *)
(* query has the form that the search relies on, and its times are those   *)
(* of the calendar.                                                        *)
(***************************************************************************)
EXTENDS Scoring, JsonGrammar, SearchLemmas, SequenceTheorems

(***************************************************************************)
(* The calendar: toUnixDays counts the days without a gap, weekday follows *)
(* the count, and the minutes of two timestamps are those elapsed but for  *)
(* less than one.                                                          *)
(***************************************************************************)
LEMMA QuoNat == ASSUME NEW a \in Nat, NEW b \in Nat \ {0} PROVE Quo(a, b) = a \div b
BY DEF Quo

LEMMA RemNat ==
  ASSUME NEW a \in Nat, NEW b \in Nat \ {0}
  PROVE  Rem(a, b) = a % b
<1>1. Quo(a, b) = a \div b
  BY QuoNat
<1>2. a = b * (a \div b) + (a % b)
  OBVIOUS
<1>. QED  BY <1>1, <1>2 DEF Rem

LEMMA LeapDaysNat ==
  ASSUME NEW y \in Nat
  PROVE  /\ LeapDays(y) = y \div 4 - y \div 100 + y \div 400
         /\ LeapDays(y) \in Nat
<1>1. Quo(y, 4) = y \div 4
  BY QuoNat
<1>2. Quo(y, 100) = y \div 100
  BY QuoNat
<1>3. Quo(y, 400) = y \div 400
  BY QuoNat
<1>4. y \div 100 <= y \div 4 /\ y \div 4 \in Int /\ y \div 100 \in Int /\ y \div 400 \in Nat
  OBVIOUS
<1>. QED  BY <1>1, <1>2, <1>3, <1>4 DEF LeapDays

(***************************************************************************)
(* A year has one leap day more behind it than the year before, when it is *)
(* a leap year.                                                            *)
(***************************************************************************)
LEMMA NextYear ==
  ASSUME NEW y \in Nat
  PROVE  LeapDays(y + 1) = LeapDays(y) + (IF Leap(y + 1) THEN 1 ELSE 0)
<1>1. LeapDays(y + 1) = (y + 1) \div 4 - (y + 1) \div 100 + (y + 1) \div 400
  BY y + 1 \in Nat, LeapDaysNat
<1>2. LeapDays(y) = y \div 4 - y \div 100 + y \div 400
  BY LeapDaysNat
<1>3. (y + 1) \div 4 = y \div 4 + IF (y + 1) % 4 = 0 THEN 1 ELSE 0
  OBVIOUS
<1>4. (y + 1) \div 100 = y \div 100 + IF (y + 1) % 100 = 0 THEN 1 ELSE 0
  OBVIOUS
<1>5. (y + 1) \div 400 = y \div 400 + IF (y + 1) % 400 = 0 THEN 1 ELSE 0
  OBVIOUS
<1>6. (y + 1) % 100 = 0 => (y + 1) % 4 = 0
  OBVIOUS
<1>7. (y + 1) % 400 = 0 => (y + 1) % 100 = 0
  OBVIOUS
<1>. QED  BY <1>1, <1>2, <1>3, <1>4, <1>5, <1>6, <1>7 DEF Leap

(***************************************************************************)
(* The days of the months before a month, from March on.                   *)
(***************************************************************************)
MonthDays == <<306, 337, 0, 31, 61, 92, 122, 153, 184, 214, 245, 275>>

Year(y, m) == IF m <= 2 THEN y - 1 ELSE y

LEMMA UnixDays ==
  ASSUME NEW y \in Nat \ {0}, NEW m \in 1 .. 12, NEW d \in Nat
  PROVE  toUnixDays(y, m, d) =
           365 * Year(y, m) + LeapDays(Year(y, m)) + MonthDays[m] + d - 719469
<1>. DEFINE month == IF m <= 2 THEN m + 12 ELSE m
<1>1. Quo(153 * (month - 3) + 2, 5) = MonthDays[m]
  <2>1. 153 * (month - 3) + 2 \in Nat
    BY SMT
  <2>2. Quo(153 * (month - 3) + 2, 5) = (153 * (month - 3) + 2) \div 5
    BY SMT, <2>1, QuoNat
  <2>3. m = 1 \/ m = 2 \/ m = 3 \/ m = 4 \/ m = 5 \/ m = 6 \/ m = 7 \/ m = 8 \/ m = 9
        \/ m = 10 \/ m = 11 \/ m = 12
    BY SMT
  <2>. QED  BY SMT, <2>2, <2>3 DEF MonthDays
<1>. QED  BY SMT, <1>1 DEF toUnixDays, Year

(***************************************************************************)
(* toUnixDays of the day after a date is one more than of the date, across *)
(* the ends of months, leap days, years and centuries.                     *)
(***************************************************************************)
THEOREM DaysAreConsecutive ==
  ASSUME NEW y, NEW m, NEW d, Date(y, m, d)
  PROVE  toUnixDays(NextDay(y, m, d)[1], NextDay(y, m, d)[2], NextDay(y, m, d)[3])
           = toUnixDays(y, m, d) + 1
<1>. y \in Nat \ {0} /\ m \in 1 .. 12 /\ d \in 1 .. MonthLength(y, m)
  BY SMT DEF Date
<1>. MonthLength(y, m) \in 28 .. 31
  BY SMT DEF MonthLength
<1>. DEFINE days == 365 * Year(y, m) + LeapDays(Year(y, m)) + MonthDays[m] + d - 719469
<1>1. toUnixDays(y, m, d) = days
  BY SMT, UnixDays
<1>2. LeapDays(y) \in Nat /\ LeapDays(y - 1) \in Nat
  BY SMT, LeapDaysNat, y - 1 \in Nat
<1>3. CASE d < MonthLength(y, m)
  <2>1. toUnixDays(y, m, d + 1) = days + 1
    <3>1. toUnixDays(y, m, d + 1) =
            365 * Year(y, m) + LeapDays(Year(y, m)) + MonthDays[m] + (d + 1) - 719469
      BY SMT, UnixDays, d + 1 \in Nat
    <3>. QED  BY SMT, <3>1, <1>2 DEF Year, MonthDays
  <2>. QED  BY SMT, <1>1, <1>3, <2>1 DEF NextDay
<1>4. CASE d = MonthLength(y, m) /\ m < 12
  <2>1. toUnixDays(y, m + 1, 1) =
          365 * Year(y, m + 1) + LeapDays(Year(y, m + 1)) + MonthDays[m + 1] + 1 - 719469
    BY SMT, <1>4, UnixDays, m + 1 \in 1 .. 12
  <2>2. CASE m = 2
    <3>1. LeapDays(y) = LeapDays(y - 1) + (IF Leap(y) THEN 1 ELSE 0)
      BY SMT, NextYear, y - 1 \in Nat, (y - 1) + 1 = y
    <3>2. toUnixDays(y, 3, 1) = 365 * y + LeapDays(y) + 1 - 719469
      <4>1. toUnixDays(y, 3, 1) =
              365 * Year(y, 3) + LeapDays(Year(y, 3)) + MonthDays[3] + 1 - 719469
        BY SMT, UnixDays
      <4>2. Year(y, 3) = y /\ MonthDays[3] = 0
        BY SMT DEF Year, MonthDays
      <4>. QED  BY SMT, <4>1, <4>2, <1>2
    <3>3. days = 365 * (y - 1) + LeapDays(y - 1) + 337 + d - 719469
      BY SMT, <2>2 DEF Year, MonthDays
    <3>4. d = IF Leap(y) THEN 29 ELSE 28
      BY SMT, <1>4, <2>2 DEF MonthLength
    <3>5. toUnixDays(y, 3, 1) = days + 1
      BY SMT, <3>1, <3>2, <3>3, <3>4, <1>2
    <3>. QED  BY SMT, <1>1, <1>4, <2>2, <3>5 DEF NextDay
  <2>3. CASE m # 2
    <3>1. Year(y, m + 1) = Year(y, m)
      BY SMT, <2>3 DEF Year
    <3>2. m = 1 \/ m = 3 \/ m = 4 \/ m = 5 \/ m = 6 \/ m = 7 \/ m = 8 \/ m = 9
          \/ m = 10 \/ m = 11
      BY SMT, <1>4, <2>3
    <3>3. MonthDays[m + 1] = MonthDays[m] + MonthLength(y, m)
      BY SMT, <3>2 DEF MonthDays, MonthLength
    <3>4. Year(y, m) \in Int /\ LeapDays(Year(y, m)) \in Int /\ MonthDays[m] \in Int
      BY SMT, <1>2 DEF Year, MonthDays
    <3>5. toUnixDays(y, m + 1, 1) = days + 1
      BY SMT, <1>4, <2>1, <3>1, <3>3, <3>4
    <3>. QED  BY SMT, <1>1, <1>4, <3>5 DEF NextDay
  <2>. QED  BY SMT, <2>2, <2>3
<1>5. CASE d = MonthLength(y, m) /\ m = 12
  <2>1. toUnixDays(y + 1, 1, 1) = 365 * y + LeapDays(y) + 306 + 1 - 719469
    <3>1. toUnixDays(y + 1, 1, 1) =
            365 * Year(y + 1, 1) + LeapDays(Year(y + 1, 1)) + MonthDays[1] + 1 - 719469
      BY SMT, UnixDays, y + 1 \in Nat \ {0}
    <3>2. Year(y + 1, 1) = y
      BY SMT DEF Year
    <3>. QED  BY SMT, <3>1, <3>2 DEF MonthDays
  <2>2. days = 365 * y + LeapDays(y) + 275 + 31 - 719469
    BY SMT, <1>5 DEF Year, MonthDays, MonthLength
  <2>3. toUnixDays(y + 1, 1, 1) = days + 1
    BY SMT, <2>1, <2>2, <1>2
  <2>. QED  BY SMT, <1>1, <1>5, <2>3 DEF NextDay
<1>. QED  BY SMT, <1>3, <1>4, <1>5

(***************************************************************************)
(* The weekday of parseHourWeekday is the one that follows from the day    *)
(* count, whose day 0 was a Thursday: the two formulas of the code agree,  *)
(* although they cut the year in different ways.                           *)
(***************************************************************************)
THEOREM WeekdayFollowsDays ==
  ASSUME NEW y, NEW m, NEW d, Date(y, m, d)
  PROVE  weekday(y, m, d) = (toUnixDays(y, m, d) + 3) % 7
<1>. y \in Nat \ {0} /\ m \in 1 .. 12 /\ d \in Nat
  BY SMT DEF Date, MonthLength
<1>. DEFINE year == Year(y, m)
            sum  == year + LeapDays(year) + MonthShift[m] + d
<1>1. year \in Nat
  BY SMT DEF Year
<1>2. LeapDays(year) \in Nat
  BY SMT, <1>1, LeapDaysNat
<1>3. MonthShift[m] \in Nat /\ MonthDays[m] \in Nat
  BY SMT DEF MonthShift, MonthDays
<1>4. sum \in Nat
  BY SMT, <1>1, <1>2, <1>3
<1>5. weekday(y, m, d) = ((sum % 7) + 6) % 7
  <2>1. weekday(y, m, d) = Rem(Rem(sum, 7) + 6, 7)
    BY SMT DEF weekday, Year
  <2>2. Rem(sum, 7) = sum % 7
    BY SMT, <1>4, RemNat
  <2>3. (sum % 7) + 6 \in Nat
    BY SMT, <1>4
  <2>4. Rem((sum % 7) + 6, 7) = ((sum % 7) + 6) % 7
    BY SMT, <2>3, RemNat
  <2>. QED  BY SMT, <2>1, <2>2, <2>4
<1>6. \E k \in Int : MonthDays[m] - MonthShift[m] - 719472 = 7 * k
  <2>1. (MonthDays[m] - MonthShift[m] - 719472) % 7 = 0
    <3>1. m = 1 \/ m = 2 \/ m = 3 \/ m = 4 \/ m = 5 \/ m = 6 \/ m = 7 \/ m = 8 \/ m = 9
          \/ m = 10 \/ m = 11 \/ m = 12
      BY SMT
    <3>. QED  BY SMT, <3>1 DEF MonthDays, MonthShift
  <2>. DEFINE k == (MonthDays[m] - MonthShift[m] - 719472) \div 7
  <2>2. MonthDays[m] - MonthShift[m] - 719472 = 7 * k /\ k \in Int
    BY SMT, <1>3, <2>1
  <2>. QED  BY SMT, <2>2
<1>7. toUnixDays(y, m, d) = 365 * year + LeapDays(year) + MonthDays[m] + d - 719469
  BY SMT, UnixDays
<1>8. PICK k \in Int : MonthDays[m] - MonthShift[m] - 719472 = 7 * k
  BY SMT, <1>6
<1>9. toUnixDays(y, m, d) + 3 = (sum + 6) + 7 * (52 * year + k)
  BY SMT, <1>1, <1>2, <1>3, <1>7, <1>8
<1>10. ASSUME NEW a \in Nat, NEW n \in Int PROVE (a + 7 * n) % 7 = a % 7
  BY SMT
<1>11. (toUnixDays(y, m, d) + 3) % 7 = (sum + 6) % 7
  BY SMT, <1>1, <1>4, <1>9, <1>10, sum + 6 \in Nat, 52 * year + k \in Int
<1>12. ((sum % 7) + 6) % 7 = (sum + 6) % 7
  BY SMT, <1>4
<1>. QED  BY SMT, <1>5, <1>11, <1>12

LEMMA ProperMinutes ==
  ASSUME NEW t, Proper(t)
  PROVE  /\ Seconds(t) = 60 * Minutes(t) + t.s
         /\ Minutes(t) \in Int /\ t.s \in 0 .. 59
<1>. DEFINE days == toUnixDays(t.y, t.m, t.d)
<1>1. t.y \in Nat \ {0} /\ t.m \in 1 .. 12 /\ t.d \in Nat
      /\ t.h \in Nat /\ t.min \in Nat /\ t.s \in 0 .. 59
  BY SMT DEF Proper, Date, MonthLength
<1>2. days \in Int
  <2>1. Year(t.y, t.m) \in Nat /\ MonthDays[t.m] \in Nat
    BY SMT, <1>1 DEF Year, MonthDays
  <2>2. LeapDays(Year(t.y, t.m)) \in Nat
    BY SMT, <2>1, LeapDaysNat
  <2>. QED  BY SMT, <1>1, <2>1, <2>2, UnixDays
<1>3. Quo(t.s, 60) = 0
  <2>1. t.s \in Nat /\ t.s \div 60 = 0
    BY SMT DEF Proper
  <2>2. Quo(t.s, 60) = t.s \div 60
    BY <2>1, QuoNat
  <2>. QED  BY <2>1, <2>2
<1>4. Minutes(t) = days * 1440 + t.h * 60 + t.min
  BY SMT, <1>1, <1>2, <1>3 DEF Minutes
<1>5. Seconds(t) = days * 86400 + t.h * 3600 + t.min * 60 + t.s
  BY SMT DEF Seconds
<1>. HIDE DEF days
<1>. QED  BY SMT, <1>1, <1>2, <1>4, <1>5

(***************************************************************************)
(* The minutes between two proper timestamps are less than a minute away   *)
(* from the time elapsed, in either order of the two: dropping the seconds *)
(* of both adds up to no more.                                             *)
(***************************************************************************)
THEOREM MinutesNearElapsed ==
  ASSUME NEW later, NEW earlier, Proper(later), Proper(earlier)
  PROVE  LET elapsed == Seconds(later) - Seconds(earlier)
             counted == 60 * minutesBetween(later, earlier)
         IN  IF elapsed <= 0 THEN counted = 0
             ELSE counted - elapsed < 60 /\ elapsed - counted < 60
<1>1. /\ Seconds(later) = 60 * Minutes(later) + later.s
      /\ Minutes(later) \in Int /\ later.s \in 0 .. 59
  BY SMT, ProperMinutes
<1>2. /\ Seconds(earlier) = 60 * Minutes(earlier) + earlier.s
      /\ Minutes(earlier) \in Int /\ earlier.s \in 0 .. 59
  BY SMT, ProperMinutes
<1>. QED  BY SMT, <1>1, <1>2 DEF minutesBetween

-----------------------------------------------------------------------------
-----------------------------------------------------------------------------
(***************************************************************************)
(* Numbers: where their digits end, and what the digits are worth.         *)
(***************************************************************************)
LEMMA DigitsEndIs ==
  ASSUME NEW b \in Seq(STRING), NEW i \in 1 .. (Len(b) + 1)
  PROVE  /\ DigitsEnd(b, i) \in i .. (Len(b) + 1)
         /\ \A k \in i .. (DigitsEnd(b, i) - 1) : IsDigit(b[k])
         /\ DigitsEnd(b, i) = Len(b) + 1 \/ ~ IsDigit(b[DigitsEnd(b, i)])
<1> Len(b) \in Nat
  OBVIOUS
<1> DEFINE S == {j \in i .. (Len(b) + 1) : j = Len(b) + 1 \/ ~ IsDigit(b[j])}
<1>1. PICK j \in S : \A k \in S : j <= k
  <2>1. Len(b) + 1 \in S /\ S \subseteq Nat
    OBVIOUS
  <2> HIDE DEF S
  <2> QED BY <2>1, LeastNatural
<1>2. ASSUME NEW k \in i .. (j - 1) PROVE IsDigit(b[k])
  <2>1. k \in i .. (Len(b) + 1) /\ k \notin S
    BY <1>1
  <2> QED BY <2>1
<1>3. \E n \in i .. (Len(b) + 1) :
        /\ \A k \in i .. (n - 1) : IsDigit(b[k])
        /\ n = Len(b) + 1 \/ ~ IsDigit(b[n])
  BY <1>1, <1>2
<1> QED BY <1>3 DEF DigitsEnd

LEMMA DigitType == \A c : IsDigit(c) => Digit[c] \in 0 .. 9
BY DEF IsDigit, Digit

LEMMA WrapType ==
  ASSUME NEW n \in Int
  PROVE  /\ Wrap(n) \in (- (MaxInt + 1)) .. MaxInt
         /\ n \in (- (MaxInt + 1)) .. MaxInt => Wrap(n) = n
<1> DEFINE half == MaxInt + 1
<1>1. half \in Nat \ {0} /\ Wrap(n) = ((n + half) % (2 * half)) - half /\ MaxInt = half - 1
  BY MaxIntAssumption DEF Wrap
<1> HIDE DEF half
<1>2. (n + half) % (2 * half) \in 0 .. (2 * half - 1)
  BY <1>1
<1>3. n \in (- half) .. (half - 1) => (n + half) % (2 * half) = n + half
  BY <1>1
<1> QED BY <1>1, <1>2, <1>3

(***************************************************************************)
(* The numbers read so far, digit by digit: of a value of any size, and of *)
(* an int that wraps.                                                      *)
(***************************************************************************)
Digits(b, i, j) ==
  /\ Len(b) \in Nat /\ i \in 1 .. (Len(b) + 1) /\ j \in i .. (Len(b) + 1)
  /\ \A k \in i .. (j - 1) : IsDigit(b[k])

LEMMA ValueIs ==
  ASSUME NEW b, NEW i, NEW j, Digits(b, i, j)
  PROVE  \E v \in [(i - 1) .. (j - 1) -> Nat] :
           /\ v[i - 1] = 0 /\ Value(b, i, j) = v[j - 1]
           /\ \A k \in i .. (j - 1) : v[k] = v[k - 1] * 10 + Digit[b[k]]
<1> Len(b) \in Nat /\ i \in Int /\ j \in Int
  BY DEF Digits
<1> DEFINE lo == i - 1
           hi == j - 1
           Eq(v) == v = [k \in lo .. hi |-> IF k < i THEN 0 ELSE v[k - 1] * 10 + Digit[b[k]]]
           w == CHOOSE v : Eq(v)
           step == [k \in i .. hi |-> [n \in Nat |-> n * 10 + Digit[b[k]]]]
<1>0. Value(b, i, j) = w[hi]
  BY DEF Value
<1>1. lo \in Int /\ hi \in Int /\ lo <= hi /\ lo + 1 = i
  BY DEF Digits
<1>2. \A k \in i .. hi : Digit[b[k]] \in Nat
  BY DigitType DEF Digits
<1>3. Steps(step, lo, hi, Nat)
  BY <1>1, <1>2 DEF Steps
<1>4. PICK g : Recursion(g, 0, step, lo, hi, Nat)
  <2> HIDE DEF step, lo, hi
  <2> QED BY <1>1, <1>3, RecursionExists, 0 \in Nat
<1>5. g \in [lo .. hi -> Nat] /\ g[lo] = 0
      /\ \A k \in i .. hi : g[k] = g[k - 1] * 10 + Digit[b[k]]
  <2>1. \A k \in i .. hi : k - 1 \in lo .. hi
    BY <1>1
  <2>2. g \in [lo .. hi -> Nat] /\ g[lo] = 0 /\ \A k \in i .. hi : g[k] = step[k][g[k - 1]]
    BY <1>1, <1>4 DEF Recursion
  <2> HIDE DEF lo, hi
  <2> QED BY <2>1, <2>2
<1>6. Eq(g)
  <2>1. \A k \in lo .. hi : k < i <=> k = lo
    BY <1>1
  <2>2. \A k \in lo .. hi : k # lo => k \in i .. hi
    BY <1>1
  <2> HIDE DEF lo, hi
  <2> QED BY <1>5, <2>1, <2>2
<1>7. Eq(w)
  <2> HIDE DEF Eq
  <2> QED BY <1>6
<1>8. w \in [lo .. hi -> Nat] /\ w[lo] = 0
      /\ \A k \in i .. hi : w[k] = w[k - 1] * 10 + Digit[b[k]]
  <2>1. \A k \in lo .. hi : w[k] = IF k < i THEN 0 ELSE w[k - 1] * 10 + Digit[b[k]]
    <3> HIDE DEF w
    <3> QED BY <1>7
  <2>2. w[lo] = 0 /\ \A k \in i .. hi : w[k] = w[k - 1] * 10 + Digit[b[k]]
    <3> HIDE DEF w
    <3>1. lo \in lo .. hi /\ lo < i /\ \A k \in i .. hi : k \in lo .. hi /\ ~ (k < i)
      BY <1>1
    <3> QED BY <2>1, <3>1
  <2>3. \A k \in lo .. hi : w[k] \in Nat
    <3> DEFINE T == {k \in lo .. hi : w[k] \in Nat}
    <3>1. lo \in T
      BY <1>1, <2>2
    <3>2. ASSUME NEW k \in lo .. (hi - 1), k \in T PROVE k + 1 \in T
      <4>1. PICK m \in i .. hi : m = k + 1
        BY <1>1
      <4>2. m - 1 = k /\ m \in lo .. hi
        BY <1>1, <4>1
      <4>3. w[m] = w[k] * 10 + Digit[b[m]] /\ w[k] \in Nat /\ Digit[b[m]] \in Nat
        BY <1>2, <2>2, <3>2, <4>2
      <4> HIDE DEF w, lo, hi
      <4> QED BY <4>1, <4>2, <4>3
    <3> HIDE DEF T
    <3>3. lo .. hi \subseteq T
      <4> HIDE DEF lo, hi
      <4> QED BY <1>1, <3>1, <3>2, IntervalInduction
    <3> QED BY <3>3 DEF T
  <2>4. w = [k \in lo .. hi |-> w[k]]
    <3> HIDE DEF w
    <3> QED BY <1>7
  <2> HIDE DEF w, lo, hi
  <2> QED BY <2>2, <2>3, <2>4
<1> HIDE DEF w
<1> QED BY <1>0, <1>8

(***************************************************************************)
(* An int that wraps at each digit is the value wrapped once.              *)
(***************************************************************************)
LEMMA ModShift ==
  ASSUME NEW a \in Int, NEW r \in Nat \ {0}, NEW m \in Int
  PROVE  (a + r * m) % r = a % r
<1> DEFINE x == (a + r * m) % r
           y == a % r
           q == a \div r
           s == (a + r * m) \div r
<1>1. x \in 0 .. (r - 1) /\ y \in 0 .. (r - 1) /\ q \in Int /\ s \in Int
  <2>1. a + r * m \in Int
    OBVIOUS
  <2> QED BY <2>1
<1>2. a = r * q + y
  OBVIOUS
<1>3. a + r * m = r * s + x
  <2>1. \A c \in Int : c = r * (c \div r) + (c % r)
    OBVIOUS
  <2> QED BY <2>1, a + r * m \in Int
<1> HIDE DEF x, y, q, s
<1> DEFINE t == q + m - s
<1>4. r * t = x - y
  <2>1. r * t = r * q + r * m - r * s
    BY <1>1
  <2> QED BY <1>1, <1>2, <1>3, <2>1, r * q \in Int, r * m \in Int, r * s \in Int
<1>5. t \in Int
  BY <1>1
<1> HIDE DEF t
<1>6. t = 0
  <2>1. t >= 1 => r * t >= r
    BY <1>5
  <2>2. t <= -1 => r * t <= - r
    BY <1>5
  <2> QED BY <1>1, <1>4, <1>5, <2>1, <2>2
<1>7. x = y
  BY <1>1, <1>4, <1>6
<1> QED BY <1>7 DEF x, y

LEMMA WrapOnce ==
  ASSUME NEW n \in Int, NEW d \in Int
  PROVE  Wrap(Wrap(n) * 10 + d) = Wrap(n * 10 + d)
<1> DEFINE half == MaxInt + 1
           r == 2 * half
           q == (n + half) \div r
<1>1. half \in Nat \ {0} /\ r \in Nat \ {0}
  BY MaxIntAssumption
<1>2. \A c \in Int : Wrap(c) = ((c + half) % r) - half
  <2>1. \A c \in Int : c + MaxInt + 1 = c + half
    BY MaxIntAssumption
  <2> QED BY <2>1 DEF Wrap
<1> HIDE DEF half
<1>3. q \in Int /\ n + half = r * q + ((n + half) % r)
  <2>1. \A c \in Int : c \div r \in Int /\ c = r * (c \div r) + (c % r)
    <3> HIDE DEF r
    <3> QED BY <1>1
  <2> QED BY <1>1, <2>1, n + half \in Int
<1>4. Wrap(n) = n - r * q
  <2> DEFINE rest == (n + half) % r
             qs == r * q
  <2>1. rest \in Int /\ qs \in Int /\ Wrap(n) = rest - half /\ n + half = qs + rest
    BY <1>1, <1>2, <1>3
  <2> HIDE DEF r, q, rest, qs
  <2>2. Wrap(n) = n - qs
    BY <1>1, <2>1
  <2> QED BY <2>2 DEF qs
<1> HIDE DEF r, q
<1> DEFINE a == n * 10 + d + half
           m == - (10 * q)
<1>5. a \in Int /\ m \in Int
  BY <1>1, <1>3
<1>6. Wrap(n) * 10 + d + half = a + r * m /\ Wrap(n) \in Int
  <2>1. r * m = - (10 * (r * q))
    BY <1>1, <1>3
  <2> HIDE DEF m
  <2> QED BY <1>1, <1>3, <1>4, <2>1, r * q \in Int
<1>7. (a + r * m) % r = a % r
  <2> HIDE DEF a, m
  <2> QED BY <1>1, <1>5, ModShift
<1>8. Wrap(Wrap(n) * 10 + d) = ((a + r * m) % r) - half
  <2>1. Wrap(n) * 10 + d \in Int
    BY <1>6
  <2> HIDE DEF a, m
  <2> QED BY <1>2, <1>6, <2>1
<1>9. Wrap(n * 10 + d) = (a % r) - half
  BY <1>2, n * 10 + d \in Int
<1> QED BY <1>7, <1>8, <1>9

LEMMA DigitsWorth ==
  ASSUME NEW b, NEW i, NEW j, Digits(b, i, j)
  PROVE  \A k \in i .. (j - 1) : Digit[b[k]] \in 0 .. 9
BY DigitType DEF Digits

LEMMA IntValueIs ==
  ASSUME NEW b, NEW i, NEW j, Digits(b, i, j)
  PROVE  IntValue(b, i, j) = Wrap(Value(b, i, j)) /\ Value(b, i, j) \in Nat
<1>1. PICK v \in [(i - 1) .. (j - 1) -> Nat] :
        /\ v[i - 1] = 0 /\ Value(b, i, j) = v[j - 1]
        /\ \A k \in i .. (j - 1) : v[k] = v[k - 1] * 10 + Digit[b[k]]
  BY ValueIs
<1> DEFINE lo == i - 1
           hi == j - 1
           Eq(f) == f = [k \in lo .. hi |->
                           IF k < i THEN 0 ELSE Wrap(f[k - 1] * 10 + Digit[b[k]])]
           w == CHOOSE f : Eq(f)
           g == [k \in lo .. hi |-> Wrap(v[k])]
<1>2. IntValue(b, i, j) = w[hi]
  BY DEF IntValue
<1>3. lo \in Int /\ hi \in Int /\ lo <= hi /\ lo + 1 = i
  BY DEF Digits
<1>4. \A k \in i .. hi : Digit[b[k]] \in Nat
  <2>1. \A k \in i .. (j - 1) : Digit[b[k]] \in 0 .. 9
    BY DigitsWorth
  <2> QED BY <2>1
<1>5. v \in [lo .. hi -> Nat] /\ v[lo] = 0
      /\ \A k \in i .. hi : v[k] = v[k - 1] * 10 + Digit[b[k]]
  BY <1>1
<1>6. ASSUME NEW k \in i .. hi
      PROVE  Wrap(v[k]) = Wrap(Wrap(v[k - 1]) * 10 + Digit[b[k]])
  <2>1. k - 1 \in lo .. hi /\ v[k - 1] \in Int /\ Digit[b[k]] \in Int
    <3>1. k - 1 \in lo .. hi
      BY <1>3
    <3>2. Digit[b[k]] \in Nat
      BY <1>4
    <3> HIDE DEF lo, hi
    <3>3. v[k - 1] \in Nat
      BY <1>5, <3>1
    <3> QED BY <3>1, <3>2, <3>3
  <2>2. v[k] = v[k - 1] * 10 + Digit[b[k]]
    BY <1>5
  <2> QED BY <2>1, <2>2, WrapOnce
<1>7. Wrap(0) = 0
  BY WrapType, MaxIntAssumption
<1>8. \A k \in lo .. hi : (k < i <=> k = lo) /\ (k # lo => k \in i .. hi /\ k - 1 \in lo .. hi)
  BY <1>3
<1>9. Eq(g)
  <2>1. ASSUME NEW k \in lo .. hi
        PROVE  g[k] = IF k < i THEN 0 ELSE Wrap(g[k - 1] * 10 + Digit[b[k]])
    <3> HIDE DEF lo, hi
    <3>1. CASE k = lo
      BY <1>5, <1>7, <1>8, <3>1
    <3>2. CASE k # lo
      <4>1. k \in i .. hi /\ k - 1 \in lo .. hi /\ ~ (k < i)
        BY <1>8, <3>2
      <4>2. g[k] = Wrap(v[k]) /\ g[k - 1] = Wrap(v[k - 1])
        BY <4>1
      <4> QED BY <1>6, <4>1, <4>2
    <3> QED BY <3>1, <3>2
  <2> HIDE DEF lo, hi
  <2> QED BY <2>1
<1>10. Eq(w)
  <2> HIDE DEF Eq, g
  <2> QED BY <1>9
<1>11. \A k \in lo .. hi : w[k] = IF k < i THEN 0 ELSE Wrap(w[k - 1] * 10 + Digit[b[k]])
  <2> HIDE DEF w
  <2> QED BY <1>10
<1> HIDE DEF w
<1>12. hi \in lo .. hi /\ lo \in lo .. hi
  BY <1>3
<1>13. \A k \in lo .. hi : w[k] = Wrap(v[k])
  <2> DEFINE T == {k \in lo .. hi : w[k] = Wrap(v[k])}
  <2>1. lo \in T
    <3> HIDE DEF lo, hi
    <3> QED BY <1>5, <1>7, <1>8, <1>11, <1>12
  <2>2. ASSUME NEW k \in lo .. (hi - 1), k \in T PROVE k + 1 \in T
    <3>1. PICK m \in i .. hi : m = k + 1
      BY <1>3
    <3>2. m - 1 = k /\ m \in lo .. hi /\ ~ (m < i)
      BY <1>3, <3>1
    <3>3. w[m] = Wrap(w[k] * 10 + Digit[b[m]])
      <4> HIDE DEF lo, hi
      <4> QED BY <1>11, <3>2
    <3>4. w[k] = Wrap(v[k])
      BY <2>2
    <3>5. Wrap(v[m]) = Wrap(Wrap(v[k]) * 10 + Digit[b[m]])
      BY <1>6, <3>2
    <3> HIDE DEF lo, hi
    <3> QED BY <3>1, <3>2, <3>3, <3>4, <3>5
  <2> HIDE DEF T
  <2>3. lo .. hi \subseteq T
    <3> HIDE DEF lo, hi
    <3> QED BY <1>3, <2>1, <2>2, IntervalInduction
  <2> QED BY <2>3 DEF T
<1>14. w[hi] = Wrap(v[hi]) /\ v[hi] \in Nat
  <2> HIDE DEF lo, hi
  <2> QED BY <1>5, <1>12, <1>13
<1> QED BY <1>1, <1>2, <1>14

(***************************************************************************)
(* What the readers of numbers return: an int, and a decimal.              *)
(***************************************************************************)
Ints == (- (MaxInt + 1)) .. MaxInt
Decimals == [m : Int, e : Int]

LEMMA DigitsFrom ==
  ASSUME NEW b \in Seq(STRING), NEW i \in 1 .. (Len(b) + 1)
  PROVE  Digits(b, i, DigitsEnd(b, i))
BY DigitsEndIs DEF Digits

LEMMA WrapMinus ==
  ASSUME NEW n \in Int
  PROVE  Wrap(- Wrap(n)) = Wrap(- n)
<1> DEFINE half == MaxInt + 1
           r == 2 * half
           q == (n + half) \div r
<1>1. half \in Nat \ {0} /\ r \in Nat \ {0}
  BY MaxIntAssumption
<1>2. \A c \in Int : Wrap(c) = ((c + half) % r) - half
  <2>1. \A c \in Int : c + MaxInt + 1 = c + half
    BY MaxIntAssumption
  <2> QED BY <2>1 DEF Wrap
<1> HIDE DEF half
<1>3. q \in Int /\ n + half = r * q + ((n + half) % r)
  <2>1. \A c \in Int : c \div r \in Int /\ c = r * (c \div r) + (c % r)
    <3> HIDE DEF r
    <3> QED BY <1>1
  <2> QED BY <1>1, <2>1, n + half \in Int
<1>4. Wrap(n) = n - r * q
  <2> DEFINE rest == (n + half) % r
             qs == r * q
  <2>1. rest \in Int /\ qs \in Int /\ Wrap(n) = rest - half /\ n + half = qs + rest
    BY <1>1, <1>2, <1>3
  <2> HIDE DEF r, q, rest, qs
  <2>2. Wrap(n) = n - qs
    BY <1>1, <2>1
  <2> QED BY <2>2 DEF qs
<1> HIDE DEF r, q
<1> DEFINE a == (- n) + half
           m == q
<1>5. a \in Int /\ m \in Int
  BY <1>1, <1>3
<1>6. (- Wrap(n)) + half = a + r * m /\ Wrap(n) \in Int
  BY <1>1, <1>3, <1>4, r * q \in Int
<1>7. (a + r * m) % r = a % r
  <2> HIDE DEF a, m
  <2> QED BY <1>1, <1>5, ModShift
<1>8. Wrap(- Wrap(n)) = ((a + r * m) % r) - half
  <2>1. - Wrap(n) \in Int
    BY <1>6
  <2> HIDE DEF a, m
  <2> QED BY <1>2, <1>6, <2>1
<1>9. Wrap(- n) = (a % r) - half
  BY <1>2, - n \in Int
<1> QED BY <1>7, <1>8, <1>9


(***************************************************************************)
(* parseInt32Bytes, whose sum wraps at every digit and at its sign, is the *)
(* number that the digits spell wrapped once, whatever their count and the *)
(* width of an int.                                                        *)
(***************************************************************************)
THEOREM IntegersWrapOnce ==
  ASSUME NEW b \in Seq(STRING), readsInt(b)
  PROVE  LET n == Value(b, IntStart(b), Len(b) + 1)
         IN  n \in Nat /\ parseInt32Bytes(b) = Wrap(IF Is(b, 1, {"-"}) THEN - n ELSE n)
<1> DEFINE i == IntStart(b)
           j == Len(b) + 1
<1>1. i \in 1 .. (Len(b) + 1) /\ Len(b) \in Nat
  BY DEF readsInt, IntStart
<1>2. Digits(b, i, j)
  <2>1. DigitsEnd(b, i) = j
    BY DEF readsInt
  <2> HIDE DEF i
  <2> QED BY <1>1, <2>1, DigitsFrom
<1> DEFINE n == Value(b, i, j)
           v == IntValue(b, i, j)
<1>3. v = Wrap(n) /\ n \in Nat
  <2> HIDE DEF i, j
  <2> QED BY <1>2, IntValueIs
<1>4. parseInt32Bytes(b) = IF Is(b, 1, {"-"}) THEN Wrap(- v) ELSE v
  BY DEF parseInt32Bytes
<1> HIDE DEF n, v
<1> QED BY <1>3, <1>4, WrapMinus DEF n

LEMMA IntValueType ==
  ASSUME NEW b, NEW i, NEW j, Digits(b, i, j)
  PROVE  IntValue(b, i, j) \in Ints /\ Ints \subseteq Int
<1>1. IntValue(b, i, j) = Wrap(Value(b, i, j)) /\ Value(b, i, j) \in Nat
  BY IntValueIs
<1>2. Wrap(Value(b, i, j)) \in (- (MaxInt + 1)) .. MaxInt
  <2> DEFINE n == Value(b, i, j)
  <2>1. n \in Int
    BY <1>1
  <2> HIDE DEF n
  <2>2. Wrap(n) \in (- (MaxInt + 1)) .. MaxInt
    BY <2>1, WrapType
  <2> QED BY <2>2 DEF n
<1> QED BY <1>1, <1>2, MaxIntAssumption DEF Ints

LEMMA ReadIntType ==
  ASSUME NEW b \in Seq(STRING), readsInt(b)
  PROVE  parseInt32Bytes(b) \in Ints
<1> DEFINE i == IntStart(b)
           n == IntValue(b, i, Len(b) + 1)
<1>1. i \in 1 .. (Len(b) + 1) /\ DigitsEnd(b, i) = Len(b) + 1
  BY DEF readsInt, IntStart, Is
<1>2. Digits(b, i, Len(b) + 1)
  <2> HIDE DEF i
  <2>1. Digits(b, i, DigitsEnd(b, i))
    BY <1>1, DigitsFrom
  <2> QED BY <1>1, <2>1
<1>3. n \in Ints /\ n \in Int
  <2> HIDE DEF i
  <2>1. IntValue(b, i, Len(b) + 1) \in Ints /\ Ints \subseteq Int
    <3> DEFINE j == Len(b) + 1
    <3>1. Digits(b, i, j)
      BY <1>2
    <3> HIDE DEF j
    <3>2. IntValue(b, i, j) \in Ints /\ Ints \subseteq Int
      BY <3>1, IntValueType
    <3> QED BY <3>2 DEF j
  <2> QED BY <2>1
<1> HIDE DEF n
<1>4. Wrap(- n) \in Ints
  <2> DEFINE k == - n
  <2>1. k \in Int
    BY <1>3
  <2> HIDE DEF k
  <2>2. Wrap(k) \in Ints
    BY <2>1, WrapType DEF Ints
  <2> QED BY <2>2 DEF k
<1> QED BY <1>3, <1>4 DEF parseInt32Bytes, n

LEMMA FloatParts ==
  ASSUME NEW b \in Seq(STRING), readsFloat(b)
  PROVE  /\ Digits(b, FloatStart(b), Point(b)) /\ FloatStart(b) < Point(b)
         /\ HasPoint(b) => /\ Digits(b, Point(b) + 1, FractionEnd(b))
                           /\ Point(b) + 1 < FractionEnd(b)
         /\ ~ HasPoint(b) => FractionEnd(b) = Point(b)
         /\ HasExponent(b) => Digits(b, ExponentStart(b), Len(b) + 1)
<1>0. Len(b) \in Nat
  OBVIOUS
<1>1. FloatStart(b) \in 1 .. (Len(b) + 1)
  BY <1>0 DEF FloatStart, Is
<1>2. Digits(b, FloatStart(b), Point(b))
  <2> DEFINE i == FloatStart(b)
  <2>1. i \in 1 .. (Len(b) + 1)
    BY <1>1
  <2> HIDE DEF i
  <2>2. Digits(b, i, DigitsEnd(b, i))
    BY <2>1, DigitsFrom
  <2> QED BY <2>2 DEF i, Point
<1>3. Point(b) \in 1 .. (Len(b) + 1)
  BY <1>0, <1>1, <1>2 DEF Digits
<1>4. HasPoint(b) => Digits(b, Point(b) + 1, FractionEnd(b))
  <2> DEFINE i == Point(b) + 1
  <2> SUFFICES ASSUME HasPoint(b) PROVE Digits(b, i, FractionEnd(b))
    OBVIOUS
  <2>1. i \in 1 .. (Len(b) + 1)
    BY <1>0, <1>3 DEF HasPoint, Is
  <2>2. FractionEnd(b) = DigitsEnd(b, i)
    BY DEF FractionEnd
  <2> HIDE DEF i
  <2>3. Digits(b, i, DigitsEnd(b, i))
    BY <2>1, DigitsFrom
  <2> QED BY <2>2, <2>3
<1>5. FractionEnd(b) \in 1 .. (Len(b) + 1)
  <2>1. CASE HasPoint(b)
    <3>1. FractionEnd(b) \in (Point(b) + 1) .. (Len(b) + 1)
      BY <1>4, <2>1 DEF Digits
    <3> QED BY <1>0, <1>3, <3>1
  <2>2. CASE ~ HasPoint(b)
    BY <1>3, <2>2 DEF FractionEnd
  <2> QED BY <2>1, <2>2
<1>6. HasExponent(b) => Digits(b, ExponentStart(b), Len(b) + 1)
  <2> DEFINE i == ExponentStart(b)
  <2> SUFFICES ASSUME HasExponent(b) PROVE Digits(b, i, Len(b) + 1)
    OBVIOUS
  <2>1. i \in 1 .. (Len(b) + 1)
    <3>1. ExponentStart(b) <= Len(b) /\ ExponentStart(b) \in Nat \ {0}
      BY <1>5 DEF readsFloat, ExponentStart
    <3> QED BY <1>0, <3>1
  <2>2. DigitsEnd(b, i) = Len(b) + 1
    BY DEF readsFloat, FloatEnd
  <2> HIDE DEF i
  <2>3. Digits(b, i, DigitsEnd(b, i))
    BY <2>1, DigitsFrom
  <2> QED BY <2>2, <2>3
<1> QED BY <1>2, <1>4, <1>6 DEF readsFloat, FractionEnd

LEMMA ReadFloatType ==
  ASSUME NEW b \in Seq(STRING), readsFloat(b)
  PROVE  parseFloat32Bytes(b) \in Decimals
<1>0. Len(b) \in Nat
  OBVIOUS
<1>1. /\ Digits(b, FloatStart(b), Point(b)) /\ FloatStart(b) < Point(b)
      /\ HasPoint(b) => /\ Digits(b, Point(b) + 1, FractionEnd(b))
                        /\ Point(b) + 1 < FractionEnd(b)
      /\ HasExponent(b) => Digits(b, ExponentStart(b), Len(b) + 1)
  BY FloatParts
<1>2. ASSUME NEW i, NEW j, Digits(b, i, j) PROVE Value(b, i, j) \in Nat /\ IntValue(b, i, j) \in Int
  BY <1>2, IntValueIs, IntValueType
<1>3. Fraction(b).value \in Nat /\ Fraction(b).digits \in Nat
  <2>1. CASE HasPoint(b)
    <3> DEFINE i == Point(b) + 1
               j == FractionEnd(b)
    <3>1. Digits(b, i, j)
      BY <1>1, <2>1
    <3>2. i \in Int /\ j \in Int /\ j >= i
      BY <3>1, <1>0 DEF Digits
    <3>3. Fraction(b) = [value |-> Value(b, i, j), digits |-> j - i]
      BY <2>1 DEF Fraction
    <3> HIDE DEF i, j
    <3>4. Value(b, i, j) \in Nat
      BY <1>2, <3>1
    <3> QED BY <3>2, <3>3, <3>4
  <2>2. CASE ~ HasPoint(b)
    BY <2>2 DEF Fraction
  <2> QED BY <2>1, <2>2
<1>4. Exponent(b) \in Int
  <2>1. CASE HasExponent(b)
    <3> DEFINE i == ExponentStart(b)
               j == Len(b) + 1
               n == IntValue(b, i, j)
               x == WrittenExponent(b)
    <3>1. Digits(b, i, j)
      BY <1>1, <2>1
    <3>2. x = IF b[FractionEnd(b) + 1] = "-" THEN Wrap(- n) ELSE n
      BY DEF WrittenExponent
    <3>3. n \in Int
      <4> HIDE DEF i, j
      <4> QED BY <1>2, <3>1
    <3>4. Wrap(- n) \in Int
      <4> HIDE DEF n
      <4> QED BY <3>3, WrapType
    <3>5. Exponent(b) = pow10Turns(x)
      BY <2>1 DEF Exponent
    <3> HIDE DEF n, x
    <3> QED BY <3>2, <3>3, <3>4, <3>5 DEF pow10Turns
  <2>2. CASE ~ HasExponent(b)
    BY <2>2 DEF Exponent
  <2> QED BY <2>1, <2>2
<1> DEFINE f == Fraction(b)
           whole == Value(b, FloatStart(b), Point(b))
           m == whole * 10 ^ f.digits + f.value
<1>5. whole \in Nat
  <2> DEFINE i == FloatStart(b)
             j == Point(b)
  <2>1. Digits(b, i, j)
    BY <1>1
  <2> HIDE DEF i, j
  <2>2. Value(b, i, j) \in Nat
    BY <1>2, <2>1
  <2> QED BY <2>2 DEF i, j
<1>6. m \in Int
  <2> DEFINE n == f.digits
             v == f.value
             t == 10 ^ n
  <2>1. n \in Nat /\ v \in Nat
    BY <1>3
  <2>2. t \in Int
    <3> HIDE DEF n
    <3> QED BY <2>1
  <2>3. m = whole * t + v
    OBVIOUS
  <2> HIDE DEF n, v, t, m, whole
  <2> QED BY <1>5, <2>1, <2>2, <2>3
<1>7. parseFloat32Bytes(b) = [m |-> IF b[1] = "-" THEN - m ELSE m, e |-> Exponent(b) - f.digits]
  BY DEF parseFloat32Bytes
<1>8. f.digits \in Int
  BY <1>3
<1> HIDE DEF m, f
<1> QED BY <1>4, <1>6, <1>7, <1>8 DEF Decimals

-----------------------------------------------------------------------------
(***************************************************************************)
(* Coordinates: clamp lets through what is between 0 and 1, or no number,  *)
(* which quantizeVector takes to a whole number from 0 to quantScale.      *)
(***************************************************************************)
Ratios == [n : Int, d : Int]
Ordered == [n : Int, d : Nat]
Units == {x \in [n : Nat, d : Nat] : x.n <= x.d}

LEMMA FractionType ==
  ASSUME NEW decimal \in Decimals
  PROVE  FractionOf(decimal) \in Ratios
<1>0. decimal.m \in Int /\ decimal.e \in Int /\ ExponentBound \in Nat
  BY ScaleAssumption DEF Decimals
<1>1. CASE decimal.e >= 0
  <2> DEFINE n == Bounded(decimal.e)
             t == 10 ^ n
  <2>1. n \in Nat
    BY <1>0, <1>1 DEF Bounded
  <2>2. t \in Int
    <3> HIDE DEF n
    <3> QED BY <2>1
  <2>3. FractionOf(decimal) = Whole(decimal.m * t)
    BY <1>1 DEF FractionOf
  <2> HIDE DEF n, t
  <2>4. decimal.m * t \in Int
    BY <1>0, <2>2
  <2> QED BY <2>3, <2>4 DEF Whole, Ratios
<1>2. CASE ~ (decimal.e >= 0)
  <2> DEFINE n == Bounded(- decimal.e)
             t == 10 ^ n
  <2>1. n \in Nat
    BY <1>0, <1>2 DEF Bounded
  <2>2. t \in Int
    <3> HIDE DEF n
    <3> QED BY <2>1
  <2>3. FractionOf(decimal) = [n |-> decimal.m, d |-> t]
    BY <1>2 DEF FractionOf
  <2> HIDE DEF n, t
  <2> QED BY <1>0, <2>2, <2>3 DEF Ratios
<1> QED BY <1>1, <1>2

LEMMA OverType ==
  ASSUME NEW a \in Ratios, NEW b \in Ratios
  PROVE  Over(a, b) \in Ordered /\ Over(a, b) \in Ratios
<1> DEFINE n == a.n * b.d
           d == a.d * b.n
<1>1. n \in Int /\ d \in Int
  BY DEF Ratios
<1>2. Over(a, b) = IF d < 0 THEN [n |-> - n, d |-> - d] ELSE [n |-> n, d |-> d]
  BY DEF Over
<1> HIDE DEF n, d
<1> QED BY <1>1, <1>2 DEF Ordered, Ratios

LEMMA ClampType ==
  ASSUME NEW x \in Ordered
  PROVE  clamp(x) \in Units
BY DEF clamp, Whole, Ordered, Units

LEMMA RoundedType ==
  ASSUME NEW n \in Nat, NEW d \in Nat \ {0}, n <= d, NEW s \in Nat
  PROVE  (2 * n * s + d) \div (2 * d) \in 0 .. s
<1> DEFINE x == 2 * n * s + d
           q == x \div (2 * d)
<1>1. x \in Nat /\ 2 * d \in Nat \ {0}
  OBVIOUS
<1>2. q \in Nat /\ (2 * d) * q <= x
  <2> HIDE DEF x
  <2>1. ASSUME NEW c \in Nat \ {0} PROVE x \div c \in Nat /\ c * (x \div c) <= x
    BY <1>1
  <2> QED BY <1>1, <2>1
<1>3. n * s <= d * s
  OBVIOUS
<1>4. (2 * d) * q <= 2 * (d * s) + d
  <2>1. x = 2 * (n * s) + d
    OBVIOUS
  <2> HIDE DEF x, q
  <2> QED BY <1>1, <1>2, <1>3, <2>1, n * s \in Nat, d * s \in Nat
<1> HIDE DEF q
<1>5. ASSUME q >= s + 1 PROVE FALSE
  <2>1. d * q >= d * (s + 1)
    BY <1>2, <1>5
  <2>2. d * (s + 1) = d * s + d
    OBVIOUS
  <2> QED BY <1>2, <1>4, <2>1, <2>2, d * s \in Nat, d * q \in Nat
<1> QED BY <1>2, <1>5 DEF q

LEMMA QuantizedType ==
  /\ \A x \in Units : Quantized(x) \in 0 .. quantScale
  /\ \A x \in [n : Nat, d : Nat \ {0}] : Quantized(x) \in 0 .. quantScale
  /\ Quantized(Whole(-1)) = - quantScale
<1>0. quantScale \in Nat \ {0}
  BY ScaleAssumption
<1>1. ASSUME NEW x \in [n : Nat, d : Nat] , x.n <= x.d \/ x.d # 0
      PROVE  Quantized(x) \in 0 .. quantScale
  <2>1. x.n \in Nat /\ x.d \in Nat
    OBVIOUS
  <2>2. CASE x.n > x.d
    BY <1>0, <2>1, <2>2 DEF Quantized
  <2>3. CASE x.d = 0 /\ x.n <= x.d
    BY <1>0, <2>1, <2>3 DEF Quantized
  <2>4. CASE x.n <= x.d /\ x.d # 0
    <3> DEFINE n == x.n
               d == x.d
    <3>1. n \in Nat /\ d \in Nat \ {0} /\ n <= d /\ quantScale \in Nat
      BY <1>0, <2>1, <2>4
    <3>2. Quantized(x) = (2 * n * quantScale + d) \div (2 * d)
      BY <2>1, <2>4 DEF Quantized
    <3> HIDE DEF n, d
    <3>3. (2 * n * quantScale + d) \div (2 * d) \in 0 .. quantScale
      BY <3>1, RoundedType
    <3> QED BY <3>2, <3>3
  <2> QED BY <1>1, <2>1, <2>2, <2>3, <2>4
<1>2. Quantized(Whole(-1)) = - quantScale
  BY <1>0 DEF Quantized, Whole
<1>3. \A x \in Units : x \in [n : Nat, d : Nat] /\ x.n <= x.d
  BY DEF Units
<1>4. \A x \in [n : Nat, d : Nat \ {0}] : x \in [n : Nat, d : Nat] /\ x.d # 0
  OBVIOUS
<1> QED BY <1>1, <1>2, <1>3, <1>4

LEMMA WeekdayType ==
  ASSUME NEW y \in Nat, NEW m \in 1 .. 12, NEW d \in Nat
  PROVE  weekday(y, m, d) \in 0 .. 6
<1>1. ASSUME NEW a \in Int PROVE Rem(a, 7) \in -6 .. 6 /\ (a >= 0 => Rem(a, 7) >= 0)
  BY DEF Rem, Quo
<1>2. \A a \in Int, b \in {4, 100, 400} : Quo(a, b) \in Int
  BY DEF Quo
<1>3. MonthShift[m] \in Nat
  BY DEF MonthShift
<1> DEFINE year == IF m < 3 THEN y - 1 ELSE y
           sum  == year + LeapDays(year) + MonthShift[m] + d
           dow  == Rem(sum, 7)
<1>4. year \in Int /\ LeapDays(year) \in Int
  <2>1. year \in Int
    OBVIOUS
  <2> HIDE DEF year
  <2> QED BY <1>2, <2>1 DEF LeapDays
<1>5. sum \in Int
  <2> HIDE DEF year
  <2> QED BY <1>3, <1>4
<1>6. dow \in -6 .. 6
  <2> HIDE DEF sum
  <2> QED BY <1>1, <1>5
<1>7. weekday(y, m, d) = Rem(dow + 6, 7)
  BY DEF weekday
<1> HIDE DEF dow
<1>8. dow + 6 \in Int /\ dow + 6 >= 0
  BY <1>6
<1>9. Rem(dow + 6, 7) \in 0 .. 6
  <2> DEFINE a == dow + 6
  <2>1. a \in Int /\ a >= 0
    BY <1>8
  <2> HIDE DEF a
  <2>2. Rem(a, 7) \in 0 .. 6
    BY <1>1, <2>1
  <2> QED BY <2>2 DEF a
<1> QED BY <1>7, <1>9

(***************************************************************************)
(* The payloads that the parser makes: the structs of vectorize.go.        *)
(***************************************************************************)
\* All strings; the provers do not know that the empty one is among STRING.
Texts == STRING \union {""}

Transactions == [amount : Decimals, installments : Ints, requested_at : Texts]
Customers    == [avg_amount : Decimals, tx_count_24h : Ints, known_merchants : Seq(Texts)]
Merchants    == [id : Texts, mcc : Texts, avg_amount : Decimals]
Terminals    == [is_online : BOOLEAN, card_present : BOOLEAN, km_from_home : Decimals]
LastTransactions == [timestamp : Texts, km_from_current : Decimals]

Payloads ==
  [transaction : Transactions, customer : Customers, merchant : Merchants,
   terminal : Terminals, last_transaction : LastTransactions \union {NoRecord}]

LEMMA ScaledType ==
  ASSUME NEW x \in Ratios, NEW max \in DOMAIN norm
  PROVE  clamp(Over(x, Whole(norm[max]))) \in Units
<1> DEFINE y == Whole(norm[max])
           z == Over(x, y)
<1>1. y \in Ratios
  BY NormAssumption DEF Whole, Ratios
<1>2. z \in Ordered
  <2> HIDE DEF y
  <2> QED BY <1>1, OverType
<1>3. clamp(z) \in Units
  <2> HIDE DEF z
  <2> QED BY <1>2, ClampType
<1> QED BY <1>3

LEMMA TimeType ==
  ASSUME NEW s, ~ MonthPanics(s)
  PROVE  /\ parseHourWeekday(s).hour \in 0 .. 23
         /\ parseHourWeekday(s).weekday \in 0 .. 6
<1>1. CASE HourIsRead(s)
  <2> DEFINE t == timestamps[s]
  <2>1. t.y \in Nat /\ t.m \in 1 .. 12 /\ t.d \in Nat /\ t.h \in 0 .. 23
    <3>1. t \in [y : Nat, m : Nat, d : Nat, h : Nat, min : Nat, s : Nat]
      BY <1>1, TimesAssumption DEF HourIsRead
    <3>2. t.m \in DOMAIN MonthShift /\ DOMAIN MonthShift = 1 .. 12
      BY <1>1 DEF MonthPanics, MonthShift
    <3> QED BY <1>1, <3>1, <3>2 DEF HourIsRead
  <2>2. parseHourWeekday(s) = [hour |-> t.h, weekday |-> weekday(t.y, t.m, t.d)]
    BY <1>1 DEF parseHourWeekday
  <2>3. weekday(t.y, t.m, t.d) \in 0 .. 6
    <3> DEFINE y == t.y
               m == t.m
               d == t.d
    <3>1. y \in Nat /\ m \in 1 .. 12 /\ d \in Nat
      BY <2>1
    <3> HIDE DEF y, m, d
    <3>2. weekday(y, m, d) \in 0 .. 6
      BY <3>1, WeekdayType
    <3> QED BY <3>2 DEF y, m, d
  <2> HIDE DEF t
  <2> QED BY <2>1, <2>2, <2>3
<1>2. CASE ~ HourIsRead(s)
  BY <1>2 DEF parseHourWeekday
<1> QED BY <1>1, <1>2

LEMMA MinutesType ==
  ASSUME NEW later, NEW earlier
  PROVE  parseMinutesBetween(later, earlier) \in Int
<1>1. \A a \in Int, b \in {4, 5, 60, 100, 400} : Quo(a, b) \in Int
  BY DEF Quo
<1>2. ASSUME NEW t \in [y : Nat, m : Nat, d : Nat, h : Nat, min : Nat, s : Nat]
      PROVE  Minutes(t) \in Int
  <2> DEFINE month == IF t.m <= 2 THEN t.m + 12 ELSE t.m
             year  == IF t.m <= 2 THEN t.y - 1 ELSE t.y
             days  == toUnixDays(t.y, t.m, t.d)
  <2>1. month \in Int /\ year \in Int /\ 153 * (month - 3) + 2 \in Int
    OBVIOUS
  <2>2. LeapDays(year) \in Int /\ Quo(153 * (month - 3) + 2, 5) \in Int
    <3> DEFINE c == 153 * (month - 3) + 2
    <3>1. c \in Int /\ year \in Int
      BY <2>1
    <3> HIDE DEF c, year
    <3>2. LeapDays(year) \in Int /\ Quo(c, 5) \in Int
      BY <1>1, <3>1 DEF LeapDays
    <3> QED BY <3>2 DEF c
  <2>3. days = 365 * year + LeapDays(year) + Quo(153 * (month - 3) + 2, 5) + t.d - 719469
    BY DEF toUnixDays
  <2>4. days \in Int
    <3> HIDE DEF month, year, days
    <3> QED BY <2>1, <2>2, <2>3
  <2>5. Quo(t.s, 60) \in Int
    BY <1>1
  <2> HIDE DEF days
  <2>6. Minutes(t) = days * 1440 + t.h * 60 + t.min + Quo(t.s, 60)
    BY DEF Minutes, days
  <2> QED BY <2>4, <2>5, <2>6
<1>3. CASE {later, earlier} \subseteq DOMAIN timestamps
  <2> DEFINE a == timestamps[later]
             b == timestamps[earlier]
  <2>1. Minutes(a) \in Int /\ Minutes(b) \in Int
    <3>1. /\ a \in [y : Nat, m : Nat, d : Nat, h : Nat, min : Nat, s : Nat]
          /\ b \in [y : Nat, m : Nat, d : Nat, h : Nat, min : Nat, s : Nat]
      BY <1>3, TimesAssumption
    <3> HIDE DEF a, b
    <3> QED BY <1>2, <3>1
  <2>2. parseMinutesBetween(later, earlier) = minutesBetween(a, b)
    BY <1>3 DEF parseMinutesBetween
  <2> HIDE DEF a, b
  <2> QED BY <2>1, <2>2 DEF minutesBetween
<1>4. CASE ~ ({later, earlier} \subseteq DOMAIN timestamps)
  BY <1>4 DEF parseMinutesBetween
<1> QED BY <1>3, <1>4

LEMMA Coordinates ==
  ASSUME NEW q, NEW first \in BOOLEAN
  PROVE  LET v == Vectorize(q, first)
             Scaled(x, max) == clamp(Over(x, Whole(norm[max])))
             amount == FractionOf(q.transaction.amount)
             time   == parseHourWeekday(q.transaction.requested_at)
         IN  /\ DOMAIN v = 0 .. 13
             /\ v[0] = Scaled(amount, "max_amount")
             /\ v[1] = Scaled(Whole(q.transaction.installments), "max_installments")
             /\ v[2] = Scaled(Over(amount, FractionOf(q.customer.avg_amount)), "amount_vs_avg_ratio")
             /\ v[3] = [n |-> time.hour, d |-> 23]
             /\ v[4] = [n |-> time.weekday, d |-> 6]
             /\ v[5] = IF first THEN Whole(-1)
                       ELSE Scaled(Whole(parseMinutesBetween(q.transaction.requested_at,
                                                             q.last_transaction.timestamp)),
                                   "max_minutes")
             /\ v[6] = IF first THEN Whole(-1)
                       ELSE Scaled(FractionOf(q.last_transaction.km_from_current), "max_km")
             /\ v[7] = Scaled(FractionOf(q.terminal.km_from_home), "max_km")
             /\ v[8] = Scaled(Whole(q.customer.tx_count_24h), "max_tx_count_24h")
             /\ v[9] = Flag(q.terminal.is_online)
             /\ v[10] = Flag(q.terminal.card_present)
             /\ v[11] = Flag(~ isKnownMerchant(q.merchant.id, q.customer.known_merchants))
             /\ v[12] = (IF q.merchant.mcc \in DOMAIN mccRisk THEN mccRisk[q.merchant.mcc]
                         ELSE [n |-> 1, d |-> 2])
             /\ v[13] = Scaled(FractionOf(q.merchant.avg_amount), "max_merchant_avg_amount")
BY DEF Vectorize

(***************************************************************************)
(* All coordinates but the two that stand for a missing last transaction   *)
(* are from 0 to quantScale.                                               *)
(***************************************************************************)
LEMMA QueryForm ==
  ASSUME NEW q \in Payloads, NEW first \in BOOLEAN,
         first = (q.last_transaction = NoRecord),
         ~ MonthPanics(q.transaction.requested_at)
  PROVE  LET v == quantizeVector(Vectorize(q, first))
         IN  /\ first => v[5] = - quantScale /\ v[6] = - quantScale
             /\ \A i \in 0 .. 13 : (first /\ i \in {5, 6}) \/ v[i] \in 0 .. quantScale
<1> DEFINE v == Vectorize(q, first)
           Scaled(x, max) == clamp(Over(x, Whole(norm[max])))
           amount == FractionOf(q.transaction.amount)
           time   == parseHourWeekday(q.transaction.requested_at)
<1>0. Ints \subseteq Int
  BY MaxIntAssumption DEF Ints
<1>1. ASSUME NEW d \in Decimals PROVE FractionOf(d) \in Ratios
  BY FractionType
<1>2. ASSUME NEW n \in Int PROVE Whole(n) \in Ratios
  BY DEF Whole, Ratios
<1>3. ASSUME NEW x \in Ratios, NEW max \in DOMAIN norm PROVE Scaled(x, max) \in Units
  BY ScaledType
<1>4. DOMAIN norm = {"max_amount", "max_installments", "amount_vs_avg_ratio", "max_minutes",
                     "max_km", "max_tx_count_24h", "max_merchant_avg_amount"}
  BY NormAssumption
<1>5. /\ q.transaction.amount \in Decimals /\ q.transaction.installments \in Int
      /\ q.customer.avg_amount \in Decimals /\ q.customer.tx_count_24h \in Int
      /\ q.terminal.km_from_home \in Decimals /\ q.merchant.avg_amount \in Decimals
      /\ ~ first => q.last_transaction.km_from_current \in Decimals
  <2>1. /\ q.transaction \in Transactions /\ q.customer \in Customers
        /\ q.merchant \in Merchants /\ q.terminal \in Terminals
        /\ ~ first => q.last_transaction \in LastTransactions
    BY DEF Payloads
  <2> QED BY <1>0, <2>1 DEF Transactions, Customers, Merchants, Terminals, LastTransactions
<1>6. amount \in Ratios
  BY <1>1, <1>5
<1>7. time.hour \in 0 .. 23 /\ time.weekday \in 0 .. 6
  BY TimeType
<1>8. /\ DOMAIN v = 0 .. 13
      /\ v[0] = Scaled(amount, "max_amount")
      /\ v[1] = Scaled(Whole(q.transaction.installments), "max_installments")
      /\ v[2] = Scaled(Over(amount, FractionOf(q.customer.avg_amount)), "amount_vs_avg_ratio")
      /\ v[3] = [n |-> time.hour, d |-> 23]
      /\ v[4] = [n |-> time.weekday, d |-> 6]
      /\ v[5] = IF first THEN Whole(-1)
                ELSE Scaled(Whole(parseMinutesBetween(q.transaction.requested_at,
                                                      q.last_transaction.timestamp)),
                            "max_minutes")
      /\ v[6] = IF first THEN Whole(-1)
                ELSE Scaled(FractionOf(q.last_transaction.km_from_current), "max_km")
      /\ v[7] = Scaled(FractionOf(q.terminal.km_from_home), "max_km")
      /\ v[8] = Scaled(Whole(q.customer.tx_count_24h), "max_tx_count_24h")
      /\ v[9] = Flag(q.terminal.is_online)
      /\ v[10] = Flag(q.terminal.card_present)
      /\ v[11] = Flag(~ isKnownMerchant(q.merchant.id, q.customer.known_merchants))
      /\ v[12] = (IF q.merchant.mcc \in DOMAIN mccRisk THEN mccRisk[q.merchant.mcc]
                  ELSE [n |-> 1, d |-> 2])
      /\ v[13] = Scaled(FractionOf(q.merchant.avg_amount), "max_merchant_avg_amount")
  BY Coordinates
<1> HIDE DEF v, Scaled, amount, time
<1>9. v[0] \in Units /\ v[1] \in Units /\ v[7] \in Units /\ v[8] \in Units /\ v[13] \in Units
  BY <1>1, <1>2, <1>3, <1>4, <1>5, <1>6, <1>8
<1>10. v[2] \in Units
  <2> DEFINE x == Over(amount, FractionOf(q.customer.avg_amount))
  <2>1. x \in Ratios
    BY <1>1, <1>5, <1>6, OverType
  <2> HIDE DEF x
  <2>2. Scaled(x, "amount_vs_avg_ratio") \in Units
    BY <1>3, <1>4, <2>1
  <2> QED BY <1>8, <2>2 DEF x
<1>11. v[3] \in Units /\ v[4] \in Units
  BY <1>7, <1>8 DEF Units
<1>12. ~ first => v[5] \in Units /\ v[6] \in Units
  <2> SUFFICES ASSUME ~ first PROVE v[5] \in Units /\ v[6] \in Units
    OBVIOUS
  <2> DEFINE n == parseMinutesBetween(q.transaction.requested_at, q.last_transaction.timestamp)
  <2>1. n \in Int
    BY MinutesType
  <2>2. v[5] = Scaled(Whole(n), "max_minutes")
    BY <1>8
  <2> HIDE DEF n
  <2>3. v[5] \in Units
    BY <1>2, <1>3, <1>4, <2>1, <2>2
  <2>4. v[6] \in Units
    BY <1>1, <1>3, <1>4, <1>5, <1>8
  <2> QED BY <2>3, <2>4
<1>13. v[9] \in Units /\ v[10] \in Units /\ v[11] \in Units
  <2>1. \A b \in BOOLEAN : Flag(b) \in Units
    BY DEF Flag, Whole, Units
  <2>2. q.terminal.is_online \in BOOLEAN /\ q.terminal.card_present \in BOOLEAN
    BY DEF Payloads, Terminals
  <2>3. (~ isKnownMerchant(q.merchant.id, q.customer.known_merchants)) \in BOOLEAN
    BY Zenon DEF isKnownMerchant
  <2> QED BY <1>8, <2>1, <2>2, <2>3
<1>14. v[12] \in [n : Nat, d : Nat \ {0}]
  BY <1>8, RiskAssumption
<1>15. \A i \in 0 .. 13 : quantizeVector(v)[i] = Quantized(v[i])
  BY <1>8 DEF quantizeVector
<1>16. first => v[5] = Whole(-1) /\ v[6] = Whole(-1)
  BY <1>8
<1>17. \A i \in 0 .. 13 : (first /\ i \in {5, 6}) \/ i = 12 \/ v[i] \in Units
  <2>1. \A i \in 0 .. 13 : \/ i = 0 \/ i = 1 \/ i = 2 \/ i = 3 \/ i = 4 \/ i = 5 \/ i = 6 \/ i = 7
                           \/ i = 8 \/ i = 9 \/ i = 10 \/ i = 11 \/ i = 12 \/ i = 13
    OBVIOUS
  <2> QED BY <1>9, <1>10, <1>11, <1>12, <1>13, <2>1
<1>18. \A i \in 0 .. 13 : (first /\ i \in {5, 6}) \/ quantizeVector(v)[i] \in 0 .. quantScale
  <2>1. quantizeVector(v)[12] \in 0 .. quantScale
    BY <1>14, <1>15, QuantizedType
  <2>2. \A x \in Units : Quantized(x) \in 0 .. quantScale
    BY QuantizedType
  <2> QED BY <1>15, <1>17, <2>1, <2>2
<1>19. first => quantizeVector(v)[5] = - quantScale /\ quantizeVector(v)[6] = - quantScale
  BY <1>15, <1>16, QuantizedType
<1> QED BY <1>18, <1>19 DEF v

-----------------------------------------------------------------------------
(***************************************************************************)
(* The parser keeps its types: a payload has in each field what the reader *)
(* of the field returns, and there is a record to read into while a        *)
(* last_transaction is open.                                               *)
(***************************************************************************)
Frames ==
  [of : DOMAIN Known \union {"strings", "skippedObject", "skippedArray"},
   at : {"member", "value", "first", "element", "after"},
   key : Texts]

ParserTypeOK ==
  /\ input \in Inputs /\ pos \in Nat
  /\ stack \in Seq(Frames)
  /\ p \in Payloads
  /\ lt \in LastTransactions \union {NoRecord}
  /\ \A i \in DOMAIN stack : stack[i].of = "last_transaction" => lt \in LastTransactions

LEMMA MeaningType ==
  ASSUME NEW t, IsToken(t), NEW reader, Reads(reader, t)
  PROVE  /\ reader = "int"    => Meaning(reader, t) \in Ints
         /\ reader = "float"  => Meaning(reader, t) \in Decimals
         /\ reader = "bool"   => Meaning(reader, t) \in BOOLEAN
         /\ reader = "string" => Meaning(reader, t) \in Texts
<1>1. CASE reader = "int"
  <2>1. t.n \in Seq(STRING) /\ readsInt(t.n)
    BY <1>1 DEF Reads, IsToken
  <2>2. Meaning(reader, t) = parseInt32Bytes(t.n)
    BY <1>1 DEF Meaning
  <2>3. parseInt32Bytes(t.n) \in Ints
    BY <2>1, ReadIntType
  <2> QED BY <1>1, <2>2, <2>3
<1>2. CASE reader = "float"
  <2>1. t.n \in Seq(STRING) /\ readsFloat(t.n)
    BY <1>2 DEF Reads, IsToken
  <2>2. Meaning(reader, t) = parseFloat32Bytes(t.n)
    BY <1>2 DEF Meaning
  <2>3. parseFloat32Bytes(t.n) \in Decimals
    BY <2>1, ReadFloatType
  <2> QED BY <1>2, <2>2, <2>3
<1>3. CASE reader = "bool"
  <2>1. Meaning(reader, t) = (t.is = "true")
    BY <1>3 DEF Meaning
  <2> QED BY <1>3, <2>1
<1>4. CASE reader = "string"
  <2>1. Meaning(reader, t) = t.s
    BY <1>4 DEF Meaning
  <2>2. t.s \in Texts
    BY <1>4 DEF Reads, IsToken, Texts
  <2> QED BY <1>4, <2>1, <2>2
<1> QED BY <1>1, <1>2, <1>3, <1>4

LEMMA EmptyTypes ==
  EmptyPayload \in Payloads /\ Empty("last_transaction") \in LastTransactions
<1>1. /\ Zero.float \in Decimals /\ Zero.int \in Ints /\ Zero.string \in Texts
      /\ Zero.bool \in BOOLEAN /\ Zero.strings \in Seq(Texts)
  <2>1. Zero.float \in Decimals /\ Zero.int = 0 /\ Zero.bool \in BOOLEAN
    BY DEF Zero, Decimals
  <2>2. 0 \in Ints
    BY MaxIntAssumption DEF Ints
  <2>3. Zero.string \in Texts
    BY DEF Zero, Texts
  <2>4. Zero.strings = << >>
    BY DEF Zero
  <2>5. Zero.strings \in Seq(Texts)
    BY <2>4
  <2> QED BY <2>1, <2>2, <2>3, <2>5
<1>2. Empty("transaction") =
        [amount |-> Zero.float, installments |-> Zero.int, requested_at |-> Zero.string]
  BY DEF Empty, Known
<1>3. Empty("customer") =
        [avg_amount |-> Zero.float, tx_count_24h |-> Zero.int, known_merchants |-> Zero.strings]
  BY DEF Empty, Known
<1>4. Empty("merchant") =
        [id |-> Zero.string, mcc |-> Zero.string, avg_amount |-> Zero.float]
  BY DEF Empty, Known
<1>5. Empty("terminal") =
        [is_online |-> Zero.bool, card_present |-> Zero.bool, km_from_home |-> Zero.float]
  BY DEF Empty, Known
<1>6. Empty("last_transaction") = [timestamp |-> Zero.string, km_from_current |-> Zero.float]
  BY DEF Empty, Known
<1> QED BY <1>1, <1>2, <1>3, <1>4, <1>5, <1>6
        DEF EmptyPayload, Payloads, Transactions, Customers, Merchants, Terminals, LastTransactions

LEMMA PeekType ==
  ASSUME ParserTypeOK
  PROVE  IsToken(Peek)
<1>1. IsBody(input.tokens)
  BY InputsAssumption DEF ParserTypeOK
<1>2. CASE pos < Len(input.tokens)
  <2>1. pos + 1 \in DOMAIN input.tokens
    BY <1>1, <1>2 DEF IsBody, ParserTypeOK
  <2> QED BY <1>1, <1>2, <2>1 DEF IsBody, Peek
<1>3. CASE ~ (pos < Len(input.tokens))
  BY <1>3 DEF Peek, IsToken
<1> QED BY <1>2, <1>3

(***************************************************************************)
(* The stack, whose last_transaction frames have a record l to read into.  *)
(***************************************************************************)
StackOK(s, l) ==
  s \in Seq(Frames) /\ \A i \in DOMAIN s : s[i].of = "last_transaction" => l \in LastTransactions

LEMMA StackPushed ==
  ASSUME NEW s, NEW l, StackOK(s, l), NEW f \in Frames,
         f.of = "last_transaction" => l \in LastTransactions
  PROVE  StackOK(<<f>> \o s, l)
<1>1. s \in Seq(Frames)
  BY DEF StackOK
<1>2. <<f>> \o s \in Seq(Frames)
  BY <1>1
<1>3. ASSUME NEW i \in DOMAIN (<<f>> \o s)
      PROVE  (<<f>> \o s)[i] = f \/ \E k \in DOMAIN s : (<<f>> \o s)[i] = s[k]
  <2>1. CASE i = 1
    BY <1>1, <2>1
  <2>2. CASE i # 1
    <3>1. i - 1 \in DOMAIN s /\ (<<f>> \o s)[i] = s[i - 1]
      BY <1>1, <1>3, <2>2
    <3> QED BY <3>1
  <2> QED BY <2>1, <2>2
<1> DEFINE c == <<f>> \o s
<1>4. \A i \in DOMAIN c : c[i].of = "last_transaction" => l \in LastTransactions
  <2>1. \A i \in DOMAIN c : c[i] = f \/ \E k \in DOMAIN s : c[i] = s[k]
    BY <1>3
  <2> HIDE DEF c
  <2> QED BY <2>1 DEF StackOK
<1> QED BY <1>2, <1>4 DEF StackOK

LEMMA StackPopped ==
  ASSUME NEW s, NEW l, StackOK(s, l), s # << >>
  PROVE  /\ StackOK(Tail(s), l) /\ Head(s) \in Frames
         /\ Head(s).of = "last_transaction" => l \in LastTransactions
<1>1. s \in Seq(Frames) /\ Len(s) \in Nat \ {0}
  BY DEF StackOK
<1>2. Head(s) = s[1] /\ 1 \in DOMAIN s
  BY <1>1
<1>3. Tail(s) \in Seq(Frames)
  BY <1>1
<1>4. ASSUME NEW i \in DOMAIN Tail(s) PROVE Tail(s)[i] = s[i + 1] /\ i + 1 \in DOMAIN s
  BY <1>1, <1>4
<1> QED BY <1>1, <1>2, <1>3, <1>4 DEF StackOK

LEMMA StackMoved ==
  ASSUME ParserTypeOK, stack # << >>,
         NEW at \in {"member", "value", "first", "element", "after"}
  PROVE  /\ StackOK(MoveTo(at), lt) /\ StackOK(Tail(stack), lt) /\ Top \in Frames
         /\ Top.of = "last_transaction" => lt \in LastTransactions
<1>1. StackOK(stack, lt)
  BY DEF ParserTypeOK, StackOK
<1>2. /\ StackOK(Tail(stack), lt) /\ Top \in Frames
      /\ Top.of = "last_transaction" => lt \in LastTransactions
  BY <1>1, StackPopped DEF Top
<1> DEFINE f == [Top EXCEPT !.at = at]
<1>3. f \in Frames /\ f.of = Top.of
  BY <1>2 DEF Frames
<1>4. StackOK(<<f>> \o Tail(stack), lt)
  <2> HIDE DEF f
  <2> QED BY <1>2, <1>3, StackPushed
<1> QED BY <1>2, <1>4 DEF MoveTo

LEMMA KnownReader ==
  ASSUME Top.of \notin {"strings", "skippedArray"}, Reader # "skip"
  PROVE  /\ Top.of \in DOMAIN Known /\ Top.key \in DOMAIN Known[Top.of]
         /\ Reader = Known[Top.of][Top.key]
BY DEF Reader, ReaderOf

LEMMA ReadFieldType ==
  ASSUME ParserTypeOK, ReadField
  PROVE  p' \in Payloads
<1> DEFINE of == Top.of
           key == Top.key
           v == Meaning(Reader, Peek)
<1>1. of \in {"transaction", "customer", "merchant", "terminal"} /\ p \in Payloads
      /\ p' = [p EXCEPT ![of][key] = v] /\ Reader # "skip"
  BY DEF ReadField, ParserTypeOK, Payloads
<1>2. of \in DOMAIN Known /\ key \in DOMAIN Known[of] /\ Reader = Known[of][key]
  <2>1. Top.of \notin {"strings", "skippedArray"} /\ Reader # "skip"
    BY <1>1
  <2> QED BY <2>1, KnownReader
<1>3. Reads(Reader, Peek)
  BY DEF ReadField, ReadScalar
<1>4. /\ Reader = "int"    => v \in Ints
      /\ Reader = "float"  => v \in Decimals
      /\ Reader = "bool"   => v \in BOOLEAN
      /\ Reader = "string" => v \in Texts
  BY <1>3, MeaningType, PeekType
<1>5. Reader # "strings"
  BY <1>3 DEF Reads
<1>6. /\ p.transaction \in Transactions /\ p.customer \in Customers
      /\ p.merchant \in Merchants /\ p.terminal \in Terminals
  BY <1>1 DEF Payloads
<1> HIDE DEF v, of, key
<1>8. CASE of = "transaction"
  <2>1. [p.transaction EXCEPT ![key] = v] \in Transactions
    <3>1. key \in {"amount", "installments", "requested_at"}
      BY <1>2, <1>8 DEF Known
    <3>2. /\ key = "amount" => Reader = "float"
          /\ key = "installments" => Reader = "int"
          /\ key = "requested_at" => Reader = "string"
      BY <1>2, <1>8 DEF Known
    <3> QED BY <1>4, <1>6, <3>1, <3>2 DEF Transactions
  <2>2. p' = [p EXCEPT !.transaction = [p.transaction EXCEPT ![key] = v]]
    BY <1>1, <1>8 DEF Payloads
  <2> DEFINE f == [p.transaction EXCEPT ![key] = v]
  <2> HIDE DEF f
  <2> QED BY <1>1, <2>1, <2>2 DEF Payloads, f
<1>9. CASE of = "customer"
  <2>1. [p.customer EXCEPT ![key] = v] \in Customers
    <3>1. key \in {"avg_amount", "tx_count_24h"}
      BY <1>2, <1>5, <1>9 DEF Known
    <3>2. /\ key = "avg_amount" => Reader = "float"
          /\ key = "tx_count_24h" => Reader = "int"
      BY <1>2, <1>9 DEF Known
    <3> QED BY <1>4, <1>6, <3>1, <3>2 DEF Customers
  <2>2. p' = [p EXCEPT !.customer = [p.customer EXCEPT ![key] = v]]
    BY <1>1, <1>9 DEF Payloads
  <2> QED BY <1>1, <2>1, <2>2 DEF Payloads
<1>10. CASE of = "merchant"
  <2>1. [p.merchant EXCEPT ![key] = v] \in Merchants
    <3>1. key \in {"id", "mcc", "avg_amount"}
      BY <1>2, <1>10 DEF Known
    <3>2. /\ key \in {"id", "mcc"} => Reader = "string"
          /\ key = "avg_amount" => Reader = "float"
      BY <1>2, <1>10 DEF Known
    <3> QED BY <1>4, <1>6, <3>1, <3>2 DEF Merchants
  <2>2. p' = [p EXCEPT !.merchant = [p.merchant EXCEPT ![key] = v]]
    BY <1>1, <1>10 DEF Payloads
  <2> QED BY <1>1, <2>1, <2>2 DEF Payloads
<1>11. CASE of = "terminal"
  <2>1. [p.terminal EXCEPT ![key] = v] \in Terminals
    <3>1. key \in {"is_online", "card_present", "km_from_home"}
      BY <1>2, <1>11 DEF Known
    <3>2. /\ key \in {"is_online", "card_present"} => Reader = "bool"
          /\ key = "km_from_home" => Reader = "float"
      BY <1>2, <1>11 DEF Known
    <3> QED BY <1>4, <1>6, <3>1, <3>2 DEF Terminals
  <2>2. p' = [p EXCEPT !.terminal = [p.terminal EXCEPT ![key] = v]]
    BY <1>1, <1>11 DEF Payloads
  <2> QED BY <1>1, <2>1, <2>2 DEF Payloads
<1> QED BY <1>1, <1>8, <1>9, <1>10, <1>11

LEMMA ReadLastFieldType ==
  ASSUME ParserTypeOK, ReadLastField
  PROVE  lt' \in LastTransactions
<1> DEFINE key == Top.key
           v == Meaning(Reader, Peek)
<1>1. Top.of = "last_transaction" /\ lt' = [lt EXCEPT ![key] = v] /\ Reader # "skip"
      /\ Reads(Reader, Peek) /\ stack # << >>
  BY DEF ReadLastField, ReadScalar, At
<1>2. lt \in LastTransactions
  BY <1>1, StackMoved
<1>3. key \in DOMAIN Known.last_transaction /\ Reader = Known.last_transaction[key]
  BY <1>1, KnownReader
<1>4. /\ Reader = "float"  => v \in Decimals
      /\ Reader = "string" => v \in Texts
  BY <1>1, MeaningType, PeekType
<1> HIDE DEF v, key
<1>5. key \in {"timestamp", "km_from_current"}
  BY <1>3 DEF Known
<1>6. (key = "timestamp" => Reader = "string") /\ (key = "km_from_current" => Reader = "float")
  BY <1>3 DEF Known
<1> QED BY <1>1, <1>2, <1>4, <1>5, <1>6 DEF LastTransactions

(***************************************************************************)
(* The object that is opened: of a known key, a last_transaction only with *)
(* a new record.                                                           *)
(***************************************************************************)
LEMMA OpenedType ==
  ASSUME ParserTypeOK, Reader \in {"object", "nullable"}
  PROVE  /\ Top.key \in DOMAIN Known /\ Top.key # "payload"
         /\ Top.key = "last_transaction" <=> Reader = "nullable"
<1>1. Top.of \notin {"strings", "skippedArray"} /\ Reader # "skip"
  BY DEF Reader
<1>2. /\ Top.of \in DOMAIN Known /\ Top.key \in DOMAIN Known[Top.of]
      /\ Reader = Known[Top.of][Top.key]
  BY <1>1, KnownReader
<1> DEFINE of == Top.of
           key == Top.key
           r == Reader
<1>3. of \in DOMAIN Known /\ key \in DOMAIN Known[of] /\ r = Known[of][key]
      /\ r \in {"object", "nullable"}
  BY <1>2
<1> HIDE DEF of, key, r
<1>4. of = "payload"
  BY <1>3 DEF Known
<1>5. key \in {"id", "transaction", "customer", "merchant", "terminal", "last_transaction"}
  BY <1>3, <1>4 DEF Known
<1>6. key \in DOMAIN Known /\ key # "payload" /\ (key = "last_transaction" <=> r = "nullable")
  BY <1>3, <1>4, <1>5 DEF Known
<1> QED BY <1>6 DEF key, r

LEMMA ParseStep ==
  ASSUME ParserTypeOK, ParseNext
  PROVE  ParserTypeOK'
<1>0. /\ input \in Inputs /\ pos \in Nat /\ StackOK(stack, lt) /\ p \in Payloads
      /\ lt \in LastTransactions \union {NoRecord}
  BY DEF ParserTypeOK, StackOK
<1>1. SUFFICES /\ input' \in Inputs /\ pos' \in Nat /\ StackOK(stack', lt') /\ p' \in Payloads
               /\ lt' \in LastTransactions \union {NoRecord}
  BY DEF ParserTypeOK, StackOK
<1>2. ASSUME stack # << >>
      PROVE  /\ StackOK(MoveTo("after"), lt) /\ StackOK(MoveTo("member"), lt)
             /\ StackOK(MoveTo("element"), lt)
             /\ StackOK(Tail(stack), lt) /\ Top \in Frames
             /\ Top.of = "last_transaction" => lt \in LastTransactions
  BY <1>2, StackMoved
<1>3. ASSUME NEW n \in {1, 2}, Advance(n) PROVE input' \in Inputs /\ pos' \in Nat
  BY <1>0, <1>3 DEF Advance
<1>4. CASE OpenPayload
  <2>1. Frame("payload", "member") \in Frames /\ Frame("payload", "member").of = "payload"
    BY DEF Frame, Frames, Known, Texts
  <2> DEFINE f == Frame("payload", "member")
  <2>2. StackOK(<< >>, lt)
    BY DEF StackOK
  <2>3. StackOK(<<f>>, lt)
    <3> HIDE DEF f
    <3> QED BY <2>1 DEF StackOK, f
  <2>4. stack' = <<f>>
    BY <1>4 DEF OpenPayload
  <2> HIDE DEF f
  <2> QED BY <1>0, <1>3, <1>4, <2>3, <2>4 DEF OpenPayload
<1>5. CASE ReadKey
  <2>1. stack # << >> /\ Peek.is = "string"
    BY <1>5 DEF ReadKey, At, KeyComes
  <2> DEFINE f == [Top EXCEPT !.at = "value", !.key = Peek.s]
  <2>2. Peek.s \in Texts
    BY <2>1, PeekType DEF IsToken, Texts
  <2>3. f \in Frames /\ f.of = Top.of
    BY <1>2, <2>1, <2>2 DEF Frames
  <2>4. stack' = <<f>> \o Tail(stack)
    BY <1>5 DEF ReadKey
  <2> HIDE DEF f
  <2>5. StackOK(<<f>> \o Tail(stack), lt)
    BY <1>2, <2>1, <2>3, StackPushed
  <2> QED BY <1>0, <1>3, <1>5, <2>4, <2>5 DEF ReadKey
<1>6. ASSUME ReadScalar
      PROVE  stack # << >> /\ stack' = MoveTo("after") /\ input' \in Inputs /\ pos' \in Nat
  BY <1>3, <1>6 DEF ReadScalar, At
<1>7. CASE ReadField
  <2>1. p' \in Payloads
    BY <1>7, ReadFieldType
  <2> QED BY <1>0, <1>2, <1>6, <1>7, <2>1 DEF ReadField
<1>8. CASE ReadLastField
  <2>1. lt' \in LastTransactions
    BY <1>8, ReadLastFieldType
  <2>2. StackOK(MoveTo("after"), lt) => StackOK(MoveTo("after"), lt')
    <3> DEFINE s == MoveTo("after")
    <3> HIDE DEF s
    <3>1. StackOK(s, lt) => StackOK(s, lt')
      BY <2>1 DEF StackOK
    <3> QED BY <3>1 DEF s
  <2> QED BY <1>0, <1>2, <1>6, <1>8, <2>1, <2>2 DEF ReadLastField
<1>9. CASE ReadMerchant
  <2>1. Reader = "string" /\ Reads(Reader, Peek)
    BY <1>9 DEF ReadMerchant, ReadScalar, Reader
  <2>2. Peek.s \in Texts
    BY <2>1, PeekType DEF IsToken, Texts, Reads
  <2> DEFINE known == Append(p.customer.known_merchants, Peek.s)
  <2>3. known \in Seq(Texts)
    <3>1. p.customer.known_merchants \in Seq(Texts)
      BY <1>0 DEF Payloads, Customers
    <3> QED BY <2>2, <3>1
  <2>4. p' = [p EXCEPT !.customer.known_merchants = known]
    BY <1>9 DEF ReadMerchant
  <2> HIDE DEF known
  <2>5. p' \in Payloads
    BY <1>0, <2>3, <2>4 DEF Payloads, Customers
  <2> QED BY <1>0, <1>2, <1>6, <1>9, <2>5 DEF ReadMerchant
<1>10. CASE ReadNull
  <2>1. p' \in Payloads
    BY <1>0, <1>10 DEF ReadNull, Payloads
  <2> QED BY <1>0, <1>2, <1>6, <1>10, <2>1 DEF ReadNull
<1>11. CASE SkipScalar
  BY <1>0, <1>2, <1>6, <1>11 DEF SkipScalar
<1>12. CASE OpenObject
  <2>1. stack # << >> /\ Reader \in {"object", "nullable", "skip"}
    BY <1>12 DEF OpenObject, At, ObjectComes
  <2> DEFINE of == IF Reader = "skip" THEN "skippedObject" ELSE Top.key
             f  == Frame(of, "member")
  <2>2. stack' = <<f>> \o MoveTo("after")
        /\ lt' = (IF Reader = "nullable" THEN Empty("last_transaction") ELSE lt)
        /\ UNCHANGED p /\ Advance(1)
    BY <1>12 DEF OpenObject
  <2>3. f.of = of /\ f \in Frames /\ (of = "last_transaction" => Reader = "nullable")
    <3>1. CASE Reader = "skip"
      BY <3>1 DEF Frame, Frames, Texts
    <3>2. CASE Reader # "skip"
      <4>1. Top.key \in DOMAIN Known /\ (Top.key = "last_transaction" <=> Reader = "nullable")
        BY <2>1, <3>2, OpenedType
      <4> QED BY <3>2, <4>1 DEF Frame, Frames, Texts
    <3> QED BY <3>1, <3>2
  <2>4. lt' \in LastTransactions \union {NoRecord}
        /\ (Reader = "nullable" => lt' \in LastTransactions)
        /\ (lt \in LastTransactions => lt' \in LastTransactions)
    BY <1>0, <2>2, EmptyTypes
  <2>5. StackOK(MoveTo("after"), lt')
    <3> DEFINE s == MoveTo("after")
    <3>1. StackOK(s, lt)
      BY <1>2, <2>1
    <3> HIDE DEF s
    <3>2. StackOK(s, lt')
      BY <2>4, <3>1 DEF StackOK
    <3> QED BY <3>2 DEF s
  <2>6. StackOK(<<f>> \o MoveTo("after"), lt')
    <3> DEFINE s == MoveTo("after")
    <3> HIDE DEF s, f, of
    <3>1. StackOK(s, lt')
      BY <2>5 DEF s
    <3>2. StackOK(<<f>> \o s, lt')
      BY <2>3, <2>4, <3>1, StackPushed
    <3> QED BY <3>2 DEF s
  <2> HIDE DEF f, of
  <2> QED BY <1>0, <1>3, <2>2, <2>4, <2>6
<1>13. CASE OpenArray
  <2>1. stack # << >>
    BY <1>13 DEF OpenArray, At
  <2> DEFINE of == IF Reader = "skip" THEN "skippedArray" ELSE "strings"
             f  == Frame(of, "first")
  <2>2. stack' = <<f>> \o MoveTo("after") /\ UNCHANGED lt /\ Advance(1)
        /\ p' = (IF Reader = "strings" THEN [p EXCEPT !.customer.known_merchants = <<>>] ELSE p)
    BY <1>13 DEF OpenArray
  <2>3. f \in Frames /\ f.of # "last_transaction"
    BY DEF Frame, Frames, Texts
  <2>4. StackOK(<<f>> \o MoveTo("after"), lt)
    <3> DEFINE s == MoveTo("after")
    <3>1. StackOK(s, lt)
      BY <1>2, <2>1
    <3> HIDE DEF s, f
    <3>2. StackOK(<<f>> \o s, lt)
      BY <2>3, <3>1, StackPushed
    <3> QED BY <3>2 DEF s
  <2>5. p' \in Payloads
    <3>1. << >> \in Seq(Texts)
      OBVIOUS
    <3>2. [p EXCEPT !.customer.known_merchants = <<>>] \in Payloads
      BY <1>0, <3>1 DEF Payloads, Customers
    <3> QED BY <1>0, <2>2, <3>2
  <2> HIDE DEF f, of
  <2> QED BY <1>0, <1>3, <2>2, <2>4, <2>5
<1>14. CASE Comma
  <2>1. stack # << >> /\ stack' \in {MoveTo("element"), MoveTo("member")}
        /\ Advance(1) /\ UNCHANGED <<p, lt>>
    BY <1>14 DEF Comma, At
  <2> QED BY <1>0, <1>2, <1>3, <2>1
<1>15. CASE CloseArray
  BY <1>0, <1>2, <1>3, <1>15 DEF CloseArray, At
<1>16. CASE CloseObject
  <2>1. stack # << >> /\ stack' = Tail(stack) /\ UNCHANGED lt /\ Advance(1)
        /\ p' = (IF Top.of = "last_transaction" THEN [p EXCEPT !.last_transaction = lt] ELSE p)
    BY <1>16 DEF CloseObject, At
  <2>2. p' \in Payloads
    <3>1. lt \in LastTransactions => [p EXCEPT !.last_transaction = lt] \in Payloads
      BY <1>0 DEF Payloads
    <3> QED BY <1>0, <1>2, <2>1, <3>1
  <2> QED BY <1>0, <1>2, <1>3, <2>1, <2>2
<1>17. CASE Fail
  <2>1. UNCHANGED <<input, pos, stack, p, lt>>
    BY <1>17 DEF Fail
  <2> QED BY <1>0, <2>1
<1> QED BY <1>4, <1>5, <1>7, <1>8, <1>9, <1>10, <1>11, <1>12, <1>13, <1>14, <1>15, <1>16, <1>17
        DEF ParseNext, Read

-----------------------------------------------------------------------------
(***************************************************************************)
(* A query is made once, of a payload that is parsed and no longer changes.*)
(***************************************************************************)
ScoreInv ==
  /\ ParserTypeOK
  /\ query # NoQuery =>
       /\ status \in {"searching", "answered"}
       /\ ~ MonthPanics(p.transaction.requested_at)
       /\ query = quantizeVector(Vectorize(p, p.last_transaction = NoRecord))

LEMMA ScoreInit == Init => ScoreInv
<1> SUFFICES ASSUME Init PROVE ScoreInv
  OBVIOUS
<1>1. /\ input \in Inputs /\ pos = 0 /\ stack = << >> /\ p = EmptyPayload
      /\ lt = NoRecord /\ query = NoQuery
  BY DEF Init, ParseInit
<1>2. << >> \in Seq(Frames) /\ DOMAIN << >> = {}
  OBVIOUS
<1> QED BY <1>1, <1>2, EmptyTypes DEF ScoreInv, ParserTypeOK

LEMMA ScoreStep == ScoreInv /\ [Next]_<<vars, scoreVars>> => ScoreInv'
<1> SUFFICES ASSUME ScoreInv, [Next]_<<vars, scoreVars>> PROVE ScoreInv'
  OBVIOUS
<1>0. ASSUME UNCHANGED vars PROVE ParserTypeOK'
  BY <1>0 DEF ScoreInv, ParserTypeOK, vars
<1>1. ASSUME UNCHANGED vars, UNCHANGED query, query # NoQuery => status' \in {"searching", "answered"}
      PROVE  ScoreInv'
  <2>1. p' = p
    BY <1>1 DEF vars
  <2>2. query # NoQuery =>
          /\ ~ MonthPanics(p.transaction.requested_at)
          /\ query = quantizeVector(Vectorize(p, p.last_transaction = NoRecord))
    BY DEF ScoreInv
  <2> QED BY <1>0, <1>1, <2>1, <2>2 DEF ScoreInv
<1>2. CASE ReadRequest \/ ReadRequestPanics \/ Route \/ AnswerUnparsed \/ FraudCountPanics
  <2>1. UNCHANGED vars /\ UNCHANGED query /\ status \in {"reading", "routing", "parsing"}
    BY <1>2 DEF ReadRequest, ReadRequestPanics, Route, AnswerUnparsed, FraudCountPanics
  <2>2. query = NoQuery
    BY <2>1 DEF ScoreInv
  <2> QED BY <1>1, <2>1, <2>2
<1>3. CASE Parse
  <2>1. ParserTypeOK'
    BY <1>3, ParseStep DEF Parse, ScoreInv
  <2>2. query = NoQuery /\ query' = NoQuery
    BY <1>3 DEF Parse, ScoreInv, scoreVars
  <2> QED BY <2>1, <2>2 DEF ScoreInv
<1>4. CASE FraudCount
  <2>1. /\ UNCHANGED vars /\ status' = "searching"
        /\ ~ MonthPanics(p.transaction.requested_at)
        /\ query' = quantizeVector(Vectorize(p, p.last_transaction = NoRecord))
    BY <1>4 DEF FraudCount
  <2>2. p' = p
    BY <2>1 DEF vars
  <2> QED BY <1>0, <2>1, <2>2 DEF ScoreInv
<1>5. CASE SearchCount
  <2>1. UNCHANGED vars /\ UNCHANGED query /\ status' = "answered"
    BY <1>5 DEF SearchCount, Answer
  <2> QED BY <1>1, <2>1
<1>6. CASE Ended \/ UNCHANGED <<vars, scoreVars>>
  <2>1. UNCHANGED vars /\ UNCHANGED query /\ UNCHANGED status
    BY <1>6 DEF Ended, scoreVars
  <2> QED BY <1>1, <2>1 DEF ScoreInv
<1> QED BY <1>2, <1>3, <1>4, <1>5, <1>6 DEF Next

(***************************************************************************)
(* ScoreInv is inductive: every reachable state has the types of the       *)
(* parser, and a query that is the one of the payload.                     *)
(***************************************************************************)
THEOREM ScoresTyped == Spec => []ScoreInv
BY ScoreInit, ScoreStep, PTL DEF Spec

(***************************************************************************)
(* Every query has the form on which the search relies: coordinates from 0 *)
(* to quantScale, but 5 and 6 both -quantScale when and only when the body *)
(* has no last transaction; for any numbers and tables, and averages of 0. *)
(***************************************************************************)
THEOREM VectorsHaveForm == Spec => []VectorForm
<1>1. ScoreInv => VectorForm
  <2> SUFFICES ASSUME ScoreInv, query # NoQuery
               PROVE  /\ \A i \in {5, 6} : query[i] = - quantScale <=> p.last_transaction = NoRecord
                      /\ \A i \in 0 .. 13 :
                           query[i] \in 0 .. quantScale \/ (i \in {5, 6} /\ query[i] = - quantScale)
    BY DEF VectorForm
  <2> DEFINE first == p.last_transaction = NoRecord
             v == quantizeVector(Vectorize(p, first))
  <2>1. /\ first => v[5] = - quantScale /\ v[6] = - quantScale
        /\ \A i \in 0 .. 13 : (first /\ i \in {5, 6}) \/ v[i] \in 0 .. quantScale
    <3>1. p \in Payloads /\ first \in BOOLEAN /\ ~ MonthPanics(p.transaction.requested_at)
      BY DEF ScoreInv, ParserTypeOK
    <3>2. first = (p.last_transaction = NoRecord)
      OBVIOUS
    <3> HIDE DEF first
    <3> QED BY <3>1, <3>2, QueryForm
  <2>2. query = v
    BY DEF ScoreInv
  <2> HIDE DEF first, v
  <2>3. quantScale \in Nat \ {0}
    BY ScaleAssumption
  <2>4. \A i \in {5, 6} : query[i] = - quantScale <=> first
    <3>1. first => query[5] = - quantScale /\ query[6] = - quantScale
      BY <2>1, <2>2
    <3>2. ~ first => query[5] \in 0 .. quantScale /\ query[6] \in 0 .. quantScale
      BY <2>1, <2>2
    <3> QED BY <2>3, <3>1, <3>2
  <2>5. \A i \in 0 .. 13 :
          query[i] \in 0 .. quantScale \/ (i \in {5, 6} /\ query[i] = - quantScale)
    <3>1. first => \A i \in {5, 6} : query[i] = - quantScale
      BY <2>1, <2>2
    <3> QED BY <2>1, <2>2, <3>1
  <2> QED BY <2>4, <2>5 DEF first
<1> QED BY <1>1, ScoresTyped, PTL

-----------------------------------------------------------------------------
(***************************************************************************)
(* The days counted year by year and month by month are those of           *)
(* toUnixDays, 719162 of which are before the year 1970.                   *)
(***************************************************************************)
LEMMA YearsCounted ==
  ASSUME NEW y \in Nat \ {0}
  PROVE  DaysBeforeYear(y) = 365 * (y - 1) + LeapDays(y - 1)
<1> DEFINE LeapsTo(n) == {k \in 1 .. n : Leap(k)}
           T == {n \in 0 .. (y - 1) : IsFiniteSet(LeapsTo(n)) /\ Cardinality(LeapsTo(n)) = LeapDays(n)}
<1>1. 0 \in T
  <2>1. LeapsTo(0) = {}
    OBVIOUS
  <2>2. LeapDays(0) = 0
    BY LeapDaysNat
  <2>3. IsFiniteSet({}) /\ Cardinality({}) = 0
    BY FS_EmptySet
  <2> HIDE DEF LeapsTo
  <2> QED BY <2>1, <2>2, <2>3
<1>2. ASSUME NEW n \in 0 .. ((y - 1) - 1), n \in T PROVE n + 1 \in T
  <2>0. PICK m \in Nat : m = n + 1
    OBVIOUS
  <2>1. LeapDays(n + 1) = LeapDays(n) + (IF Leap(n + 1) THEN 1 ELSE 0) /\ n \in Nat
        /\ LeapDays(n) \in Nat
    <3>1. n \in Nat
      OBVIOUS
    <3>2. LeapDays(n + 1) = LeapDays(n) + (IF Leap(n + 1) THEN 1 ELSE 0)
      BY <3>1, NextYear
    <3>3. LeapDays(n) \in Nat
      BY <3>1, LeapDaysNat
    <3> QED BY <3>1, <3>2, <3>3
  <2>2. LeapsTo(m) = IF Leap(m) THEN LeapsTo(n) \union {m} ELSE LeapsTo(n)
    <3>1. 1 .. m = (1 .. n) \union {m}
      BY <2>0
    <3> QED BY <3>1
  <2>3. m \notin LeapsTo(n)
    BY <2>0
  <2>4. IsFiniteSet(LeapsTo(n)) /\ Cardinality(LeapsTo(n)) = LeapDays(n)
    BY <1>2
  <2> HIDE DEF LeapsTo
  <2>5. IsFiniteSet(LeapsTo(m)) /\ Cardinality(LeapsTo(m)) = LeapDays(n) + (IF Leap(m) THEN 1 ELSE 0)
    <3>1. CASE Leap(m)
      <4>1. IsFiniteSet(LeapsTo(n) \union {m})
            /\ Cardinality(LeapsTo(n) \union {m}) = Cardinality(LeapsTo(n)) + 1
        BY <2>3, <2>4, FS_AddElement
      <4> QED BY <2>2, <2>4, <3>1, <4>1
    <3>2. CASE ~ Leap(m)
      BY <2>1, <2>2, <2>4, <3>2
    <3> QED BY <3>1, <3>2
  <2> QED BY <2>0, <2>1, <2>5
<1>3. 0 .. (y - 1) \subseteq T
  <2> DEFINE hi == y - 1
             zero == 0
  <2>1. hi \in Int /\ zero \in Int /\ zero \in T /\ \A i \in zero .. (hi - 1) : i \in T => i + 1 \in T
    BY <1>1, <1>2
  <2> HIDE DEF hi, T, zero
  <2>2. zero .. hi \subseteq T
    BY <2>1, IntervalInduction
  <2> QED BY <2>2 DEF hi, zero
<1>4. y - 1 \in T
  BY <1>3
<1>5. Cardinality({k \in 1 .. (y - 1) : Leap(k)}) = LeapDays(y - 1)
  BY <1>4
<1> QED BY <1>5 DEF DaysBeforeYear

LEMMA MonthsCounted ==
  ASSUME NEW y \in Nat \ {0}, NEW m \in 1 .. 12
  PROVE  DaysBeforeMonth(y, m) = MonthDays[m] - 306 + (IF m <= 2 THEN 0 ELSE 365 + (IF Leap(y) THEN 1 ELSE 0))
<1> DEFINE leap == IF Leap(y) THEN 1 ELSE 0
           g == [k \in 1 .. m |-> MonthDays[k] - 306 + (IF k <= 2 THEN 0 ELSE 365 + leap)]
           Eq(h) == h = [k \in 1 .. m |-> IF k = 1 THEN 0 ELSE h[k - 1] + MonthLength(y, k - 1)]
           f == CHOOSE h : Eq(h)
<1>1. DaysBeforeMonth(y, m) = f[m]
  BY DEF DaysBeforeMonth
<1>2. \A k \in 2 .. 12 :
        MonthDays[k] + (IF k <= 2 THEN 0 ELSE 365 + leap)
          = MonthDays[k - 1] + (IF k - 1 <= 2 THEN 0 ELSE 365 + leap) + MonthLength(y, k - 1)
  BY SMT DEF MonthDays, MonthLength
<1>3. \A k \in 1 .. 12 : MonthDays[k] \in Int /\ MonthLength(y, k) \in Int /\ leap \in Int
  BY SMT DEF MonthDays, MonthLength
<1>4. MonthDays[1] = 306
  BY DEF MonthDays
<1> HIDE DEF leap
<1>5. ASSUME NEW k \in 1 .. m
      PROVE  g[k] = IF k = 1 THEN 0 ELSE g[k - 1] + MonthLength(y, k - 1)
  <2>1. CASE k = 1
    BY <1>4, <2>1
  <2>2. CASE k # 1
    <3>1. k \in 2 .. 12 /\ k - 1 \in 1 .. m
      BY <2>2
    <3> DEFINE before == MonthDays[k - 1]
               length == MonthLength(y, k - 1)
    <3>2. MonthDays[k] + (IF k <= 2 THEN 0 ELSE 365 + leap)
            = before + (IF k - 1 <= 2 THEN 0 ELSE 365 + leap) + length
      BY <1>2, <3>1
    <3>3. /\ g[k] = MonthDays[k] - 306 + (IF k <= 2 THEN 0 ELSE 365 + leap)
          /\ g[k - 1] = before - 306 + (IF k - 1 <= 2 THEN 0 ELSE 365 + leap)
      BY <3>1
    <3>4. MonthDays[k] \in Int /\ before \in Int /\ length \in Int /\ leap \in Int
      BY <1>3, <3>1
    <3> HIDE DEF before, length, g
    <3>5. g[k] = g[k - 1] + length
      BY <3>2, <3>3, <3>4
    <3> QED BY <2>2, <3>5 DEF length
  <2> QED BY <2>1, <2>2
<1>6. Eq(g)
  <2> HIDE DEF g
  <2> QED BY <1>5 DEF g
<1>7. Eq(f)
  <2> HIDE DEF Eq, g
  <2> QED BY <1>6
<1>8. \A k \in 1 .. m : f[k] = IF k = 1 THEN 0 ELSE f[k - 1] + MonthLength(y, k - 1)
  <2> HIDE DEF f
  <2> QED BY <1>7
<1> HIDE DEF f
<1> DEFINE T == {k \in 1 .. m : f[k] = g[k]}
<1>9. 1 \in T
  BY <1>4, <1>5, <1>8
<1>10. ASSUME NEW k \in 1 .. (m - 1), k \in T PROVE k + 1 \in T
  <2>1. PICK n \in 2 .. m : n = k + 1
    OBVIOUS
  <2>2. f[n] = f[k] + MonthLength(y, k) /\ n - 1 = k
    BY <1>8, <2>1
  <2>3. g[n] = g[k] + MonthLength(y, k)
    BY <1>5, <2>1
  <2>4. f[k] = g[k]
    BY <1>10
  <2> HIDE DEF g
  <2> QED BY <2>1, <2>2, <2>3, <2>4
<1>11. m \in T
  <2> DEFINE lo == 1
  <2>1. lo \in Int /\ lo \in T /\ \A i \in lo .. (m - 1) : i \in T => i + 1 \in T
    BY <1>9, <1>10
  <2> HIDE DEF T, lo
  <2>2. lo .. m \subseteq T
    BY <2>1, IntervalInduction
  <2> QED BY <2>2 DEF lo
<1>12. f[m] = g[m]
  BY <1>11
<1> QED BY <1>1, <1>12 DEF leap

LEMMA DaysCounted ==
  ASSUME NEW t, Date(t.y, t.m, t.d)
  PROVE  CountedDays(t) = toUnixDays(t.y, t.m, t.d) + 719162 /\ toUnixDays(t.y, t.m, t.d) \in Int
<1> DEFINE y == t.y
           m == t.m
           d == t.d
           leap == IF Leap(y) THEN 1 ELSE 0
<1>1. y \in Nat \ {0} /\ m \in 1 .. 12 /\ d \in Nat
  BY DEF Date, MonthLength
<1>2. CountedDays(t) = DaysBeforeYear(y) + DaysBeforeMonth(y, m) + d - 1
  BY DEF CountedDays
<1> HIDE DEF y, m, d
<1>3. DaysBeforeYear(y) = 365 * (y - 1) + LeapDays(y - 1)
  BY <1>1, YearsCounted
<1>4. DaysBeforeMonth(y, m) = MonthDays[m] - 306 + (IF m <= 2 THEN 0 ELSE 365 + leap)
  BY <1>1, MonthsCounted
<1>5. LeapDays(y) = LeapDays(y - 1) + leap /\ LeapDays(y) \in Nat /\ LeapDays(y - 1) \in Nat
  <2>1. PICK n \in Nat : n = y - 1
    BY <1>1
  <2>2. LeapDays(n + 1) = LeapDays(n) + (IF Leap(n + 1) THEN 1 ELSE 0)
    BY NextYear
  <2>3. LeapDays(n) \in Nat
    BY LeapDaysNat
  <2>4. n + 1 = y /\ LeapDays(y) \in Nat
    BY <1>1, <2>1, LeapDaysNat
  <2> QED BY <2>1, <2>2, <2>3, <2>4
<1>6. toUnixDays(y, m, d) = 365 * Year(y, m) + LeapDays(Year(y, m)) + MonthDays[m] + d - 719469
  BY <1>1, UnixDays
<1>7. MonthDays[m] \in Int /\ leap \in Int
  BY <1>1 DEF MonthDays
<1> DEFINE before == LeapDays(y - 1)
           to == LeapDays(y)
           month == MonthDays[m]
<1> HIDE DEF leap
<1>8. CASE m <= 2
  <2>1. toUnixDays(y, m, d) = 365 * (y - 1) + before + month + d - 719469
    BY <1>6, <1>8 DEF Year
  <2>2. CountedDays(t) = 365 * (y - 1) + before + (month - 306) + d - 1
    BY <1>2, <1>3, <1>4, <1>7, <1>8
  <2>3. before \in Int /\ month \in Int
    BY <1>5, <1>7
  <2> HIDE DEF before, month
  <2> QED BY <1>1, <2>1, <2>2, <2>3 DEF y, m, d
<1>9. CASE ~ (m <= 2)
  <2>1. toUnixDays(y, m, d) = 365 * y + to + month + d - 719469
    BY <1>6, <1>9 DEF Year
  <2>2. CountedDays(t) = 365 * (y - 1) + before + (month - 306 + 365 + leap) + d - 1
    BY <1>2, <1>3, <1>4, <1>7, <1>9
  <2>3. before \in Int /\ month \in Int /\ to = before + leap
    BY <1>5, <1>7
  <2> HIDE DEF before, month, to
  <2> QED BY <1>1, <1>7, <2>1, <2>2, <2>3 DEF y, m, d
<1> QED BY <1>8, <1>9

(***************************************************************************)
(* The coordinate of n of d: it grows with n, and is that of 60 n of 60 d. *)
(***************************************************************************)
Share(n, d) == Quantized(clamp([n |-> n, d |-> d]))

Rounded(n, d) == (2 * n * quantScale + d) \div (2 * d)

LEMMA ShareIs ==
  ASSUME NEW n \in Int, NEW d \in Nat \ {0}
  PROVE  /\ n <= 0 => Share(n, d) = 0
         /\ n > d => Share(n, d) = quantScale
         /\ n \in 0 .. d => Share(n, d) = Rounded(n, d) /\ Rounded(n, d) \in 0 .. quantScale
<1>0. quantScale \in Nat \ {0}
  BY ScaleAssumption
<1>1. n \in 0 .. d => Share(n, d) = Rounded(n, d) /\ Rounded(n, d) \in 0 .. quantScale
  <2> SUFFICES ASSUME n \in 0 .. d
               PROVE  Share(n, d) = Rounded(n, d) /\ Rounded(n, d) \in 0 .. quantScale
    OBVIOUS
  <2>1. Share(n, d) = Rounded(n, d)
    BY DEF Share, clamp, Quantized, Rounded
  <2>2. Rounded(n, d) \in 0 .. quantScale
    BY <1>0, RoundedType DEF Rounded
  <2> QED BY <2>1, <2>2
<1>2. n > d => Share(n, d) = quantScale
  <2>1. Quantized(Whole(1)) = (2 * quantScale + 1) \div 2
    BY <1>0 DEF Quantized, Whole
  <2>2. (2 * quantScale + 1) \div 2 = quantScale
    BY <1>0
  <2>3. n > d => clamp([n |-> n, d |-> d]) = Whole(1)
    BY DEF clamp
  <2> QED BY <2>1, <2>2, <2>3 DEF Share
<1>3. n < 0 => Share(n, d) = 0
  <2>1. Quantized(Whole(0)) = 0
    BY <1>0 DEF Quantized, Whole
  <2>2. n < 0 => clamp([n |-> n, d |-> d]) = Whole(0)
    BY DEF clamp
  <2> QED BY <2>1, <2>2 DEF Share
<1>4. n = 0 => Share(n, d) = 0
  <2>1. n = 0 => Rounded(n, d) = d \div (2 * d)
    BY <1>0 DEF Rounded
  <2>2. d \div (2 * d) = 0
    <3> DEFINE q == d \div (2 * d)
    <3>1. q \in Nat /\ (2 * d) * q <= d
      <4>1. ASSUME NEW c \in Nat \ {0} PROVE d \div c \in Nat /\ c * (d \div c) <= d
        OBVIOUS
      <4> QED BY <4>1, 2 * d \in Nat \ {0}
    <3> HIDE DEF q
    <3>2. q >= 1 => d * q >= d
      BY <3>1
    <3> QED BY <3>1, <3>2, d * q \in Nat DEF q
  <2> QED BY <1>1, <2>1, <2>2
<1> QED BY <1>1, <1>2, <1>3, <1>4

LEMMA DivMonotone ==
  ASSUME NEW a \in Int, NEW b \in Int, a <= b, NEW c \in Nat \ {0}
  PROVE  a \div c <= b \div c
<1> DEFINE x == a \div c
           y == b \div c
<1>1. x \in Int /\ y \in Int /\ c * x <= a /\ b < c * y + c
  OBVIOUS
<1> HIDE DEF x, y
<1>2. c * x < c * y + c
  BY <1>1, c * x \in Int, c * y \in Int
<1>3. x >= y + 1 => c * x >= c * y + c
  BY <1>1
<1>4. x <= y
  BY <1>1, <1>2, <1>3, c * x \in Int, c * y \in Int
<1> QED BY <1>4 DEF x, y

LEMMA ShareMonotone ==
  ASSUME NEW a \in Int, NEW b \in Int, a <= b, NEW d \in Nat \ {0}
  PROVE  Share(a, d) <= Share(b, d) /\ Share(a, d) \in 0 .. quantScale /\ Share(b, d) \in 0 .. quantScale
<1>0. quantScale \in Nat \ {0}
  BY ScaleAssumption
<1>1. /\ Share(a, d) \in 0 .. quantScale /\ Share(b, d) \in 0 .. quantScale
      /\ a <= 0 => Share(a, d) = 0
      /\ b > d => Share(b, d) = quantScale
      /\ a \in 0 .. d => Share(a, d) = Rounded(a, d)
      /\ b \in 0 .. d => Share(b, d) = Rounded(b, d)
  BY <1>0, ShareIs
<1>2. CASE a >= 0 /\ b <= d
  <2> DEFINE x == 2 * a * quantScale + d
             y == 2 * b * quantScale + d
             c == 2 * d
  <2>1. a * quantScale <= b * quantScale
    BY <1>0
  <2>2. x \in Int /\ y \in Int /\ x <= y /\ c \in Nat \ {0}
    BY <1>0, <2>1
  <2>3. Share(a, d) = x \div c /\ Share(b, d) = y \div c
    BY <1>1, <1>2 DEF Rounded
  <2> HIDE DEF x, y, c
  <2>4. x \div c <= y \div c
    BY <2>2, DivMonotone
  <2> QED BY <1>1, <2>3, <2>4
<1> QED BY <1>0, <1>1, <1>2

LEMMA ShareOfSixty ==
  ASSUME NEW n \in Int, NEW d \in Nat \ {0}
  PROVE  Share(60 * n, 60 * d) = Share(n, d)
<1>0. quantScale \in Nat \ {0} /\ 60 * n \in Int /\ 60 * d \in Nat \ {0}
  BY ScaleAssumption
<1>1. CASE n <= 0
  <2>1. 60 * n <= 0
    BY <1>1
  <2> QED BY <1>0, <1>1, <2>1, ShareIs
<1>2. CASE n > d
  <2>1. 60 * n > 60 * d
    BY <1>2
  <2> QED BY <1>0, <1>2, <2>1, ShareIs
<1>3. CASE n \in 0 .. d
  <2>1. 60 * n \in 0 .. (60 * d)
    BY <1>3
  <2>2. Share(60 * n, 60 * d) = Rounded(60 * n, 60 * d) /\ Share(n, d) = Rounded(n, d)
    BY <1>0, <1>3, <2>1, ShareIs
  <2> DEFINE x == 2 * n * quantScale + d
             c == 2 * d
             q == x \div c
             r == (60 * x) \div (60 * c)
  <2>3. x \in Int /\ c \in Nat \ {0}
    BY <1>0
  <2>4. Rounded(n, d) = q /\ Rounded(60 * n, 60 * d) = r
    <3>1. 2 * (60 * n) * quantScale + 60 * d = 60 * x /\ 2 * (60 * d) = 60 * c
      BY <1>0
    <3> QED BY <3>1 DEF Rounded
  <2> HIDE DEF x, c
  <2>5. q \in Int /\ c * q <= x /\ x < c * q + c
    BY <2>3
  <2>6. r \in Int /\ (60 * c) * r <= 60 * x /\ 60 * x < (60 * c) * r + 60 * c
    <3>1. ASSUME NEW a \in Int, NEW b \in Nat \ {0}
          PROVE  a \div b \in Int /\ b * (a \div b) <= a /\ a < b * (a \div b) + b
      OBVIOUS
    <3> QED BY <2>3, <3>1, 60 * x \in Int, 60 * c \in Nat \ {0}
  <2> HIDE DEF q, r
  <2>7. c * r <= x /\ x < c * r + c
    <3>1. (60 * c) * r = 60 * (c * r) /\ c * r \in Int
      BY <2>3, <2>6
    <3> QED BY <2>3, <2>6, <3>1
  <2>8. q = r
    <3>1. q >= r + 1 => c * q >= c * r + c
      BY <2>3, <2>5, <2>6
    <3>2. r >= q + 1 => c * r >= c * q + c
      BY <2>3, <2>5, <2>6
    <3> QED BY <2>3, <2>5, <2>6, <2>7, <3>1, <3>2, c * q \in Int, c * r \in Int
  <2> QED BY <2>2, <2>4, <2>8
<1> QED BY <1>1, <1>2, <1>3

LEMMA FarAway ==
  ASSUME NEW days \in Int, NEW cut \in Int, NEW far \in Nat, NEW rest \in Int, NEW max \in Nat,
         NEW counted \in Int, NEW s \in Int, NEW e \in Int,
         - 86400 < rest, rest < 86400,
         far * 86400 >= 60 * max + 86460,
         cut = IF days > far THEN far ELSE IF days + far < 0 THEN 0 - far ELSE days,
         s = days * 86400 + rest,
         e = cut * 86400 + rest,
         IF s <= 0 THEN 60 * counted = 0 ELSE 60 * counted - s < 60 /\ s - 60 * counted < 60
  PROVE  \/ e - 59 <= 60 * counted /\ 60 * counted <= e + 59
         \/ e - 59 > 60 * max /\ 60 * counted > 60 * max
         \/ e - 59 <= 0 /\ counted = 0
<1>1. CASE days > far
  <2>1. cut = far /\ e = far * 86400 + rest
    BY SMT, <1>1
  <2>2. e - 59 > 60 * max /\ s >= e
    BY SMT, <1>1, <2>1
  <2>3. s > 0 /\ s - 60 * counted < 60
    BY SMT, <2>2
  <2> QED BY SMT, <2>2, <2>3
<1>2. CASE days + far < 0
  <2>1. cut = 0 - far /\ e = (0 - far) * 86400 + rest
    BY SMT, <1>2
  <2>2. e - 59 <= 0
    BY SMT, <2>1
  <2>3. s <= 0
    BY SMT, <1>2
  <2> QED BY SMT, <2>2, <2>3
<1>3. CASE days <= far /\ days + far >= 0
  <2>1. e = s
    BY SMT, <1>3
  <2>2. CASE s <= 0
    BY SMT, <2>1, <2>2
  <2>3. CASE s > 0
    BY SMT, <2>1, <2>3
  <2> QED BY SMT, <2>2, <2>3
<1> QED BY SMT, <1>1, <1>2, <1>3

(***************************************************************************)
(* Cutting the days of a difference at FarDays changes no coordinate.      *)
(***************************************************************************)
LEMMA MinutesCoordinate ==
  ASSUME NEW later, NEW earlier, Proper(later), Proper(earlier)
  PROVE  LET e == Elapsed(later, earlier)
         IN  Share(minutesBetween(later, earlier), norm["max_minutes"])
               \in MinutesOf(e - 59) .. MinutesOf(e + 59)
<1> DEFINE M == norm["max_minutes"]
           D == CountedDays(later) - CountedDays(earlier)
           r == (later.h - earlier.h) * 3600 + (later.min - earlier.min) * 60 + later.s - earlier.s
           c == minutesBetween(later, earlier)
           s == Seconds(later) - Seconds(earlier)
           e == Elapsed(later, earlier)
           far == FarDays
<1>1. M \in Nat \ {0}
  BY NormAssumption
<1>2. /\ later.h \in 0 .. 23 /\ later.min \in 0 .. 59 /\ later.s \in 0 .. 59
      /\ earlier.h \in 0 .. 23 /\ earlier.min \in 0 .. 59 /\ earlier.s \in 0 .. 59
      /\ Date(later.y, later.m, later.d) /\ Date(earlier.y, earlier.m, earlier.d)
  BY DEF Proper
<1>3. /\ r \in Int /\ - 86400 < r /\ r < 86400
      /\ \A a, b \in Int :
           (a * 86400 + later.h * 3600 + later.min * 60 + later.s)
               - (b * 86400 + earlier.h * 3600 + earlier.min * 60 + earlier.s) = (a - b) * 86400 + r
      /\ \A a \in Int :
           a * 86400 + (later.h - earlier.h) * 3600 + (later.min - earlier.min) * 60
               + later.s - earlier.s = a * 86400 + r
  <2> DEFINE h == later.h
             k == earlier.h
             m == later.min
             n == earlier.min
             x == later.s
             y == earlier.s
  <2>1. /\ h \in 0 .. 23 /\ k \in 0 .. 23 /\ m \in 0 .. 59 /\ n \in 0 .. 59
        /\ x \in 0 .. 59 /\ y \in 0 .. 59
    BY <1>2
  <2> DEFINE rest == (h - k) * 3600 + (m - n) * 60 + x - y
  <2>2. r = rest
    OBVIOUS
  <2> HIDE DEF h, k, m, n, x, y, r
  <2>3. /\ rest \in Int /\ - 86400 < rest /\ rest < 86400
        /\ \A a, b \in Int :
             (a * 86400 + h * 3600 + m * 60 + x) - (b * 86400 + k * 3600 + n * 60 + y)
               = (a - b) * 86400 + rest
        /\ \A a \in Int :
             a * 86400 + (h - k) * 3600 + (m - n) * 60 + x - y = a * 86400 + rest
    <3>1. /\ h \in Int /\ k \in Int /\ m \in Int /\ n \in Int /\ x \in Int /\ y \in Int
          /\ h >= 0 /\ h <= 23 /\ k >= 0 /\ k <= 23 /\ m >= 0 /\ m <= 59 /\ n >= 0 /\ n <= 59
          /\ x >= 0 /\ x <= 59 /\ y >= 0 /\ y <= 59
      BY SMT, <2>1
    <3> QED BY SMT, <3>1
  <2> HIDE DEF rest
  <2> QED BY SMT, <2>2, <2>3 DEF h, k, m, n, x, y
<1>4. D \in Int /\ s = D * 86400 + r
  <2> DEFINE a == toUnixDays(later.y, later.m, later.d)
             b == toUnixDays(earlier.y, earlier.m, earlier.d)
             x == CountedDays(later)
             y == CountedDays(earlier)
  <2>1. a \in Int /\ b \in Int /\ x = a + 719162 /\ y = b + 719162
    BY SMT, <1>2, DaysCounted
  <2>2. s = (a * 86400 + later.h * 3600 + later.min * 60 + later.s)
              - (b * 86400 + earlier.h * 3600 + earlier.min * 60 + earlier.s)
    BY SMT DEF Seconds
  <2>3. D = x - y
    OBVIOUS
  <2> HIDE DEF a, b, x, y, s, D, r
  <2>4. s = (a - b) * 86400 + r
    BY SMT, <1>3, <2>1, <2>2
  <2>5. D \in Int /\ D = a - b
    BY SMT, <2>1, <2>3
  <2> QED BY <2>4, <2>5
<1>5. c \in Int /\ IF s <= 0 THEN 60 * c = 0 ELSE 60 * c - s < 60 /\ s - 60 * c < 60
  <2>1. c \in Nat
    <3>1. Minutes(later) \in Int /\ Minutes(earlier) \in Int
      BY <1>2, ProperMinutes
    <3> QED BY SMT, <3>1 DEF minutesBetween
  <2>2. IF s <= 0 THEN 60 * c = 0 ELSE 60 * c - s < 60 /\ s - 60 * c < 60
    BY SMT, MinutesNearElapsed
  <2> HIDE DEF c, s
  <2> QED BY SMT, <2>1, <2>2
<1>6. e = Cut(D) * 86400 + r
  <2>1. e = Cut(D) * 86400
              + (later.h - earlier.h) * 3600 + (later.min - earlier.min) * 60 + later.s - earlier.s
    BY SMT DEF Elapsed
  <2> DEFINE cut == Cut(D)
  <2>2. cut \in Int
    <3>1. far \in Int
      BY SMT, <1>1 DEF FarDays
    <3> HIDE DEF D, far
    <3> QED BY SMT, <1>4, <3>1 DEF Cut, far
  <2> HIDE DEF e, D, cut, r
  <2>3. e = cut * 86400 + r
    BY SMT, <1>3, <2>1, <2>2 DEF cut
  <2> QED BY SMT, <2>3 DEF cut
<1>7. far \in Nat /\ far * 86400 >= 60 * M + 86460
  <2>1. far = M \div 1440 + 2
    BY DEF FarDays
  <2>2. M \div 1440 \in Nat /\ (M \div 1440) * 1440 > M - 1440
    BY SMT, <1>1
  <2> HIDE DEF far, M
  <2> QED BY SMT, <1>1, <2>1, <2>2
<1>8. Cut(D) = IF D > far THEN far ELSE IF D + far < 0 THEN 0 - far ELSE D
  <2>1. Cut(D) = IF D > far THEN far ELSE IF D < - far THEN - far ELSE D
    BY DEF Cut
  <2> HIDE DEF D, far
  <2>2. D \in Int /\ far \in Int
    BY <1>4, <1>7
  <2> QED BY <2>1, <2>2
<1>9. \A n \in Int : MinutesOf(n) = Share(n, 60 * M)
  BY DEF MinutesOf, Share
<1>10. Share(c, M) = Share(60 * c, 60 * M)
  <2> HIDE DEF c, M
  <2> QED BY <1>1, <1>5, ShareOfSixty
<1> HIDE DEF M, D, r, c, s, far, e
<1>11. e \in Int /\ 60 * c \in Int /\ 60 * M \in Nat \ {0}
  BY SMT, <1>1, <1>3, <1>4, <1>5, <1>6, <1>7, <1>8
<1>12. ASSUME NEW a \in Int, NEW b \in Int, a <= b
       PROVE  /\ Share(a, 60 * M) <= Share(b, 60 * M)
              /\ Share(a, 60 * M) \in 0 .. quantScale /\ Share(b, 60 * M) \in 0 .. quantScale
  BY <1>11, <1>12, ShareMonotone
<1>13. /\ \A n \in Int : n <= 0 => Share(n, 60 * M) = 0
       /\ \A n \in Int : n > 60 * M => Share(n, 60 * M) = quantScale
  BY <1>11, ShareIs
<1> DEFINE low  == e - 59
           high == e + 59
           mid  == 60 * c
           Q(n) == Share(n, 60 * M)
<1>14. low \in Int /\ high \in Int /\ mid \in Int /\ low <= high
  BY SMT, <1>11
<1>15. quantScale \in Nat /\ Q(low) \in 0 .. quantScale /\ Q(high) \in 0 .. quantScale
       /\ Q(mid) \in 0 .. quantScale
  <2> HIDE DEF low, high, mid
  <2>1. quantScale \in Nat
    BY ScaleAssumption
  <2> QED BY SMT, <1>12, <1>14, <2>1
<1>16. \/ low <= mid /\ mid <= high
       \/ low > 60 * M /\ mid > 60 * M
       \/ low <= 0 /\ mid = 0
  <2> DEFINE cut == Cut(D)
  <2>1. cut \in Int
    <3> HIDE DEF cut
    <3> QED BY <1>4, <1>7, <1>8 DEF cut
  <2>2. r \in Int /\ - 86400 < r /\ r < 86400
    BY <1>3
  <2>3. s \in Int
    BY SMT, <1>4, <2>2
  <2>4. s = D * 86400 + r /\ e = cut * 86400 + r
    BY SMT, <1>4, <1>6
  <2> HIDE DEF cut, low, mid, high
  <2>5. /\ M \in Nat /\ D \in Int /\ far \in Nat /\ c \in Int /\ e \in Int
        /\ far * 86400 >= 60 * M + 86460
        /\ cut = IF D > far THEN far ELSE IF D + far < 0 THEN 0 - far ELSE D
    BY SMT, <1>1, <1>4, <1>5, <1>7, <1>8, <1>11 DEF cut
  <2>6. \/ e - 59 <= 60 * c /\ 60 * c <= e + 59
        \/ e - 59 > 60 * M /\ 60 * c > 60 * M
        \/ e - 59 <= 0 /\ c = 0
    BY SMT, <1>5, <2>1, <2>2, <2>3, <2>4, <2>5, FarAway
  <2> QED BY SMT, <2>5, <2>6 DEF low, mid, high
<1>17. Q(low) <= Q(mid) /\ Q(mid) <= Q(high)
  <2> HIDE DEF low, mid, high
  <2>1. CASE low <= mid /\ mid <= high
    BY <1>12, <1>14, <2>1
  <2>2. CASE low > 60 * M /\ mid > 60 * M
    <3>1. high > 60 * M
      BY <1>11, <1>14, <2>2
    <3> QED BY <1>13, <1>14, <1>15, <2>2, <3>1
  <2>3. CASE low <= 0 /\ mid = 0
    BY <1>13, <1>14, <1>15, <2>3
  <2> QED BY <1>16, <2>1, <2>2, <2>3
<1>18. Share(c, M) \in MinutesOf(low) .. MinutesOf(high)
  <2>1. Share(c, M) = Q(mid)
    BY SMT, <1>10
  <2>2. MinutesOf(low) = Q(low) /\ MinutesOf(high) = Q(high)
    <3> HIDE DEF low, high
    <3> QED BY SMT, <1>9, <1>14
  <2> HIDE DEF low, high, mid, Q
  <2> QED BY SMT, <1>15, <1>17, <2>1, <2>2
<1> QED BY SMT, <1>18 DEF M, c, e

-----------------------------------------------------------------------------
(***************************************************************************)
(* parseHourWeekday of a proper timestamp follows the days counted.        *)
(***************************************************************************)
LEMMA ProperWeekday ==
  ASSUME NEW t, Proper(t)
  PROVE  weekday(t.y, t.m, t.d) = CountedDays(t) % 7
<1> DEFINE y == t.y
           m == t.m
           d == t.d
           days == toUnixDays(t.y, t.m, t.d)
           counted == CountedDays(t)
<1>1. Date(y, m, d)
  BY DEF Proper
<1>2. counted = days + 719162 /\ days \in Int
  BY SMT, <1>1, DaysCounted
<1>3. weekday(t.y, t.m, t.d) = (days + 3) % 7
  <2> HIDE DEF y, m, d
  <2>1. weekday(y, m, d) = (toUnixDays(y, m, d) + 3) % 7
    BY SMT, <1>1, WeekdayFollowsDays
  <2> QED BY SMT, <2>1 DEF y, m, d
<1> HIDE DEF days, counted
<1>4. counted % 7 = (days + 3) % 7
  BY SMT, <1>2
<1> QED BY SMT, <1>3, <1>4 DEF counted

(***************************************************************************)
(* The hour, the weekday and the minutes of the query vector are those of  *)
(* the calendar, in every state: for every pair of proper timestamps that  *)
(* a body may hold, whatever the normalization and the scale.              *)
(***************************************************************************)
THEOREM TimesFollowCalendar == Spec => []TimesAreCalendar
<1>1. ScoreInv => TimesAreCalendar
  <2> SUFFICES ASSUME ScoreInv, query # NoQuery, ProperTime(p.transaction.requested_at)
               PROVE  LET now == timestamps[p.transaction.requested_at]
                      IN  /\ query[3] = Quantized([n |-> now.h, d |-> 23])
                          /\ query[4] = Quantized([n |-> CountedDays(now) % 7, d |-> 6])
                          /\ p.last_transaction # NoRecord /\ ProperTime(p.last_transaction.timestamp) =>
                               LET elapsed == Elapsed(now, timestamps[p.last_transaction.timestamp])
                               IN  query[5] \in MinutesOf(elapsed - 59) .. MinutesOf(elapsed + 59)
    BY SMT DEF TimesAreCalendar
  <2> DEFINE at    == p.transaction.requested_at
             now   == timestamps[at]
             first == p.last_transaction = NoRecord
             v     == Vectorize(p, first)
             time  == parseHourWeekday(at)
             other == p.last_transaction.timestamp
  <2>1. at \in DOMAIN timestamps /\ Proper(now)
    BY SMT DEF ProperTime
  <2>2. query = quantizeVector(v)
    BY SMT DEF ScoreInv
  <2>3. /\ DOMAIN v = 0 .. 13
        /\ v[3] = [n |-> time.hour, d |-> 23]
        /\ v[4] = [n |-> time.weekday, d |-> 6]
        /\ ~ first => v[5] = clamp(Over(Whole(parseMinutesBetween(at, other)),
                                         Whole(norm["max_minutes"])))
    <3>1. first \in BOOLEAN
      OBVIOUS
    <3> HIDE DEF first
    <3> QED BY <3>1, Coordinates
  <2>4. query[3] = Quantized(v[3]) /\ query[4] = Quantized(v[4]) /\ query[5] = Quantized(v[5])
    <3> HIDE DEF v
    <3> QED BY <2>2, <2>3 DEF quantizeVector
  <2> HIDE DEF v
  <2>5. time.hour = now.h /\ time.weekday = weekday(now.y, now.m, now.d)
    <3>1. now.h \in 0 .. 23
      BY SMT, <2>1 DEF Proper
    <3>2. HourIsRead(at)
      BY <2>1, <3>1 DEF HourIsRead
    <3> QED BY <3>2 DEF parseHourWeekday
  <2>6. weekday(now.y, now.m, now.d) = CountedDays(now) % 7
    <3> HIDE DEF now
    <3> QED BY <2>1, ProperWeekday
  <2>7. ASSUME ~ first, ProperTime(other)
        PROVE  LET elapsed == Elapsed(now, timestamps[other])
               IN  query[5] \in MinutesOf(elapsed - 59) .. MinutesOf(elapsed + 59)
    <3> DEFINE last == timestamps[other]
               c == minutesBetween(now, last)
               M == norm["max_minutes"]
    <3>1. other \in DOMAIN timestamps /\ Proper(last)
      BY SMT, <2>7 DEF ProperTime
    <3>2. parseMinutesBetween(at, other) = c
      BY <2>1, <3>1 DEF parseMinutesBetween
    <3>3. c \in Int
      BY <3>2, MinutesType
    <3>4. M \in Nat \ {0}
      BY NormAssumption
    <3>5. Share(c, M) \in LET e == Elapsed(now, last) IN MinutesOf(e - 59) .. MinutesOf(e + 59)
      <4> HIDE DEF now, last
      <4> QED BY SMT, <2>1, <3>1, MinutesCoordinate
    <3>6. Over(Whole(c), Whole(M)) = [n |-> c, d |-> M]
      <4> HIDE DEF c, M
      <4> QED BY <3>3, <3>4 DEF Over, Whole
    <3>7. query[5] = Share(c, M)
      <4> HIDE DEF c, M, at, other
      <4>1. v[5] = clamp([n |-> c, d |-> M])
        BY <2>3, <2>7, <3>2, <3>6 DEF M
      <4> QED BY <2>4, <4>1 DEF Share
    <3> HIDE DEF c, M
    <3> QED BY <3>5, <3>7
  <2> QED BY <2>3, <2>4, <2>5, <2>6, <2>7
<1> QED BY <1>1, ScoresTyped, PTL

-----------------------------------------------------------------------------
(***************************************************************************)
(* The head of a request.  Where blanks, words and digits end; and digits  *)
(* have the same value wherever they stand.                                *)
(***************************************************************************)
LEMMA EndsAre ==
  ASSUME NEW b, NEW i \in Nat, NEW j \in i .. (Len(b) + 1), Len(b) \in Nat
  PROVE  /\ (\A k \in i .. (j - 1) : IsDigit(b[k])) /\ (j = Len(b) + 1 \/ ~ IsDigit(b[j]))
              => DigitsEnd(b, i) = j
         /\ (\A k \in i .. (j - 1) : b[k] = Blank) /\ (j = Len(b) + 1 \/ b[j] # Blank)
              => BlanksEnd(b, i) = j
         /\ i <= Len(b) /\ (\A k \in i .. (j - 1) : b[k] # Blank) /\ (j = Len(b) + 1 \/ b[j] = Blank)
              => WordEnd(b, i) = j
<1>1. \A n \in i .. (Len(b) + 1) :
        n # j => n \in i .. (j - 1) \/ (j \in i .. (n - 1) /\ j # Len(b) + 1)
  OBVIOUS
<1>2. ASSUME \A k \in i .. (j - 1) : IsDigit(b[k]), j = Len(b) + 1 \/ ~ IsDigit(b[j])
      PROVE  DigitsEnd(b, i) = j
  <2>1. \A n \in i .. (Len(b) + 1) :
          (\A k \in i .. (n - 1) : IsDigit(b[k])) /\ (n = Len(b) + 1 \/ ~ IsDigit(b[n])) => n = j
    <3> SUFFICES ASSUME NEW n \in i .. (Len(b) + 1), \A k \in i .. (n - 1) : IsDigit(b[k]),
                        n = Len(b) + 1 \/ ~ IsDigit(b[n]), n # j
                 PROVE  FALSE
      OBVIOUS
    <3>1. CASE n \in i .. (j - 1)
      BY <1>2, <3>1
    <3>2. CASE j \in i .. (n - 1) /\ j # Len(b) + 1
      BY <1>2, <3>2
    <3> QED BY <1>1, <3>1, <3>2
  <2> QED BY <1>2, <2>1 DEF DigitsEnd
<1>3. ASSUME \A k \in i .. (j - 1) : b[k] = Blank, j = Len(b) + 1 \/ b[j] # Blank
      PROVE  BlanksEnd(b, i) = j
  <2>1. \A n \in i .. (Len(b) + 1) :
          (\A k \in i .. (n - 1) : b[k] = Blank) /\ (n = Len(b) + 1 \/ b[n] # Blank) => n = j
    <3> SUFFICES ASSUME NEW n \in i .. (Len(b) + 1), \A k \in i .. (n - 1) : b[k] = Blank,
                        n = Len(b) + 1 \/ b[n] # Blank, n # j
                 PROVE  FALSE
      OBVIOUS
    <3>1. CASE n \in i .. (j - 1)
      BY <1>3, <3>1
    <3>2. CASE j \in i .. (n - 1) /\ j # Len(b) + 1
      BY <1>3, <3>2
    <3> QED BY <1>1, <3>1, <3>2
  <2> QED BY <1>3, <2>1 DEF BlanksEnd
<1>4. ASSUME i <= Len(b), \A k \in i .. (j - 1) : b[k] # Blank, j = Len(b) + 1 \/ b[j] = Blank
      PROVE  WordEnd(b, i) = j
  <2>1. \A n \in i .. (Len(b) + 1) :
          (\A k \in i .. (n - 1) : b[k] # Blank) /\ (n = Len(b) + 1 \/ b[n] = Blank) => n = j
    <3> SUFFICES ASSUME NEW n \in i .. (Len(b) + 1), \A k \in i .. (n - 1) : b[k] # Blank,
                        n = Len(b) + 1 \/ b[n] = Blank, n # j
                 PROVE  FALSE
      OBVIOUS
    <3>1. CASE n \in i .. (j - 1)
      BY <1>4, <3>1
    <3>2. CASE j \in i .. (n - 1) /\ j # Len(b) + 1
      BY <1>4, <3>2
    <3> QED BY <1>1, <3>1, <3>2
  <2>2. ~ (i > Len(b))
    BY <1>4
  <2> QED BY <1>4, <2>1, <2>2 DEF WordEnd
<1> QED BY <1>2, <1>3, <1>4

LEMMA ValueMoved ==
  ASSUME NEW b, NEW i, NEW j, Digits(b, i, j), NEW c, NEW k, NEW l, Digits(c, k, l),
         j - i = l - k, \A n \in 0 .. (j - i - 1) : b[i + n] = c[k + n]
  PROVE  Value(b, i, j) = Value(c, k, l)
<1>1. PICK v \in [(i - 1) .. (j - 1) -> Nat] :
        /\ v[i - 1] = 0 /\ Value(b, i, j) = v[j - 1]
        /\ \A m \in i .. (j - 1) : v[m] = v[m - 1] * 10 + Digit[b[m]]
  BY ValueIs
<1>2. PICK w \in [(k - 1) .. (l - 1) -> Nat] :
        /\ w[k - 1] = 0 /\ Value(c, k, l) = w[l - 1]
        /\ \A m \in k .. (l - 1) : w[m] = w[m - 1] * 10 + Digit[c[m]]
  BY ValueIs
<1> DEFINE len == j - i
           T == {n \in 0 .. len : v[(i - 1) + n] = w[(k - 1) + n]}
<1>3. i \in Nat /\ j \in Nat /\ k \in Nat /\ l \in Nat /\ len \in Nat /\ len = l - k
  <2>1. i \in 1 .. (Len(b) + 1) /\ j \in i .. (Len(b) + 1) /\ Len(b) \in Nat
        /\ k \in 1 .. (Len(c) + 1) /\ l \in k .. (Len(c) + 1) /\ Len(c) \in Nat
    BY DEF Digits
  <2> QED BY <2>1
<1>4. 0 \in T
  <2>1. (i - 1) + 0 = i - 1 /\ (k - 1) + 0 = k - 1
    BY <1>3
  <2> QED BY <1>1, <1>2, <1>3, <2>1
<1>5. ASSUME NEW n \in 0 .. (len - 1), n \in T PROVE n + 1 \in T
  <2>1. PICK x \in i .. (j - 1) : x = i + n
    BY <1>3
  <2>2. PICK y \in k .. (l - 1) : y = k + n
    BY <1>3
  <2>3. x - 1 = (i - 1) + n /\ y - 1 = (k - 1) + n /\ (i - 1) + (n + 1) = x /\ (k - 1) + (n + 1) = y
    BY <1>3, <2>1, <2>2
  <2>4. b[x] = c[y]
    BY <1>3, <2>1, <2>2
  <2>5. v[x - 1] = w[y - 1]
    BY <1>5, <2>3
  <2>6. v[x] = w[y]
    BY <1>1, <1>2, <2>4, <2>5
  <2>7. n + 1 \in 0 .. len
    BY <1>3
  <2> HIDE DEF len
  <2> QED BY <2>3, <2>6, <2>7
<1>6. len \in T
  <2> HIDE DEF T, len
  <2>1. PICK zero \in Nat : zero = 0
    OBVIOUS
  <2>2. zero \in T /\ zero \in Int /\ len \in Int /\ zero <= len
    BY <1>3, <1>4, <2>1
  <2>3. ASSUME NEW n \in zero .. (len - 1), n \in T PROVE n + 1 \in T
    BY <1>5, <2>1, <2>3
  <2>4. zero .. len \subseteq T
    BY <2>2, <2>3, IntervalInduction
  <2> QED BY <1>3, <2>1, <2>4
<1>7. (i - 1) + len = j - 1 /\ (k - 1) + len = l - 1
  BY <1>3
<1> QED BY <1>1, <1>2, <1>6, <1>7

(***************************************************************************)
(* A head, field by field.                                                 *)
(***************************************************************************)
Words == STRING \union {"POST", "HTTP/1.1", "\r\n", Blank}

FirstLine(said) == <<"POST", Blank>> \o said.target \o <<Blank, "HTTP/1.1", "\r\n">>

Lines(u, said) ==
  /\ u \in [0 .. Len(said.fields) -> Seq(Words)]
  /\ u[0] = FirstLine(said)
  /\ \A n \in 1 .. Len(said.fields) : u[n] = u[n - 1] \o LineOf(said.fields[n])

LEMMA LinesTyped ==
  ASSUME NEW said, IsSaid(said)
  PROVE  /\ Len(said.fields) \in Nat
         /\ FirstLine(said) \in Seq(Words)
         /\ \A n \in 1 .. Len(said.fields) : LineOf(said.fields[n]) \in Seq(Words)
<1>1. /\ said.target \in Seq(STRING)
      /\ said.fields \in Seq([name : Seq(STRING), blanks : Nat, value : Seq(STRING)])
  BY DEF IsSaid
<1>2. \A s \in Seq(STRING) : s \in Seq(Words)
  BY DEF Words
<1>3. <<"POST", Blank>> \in Seq(Words) /\ <<Blank, "HTTP/1.1", "\r\n">> \in Seq(Words)
      /\ <<"\r\n">> \in Seq(Words)
  BY DEF Words
<1>4. FirstLine(said) \in Seq(Words)
  <2> DEFINE a == <<"POST", Blank>>
             b == <<Blank, "HTTP/1.1", "\r\n">>
  <2>1. a \in Seq(Words) /\ b \in Seq(Words) /\ said.target \in Seq(Words)
    BY <1>1, <1>2, <1>3
  <2>2. FirstLine(said) = a \o said.target \o b
    BY DEF FirstLine
  <2> HIDE DEF a, b
  <2> QED BY <2>1, <2>2
<1>5. ASSUME NEW n \in 1 .. Len(said.fields) PROVE LineOf(said.fields[n]) \in Seq(Words)
  <2> DEFINE f == said.fields[n]
             bl == [i \in 1 .. f.blanks |-> Blank]
             nl == <<"\r\n">>
  <2>1. f \in [name : Seq(STRING), blanks : Nat, value : Seq(STRING)]
    <3> DEFINE R == [name : Seq(STRING), blanks : Nat, value : Seq(STRING)]
    <3>1. said.fields \in Seq(R)
      BY <1>1
    <3> HIDE DEF R, f
    <3>2. f \in R
      BY <3>1, ElementOfSeq DEF f
    <3> QED BY <3>2 DEF R
  <2>2. f.name \in Seq(Words) /\ f.value \in Seq(Words) /\ f.blanks \in Nat
    BY <1>2, <2>1
  <2>3. bl \in Seq(Words)
    <3>1. Blank \in Words
      BY DEF Words
    <3> HIDE DEF f
    <3> QED BY <2>2, <3>1
  <2>4. LineOf(f) = f.name \o bl \o f.value \o nl
    BY DEF LineOf
  <2>5. nl \in Seq(Words)
    BY <1>3
  <2> HIDE DEF f, bl, nl
  <2>6. LineOf(f) \in Seq(Words)
    BY <2>2, <2>3, <2>4, <2>5
  <2> QED BY <2>6 DEF f
<1> QED BY <1>1, <1>4, <1>5

LEMMA HeadIs ==
  ASSUME NEW said, IsSaid(said)
  PROVE  \E u : Lines(u, said) /\ HeadOf(said) = u[Len(said.fields)] \o <<"\r\n">>
<1> DEFINE hi == Len(said.fields)
           first == FirstLine(said)
           Eq(u) == u = [n \in 0 .. hi |->
                           IF n = 0 THEN first ELSE u[n - 1] \o LineOf(said.fields[n])]
           w == CHOOSE u : Eq(u)
           step == [n \in 1 .. hi |-> [s \in Seq(Words) |-> s \o LineOf(said.fields[n])]]
<1>0. HeadOf(said) = w[hi] \o <<"\r\n">>
  BY DEF HeadOf, FirstLine
<1>1. /\ hi \in Nat /\ first \in Seq(Words)
      /\ \A n \in 1 .. hi : LineOf(said.fields[n]) \in Seq(Words)
  BY LinesTyped
<1> HIDE DEF hi, first
<1>2. PICK lo \in Int : lo = 0 /\ lo + 1 = 1
  OBVIOUS
<1>3. Steps(step, lo, hi, Seq(Words))
  BY <1>1, <1>2 DEF Steps
<1>4. PICK g : Recursion(g, first, step, lo, hi, Seq(Words))
  <2> HIDE DEF step
  <2> QED BY <1>1, <1>2, <1>3, RecursionExists
<1>5. /\ g \in [0 .. hi -> Seq(Words)] /\ g[0] = first
      /\ \A n \in 1 .. hi : g[n] = g[n - 1] \o LineOf(said.fields[n])
  <2>1. \A n \in 1 .. hi : n - 1 \in 0 .. hi
    BY <1>1
  <2>2. g \in [0 .. hi -> Seq(Words)] /\ g[0] = first /\ \A n \in 1 .. hi : g[n] = step[n][g[n - 1]]
    BY <1>1, <1>2, <1>4 DEF Recursion
  <2> QED BY <2>1, <2>2
<1>6. \A n \in 0 .. hi : n # 0 => n \in 1 .. hi
  BY <1>1
<1>7. Eq(g)
  BY <1>5, <1>6
<1>8. Eq(w)
  <2> HIDE DEF Eq
  <2> QED BY <1>7
<1> HIDE DEF w
<1>9. \A n \in 0 .. hi : w[n] = IF n = 0 THEN first ELSE w[n - 1] \o LineOf(said.fields[n])
  BY <1>8
<1>10. w[0] = first /\ \A n \in 1 .. hi : w[n] = w[n - 1] \o LineOf(said.fields[n])
  <2>1. 0 \in 0 .. hi /\ \A n \in 1 .. hi : n \in 0 .. hi /\ n # 0
    BY <1>1
  <2> QED BY <1>9, <2>1
<1>11. \A n \in 0 .. hi : w[n] \in Seq(Words)
  <2> DEFINE T == {n \in 0 .. hi : w[n] \in Seq(Words)}
  <2>1. lo \in T
    BY <1>1, <1>2, <1>10
  <2>2. ASSUME NEW n \in lo .. (hi - 1), n \in T PROVE n + 1 \in T
    <3>1. PICK m \in 1 .. hi : m = n + 1
      BY <1>1, <1>2
    <3>2. m - 1 = n /\ m \in 0 .. hi
      BY <1>1, <1>2, <3>1
    <3>3. w[m] = w[n] \o LineOf(said.fields[m])
      BY <1>10, <3>2
    <3>4. w[n] \in Seq(Words) /\ LineOf(said.fields[m]) \in Seq(Words)
      BY <1>1, <2>2
    <3>5. w[m] \in Seq(Words)
      BY <3>3, <3>4
    <3> QED BY <3>1, <3>2, <3>5
  <2>3. lo .. hi \subseteq T
    <3>1. lo \in Int /\ hi \in Int
      BY <1>1, <1>2
    <3> HIDE DEF T
    <3> QED BY <2>1, <2>2, <3>1, IntervalInduction
  <2> QED BY <1>2, <2>3
<1>12. w \in [0 .. hi -> Seq(Words)]
  <2>1. w = [n \in 0 .. hi |-> w[n]]
    BY <1>8
  <2> QED BY <1>11, <2>1
<1>13. Lines(w, said)
  BY <1>10, <1>12 DEF Lines, hi, first
<1> QED BY <1>0, <1>13 DEF hi

(***************************************************************************)
(* The words of a field, and those of the first line, at their places.     *)
(***************************************************************************)
LEMMA JoinedTwo ==
  ASSUME NEW W, NEW a \in Seq(W), NEW b \in Seq(W)
  PROVE  /\ a \o b \in Seq(W) /\ Len(a \o b) = Len(a) + Len(b)
         /\ \A k \in 1 .. Len(a) : (a \o b)[k] = a[k]
         /\ \A k \in 1 .. Len(b) : (a \o b)[Len(a) + k] = b[k]
OBVIOUS

LEMMA Joined ==
  ASSUME NEW W, NEW a \in Seq(W), NEW b \in Seq(W), NEW c \in Seq(W)
  PROVE  /\ a \o b \o c \in Seq(W)
         /\ Len(a \o b \o c) = Len(a) + Len(b) + Len(c)
         /\ \A k \in 1 .. Len(a) : (a \o b \o c)[k] = a[k]
         /\ \A k \in 1 .. Len(b) : (a \o b \o c)[Len(a) + k] = b[k]
         /\ \A k \in 1 .. Len(c) : (a \o b \o c)[Len(a) + Len(b) + k] = c[k]
<1> DEFINE ab == a \o b
<1>1. ab \in Seq(W) /\ Len(ab) = Len(a) + Len(b)
      /\ (\A k \in 1 .. Len(a) : ab[k] = a[k]) /\ \A k \in 1 .. Len(b) : ab[Len(a) + k] = b[k]
  BY JoinedTwo
<1>2. Len(a) \in Nat /\ Len(b) \in Nat /\ Len(c) \in Nat
  OBVIOUS
<1> HIDE DEF ab
<1>3. ab \o c \in Seq(W) /\ Len(ab \o c) = Len(ab) + Len(c)
      /\ (\A k \in 1 .. Len(ab) : (ab \o c)[k] = ab[k])
      /\ \A k \in 1 .. Len(c) : (ab \o c)[Len(ab) + k] = c[k]
  <2>1. ab \in Seq(W)
    BY <1>1
  <2> QED BY <2>1, JoinedTwo
<1> DEFINE abc == ab \o c
<1>4. (\A k \in 1 .. Len(a) : k \in 1 .. Len(ab))
      /\ \A k \in 1 .. Len(b) : Len(a) + k \in 1 .. Len(ab)
  BY <1>1, <1>2
<1> HIDE DEF abc
<1>5. /\ \A k \in 1 .. Len(a) : abc[k] = a[k]
      /\ \A k \in 1 .. Len(b) : abc[Len(a) + k] = b[k]
      /\ \A k \in 1 .. Len(c) : abc[Len(a) + Len(b) + k] = c[k]
  BY <1>1, <1>3, <1>4 DEF abc
<1>6. abc \in Seq(W) /\ Len(abc) = Len(a) + Len(b) + Len(c)
  BY <1>1, <1>3 DEF abc
<1> QED BY <1>5, <1>6 DEF abc, ab

SaidFields == [name : Seq(STRING), blanks : Nat, value : Seq(STRING)]

LEMMA WordsWritten ==
  ASSUME NEW f \in SaidFields
  PROVE  LET w == LineOf(f)
             lo == Len(f.name)
             hi == Len(f.name) + f.blanks
         IN  /\ lo \in Nat /\ hi \in Nat /\ Len(f.value) \in Nat
             /\ w \in Seq(Words) /\ Len(w) = hi + Len(f.value) + 1
             /\ \A k \in 1 .. lo : w[k] = f.name[k]
             /\ \A k \in 1 .. f.blanks : w[lo + k] = Blank
             /\ \A k \in 1 .. Len(f.value) : w[hi + k] = f.value[k]
             /\ w[hi + Len(f.value) + 1] = "\r\n"
<1> DEFINE nm == f.name
           vl == f.value
           bl == [i \in 1 .. f.blanks |-> Blank]
           nl == <<"\r\n">>
           nb == nm \o bl
           w  == LineOf(f)
           lo == Len(nm)
           hi == Len(nm) + f.blanks
<1>1. nm \in Seq(Words) /\ vl \in Seq(Words) /\ f.blanks \in Nat
  <2>1. \A s \in Seq(STRING) : s \in Seq(Words)
    BY DEF Words
  <2> QED BY <2>1 DEF SaidFields
<1>2. bl \in Seq(Words) /\ Len(bl) = f.blanks /\ \A k \in 1 .. f.blanks : bl[k] = Blank
  <2>1. Blank \in Words
    BY DEF Words
  <2> QED BY <1>1, <2>1
<1>3. nl \in Seq(Words) /\ Len(nl) = 1 /\ nl[1] = "\r\n"
  BY DEF Words
<1>4. w = nb \o vl \o nl
  BY DEF LineOf
<1> HIDE DEF bl, nl, nm, vl
<1>5. /\ nb \in Seq(Words) /\ Len(nb) = lo + f.blanks
      /\ \A k \in 1 .. lo : nb[k] = nm[k]
      /\ \A k \in 1 .. f.blanks : nb[lo + k] = bl[k]
  BY <1>1, <1>2, JoinedTwo
<1>6. lo \in Nat /\ hi \in Nat /\ Len(vl) \in Nat /\ hi = lo + f.blanks
  BY <1>1
<1>7. /\ \A k \in 1 .. lo : k \in 1 .. Len(nb)
      /\ \A k \in 1 .. f.blanks : lo + k \in 1 .. Len(nb)
  BY <1>1, <1>5, <1>6
<1> HIDE DEF nb, w, lo
<1>8. /\ w \in Seq(Words) /\ Len(w) = Len(nb) + Len(vl) + Len(nl)
      /\ \A k \in 1 .. Len(nb) : w[k] = nb[k]
      /\ \A k \in 1 .. Len(vl) : w[Len(nb) + k] = vl[k]
      /\ \A k \in 1 .. Len(nl) : w[Len(nb) + Len(vl) + k] = nl[k]
  <2> DEFINE all == nb \o vl \o nl
  <2>1. nb \in Seq(Words) /\ vl \in Seq(Words) /\ nl \in Seq(Words)
    BY <1>1, <1>3, <1>5
  <2>2. /\ all \in Seq(Words) /\ Len(all) = Len(nb) + Len(vl) + Len(nl)
        /\ \A k \in 1 .. Len(nb) : all[k] = nb[k]
        /\ \A k \in 1 .. Len(vl) : all[Len(nb) + k] = vl[k]
        /\ \A k \in 1 .. Len(nl) : all[Len(nb) + Len(vl) + k] = nl[k]
    BY <2>1, Joined
  <2>3. w = all
    BY <1>4
  <2> QED BY <2>2, <2>3
<1>9. w[hi + Len(vl) + 1] = "\r\n"
  <2>1. PICK one \in Nat : one = 1
    OBVIOUS
  <2>2. one \in 1 .. Len(nl)
    BY <1>3, <2>1
  <2>3. w[Len(nb) + Len(vl) + one] = nl[one]
    BY <1>8, <2>2
  <2> QED BY <1>3, <1>5, <1>6, <2>1, <2>3 DEF lo
<1>10. /\ \A k \in 1 .. lo : w[k] = nm[k]
       /\ \A k \in 1 .. f.blanks : w[lo + k] = Blank
  BY <1>2, <1>5, <1>7, <1>8
<1>11. \A k \in 1 .. Len(vl) : w[hi + k] = vl[k]
  BY <1>5, <1>6, <1>8
<1>12. Len(w) = hi + Len(vl) + 1
  BY <1>3, <1>5, <1>6, <1>8
<1> QED BY <1>6, <1>8, <1>9, <1>10, <1>11, <1>12 DEF w, lo, nm, vl

LEMMA FirstLineWords ==
  ASSUME NEW said, IsSaid(said)
  PROVE  LET w == FirstLine(said)
             t == Len(said.target)
         IN  /\ t \in Nat /\ w \in Seq(Words) /\ Len(w) = t + 5
             /\ w[1] = "POST" /\ w[2] = Blank
             /\ \A k \in 1 .. t : w[2 + k] = said.target[k] /\ said.target[k] # Blank
             /\ w[t + 3] = Blank /\ w[t + 4] = "HTTP/1.1" /\ w[t + 5] = "\r\n"
<1> DEFINE a  == <<"POST", Blank>>
           b  == <<Blank, "HTTP/1.1", "\r\n">>
           tg == said.target
           w  == FirstLine(said)
           t  == Len(tg)
<1>1. tg \in Seq(Words) /\ \A k \in 1 .. t : tg[k] # Blank
  <2>1. \A s \in Seq(STRING) : s \in Seq(Words)
    BY DEF Words
  <2>2. tg \in Seq(STRING) /\ \A i \in DOMAIN tg : tg[i] # Blank
    BY DEF IsSaid
  <2> HIDE DEF tg
  <2> QED BY <2>1, <2>2
<1>2. a \in Seq(Words) /\ Len(a) = 2 /\ a[1] = "POST" /\ a[2] = Blank
  BY DEF Words
<1>3. b \in Seq(Words) /\ Len(b) = 3 /\ b[1] = Blank /\ b[2] = "HTTP/1.1" /\ b[3] = "\r\n"
  BY DEF Words
<1>4. w = a \o tg \o b
  BY DEF FirstLine
<1>5. t \in Nat
  BY <1>1
<1> HIDE DEF a, b, tg, w
<1>6. /\ w \in Seq(Words) /\ Len(w) = Len(a) + Len(tg) + Len(b)
      /\ \A k \in 1 .. Len(a) : w[k] = a[k]
      /\ \A k \in 1 .. Len(tg) : w[Len(a) + k] = tg[k]
      /\ \A k \in 1 .. Len(b) : w[Len(a) + Len(tg) + k] = b[k]
  <2> DEFINE all == a \o tg \o b
  <2>1. a \in Seq(Words) /\ tg \in Seq(Words) /\ b \in Seq(Words)
    BY <1>1, <1>2, <1>3
  <2>2. /\ all \in Seq(Words) /\ Len(all) = Len(a) + Len(tg) + Len(b)
        /\ \A k \in 1 .. Len(a) : all[k] = a[k]
        /\ \A k \in 1 .. Len(tg) : all[Len(a) + k] = tg[k]
        /\ \A k \in 1 .. Len(b) : all[Len(a) + Len(tg) + k] = b[k]
    BY <2>1, Joined
  <2>3. w = all
    BY <1>4
  <2> QED BY <2>2, <2>3
<1>7. w[1] = "POST" /\ w[2] = Blank
  <2>1. PICK i \in 1 .. Len(a) : i = 1
    BY <1>2
  <2>2. PICK j \in 1 .. Len(a) : j = 2
    BY <1>2
  <2>3. w[i] = a[i] /\ w[j] = a[j]
    BY <1>6
  <2> QED BY <1>2, <2>1, <2>2, <2>3
<1>8. w[t + 3] = Blank /\ w[t + 4] = "HTTP/1.1" /\ w[t + 5] = "\r\n"
  <2>1. PICK i \in 1 .. Len(b) : i = 1
    BY <1>3
  <2>2. PICK j \in 1 .. Len(b) : j = 2
    BY <1>3
  <2>3. PICK k \in 1 .. Len(b) : k = 3
    BY <1>3
  <2>4. w[Len(a) + Len(tg) + i] = b[i] /\ w[Len(a) + Len(tg) + j] = b[j]
        /\ w[Len(a) + Len(tg) + k] = b[k]
    BY <1>6
  <2>5. Len(a) + Len(tg) + i = t + 3 /\ Len(a) + Len(tg) + j = t + 4 /\ Len(a) + Len(tg) + k = t + 5
    BY <1>2, <1>5, <2>1, <2>2, <2>3
  <2> QED BY <1>3, <2>1, <2>2, <2>3, <2>4, <2>5
<1>9. \A k \in 1 .. t : w[2 + k] = tg[k] /\ tg[k] # Blank
  BY <1>1, <1>2, <1>6
<1>10. Len(w) = t + 5
  BY <1>2, <1>3, <1>5, <1>6
<1> QED BY <1>5, <1>6, <1>7, <1>8, <1>9, <1>10 DEF w, tg

(***************************************************************************)
(* Each line of the head ends where the next one begins.                   *)
(***************************************************************************)
Appended(s, a, w) ==
  /\ a \in Seq(Words) /\ w \in Seq(Words) /\ s \in Seq(Words) /\ Len(s) = Len(a) + Len(w)
  /\ \A k \in 1 .. Len(a) : s[k] = a[k]
  /\ \A k \in 1 .. Len(w) : s[Len(a) + k] = w[k]

LEMMA LineAdded ==
  ASSUME NEW said, IsSaid(said), NEW u, Lines(u, said), NEW n \in 1 .. Len(said.fields)
  PROVE  /\ said.fields[n] \in SaidFields /\ n \in Nat /\ n - 1 \in 0 .. Len(said.fields)
         /\ Appended(u[n], u[n - 1], LineOf(said.fields[n]))
<1> DEFINE w == LineOf(said.fields[n])
           a == u[n - 1]
<1>1. said.fields \in Seq(SaidFields)
  BY DEF IsSaid, SaidFields
<1>2. said.fields[n] \in SaidFields
  BY <1>1, ElementOfSeq
<1>3. n \in Nat /\ n - 1 \in 0 .. Len(said.fields) /\ n \in 0 .. Len(said.fields)
  BY <1>1
<1>4. w \in Seq(Words)
  BY LinesTyped
<1>5. a \in Seq(Words) /\ u[n] = a \o w
  BY <1>3 DEF Lines
<1> HIDE DEF a, w
<1>6. /\ a \o w \in Seq(Words) /\ Len(a \o w) = Len(a) + Len(w)
      /\ \A k \in 1 .. Len(a) : (a \o w)[k] = a[k]
      /\ \A k \in 1 .. Len(w) : (a \o w)[Len(a) + k] = w[k]
  <2>1. a \in Seq(Words)
    BY <1>5
  <2> QED BY <1>4, <2>1, JoinedTwo
<1>7. Appended(u[n], a, w)
  BY <1>4, <1>5, <1>6 DEF Appended
<1> QED BY <1>2, <1>3, <1>7 DEF a, w

LEMMA LinesBegin ==
  ASSUME NEW said, IsSaid(said), NEW u, Lines(u, said), NEW n \in 0 .. Len(said.fields)
  PROVE  LET last == u[Len(said.fields)]
         IN  /\ last \in Seq(Words) /\ u[n] \in Seq(Words) /\ Len(u[n]) <= Len(last)
             /\ \A k \in 1 .. Len(u[n]) : last[k] = u[n][k]
<1> DEFINE hi == Len(said.fields)
           T == {m \in n .. hi : Len(u[n]) <= Len(u[m]) /\ \A k \in 1 .. Len(u[n]) : u[m][k] = u[n][k]}
<1>1. hi \in Nat
  BY LinesTyped
<1>2. \A m \in 0 .. hi : u[m] \in Seq(Words)
  BY DEF Lines
<1>3. n \in T
  <2>1. Len(u[n]) \in Nat
    BY <1>2
  <2> QED BY <1>1, <2>1
<1>4. ASSUME NEW m \in n .. (hi - 1), m \in T PROVE m + 1 \in T
  <2>1. PICK i \in 1 .. Len(said.fields) : i = m + 1
    BY <1>1
  <2>2. i - 1 = m /\ i \in n .. hi
    BY <1>1, <2>1
  <2> DEFINE w == LineOf(said.fields[i])
  <2> HIDE DEF hi, T
  <2>3. Appended(u[i], u[i - 1], w)
    BY LineAdded
  <2>4. Len(w) \in Nat /\ Len(u[m]) \in Nat
    BY <2>2, <2>3 DEF Appended
  <2>5. Len(u[n]) \in Nat
    BY <1>2
  <2> HIDE DEF w
  <2>6. Len(u[n]) <= Len(u[m]) /\ \A k \in 1 .. Len(u[n]) : u[m][k] = u[n][k]
    BY <1>4 DEF T
  <2>7. Len(u[n]) <= Len(u[i])
    BY <2>2, <2>3, <2>4, <2>5, <2>6 DEF Appended
  <2>8. \A k \in 1 .. Len(u[n]) : k \in 1 .. Len(u[m])
    BY <2>4, <2>5, <2>6
  <2>9. \A k \in 1 .. Len(u[n]) : u[i][k] = u[n][k]
    BY <2>2, <2>3, <2>6, <2>8 DEF Appended
  <2> QED BY <2>1, <2>2, <2>7, <2>9 DEF T
<1>5. n .. hi \subseteq T
  <2>1. n \in Int /\ hi \in Int
    BY <1>1
  <2> HIDE DEF T, hi
  <2> QED BY <1>3, <1>4, <2>1, IntervalInduction
<1>6. hi \in T
  <2> HIDE DEF T
  <2> QED BY <1>1, <1>5
<1> QED BY <1>1, <1>2, <1>6

(***************************************************************************)
(* Lines whose fields mention no length do not, nor does the first line of *)
(* a target that does not.                                                 *)
(***************************************************************************)
LEMMA MarksAreNoLength ==
  /\ Blank \notin LengthNames /\ "POST" \notin LengthNames
  /\ "HTTP/1.1" \notin LengthNames /\ "\r\n" \notin LengthNames
  /\ ~ IsDigit("\r\n") /\ ~ IsDigit(Blank)
  /\ Blank # "\r\n" /\ Blank # "POST"
  /\ \A c : IsDigit(c) => c # Blank
BY DEF LengthNames, Blank, IsDigit, Digit

LEMMA WrittenMentions ==
  ASSUME NEW f \in SaidFields, ~ MentionsLength(f.name \o f.value), NEW k \in 1 .. Len(LineOf(f))
  PROVE  LineOf(f)[k] \notin LengthNames
<1> DEFINE w  == LineOf(f)
           nm == f.name
           vl == f.value
           lo == Len(nm)
           hi == Len(nm) + f.blanks
<1>1. /\ lo \in Nat /\ hi \in Nat /\ Len(vl) \in Nat
      /\ Len(w) = hi + Len(vl) + 1
      /\ \A i \in 1 .. lo : w[i] = nm[i]
      /\ \A i \in 1 .. f.blanks : w[lo + i] = Blank
      /\ \A i \in 1 .. Len(vl) : w[hi + i] = vl[i]
      /\ w[hi + Len(vl) + 1] = "\r\n"
  BY WordsWritten
<1>2. nm \in Seq(STRING) /\ vl \in Seq(STRING) /\ f.blanks \in Nat
  BY DEF SaidFields
<1>3. \A i \in DOMAIN (nm \o vl) : (nm \o vl)[i] \notin LengthNames
  BY DEF MentionsLength
<1> HIDE DEF w, nm, vl
<1>4. /\ \A i \in 1 .. Len(nm) : nm[i] \notin LengthNames
      /\ \A i \in 1 .. Len(vl) : vl[i] \notin LengthNames
  <2>1. /\ Len(nm \o vl) = Len(nm) + Len(vl) /\ nm \o vl \in Seq(STRING)
        /\ \A i \in 1 .. Len(nm) : (nm \o vl)[i] = nm[i]
        /\ \A i \in 1 .. Len(vl) : (nm \o vl)[Len(nm) + i] = vl[i]
    BY <1>2, JoinedTwo
  <2>2. Len(nm) \in Nat /\ Len(vl) \in Nat
    BY <1>2
  <2>3. DOMAIN (nm \o vl) = 1 .. (Len(nm) + Len(vl))
    BY <2>1
  <2>4. /\ \A i \in 1 .. Len(nm) : i \in 1 .. (Len(nm) + Len(vl))
        /\ \A i \in 1 .. Len(vl) : Len(nm) + i \in 1 .. (Len(nm) + Len(vl))
    BY <2>2
  <2> QED BY <1>3, <2>1, <2>3, <2>4
<1>5. \/ k \in 1 .. lo
      \/ \E i \in 1 .. f.blanks : k = lo + i
      \/ \E i \in 1 .. Len(vl) : k = hi + i
      \/ k = hi + Len(vl) + 1
  <2>1. k \in 1 .. Len(w)
    BY DEF w
  <2>2. CASE k \in (lo + 1) .. hi
    <3>1. k - lo \in 1 .. f.blanks /\ k = lo + (k - lo)
      BY <1>1, <1>2, <2>2
    <3> QED BY <3>1
  <2>3. CASE k \in (hi + 1) .. (hi + Len(vl))
    <3>1. k - hi \in 1 .. Len(vl) /\ k = hi + (k - hi)
      <4>1. hi \in Nat /\ Len(vl) \in Nat
        BY <1>1
      <4> HIDE DEF hi, lo
      <4> QED BY <2>3, <4>1
    <3> QED BY <3>1
  <2>4. hi = lo + f.blanks
    OBVIOUS
  <2> HIDE DEF lo, hi
  <2>5. k \in 1 .. lo \/ k \in (lo + 1) .. hi \/ k \in (hi + 1) .. (hi + Len(vl)) \/ k = hi + Len(vl) + 1
    BY <1>1, <1>2, <2>1, <2>4
  <2> QED BY <2>2, <2>3, <2>5
<1> HIDE DEF hi
<1>6. w[k] \notin LengthNames
  BY <1>1, <1>4, <1>5, MarksAreNoLength
<1> QED BY <1>6 DEF w

LEMMA NotMentioned ==
  ASSUME NEW said, IsSaid(said), NEW u, Lines(u, said), NEW n \in 0 .. Len(said.fields),
         ~ MentionsLength(said.target),
         \A m \in 1 .. n : ~ MentionsLength(said.fields[m].name \o said.fields[m].value)
  PROVE  \A k \in 1 .. Len(u[n]) : u[n][k] \notin LengthNames
<1> DEFINE Free(m) == \A k \in 1 .. Len(u[m]) : u[m][k] \notin LengthNames
           T == {m \in 0 .. n : Free(m)}
<1>1. Len(said.fields) \in Nat /\ n \in Nat
  BY LinesTyped
<1>2. Free(0)
  <2> DEFINE w == FirstLine(said)
             t == Len(said.target)
  <2>1. /\ t \in Nat /\ Len(w) = t + 5
        /\ w[1] = "POST" /\ w[2] = Blank
        /\ \A k \in 1 .. t : w[2 + k] = said.target[k]
        /\ w[t + 3] = Blank /\ w[t + 4] = "HTTP/1.1" /\ w[t + 5] = "\r\n"
    BY FirstLineWords
  <2>2. \A k \in 1 .. t : said.target[k] \notin LengthNames
    <3>1. said.target \in Seq(STRING)
      BY DEF IsSaid
    <3> QED BY <3>1 DEF MentionsLength
  <2> HIDE DEF w, t
  <2>3. ASSUME NEW k \in 1 .. Len(w) PROVE w[k] \notin LengthNames
    <3>1. k = 1 \/ k = 2 \/ k \in 3 .. (t + 2) \/ k = t + 3 \/ k = t + 4 \/ k = t + 5
      BY <2>1
    <3>2. CASE k \in 3 .. (t + 2)
      <4>1. k - 2 \in 1 .. t /\ 2 + (k - 2) = k
        BY <2>1, <3>2
      <4>2. w[2 + (k - 2)] = said.target[k - 2]
        BY <2>1, <4>1
      <4> QED BY <2>2, <4>1, <4>2
    <3> QED BY <2>1, <3>1, <3>2, MarksAreNoLength
  <2>4. u[0] = w
    BY DEF Lines, w
  <2> QED BY <2>3, <2>4
<1>3. ASSUME NEW m \in 0 .. (n - 1), Free(m) PROVE Free(m + 1)
  <2>1. PICK i \in 1 .. Len(said.fields) : i = m + 1 /\ i \in 1 .. n /\ i - 1 = m
    BY <1>1
  <2> HIDE DEF Free, T
  <2> DEFINE f == said.fields[i]
             w == LineOf(f)
  <2>2. f \in SaidFields /\ Appended(u[i], u[i - 1], w)
    BY LineAdded
  <2>3. ~ MentionsLength(f.name \o f.value)
    BY <2>1
  <2>4. \A k \in 1 .. Len(w) : w[k] \notin LengthNames
    <3> HIDE DEF f
    <3> QED BY <2>2, <2>3, WrittenMentions
  <2> HIDE DEF f, w
  <2>5. Appended(u[i], u[m], w)
    BY <2>1, <2>2
  <2>6. ASSUME NEW k \in 1 .. Len(u[i]) PROVE u[i][k] \notin LengthNames
    <3>1. Len(u[m]) \in Nat /\ Len(w) \in Nat /\ Len(u[i]) = Len(u[m]) + Len(w)
      BY <2>5 DEF Appended
    <3>2. CASE k \in 1 .. Len(u[m])
      BY <1>3, <2>5, <3>2 DEF Appended, Free
    <3>3. CASE k \notin 1 .. Len(u[m])
      <4>1. k - Len(u[m]) \in 1 .. Len(w) /\ Len(u[m]) + (k - Len(u[m])) = k
        BY <3>1, <3>3
      <4>2. u[i][k] = w[k - Len(u[m])]
        BY <2>5, <4>1 DEF Appended
      <4> QED BY <2>4, <4>1, <4>2
    <3> QED BY <3>2, <3>3
  <2> QED BY <2>1, <2>6 DEF Free
<1>4. n \in T
  <2> HIDE DEF Free
  <2>1. PICK zero \in Nat : zero = 0
    OBVIOUS
  <2>2. zero \in T /\ zero \in Int /\ n \in Int
    BY <1>1, <1>2, <2>1
  <2>3. ASSUME NEW m \in zero .. (n - 1), m \in T PROVE m + 1 \in T
    <3>1. m \in 0 .. (n - 1) /\ Free(m) /\ m + 1 \in 0 .. n
      BY <1>1, <2>1, <2>3
    <3> QED BY <1>3, <3>1
  <2> HIDE DEF T
  <2>4. zero .. n \subseteq T
    BY <2>2, <2>3, IntervalInduction
  <2> QED BY <1>1, <2>1, <2>4
<1> QED BY <1>4

(***************************************************************************)
(* The whole head: lines, and an empty one.                                *)
(***************************************************************************)
Begins(h, s) ==
  s \in Seq(Words) /\ Len(s) < Len(h) /\ \A k \in 1 .. Len(s) : h[k] = s[k]

LEMMA HeadBegins ==
  ASSUME NEW said, IsSaid(said), NEW u, Lines(u, said), NEW h,
         h = u[Len(said.fields)] \o <<"\r\n">>
  PROVE  /\ h \in Seq(Words) /\ Len(h) = Len(u[Len(said.fields)]) + 1 /\ h[Len(h)] = "\r\n"
         /\ \A n \in 0 .. Len(said.fields) : Begins(h, u[n])
<1> DEFINE last == u[Len(said.fields)]
           nl   == <<"\r\n">>
<1>1. Len(said.fields) \in Nat
  BY LinesTyped
<1>2. last \in Seq(Words)
  BY <1>1 DEF Lines
<1>3. nl \in Seq(Words) /\ Len(nl) = 1 /\ nl[1] = "\r\n"
  BY DEF Words
<1>4. h = last \o nl
  OBVIOUS
<1>5. ASSUME NEW n \in 0 .. Len(said.fields)
      PROVE  /\ u[n] \in Seq(Words) /\ Len(u[n]) <= Len(last)
             /\ \A k \in 1 .. Len(u[n]) : last[k] = u[n][k]
  BY LinesBegin
<1> HIDE DEF last, nl
<1>6. /\ h \in Seq(Words) /\ Len(h) = Len(last) + Len(nl)
      /\ \A k \in 1 .. Len(last) : h[k] = last[k]
      /\ \A k \in 1 .. Len(nl) : h[Len(last) + k] = nl[k]
  <2> DEFINE all == last \o nl
  <2>1. nl \in Seq(Words)
    BY <1>3
  <2>2. /\ all \in Seq(Words) /\ Len(all) = Len(last) + Len(nl)
        /\ \A k \in 1 .. Len(last) : all[k] = last[k]
        /\ \A k \in 1 .. Len(nl) : all[Len(last) + k] = nl[k]
    BY <1>2, <2>1, JoinedTwo
  <2>3. h = all
    BY <1>4
  <2> QED BY <2>2, <2>3
<1>7. Len(last) \in Nat
  BY <1>2
<1>8. h[Len(h)] = "\r\n"
  <2>1. PICK one \in Nat : one = 1
    OBVIOUS
  <2>2. one \in 1 .. Len(nl)
    BY <1>3, <2>1
  <2>3. h[Len(last) + one] = nl[one]
    BY <1>6, <2>2
  <2> QED BY <1>3, <1>6, <2>1, <2>3
<1>9. ASSUME NEW n \in 0 .. Len(said.fields) PROVE Begins(h, u[n])
  <2> DEFINE s == u[n]
  <2>1. s \in Seq(Words) /\ Len(s) <= Len(last) /\ \A k \in 1 .. Len(s) : last[k] = s[k]
    BY <1>5
  <2> HIDE DEF s
  <2>2. Len(s) \in Nat
    BY <2>1
  <2>3. Len(s) < Len(h) /\ \A k \in 1 .. Len(s) : k \in 1 .. Len(last)
    BY <1>3, <1>6, <1>7, <2>1, <2>2
  <2>4. Begins(h, s)
    BY <1>6, <2>1, <2>3 DEF Begins
  <2> QED BY <2>4 DEF s
<1> QED BY <1>3, <1>6, <1>8, <1>9 DEF last

LEMMA PathRead ==
  ASSUME NEW said, IsSaid(said), NEW h \in Seq(Words), Begins(h, FirstLine(said))
  PROVE  SubSeq(h, PathStart(h), WordEnd(h, PathStart(h)) - 1) = said.target
<1> DEFINE w  == FirstLine(said)
           tg == said.target
           t  == Len(tg)
<1>1. /\ t \in Nat /\ Len(w) = t + 5
      /\ w[1] = "POST" /\ w[2] = Blank
      /\ \A k \in 1 .. t : w[2 + k] = tg[k] /\ tg[k] # Blank
      /\ w[t + 3] = Blank
  BY FirstLineWords
<1>2. tg \in Seq(STRING)
  BY DEF IsSaid
<1>3. Len(w) < Len(h) /\ \A k \in 1 .. Len(w) : h[k] = w[k]
  BY DEF Begins
<1> HIDE DEF w, tg
<1>4. Len(h) \in Nat /\ t + 5 < Len(h)
  BY <1>1, <1>3
<1> HIDE DEF t
<1>5. h[1] = "POST" /\ h[2] = Blank /\ h[t + 3] = Blank
      /\ \A k \in 3 .. (t + 2) : h[k] = tg[k - 2] /\ h[k] # Blank
  <2>1. 1 \in 1 .. Len(w) /\ 2 \in 1 .. Len(w) /\ t + 3 \in 1 .. Len(w)
    BY <1>1
  <2>2. ASSUME NEW k \in 3 .. (t + 2) PROVE h[k] = tg[k - 2] /\ h[k] # Blank
    <3>1. k \in 1 .. Len(w) /\ k - 2 \in 1 .. t /\ 2 + (k - 2) = k
      BY <1>1
    <3>2. w[2 + (k - 2)] = tg[k - 2] /\ tg[k - 2] # Blank
      BY <1>1, <3>1
    <3> QED BY <1>3, <3>1, <3>2
  <2> QED BY <1>1, <1>3, <2>1, <2>2
<1>6. WordEnd(h, 1) = 2
  <2>1. PICK i \in Nat : i = 1
    OBVIOUS
  <2>2. PICK j \in i .. (Len(h) + 1) : j = 2
    BY <1>1, <1>4, <2>1
  <2>3. i <= Len(h) /\ (\A k \in i .. (j - 1) : h[k] # Blank) /\ h[j] = Blank
    <3>1. \A k \in i .. (j - 1) : k = 1
      BY <2>1, <2>2
    <3> QED BY <1>1, <1>4, <1>5, <2>1, <2>2, <3>1, MarksAreNoLength
  <2>4. WordEnd(h, i) = j
    BY <1>4, <2>2, <2>3, EndsAre
  <2> QED BY <2>1, <2>2, <2>4
<1>7. PathStart(h) = 3
  BY <1>6 DEF PathStart
<1>8. WordEnd(h, 3) = t + 3
  <2>1. PICK i \in Nat : i = 3
    OBVIOUS
  <2>2. PICK j \in i .. (Len(h) + 1) : j = t + 3
    BY <1>1, <1>4, <2>1
  <2>3. i <= Len(h) /\ (\A k \in i .. (j - 1) : h[k] # Blank) /\ h[j] = Blank
    <3>1. \A k \in i .. (j - 1) : k \in 3 .. (t + 2)
      BY <1>1, <2>1, <2>2
    <3> QED BY <1>1, <1>4, <1>5, <2>1, <2>2, <3>1
  <2>4. WordEnd(h, i) = j
    BY <1>4, <2>2, <2>3, EndsAre
  <2> QED BY <2>1, <2>2, <2>4
<1>9. SubSeq(h, 3, t + 2) = tg
  <2> DEFINE s == SubSeq(h, 3, t + 2)
  <2>1. Len(s) = t /\ s \in Seq(Words) /\ \A k \in 1 .. t : s[k] = h[k + 2]
    BY <1>1, <1>4
  <2>2. \A k \in 1 .. t : h[k + 2] = tg[k]
    <3>1. \A k \in 1 .. t : k + 2 \in 3 .. (t + 2) /\ (k + 2) - 2 = k
      BY <1>1
    <3> QED BY <1>5, <3>1
  <2>3. s = [k \in 1 .. t |-> tg[k]]
    <3> HIDE DEF s
    <3>1. s = [k \in 1 .. t |-> s[k]]
      BY <2>1
    <3> QED BY <2>1, <2>2, <3>1
  <2>4. tg = [k \in 1 .. t |-> tg[k]]
    BY <1>2 DEF t
  <2> HIDE DEF s
  <2> QED BY <2>3, <2>4 DEF s
<1>10. (t + 3) - 1 = t + 2
  BY <1>1
<1> QED BY <1>7, <1>8, <1>9, <1>10 DEF tg

(***************************************************************************)
(* Of a field with at least one blank, the length is the value: behind as  *)
(* many blanks as there are, up to the end of the line.                    *)
(***************************************************************************)
LEMMA LengthAtField ==
  ASSUME NEW h \in Seq(Words), NEW f \in SaidFields, NEW a \in Nat,
         Len(f.name) = 1, f.blanks > 0,
         \A i \in DOMAIN f.value : IsDigit(f.value[i]),
         Value(f.value, 1, Len(f.value) + 1) <= MaxInt,
         a + Len(LineOf(f)) < Len(h),
         \A k \in 1 .. Len(LineOf(f)) : h[a + k] = LineOf(f)[k]
  PROVE  LengthAt(h, a + 1) = Value(f.value, 1, Len(f.value) + 1)
<1> DEFINE w  == LineOf(f)
           vl == f.value
           bl == f.blanks
           v  == Len(vl)
           lo == Len(f.name)
           hi == Len(f.name) + f.blanks
           i  == a + 3
           j  == a + bl + 2
           l  == a + bl + 2 + v
<1>1. /\ Len(w) = hi + v + 1
      /\ \A k \in 1 .. bl : w[lo + k] = Blank
      /\ \A k \in 1 .. v : w[hi + k] = vl[k]
      /\ w[hi + v + 1] = "\r\n"
  BY WordsWritten
<1>2. vl \in Seq(STRING) /\ bl \in Nat /\ bl > 0 /\ v \in Nat /\ lo = 1 /\ hi = bl + 1
  <2>1. f.value \in Seq(STRING) /\ f.blanks \in Nat
    BY DEF SaidFields
  <2>2. Len(f.value) \in Nat
    BY <2>1
  <2> QED BY <2>1, <2>2
<1>3. \A k \in 1 .. v : IsDigit(vl[k])
  BY <1>2
<1>4. Len(h) \in Nat /\ a + Len(w) < Len(h) /\ \A k \in 1 .. Len(w) : h[a + k] = w[k]
  OBVIOUS
<1> DEFINE worth == Value(vl, 1, v + 1)
<1>5. worth <= MaxInt
  OBVIOUS
<1> HIDE DEF w, vl, bl, v, lo, hi
<1>6. Len(w) = bl + v + 2 /\ l < Len(h) /\ i \in Nat /\ j \in Nat /\ l \in Nat
  BY <1>1, <1>2, <1>4
<1>7. \A k \in i .. (j - 1) : h[k] = Blank
  <2> SUFFICES ASSUME NEW k \in i .. (j - 1) PROVE h[k] = Blank
    OBVIOUS
  <2>1. k - a - 1 \in 1 .. bl /\ k - a \in 1 .. Len(w) /\ a + (k - a) = k /\ lo + (k - a - 1) = k - a
    BY <1>2, <1>6
  <2>2. h[a + (k - a)] = w[k - a]
    BY <1>4, <2>1
  <2>3. w[lo + (k - a - 1)] = Blank
    BY <1>1, <2>1
  <2> QED BY <2>1, <2>2, <2>3
<1>8. \A n \in 0 .. (v - 1) : h[j + n] = vl[1 + n]
  <2> SUFFICES ASSUME NEW n \in 0 .. (v - 1) PROVE h[j + n] = vl[1 + n]
    OBVIOUS
  <2>1. 1 + n \in 1 .. v /\ hi + (1 + n) \in 1 .. Len(w) /\ a + (hi + (1 + n)) = j + n
    BY <1>2, <1>6
  <2>2. h[a + (hi + (1 + n))] = w[hi + (1 + n)]
    BY <1>4, <2>1
  <2>3. w[hi + (1 + n)] = vl[1 + n]
    BY <1>1, <2>1
  <2> QED BY <2>1, <2>2, <2>3
<1>9. \A k \in j .. (l - 1) : IsDigit(h[k])
  <2> SUFFICES ASSUME NEW k \in j .. (l - 1) PROVE IsDigit(h[k])
    OBVIOUS
  <2>1. k - j \in 0 .. (v - 1) /\ j + (k - j) = k /\ 1 + (k - j) \in 1 .. v
    BY <1>2, <1>6
  <2>2. h[j + (k - j)] = vl[1 + (k - j)]
    BY <1>8, <2>1
  <2> QED BY <1>3, <2>1, <2>2
<1>10. h[l] = "\r\n"
  <2>1. hi + v + 1 \in 1 .. Len(w) /\ a + (hi + v + 1) = l
    BY <1>2, <1>6
  <2>2. h[a + (hi + v + 1)] = w[hi + v + 1]
    BY <1>4, <2>1
  <2> QED BY <1>1, <2>1, <2>2
<1>11. /\ i <= j /\ j <= l /\ j \in i .. (Len(h) + 1) /\ l \in j .. (Len(h) + 1)
       /\ (a + 1) + 2 = i
  BY <1>2, <1>6
<1>12. h[j] # Blank
  <2>1. CASE j = l
    BY <1>10, <2>1, MarksAreNoLength
  <2>2. CASE j # l
    <3>1. j \in j .. (l - 1)
      BY <1>6, <1>11, <2>2
    <3> QED BY <1>9, <3>1, MarksAreNoLength
  <2> QED BY <2>1, <2>2
<1> HIDE DEF i, j, l, worth
<1>13. BlanksEnd(h, i) = j
  BY <1>4, <1>6, <1>7, <1>11, <1>12, EndsAre
<1>14. DigitsEnd(h, j) = l
  BY <1>4, <1>6, <1>9, <1>10, <1>11, EndsAre, MarksAreNoLength
<1>15. Digits(h, j, l)
  <2>1. j \in 1 .. (Len(h) + 1)
    BY <1>2, <1>4, <1>6, <1>11 DEF j
  <2> QED BY <1>4, <1>9, <1>11, <2>1 DEF Digits
<1> DEFINE one == 1
           e   == v + 1
<1>16. Digits(vl, one, e) /\ worth = Value(vl, one, e) /\ l - j = e - one
       /\ \A n \in 0 .. (l - j - 1) : h[j + n] = vl[one + n]
  <2>1. Len(vl) = v
    BY DEF v
  <2>2. l - j = v
    BY <1>2 DEF l, j
  <2> QED BY <1>2, <1>3, <1>8, <2>1, <2>2 DEF Digits, worth
<1> HIDE DEF one, e
<1>17. Value(h, j, l) = worth
  BY <1>15, <1>16, ValueMoved
<1>18. IntValue(h, j, l) = Wrap(Value(h, j, l)) /\ Value(h, j, l) \in Nat
  BY <1>15, IntValueIs
<1>19. Wrap(worth) = worth
  BY <1>5, <1>17, <1>18, WrapType, MaxIntAssumption
<1>20. LengthAt(h, a + 1) = IntValue(h, j, l)
  BY <1>11, <1>13, <1>14 DEF LengthAt
<1> QED BY <1>17, <1>18, <1>19, <1>20 DEF worth, vl, v

(***************************************************************************)
(* The first content-length of the head is that of the first such field,   *)
(* and its length is the one the head says; without one there is none.     *)
(***************************************************************************)
LEMMA LengthRead ==
  ASSUME NEW said, IsSaid(said), AsClientsWrite(said)
  PROVE  findContentLength(HeadOf(said)) = SaidLength(said)
<1> DEFINE N == Len(said.fields)
           S == LengthFields(said)
           h == HeadOf(said)
<1>1. PICK u : Lines(u, said) /\ h = u[N] \o <<"\r\n">>
  BY HeadIs
<1>2. N \in Nat /\ DOMAIN said.fields = 1 .. N /\ S \subseteq 1 .. N
  BY DEF IsSaid, LengthFields
<1>3. /\ h \in Seq(Words) /\ Len(h) = Len(u[N]) + 1 /\ h[Len(h)] = "\r\n"
      /\ \A n \in 0 .. N : Begins(h, u[n])
  BY <1>1, HeadBegins
<1>4. ASSUME NEW n \in 1 .. N, \A k \in S : k >= n \* no length before
      PROVE  n \notin S => ~ MentionsLength(said.fields[n].name \o said.fields[n].value)
  <2> SUFFICES ASSUME n \notin S
               PROVE  ~ MentionsLength(said.fields[n].name \o said.fields[n].value)
    OBVIOUS
  <2>1. \/ ~ MentionsLength(said.fields[n].name \o said.fields[n].value)
        \/ \E k \in S : k < n
    BY <1>2 DEF AsClientsWrite
  <2>2. ASSUME NEW k \in S, k < n PROVE FALSE
    <3>1. k \in Nat /\ n \in Nat /\ k >= n
      BY <1>2, <1>4
    <3> QED BY <2>2, <3>1
  <2> QED BY <2>1, <2>2
<1>5. ~ MentionsLength(said.target)
  BY DEF AsClientsWrite
<1> HIDE DEF N, S, h
<1>6. CASE S = {}
  <2>1. N \in 0 .. N
    BY <1>2
  <2>2. \A m \in 1 .. N : ~ MentionsLength(said.fields[m].name \o said.fields[m].value)
    BY <1>4, <1>6
  <2>3. \A k \in 1 .. Len(u[N]) : u[N][k] \notin LengthNames
    <3> DEFINE n == N
    <3>1. n \in 0 .. Len(said.fields)
      BY <2>1 DEF N
    <3> HIDE DEF n
    <3>2. \A m \in 1 .. n : ~ MentionsLength(said.fields[m].name \o said.fields[m].value)
      BY <2>2 DEF n
    <3>3. \A k \in 1 .. Len(u[n]) : u[n][k] \notin LengthNames
      BY <1>1, <1>5, <3>1, <3>2, NotMentioned
    <3> QED BY <3>3 DEF n
  <2>4. ASSUME NEW i \in DOMAIN h PROVE h[i] \notin LengthNames
    <3>1. Begins(h, u[N])
      BY <1>3, <2>1
    <3>2. Len(u[N]) \in Nat /\ i \in 1 .. Len(h) /\ Len(h) = Len(u[N]) + 1
      BY <1>3, <3>1 DEF Begins
    <3>3. i \in 1 .. Len(u[N]) \/ i = Len(h)
      BY <3>2
    <3> QED BY <1>3, <2>3, <3>1, <3>3, MarksAreNoLength DEF Begins
  <2>5. Mentions(h) = {}
    BY <2>4 DEF Mentions
  <2> QED BY <1>6, <2>5 DEF findContentLength, SaidLength, S, h
<1>7. CASE S # {}
  <2>1. PICK n \in S : \A k \in S : n <= k
    <3>1. S \in SUBSET Nat
      BY <1>2
    <3> QED BY <1>7, <3>1, LeastNatural
  <2>2. n \in 1 .. N /\ n \in Nat /\ \A k \in S : k \in Nat /\ k >= n
    BY <1>2, <2>1
  <2> DEFINE f == said.fields[n]
             w == LineOf(f)
             a == Len(u[n - 1])
  <2>3. f \in SaidFields /\ n - 1 \in 0 .. N /\ Appended(u[n], u[n - 1], w)
    BY <1>1, <2>2, LineAdded DEF N
  <2>4. (\E name \in LengthNames : f.name = <<name>>)
    BY <2>1 DEF S, LengthFields
  <2>5. f.blanks > 0 /\ Value(f.value, 1, Len(f.value) + 1) <= MaxInt
    BY <1>2, <2>1, <2>2 DEF AsClientsWrite, S
  <2>6. \A i \in DOMAIN f.value : IsDigit(f.value[i])
    BY <2>1 DEF IsSaid, S
  <2>7. a \in Nat /\ Len(w) \in Nat /\ Len(u[n]) = a + Len(w)
        /\ \A k \in 1 .. Len(w) : u[n][a + k] = w[k]
    BY <2>3 DEF Appended
  <2>8. SaidLength(said) = Value(f.value, 1, Len(f.value) + 1)
    <3> DEFINE least == CHOOSE m \in S : \A k \in S : m <= k
    <3>1. least = n
      <4>1. \A m \in S : (\A k \in S : m <= k) => m = n
        BY <2>1, <2>2
      <4> QED BY <2>1, <4>1
    <3>2. SaidLength(said) = Value(said.fields[least].value, 1, Len(said.fields[least].value) + 1)
      BY <1>7 DEF SaidLength, S
    <3> HIDE DEF least
    <3> QED BY <3>1, <3>2
  <2> HIDE DEF f, w, a
  <2>9. /\ a + Len(w) < Len(h) /\ Len(h) \in Nat
        /\ \A k \in 1 .. Len(w) : h[a + k] = w[k]
    <3>1. Begins(h, u[n])
      BY <1>3, <2>2
    <3>2. \A k \in 1 .. Len(w) : a + k \in 1 .. Len(u[n])
      BY <2>7
    <3>3. Len(h) \in Nat
      BY <1>3
    <3> QED BY <2>7, <3>1, <3>2, <3>3 DEF Begins
  <2>10. Len(f.name) = 1 /\ f.name[1] \in LengthNames
    BY <2>4
  <2>11. LengthAt(h, a + 1) = Value(f.value, 1, Len(f.value) + 1)
    BY <1>3, <2>3, <2>5, <2>6, <2>7, <2>9, <2>10, LengthAtField DEF w
  <2>12. a + 1 \in Mentions(h)
    <3>1. Len(w) >= 3 /\ w[1] = f.name[1]
      <4> DEFINE lo == Len(f.name)
                 v == Len(f.value)
      <4>1. /\ v \in Nat /\ Len(w) = (lo + f.blanks) + v + 1
            /\ \A k \in 1 .. lo : w[k] = f.name[k]
        BY <2>3, WordsWritten DEF w
      <4>2. f.blanks \in Nat
        BY <2>3 DEF SaidFields
      <4>3. 1 \in 1 .. lo /\ lo = 1
        BY <2>10
      <4> HIDE DEF lo, v
      <4> QED BY <2>5, <4>1, <4>2, <4>3
    <3>2. 1 \in 1 .. Len(w)
      BY <2>7, <3>1
    <3>3. h[a + 1] = w[1]
      BY <2>9, <3>2
    <3>4. a + 1 \in DOMAIN h /\ (a + 1) + 2 <= Len(h)
      BY <1>3, <2>7, <2>9, <3>1
    <3> QED BY <2>10, <3>1, <3>3, <3>4 DEF Mentions
  <2>13. ASSUME NEW k \in Mentions(h) PROVE a + 1 <= k
    <3> SUFFICES ASSUME ~ (a + 1 <= k) PROVE FALSE
      OBVIOUS
    <3>1. k \in 1 .. Len(h) /\ h[k] \in LengthNames
      BY <1>3, <2>13 DEF Mentions
    <3>2. k \in 1 .. a
      BY <2>7, <2>9, <3>1
    <3>3. h[k] = u[n - 1][k]
      <4>1. Begins(h, u[n - 1])
        BY <1>3, <2>3
      <4> QED BY <3>2, <4>1 DEF Begins, a
    <3> DEFINE m == n - 1
    <3>4. m \in 0 .. Len(said.fields)
      BY <2>3 DEF N
    <3>5. ASSUME NEW l \in 1 .. m
          PROVE  ~ MentionsLength(said.fields[l].name \o said.fields[l].value)
      <4>1. l \in 1 .. N /\ l < n
        BY <1>2, <2>2, <2>3
      <4>2. l \notin S /\ \A i \in S : i >= l
        BY <2>2, <4>1
      <4> QED BY <1>4, <4>1, <4>2
    <3> HIDE DEF m
    <3>6. \A i \in 1 .. Len(u[m]) : u[m][i] \notin LengthNames
      BY <1>1, <1>5, <3>4, <3>5, NotMentioned
    <3>7. u[n - 1][k] \notin LengthNames
      BY <3>2, <3>6 DEF m, a
    <3> QED BY <3>1, <3>3, <3>7
  <2>14. findContentLength(h) = LengthAt(h, a + 1)
    <3> DEFINE M == Mentions(h)
               first == CHOOSE i \in M : \A k \in M : i <= k
    <3>1. M # {} /\ M \subseteq Nat
      BY <1>3, <2>12 DEF Mentions
    <3>2. first = a + 1
      <4>1. a + 1 \in M /\ \A k \in M : a + 1 <= k
        BY <2>12, <2>13
      <4>2. \A i \in M : (\A k \in M : i <= k) => i = a + 1
        <5> HIDE DEF M
        <5> QED BY <2>7, <3>1, <4>1
      <4> HIDE DEF M
      <4> QED BY <4>1, <4>2
    <3>3. findContentLength(h) = LengthAt(h, first)
      BY <3>1 DEF findContentLength
    <3> HIDE DEF first
    <3> QED BY <3>2, <3>3
  <2> QED BY <2>8, <2>11, <2>14 DEF h
<1> QED BY <1>6, <1>7 DEF h

(***************************************************************************)
(* The request is what the head was read as; the head does not change.     *)
(***************************************************************************)
RequestInv ==
  /\ input \in Inputs
  /\ request # NoRequest => request = parseRequestLine(input.head)

LEMMA InputKept == ASSUME [Next]_<<vars, scoreVars>> PROVE input' = input
<1>1. ASSUME UNCHANGED vars PROVE input' = input
  BY <1>1 DEF vars
<1>2. CASE ReadRequest \/ ReadRequestPanics \/ Route \/ AnswerUnparsed \/ FraudCount
           \/ FraudCountPanics \/ SearchCount \/ Ended \/ UNCHANGED <<vars, scoreVars>>
  BY <1>1, <1>2 DEF ReadRequest, ReadRequestPanics, Route, AnswerUnparsed, FraudCount,
                    FraudCountPanics, SearchCount, Ended
<1>3. CASE Parse
  BY <1>3 DEF Parse, ParseNext, Read, Fail, OpenPayload, ReadKey, ReadField, ReadLastField,
              ReadMerchant, ReadNull, SkipScalar, ReadScalar, OpenObject, OpenArray, Comma,
              CloseArray, CloseObject, Advance
<1> QED BY <1>2, <1>3 DEF Next

(***************************************************************************)
(* handleConn calls h with the path and the length that the head says, of  *)
(* every head that a client writes: any target, any number of fields, any  *)
(* blanks, and digits up to the largest int.                               *)
(***************************************************************************)
THEOREM HeadsReadRight == Spec => []HeadsAreRead
<1>1. Init => RequestInv
  BY DEF Init, ParseInit, RequestInv
<1>2. RequestInv /\ [Next]_<<vars, scoreVars>> => RequestInv'
  <2> SUFFICES ASSUME RequestInv, [Next]_<<vars, scoreVars>> PROVE RequestInv'
    OBVIOUS
  <2>1. input' = input
    BY InputKept
  <2>2. CASE ReadRequest
    <3>1. request' = parseRequestLine(input.head)
      BY <2>2 DEF ReadRequest
    <3> QED BY <2>1, <3>1 DEF RequestInv
  <2>3. CASE UNCHANGED request
    BY <2>1, <2>3 DEF RequestInv
  <2>4. ReadRequest \/ UNCHANGED request
    BY DEF Next, ReadRequestPanics, Route, Parse, AnswerUnparsed, FraudCount, FraudCountPanics,
           SearchCount, Ended, scoreVars
  <2> QED BY <2>2, <2>3, <2>4
<1>3. RequestInv => HeadsAreRead
  <2> SUFFICES ASSUME RequestInv, request # NoRequest, input.said # NoRecord,
                      AsClientsWrite(input.said)
               PROVE  request = [path |-> input.said.target, length |-> SaidLength(input.said)]
    BY DEF HeadsAreRead
  <2> DEFINE said == input.said
             h == HeadOf(said)
  <2>1. IsSaid(said) /\ input.head = h /\ request = parseRequestLine(h)
    BY HeadsAssumption DEF RequestInv
  <2>2. AsClientsWrite(said)
    OBVIOUS
  <2> HIDE DEF said
  <2>3. findContentLength(h) = SaidLength(said)
    BY <2>1, <2>2, LengthRead
  <2>4. SubSeq(h, PathStart(h), WordEnd(h, PathStart(h)) - 1) = said.target
    <3>1. PICK u : Lines(u, said) /\ h = u[Len(said.fields)] \o <<"\r\n">>
      BY <2>1, HeadIs
    <3> HIDE DEF h
    <3>2. h \in Seq(Words) /\ \A n \in 0 .. Len(said.fields) : Begins(h, u[n])
      BY <2>1, <3>1, HeadBegins
    <3>3. 0 \in 0 .. Len(said.fields)
      BY <2>1, LinesTyped
    <3>4. Begins(h, FirstLine(said))
      BY <3>1, <3>2, <3>3 DEF Lines
    <3> QED BY <2>1, <3>2, <3>4, PathRead
  <2> HIDE DEF h
  <2> QED BY <2>1, <2>3, <2>4 DEF parseRequestLine, said
<1> QED BY <1>1, <1>2, <1>3, PTL DEF Spec

-----------------------------------------------------------------------------
(***************************************************************************)
(* A step of the parser reads what is there.                               *)
(***************************************************************************)
LEMMA PeekInside == Peek.is # "end" /\ pos \in Nat /\ input \in Inputs => pos + 1 <= Len(input.tokens)
<1> SUFFICES ASSUME Peek.is # "end", pos \in Nat, input \in Inputs
             PROVE  pos + 1 <= Len(input.tokens)
  OBVIOUS
<1>1. Len(input.tokens) \in Nat
  BY InputsAssumption DEF IsBody
<1>2. pos < Len(input.tokens)
  BY DEF Peek
<1> QED BY <1>1, <1>2

(***************************************************************************)
(* No loop of the parser turns without reading: a step reads at least one  *)
(* token, and none behind the last, or ends with an error.  With a body of *)
(* n tokens there are no more than n + 1 steps.                            *)
(***************************************************************************)
THEOREM ParserAdvances ==
  Spec => [][ParseNext => \/ pos < pos' /\ pos' <= Len(input.tokens)
                          \/ outcome' = "error"]_<<vars, scoreVars>>
<1> DEFINE A == ParseNext => \/ pos < pos' /\ pos' <= Len(input.tokens)
                             \/ outcome' = "error"
<1>1. ScoreInv => A
  <2> SUFFICES ASSUME ScoreInv, ParseNext
               PROVE  \/ pos < pos' /\ pos' <= Len(input.tokens)
                      \/ outcome' = "error"
    OBVIOUS
  <2>1. pos \in Nat /\ input \in Inputs
    BY DEF ScoreInv, ParserTypeOK
  <2>2. ASSUME Advance(1), Peek.is # "end" PROVE pos < pos' /\ pos' <= Len(input.tokens)
    <3>1. pos' = pos + 1 /\ pos + 1 <= Len(input.tokens)
      BY <2>1, <2>2, PeekInside DEF Advance
    <3> QED BY <2>1, <3>1
  <2>3. ASSUME ReadScalar PROVE Advance(1) /\ Peek.is # "end"
    BY <2>3 DEF ReadScalar, Reads
  <2>4. CASE ReadKey
    BY <2>1, <2>4 DEF ReadKey, KeyComes, Advance
  <2>5. CASE OpenPayload \/ OpenObject \/ OpenArray \/ Comma \/ CloseArray \/ CloseObject
    <3>1. Advance(1) /\ Peek.is # "end"
      BY <2>5 DEF OpenPayload, OpenObject, OpenArray, Comma, CloseArray, CloseObject,
                  ObjectComes, ArrayComes, ArrayEnds, ObjectEnds
    <3> QED BY <2>2, <3>1
  <2>6. CASE ReadField \/ ReadLastField \/ ReadMerchant \/ ReadNull \/ SkipScalar
    <3>1. ReadScalar
      BY <2>6 DEF ReadField, ReadLastField, ReadMerchant, ReadNull, SkipScalar
    <3> QED BY <2>2, <2>3, <3>1
  <2>7. CASE Fail
    BY <2>7 DEF Fail
  <2> QED BY <2>4, <2>5, <2>6, <2>7 DEF ParseNext, Read
<1> HIDE DEF A
<1> QED BY <1>1, ScoresTyped, PTL DEF Spec, A

-----------------------------------------------------------------------------
(***************************************************************************)
(* What is read is JSON.  First its numbers.                               *)
(***************************************************************************)
LEMMA ReadIsSpelled ==
  ASSUME NEW b \in Seq(STRING), readsFloat(b)
  PROVE  Spellings(b) # {}
<1> DEFINE F == FloatStart(b)
           P == Point(b)
           E == FractionEnd(b)
           X == IF HasExponent(b) THEN ExponentStart(b) ELSE Len(b) + 1
           s == [first |-> F, int |-> P - 1, frac |-> E - 1, exp |-> X]
<1>0. Len(b) \in Nat
  OBVIOUS
<1>1. F \in 1 .. 2 /\ (F = 2 => b[1] \in {"-", "+"})
  BY DEF FloatStart, Is
<1>2. /\ P \in F .. (Len(b) + 1) /\ F < P
      /\ \A k \in F .. (P - 1) : IsDigit(b[k])
  BY FloatParts DEF Digits
<1>3. HasPoint(b) => /\ E \in (P + 1) .. (Len(b) + 1) /\ P + 1 < E /\ b[P] = "."
                     /\ \A k \in (P + 1) .. (E - 1) : IsDigit(b[k])
  BY FloatParts DEF Digits, HasPoint, Is
<1>4. ~ HasPoint(b) => E = P
  BY FloatParts
<1>5. E \in P .. (Len(b) + 1)
  BY <1>0, <1>1, <1>2, <1>3, <1>4
<1>6. HasExponent(b) => /\ E <= Len(b) /\ b[E] \in {"e", "E"}
                        /\ X \in 1 .. Len(b)
                        /\ X = E + 1 \/ (X = E + 2 /\ b[E + 1] \in {"-", "+"})
                        /\ \A k \in X .. Len(b) : IsDigit(b[k])
  <2> SUFFICES ASSUME HasExponent(b)
               PROVE  /\ E <= Len(b) /\ b[E] \in {"e", "E"}
                      /\ X \in 1 .. Len(b)
                      /\ X = E + 1 \/ (X = E + 2 /\ b[E + 1] \in {"-", "+"})
                      /\ \A k \in X .. Len(b) : IsDigit(b[k])
    OBVIOUS
  <2>1. E <= Len(b) /\ b[E] \in {"e", "E"}
    BY DEF HasExponent, Is
  <2>2. X = E + 1 \/ (X = E + 2 /\ b[E + 1] \in {"-", "+"})
    BY DEF ExponentStart, Is
  <2>3. X <= Len(b) /\ Digits(b, X, Len(b) + 1)
    BY FloatParts DEF readsFloat
  <2>4. X \in 1 .. Len(b)
    BY <1>0, <1>1, <1>2, <1>5, <2>2, <2>3
  <2>5. \A k \in X .. Len(b) : IsDigit(b[k])
    BY <1>0, <2>3, <2>4 DEF Digits
  <2> QED BY <2>1, <2>2, <2>4, <2>5
<1>7. ~ HasExponent(b) => E = Len(b) + 1
  BY DEF readsFloat, FloatEnd
<1> HIDE DEF F, P, E
<1>8. s \in [first : 1 .. 2, int : 1 .. Len(b), frac : 1 .. Len(b), exp : 1 .. (Len(b) + 2)]
  <2>1. P - 1 \in 1 .. Len(b) /\ E - 1 \in 1 .. Len(b)
    BY <1>0, <1>1, <1>2, <1>5
  <2>2. X \in 1 .. (Len(b) + 2)
    BY <1>0, <1>6
  <2> HIDE DEF X
  <2> QED BY <1>1, <2>1, <2>2
<1>9. AllDigits(b, F, P - 1)
  BY <1>0, <1>1, <1>2 DEF AllDigits
<1>10. E - 1 = P - 1 \/ (E - 1 > P /\ b[P] = "." /\ AllDigits(b, P + 1, E - 1))
  BY <1>0, <1>1, <1>2, <1>3, <1>4, <1>5 DEF AllDigits
<1>11. \/ E - 1 = Len(b) /\ X = Len(b) + 1
       \/ /\ E - 1 < Len(b) /\ b[E] \in {"e", "E"} /\ AllDigits(b, X, Len(b))
          /\ X = E + 1 \/ (X = E + 2 /\ b[E + 1] \in {"-", "+"})
  BY <1>0, <1>5, <1>6, <1>7 DEF AllDigits
<1>12. P - 1 + 1 = P /\ P - 1 + 2 = P + 1 /\ E - 1 + 1 = E /\ E - 1 + 2 = E + 1 /\ E - 1 + 3 = E + 2
  BY <1>0, <1>1, <1>2, <1>5
<1> HIDE DEF X
<1>13. s \in Spellings(b)
  BY <1>1, <1>8, <1>9, <1>10, <1>11, <1>12 DEF Spellings
<1> QED BY <1>13

LEMMA SpelledIsRead ==
  ASSUME NEW b \in Seq(STRING), NEW s \in Spellings(b)
  PROVE  readsFloat(b)
<1>0. Len(b) \in Nat
  OBVIOUS
<1>1. /\ s.first \in 1 .. 2 /\ s.int \in 1 .. Len(b) /\ s.frac \in 1 .. Len(b)
      /\ s.exp \in 1 .. (Len(b) + 2) /\ s.first <= s.int
      /\ s.first = 2 => b[1] \in {"-", "+"}
  BY DEF Spellings, AllDigits
<1>2. \A k \in s.first .. s.int : IsDigit(b[k])
  BY DEF Spellings, AllDigits
<1>3. \/ s.frac = s.int
      \/ /\ s.frac > s.int + 1 /\ b[s.int + 1] = "."
         /\ \A k \in (s.int + 2) .. s.frac : IsDigit(b[k])
  BY DEF Spellings, AllDigits
<1>4. \/ s.frac = Len(b) /\ s.exp = Len(b) + 1
      \/ /\ s.frac < Len(b) /\ b[s.frac + 1] \in {"e", "E"}
         /\ s.exp <= Len(b) /\ \A k \in s.exp .. Len(b) : IsDigit(b[k])
         /\ \/ s.exp = s.frac + 2
            \/ s.exp = s.frac + 3 /\ b[s.frac + 2] \in {"-", "+"}
  BY DEF Spellings, AllDigits
<1>5. \A c : c \in {".", "e", "E", "-", "+"} => ~ IsDigit(c)
  BY DEF IsDigit, Digit
<1>6. FloatStart(b) = s.first
  <2>1. CASE s.first = 2
    BY <1>0, <1>1, <2>1 DEF FloatStart, Is
  <2>2. CASE s.first = 1
    <3>1. IsDigit(b[1])
      BY <1>0, <1>1, <1>2, <2>2
    <3> QED BY <1>5, <2>2, <3>1 DEF FloatStart, Is
  <2> QED BY <1>1, <2>1, <2>2
<1>7. Point(b) = s.int + 1
  <2> DEFINE i == s.first
             j == s.int + 1
  <2>1. i \in Nat /\ j \in i .. (Len(b) + 1)
    BY <1>0, <1>1
  <2>2. \A k \in i .. (j - 1) : IsDigit(b[k])
    BY <1>1, <1>2
  <2>3. j = Len(b) + 1 \/ ~ IsDigit(b[j])
    BY <1>0, <1>1, <1>3, <1>4, <1>5
  <2> HIDE DEF i, j
  <2>4. DigitsEnd(b, i) = j
    BY <1>0, <2>1, <2>2, <2>3, EndsAre
  <2> QED BY <1>6, <2>4 DEF Point, i, j
<1>8. HasPoint(b) <=> s.frac # s.int
  <2>1. CASE s.frac = s.int
    <3>1. s.int + 1 <= Len(b) => b[s.int + 1] # "."
      BY <1>0, <1>1, <1>4, <2>1
    <3> QED BY <1>7, <2>1, <3>1 DEF HasPoint, Is
  <2>2. CASE s.frac # s.int
    BY <1>0, <1>1, <1>3, <1>7, <2>2 DEF HasPoint, Is
  <2> QED BY <2>1, <2>2
<1>9. FractionEnd(b) = s.frac + 1
  <2>1. CASE s.frac = s.int
    BY <1>7, <1>8, <2>1 DEF FractionEnd
  <2>2. CASE s.frac # s.int
    <3> DEFINE i == s.int + 2
               j == s.frac + 1
    <3>1. i \in Nat /\ j \in i .. (Len(b) + 1)
      BY <1>0, <1>1, <1>3, <2>2
    <3>2. \A k \in i .. (j - 1) : IsDigit(b[k])
      BY <1>1, <1>3, <2>2
    <3>3. j = Len(b) + 1 \/ ~ IsDigit(b[j])
      BY <1>0, <1>1, <1>4, <1>5
    <3>4. Point(b) + 1 = i /\ FractionEnd(b) = DigitsEnd(b, Point(b) + 1)
      BY <1>1, <1>7, <1>8, <2>2 DEF FractionEnd
    <3> HIDE DEF i, j
    <3>5. DigitsEnd(b, i) = j
      BY <1>0, <3>1, <3>2, <3>3, EndsAre
    <3> QED BY <3>4, <3>5 DEF j
  <2> QED BY <2>1, <2>2
<1>10. HasPoint(b) => Point(b) + 1 < FractionEnd(b)
  BY <1>1, <1>3, <1>7, <1>8, <1>9
<1>11. HasExponent(b) <=> s.frac < Len(b)
  BY <1>0, <1>1, <1>4, <1>9 DEF HasExponent, Is
<1>12. CASE s.frac = Len(b)
  BY <1>0, <1>1, <1>6, <1>7, <1>9, <1>10, <1>11, <1>12 DEF readsFloat, FloatEnd
<1>13. CASE s.frac < Len(b)
  <2>1. ExponentStart(b) = s.exp
    <3>1. s.exp = s.frac + 2 => s.frac + 2 <= Len(b) /\ IsDigit(b[s.frac + 2])
      BY <1>0, <1>1, <1>4, <1>13
    <3>2. FractionEnd(b) + 1 = s.frac + 2 /\ s.frac + 3 = s.frac + 1 + 2 /\ s.frac + 2 = s.frac + 1 + 1
      BY <1>1, <1>9
    <3>3. CASE s.exp = s.frac + 2
      <4>1. ~ Is(b, FractionEnd(b) + 1, {"-", "+"})
        BY <1>5, <3>1, <3>2, <3>3 DEF Is
      <4> QED BY <1>9, <3>2, <3>3, <4>1 DEF ExponentStart
    <3>4. CASE s.exp = s.frac + 3 /\ b[s.frac + 2] \in {"-", "+"}
      <4>1. s.frac + 2 <= Len(b)
        BY <1>0, <1>1, <1>4, <1>13, <3>4
      <4>2. Is(b, FractionEnd(b) + 1, {"-", "+"})
        BY <3>2, <3>4, <4>1 DEF Is
      <4> QED BY <1>9, <3>2, <3>4, <4>2 DEF ExponentStart
    <3> QED BY <1>0, <1>1, <1>4, <1>13, <3>3, <3>4
  <2>2. FloatEnd(b) = Len(b) + 1
    <3> DEFINE i == s.exp
               j == Len(b) + 1
    <3>1. i \in Nat /\ j \in i .. (Len(b) + 1) /\ \A k \in i .. (j - 1) : IsDigit(b[k])
      BY <1>0, <1>1, <1>4, <1>13
    <3>2. FloatEnd(b) = DigitsEnd(b, i)
      BY <1>11, <1>13, <2>1 DEF FloatEnd
    <3> HIDE DEF i
    <3>3. DigitsEnd(b, i) = j
      BY <1>0, <3>1, EndsAre
    <3> QED BY <3>2, <3>3
  <2>3. s.exp <= Len(b) /\ s.exp < Len(b) + 1
    BY <1>0, <1>1, <1>4, <1>13
  <2> QED BY <1>1, <1>6, <1>7, <1>10, <2>1, <2>2, <2>3 DEF readsFloat
<1> QED BY <1>0, <1>1, <1>12, <1>13

(***************************************************************************)
(* readFloat with parseFloat32Bytes accepts what the grammar spells as a   *)
(* number, and nothing else; and what readInt accepts is such a number.    *)
(***************************************************************************)
THEOREM NumbersAreSpelled ==
  \A b \in Seq(STRING) : /\ readsFloat(b) <=> Spellings(b) # {}
                         /\ readsInt(b) => readsFloat(b)
<1> SUFFICES ASSUME NEW b \in Seq(STRING)
             PROVE  /\ readsFloat(b) <=> Spellings(b) # {}
                    /\ readsInt(b) => readsFloat(b)
  OBVIOUS
<1>1. readsFloat(b) <=> Spellings(b) # {}
  BY ReadIsSpelled, SpelledIsRead
<1>2. ASSUME readsInt(b) PROVE readsFloat(b)
  <2>0. Len(b) \in Nat
    OBVIOUS
  <2>1. IntStart(b) \in 1 .. 2 /\ IntStart(b) <= Len(b)
    BY <1>2 DEF readsInt, IntStart
  <2>2. DigitsEnd(b, IntStart(b)) = Len(b) + 1
    BY <1>2 DEF readsInt
  <2>3. IsDigit(b[IntStart(b)])
    <3> DEFINE i == IntStart(b)
    <3>1. i \in 1 .. (Len(b) + 1)
      BY <2>0, <2>1
    <3> HIDE DEF i
    <3>2. \A k \in i .. (DigitsEnd(b, i) - 1) : IsDigit(b[k])
      BY <3>1, DigitsEndIs
    <3>3. i \in i .. (DigitsEnd(b, i) - 1)
      BY <2>0, <2>1, <2>2, <3>1 DEF i
    <3> QED BY <3>2, <3>3 DEF i
  <2>4. FloatStart(b) = IntStart(b)
    <3>1. ~ IsDigit("+")
      BY DEF IsDigit, Digit
    <3> QED BY <2>3, <3>1 DEF FloatStart, IntStart, Is
  <2>5. Point(b) = Len(b) + 1
    BY <2>2, <2>4 DEF Point
  <2>6. ~ HasPoint(b) /\ FractionEnd(b) = Len(b) + 1
    BY <2>0, <2>5 DEF HasPoint, FractionEnd, Is
  <2>7. ~ HasExponent(b) /\ FloatEnd(b) = Len(b) + 1
    BY <2>0, <2>6 DEF HasExponent, FloatEnd, Is
  <2> QED BY <2>0, <2>1, <2>4, <2>5, <2>6, <2>7 DEF readsFloat
<1> QED BY <1>1, <1>2

(***************************************************************************)
(* The grammar by its rules.  First the chart that Derived fills: d[n] is  *)
(* what is known to end at n or before.                                    *)
(***************************************************************************)
Lists == Arrays \union Objects
Spans == {"value", "list"} \X (Types \union Lists) \X Nat \X Nat

Chart(d, ts) ==
  /\ d \in [0 .. Len(ts) -> SUBSET Spans] /\ d[0] = {}
  /\ \A n \in 1 .. Len(ts) : d[n] = d[n - 1] \union Ending(ts, n, d[n - 1])

LEMMA StartsType ==
  ASSUME NEW ts, NEW known
  PROVE  /\ \A as, n, i : i \in ValueStarts(ts, as, n, known) => i \in 0 .. (n - 1)
         /\ \A of, as, v, i : i \in ListStarts(ts, of, as, v, known)
                                => i \in 0 .. (v - 1) \/ i \in 0 .. (v - 3)
<1>1. \A as, n, i : i \in ValueStarts(ts, as, n, known) => i \in 0 .. (n - 1)
  BY Zenon DEF ValueStarts
<1>2. ASSUME NEW of, NEW as, NEW v, NEW i, i \in ListStarts(ts, of, as, v, known)
      PROVE  i \in 0 .. (v - 1) \/ i \in 0 .. (v - 3)
  <2>1. CASE of \in Arrays
    BY Zenon, <1>2, <2>1 DEF ListStarts
  <2>2. CASE of \notin Arrays
    BY Zenon, <1>2, <2>2 DEF ListStarts
  <2> QED BY <2>1, <2>2
<1> QED BY <1>1, <1>2

LEMMA EndingIs ==
  ASSUME NEW ts, NEW n, NEW known, NEW y
  PROVE  y \in Ending(ts, n, known)
         <=> \E as \in Types : \E v \in ValueStarts(ts, as, n, known) :
               \/ y = <<"value", as, v, n>>
               \/ \E of \in Lists : \E i \in ListStarts(ts, of, as, v, known) :
                    y = <<"list", of, i, n>>
<1> DEFINE Begun(as) == {<<as, i>> : i \in ValueStarts(ts, as, n, known)}
           values == UNION {Begun(as) : as \in Types}
           Behind(x, of) == {<<"list", of, i, n>> : i \in ListStarts(ts, of, x[1], x[2], known)}
           OfLists(x) == UNION {Behind(x, of) : of \in Lists}
           Derives(as, v) == \/ y = <<"value", as, v, n>>
                             \/ \E of \in Lists : \E i \in ListStarts(ts, of, as, v, known) :
                                  y = <<"list", of, i, n>>
<1>1. \A x : x \in values <=> \E as \in Types : x \in Begun(as)
  <2> HIDE DEF Begun
  <2> QED OBVIOUS
<1>2. \A x : x \in values <=> \E as \in Types : \E v \in ValueStarts(ts, as, n, known) : x = <<as, v>>
  BY Zenon, <1>1
<1>3. Ending(ts, n, known) = {<<"value", x[1], x[2], n>> : x \in values}
                             \union UNION {OfLists(x) : x \in values}
  BY Zenon DEF Ending, Lists
<1>4. \A x : y \in OfLists(x) <=> \E of \in Lists : y \in Behind(x, of)
  <2> HIDE DEF Behind
  <2> QED OBVIOUS
<1>5. \A x, of : y \in Behind(x, of)
                 <=> \E i \in ListStarts(ts, of, x[1], x[2], known) : y = <<"list", of, i, n>>
  BY Zenon
<1> HIDE DEF values, OfLists, Behind
<1>6. y \in UNION {OfLists(x) : x \in values} <=> \E x \in values : y \in OfLists(x)
  OBVIOUS
<1>7. y \in Ending(ts, n, known) <=> \E x \in values : Derives(x[1], x[2])
  BY Zenon, <1>3, <1>4, <1>5, <1>6
<1> HIDE DEF Derives
<1>8. \A as, v : Derives(<<as, v>>[1], <<as, v>>[2]) <=> Derives(as, v)
  OBVIOUS
<1>9. y \in Ending(ts, n, known)
      <=> \E as \in Types : \E v \in ValueStarts(ts, as, n, known) : Derives(as, v)
  BY <1>2, <1>7, <1>8
<1> QED BY <1>9 DEF Derives

LEMMA EndingType ==
  ASSUME NEW ts, NEW n \in Nat, NEW known
  PROVE  Ending(ts, n, known) \subseteq Spans
<1> SUFFICES ASSUME NEW y \in Ending(ts, n, known) PROVE y \in Spans
  OBVIOUS
<1>1. PICK as \in Types : \E v \in ValueStarts(ts, as, n, known) :
        \/ y = <<"value", as, v, n>>
        \/ \E of \in Lists : \E i \in ListStarts(ts, of, as, v, known) : y = <<"list", of, i, n>>
  BY EndingIs
<1>2. PICK v \in ValueStarts(ts, as, n, known) :
        \/ y = <<"value", as, v, n>>
        \/ \E of \in Lists : \E i \in ListStarts(ts, of, as, v, known) : y = <<"list", of, i, n>>
  BY <1>1
<1>3. v \in Nat
  <2>1. v \in 0 .. (n - 1)
    BY Zenon, <1>2, StartsType
  <2> QED BY <2>1
<1>4. CASE y = <<"value", as, v, n>>
  BY Zenon, <1>1, <1>3, <1>4 DEF Spans
<1>5. ASSUME NEW of \in Lists, NEW i \in ListStarts(ts, of, as, v, known), y = <<"list", of, i, n>>
      PROVE  y \in Spans
  <2>1. i \in 0 .. (v - 1) \/ i \in 0 .. (v - 3)
    BY Zenon, <1>5, StartsType
  <2>2. i \in Nat
    BY <1>3, <2>1
  <2> QED BY Zenon, <1>5, <2>2 DEF Spans
<1> QED BY <1>2, <1>4, <1>5
LEMMA DerivedIs ==
  ASSUME NEW ts, Len(ts) \in Nat
  PROVE  \E d : Chart(d, ts) /\ Derived(ts) = d[Len(ts)]
<1> DEFINE hi == Len(ts)
           V == SUBSET Spans
           Next1(n, known) == known \union Ending(ts, n, known)
           Eq(u) == u = [n \in 0 .. hi |->
                           IF n = 0 THEN {} ELSE LET known == u[n - 1] IN known \union Ending(ts, n, known)]
           w == CHOOSE u : Eq(u)
           step == [n \in 1 .. hi |-> [s \in V |-> Next1(n, s)]]
<1>0. Derived(ts) = w[hi]
  BY DEF Derived
<1>1. hi \in Nat /\ {} \in V /\ \A n \in 1 .. hi : \A s \in V : Next1(n, s) \in V
  BY EndingType
<1> HIDE DEF hi, V, Next1
<1>2. PICK lo \in Int : lo = 0 /\ lo + 1 = 1
  OBVIOUS
<1>3. Steps(step, lo, hi, V)
  BY <1>1, <1>2 DEF Steps
<1>4. PICK g : Recursion(g, {}, step, lo, hi, V)
  <2> HIDE DEF step
  <2> QED BY <1>1, <1>2, <1>3, RecursionExists
<1>5. /\ g \in [0 .. hi -> V] /\ g[0] = {}
      /\ \A n \in 1 .. hi : g[n] = Next1(n, g[n - 1])
  <2>1. \A n \in 1 .. hi : n - 1 \in 0 .. hi
    BY <1>1
  <2>2. g \in [0 .. hi -> V] /\ g[0] = {} /\ \A n \in 1 .. hi : g[n] = step[n][g[n - 1]]
    BY <1>1, <1>2, <1>4 DEF Recursion
  <2> QED BY <2>1, <2>2
<1>6. \A n \in 0 .. hi : n # 0 => n \in 1 .. hi
  BY <1>1
<1>7. Eq(g)
  BY <1>5, <1>6 DEF Next1
<1>8. Eq(w)
  <2> HIDE DEF Eq
  <2> QED BY <1>7
<1> HIDE DEF w
<1>9. \A n \in 0 .. hi : w[n] = IF n = 0 THEN {} ELSE Next1(n, w[n - 1])
  BY <1>8 DEF Next1
<1>10. w[0] = {} /\ \A n \in 1 .. hi : w[n] = Next1(n, w[n - 1])
  <2>1. 0 \in 0 .. hi /\ \A n \in 1 .. hi : n \in 0 .. hi /\ n # 0
    BY <1>1
  <2> QED BY <1>9, <2>1
<1>11. \A n \in 0 .. hi : w[n] \in V
  <2> DEFINE T == {n \in 0 .. hi : w[n] \in V}
  <2>1. lo \in T
    <3>1. w[lo] = {} /\ lo \in 0 .. hi
      BY <1>1, <1>2, <1>10
    <3> QED BY <1>1, <3>1
  <2>2. ASSUME NEW n \in lo .. (hi - 1), n \in T PROVE n + 1 \in T
    <3>1. PICK m \in 1 .. hi : m = n + 1
      BY <1>1, <1>2
    <3>2. m - 1 = n /\ m \in 0 .. hi
      BY <1>1, <1>2, <3>1
    <3>3. w[m] = Next1(m, w[n]) /\ w[n] \in V
      BY <1>10, <2>2, <3>2
    <3>4. w[m] \in V
      BY <1>1, <3>3
    <3> QED BY <3>1, <3>2, <3>4
  <2>3. lo .. hi \subseteq T
    <3>1. lo \in Int /\ hi \in Int
      BY <1>1, <1>2
    <3> HIDE DEF T
    <3> QED BY <2>1, <2>2, <3>1, IntervalInduction
  <2> QED BY <1>2, <2>3
<1>12. w \in [0 .. hi -> V]
  <2>1. w = [n \in 0 .. hi |-> w[n]]
    BY <1>8
  <2> QED BY <1>11, <2>1
<1>13. Chart(w, ts)
  BY <1>10, <1>12 DEF Chart, hi, Next1, V
<1> QED BY <1>0, <1>13 DEF hi

LEMMA ChartGrows ==
  ASSUME NEW ts, Len(ts) \in Nat, NEW d, Chart(d, ts),
         NEW i \in 0 .. Len(ts), NEW j \in i .. Len(ts)
  PROVE  d[i] \subseteq d[j]
<1> DEFINE hi == Len(ts)
           T == {n \in i .. hi : d[i] \subseteq d[n]}
<1>1. i \in Int /\ hi \in Int /\ i \in T
  OBVIOUS
<1>2. ASSUME NEW n \in i .. (hi - 1), n \in T PROVE n + 1 \in T
  <2>1. PICK m \in 1 .. hi : m = n + 1
    OBVIOUS
  <2>2. m - 1 = n /\ m \in i .. hi
    BY <2>1
  <2>3. d[n] \subseteq d[m]
    BY <2>2 DEF Chart
  <2> QED BY <1>2, <2>1, <2>2, <2>3
<1>3. i .. hi \subseteq T
  <2> HIDE DEF T, hi
  <2> QED BY <1>1, <1>2, IntervalInduction
<1> QED BY <1>3


\* What ends at m is known from m on, and not before.
LEMMA KnownSince ==
  ASSUME NEW ts, Len(ts) \in Nat, NEW d, Chart(d, ts),
         NEW n \in 0 .. Len(ts), NEW y \in d[n]
  PROVE  y[4] \in 1 .. n /\ y \in Ending(ts, y[4], d[y[4] - 1])
<1> DEFINE hi == Len(ts)
           At4(x, m) == x[4] \in 1 .. m /\ x \in Ending(ts, x[4], d[x[4] - 1])
           T == {m \in 0 .. hi : \A x \in d[m] : At4(x, m)}
<1>1. hi \in Nat /\ d[0] = {} /\ 0 \in T
  BY DEF Chart
<1>2. ASSUME NEW m \in 0 .. (hi - 1), m \in T PROVE m + 1 \in T
  <2>1. m + 1 \in 1 .. hi /\ m + 1 - 1 = m /\ m + 1 \in 0 .. hi
    BY <1>1
  <2>2. d[m + 1] = d[m] \union Ending(ts, m + 1, d[m])
    <3>1. PICK k \in 1 .. hi : k = m + 1 /\ k - 1 = m
      BY <2>1
    <3> QED BY <3>1 DEF Chart
  <2>3. ASSUME NEW x \in d[m] PROVE At4(x, m + 1)
    <3>1. At4(x, m)
      BY <1>2
    <3> QED BY <3>1
  <2>4. ASSUME NEW x \in Ending(ts, m + 1, d[m]) PROVE At4(x, m + 1)
    <3>1. x[4] = m + 1
      <4>1. PICK as \in Types : \E v \in ValueStarts(ts, as, m + 1, d[m]) :
              \/ x = <<"value", as, v, m + 1>>
              \/ \E of \in Lists : \E i \in ListStarts(ts, of, as, v, d[m]) :
                   x = <<"list", of, i, m + 1>>
        BY EndingIs
      <4>2. PICK v, kind, of, i : x = <<kind, of, i, m + 1>>
        BY Zenon, <4>1
      <4> QED BY <4>2
    <3> QED BY <2>1, <2>4, <3>1
  <2> HIDE DEF At4
  <2> QED BY <2>1, <2>2, <2>3, <2>4
<1>3. 0 .. hi \subseteq T
  <2> HIDE DEF T, hi
  <2> QED BY <1>1, <1>2, IntervalInduction
<1>4. n \in T
  BY <1>3
<1> QED BY <1>4

LEMMA KnownBefore ==
  ASSUME NEW ts, Len(ts) \in Nat, NEW d, Chart(d, ts), NEW n \in 1 .. Len(ts),
         NEW y, y[4] < n
  PROVE  y \in d[n - 1] <=> y \in d[Len(ts)]
<1> DEFINE hi == Len(ts)
<1>1. hi \in Nat /\ n - 1 \in 0 .. hi /\ hi \in (n - 1) .. hi /\ hi \in 0 .. hi
  <2> HIDE DEF hi
  <2> SUFFICES ASSUME hi \in Nat, n \in 1 .. hi
               PROVE  n - 1 \in 0 .. hi /\ hi \in (n - 1) .. hi /\ hi \in 0 .. hi
    BY DEF hi
  <2> QED OBVIOUS
<1> HIDE DEF hi
<1>2. d[n - 1] \subseteq d[hi]
  <2> USE DEF hi
  <2> QED BY <1>1, ChartGrows
<1>3. ASSUME y \in d[hi] PROVE y \in d[n - 1]
  <2>1. y[4] \in 1 .. hi /\ y \in Ending(ts, y[4], d[y[4] - 1])
    BY <1>1, <1>3, KnownSince DEF hi
  <2> DEFINE m == y[4]
  <2>2. m \in 1 .. hi /\ m \in 0 .. hi /\ n - 1 \in m .. hi /\ y \in Ending(ts, m, d[m - 1])
    BY <1>1, <2>1
  <2> HIDE DEF m
  <2>3. y \in d[m]
    BY <2>2 DEF Chart, hi
  <2>4. d[m] \subseteq d[n - 1]
    <3> USE DEF hi
    <3> QED BY <1>1, <2>2, ChartGrows
  <2> QED BY <2>3, <2>4
<1> QED BY <1>2, <1>3 DEF hi

LEMMA StartsKnown ==
  ASSUME NEW ts, NEW n \in Nat, NEW known, NEW more,
         \A kind, x, i : \A m \in Int : m < n => (<<kind, x, i, m>> \in known <=> <<kind, x, i, m>> \in more)
  PROVE  /\ \A as : ValueStarts(ts, as, n, known) = ValueStarts(ts, as, n, more)
         /\ \A of, as : \A v \in 0 .. (n - 1) :
              ListStarts(ts, of, as, v, known) = ListStarts(ts, of, as, v, more)
<1>1. /\ \A of, i : <<"list", of, i, n - 1>> \in known <=> <<"list", of, i, n - 1>> \in more
      /\ \A of, i : <<"list", of, i, n - 2>> \in known <=> <<"list", of, i, n - 2>> \in more
  <2>1. n - 1 \in Int /\ n - 1 < n /\ n - 2 \in Int /\ n - 2 < n
    OBVIOUS
  <2> QED BY Zenon, <2>1
<1>2. ASSUME NEW v \in 0 .. (n - 1)
      PROVE  /\ \A of, i : <<"list", of, i, v - 1>> \in known <=> <<"list", of, i, v - 1>> \in more
             /\ \A of, i : <<"list", of, i, v - 3>> \in known <=> <<"list", of, i, v - 3>> \in more
  <2>1. v - 1 \in Int /\ v - 1 < n /\ v - 3 \in Int /\ v - 3 < n
    OBVIOUS
  <2> QED BY Zenon, <2>1
<1>3. ASSUME NEW as PROVE ValueStarts(ts, as, n, known) = ValueStarts(ts, as, n, more)
  BY Zenon, <1>1 DEF ValueStarts
<1>4. ASSUME NEW of, NEW as, NEW v \in 0 .. (n - 1)
      PROVE  ListStarts(ts, of, as, v, known) = ListStarts(ts, of, as, v, more)
  <2>1. CASE of \in Arrays
    BY Zenon, <1>2, <2>1 DEF ListStarts
  <2>2. CASE of \notin Arrays
    BY Zenon, <1>2, <2>2 DEF ListStarts
  <2> QED BY <2>1, <2>2
<1> QED BY <1>3, <1>4

(***************************************************************************)
(* The rules: what ValueStarts and ListStarts say holds of Derived.        *)
(***************************************************************************)
IsValue(ts, as, i, n) == <<"value", as, i, n>> \in Derived(ts)
IsList(ts, of, i, n)  == <<"list", of, i, n>> \in Derived(ts)

LEMMA DerivedRule ==
  ASSUME NEW ts, Len(ts) \in Nat
  PROVE  /\ \A y \in Derived(ts) : y[4] \in 1 .. Len(ts)
         /\ \A n \in 1 .. Len(ts) : \A y : y[4] = n =>
              (y \in Derived(ts)
               <=> \E as \in Types : \E v \in ValueStarts(ts, as, n, Derived(ts)) :
                     \/ y = <<"value", as, v, n>>
                     \/ \E of \in Lists : \E i \in ListStarts(ts, of, as, v, Derived(ts)) :
                          y = <<"list", of, i, n>>)
<1> DEFINE hi == Len(ts)
           D == Derived(ts)
           By(y, n, as, v, known) ==
             \/ y = <<"value", as, v, n>>
             \/ \E of \in Lists : \E i \in ListStarts(ts, of, as, v, known) : y = <<"list", of, i, n>>
           From(y, n, known) ==
             \E as \in Types : \E v \in ValueStarts(ts, as, n, known) : By(y, n, as, v, known)
<1>1. PICK d : Chart(d, ts) /\ D = d[hi]
  BY DerivedIs
<1>2. hi \in Nat /\ hi \in 0 .. hi
  <2> HIDE DEF hi
  <2> SUFFICES ASSUME hi \in Nat PROVE hi \in 0 .. hi
    BY DEF hi
  <2> QED OBVIOUS
<1>3. \A y \in D : y[4] \in 1 .. hi /\ y \in Ending(ts, y[4], d[y[4] - 1])
  <2> HIDE DEF D
  <2> QED BY <1>1, <1>2, KnownSince
<1>4. ASSUME NEW n \in 1 .. hi, NEW y, y[4] = n
      PROVE  y \in D <=> From(y, n, D)
  <2>1. \A kind, x, i : \A m \in Int : m < n =>
          (<<kind, x, i, m>> \in d[n - 1] <=> <<kind, x, i, m>> \in D)
    <3> SUFFICES ASSUME NEW kind, NEW x, NEW i, NEW m \in Int, m < n
                 PROVE  <<kind, x, i, m>> \in d[n - 1] <=> <<kind, x, i, m>> \in D
      OBVIOUS
    <3> DEFINE z == <<kind, x, i, m>>
    <3>1. z[4] < n
      OBVIOUS
    <3> HIDE DEF z, D
    <3>2. z \in d[n - 1] <=> z \in d[Len(ts)]
      BY <1>1, <3>1, KnownBefore
    <3> QED BY <1>1, <3>2 DEF z
  <2>2. /\ \A as : ValueStarts(ts, as, n, d[n - 1]) = ValueStarts(ts, as, n, D)
        /\ \A of, as : \A v \in 0 .. (n - 1) :
             ListStarts(ts, of, as, v, d[n - 1]) = ListStarts(ts, of, as, v, D)
    <3> HIDE DEF D
    <3>1. n \in Nat
      BY <1>2
    <3> QED BY <2>1, <3>1, StartsKnown
  <2>3. \A as, v : v \in ValueStarts(ts, as, n, D) => v \in 0 .. (n - 1)
    BY Zenon, StartsType
  <2>4. From(y, n, d[n - 1]) <=> From(y, n, D)
    <3>1. \A as : \A v \in ValueStarts(ts, as, n, D) : By(y, n, as, v, d[n - 1]) <=> By(y, n, as, v, D)
      <4> SUFFICES ASSUME NEW as, NEW v \in ValueStarts(ts, as, n, D)
                   PROVE  By(y, n, as, v, d[n - 1]) <=> By(y, n, as, v, D)
        OBVIOUS
      <4>1. \A of : ListStarts(ts, of, as, v, d[n - 1]) = ListStarts(ts, of, as, v, D)
        BY <2>2, <2>3
      <4> QED BY Zenon, <4>1
    <3> HIDE DEF By, D
    <3> QED BY <2>2, <3>1
  <2>5. y \in Ending(ts, n, d[n - 1]) <=> From(y, n, d[n - 1])
    BY EndingIs
  <2>6. y \in D => y \in Ending(ts, n, d[n - 1])
    BY <1>3, <1>4
  <2>7. y \in Ending(ts, n, d[n - 1]) => y \in D
    <3>1. d[n] = d[n - 1] \union Ending(ts, n, d[n - 1])
      BY <1>1, <1>4 DEF Chart
    <3>2. n \in 0 .. hi /\ hi \in n .. hi
      BY <1>2
    <3>3. d[n] \subseteq d[hi]
      BY <1>1, <1>2, <3>2, ChartGrows
    <3> HIDE DEF D
    <3> QED BY <1>1, <3>1, <3>3
  <2> HIDE DEF From, D
  <2> QED BY <2>4, <2>5, <2>6, <2>7
<1> HIDE DEF D
<1> QED BY <1>3, <1>4 DEF D

LEMMA ValueRule ==
  ASSUME NEW ts, Len(ts) \in Nat, NEW as, NEW i, NEW n
  PROVE  IsValue(ts, as, i, n)
         <=> n \in 1 .. Len(ts) /\ as \in Types /\ i \in ValueStarts(ts, as, n, Derived(ts))
<1> DEFINE y == <<"value", as, i, n>>
<1>1. y[4] = n /\ \A of, j : y # <<"list", of, j, n>>
  BY SMT
<1>2. \A bs, v : y = <<"value", bs, v, n>> <=> bs = as /\ v = i
  <2> SUFFICES ASSUME NEW bs, NEW v, y = <<"value", bs, v, n>> PROVE bs = as /\ v = i
    OBVIOUS
  <2>1. y[2] = as /\ y[3] = i /\ y[2] = bs /\ y[3] = v
    OBVIOUS
  <2> QED BY <2>1
<1> HIDE DEF y
<1>3. y \in Derived(ts) => n \in 1 .. Len(ts)
  BY <1>1, DerivedRule
<1>4. ASSUME n \in 1 .. Len(ts)
      PROVE  y \in Derived(ts) <=> as \in Types /\ i \in ValueStarts(ts, as, n, Derived(ts))
  <2>1. y \in Derived(ts)
        <=> \E bs \in Types : \E v \in ValueStarts(ts, bs, n, Derived(ts)) :
              \/ y = <<"value", bs, v, n>>
              \/ \E of \in Lists : \E j \in ListStarts(ts, of, bs, v, Derived(ts)) :
                   y = <<"list", of, j, n>>
    BY <1>1, <1>4, DerivedRule
  <2> QED BY Zenon, <1>1, <1>2, <2>1
<1> QED BY Zenon, <1>3, <1>4 DEF y, IsValue

LEMMA ListRule ==
  ASSUME NEW ts, Len(ts) \in Nat, NEW of, NEW i, NEW n
  PROVE  IsList(ts, of, i, n)
         <=> /\ n \in 1 .. Len(ts) /\ of \in Lists
             /\ \E as \in Types : \E v : /\ IsValue(ts, as, v, n)
                                         /\ i \in ListStarts(ts, of, as, v, Derived(ts))
<1> DEFINE y == <<"list", of, i, n>>
<1>1. y[4] = n /\ \A as, v : y # <<"value", as, v, n>>
  BY SMT
<1>2. \A o, j : y = <<"list", o, j, n>> <=> o = of /\ j = i
  <2> SUFFICES ASSUME NEW o, NEW j, y = <<"list", o, j, n>> PROVE o = of /\ j = i
    OBVIOUS
  <2>1. y[2] = of /\ y[3] = i /\ y[2] = o /\ y[3] = j
    OBVIOUS
  <2> QED BY <2>1
<1> HIDE DEF y
<1>3. y \in Derived(ts) => n \in 1 .. Len(ts)
  BY <1>1, DerivedRule
<1>4. ASSUME n \in 1 .. Len(ts)
      PROVE  y \in Derived(ts)
             <=> /\ of \in Lists
                 /\ \E as \in Types : \E v : /\ IsValue(ts, as, v, n)
                                             /\ i \in ListStarts(ts, of, as, v, Derived(ts))
  <2>1. y \in Derived(ts)
        <=> \E bs \in Types : \E v \in ValueStarts(ts, bs, n, Derived(ts)) :
              \/ y = <<"value", bs, v, n>>
              \/ \E o \in Lists : \E j \in ListStarts(ts, o, bs, v, Derived(ts)) :
                   y = <<"list", o, j, n>>
    BY <1>1, <1>4, DerivedRule
  <2>2. \A as \in Types : \A v : IsValue(ts, as, v, n) <=> v \in ValueStarts(ts, as, n, Derived(ts))
    BY <1>4, ValueRule
  <2> QED BY Zenon, <1>1, <1>2, <2>1, <2>2
<1> QED BY Zenon, <1>3, <1>4 DEF y, IsList

(***************************************************************************)
(* The stack, with a position for each frame.  links says what holds of a  *)
(* frame, its position, what the frame above it is, and the position of    *)
(* that one; bottom, of what the lowest frame is, and its position.        *)
(***************************************************************************)
Linked(s, c, links, bottom) ==
  /\ c \in Seq(Nat) /\ Len(c) = Len(s)
  /\ <<s[Len(s)].of, c[Len(s)]>> \in bottom
  /\ \A k \in 2 .. Len(s) : <<s[k], c[k], s[k - 1].of, c[k - 1]>> \in links

LEMMA LinkedMoved ==
  ASSUME NEW s \in Seq(Frames), s # << >>, NEW c, NEW links, NEW bottom,
         Linked(s, c, links, bottom), NEW f \in Frames, f.of = s[1].of
  PROVE  Linked(<<f>> \o Tail(s), c, links, bottom)
<1> DEFINE t == <<f>> \o Tail(s)
           l == Len(s)
<1>1. l \in Nat \ {0}
  OBVIOUS
<1>2. Len(t) = l /\ t[1] = f /\ \A k \in 2 .. l : t[k] = s[k]
  OBVIOUS
<1>3. c \in Seq(Nat) /\ Len(c) = l /\ <<s[l].of, c[l]>> \in bottom
  BY DEF Linked
<1>4. \A k \in 2 .. l : <<s[k], c[k], s[k - 1].of, c[k - 1]>> \in links
  BY DEF Linked
<1> HIDE DEF t, l
<1>5. \A k \in 1 .. l : t[k].of = s[k].of
  <2>1. \A k \in 1 .. l : k = 1 \/ k \in 2 .. l
    BY <1>1
  <2> QED BY <1>2, <2>1
<1>6. l \in 1 .. l /\ \A k \in 2 .. l : k - 1 \in 1 .. l
  BY <1>1
<1>7. \A k \in 2 .. l : <<t[k], c[k], t[k - 1].of, c[k - 1]>> \in links
  BY <1>2, <1>4, <1>5, <1>6
<1>8. <<t[l].of, c[l]>> \in bottom
  BY <1>3, <1>5, <1>6
<1> QED BY <1>2, <1>3, <1>7, <1>8 DEF Linked, t

LEMMA LinkedPushed ==
  ASSUME NEW s \in Seq(Frames), s # << >>, NEW c, NEW links, NEW bottom,
         Linked(s, c, links, bottom),
         NEW f \in Frames, f.of = s[1].of, NEW g \in Frames, NEW n \in Nat,
         <<f, c[1], g.of, n>> \in links
  PROVE  Linked(<<g>> \o (<<f>> \o Tail(s)), <<n>> \o c, links, bottom)
<1> DEFINE t == <<f>> \o Tail(s)
           u == <<g>> \o t
           e == <<n>> \o c
           l == Len(s)
<1>1. l \in Nat \ {0}
  OBVIOUS
<1>2. t \in Seq(Frames) /\ Len(t) = l /\ t[1] = f
  OBVIOUS
<1>3. Linked(t, c, links, bottom)
  BY LinkedMoved
<1> HIDE DEF t
<1>4. c \in Seq(Nat) /\ Len(c) = l /\ <<t[l].of, c[l]>> \in bottom
  BY <1>2, <1>3 DEF Linked
<1>5. \A k \in 2 .. l : <<t[k], c[k], t[k - 1].of, c[k - 1]>> \in links
  BY <1>2, <1>3 DEF Linked
<1>6. Len(u) = l + 1 /\ u[1] = g /\ \A k \in 1 .. l : u[k + 1] = t[k]
  BY <1>1, <1>2
<1>7. e \in Seq(Nat) /\ Len(e) = l + 1 /\ e[1] = n /\ \A k \in 1 .. l : e[k + 1] = c[k]
  BY <1>1, <1>4
<1> HIDE DEF u, e, l
<1>8. <<u[l + 1].of, e[l + 1]>> \in bottom
  <2>1. l \in 1 .. l
    BY <1>1
  <2> QED BY <1>4, <1>6, <1>7, <2>1
<1>9. ASSUME NEW k \in 2 .. (l + 1) PROVE <<u[k], e[k], u[k - 1].of, e[k - 1]>> \in links
  <2>1. PICK j \in 1 .. l : k = j + 1 /\ k - 1 = j
    BY <1>1
  <2>2. u[k] = t[j] /\ e[k] = c[j]
    BY <1>6, <1>7, <2>1
  <2>3. CASE j = 1
    BY <1>2, <1>6, <1>7, <2>1, <2>2, <2>3
  <2>4. CASE j # 1
    <3>1. PICK i \in 1 .. l : j = i + 1 /\ j - 1 = i
      BY <1>1, <2>4
    <3>2. j \in 2 .. l
      BY <1>1, <2>4
    <3>3. u[j] = t[i] /\ e[j] = c[i]
      BY <1>6, <1>7, <3>1
    <3>4. <<t[j], c[j], t[i].of, c[i]>> \in links
      BY <1>5, <3>1, <3>2
    <3> QED BY <2>1, <2>2, <3>3, <3>4
  <2> QED BY <2>3, <2>4
<1> QED BY <1>6, <1>7, <1>8, <1>9 DEF Linked, u, e, t

LEMMA LinkedPopped ==
  ASSUME NEW s \in Seq(Frames), Len(s) > 1, NEW c, NEW links, NEW bottom,
         Linked(s, c, links, bottom)
  PROVE  /\ <<s[2], c[2], s[1].of, c[1]>> \in links
         /\ Linked(Tail(s), Tail(c), links, bottom)
         /\ Tail(s) # << >> /\ Tail(s)[1] = s[2] /\ Tail(c)[1] = c[2] /\ s[2] \in Frames
<1> DEFINE t == Tail(s)
           e == Tail(c)
           l == Len(s)
<1>1. l \in Nat /\ l > 1
  OBVIOUS
<1>2. c \in Seq(Nat) /\ Len(c) = l /\ <<s[l].of, c[l]>> \in bottom
  BY DEF Linked
<1>3. \A k \in 2 .. l : <<s[k], c[k], s[k - 1].of, c[k - 1]>> \in links
  BY DEF Linked
<1>4. /\ t \in Seq(Frames) /\ Len(t) = l - 1 /\ t # << >> /\ s[2] \in Frames
      /\ \A k \in 1 .. (l - 1) : t[k] = s[k + 1]
  <2>1. t \in Seq(Frames) /\ Len(t) = l - 1 /\ \A k \in 1 .. (l - 1) : t[k] = s[k + 1]
    BY <1>1
  <2>2. t # << >>
    <3>1. Len(t) # 0
      BY <1>1, <2>1
    <3> HIDE DEF t
    <3> QED BY <3>1
  <2>3. s[2] \in Frames
    BY <1>1
  <2> QED BY <2>1, <2>2, <2>3
<1>5. e \in Seq(Nat) /\ Len(e) = l - 1 /\ \A k \in 1 .. (l - 1) : e[k] = c[k + 1]
  BY <1>1, <1>2
<1> HIDE DEF t, e, l
<1>6. <<s[2], c[2], s[1].of, c[1]>> \in links
  <2>1. PICK k \in 2 .. l : k = 2 /\ k - 1 = 1
    BY <1>1
  <2> QED BY <1>3, <2>1
<1>7. <<t[l - 1].of, e[l - 1]>> \in bottom
  <2>1. l - 1 \in 1 .. (l - 1) /\ l - 1 + 1 = l
    BY <1>1
  <2> QED BY <1>2, <1>4, <1>5, <2>1
<1>8. ASSUME NEW k \in 2 .. (l - 1) PROVE <<t[k], e[k], t[k - 1].of, e[k - 1]>> \in links
  <2>1. PICK j \in 2 .. l : j = k + 1 /\ j - 1 = k /\ k \in 1 .. (l - 1) /\ k - 1 \in 1 .. (l - 1)
                            /\ k - 1 + 1 = k
    BY <1>1
  <2> QED BY <1>3, <1>4, <1>5, <2>1
<1>9. t[1] = s[2] /\ e[1] = c[2]
  <2>1. PICK one \in 1 .. (l - 1) : one = 1 /\ one + 1 = 2
    BY <1>1
  <2> QED BY <1>4, <1>5, <2>1
<1> QED BY <1>4, <1>5, <1>6, <1>7, <1>8, <1>9 DEF Linked, t, e

(***************************************************************************)
(* What a frame reads next, and as what.                                   *)
(***************************************************************************)
AsOf(f) == IF f.of \in Arrays THEN ElementType(f.of) ELSE MemberType(f.of, f.key)

LEMMA TypesKnown ==
  \A of, key : MemberType(of, key) \in Types /\ ElementType(of) \in Types
<1> SUFFICES ASSUME NEW of, NEW key PROVE MemberType(of, key) \in Types /\ ElementType(of) \in Types
  OBVIOUS
<1>1. ElementType(of) \in Types
  BY DEF ElementType, Types
<1>2. MemberType(of, key) \in Types
  <2>1. CASE of \in DOMAIN Known /\ key \in DOMAIN Known[of]
    <3>1. \/ of = "payload" /\ key \in {"id", "transaction", "customer", "merchant", "terminal", "last_transaction"}
          \/ of \in DOMAIN Known /\ of # "payload"
      BY <2>1 DEF Known
    <3>2. CASE of = "payload"
      <4>1. key = "id" => Known[of][key] = "discard"
        BY <3>2 DEF Known
      <4>2. key # "id" => key \in DOMAIN Known /\ Known[of][key] \in {"object", "nullable"}
        BY <3>1, <3>2 DEF Known
      <4> QED BY <2>1, <4>1, <4>2 DEF MemberType, ReaderOf, Types
    <3>3. CASE of # "payload"
      <4>1. Known[of][key] \in {"string", "int", "float", "bool", "strings"}
        BY <2>1, <3>3 DEF Known
      <4> QED BY <2>1, <4>1 DEF MemberType, ReaderOf, Types
    <3> QED BY <3>2, <3>3
  <2>2. CASE ~ (of \in DOMAIN Known /\ key \in DOMAIN Known[of])
    BY <2>2 DEF MemberType, ReaderOf, Types
  <2> QED BY <2>1, <2>2
<1> QED BY <1>1, <1>2

LEMMA ReaderIs ==
  \/ Reader \in {"string", "discard", "int", "float", "bool", "strings", "skip"} /\ AsOf(Top) = Reader
  \/ /\ Reader = "object" /\ AsOf(Top) = Top.key
     /\ Top.key \in {"transaction", "customer", "merchant", "terminal"}
  \/ Reader = "nullable" /\ AsOf(Top) = Top.key /\ Top.key = "last_transaction"
<1>1. CASE Top.of \in Arrays
  BY <1>1 DEF Reader, AsOf, ElementType, Arrays
<1>2. CASE Top.of \notin Arrays
  <2> DEFINE of == Top.of
             key == Top.key
             r == Reader
             a == AsOf(Top)
  <2>1. r = ReaderOf(of, key) /\ a = MemberType(of, key)
    BY <1>2 DEF Reader, AsOf, Arrays
  <2> HIDE DEF of, key, r, a
  <2>2. a = IF r \in {"object", "nullable"} THEN key ELSE r
    BY <2>1 DEF MemberType
  <2>3. CASE of \in DOMAIN Known /\ key \in DOMAIN Known[of]
    <3>1. r = Known[of][key]
      BY <2>1, <2>3 DEF ReaderOf
    <3>2. CASE of = "payload"
      <4>1. key \in {"id", "transaction", "customer", "merchant", "terminal", "last_transaction"}
        BY <2>3, <3>2 DEF Known
      <4>2. /\ key = "id" => r = "discard"
            /\ key = "last_transaction" => r = "nullable"
            /\ key \in {"transaction", "customer", "merchant", "terminal"} => r = "object"
        BY <3>1, <3>2 DEF Known
      <4> QED BY <2>2, <4>1, <4>2 DEF r, a, key
    <3>3. CASE of # "payload"
      <4>1. r \in {"string", "int", "float", "bool", "strings"}
        BY <2>3, <3>1, <3>3 DEF Known
      <4> QED BY <2>2, <4>1 DEF r, a
    <3> QED BY <3>2, <3>3
  <2>4. CASE ~ (of \in DOMAIN Known /\ key \in DOMAIN Known[of])
    <3>1. r = "skip"
      BY <2>1, <2>4 DEF ReaderOf
    <3> QED BY <2>2, <3>1 DEF r, a
  <2> QED BY <2>3, <2>4
<1> QED BY <1>1, <1>2

LEMMA IntegerRead == \A b \in Seq(STRING) : IsInteger(b) <=> readsInt(b)
<1> SUFFICES ASSUME NEW b \in Seq(STRING) PROVE IsInteger(b) <=> readsInt(b)
  OBVIOUS
<1> DEFINE i == IntStart(b)
<1>0. Len(b) \in Nat /\ (b # << >> <=> 1 <= Len(b))
  OBVIOUS
<1>1. i \in 1 .. 2 /\ (b # << >> => i = IF b[1] = "-" THEN 2 ELSE 1) /\ (b = << >> => i = 1)
  BY <1>0 DEF IntStart, Is
<1>2. readsInt(b) <=> i <= Len(b) /\ DigitsEnd(b, i) = Len(b) + 1
  BY DEF readsInt
<1>3. IsInteger(b) <=> b # << >> /\ i <= Len(b) /\ \A k \in i .. Len(b) : IsDigit(b[k])
  BY <1>1 DEF IsInteger, AllDigits
<1> HIDE DEF i
<1>4. ASSUME i <= Len(b)
      PROVE  DigitsEnd(b, i) = Len(b) + 1 <=> \A k \in i .. Len(b) : IsDigit(b[k])
  <2>1. i \in 1 .. (Len(b) + 1) /\ i \in Nat /\ Len(b) + 1 \in i .. (Len(b) + 1) /\ Len(b) + 1 - 1 = Len(b)
    BY <1>0, <1>1, <1>4
  <2>2. DigitsEnd(b, i) = Len(b) + 1 => \A k \in i .. Len(b) : IsDigit(b[k])
    BY <2>1, DigitsEndIs
  <2>3. (\A k \in i .. Len(b) : IsDigit(b[k])) => DigitsEnd(b, i) = Len(b) + 1
    <3> DEFINE j == Len(b) + 1
    <3> SUFFICES ASSUME \A k \in i .. (j - 1) : IsDigit(b[k]) PROVE DigitsEnd(b, i) = j
      BY <2>1
    <3>1. j \in i .. (Len(b) + 1) /\ j = Len(b) + 1
      BY <2>1
    <3> HIDE DEF j
    <3> QED BY <1>0, <2>1, <3>1, EndsAre
  <2> QED BY <2>2, <2>3
<1>5. i <= Len(b) => b # << >>
  BY <1>0, <1>1
<1> QED BY <1>2, <1>3, <1>4, <1>5

\* The reader of a frame takes what may be read as AsOf says.
LEMMA ScalarRead ==
  ASSUME NEW t, IsToken(t)
  PROVE  Reads(Reader, t) <=> ScalarAs(AsOf(Top), t)
<1> DEFINE r == Reader
           a == AsOf(Top)
<1>1. \/ r \in {"string", "discard", "int", "float", "bool", "strings", "skip"} /\ a = r
      \/ r = "object" /\ a \in {"transaction", "customer", "merchant", "terminal"}
      \/ r = "nullable" /\ a = "last_transaction"
  BY ReaderIs
<1>2. t.is = "number" => /\ readsFloat(t.n) <=> Spellings(t.n) # {}
                         /\ readsInt(t.n) <=> IsInteger(t.n)
  BY NumbersAreSpelled, IntegerRead DEF IsToken
<1> HIDE DEF r, a
<1>3. Reads(r, t) <=> ScalarAs(a, t)
  <2>1. CASE t.is = "number"
    BY <1>1, <1>2, <2>1 DEF Reads, ScalarAs
  <2>2. CASE t.is # "number"
    BY <1>1, <2>2 DEF Reads, ScalarAs
  <2> QED BY <2>1, <2>2
<1> QED BY <1>3 DEF r, a

LEMMA ObjectRead ==
  LET of == IF Reader = "skip" THEN "skippedObject" ELSE Top.key
  IN  /\ \A o \in Objects : ListAs(AsOf(Top), o) <=> Reader \in {"object", "nullable", "skip"} /\ o = of
      /\ Reader \in {"object", "nullable", "skip"} => of \in Objects \ {"payload"}
<1> DEFINE of == IF Reader = "skip" THEN "skippedObject" ELSE Top.key
           r == Reader
           a == AsOf(Top)
<1>1. \/ r \in {"string", "discard", "int", "float", "bool", "strings"} /\ a = r
      \/ r = "skip" /\ a = r /\ of = "skippedObject"
      \/ r = "object" /\ a = of /\ of \in {"transaction", "customer", "merchant", "terminal"}
      \/ r = "nullable" /\ a = of /\ of = "last_transaction"
  BY ReaderIs
<1>2. Objects = {"payload", "transaction", "customer", "merchant", "terminal", "last_transaction", "skippedObject"}
  BY DEF Objects, Known
<1> HIDE DEF r, a, of
<1>3. /\ \A o \in Objects : ListAs(a, o) <=> r \in {"object", "nullable", "skip"} /\ o = of
      /\ r \in {"object", "nullable", "skip"} => of \in Objects \ {"payload"}
  BY <1>1, <1>2 DEF ListAs
<1> QED BY <1>3 DEF r, a, of

LEMMA ArrayRead ==
  LET of == IF Reader = "skip" THEN "skippedArray" ELSE "strings"
  IN  \A o \in Arrays : ListAs(AsOf(Top), o) <=> Reader \in {"strings", "skip"} /\ o = of
<1> DEFINE of == IF Reader = "skip" THEN "skippedArray" ELSE "strings"
           r == Reader
           a == AsOf(Top)
<1>1. \/ r \in {"string", "discard", "int", "float", "bool"} /\ a = r
      \/ r = "strings" /\ a = r /\ of = "strings"
      \/ r = "skip" /\ a = r /\ of = "skippedArray"
      \/ r \in {"object", "nullable"}
         /\ a \in {"transaction", "customer", "merchant", "terminal", "last_transaction"}
  BY ReaderIs
<1>2. Arrays = {"strings", "skippedArray"}
  BY DEF Arrays
<1> HIDE DEF r, a, of
<1>3. \A o \in Arrays : ListAs(a, o) <=> r \in {"strings", "skip"} /\ o = of
  BY <1>1, <1>2 DEF ListAs
<1> QED BY <1>3 DEF r, a, of

(***************************************************************************)
(* The forms of values and lists.  Follows: a value behind v is the next   *)
(* one of the list that begins at i, as the frame f has read it.           *)
(***************************************************************************)
Begun(ts, i, n, bracket) == i = n - 1 /\ Has(ts, n, bracket)

Elements(ts, of, i, n) ==
  Has(ts, n, "]") /\ (Begun(ts, i, n - 1, "[") \/ IsList(ts, of, i, n - 1))

Members(ts, of, i, n) ==
  /\ Has(ts, n, "}")
  /\ \/ Begun(ts, i, n - 1, "{")
     \/ IsList(ts, of, i, n - 1)
     \/ Has(ts, n - 1, ",") /\ IsList(ts, of, i, n - 2)

Follows(ts, f, i, v) ==
  IF f.of \in Arrays
    THEN i \in 0 .. (v - 1) /\ (Begun(ts, i, v, "[") \/ (Has(ts, v, ",") /\ IsList(ts, f.of, i, v - 1)))
    ELSE /\ i \in 0 .. (v - 3) /\ Has(ts, v, ":") /\ Has(ts, v - 1, "string") /\ ts[v - 1].s = f.key
         /\ Begun(ts, i, v - 2, "{") \/ (Has(ts, v - 2, ",") /\ IsList(ts, f.of, i, v - 3))

LEMMA ValueForms ==
  ASSUME NEW ts, Len(ts) \in Nat, NEW as, NEW i, NEW n
  PROVE  IsValue(ts, as, i, n)
         <=> /\ n \in 1 .. Len(ts) /\ as \in Types /\ i \in 0 .. (n - 1)
             /\ \/ i = n - 1 /\ ScalarAs(as, ts[n])
                \/ \E of \in Arrays : ListAs(as, of) /\ Elements(ts, of, i, n)
                \/ \E of \in Objects : ListAs(as, of) /\ Members(ts, of, i, n)
<1>1. n \in 1 .. Len(ts) => n - 1 - 1 = n - 2
  OBVIOUS
<1>2. i \in ValueStarts(ts, as, n, Derived(ts))
      <=> /\ i \in 0 .. (n - 1)
          /\ \/ i = n - 1 /\ ScalarAs(as, ts[n])
             \/ /\ Has(ts, n, "]")
                /\ \E of \in Arrays : /\ ListAs(as, of)
                                      /\ (i = n - 2 /\ Has(ts, n - 1, "[")) \/ IsList(ts, of, i, n - 1)
             \/ /\ Has(ts, n, "}")
                /\ \E of \in Objects :
                     /\ ListAs(as, of)
                     /\ \/ i = n - 2 /\ Has(ts, n - 1, "{")
                        \/ IsList(ts, of, i, n - 1)
                        \/ Has(ts, n - 1, ",") /\ IsList(ts, of, i, n - 2)
  BY Zenon DEF ValueStarts, IsList
<1>3. IsValue(ts, as, i, n)
      <=> n \in 1 .. Len(ts) /\ as \in Types /\ i \in ValueStarts(ts, as, n, Derived(ts))
  BY ValueRule
<1> QED BY Zenon, <1>1, <1>2, <1>3 DEF Elements, Members, Begun

LEMMA ListForms ==
  ASSUME NEW ts, Len(ts) \in Nat, NEW of \in Lists, NEW i, NEW n
  PROVE  IsList(ts, of, i, n)
         <=> n \in 1 .. Len(ts)
             /\ \E key, v : LET f == [of |-> of, key |-> key]
                            IN  IsValue(ts, AsOf(f), v, n) /\ Follows(ts, f, i, v)
<1> DEFINE D == Derived(ts)
           Next1(as, v) == IsValue(ts, as, v, n) /\ i \in ListStarts(ts, of, as, v, D)
           f(key) == [of |-> of, key |-> key]
<1>1. IsList(ts, of, i, n) <=> n \in 1 .. Len(ts) /\ \E as \in Types : \E v : Next1(as, v)
  BY ListRule
<1>2. \A as, v : IsValue(ts, as, v, n) => v \in Int /\ v - 1 - 1 = v - 2 /\ v - 2 - 1 = v - 3
  <2> SUFFICES ASSUME NEW as, NEW v, IsValue(ts, as, v, n)
               PROVE  v \in Int /\ v - 1 - 1 = v - 2 /\ v - 2 - 1 = v - 3
    OBVIOUS
  <2>1. v \in 0 .. (n - 1) /\ n \in 1 .. Len(ts)
    BY ValueForms
  <2> QED BY <2>1
<1>3. \A key : f(key).of = of /\ f(key).key = key
  OBVIOUS
<1> HIDE DEF f
<1>4. CASE of \in Arrays
  <2>1. \A as, v : i \in ListStarts(ts, of, as, v, D)
                   <=> /\ as = ElementType(of) /\ i \in 0 .. (v - 1)
                       /\ Begun(ts, i, v, "[") \/ (Has(ts, v, ",") /\ IsList(ts, of, i, v - 1))
    BY Zenon, <1>4 DEF ListStarts, IsList, Begun
  <2>2. \A key : AsOf(f(key)) = ElementType(of)
    BY <1>3, <1>4 DEF AsOf
  <2>3. \A key, v : Follows(ts, f(key), i, v)
                    <=> /\ i \in 0 .. (v - 1)
                        /\ Begun(ts, i, v, "[") \/ (Has(ts, v, ",") /\ IsList(ts, of, i, v - 1))
    BY Zenon, <1>3, <1>4 DEF Follows
  <2>4. ElementType(of) \in Types
    BY TypesKnown
  <2>5. (\E as \in Types : \E v : Next1(as, v))
        <=> \E key, v : IsValue(ts, AsOf(f(key)), v, n) /\ Follows(ts, f(key), i, v)
    BY Zenon, <2>1, <2>2, <2>3, <2>4
  <2> QED BY Zenon, <1>1, <2>5 DEF f
<1>5. CASE of \notin Arrays
  <2>1. \A as, v : i \in ListStarts(ts, of, as, v, D)
                   <=> /\ Has(ts, v, ":") /\ Has(ts, v - 1, "string") /\ MemberType(of, ts[v - 1].s) = as
                       /\ i \in 0 .. (v - 3)
                       /\ \/ i = v - 3 /\ Has(ts, v - 2, "{")
                          \/ Has(ts, v - 2, ",") /\ IsList(ts, of, i, v - 3)
    BY Zenon, <1>5 DEF ListStarts, IsList
  <2>2. \A key : AsOf(f(key)) = MemberType(of, key)
    BY <1>3, <1>5 DEF AsOf
  <2>3. \A key, v : Follows(ts, f(key), i, v)
                    <=> /\ i \in 0 .. (v - 3) /\ Has(ts, v, ":") /\ Has(ts, v - 1, "string")
                        /\ ts[v - 1].s = key
                        /\ \/ i = v - 2 - 1 /\ Has(ts, v - 2, "{")
                           \/ Has(ts, v - 2, ",") /\ IsList(ts, of, i, v - 3)
    BY Zenon, <1>3, <1>5 DEF Follows, Begun
  <2>4. \A key : MemberType(of, key) \in Types
    BY TypesKnown
  <2>5. (\E as \in Types : \E v : Next1(as, v))
        <=> \E key, v : IsValue(ts, AsOf(f(key)), v, n) /\ Follows(ts, f(key), i, v)
    <3>1. ASSUME NEW as \in Types, NEW v, Next1(as, v)
          PROVE  \E key, w : IsValue(ts, AsOf(f(key)), w, n) /\ Follows(ts, f(key), i, w)
      <4> DEFINE key == ts[v - 1].s
      <4>1. v - 2 - 1 = v - 3
        BY <1>2, <3>1
      <4>2. as = AsOf(f(key)) /\ Follows(ts, f(key), i, v)
        BY Zenon, <2>1, <2>2, <2>3, <3>1, <4>1
      <4> HIDE DEF key
      <4> QED BY <3>1, <4>2
    <3>2. ASSUME NEW key, NEW v, IsValue(ts, AsOf(f(key)), v, n), Follows(ts, f(key), i, v)
          PROVE  \E as \in Types : \E w : Next1(as, w)
      <4>1. v - 2 - 1 = v - 3
        BY <1>2, <3>2
      <4>2. Next1(MemberType(of, key), v)
        BY Zenon, <2>1, <2>2, <2>3, <3>2, <4>1
      <4> HIDE DEF Next1
      <4> QED BY <2>4, <4>2
    <3> HIDE DEF Next1
    <3> QED BY <3>1, <3>2
  <2> QED BY Zenon, <1>1, <2>5 DEF f
<1> QED BY <1>4, <1>5

(***************************************************************************)
(* What is parsed is derived.  Shape: what the innermost frame f has read  *)
(* up to n of the list that begins at i.  Beneath: the frames below wait   *)
(* behind the beginning v of a list that they may read.                    *)
(***************************************************************************)
Shape(ts, f, i, n) ==
  /\ i \in Nat /\ i < n
  /\ f.at = "member" => /\ f.of \notin Arrays
                        /\ Begun(ts, i, n, "{") \/ (Has(ts, n, ",") /\ IsList(ts, f.of, i, n - 1))
  /\ f.at = "first" => f.of \in Arrays /\ Begun(ts, i, n, "[")
  /\ f.at \in BeforeValue => Follows(ts, f, i, n)
  /\ f.at = "after" => IsList(ts, f.of, i, n)

Waits(ts, f, i, of, v) ==
  f.at = "after" /\ Follows(ts, f, i, v) /\ ListAs(AsOf(f), of) /\ of # "payload"

Beneath(ts) == {x \in Frames \X Nat \X Lists \X Nat : Waits(ts, x[1], x[2], x[3], x[4])}
Lowest == {<<"payload", 0>>}

GrammarInv ==
  LET ts == input.tokens
  IN  /\ pos <= Len(ts)
      /\ outcome = "reading" =>
           \/ stack = << >> /\ pos = 0
           \/ stack # << >> /\ \E c : Linked(stack, c, Beneath(ts), Lowest) /\ Shape(ts, Top, c[1], pos)
      /\ outcome = "parsed" => IsValue(ts, "payload", 0, pos)

LEMMA BeneathIs ==
  ASSUME NEW ts, NEW f, NEW i, NEW of, NEW v
  PROVE  <<f, i, of, v>> \in Beneath(ts)
         <=> f \in Frames /\ i \in Nat /\ of \in Lists /\ v \in Nat /\ Waits(ts, f, i, of, v)
<1> DEFINE x == <<f, i, of, v>>
<1>1. x[1] = f /\ x[2] = i /\ x[3] = of /\ x[4] = v
  OBVIOUS
<1>2. x \in Frames \X Nat \X Lists \X Nat <=> f \in Frames /\ i \in Nat /\ of \in Lists /\ v \in Nat
  OBVIOUS
<1> HIDE DEF x
<1>3. x \in Beneath(ts) <=> x \in Frames \X Nat \X Lists \X Nat /\ Waits(ts, x[1], x[2], x[3], x[4])
  BY Zenon DEF Beneath
<1> QED BY <1>1, <1>2, <1>3 DEF x

LEMMA TopLinked ==
  ASSUME NEW ts, NEW s \in Seq(Frames), s # << >>, NEW c, Linked(s, c, Beneath(ts), Lowest)
  PROVE  /\ Head(s) = s[1] /\ s[1] \in Frames /\ s[1].of \in Lists /\ c[1] \in Nat
         /\ s[1].of = "payload" => Len(s) = 1 /\ c[1] = 0
         /\ s[1].of # "payload" => Len(s) > 1
<1>1. Head(s) = s[1] /\ s[1] \in Frames /\ (Len(s) = 1 \/ Len(s) > 1)
  OBVIOUS
<1>2. s[1].of \in Lists
  BY <1>1 DEF Frames, Lists, Arrays, Objects
<1>3. c \in Seq(Nat) /\ Len(c) = Len(s)
  BY DEF Linked
<1>4. c[1] \in Nat
  BY <1>1, <1>3
<1>5. Len(s) > 1 => s[1].of # "payload"
  <2>1. Len(s) > 1 => <<s[2], c[2], s[1].of, c[1]>> \in Beneath(ts)
    BY LinkedPopped
  <2> QED BY <2>1, BeneathIs DEF Waits
<1>6. Len(s) = 1 => s[1].of = "payload" /\ c[1] = 0
  <2> SUFFICES ASSUME Len(s) = 1 PROVE s[1].of = "payload" /\ c[1] = 0
    OBVIOUS
  <2>1. <<s[1].of, c[1]>> \in Lowest
    BY DEF Linked
  <2> QED BY <2>1 DEF Lowest
<1> QED BY <1>1, <1>2, <1>4, <1>5, <1>6

LEMMA TokenPeeked ==
  ASSUME ParserTypeOK, Peek.is # "end"
  PROVE  /\ Len(input.tokens) \in Nat /\ pos \in Nat /\ pos + 1 \in 1 .. Len(input.tokens)
         /\ DOMAIN input.tokens = 1 .. Len(input.tokens)
         /\ Peek = input.tokens[pos + 1] /\ Has(input.tokens, pos + 1, Peek.is)
<1>1. Len(input.tokens) \in Nat /\ DOMAIN input.tokens = 1 .. Len(input.tokens) /\ pos \in Nat
  BY InputsAssumption DEF IsBody, ParserTypeOK
<1>2. pos < Len(input.tokens) /\ Peek = input.tokens[pos + 1]
  BY DEF Peek
<1>3. pos + 1 \in 1 .. Len(input.tokens)
  BY <1>1, <1>2
<1> QED BY <1>1, <1>2, <1>3 DEF Has

LEMMA BehindValue ==
  ASSUME NEW ts, Len(ts) \in Nat, NEW f \in Frames, NEW i \in Nat, NEW v, NEW n \in Nat, i < n,
         IsValue(ts, AsOf(f), v, n), Follows(ts, f, i, v),
         NEW g, g.of = f.of, g.at = "after"
  PROVE  Shape(ts, g, i, n)
<1> DEFINE h == [of |-> f.of, key |-> f.key]
<1>1. h.of = f.of /\ h.key = f.key
  OBVIOUS
<1>2. n \in 1 .. Len(ts) /\ f.of \in Lists
  BY ValueForms DEF Frames, Lists, Arrays, Objects
<1> HIDE DEF h
<1>3. AsOf(h) = AsOf(f) /\ Follows(ts, h, i, v)
  BY <1>1 DEF AsOf, Follows
<1>4. IsList(ts, f.of, i, n)
  BY <1>2, <1>3, ListForms DEF h
<1> QED BY <1>4 DEF Shape, BeforeValue

LEMMA GrammarStep ==
  ASSUME ParserTypeOK, GrammarInv, ParseNext
  PROVE  GrammarInv'
<1> DEFINE ts == input.tokens
           n == pos + 1
           s == stack
           After == [Top EXCEPT !.at = "after"]
           Stands(c) == Linked(s, c, Beneath(ts), Lowest) /\ Shape(ts, Top, c[1], pos)
<1>0. /\ Len(ts) \in Nat /\ pos \in Nat /\ s \in Seq(Frames) /\ IsToken(Peek)
      /\ DOMAIN ts = 1 .. Len(ts) /\ input \in Inputs
  BY PeekType, InputsAssumption DEF ParserTypeOK, IsBody
<1>1. outcome = "reading" /\ input' = input
  BY DEF ParseNext, Read, Fail, OpenPayload, ReadKey, ReadField, ReadLastField, ReadMerchant, ReadNull,
         SkipScalar, ReadScalar, OpenObject, OpenArray, Comma, CloseArray, CloseObject, Advance,
         Reading, At
\* The numbers, and the length of a stack.
<1>a. /\ n \in Nat /\ n - 1 = pos /\ n - 2 = pos - 1 /\ pos < n /\ pos \in 0 .. (n - 1)
      /\ \A i \in Nat : i < pos => i < n /\ i \in 0 .. (n - 1)
  BY <1>0
<1>b. \A f \in Frames : /\ <<f>> \o Tail(s) # << >> /\ Head(<<f>> \o Tail(s)) = f
                        /\ (<<f>> \o Tail(s))[1] = f
  BY <1>0
<1>2. CASE Fail
  BY <1>1, <1>2 DEF Fail, GrammarInv
<1>3. ASSUME stack # << >>
      PROVE  /\ pos <= Len(ts) /\ \E c : Stands(c) /\ c[1] < pos
             /\ Top = s[1] /\ Top \in Frames /\ Top.of \in Lists
  <2>1. PICK c : Stands(c)
    BY <1>1, <1>3 DEF GrammarInv
  <2>2. Top = s[1] /\ Top \in Frames /\ Top.of \in Lists
    <3> HIDE DEF ts
    <3> QED BY <1>0, <1>3, <2>1, TopLinked DEF Top
  <2>3. c[1] < pos
    BY <2>1 DEF Shape
  <2> QED BY <1>1, <1>3, <2>1, <2>2, <2>3 DEF GrammarInv
<1>4. ASSUME stack # << >>, NEW c, Stands(c)
      PROVE  /\ c[1] \in Nat /\ c[1] < pos /\ c[1] < n /\ c[1] \in 0 .. (n - 1)
             /\ Top.of = "payload" => Len(s) = 1 /\ c[1] = 0
             /\ Top.of # "payload" => Len(s) > 1
  <2>1. c[1] \in Nat /\ c[1] < pos
    BY <1>4 DEF Shape
  <2>2. Top = s[1]
    BY <1>3, <1>4
  <2> HIDE DEF ts, n
  <2>3. Linked(s, c, Beneath(ts), Lowest)
    BY <1>4
  <2> QED BY <1>0, <1>4, <1>a, <2>1, <2>2, <2>3, TopLinked
<1>5. ASSUME Peek.is # "end"
      PROVE  n \in 1 .. Len(ts) /\ Peek = ts[n] /\ Has(ts, n, Peek.is) /\ n <= Len(ts)
  BY <1>5, TokenPeeked
\* What goes on reading, with a new stack that stands.
<1>6. ASSUME stack' # << >>, outcome' = outcome, pos' \in Nat, pos' <= Len(ts),
             NEW c, Linked(stack', c, Beneath(ts), Lowest), Shape(ts, Head(stack'), c[1], pos')
      PROVE  GrammarInv'
  <2>1. input'.tokens = ts /\ Top' = Head(stack') /\ outcome' = "reading"
    BY <1>1, <1>6 DEF Top
  <2> HIDE DEF ts
  <2> QED BY <1>6, <2>1 DEF GrammarInv
<1>7. CASE OpenPayload
  <2> DEFINE f == Frame("payload", "member")
             c == <<0>>
             one == <<f>>
  <2>1. Peek.is = "{" /\ pos' = n /\ stack = << >> /\ stack' = one /\ outcome' = outcome
    BY <1>7 DEF OpenPayload, Advance
  <2>2. pos = 0 /\ Has(ts, 1, "{") /\ n = 1 /\ n <= Len(ts)
    <3>1. pos = 0
      BY <1>1, <2>1 DEF GrammarInv
    <3>2. n \in 1 .. Len(ts) /\ Has(ts, n, "{") /\ n <= Len(ts)
      BY <1>5, <2>1
    <3>3. n = 1
      BY <3>1
    <3> HIDE DEF n, ts
    <3> QED BY <3>1, <3>2, <3>3
  <2>3. f.of = "payload" /\ f.at = "member" /\ f.of \notin Arrays /\ f \in Frames
    BY EmptyTypes DEF Frame, Frames, Arrays, Known, Texts
  <2>4. Shape(ts, f, 0, 1)
    <3>1. 0 \in Nat /\ 0 < 1 /\ 0 = 1 - 1
      OBVIOUS
    <3>2. Begun(ts, 0, 1, "{")
      BY <2>2, <3>1 DEF Begun
    <3> HIDE DEF f, ts
    <3> QED BY <2>3, <3>1, <3>2 DEF Shape, BeforeValue
  <2> HIDE DEF f
  <2>5. /\ Len(one) = 1 /\ one[1] = f /\ one # << >> /\ Head(one) = f
        /\ c \in Seq(Nat) /\ Len(c) = 1 /\ c[1] = 0
    OBVIOUS
  <2>6. \A k \in 2 .. 1 : FALSE
    OBVIOUS
  <2> HIDE DEF one, c
  <2>7. Linked(one, c, Beneath(ts), Lowest)
    BY <2>3, <2>5, <2>6 DEF Linked, Lowest
  <2> HIDE DEF ts, n
  <2>8. pos' = 1 /\ pos' \in Nat /\ pos' <= Len(ts)
    BY <2>1, <2>2
  <2>9. stack' # << >> /\ Linked(stack', c, Beneath(ts), Lowest) /\ Shape(ts, Head(stack'), c[1], pos')
    BY <2>1, <2>4, <2>5, <2>7, <2>8
  <2> QED BY <1>6, <2>1, <2>8, <2>9
\* A step of the frame on top.
<1>8. ASSUME stack # << >>, outcome' = outcome, pos' \in Nat, pos' <= Len(ts), NEW c, Stands(c),
             NEW f \in Frames, f.of = Top.of, stack' = <<f>> \o Tail(s), Shape(ts, f, c[1], pos')
      PROVE  GrammarInv'
  <2>1. stack' # << >> /\ Head(stack') = f
    BY <1>8, <1>b
  <2>2. Top = s[1] /\ Linked(s, c, Beneath(ts), Lowest)
    BY <1>3, <1>8
  <2> HIDE DEF ts
  <2>3. Linked(stack', c, Beneath(ts), Lowest)
    BY <1>0, <1>8, <2>2, LinkedMoved
  <2> QED BY <1>6, <1>8, <2>1, <2>3
<1>9. CASE ReadKey
  <2> DEFINE f == [Top EXCEPT !.at = "value", !.key = Peek.s]
             m == pos + 2
  <2>1. /\ stack # << >> /\ Top.at = "member" /\ Peek.is = "string"
        /\ m <= Len(ts) /\ ts[m].is = ":"
        /\ stack' = <<f>> \o Tail(s) /\ pos' = m /\ outcome' = outcome
    BY <1>9 DEF ReadKey, At, KeyComes, Advance
  <2>2. PICK c : Stands(c) /\ c[1] < pos
    BY <1>3, <2>1
  <2>3. Top \in Frames /\ c[1] \in Nat /\ Shape(ts, Top, c[1], pos)
    BY <1>3, <1>4, <2>1, <2>2
  <2>4. f \in Frames /\ f.of = Top.of /\ f.at = "value" /\ f.key = Peek.s
    <3>1. Peek.s \in Texts
      BY <1>0, <2>1 DEF IsToken, Texts
    <3> QED BY <2>3, <3>1 DEF Frames
  <2>5. /\ m \in Nat /\ m \in DOMAIN ts /\ m - 1 = n /\ m - 2 = pos /\ m - 3 = pos - 1
        /\ c[1] < m /\ c[1] \in 0 .. (m - 3)
    <3> HIDE DEF ts
    <3> QED BY <1>0, <2>1, <2>2, <2>3
  <2>6. Has(ts, n, "string") /\ Peek = ts[n]
    BY <1>5, <2>1
  <2> HIDE DEF f, m, n, ts
  <2>7. Has(ts, m, ":") /\ Has(ts, m - 1, "string") /\ ts[m - 1].s = f.key
    BY <2>1, <2>4, <2>5, <2>6 DEF Has
  <2>8. /\ Top.of \notin Arrays
        /\ Begun(ts, c[1], pos, "{") \/ (Has(ts, pos, ",") /\ IsList(ts, Top.of, c[1], pos - 1))
    BY <2>1, <2>3 DEF Shape
  <2>9. Follows(ts, f, c[1], m)
    BY <2>4, <2>5, <2>7, <2>8 DEF Follows
  <2>10. Shape(ts, f, c[1], m)
    BY <2>3, <2>4, <2>5, <2>9 DEF Shape
  <2> QED BY <1>8, <2>1, <2>2, <2>4, <2>5, <2>10 DEF ts
<1>10. ASSUME stack # << >>
       PROVE  After \in Frames /\ After.of = Top.of /\ After.at = "after" /\ AsOf(After) = AsOf(Top)
              /\ \A i, v : Follows(ts, Top, i, v) => Follows(ts, After, i, v)
  <2>1. After \in Frames /\ After.of = Top.of /\ After.key = Top.key /\ After.at = "after"
    BY <1>3, <1>10 DEF Frames
  <2> HIDE DEF After
  <2> QED BY <2>1 DEF AsOf, Follows
<1>11. CASE ReadScalar /\ outcome' = outcome
  <2>1. /\ stack # << >> /\ Top.at \in BeforeValue /\ Reads(Reader, Peek)
        /\ stack' = <<After>> \o Tail(s) /\ pos' = n /\ outcome' = outcome
    BY <1>11 DEF ReadScalar, At, Advance, MoveTo
  <2>2. ScalarAs(AsOf(Top), Peek) /\ Peek.is # "end"
    BY <1>0, <2>1, ScalarRead DEF Reads
  <2>3. PICK c : Stands(c)
    BY <1>3, <2>1
  <2>4. /\ Top \in Frames /\ c[1] \in Nat /\ c[1] < n /\ Follows(ts, Top, c[1], pos)
    BY <1>3, <1>4, <2>1, <2>3 DEF Shape
  <2>5. n \in 1 .. Len(ts) /\ Peek = ts[n] /\ n <= Len(ts)
    BY <1>5, <2>2
  <2>6. After \in Frames /\ After.of = Top.of /\ After.at = "after"
    BY <1>10, <2>1
  <2> HIDE DEF n, ts, After
  <2>7. IsValue(ts, AsOf(Top), pos, n)
    <3>1. AsOf(Top) \in Types
      BY TypesKnown DEF AsOf
    <3> QED BY <1>0, <1>a, <2>2, <2>5, <3>1, ValueForms DEF ts
  <2>8. Shape(ts, After, c[1], n)
    BY <1>0, <1>a, <2>4, <2>6, <2>7, BehindValue DEF ts
  <2> QED BY <1>8, <1>a, <2>1, <2>3, <2>5, <2>6, <2>8 DEF ts
\* An array or object begins.
<1>12. ASSUME stack # << >>, Top.at \in BeforeValue, Peek.is # "end",
              NEW g \in Frames, g.of # "payload", ListAs(AsOf(Top), g.of), Shape(ts, g, pos, n),
              stack' = <<g>> \o MoveTo("after"), pos' = n, outcome' = outcome
       PROVE  GrammarInv'
  <2>1. stack' = <<g>> \o (<<After>> \o Tail(s))
    BY <1>12 DEF MoveTo
  <2>2. PICK c : Stands(c)
    BY <1>3, <1>12
  <2>3. Top = s[1] /\ c[1] \in Nat /\ Follows(ts, Top, c[1], pos) /\ g.of \in Lists
    <3>1. g.of \in Lists
      BY DEF Frames, Lists, Arrays, Objects
    <3> QED BY <1>3, <1>4, <1>12, <2>2, <3>1 DEF Shape
  <2>4. n <= Len(ts) /\ n \in Nat
    BY <1>5, <1>12, <1>a
  <2>5. /\ After \in Frames /\ After.of = Top.of /\ After.at = "after"
        /\ Follows(ts, After, c[1], pos) /\ ListAs(AsOf(After), g.of)
    BY <1>10, <1>12, <2>3
  <2> DEFINE u == <<g>> \o (<<After>> \o Tail(s))
  <2>6. u # << >> /\ Head(u) = g
    BY <1>0, <2>5
  <2> HIDE DEF n, ts, After
  <2>7. <<After, c[1], g.of, pos>> \in Beneath(ts)
    BY <1>0, <1>12, <2>3, <2>5, BeneathIs DEF Waits
  <2>8. Linked(u, <<pos>> \o c, Beneath(ts), Lowest)
    BY <1>0, <1>12, <2>2, <2>3, <2>5, <2>7, LinkedPushed
  <2>9. (<<pos>> \o c)[1] = pos
    BY <1>0, <2>2 DEF Linked
  <2> HIDE DEF u
  <2> QED BY <1>6, <1>12, <2>1, <2>4, <2>6, <2>8, <2>9 DEF u
<1>13. CASE OpenObject
  <2> DEFINE of == IF Reader = "skip" THEN "skippedObject" ELSE Top.key
             g == Frame(of, "member")
  <2>1. /\ stack # << >> /\ Top.at \in BeforeValue /\ Peek.is = "{"
        /\ Reader \in {"object", "nullable", "skip"}
        /\ stack' = <<g>> \o MoveTo("after") /\ pos' = n /\ outcome' = outcome
    BY <1>13 DEF OpenObject, ObjectComes, At, Advance
  <2>2. n \in 1 .. Len(ts) /\ Has(ts, n, "{")
    BY <1>5, <2>1
  <2>3. of \in Objects \ {"payload"} /\ ListAs(AsOf(Top), of)
    BY <2>1, ObjectRead
  <2> HIDE DEF of
  <2>4. g \in Frames /\ g.of = of /\ g.at = "member" /\ g.of \notin Arrays
    <3>1. "" \in Texts
      BY EmptyTypes DEF Texts
    <3>2. g.of = of /\ g.at = "member" /\ g.key = "" /\ g = [of |-> of, at |-> "member", key |-> ""]
      BY DEF Frame
    <3>3. of \notin Arrays
      BY <2>3 DEF Objects, Arrays, Known
    <3> HIDE DEF g
    <3> QED BY <2>3, <3>1, <3>2, <3>3 DEF Frames, Objects
  <2> HIDE DEF g, n, ts
  <2>5. Shape(ts, g, pos, n)
    BY <1>0, <1>a, <2>2, <2>4 DEF Shape, Begun, BeforeValue
  <2> QED BY <1>12, <2>1, <2>3, <2>4, <2>5
<1>14. CASE OpenArray
  <2> DEFINE of == IF Reader = "skip" THEN "skippedArray" ELSE "strings"
             g == Frame(of, "first")
  <2>1. /\ stack # << >> /\ Top.at \in BeforeValue /\ Peek.is = "["
        /\ Reader \in {"strings", "skip"}
        /\ stack' = <<g>> \o MoveTo("after") /\ pos' = n /\ outcome' = outcome
    BY <1>14 DEF OpenArray, ArrayComes, At, Advance
  <2>2. n \in 1 .. Len(ts) /\ Has(ts, n, "[")
    BY <1>5, <2>1
  <2>3. of \in Arrays /\ of # "payload" /\ ListAs(AsOf(Top), of)
    <3>1. of \in Arrays /\ of # "payload"
      BY DEF Arrays
    <3> QED BY <2>1, <3>1, ArrayRead
  <2> HIDE DEF of
  <2>4. g \in Frames /\ g.of = of /\ g.at = "first"
    <3>1. "" \in Texts
      BY EmptyTypes DEF Texts
    <3> QED BY <2>3, <3>1 DEF Frame, Frames, Arrays
  <2> HIDE DEF g, n, ts
  <2>5. Begun(ts, pos, n, "[") /\ Follows(ts, g, pos, n)
    BY <1>a, <2>2, <2>3, <2>4 DEF Begun, Follows
  <2>6. Shape(ts, g, pos, n)
    BY <1>0, <1>a, <2>3, <2>4, <2>5 DEF Shape
  <2> QED BY <1>12, <2>1, <2>3, <2>4, <2>6
<1>15. CASE Comma
  <2> DEFINE at == IF IsArray THEN "element" ELSE "member"
             f == [Top EXCEPT !.at = at]
  <2>1. /\ stack # << >> /\ Top.at = "after" /\ Peek.is = ","
        /\ stack' = <<f>> \o Tail(s) /\ pos' = n /\ outcome' = outcome
    BY <1>15 DEF Comma, At, Advance, MoveTo
  <2>2. PICK c : Stands(c)
    BY <1>3, <2>1
  <2>3. /\ Top \in Frames /\ c[1] \in Nat /\ c[1] < n /\ c[1] \in 0 .. (n - 1)
        /\ IsList(ts, Top.of, c[1], pos)
    BY <1>3, <1>4, <2>1, <2>2 DEF Shape
  <2>4. n \in 1 .. Len(ts) /\ Has(ts, n, ",") /\ n <= Len(ts)
    BY <1>5, <2>1
  <2>5. f \in Frames /\ f.of = Top.of /\ f.at = at /\ (f.of \in Arrays <=> IsArray)
    BY <2>3 DEF Frames, Arrays, IsArray
  <2>6. at \in {"element", "member"} /\ (at = "element" <=> IsArray)
    OBVIOUS
  <2> HIDE DEF n, ts, f, at
  <2>7. Shape(ts, f, c[1], n)
    <3>1. IsArray => Follows(ts, f, c[1], n)
      BY <1>a, <2>3, <2>4, <2>5 DEF Follows
    <3> QED BY <1>a, <2>3, <2>4, <2>5, <2>6, <3>1 DEF Shape, BeforeValue
  <2> QED BY <1>8, <1>a, <2>1, <2>2, <2>4, <2>5, <2>7 DEF ts
\* An array or object ends, which is the next value of the frame below it.
<1>16. ASSUME stack # << >>, Peek.is # "end", NEW c, Stands(c), Top.of # "payload",
              \A as \in Types : ListAs(as, Top.of) => IsValue(ts, as, c[1], n),
              stack' = Tail(s), pos' = n, outcome' = outcome
       PROVE  GrammarInv'
  <2>1. c[1] \in Nat /\ c[1] < n /\ Len(s) > 1 /\ Top = s[1]
    BY <1>3, <1>4, <1>16
  <2>2. n \in Nat /\ n <= Len(ts)
    BY <1>5, <1>16, <1>a
  <2> HIDE DEF n, ts
  <2>3. Linked(s, c, Beneath(ts), Lowest)
    BY <1>16
  <2>4. /\ <<s[2], c[2], s[1].of, c[1]>> \in Beneath(ts)
        /\ Linked(Tail(s), Tail(c), Beneath(ts), Lowest)
        /\ Tail(s) # << >> /\ Tail(s)[1] = s[2] /\ Tail(c)[1] = c[2]
    BY <1>0, <2>1, <2>3, LinkedPopped
  <2>5. s[2] \in Frames /\ c[2] \in Nat /\ Waits(ts, s[2], c[2], Top.of, c[1])
    BY <2>1, <2>4, BeneathIs
  <2>6. IsValue(ts, AsOf(s[2]), c[1], n)
    <3>1. AsOf(s[2]) \in Types
      BY TypesKnown DEF AsOf
    <3> QED BY <1>16, <2>5, <3>1 DEF Waits
  <2>7. c[2] < n
    <3>1. c[2] \in 0 .. (c[1] - 1) \/ c[2] \in 0 .. (c[1] - 3)
      BY <2>5 DEF Waits, Follows
    <3> QED BY <2>1, <2>2, <2>5, <3>1
  <2>8. Shape(ts, s[2], c[2], n)
    BY <1>0, <2>2, <2>5, <2>6, <2>7, BehindValue DEF Waits, ts
  <2>9. Head(Tail(s)) = s[2]
    BY <1>0, <2>1, <2>4
  <2> QED BY <1>6, <1>16, <2>2, <2>4, <2>8, <2>9 DEF ts
<1>17. CASE CloseArray
  <2>1. /\ stack # << >> /\ Top.at \in {"first", "after"} /\ IsArray /\ Peek.is = "]"
        /\ stack' = Tail(s) /\ pos' = n /\ outcome' = outcome
    BY <1>17 DEF CloseArray, ArrayEnds, At, Advance
  <2>2. PICK c : Stands(c)
    BY <1>3, <2>1
  <2>3. Shape(ts, Top, c[1], pos) /\ c[1] \in 0 .. (n - 1)
    BY <1>4, <2>1, <2>2
  <2>4. n \in 1 .. Len(ts) /\ Has(ts, n, "]")
    BY <1>5, <2>1
  <2>5. Top.of \in Arrays /\ Top.of # "payload"
    BY <2>1 DEF IsArray, Arrays
  <2>6. \A as \in Types : ListAs(as, Top.of) => IsValue(ts, as, c[1], n)
    <3> HIDE DEF n, ts
    <3>1. Elements(ts, Top.of, c[1], n)
      BY <1>a, <2>1, <2>3, <2>4 DEF Elements, Shape
    <3> QED BY <1>0, <2>3, <2>4, <2>5, <3>1, ValueForms DEF ts
  <2> QED BY <1>16, <2>1, <2>2, <2>5, <2>6
<1>18. CASE CloseObject
  <2>1. /\ stack # << >> /\ Top.at \in {"member", "after"} /\ ~ IsArray /\ Peek.is = "}"
        /\ stack' = Tail(s) /\ pos' = n
        /\ outcome' = IF Top.of = "payload" THEN "parsed" ELSE outcome
    BY <1>18 DEF CloseObject, ObjectEnds, At, Advance
  <2>2. PICK c : Stands(c)
    BY <1>3, <2>1
  <2>3. /\ Shape(ts, Top, c[1], pos) /\ c[1] \in 0 .. (n - 1)
        /\ Top.of = "payload" => c[1] = 0
    BY <1>4, <2>1, <2>2
  <2>4. n \in 1 .. Len(ts) /\ Has(ts, n, "}") /\ n <= Len(ts)
    BY <1>5, <2>1
  <2>5. Top.of \in Objects
    BY <1>3, <2>1 DEF IsArray, Lists, Arrays
  <2>6. \A as \in Types : ListAs(as, Top.of) => IsValue(ts, as, c[1], n)
    <3> HIDE DEF n, ts
    <3>1. Members(ts, Top.of, c[1], n)
      BY <1>a, <2>1, <2>3, <2>4 DEF Members, Shape
    <3> QED BY <1>0, <2>3, <2>4, <2>5, <3>1, ValueForms DEF ts
  <2>7. CASE Top.of # "payload"
    BY <1>16, <2>1, <2>2, <2>6, <2>7
  <2>8. CASE Top.of = "payload"
    <3>1. "payload" \in Types /\ ListAs("payload", "payload")
      BY DEF Types, Known, ListAs
    <3>2. IsValue(ts, "payload", 0, n)
      BY <2>3, <2>6, <2>8, <3>1
    <3> HIDE DEF n
    <3> QED BY <1>1, <2>1, <2>4, <2>8, <3>2 DEF GrammarInv
  <2> QED BY <2>7, <2>8
<1>19. ReadField \/ ReadLastField \/ ReadMerchant \/ ReadNull \/ SkipScalar => ReadScalar /\ outcome' = outcome
  BY DEF ReadField, ReadLastField, ReadMerchant, ReadNull, SkipScalar, ReadScalar
<1> QED BY <1>2, <1>7, <1>9, <1>11, <1>13, <1>14, <1>15, <1>17, <1>18, <1>19 DEF ParseNext, Read

(***************************************************************************)
(* What is derived is parsed.  The grammar again, as a parser reads it:    *)
(* from what has been read up to n to the end e of the list.  Chain: with  *)
(* a value of the list that ends at m, which others may follow.            *)
(***************************************************************************)
Closes(ts, n, e, bracket) == e = n + 1 /\ Has(ts, e, bracket)

Ends(ts, of, m, e) ==
  IF of \in Arrays THEN Closes(ts, m, e, "]")
  ELSE Closes(ts, m, e, "}") \/ (Has(ts, m + 1, ",") /\ Closes(ts, m + 1, e, "}"))

ItemTo(ts, of, n, m) ==
  IF of \in Arrays THEN IsValue(ts, ElementType(of), n, m)
  ELSE /\ Has(ts, n + 1, "string") /\ Has(ts, n + 2, ":")
       /\ IsValue(ts, MemberType(of, ts[n + 1].s), n + 2, m)

Chain(ts, of, m, e) ==
  \E ends \in SUBSET Nat :
    /\ m \in ends
    /\ \A k \in ends : \/ Ends(ts, of, k, e)
                       \/ \E j \in ends : Has(ts, k + 1, ",") /\ ItemTo(ts, of, k + 1, j)

Item(ts, of, n, e) == \E m : ItemTo(ts, of, n, m) /\ Chain(ts, of, m, e)

Opens(ts, of, n, e) ==
  IF of \in Arrays THEN Has(ts, n + 1, "[") /\ (Closes(ts, n + 1, e, "]") \/ Item(ts, of, n + 1, e))
  ELSE Has(ts, n + 1, "{") /\ (Closes(ts, n + 1, e, "}") \/ Item(ts, of, n + 1, e))

LEMMA ChainEnds ==
  ASSUME NEW ts, NEW of, NEW m \in Nat, NEW e, Ends(ts, of, m, e)
  PROVE  Chain(ts, of, m, e)
<1>1. {m} \in SUBSET Nat /\ m \in {m} /\ \A k \in {m} : Ends(ts, of, k, e)
  OBVIOUS
<1> QED BY Zenon, <1>1 DEF Chain

LEMMA ChainCases ==
  ASSUME NEW ts, NEW of, NEW m, NEW e, Chain(ts, of, m, e)
  PROVE  m \in Nat /\ (Ends(ts, of, m, e) \/ (Has(ts, m + 1, ",") /\ Item(ts, of, m + 1, e)))
<1>1. PICK ends \in SUBSET Nat :
        /\ m \in ends
        /\ \A k \in ends : \/ Ends(ts, of, k, e)
                           \/ \E j \in ends : Has(ts, k + 1, ",") /\ ItemTo(ts, of, k + 1, j)
  BY Zenon DEF Chain
<1>2. \A j \in ends : Chain(ts, of, j, e)
  BY Zenon, <1>1 DEF Chain
<1> QED BY Zenon, <1>1, <1>2 DEF Item

LEMMA ChainGoes ==
  ASSUME NEW ts, NEW of, NEW m \in Nat, NEW e, Has(ts, m + 1, ","), Item(ts, of, m + 1, e)
  PROVE  Chain(ts, of, m, e)
<1>1. PICK j : ItemTo(ts, of, m + 1, j) /\ Chain(ts, of, j, e)
  BY Zenon DEF Item
<1>2. PICK ends \in SUBSET Nat :
        /\ j \in ends
        /\ \A k \in ends : \/ Ends(ts, of, k, e)
                           \/ \E i \in ends : Has(ts, k + 1, ",") /\ ItemTo(ts, of, k + 1, i)
  BY Zenon, <1>1 DEF Chain
<1> DEFINE more == ends \union {m}
<1>3. more \in SUBSET Nat /\ m \in more /\ j \in more
  BY <1>2
<1>4. ASSUME NEW k \in more
      PROVE  \/ Ends(ts, of, k, e)
             \/ \E i \in more : Has(ts, k + 1, ",") /\ ItemTo(ts, of, k + 1, i)
  <2>1. CASE k = m
    BY Zenon, <1>1, <1>3, <2>1
  <2>2. CASE k \in ends
    BY Zenon, <1>2, <2>2
  <2> QED BY <2>1, <2>2
<1> HIDE DEF more
<1> QED BY Zenon, <1>3, <1>4 DEF Chain

\* A list that was begun at i is read from there.
LEMMA ListDown ==
  ASSUME NEW ts, Len(ts) \in Nat, NEW of \in Lists, NEW i, NEW n, IsList(ts, of, i, n),
         NEW e, Chain(ts, of, n, e)
  PROVE  Opens(ts, of, i, e)
<1> DEFINE hi == Len(ts)
           Down(m) == IsList(ts, of, i, m) /\ Chain(ts, of, m, e) => Opens(ts, of, i, e)
           T == {k \in 0 .. hi : \A m \in 1 .. k : Down(m)}
<1>1. ASSUME NEW m \in 1 .. hi, \A k \in 1 .. (m - 1) : Down(k), IsList(ts, of, i, m), Chain(ts, of, m, e)
      PROVE  Opens(ts, of, i, e)
  <2>1. PICK key, v : LET f == [of |-> of, key |-> key]
                      IN  IsValue(ts, AsOf(f), v, m) /\ Follows(ts, f, i, v)
    BY <1>1, ListForms
  <2> DEFINE f == [of |-> of, key |-> key]
  <2>2. f.of = of /\ f.key = key /\ IsValue(ts, AsOf(f), v, m) /\ Follows(ts, f, i, v)
    BY <2>1
  <2> HIDE DEF f
  <2>3. v \in 0 .. (m - 1)
    BY <2>2, ValueForms
  <2>4. ASSUME NEW k \in Int, k < m, IsList(ts, of, i, k) PROVE k \in 1 .. (m - 1) /\ k \in Nat /\ k \in 1 .. hi
    <3>1. k \in 1 .. Len(ts)
      BY <2>4, ListForms
    <3> QED BY <2>4, <3>1
  <2> HIDE DEF hi
  <2>5. CASE of \in Arrays
    <3>1. ItemTo(ts, of, v, m)
      BY <2>2, <2>5 DEF ItemTo, AsOf
    <3>2. Item(ts, of, v, e)
      BY Zenon, <1>1, <3>1 DEF Item
    <3>3. Begun(ts, i, v, "[") \/ (Has(ts, v, ",") /\ IsList(ts, of, i, v - 1))
      BY <2>2, <2>5 DEF Follows
    <3>4. CASE Begun(ts, i, v, "[")
      <4>1. i + 1 = v /\ Has(ts, v, "[")
        BY <2>3, <3>4 DEF Begun
      <4> QED BY <2>5, <3>2, <4>1 DEF Opens
    <3>5. CASE Has(ts, v, ",") /\ IsList(ts, of, i, v - 1)
      <4>1. v - 1 \in Int /\ v - 1 < m /\ v - 1 + 1 = v
        BY <2>3
      <4>2. v - 1 \in 1 .. (m - 1) /\ v - 1 \in Nat
        BY <2>4, <3>5, <4>1
      <4>3. Chain(ts, of, v - 1, e)
        BY <3>2, <3>5, <4>1, <4>2, ChainGoes
      <4> QED BY <1>1, <3>5, <4>2, <4>3
    <3> QED BY <3>3, <3>4, <3>5
  <2>6. CASE of \notin Arrays
    <3> DEFINE w == v - 2
    <3>1. /\ Has(ts, v, ":") /\ Has(ts, v - 1, "string") /\ ts[v - 1].s = key
          /\ Begun(ts, i, w, "{") \/ (Has(ts, w, ",") /\ IsList(ts, of, i, v - 3))
      BY <2>2, <2>6 DEF Follows
    <3>2. w \in Int /\ w + 1 = v - 1 /\ w + 2 = v /\ w - 1 = v - 3 /\ w - 1 \in Int /\ w - 1 < m /\ w - 1 + 1 = w
      BY <2>3
    <3> HIDE DEF w
    <3>3. ItemTo(ts, of, w, m)
      BY <2>2, <2>6, <3>1, <3>2 DEF ItemTo, AsOf
    <3>4. Item(ts, of, w, e)
      BY Zenon, <1>1, <3>3 DEF Item
    <3>5. CASE Begun(ts, i, w, "{")
      <4>1. i + 1 = w /\ Has(ts, w, "{")
        BY <3>2, <3>5 DEF Begun
      <4> QED BY <2>6, <3>4, <4>1 DEF Opens
    <3>6. CASE Has(ts, w, ",") /\ IsList(ts, of, i, w - 1)
      <4>1. w - 1 \in 1 .. (m - 1) /\ w - 1 \in Nat
        BY <2>4, <3>2, <3>6
      <4>2. Chain(ts, of, w - 1, e)
        BY <3>2, <3>4, <3>6, <4>1, ChainGoes
      <4> QED BY <1>1, <3>6, <4>1, <4>2
    <3> QED BY <3>1, <3>2, <3>5, <3>6
  <2> QED BY <2>5, <2>6
<1>2. hi \in Nat /\ 0 \in T
  OBVIOUS
<1>3. ASSUME NEW k \in 0 .. (hi - 1), k \in T PROVE k + 1 \in T
  <2>1. k + 1 \in 1 .. hi /\ k + 1 \in 0 .. hi /\ k + 1 - 1 = k /\ \A m \in 1 .. (k + 1) : m \in 1 .. k \/ m = k + 1
    BY <1>2
  <2>2. \A m \in 1 .. k : Down(m)
    BY <1>3
  <2>3. Down(k + 1)
    BY <1>1, <2>1, <2>2
  <2> HIDE DEF Down
  <2> QED BY <2>1, <2>2, <2>3
<1>4. 0 .. hi \subseteq T
  <2> HIDE DEF T, hi
  <2> QED BY <1>2, <1>3, IntervalInduction
<1>5. n \in 1 .. hi
  BY ListForms
<1>6. n \in T
  BY <1>2, <1>4, <1>5
<1>7. Down(n)
  <2> HIDE DEF Down, hi
  <2> QED BY <1>5, <1>6
<1> QED BY <1>7

\* How a value begins, and what is left of it then.
LEMMA ValueDown ==
  ASSUME NEW ts, Len(ts) \in Nat, NEW as, NEW n, NEW m, IsValue(ts, as, n, m)
  PROVE  /\ n \in Nat /\ m \in Nat /\ n + 1 \in 1 .. Len(ts)
         /\ \/ m = n + 1 /\ ScalarAs(as, ts[n + 1])
            \/ \E of \in Lists : ListAs(as, of) /\ Opens(ts, of, n, m)
<1>1. /\ m \in 1 .. Len(ts) /\ n \in 0 .. (m - 1)
      /\ \/ n = m - 1 /\ ScalarAs(as, ts[m])
         \/ \E of \in Arrays : ListAs(as, of) /\ Elements(ts, of, n, m)
         \/ \E of \in Objects : ListAs(as, of) /\ Members(ts, of, n, m)
  BY ValueForms
<1>2. n \in Nat /\ m \in Nat /\ n + 1 \in 1 .. Len(ts) /\ m - 1 + 1 = m /\ m - 2 + 1 = m - 1
  <2> DEFINE l == Len(ts)
  <2>1. l \in Nat /\ m \in 1 .. l /\ n \in 0 .. (m - 1)
    BY <1>1
  <2> HIDE DEF l
  <2>2. n \in Nat /\ m \in Nat /\ n + 1 \in 1 .. l /\ m - 1 + 1 = m /\ m - 2 + 1 = m - 1
    BY <2>1
  <2> QED BY <2>2 DEF l
<1>3. Begun(ts, n, m - 1, "[") \/ Begun(ts, n, m - 1, "{") => n + 1 = m - 1 /\ m = n + 1 + 1
  <2>1. n \in Nat /\ m \in Nat
    BY <1>2
  <2>2. n = m - 1 - 1 => n + 1 = m - 1 /\ m = n + 1 + 1
    BY <2>1
  <2> QED BY <2>2 DEF Begun
<1>4. ASSUME NEW of \in Lists, NEW k, IsList(ts, of, n, k) PROVE k \in Nat
  <2>1. k \in 1 .. Len(ts)
    BY <1>4, ListForms
  <2> QED BY <2>1
<1>5. CASE n = m - 1 /\ ScalarAs(as, ts[m])
  <2>1. m = n + 1
    BY <1>2, <1>5
  <2> QED BY <1>2, <1>5, <2>1
<1>6. ASSUME NEW of \in Arrays, ListAs(as, of), Elements(ts, of, n, m)
      PROVE  Opens(ts, of, n, m)
  <2>1. of \in Lists
    BY <1>6 DEF Lists
  <2>2. CASE Begun(ts, n, m - 1, "[")
    <3>1. n + 1 = m - 1 /\ m = n + 1 + 1
      BY <1>3, <2>2
    <3>2. Has(ts, n + 1, "[") /\ Has(ts, m, "]")
      BY <1>6, <2>2, <3>1 DEF Begun, Elements
    <3> QED BY <1>6, <3>1, <3>2 DEF Opens, Closes
  <2>3. CASE IsList(ts, of, n, m - 1)
    <3>1. m - 1 \in Nat
      BY <1>4, <2>1, <2>3
    <3>2. Ends(ts, of, m - 1, m)
      BY <1>2, <1>6 DEF Ends, Closes, Elements
    <3>3. Chain(ts, of, m - 1, m)
      BY <3>1, <3>2, ChainEnds
    <3> QED BY <2>1, <2>3, <3>3, ListDown
  <2> QED BY <1>6, <2>2, <2>3 DEF Elements
<1>7. ASSUME NEW of \in Objects, ListAs(as, of), Members(ts, of, n, m)
      PROVE  Opens(ts, of, n, m)
  <2>1. of \in Lists /\ of \notin Arrays
    BY <1>7 DEF Lists, Objects, Arrays, Known
  <2>2. CASE Begun(ts, n, m - 1, "{")
    <3>1. n + 1 = m - 1 /\ m = n + 1 + 1
      BY <1>3, <2>2
    <3>2. Has(ts, n + 1, "{") /\ Has(ts, m, "}")
      BY <1>7, <2>2, <3>1 DEF Begun, Members
    <3> QED BY <2>1, <3>1, <3>2 DEF Opens, Closes
  <2>3. CASE IsList(ts, of, n, m - 1)
    <3>1. m - 1 \in Nat
      BY <1>4, <2>1, <2>3
    <3>2. Ends(ts, of, m - 1, m)
      BY <1>2, <1>7, <2>1 DEF Ends, Closes, Members
    <3>3. Chain(ts, of, m - 1, m)
      BY <3>1, <3>2, ChainEnds
    <3> QED BY <2>1, <2>3, <3>3, ListDown
  <2>4. CASE Has(ts, m - 1, ",") /\ IsList(ts, of, n, m - 2)
    <3>1. m - 2 \in Nat
      BY <1>4, <2>1, <2>4
    <3>2. Ends(ts, of, m - 2, m)
      BY <1>2, <1>7, <2>1, <2>4 DEF Ends, Closes, Members
    <3>3. Chain(ts, of, m - 2, m)
      BY <3>1, <3>2, ChainEnds
    <3> QED BY <2>1, <2>4, <3>3, ListDown
  <2> QED BY <1>7, <2>2, <2>3, <2>4 DEF Members
<1> QED BY <1>1, <1>2, <1>5, <1>6, <1>7 DEF Lists

\* A token that the grammar has is the one that is looked at.
LEMMA PeekHas ==
  ASSUME ParserTypeOK, NEW kind, Has(input.tokens, pos + 1, kind)
  PROVE  Peek = input.tokens[pos + 1] /\ Peek.is = kind
<1>1. Len(input.tokens) \in Nat /\ DOMAIN input.tokens = 1 .. Len(input.tokens) /\ pos \in Nat
  BY InputsAssumption DEF IsBody, ParserTypeOK
<1>2. pos + 1 \in 1 .. Len(input.tokens) /\ input.tokens[pos + 1].is = kind
  BY <1>1 DEF Has
<1>3. pos < Len(input.tokens)
  BY <1>1, <1>2
<1> QED BY <1>2, <1>3 DEF Peek

(***************************************************************************)
(* What a body of the grammar still has for the innermost frame from n up  *)
(* to the end e of its list; behind which the frames below go on.          *)
(***************************************************************************)
Rest(ts, f, n, e) ==
  /\ f.at \in {"first", "element"} => f.of \in Arrays
  /\ f.at \in {"member", "value"} => f.of \notin Arrays
  /\ f.at = "value" => \E m : IsValue(ts, AsOf(f), n, m) /\ Chain(ts, f.of, m, e)
  /\ f.at = "element" => Item(ts, f.of, n, e)
  /\ f.at = "first" => Closes(ts, n, e, "]") \/ Item(ts, f.of, n, e)
  /\ f.at = "member" => Closes(ts, n, e, "}") \/ Item(ts, f.of, n, e)
  /\ f.at = "after" => Chain(ts, f.of, n, e)

Behind(ts) == {x \in Frames \X Nat \X Lists \X Nat : x[1].at = "after" /\ Chain(ts, x[1].of, x[4], x[2])}

CompletenessInv ==
  LET ts == input.tokens
  IN  (\E n : IsValue(ts, "payload", 0, n)) =>
        /\ outcome # "error"
        /\ outcome = "reading" /\ stack # << >> =>
             \E e : Linked(stack, e, Behind(ts), Lists \X Nat) /\ Rest(ts, Top, pos, e[1])

LEMMA BehindIs ==
  ASSUME NEW ts, NEW f, NEW e, NEW of, NEW m
  PROVE  <<f, e, of, m>> \in Behind(ts)
         <=> f \in Frames /\ e \in Nat /\ of \in Lists /\ m \in Nat /\ f.at = "after" /\ Chain(ts, f.of, m, e)
<1> DEFINE x == <<f, e, of, m>>
<1>1. x[1] = f /\ x[2] = e /\ x[3] = of /\ x[4] = m
  OBVIOUS
<1>2. x \in Frames \X Nat \X Lists \X Nat <=> f \in Frames /\ e \in Nat /\ of \in Lists /\ m \in Nat
  OBVIOUS
<1> HIDE DEF x
<1>3. x \in Behind(ts) <=> x \in Frames \X Nat \X Lists \X Nat /\ x[1].at = "after" /\ Chain(ts, x[1].of, x[4], x[2])
  BY Zenon DEF Behind
<1> QED BY <1>1, <1>2, <1>3 DEF x

\* A frame before a value has one, or its array ends.
LEMMA RestValue ==
  ASSUME NEW ts, NEW f, f.at \in BeforeValue, NEW n, NEW e, Rest(ts, f, n, e)
  PROVE  \/ \E m : IsValue(ts, AsOf(f), n, m) /\ Chain(ts, f.of, m, e)
         \/ f.at = "first" /\ f.of \in Arrays /\ Closes(ts, n, e, "]")
<1>1. CASE f.at = "value"
  BY Zenon, <1>1 DEF Rest
<1>2. CASE f.at # "value"
  <2>1. f.of \in Arrays /\ (Item(ts, f.of, n, e) \/ (f.at = "first" /\ Closes(ts, n, e, "]")))
    BY <1>2 DEF Rest, BeforeValue
  <2>2. ASSUME Item(ts, f.of, n, e) PROVE \E m : IsValue(ts, AsOf(f), n, m) /\ Chain(ts, f.of, m, e)
    <3>1. PICK m : ItemTo(ts, f.of, n, m) /\ Chain(ts, f.of, m, e)
      BY Zenon, <2>2 DEF Item
    <3>2. IsValue(ts, AsOf(f), n, m)
      BY <2>1, <3>1 DEF ItemTo, AsOf
    <3> QED BY <3>1, <3>2
  <2> QED BY <2>1, <2>2
<1> QED BY <1>1, <1>2

\* The body of a payload goes on with what is expected.
LEMMA PayloadExpected ==
  ASSUME ParserTypeOK, GrammarInv, CompletenessInv, Reading,
         NEW n, IsValue(input.tokens, "payload", 0, n)
  PROVE  Expected
<1> DEFINE ts == input.tokens
<1>0. Len(ts) \in Nat /\ pos \in Nat /\ stack \in Seq(Frames) /\ outcome = "reading"
  BY InputsAssumption DEF ParserTypeOK, IsBody, Reading
<1>1. \A kind : Has(ts, pos + 1, kind) => Peek = ts[pos + 1] /\ Peek.is = kind
  <2> SUFFICES ASSUME NEW kind, Has(ts, pos + 1, kind) PROVE Peek = ts[pos + 1] /\ Peek.is = kind
    OBVIOUS
  <2> QED BY PeekHas
<1>2. CASE stack = << >>
  <2>1. pos = 0
    BY <1>0, <1>2 DEF GrammarInv
  <2>2. IsValue(ts, "payload", 0, n)
    OBVIOUS
  <2> HIDE DEF ts
  <2>3. PICK of \in Lists : ListAs("payload", of) /\ Opens(ts, of, 0, n)
    <3>1. ~ ScalarAs("payload", ts[0 + 1])
      BY DEF ScalarAs
    <3> QED BY <1>0, <2>2, <3>1, ValueDown
  <2>4. of = "payload" /\ of \notin Arrays
    BY <2>3 DEF ListAs, Arrays
  <2>5. Has(ts, 0 + 1, "{")
    BY <2>3, <2>4 DEF Opens
  <2> QED BY <1>1, <1>2, <2>1, <2>5 DEF Expected
<1>3. CASE stack # << >>
  <2>1. PICK e : Rest(ts, Top, pos, e[1])
    BY <1>0, <1>3 DEF CompletenessInv
  <2>2. Top \in Frames /\ (IsArray <=> Top.of \in Arrays)
    <3>1. Head(stack) \in Frames
      BY <1>0, <1>3
    <3> QED BY <3>1 DEF Top, IsArray, Arrays
  <2> DEFINE z == e[1]
  <2>3. Rest(ts, Top, pos, z)
    BY <2>1
  <2> HIDE DEF ts, z
  <2>4. CASE Top.at \in BeforeValue
    <3>1. CASE Top.at = "first" /\ Top.of \in Arrays /\ Closes(ts, pos, z, "]")
      BY <1>1, <1>3, <2>2, <3>1 DEF Expected, ArrayEnds, Closes
    <3>2. ASSUME NEW m, IsValue(ts, AsOf(Top), pos, m)
          PROVE  Reads(Reader, Peek) \/ ObjectComes \/ ArrayComes
      <4>1. pos + 1 \in 1 .. Len(ts)
        BY <1>0, <3>2, ValueDown
      <4>2. Peek = ts[pos + 1] /\ IsToken(Peek)
        <5>1. pos < Len(ts)
          BY <1>0, <4>1
        <5> QED BY <5>1, PeekType DEF Peek, ts
      <4>3. CASE ScalarAs(AsOf(Top), ts[pos + 1])
        BY <4>2, <4>3, ScalarRead
      <4>4. ASSUME NEW of \in Lists, ListAs(AsOf(Top), of), Opens(ts, of, pos, m)
            PROVE  ObjectComes \/ ArrayComes
        <5>1. CASE of \in Arrays
          <6>1. Peek.is = "["
            BY <1>1, <4>4, <5>1 DEF Opens
          <6>2. Reader \in {"strings", "skip"}
            BY <4>4, <5>1, ArrayRead
          <6> QED BY <6>1, <6>2 DEF ArrayComes
        <5>2. CASE of \notin Arrays
          <6>1. Peek.is = "{"
            BY <1>1, <4>4, <5>2 DEF Opens
          <6>2. Reader \in {"object", "nullable", "skip"}
            BY <4>4, <5>2, ObjectRead DEF Lists
          <6> QED BY <6>1, <6>2 DEF ObjectComes
        <5> QED BY <5>1, <5>2
      <4>5. \/ ScalarAs(AsOf(Top), ts[pos + 1])
            \/ \E of \in Lists : ListAs(AsOf(Top), of) /\ Opens(ts, of, pos, m)
        BY <1>0, <3>2, ValueDown
      <4> QED BY <4>3, <4>4, <4>5
    <3>3. \/ \E m : IsValue(ts, AsOf(Top), pos, m)
          \/ Top.at = "first" /\ Top.of \in Arrays /\ Closes(ts, pos, z, "]")
      BY <2>3, <2>4, RestValue
    <3> QED BY <1>3, <2>4, <3>1, <3>2, <3>3 DEF Expected
  <2>5. CASE Top.at = "member"
    <3>1. Top.of \notin Arrays /\ (Closes(ts, pos, z, "}") \/ Item(ts, Top.of, pos, z))
      BY <2>3, <2>5 DEF Rest
    <3>2. CASE Closes(ts, pos, z, "}")
      BY <1>1, <1>3, <2>2, <2>5, <3>1, <3>2 DEF Expected, ObjectEnds, Closes
    <3>3. CASE Item(ts, Top.of, pos, z)
      <4>1. Has(ts, pos + 1, "string") /\ Has(ts, pos + 2, ":")
        BY Zenon, <3>1, <3>3 DEF Item, ItemTo
      <4>2. DOMAIN ts = 1 .. Len(ts)
        BY InputsAssumption DEF ParserTypeOK, IsBody, ts
      <4>3. pos + 2 \in 1 .. Len(ts) /\ ts[pos + 2].is = ":"
        BY <4>1, <4>2 DEF Has
      <4>4. pos + 2 <= Len(ts)
        BY <1>0, <4>3
      <4> QED BY <1>1, <1>3, <2>5, <4>1, <4>3, <4>4 DEF Expected, KeyComes, ts
    <3> QED BY <3>1, <3>2, <3>3
  <2>6. CASE Top.at = "after"
    <3>1. Ends(ts, Top.of, pos, z) \/ Has(ts, pos + 1, ",")
      BY <2>3, <2>6, ChainCases DEF Rest
    <3>2. CASE Has(ts, pos + 1, ",")
      BY <1>1, <1>3, <2>6, <3>2 DEF Expected
    <3>3. CASE Ends(ts, Top.of, pos, z) /\ Top.of \in Arrays
      BY <1>1, <1>3, <2>2, <2>6, <3>3 DEF Expected, ArrayEnds, Closes, Ends
    <3>4. CASE Ends(ts, Top.of, pos, z) /\ Top.of \notin Arrays /\ ~ Has(ts, pos + 1, ",")
      BY <1>1, <1>3, <2>2, <2>6, <3>4 DEF Expected, ObjectEnds, Closes, Ends
    <3> QED BY <3>1, <3>2, <3>3, <3>4
  <2>7. Top.at \in BeforeValue \union {"member", "after"}
    BY <2>2 DEF Frames, BeforeValue
  <2> QED BY <2>4, <2>5, <2>6, <2>7
<1> QED BY <1>2, <1>3

LEMMA CompletenessStep ==
  ASSUME ParserTypeOK, GrammarInv, CompletenessInv, ParseNext
  PROVE  CompletenessInv'
<1> DEFINE ts == input.tokens
           s == stack
           After == [Top EXCEPT !.at = "after"]
           Stands(e) == Linked(s, e, Behind(ts), Lists \X Nat) /\ Rest(ts, Top, pos, e[1])
<1>0. /\ Len(ts) \in Nat /\ pos \in Nat /\ s \in Seq(Frames) /\ IsToken(Peek)
      /\ DOMAIN ts = 1 .. Len(ts) /\ input \in Inputs /\ pos + 1 \in Nat
  BY PeekType, InputsAssumption DEF ParserTypeOK, IsBody
<1>1. outcome = "reading" /\ input' = input /\ Reading
  BY DEF ParseNext, Read, Fail, OpenPayload, ReadKey, ReadField, ReadLastField, ReadMerchant, ReadNull,
         SkipScalar, ReadScalar, OpenObject, OpenArray, Comma, CloseArray, CloseObject, Advance,
         Reading, At
<1> SUFFICES ASSUME NEW n, IsValue(ts, "payload", 0, n)
             PROVE  /\ outcome' # "error"
                    /\ outcome' = "reading" /\ stack' # << >> =>
                         \E e : Linked(stack', e, Behind(ts), Lists \X Nat) /\ Rest(ts, Head(stack'), pos', e[1])
  BY <1>1 DEF CompletenessInv, Top
<1>2. CASE Fail
  BY <1>1, <1>2, PayloadExpected DEF Fail
<1>3. ASSUME stack # << >>
      PROVE  /\ \E e : Stands(e)
             /\ Top = s[1] /\ Top \in Frames /\ Top.of \in Lists /\ (IsArray <=> Top.of \in Arrays)
  <2>1. \E e : Stands(e)
    BY <1>1, <1>3 DEF CompletenessInv
  <2>2. Top = s[1] /\ Top \in Frames
    <3> HIDE DEF ts
    <3>1. Head(s) = s[1] /\ s[1] \in Frames
      BY <1>0, <1>3
    <3> QED BY <3>1 DEF Top
  <2>3. Top.of \in Lists /\ (IsArray <=> Top.of \in Arrays)
    BY <2>2 DEF Frames, Lists, Arrays, Objects, IsArray
  <2> QED BY <2>1, <2>2, <2>3
<1>4. ASSUME stack # << >>, NEW e, Stands(e) PROVE e \in Seq(Nat) /\ e[1] \in Nat
  <2>1. e \in Seq(Nat) /\ Len(e) = Len(s)
    BY <1>4 DEF Linked
  <2> HIDE DEF ts
  <2>2. Len(s) > 0
    BY <1>0, <1>4
  <2> QED BY <2>1, <2>2
<1>5. \A kind : Has(ts, pos + 1, kind) => Peek = ts[pos + 1] /\ Peek.is = kind
  <2> SUFFICES ASSUME NEW kind, Has(ts, pos + 1, kind) PROVE Peek = ts[pos + 1] /\ Peek.is = kind
    OBVIOUS
  <2> QED BY PeekHas
<1>6. /\ Has(ts, pos + 1, "[") => Peek.is = "["
      /\ Has(ts, pos + 1, "]") => Peek.is = "]"
      /\ Has(ts, pos + 1, "{") => Peek.is = "{"
      /\ Has(ts, pos + 1, "}") => Peek.is = "}"
      /\ Has(ts, pos + 1, ",") => Peek.is = ","
      /\ Has(ts, pos + 1, "string") => Peek.is = "string" /\ Peek = ts[pos + 1]
  <2> HIDE DEF ts
  <2> QED BY <1>5
<1>7. \A f \in Frames : /\ <<f>> \o Tail(s) # << >> /\ Head(<<f>> \o Tail(s)) = f
                        /\ Head(<<f>> \o (<<f>> \o Tail(s))) = f
  BY <1>0
\* The value that is derived here, by the token it begins with.
<1>8. ASSUME stack # << >>, Top.at \in BeforeValue, NEW e, Stands(e), Peek.is # "]"
      PROVE  \E m : /\ IsValue(ts, AsOf(Top), pos, m) /\ Chain(ts, Top.of, m, e[1])
                    /\ m \in Nat
                    /\ \/ m = pos + 1 /\ ScalarAs(AsOf(Top), Peek)
                       \/ \E of \in Arrays : /\ ListAs(AsOf(Top), of) /\ Peek.is = "["
                                             /\ Closes(ts, pos + 1, m, "]") \/ Item(ts, of, pos + 1, m)
                       \/ \E of \in Objects : /\ ListAs(AsOf(Top), of) /\ Peek.is = "{"
                                              /\ Closes(ts, pos + 1, m, "}") \/ Item(ts, of, pos + 1, m)
  <2> DEFINE z == e[1]
  <2>1. Rest(ts, Top, pos, z)
    BY <1>8
  <2> HIDE DEF ts, z
  <2>2. ~ Closes(ts, pos, z, "]")
    BY <1>6, <1>8 DEF Closes
  <2>3. PICK m : IsValue(ts, AsOf(Top), pos, m) /\ Chain(ts, Top.of, m, z)
    BY <1>8, <2>1, <2>2, RestValue
  <2>4. /\ m \in Nat /\ pos + 1 \in 1 .. Len(ts)
        /\ \/ m = pos + 1 /\ ScalarAs(AsOf(Top), ts[pos + 1])
           \/ \E of \in Lists : ListAs(AsOf(Top), of) /\ Opens(ts, of, pos, m)
    BY <1>0, <2>3, ValueDown
  <2>5. Peek = ts[pos + 1]
    <3>1. pos < Len(ts)
      BY <1>0, <2>4
    <3> QED BY <3>1 DEF Peek, ts
  <2>6. ASSUME NEW of \in Lists, Opens(ts, of, pos, m)
        PROVE  \/ /\ of \in Arrays /\ Peek.is = "["
                  /\ Closes(ts, pos + 1, m, "]") \/ Item(ts, of, pos + 1, m)
               \/ /\ of \in Objects /\ Peek.is = "{"
                  /\ Closes(ts, pos + 1, m, "}") \/ Item(ts, of, pos + 1, m)
    BY <1>6, <2>6 DEF Opens, Lists
  <2>7. \/ m = pos + 1 /\ ScalarAs(AsOf(Top), Peek)
        \/ \E of \in Arrays : /\ ListAs(AsOf(Top), of) /\ Peek.is = "["
                              /\ Closes(ts, pos + 1, m, "]") \/ Item(ts, of, pos + 1, m)
        \/ \E of \in Objects : /\ ListAs(AsOf(Top), of) /\ Peek.is = "{"
                               /\ Closes(ts, pos + 1, m, "}") \/ Item(ts, of, pos + 1, m)
    BY <2>4, <2>5, <2>6
  <2> QED BY <2>3, <2>4, <2>7 DEF z
\* A step of the frame on top.
<1>9. ASSUME stack # << >>, outcome' = outcome, NEW e, Stands(e),
             NEW f \in Frames, f.of = Top.of, stack' = <<f>> \o Tail(s), Rest(ts, f, pos', e[1])
      PROVE  /\ outcome' # "error"
             /\ \E c : Linked(stack', c, Behind(ts), Lists \X Nat) /\ Rest(ts, Head(stack'), pos', c[1])
  <2>1. stack' # << >> /\ Head(stack') = f
    BY <1>7, <1>9
  <2>2. Top = s[1] /\ Linked(s, e, Behind(ts), Lists \X Nat)
    BY <1>3, <1>9
  <2> HIDE DEF ts
  <2>3. Linked(stack', e, Behind(ts), Lists \X Nat)
    BY <1>0, <1>9, <2>2, LinkedMoved
  <2> QED BY <1>1, <1>9, <2>1, <2>3
<1>10. CASE OpenPayload
  <2> DEFINE f == Frame("payload", "member")
             c == <<n>>
             one == <<f>>
  <2>1. Peek.is = "{" /\ pos' = pos + 1 /\ stack = << >> /\ stack' = one /\ outcome' = outcome
    BY <1>10 DEF OpenPayload, Advance
  <2>2. pos = 0 /\ pos' = 1
    <3>1. pos = 0
      BY <1>1, <2>1 DEF GrammarInv
    <3> HIDE DEF f, one, ts
    <3>2. pos' = pos + 1
      BY <2>1
    <3> QED BY <3>1, <3>2
  <2>3. f.of = "payload" /\ f.at = "member" /\ f.of \notin Arrays /\ f.of \in Lists
    BY DEF Frame, Lists, Objects, Arrays, Known
  <2> HIDE DEF f, ts
  <2>4. n \in Nat /\ (Closes(ts, 1, n, "}") \/ Item(ts, "payload", 1, n))
    <3>1. ~ ScalarAs("payload", ts[0 + 1]) /\ 0 + 1 = 1
      BY DEF ScalarAs
    <3>2. n \in Nat /\ \E of \in Lists : ListAs("payload", of) /\ Opens(ts, of, 0, n)
      BY <1>0, <3>1, ValueDown
    <3>3. \A of : ListAs("payload", of) => of = "payload"
      BY DEF ListAs
    <3>4. Opens(ts, "payload", 0, n)
      BY <3>2, <3>3
    <3> QED BY <2>3, <3>1, <3>2, <3>4 DEF Opens
  <2>5. Rest(ts, f, 1, n)
    BY <2>3, <2>4 DEF Rest
  <2>6. /\ Len(one) = 1 /\ one[1] = f /\ one # << >> /\ Head(one) = f
        /\ c \in Seq(Nat) /\ Len(c) = 1 /\ c[1] = n
    <3>1. n \in Nat
      BY <2>4
    <3>2. Len(one) = 1 /\ one[1] = f /\ one # << >> /\ Head(one) = f
      OBVIOUS
    <3>3. c \in Seq(Nat) /\ Len(c) = 1 /\ c[1] = n
      BY <3>1
    <3> QED BY <3>2, <3>3
  <2>7. \A k \in 2 .. 1 : FALSE
    OBVIOUS
  <2> HIDE DEF one, c
  <2>8. Linked(one, c, Behind(ts), Lists \X Nat)
    BY <2>3, <2>4, <2>6, <2>7 DEF Linked
  <2> QED BY <1>1, <2>1, <2>2, <2>5, <2>6, <2>8
<1>11. CASE ReadKey
  <2> DEFINE f == [Top EXCEPT !.at = "value", !.key = Peek.s]
  <2>1. /\ stack # << >> /\ Top.at = "member" /\ Peek.is = "string"
        /\ stack' = <<f>> \o Tail(s) /\ pos' = pos + 2 /\ outcome' = outcome
    BY <1>11 DEF ReadKey, At, KeyComes, Advance
  <2>2. PICK e : Stands(e)
    BY <1>3, <2>1
  <2>3. Top \in Frames
    BY <1>3, <2>1
  <2>4. f \in Frames /\ f.of = Top.of /\ f.at = "value" /\ f.key = Peek.s
    <3>1. Peek.s \in Texts
      BY <1>0, <2>1 DEF IsToken, Texts
    <3> QED BY <2>3, <3>1 DEF Frames
  <2> DEFINE z == e[1]
  <2>5. Rest(ts, Top, pos, z)
    BY <2>2
  <2> HIDE DEF f, z, ts
  <2>6. Top.of \notin Arrays /\ Item(ts, Top.of, pos, z)
    BY <1>6, <2>1, <2>5 DEF Rest, Closes
  <2>7. PICK m : ItemTo(ts, Top.of, pos, m) /\ Chain(ts, Top.of, m, z)
    BY Zenon, <2>6 DEF Item
  <2>8. Has(ts, pos + 1, "string") /\ IsValue(ts, MemberType(Top.of, ts[pos + 1].s), pos + 2, m)
    BY <2>6, <2>7 DEF ItemTo
  <2>9. IsValue(ts, AsOf(f), pos + 2, m)
    BY <1>6, <2>4, <2>6, <2>8 DEF AsOf
  <2>10. Rest(ts, f, pos + 2, z)
    BY <2>4, <2>6, <2>7, <2>9 DEF Rest
  <2> QED BY <1>9, <2>1, <2>2, <2>4, <2>10 DEF z, ts
<1>12. ASSUME stack # << >>
       PROVE  After \in Frames /\ After.of = Top.of /\ After.at = "after"
  BY <1>3, <1>12 DEF Frames
<1>13. CASE ReadScalar /\ outcome' = outcome
  <2>1. /\ stack # << >> /\ Top.at \in BeforeValue /\ Reads(Reader, Peek)
        /\ stack' = <<After>> \o Tail(s) /\ pos' = pos + 1 /\ outcome' = outcome
    BY <1>13 DEF ReadScalar, At, Advance, MoveTo
  <2>2. Peek.is \notin {"]", "[", "{"}
    BY <2>1 DEF Reads
  <2>3. PICK e : Stands(e)
    BY <1>3, <2>1
  <2>4. Chain(ts, Top.of, pos + 1, e[1])
    BY <1>8, <2>1, <2>2, <2>3
  <2>5. After \in Frames /\ After.of = Top.of /\ After.at = "after"
    BY <1>12, <2>1
  <2> HIDE DEF After
  <2>6. Rest(ts, After, pos + 1, e[1])
    BY <2>4, <2>5 DEF Rest
  <2> QED BY <1>9, <2>1, <2>3, <2>5, <2>6
\* An array or object begins.
<1>14. ASSUME stack # << >>, NEW e, Stands(e), NEW m \in Nat, Chain(ts, Top.of, m, e[1]),
              NEW g \in Frames, Rest(ts, g, pos + 1, m),
              stack' = <<g>> \o MoveTo("after"), pos' = pos + 1, outcome' = outcome
       PROVE  /\ outcome' # "error"
              /\ \E c : Linked(stack', c, Behind(ts), Lists \X Nat) /\ Rest(ts, Head(stack'), pos', c[1])
  <2>1. stack' = <<g>> \o (<<After>> \o Tail(s))
    BY <1>14 DEF MoveTo
  <2>2. Top = s[1] /\ e \in Seq(Nat) /\ e[1] \in Nat /\ g.of \in Lists
    <3>1. g.of \in Lists
      BY DEF Frames, Lists, Arrays, Objects
    <3> QED BY <1>3, <1>4, <1>14, <3>1
  <2>3. After \in Frames /\ After.of = Top.of /\ After.at = "after"
    BY <1>12, <1>14
  <2> DEFINE u == <<g>> \o (<<After>> \o Tail(s))
  <2>4. Head(u) = g
    BY <1>0, <2>3
  <2> HIDE DEF ts, After
  <2>5. <<After, e[1], g.of, m>> \in Behind(ts)
    BY <1>14, <2>2, <2>3, BehindIs
  <2>6. Linked(u, <<m>> \o e, Behind(ts), Lists \X Nat)
    BY <1>0, <1>14, <2>2, <2>3, <2>5, LinkedPushed
  <2>7. (<<m>> \o e)[1] = m
    BY <2>2
  <2> HIDE DEF u
  <2> QED BY <1>1, <1>14, <2>1, <2>4, <2>6, <2>7 DEF u
<1>15. CASE OpenObject
  <2> DEFINE of == IF Reader = "skip" THEN "skippedObject" ELSE Top.key
             g == Frame(of, "member")
  <2>1. /\ stack # << >> /\ Top.at \in BeforeValue /\ Peek.is = "{"
        /\ Reader \in {"object", "nullable", "skip"}
        /\ stack' = <<g>> \o MoveTo("after") /\ pos' = pos + 1 /\ outcome' = outcome
    BY <1>15 DEF OpenObject, ObjectComes, At, Advance
  <2>2. PICK e : Stands(e)
    BY <1>3, <2>1
  <2>3. of \in Objects /\ \A o \in Objects : ListAs(AsOf(Top), o) => o = of
    BY <2>1, ObjectRead
  <2> HIDE DEF of
  <2>4. g \in Frames /\ g.of = of /\ g.at = "member" /\ g.of \notin Arrays
    <3>1. "" \in Texts
      BY EmptyTypes DEF Texts
    <3>2. g.of = of /\ g.at = "member" /\ g.key = "" /\ g = [of |-> of, at |-> "member", key |-> ""]
      BY DEF Frame
    <3>3. of \notin Arrays
      BY <2>3 DEF Objects, Arrays, Known
    <3> HIDE DEF g
    <3> QED BY <2>3, <3>1, <3>2, <3>3 DEF Frames, Objects
  <2> HIDE DEF g
  <2>5. ~ ScalarAs(AsOf(Top), Peek)
    BY <2>1 DEF ScalarAs
  <2>6. PICK m \in Nat : /\ Chain(ts, Top.of, m, e[1])
                         /\ Closes(ts, pos + 1, m, "}") \/ Item(ts, of, pos + 1, m)
    <3>1. Peek.is # "]" /\ Peek.is # "["
      BY <2>1
    <3> HIDE DEF ts, Stands
    <3> QED BY <1>8, <2>1, <2>2, <2>3, <2>5, <3>1
  <2>7. Rest(ts, g, pos + 1, m)
    BY <2>4, <2>6 DEF Rest
  <2> QED BY <1>14, <2>1, <2>2, <2>4, <2>6, <2>7
<1>16. CASE OpenArray
  <2> DEFINE of == IF Reader = "skip" THEN "skippedArray" ELSE "strings"
             g == Frame(of, "first")
  <2>1. /\ stack # << >> /\ Top.at \in BeforeValue /\ Peek.is = "["
        /\ Reader \in {"strings", "skip"}
        /\ stack' = <<g>> \o MoveTo("after") /\ pos' = pos + 1 /\ outcome' = outcome
    BY <1>16 DEF OpenArray, ArrayComes, At, Advance
  <2>2. PICK e : Stands(e)
    BY <1>3, <2>1
  <2>3. of \in Arrays /\ \A o \in Arrays : ListAs(AsOf(Top), o) => o = of
    <3>1. of \in Arrays
      BY DEF Arrays
    <3> QED BY <3>1, ArrayRead
  <2> HIDE DEF of
  <2>4. g \in Frames /\ g.of = of /\ g.at = "first"
    <3>1. "" \in Texts
      BY EmptyTypes DEF Texts
    <3> QED BY <2>3, <3>1 DEF Frame, Frames, Arrays
  <2> HIDE DEF g
  <2>5. ~ ScalarAs(AsOf(Top), Peek)
    BY <2>1 DEF ScalarAs
  <2>6. PICK m \in Nat : /\ Chain(ts, Top.of, m, e[1])
                         /\ Closes(ts, pos + 1, m, "]") \/ Item(ts, of, pos + 1, m)
    <3>1. Peek.is # "]" /\ Peek.is # "{"
      BY <2>1
    <3> HIDE DEF ts, Stands
    <3> QED BY <1>8, <2>1, <2>2, <2>3, <2>5, <3>1
  <2>7. Rest(ts, g, pos + 1, m)
    BY <2>3, <2>4, <2>6 DEF Rest
  <2> QED BY <1>14, <2>1, <2>2, <2>4, <2>6, <2>7
<1>17. CASE Comma
  <2> DEFINE at == IF IsArray THEN "element" ELSE "member"
             f == [Top EXCEPT !.at = at]
  <2>1. /\ stack # << >> /\ Top.at = "after" /\ Peek.is = ","
        /\ stack' = <<f>> \o Tail(s) /\ pos' = pos + 1 /\ outcome' = outcome
    BY <1>17 DEF Comma, At, Advance, MoveTo
  <2>2. PICK e : Stands(e)
    BY <1>3, <2>1
  <2>3. Top \in Frames /\ (IsArray <=> Top.of \in Arrays)
    BY <1>3, <2>1
  <2>4. f \in Frames /\ f.of = Top.of /\ f.at = at
    BY <2>3 DEF Frames
  <2>5. at \in {"element", "member"} /\ (at = "element" <=> IsArray)
    OBVIOUS
  <2> DEFINE z == e[1]
  <2>6. Chain(ts, Top.of, pos, z)
    BY <2>1, <2>2 DEF Rest
  <2> HIDE DEF f, at, z, ts
  <2>7. Ends(ts, Top.of, pos, z) \/ (Has(ts, pos + 1, ",") /\ Item(ts, Top.of, pos + 1, z))
    BY <2>6, ChainCases
  <2>8. ~ Closes(ts, pos, z, "]") /\ ~ Closes(ts, pos, z, "}")
    BY <1>6, <2>1 DEF Closes
  <2>9. \/ Item(ts, Top.of, pos + 1, z)
        \/ Top.of \notin Arrays /\ Closes(ts, pos + 1, z, "}")
    BY <2>7, <2>8 DEF Ends
  <2>10. Rest(ts, f, pos + 1, z)
    BY <2>3, <2>4, <2>5, <2>9 DEF Rest
  <2> QED BY <1>9, <2>1, <2>2, <2>4, <2>10 DEF z, ts
\* An array or object ends where the body says.
<1>18. ASSUME stack # << >>, NEW e, Stands(e), e[1] = pos + 1, Len(s) > 1,
              stack' = Tail(s), pos' = pos + 1, outcome' = outcome
       PROVE  /\ outcome' # "error"
              /\ \E c : Linked(stack', c, Behind(ts), Lists \X Nat) /\ Rest(ts, Head(stack'), pos', c[1])
  <2> HIDE DEF ts
  <2>1. /\ <<s[2], e[2], s[1].of, e[1]>> \in Behind(ts)
        /\ Linked(Tail(s), Tail(e), Behind(ts), Lists \X Nat)
        /\ Tail(s) # << >> /\ Tail(s)[1] = s[2] /\ Tail(e)[1] = e[2]
    BY <1>0, <1>18, LinkedPopped
  <2>2. s[2].at = "after" /\ Chain(ts, s[2].of, pos + 1, e[2])
    BY <1>18, <2>1, BehindIs
  <2>3. Rest(ts, s[2], pos + 1, e[2])
    BY <2>2 DEF Rest
  <2>4. Head(Tail(s)) = s[2]
    BY <1>0, <1>18, <2>1
  <2> QED BY <1>1, <1>18, <2>1, <2>3, <2>4
<1>19. ASSUME stack # << >>, Top.of # "payload" PROVE Len(s) > 1
  <2>1. PICK c : Linked(s, c, Beneath(ts), Lowest)
    BY <1>1, <1>19 DEF GrammarInv
  <2>2. s[1].of # "payload"
    BY <1>3, <1>19
  <2> HIDE DEF ts
  <2> QED BY <1>0, <1>19, <2>1, <2>2, TopLinked
<1>20. CASE CloseArray
  <2>1. /\ stack # << >> /\ Top.at \in {"first", "after"} /\ IsArray /\ Peek.is = "]"
        /\ stack' = Tail(s) /\ pos' = pos + 1 /\ outcome' = outcome
    BY <1>20 DEF CloseArray, ArrayEnds, At, Advance
  <2>2. PICK e : Stands(e)
    BY <1>3, <2>1
  <2>3. Top.of \in Arrays /\ Top.of # "payload"
    BY <2>1 DEF IsArray, Arrays
  <2> DEFINE z == e[1]
  <2>4. Rest(ts, Top, pos, z)
    BY <2>2
  <2> HIDE DEF z, ts
  <2>5. z = pos + 1
    <3>1. CASE Top.at = "after"
      <4>1. Ends(ts, Top.of, pos, z) \/ Has(ts, pos + 1, ",")
        BY <2>4, <3>1, ChainCases DEF Rest
      <4>2. Ends(ts, Top.of, pos, z)
        BY <1>6, <2>1, <4>1
      <4> QED BY <2>3, <4>2 DEF Ends, Closes
    <3>2. CASE Top.at = "first"
      <4>1. Closes(ts, pos, z, "]") \/ Item(ts, Top.of, pos, z)
        BY <2>4, <3>2 DEF Rest
      <4>2. ASSUME Item(ts, Top.of, pos, z) PROVE FALSE
        <5>1. PICK m : IsValue(ts, ElementType(Top.of), pos, m)
          BY Zenon, <2>3, <4>2 DEF Item, ItemTo
        <5>2. /\ pos + 1 \in 1 .. Len(ts)
              /\ \/ ScalarAs(ElementType(Top.of), ts[pos + 1])
                 \/ \E of \in Lists : Opens(ts, of, pos, m)
          BY <1>0, <5>1, ValueDown
        <5>3. Has(ts, pos + 1, "[") \/ Has(ts, pos + 1, "{") => FALSE
          BY <1>6, <2>1
        <5>4. ScalarAs(ElementType(Top.of), ts[pos + 1])
          BY <5>2, <5>3 DEF Opens
        <5>5. Peek = ts[pos + 1]
          <6>1. pos < Len(ts)
            BY <1>0, <5>2
          <6> QED BY <6>1 DEF Peek, ts
        <5> QED BY <2>1, <5>4, <5>5 DEF ScalarAs
      <4> QED BY <4>1, <4>2 DEF Closes
    <3> QED BY <2>1, <3>1, <3>2
  <2> QED BY <1>18, <1>19, <2>1, <2>2, <2>3, <2>5 DEF z, ts
<1>21. CASE CloseObject
  <2>1. /\ stack # << >> /\ Top.at \in {"member", "after"} /\ ~ IsArray /\ Peek.is = "}"
        /\ stack' = Tail(s) /\ pos' = pos + 1
        /\ outcome' = IF Top.of = "payload" THEN "parsed" ELSE outcome
    BY <1>21 DEF CloseObject, ObjectEnds, At, Advance
  <2>2. PICK e : Stands(e)
    BY <1>3, <2>1
  <2>3. Top.of \notin Arrays
    BY <1>3, <2>1
  <2> DEFINE z == e[1]
  <2>4. Rest(ts, Top, pos, z)
    BY <2>2
  <2> HIDE DEF z, ts
  <2>5. z = pos + 1
    <3>1. CASE Top.at = "after"
      <4>1. Ends(ts, Top.of, pos, z) \/ Has(ts, pos + 1, ",")
        BY <2>4, <3>1, ChainCases DEF Rest
      <4>2. ~ Has(ts, pos + 1, ",")
        BY <1>6, <2>1
      <4> QED BY <2>3, <4>1, <4>2 DEF Ends, Closes
    <3>2. CASE Top.at = "member"
      <4>1. Closes(ts, pos, z, "}") \/ Item(ts, Top.of, pos, z)
        BY <2>4, <3>2 DEF Rest
      <4>2. Item(ts, Top.of, pos, z) => Has(ts, pos + 1, "string")
        BY Zenon, <2>3 DEF Item, ItemTo
      <4>3. ~ Has(ts, pos + 1, "string")
        BY <1>6, <2>1
      <4> QED BY <4>1, <4>2, <4>3 DEF Closes
    <3> QED BY <2>1, <3>1, <3>2
  <2>6. CASE Top.of = "payload"
    BY <2>1, <2>6
  <2>7. CASE Top.of # "payload"
    BY <1>18, <1>19, <2>1, <2>2, <2>5, <2>7 DEF z, ts
  <2> QED BY <2>6, <2>7
<1>22. ReadField \/ ReadLastField \/ ReadMerchant \/ ReadNull \/ SkipScalar => ReadScalar /\ outcome' = outcome
  BY DEF ReadField, ReadLastField, ReadMerchant, ReadNull, SkipScalar, ReadScalar
<1> HIDE DEF ts
<1> QED BY <1>2, <1>10, <1>11, <1>13, <1>15, <1>16, <1>17, <1>20, <1>21, <1>22 DEF ParseNext, Read

(***************************************************************************)
(* A body is parsed exactly when it begins with a payload of the typed     *)
(* grammar, up to its end, whatever its tokens, depth and order of         *)
(* members: what was read is a derivation that the calls on the stack      *)
(* complete, and the error paths are reached by no such body.              *)
(***************************************************************************)
THEOREM ParsedIsTyped == Spec => []ParsedIsPayload
<1>1. Init => GrammarInv /\ CompletenessInv
  <2> SUFFICES ASSUME Init PROVE GrammarInv /\ CompletenessInv
    OBVIOUS
  <2>1. input \in Inputs /\ pos = 0 /\ stack = << >> /\ outcome = "reading"
    BY DEF Init, ParseInit
  <2>2. Len(input.tokens) \in Nat
    BY <2>1, InputsAssumption DEF IsBody
  <2> QED BY <2>1, <2>2 DEF GrammarInv, CompletenessInv
<1>2. ScoreInv /\ GrammarInv /\ CompletenessInv /\ [Next]_<<vars, scoreVars>>
      => GrammarInv' /\ CompletenessInv'
  <2> SUFFICES ASSUME ScoreInv, GrammarInv, CompletenessInv, [Next]_<<vars, scoreVars>>
               PROVE  GrammarInv' /\ CompletenessInv'
    OBVIOUS
  <2>1. CASE Parse
    BY <2>1, GrammarStep, CompletenessStep DEF Parse, ScoreInv
  <2>2. CASE UNCHANGED vars
    BY <2>2 DEF vars, GrammarInv, CompletenessInv, Top
  <2>3. Parse \/ UNCHANGED vars
    BY DEF Next, ReadRequest, ReadRequestPanics, Route, AnswerUnparsed, FraudCount,
           FraudCountPanics, SearchCount, Ended
  <2> QED BY <2>1, <2>2, <2>3
<1>3. GrammarInv /\ CompletenessInv => ParsedIsPayload
  BY DEF GrammarInv, CompletenessInv, ParsedIsPayload, PayloadUpTo, IsValue
<1> QED BY <1>1, <1>2, <1>3, ScoresTyped, PTL DEF Spec
=============================================================================
