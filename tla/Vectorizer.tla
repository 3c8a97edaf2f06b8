----------------------------- MODULE Vectorizer -----------------------------
(***************************************************************************)
(* Vectorize of internal/vectorize/vectorize.go, and quantizeVector of     *)
(* internal/ivf/quantize.go: the coordinates of a payload.                 *)
(*                                                                         *)
(* A coordinate is the fraction [n, d], n over d, with d >= 0: float32     *)
(* without its rounding.  A d of 0 is an infinite one, or with n = 0 what  *)
(* is not a number.  Zeros have no sign.  A decimal whose exponent is      *)
(* beyond ExponentBound is taken for the one at the bound, which is far    *)
(* outside what clamp lets through.                                        *)
(***************************************************************************)
EXTENDS Calendar, Sequences

CONSTANTS
  quantScale,      \* 10000
  norm,            \* Normalization; normalization.json
  mccRisk,         \* the risks of mcc_risk.json, as fractions
  timestamps,      \* what the strings of 19 bytes and more decode to
  ExponentBound

ASSUME ScaleAssumption == quantScale \in Nat \ {0} /\ ExponentBound \in Nat
ASSUME NormAssumption ==
  norm \in [{"max_amount", "max_installments", "amount_vs_avg_ratio", "max_minutes", "max_km",
            "max_tx_count_24h", "max_merchant_avg_amount"} -> Nat \ {0}]
ASSUME RiskAssumption == \A mcc \in DOMAIN mccRisk : mccRisk[mcc] \in [n : Nat, d : Nat \ {0}]
\* The code adds up characters less '0', which are bytes: none is negative.
ASSUME TimesAssumption ==
  \A s \in DOMAIN timestamps :
    timestamps[s] \in [y : Nat, m : Nat, d : Nat, h : Nat, min : Nat, s : Nat]

Whole(n) == [n |-> n, d |-> 1]

Bounded(e) == IF e > ExponentBound THEN ExponentBound ELSE e

FractionOf(decimal) ==
  IF decimal.e >= 0 THEN Whole(decimal.m * 10 ^ Bounded(decimal.e))
  ELSE [n |-> decimal.m, d |-> 10 ^ Bounded(- decimal.e)]

Over(a, b) ==
  LET n == a.n * b.d
      d == a.d * b.n
  IN  IF d < 0 THEN [n |-> - n, d |-> - d] ELSE [n |-> n, d |-> d]

\* Wrong: without a lower bound.
clampAbove(x) == IF x.n > x.d THEN Whole(1) ELSE x

clamp(x) == IF x.n < 0 THEN Whole(0) ELSE IF x.n > x.d THEN Whole(1) ELSE x

(***************************************************************************)
(* Hour and weekday; both are 0 when the string is too short or its hour   *)
(* too large.  The program panics on a month there is no table entry for.  *)
(***************************************************************************)
HourIsRead(s) == s \in DOMAIN timestamps /\ timestamps[s].h <= 23

MonthPanics(s) == HourIsRead(s) /\ timestamps[s].m \notin DOMAIN MonthShift

parseHourWeekday(s) ==
  IF HourIsRead(s)
    THEN LET t == timestamps[s] IN [hour |-> t.h, weekday |-> weekday(t.y, t.m, t.d)]
  ELSE [hour |-> 0, weekday |-> 0]

parseMinutesBetween(later, earlier) ==
  IF {later, earlier} \subseteq DOMAIN timestamps
    THEN minutesBetween(timestamps[later], timestamps[earlier])
  ELSE 0

isKnownMerchant(id, known) == \E i \in DOMAIN known : known[i] = id

Flag(b) == Whole(IF b THEN 1 ELSE 0)

(***************************************************************************)
(* The coordinates of payload p, whose LastTransaction is nil when first   *)
(* is TRUE.                                                                *)
(***************************************************************************)
Vectorize(p, first) ==
  LET Scaled(x, max) == clamp(Over(x, Whole(norm[max])))
      amount == FractionOf(p.transaction.amount)
      time   == parseHourWeekday(p.transaction.requested_at)
  IN  [i \in 0 .. 13 |->
        CASE i = 0  -> Scaled(amount, "max_amount")
          [] i = 1  -> Scaled(Whole(p.transaction.installments), "max_installments")
          [] i = 2  -> Scaled(Over(amount, FractionOf(p.customer.avg_amount)), "amount_vs_avg_ratio")
          [] i = 3  -> [n |-> time.hour, d |-> 23]
          [] i = 4  -> [n |-> time.weekday, d |-> 6]
          [] i = 5  -> IF first THEN Whole(-1)
                       ELSE Scaled(Whole(parseMinutesBetween(p.transaction.requested_at,
                                                             p.last_transaction.timestamp)),
                                   "max_minutes")
          [] i = 6  -> IF first THEN Whole(-1)
                       ELSE Scaled(FractionOf(p.last_transaction.km_from_current), "max_km")
          [] i = 7  -> Scaled(FractionOf(p.terminal.km_from_home), "max_km")
          [] i = 8  -> Scaled(Whole(p.customer.tx_count_24h), "max_tx_count_24h")
          [] i = 9  -> Flag(p.terminal.is_online)
          [] i = 10 -> Flag(p.terminal.card_present)
          [] i = 11 -> Flag(~ isKnownMerchant(p.merchant.id, p.customer.known_merchants))
          [] i = 12 -> IF p.merchant.mcc \in DOMAIN mccRisk THEN mccRisk[p.merchant.mcc]
                       ELSE [n |-> 1, d |-> 2]
          [] i = 13 -> Scaled(FractionOf(p.merchant.avg_amount), "max_merchant_avg_amount")]

(***************************************************************************)
(* quantizeVector: -1 and less is the sentinel; the rest is limited again  *)
(* and rounded to the nearest.  The conversion of what is not a number to  *)
(* int16 gives 0, on amd64 and on arm64.                                   *)
(***************************************************************************)
Quantized(x) ==
  IF x.n < 0 /\ x.n <= - x.d THEN - quantScale
  ELSE IF x.n < 0 THEN 0
  ELSE IF x.n > x.d THEN quantScale
  ELSE IF x.d = 0 THEN 0
  ELSE (2 * x.n * quantScale + x.d) \div (2 * x.d)

quantizeVector(v) == [i \in DOMAIN v |-> Quantized(v[i])]
=============================================================================
