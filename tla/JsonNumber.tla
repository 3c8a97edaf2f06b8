----------------------------- MODULE JsonNumber -----------------------------
(***************************************************************************)
(* The numbers of internal/handler/json.go: parseInt32Bytes and            *)
(* parseFloat32Bytes on the bytes that readInt and readFloat have          *)
(* collected.                                                              *)
(*                                                                         *)
(* A number is a sequence of one-character strings.  An integer has the    *)
(* width of Go's int and wraps.  A float is the decimal [m, e], m times    *)
(* ten to the e, that the code computes with; its rounding to float64 and  *)
(* float32 is left out.                                                    *)
(***************************************************************************)
EXTENDS Integers, Sequences

CONSTANT MaxInt   \* the largest int of Go; 2^63 - 1

ASSUME MaxIntAssumption == MaxInt \in Nat

Digit == [c \in {"0", "1", "2", "3", "4", "5", "6", "7", "8", "9"} |->
            CASE c = "0" -> 0 [] c = "1" -> 1 [] c = "2" -> 2 [] c = "3" -> 3
              [] c = "4" -> 4 [] c = "5" -> 5 [] c = "6" -> 6 [] c = "7" -> 7
              [] c = "8" -> 8 [] c = "9" -> 9]
IsDigit(c) == c \in DOMAIN Digit

Wrap(n) == ((n + MaxInt + 1) % (2 * (MaxInt + 1))) - (MaxInt + 1)

(***************************************************************************)
(* The digits that begin at i end before DigitsEnd(b, i), and have the     *)
(* value Value(b, i, j) up to but not with j; Go's int wraps it.           *)
(***************************************************************************)
DigitsEnd(b, i) ==
  CHOOSE j \in i .. (Len(b) + 1) :
    /\ \A k \in i .. (j - 1) : IsDigit(b[k])
    /\ j = Len(b) + 1 \/ ~ IsDigit(b[j])

Value(b, i, j) ==
  LET v[k \in (i - 1) .. (j - 1)] == IF k < i THEN 0 ELSE v[k - 1] * 10 + Digit[b[k]]
  IN  v[j - 1]

IntValue(b, i, j) ==
  LET v[k \in (i - 1) .. (j - 1)] == IF k < i THEN 0 ELSE Wrap(v[k - 1] * 10 + Digit[b[k]])
  IN  v[j - 1]

Is(b, i, chars) == i <= Len(b) /\ b[i] \in chars

(***************************************************************************)
(* Integers.                                                               *)
(***************************************************************************)
IntStart(b) == IF Is(b, 1, {"-"}) THEN 2 ELSE 1

readsInt(b) == IntStart(b) <= Len(b) /\ DigitsEnd(b, IntStart(b)) = Len(b) + 1

parseInt32Bytes(b) ==
  LET n == IntValue(b, IntStart(b), Len(b) + 1)
  IN  IF Is(b, 1, {"-"}) THEN Wrap(- n) ELSE n

(***************************************************************************)
(* Floats: sign, digits, and as there are, a fraction and an exponent,     *)
(* each with digits of its own.                                            *)
(***************************************************************************)
FloatStart(b) == IF Is(b, 1, {"-", "+"}) THEN 2 ELSE 1
Point(b)      == DigitsEnd(b, FloatStart(b))
HasPoint(b)   == Is(b, Point(b), {"."})
FractionEnd(b) == IF HasPoint(b) THEN DigitsEnd(b, Point(b) + 1) ELSE Point(b)
HasExponent(b) == Is(b, FractionEnd(b), {"e", "E"})
ExponentStart(b) == FractionEnd(b) + (IF Is(b, FractionEnd(b) + 1, {"-", "+"}) THEN 2 ELSE 1)
FloatEnd(b) == IF HasExponent(b) THEN DigitsEnd(b, ExponentStart(b)) ELSE FractionEnd(b)

\* Wrong: asks for no digits behind a point.
readsFloatBarePoint(b) ==
  /\ FloatStart(b) < Point(b)
  /\ HasExponent(b) => ExponentStart(b) <= Len(b) /\ ExponentStart(b) < FloatEnd(b)
  /\ FloatEnd(b) = Len(b) + 1

readsFloat(b) ==
  /\ FloatStart(b) < Point(b)
  /\ HasPoint(b) => Point(b) + 1 < FractionEnd(b)
  /\ HasExponent(b) => ExponentStart(b) <= Len(b) /\ ExponentStart(b) < FloatEnd(b)
  /\ FloatEnd(b) = Len(b) + 1

\* The int that the exponent wraps to, sign and all.
WrittenExponent(b) ==
  LET n == IntValue(b, ExponentStart(b), Len(b) + 1)
  IN  IF b[FractionEnd(b) + 1] = "-" THEN Wrap(- n) ELSE n

\* The least int is its own negation: the loop of pow10 does not turn for it.
\* The loop turns as often as the exponent says, which is one step here.
pow10Turns(n) == IF n = - MaxInt - 1 THEN 0 ELSE n

Exponent(b) == IF HasExponent(b) THEN pow10Turns(WrittenExponent(b)) ELSE 0

Fraction(b) ==
  IF HasPoint(b) THEN [value  |-> Value(b, Point(b) + 1, FractionEnd(b)),
                       digits |-> FractionEnd(b) - (Point(b) + 1)]
  ELSE [value |-> 0, digits |-> 0]

parseFloat32Bytes(b) ==
  LET f == Fraction(b)
      m == Value(b, FloatStart(b), Point(b)) * 10 ^ f.digits + f.value
  IN  [m |-> IF b[1] = "-" THEN - m ELSE m, e |-> Exponent(b) - f.digits]
=============================================================================
