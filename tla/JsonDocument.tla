---------------------------- MODULE JsonDocument ----------------------------
(***************************************************************************)
(* What JsonParser is to do: the documents of JSON, their text, what they  *)
(* say of a payload, and the properties that compare the two.              *)
(*                                                                         *)
(* A document is a scalar token, an array with its elements, or an object  *)
(* with its members, pairs of key and value.  input.document is the one    *)
(* that input.tokens were written from, or NoRecord.                       *)
(***************************************************************************)
EXTENDS JsonGrammar, SequencesExt

Mark(c)   == [is |-> c]
Str(s)    == [is |-> "string", s |-> s]
Number(b) == [is |-> "number", n |-> b]
Array(e)  == [is |-> "array", elements |-> e]
Object(m) == [is |-> "object", members |-> m]

Joined(parts) ==
  FlattenSeq([i \in DOMAIN parts |-> IF i = 1 THEN parts[i] ELSE <<Mark(",")>> \o parts[i]])

RECURSIVE Text(_)
Text(d) ==
  CASE d.is = "array" ->
         <<Mark("[")>> \o Joined([i \in DOMAIN d.elements |-> Text(d.elements[i])])
         \o <<Mark("]")>>
    [] d.is = "object" ->
         <<Mark("{")>>
         \o Joined([i \in DOMAIN d.members |->
                      <<Str(d.members[i][1]), Mark(":")>> \o Text(d.members[i][2])])
         \o <<Mark("}")>>
    [] OTHER -> <<d>>

(***************************************************************************)
(* What the spellings of numbers are worth.                                *)
(***************************************************************************)
RECURSIVE DigitsValue(_, _, _)
DigitsValue(b, i, j) == IF j < i THEN 0 ELSE DigitsValue(b, i, j - 1) * 10 + Digit[b[j]]

\* The decimal of a spelling: all the digits, and where the point is.  An
\* exponent wraps as integers do, and that of the least int is none.
Decimal(b, s) ==
  LET digits == SubSeq(b, s.first, s.int) \o SubSeq(b, s.int + 2, s.frac)
      m == DigitsValue(digits, 1, Len(digits))
      n == DigitsValue(b, s.exp, Len(b))
      x == Wrap(IF s.exp <= Len(b) /\ b[s.exp - 1] = "-" THEN - n ELSE n)
  IN  [m |-> IF b[1] = "-" THEN - m ELSE m,
       e |-> (IF x = - MaxInt - 1 THEN 0 ELSE x)
             - (IF s.frac > s.int THEN s.frac - s.int - 1 ELSE 0)]

Integer(b) ==
  IF b[1] = "-" THEN - DigitsValue(b, 2, Len(b)) ELSE DigitsValue(b, 1, Len(b))

(***************************************************************************)
(* What a document says of a payload.  A member that is repeated counts    *)
(* where it occurs last; the members of all the objects of one key count   *)
(* together, but for last_transaction, of which only the last one counts.  *)
(***************************************************************************)
WithKey(members, key) == SelectSeq(members, LAMBDA m : m[1] = key)

MembersOf(d, object) ==
  LET found == WithKey(d.members, object)
  IN  FlattenSeq([i \in DOMAIN found |-> found[i][2].members])

Means(reader, v) ==
  CASE reader = "int"     -> Wrap(Integer(v.n))
    [] reader = "float"   -> Decimal(v.n, CHOOSE s \in Spellings(v.n) : TRUE)
    [] reader = "bool"    -> v.is = "true"
    [] reader = "string"  -> v.s
    [] reader = "strings" -> [i \in DOMAIN v.elements |-> v.elements[i].s]

LastOf(members, object) ==
  [key \in DOMAIN Known[object] |->
     LET found == WithKey(members, key)
     IN  IF found = <<>> THEN Zero[Known[object][key]]
         ELSE Means(Known[object][key], Last(found)[2])]

Fields(d) ==
  LET last == WithKey(d.members, "last_transaction")
  IN  [transaction |-> LastOf(MembersOf(d, "transaction"), "transaction"),
       customer    |-> LastOf(MembersOf(d, "customer"), "customer"),
       merchant    |-> LastOf(MembersOf(d, "merchant"), "merchant"),
       terminal    |-> LastOf(MembersOf(d, "terminal"), "terminal"),
       last_transaction |->
         IF last = <<>> \/ Last(last)[2].is = "null" THEN NoRecord
         ELSE LastOf(Last(last)[2].members, "last_transaction")]

(***************************************************************************)
(* A document whose known members have values of the type that is known.   *)
(***************************************************************************)
RECURSIVE Typed(_, _, _)
Typed(reader, object, v) ==
  CASE reader \in {"string", "discard"} -> v.is = "string"
    [] reader = "int"      -> v.is = "number" /\ IsInteger(v.n)
    [] reader = "float"    -> v.is = "number" /\ Spellings(v.n) # {}
    [] reader = "bool"     -> v.is \in {"true", "false"}
    [] reader = "strings"  -> v.is = "array" /\ \A i \in DOMAIN v.elements : v.elements[i].is = "string"
    [] reader = "nullable" -> v.is = "null" \/ Typed("object", object, v)
    [] reader = "object"   ->
         /\ v.is = "object"
         /\ \A i \in DOMAIN v.members :
              Typed(ReaderOf(object, v.members[i][1]), v.members[i][1], v.members[i][2])
    [] reader = "skip"     ->
         CASE v.is = "array"  -> \A i \in DOMAIN v.elements : Typed("skip", "", v.elements[i])
           [] v.is = "object" -> \A i \in DOMAIN v.members : Typed("skip", "", v.members[i][2])
           [] v.is = "number" -> Spellings(v.n) # {}
           [] OTHER           -> v.is # "junk"

-----------------------------------------------------------------------------
(***************************************************************************)
(* The text of a document is parsed exactly when its known members are of  *)
(* their types and its numbers are numbers, whatever the order, repetition *)
(* and company of the members.                                             *)
(***************************************************************************)
Written == ~ Reading /\ input.document # NoRecord

TypedIsParsed ==
  Written => (outcome = "parsed" <=> Typed("object", "payload", input.document))

(***************************************************************************)
(* Then the payload has what the document says, also where a known key     *)
(* occurs in other places, where an object or a key is repeated, and where *)
(* an integer or an exponent is as large as to wrap.                       *)
(***************************************************************************)
PayloadIsDocument ==
  Written /\ outcome = "parsed" => p = Fields(input.document)
=============================================================================
