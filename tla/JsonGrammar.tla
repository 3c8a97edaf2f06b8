---------------------------- MODULE JsonGrammar -----------------------------
(***************************************************************************)
(* The grammar that JsonParser is to accept: that of JSON (RFC 8259), but  *)
(* that an object may have a comma behind its last member, and a number a  *)
(* plus sign or leading zeros.                                             *)
(***************************************************************************)
EXTENDS JsonParser

(***************************************************************************)
(* Numbers: sign, digits, and perhaps point and digits, and perhaps        *)
(* exponent, sign and digits.  A spelling says where these end.            *)
(***************************************************************************)
AllDigits(b, i, j) == i <= j /\ \A k \in i .. j : IsDigit(b[k])

Spellings(b) ==
  {s \in [first : 1 .. 2, int : 1 .. Len(b), frac : 1 .. Len(b), exp : 1 .. (Len(b) + 2)] :
     /\ s.first = 2 => b[1] \in {"-", "+"}
     /\ AllDigits(b, s.first, s.int)
     /\ \/ s.frac = s.int
        \/ s.frac > s.int + 1 /\ b[s.int + 1] = "." /\ AllDigits(b, s.int + 2, s.frac)
     /\ \/ s.frac = Len(b) /\ s.exp = Len(b) + 1
        \/ /\ s.frac < Len(b) /\ b[s.frac + 1] \in {"e", "E"}
           /\ AllDigits(b, s.exp, Len(b))
           /\ \/ s.exp = s.frac + 2
              \/ s.exp = s.frac + 3 /\ b[s.frac + 2] \in {"-", "+"}}

(***************************************************************************)
(* Which tokens derive what.  <<"value", as, i, n>> says that the tokens   *)
(* i + 1 .. n are a value that may be read as such; <<"list", of, i, n>>,  *)
(* that they are an array or object up to the end of one of its elements   *)
(* or members.  The operators say where that begins which ends at n, from  *)
(* what is known to end before.                                            *)
(***************************************************************************)
Has(ts, i, kind) == i \in DOMAIN ts /\ ts[i].is = kind

Arrays  == {"strings", "skippedArray"}
Objects == DOMAIN Known \union {"skippedObject"}
Types   == {"string", "discard", "int", "float", "bool", "strings", "skip"} \union DOMAIN Known

IsInteger(b) == b # << >> /\ AllDigits(b, IF b[1] = "-" THEN 2 ELSE 1, Len(b))

\* A key of an object is read as its reader says, or as the object it names.
MemberType(of, key) ==
  LET reader == ReaderOf(of, key) IN IF reader \in {"object", "nullable"} THEN key ELSE reader

ElementType(of) == IF of = "strings" THEN "string" ELSE "skip"

ScalarAs(as, t) ==
  \/ t.is = "string" /\ as \in {"string", "discard", "skip"}
  \/ t.is = "number" /\ \/ as \in {"float", "skip"} /\ Spellings(t.n) # {}
                        \/ as = "int" /\ IsInteger(t.n)
  \/ t.is \in {"true", "false"} /\ as \in {"bool", "skip"}
  \/ t.is = "null" /\ as \in {"last_transaction", "skip"}

ListAs(as, of) == of = as \/ (as = "skip" /\ of \in {"skippedArray", "skippedObject"})

ValueStarts(ts, as, n, known) ==
  {i \in 0 .. (n - 1) :
     \/ i = n - 1 /\ ScalarAs(as, ts[n])
     \/ /\ Has(ts, n, "]")
        /\ \E of \in Arrays : /\ ListAs(as, of)
                              /\ \/ i = n - 2 /\ Has(ts, n - 1, "[")
                                 \/ <<"list", of, i, n - 1>> \in known
     \/ /\ Has(ts, n, "}")
        /\ \E of \in Objects : /\ ListAs(as, of)
                               /\ \/ i = n - 2 /\ Has(ts, n - 1, "{")
                                  \/ <<"list", of, i, n - 1>> \in known
                                  \/ Has(ts, n - 1, ",") /\ <<"list", of, i, n - 2>> \in known}

\* Up to a value that is read so, and whose tokens begin behind v.
ListStarts(ts, of, as, v, known) ==
  IF of \in Arrays
    THEN IF as # ElementType(of) THEN {}
         ELSE {i \in 0 .. (v - 1) :
                 \/ i = v - 1 /\ Has(ts, v, "[")
                 \/ Has(ts, v, ",") /\ <<"list", of, i, v - 1>> \in known}
  ELSE IF ~ Has(ts, v, ":") \/ ~ Has(ts, v - 1, "string") \/ MemberType(of, ts[v - 1].s) # as THEN {}
       ELSE {i \in 0 .. (v - 3) :
               \/ i = v - 3 /\ Has(ts, v - 2, "{")
               \/ Has(ts, v - 2, ",") /\ <<"list", of, i, v - 3>> \in known}

Ending(ts, n, known) ==
  LET values == UNION {{<<as, i>> : i \in ValueStarts(ts, as, n, known)} : as \in Types}
  IN  {<<"value", x[1], x[2], n>> : x \in values}
      \union UNION {UNION {{<<"list", of, i, n>> : i \in ListStarts(ts, of, x[1], x[2], known)} :
                             of \in Arrays \union Objects} : x \in values}

Derived(ts) ==
  LET upto[n \in 0 .. Len(ts)] ==
        IF n = 0 THEN {}
        ELSE LET known == upto[n - 1] IN known \union Ending(ts, n, known)
  IN  upto[Len(ts)]

(***************************************************************************)
(* A body is parsed exactly when it begins with an object of this grammar, *)
(* and then up to its end: no member or element is left out, none begun is *)
(* without its end, none is of another type than the field it is read      *)
(* into, and no such body is refused, however deep it is and in whatever   *)
(* order its members come.                                                 *)
(***************************************************************************)
PayloadUpTo(n) == <<"value", "payload", 0, n>> \in Derived(input.tokens)

ParsedIsPayload ==
  /\ outcome = "parsed" => PayloadUpTo(pos)
  /\ outcome = "error" => \A n \in DOMAIN input.tokens : ~ PayloadUpTo(n)
=============================================================================
