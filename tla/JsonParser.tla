----------------------------- MODULE JsonParser -----------------------------
(***************************************************************************)
(* ParsePayload of internal/handler/json.go.  It reads a body of tokens:   *)
(* what it tells apart after skipping white space, a string or a number as *)
(* a whole.  A token t has its kind t.is; a string its bytes t.s, a number *)
(* its characters t.n.  "junk" is all that begins no token, a string       *)
(* without an end included.                                                *)
(*                                                                         *)
(* The functions for the objects of a payload differ in the keys they know *)
(* and how they read their values; Known says which.  Their calls, and     *)
(* those of parseStringArray, skipObject and skipArray, are the stack: a   *)
(* frame says what is parsed, and where.                                   *)
(*                                                                         *)
(*   "member"   object, before a key or '}'                                *)
(*   "value"    object, after key and ':'                                  *)
(*   "first"    array, before a value or ']'                               *)
(*   "element"  array, before a value                                      *)
(*   "after"    either, behind a value                                     *)
(*                                                                         *)
(* A step is one token, or a key with its colon.  Anything else is an      *)
(* error: the payload is then of no use to the callers, which answer as if *)
(* there were no fraud.  Left out: the wording of errors, and the bytes of *)
(* a string, which are kept with their escapes as they stand.              *)
(***************************************************************************)
EXTENDS JsonNumber

CONSTANTS
  Inputs,    \* bodies
  NoRecord   \* the nil of LastTransaction

(***************************************************************************)
(* Bodies are sequences of tokens, which carry what their kinds say.       *)
(***************************************************************************)
IsToken(t) ==
  /\ t.is = "string" => t.s \in STRING
  /\ t.is = "number" => t.n \in Seq(STRING)

IsBody(ts) ==
  ts \in Seq({ts[i] : i \in DOMAIN ts}) /\ \A i \in DOMAIN ts : IsToken(ts[i])

ASSUME InputsAssumption == \A in \in Inputs : IsBody(in.tokens)

VARIABLES
  input,     \* the body, input.tokens; never changes
  pos,       \* the tokens read
  stack,     \* the calls, the innermost one first
  p,         \* the payload
  lt,        \* the last_transaction whose end is not reached
  outcome    \* "reading", "parsed" or "error"

vars == <<input, pos, stack, p, lt, outcome>>

Peek == IF pos < Len(input.tokens) THEN input.tokens[pos + 1] ELSE [is |-> "end"]

(***************************************************************************)
(* The keys the parsers of objects know, and the reader of their values.   *)
(***************************************************************************)
Known ==
  [payload     |-> [id |-> "discard", transaction |-> "object", customer |-> "object",
                    merchant |-> "object", terminal |-> "object",
                    last_transaction |-> "nullable"],
   transaction |-> [amount |-> "float", installments |-> "int", requested_at |-> "string"],
   customer    |-> [avg_amount |-> "float", tx_count_24h |-> "int",
                    known_merchants |-> "strings"],
   merchant    |-> [id |-> "string", mcc |-> "string", avg_amount |-> "float"],
   terminal    |-> [is_online |-> "bool", card_present |-> "bool", km_from_home |-> "float"],
   last_transaction |-> [timestamp |-> "string", km_from_current |-> "float"]]

ReaderOf(object, key) ==
  IF object \in DOMAIN Known /\ key \in DOMAIN Known[object] THEN Known[object][key]
  ELSE "skip"

Zero ==
  [float |-> [m |-> 0, e |-> 0], int |-> 0, string |-> "", bool |-> FALSE, strings |-> <<>>]

Empty(object) == [key \in DOMAIN Known[object] |-> Zero[Known[object][key]]]

EmptyPayload ==
  [transaction |-> Empty("transaction"), customer |-> Empty("customer"),
   merchant |-> Empty("merchant"), terminal |-> Empty("terminal"),
   last_transaction |-> NoRecord]

Frame(of, at) == [of |-> of, at |-> at, key |-> ""]

ParseInit ==
  /\ input \in Inputs
  /\ pos = 0 /\ stack = <<>> /\ p = EmptyPayload /\ lt = NoRecord
  /\ outcome = "reading"

-----------------------------------------------------------------------------
Reading == outcome = "reading"
Top == Head(stack)
At(points) == Reading /\ stack # <<>> /\ Top.at \in points

MoveTo(at) == <<[Top EXCEPT !.at = at]>> \o Tail(stack)
Advance(n) == pos' = pos + n /\ UNCHANGED input

OpenPayload ==
  /\ Reading /\ stack = <<>> /\ Peek.is = "{"
  /\ stack' = <<Frame("payload", "member")>>
  /\ Advance(1) /\ UNCHANGED <<p, lt, outcome>>

KeyComes ==
  /\ Top.at = "member" /\ Peek.is = "string"
  /\ pos + 2 <= Len(input.tokens) /\ input.tokens[pos + 2].is = ":"

\* Wrong: takes whatever follows a key for the colon.
ReadKeyOnly ==
  /\ At({"member"}) /\ Peek.is = "string"
  /\ stack' = <<[Top EXCEPT !.at = "value", !.key = Peek.s]>> \o Tail(stack)
  /\ Advance(2) /\ UNCHANGED <<p, lt, outcome>>

ReadKey ==
  /\ At({"member"}) /\ KeyComes
  /\ stack' = <<[Top EXCEPT !.at = "value", !.key = Peek.s]>> \o Tail(stack)
  /\ Advance(2) /\ UNCHANGED <<p, lt, outcome>>

(***************************************************************************)
(* A value, by its reader: readString, readInt, readFloat, readBool, the   *)
(* literal null, or skipValue.                                             *)
(***************************************************************************)
Reader ==
  IF Top.of = "strings" THEN "string"
  ELSE IF Top.of = "skippedArray" THEN "skip" ELSE ReaderOf(Top.of, Top.key)

Reads(reader, t) ==
  \/ reader \in {"string", "discard", "skip"} /\ t.is = "string"
  \/ reader = "int" /\ t.is = "number" /\ readsInt(t.n)
  \/ reader \in {"float", "skip"} /\ t.is = "number" /\ readsFloat(t.n)
  \/ reader \in {"bool", "skip"} /\ t.is \in {"true", "false"}
  \/ reader \in {"nullable", "skip"} /\ t.is = "null"

Meaning(reader, t) ==
  CASE reader = "int"    -> parseInt32Bytes(t.n)
    [] reader = "float"  -> parseFloat32Bytes(t.n)
    [] reader = "bool"   -> t.is = "true"
    [] reader = "string" -> t.s

BeforeValue == {"value", "first", "element"}

ReadScalar ==
  /\ At(BeforeValue) /\ Reads(Reader, Peek)
  /\ stack' = MoveTo("after")
  /\ Advance(1) /\ UNCHANGED outcome

ReadField ==
  /\ ReadScalar /\ Top.of \in DOMAIN p /\ Top.of # "last_transaction" /\ Reader # "skip"
  /\ p' = [p EXCEPT ![Top.of][Top.key] = Meaning(Reader, Peek)]
  /\ UNCHANGED lt

ReadLastField ==
  /\ ReadScalar /\ Top.of = "last_transaction" /\ Reader # "skip"
  /\ lt' = [lt EXCEPT ![Top.key] = Meaning(Reader, Peek)]
  /\ UNCHANGED p

ReadMerchant ==
  /\ ReadScalar /\ Top.of = "strings"
  /\ p' = [p EXCEPT !.customer.known_merchants = Append(@, Peek.s)]
  /\ UNCHANGED lt

ReadNull ==
  /\ ReadScalar /\ Reader = "nullable"
  /\ p' = [p EXCEPT !.last_transaction = NoRecord]
  /\ UNCHANGED lt

SkipScalar ==
  /\ ReadScalar /\ Reader \in {"skip", "discard"}
  /\ UNCHANGED <<p, lt>>

(***************************************************************************)
(* Objects and arrays.  known_merchants is emptied before it is read,      *)
(* last_transaction is a new record each time, and the others are read     *)
(* over what is there.                                                     *)
(***************************************************************************)
ObjectComes == Peek.is = "{" /\ Reader \in {"object", "nullable", "skip"}
ArrayComes  == Peek.is = "[" /\ Reader \in {"strings", "skip"}

\* Wrong: last_transaction is read over what is there, too.
OpenObjectOver ==
  /\ At(BeforeValue) /\ ObjectComes
  /\ LET of == IF Reader = "skip" THEN "skippedObject" ELSE Top.key
     IN  stack' = <<Frame(of, "member")>> \o MoveTo("after")
  /\ lt' = IF Reader = "nullable" /\ lt = NoRecord THEN Empty("last_transaction") ELSE lt
  /\ Advance(1) /\ UNCHANGED <<p, outcome>>

OpenObject ==
  /\ At(BeforeValue) /\ ObjectComes
  /\ LET of == IF Reader = "skip" THEN "skippedObject" ELSE Top.key
     IN  stack' = <<Frame(of, "member")>> \o MoveTo("after")
  /\ lt' = IF Reader = "nullable" THEN Empty("last_transaction") ELSE lt
  /\ Advance(1) /\ UNCHANGED <<p, outcome>>

OpenArray ==
  /\ At(BeforeValue) /\ ArrayComes
  /\ LET of == IF Reader = "skip" THEN "skippedArray" ELSE "strings"
     IN  stack' = <<Frame(of, "first")>> \o MoveTo("after")
  /\ p' = IF Reader = "strings" THEN [p EXCEPT !.customer.known_merchants = <<>>] ELSE p
  /\ Advance(1) /\ UNCHANGED <<lt, outcome>>

IsArray == Top.of \in {"strings", "skippedArray"}

\* Wrong: an array may end behind a comma, as an object may; the comma is
\* looked at again and again.
CommaBeforeEnd ==
  /\ At({"after"}) /\ Peek.is = ","
  /\ stack' = MoveTo(IF IsArray THEN "first" ELSE "member")
  /\ Advance(1) /\ UNCHANGED <<p, lt, outcome>>

CommaAgain ==
  /\ At({"after"}) /\ Peek.is = ","
  /\ Advance(0) /\ UNCHANGED <<stack, p, lt, outcome>>

Comma ==
  /\ At({"after"}) /\ Peek.is = ","
  /\ stack' = MoveTo(IF IsArray THEN "element" ELSE "member")
  /\ Advance(1) /\ UNCHANGED <<p, lt, outcome>>

ArrayEnds  == IsArray /\ Top.at \in {"first", "after"} /\ Peek.is = "]"
ObjectEnds == ~ IsArray /\ Top.at \in {"member", "after"} /\ Peek.is = "}"

CloseArray ==
  /\ At({"first", "after"}) /\ ArrayEnds
  /\ stack' = Tail(stack)
  /\ Advance(1) /\ UNCHANGED <<p, lt, outcome>>

CloseObject ==
  /\ At({"member", "after"}) /\ ObjectEnds
  /\ stack' = Tail(stack)
  /\ p' = IF Top.of = "last_transaction" THEN [p EXCEPT !.last_transaction = lt] ELSE p
  /\ outcome' = IF Top.of = "payload" THEN "parsed" ELSE outcome
  /\ Advance(1) /\ UNCHANGED lt

Read ==
  \/ OpenPayload \/ ReadKey
  \/ ReadField \/ ReadLastField \/ ReadMerchant \/ ReadNull \/ SkipScalar
  \/ OpenObject \/ OpenArray \/ Comma \/ CloseArray \/ CloseObject

Expected ==
  IF stack = <<>> THEN Peek.is = "{"
  ELSE \/ KeyComes
       \/ Top.at \in BeforeValue /\ (Reads(Reader, Peek) \/ ObjectComes \/ ArrayComes)
       \/ Top.at = "after" /\ Peek.is = ","
       \/ ArrayEnds \/ ObjectEnds

Fail ==
  /\ Reading /\ ~ Expected
  /\ outcome' = "error"
  /\ UNCHANGED <<input, pos, stack, p, lt>>

ParseNext == Read \/ Fail
=============================================================================
