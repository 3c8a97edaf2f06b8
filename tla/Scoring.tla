------------------------------ MODULE Scoring -------------------------------
(***************************************************************************)
(* The function h of cmd/server/main.go with the FraudService it uses, and *)
(* what handleConn does to call it: from a request to the response.        *)
(*                                                                         *)
(*   "reading"   the head has arrived                                      *)
(*   "routing"   h looks at the path                                       *)
(*   "parsing"   ParsePayload reads the body                               *)
(*   "searching" SearchCount looks for the neighbours of query             *)
(*   "answered"  with Responses[response]                                  *)
(*   "closed"    handleConn has returned without one                       *)
(*   "dead"      a panic has ended the process                             *)
(*                                                                         *)
(* The body, input.tokens, is taken to be what the head says.  How head    *)
(* and body get into the buffer is in HttpConn.  SearchCount is modelled   *)
(* by IVFSearch; here it returns any count.                                *)
(***************************************************************************)
EXTENDS JsonParser, Vectorizer, RequestHead, FiniteSets

CONSTANTS
  MaxBody,  \* the bytes of maxRequestSize that the head leaves
  NoRequest,
  NoQuery,
  Counts    \* bound: the counts SearchCount returns, of 0 .. 5

ASSUME CountsAssumption == Counts # {} /\ Counts \subseteq 0 .. 5

ASSUME BodyAssumption == MaxBody \in Nat

VARIABLES
  status,
  request,   \* path and length, as read from the head
  query,
  response

scoreVars == <<status, request, query, response>>

NoResponse    == -1
ReadyResponse == 6

Init ==
  /\ ParseInit
  /\ status = "reading" /\ request = NoRequest /\ query = NoQuery /\ response = NoResponse

(***************************************************************************)
(* handleConn reads the head.  A body that is too large ends the           *)
(* connection; a negative length puts the end of the body before its       *)
(* beginning, and the slice panics.                                        *)
(***************************************************************************)
ReadRequest ==
  /\ status = "reading" /\ ~ PathOutOfBuffer(input.head, input.full)
  /\ request' = parseRequestLine(input.head)
  /\ \/ request'.length > MaxBody /\ status' = "closed"
     \/ request'.length \in 0 .. MaxBody /\ status' = "routing"
     \/ request'.length < 0 /\ status' = "dead"
  /\ UNCHANGED <<vars, query, response>>

ReadRequestPanics ==
  /\ status = "reading" /\ PathOutOfBuffer(input.head, input.full)
  /\ status' = "dead"
  /\ UNCHANGED <<vars, request, query, response>>

Answer(n) == status' = "answered" /\ response' = n

\* The word stands for any six bytes or more of which the second is an r.
IsReady(path) == path # <<>> /\ path[1] = "/ready"

Route ==
  /\ status = "routing"
  /\ \/ IsReady(request.path) /\ Answer(ReadyResponse)
     \/ ~ IsReady(request.path) /\ status' = "parsing" /\ UNCHANGED response
  /\ UNCHANGED <<vars, request, query>>

Parse == status = "parsing" /\ ParseNext /\ UNCHANGED scoreVars

AnswerUnparsed ==
  /\ status = "parsing" /\ outcome = "error"
  /\ Answer(0)
  /\ UNCHANGED <<vars, request, query>>

FraudCount ==
  /\ status = "parsing" /\ outcome = "parsed"
  /\ ~ MonthPanics(p.transaction.requested_at)
  /\ status' = "searching"
  /\ query' = quantizeVector(Vectorize(p, p.last_transaction = NoRecord))
  /\ UNCHANGED <<vars, request, response>>

FraudCountPanics ==
  /\ status = "parsing" /\ outcome = "parsed"
  /\ MonthPanics(p.transaction.requested_at)
  /\ status' = "dead"
  /\ UNCHANGED <<vars, request, query, response>>

SearchCount ==
  /\ status = "searching"
  /\ \E n \in Counts : Answer(n)
  /\ UNCHANGED <<vars, request, query>>

Ended == status \in {"answered", "closed", "dead"} /\ UNCHANGED <<vars, scoreVars>>

Next ==
  \/ ReadRequest \/ ReadRequestPanics
  \/ Route \/ Parse \/ AnswerUnparsed \/ FraudCount \/ FraudCountPanics
  \/ SearchCount \/ Ended

\* h is sequential code that nothing blocks.
Spec == Init /\ [][Next]_<<vars, scoreVars>> /\ WF_<<vars, scoreVars>>(Next)

-----------------------------------------------------------------------------
(***************************************************************************)
(* Every request is answered, whatever its body: no loop of the parser     *)
(* turns for ever, and no error goes without a response.  A head that      *)
(* names more than MaxBody may end the connection instead; the process     *)
(* only a head with a number too wide for an int, a head without any blank *)
(* that fills the buffer, or a month that is none.  The loop of pow10 is   *)
(* one step here: it ends, but turns as often as the exponent says, and    *)
(* with eighteen digits that is practically for ever (json.go:711-720).    *)
(***************************************************************************)
BadMonth ==
  LET s == p.transaction.requested_at
  IN  s \in DOMAIN timestamps /\ timestamps[s].m \notin 1 .. 12

Names(b, n) == \E i \in DOMAIN b : Value(b, i, DigitsEnd(b, i)) > n

BadHead ==
  \/ Names(input.head, MaxInt)
  \/ input.full /\ \A i \in DOMAIN input.head : input.head[i] # Blank

BodiesAnswered ==
  <>(\/ status = "answered"
     \/ status = "closed" /\ Names(input.head, MaxBody)
     \/ status = "dead" /\ (BadHead \/ BadMonth))

(***************************************************************************)
(* Of a head as clients write it, h is given the path, and a body of the   *)
(* length, that the head says (RFC 9112, 3 and 6.3): whatever is in the    *)
(* other fields, however the name is spelled, and however many blanks are  *)
(* before the number; no length says 0.  As clients write it means at      *)
(* least one blank behind the colon of the length, no content-length       *)
(* before that one but as the name of a field, and a number that an int    *)
(* holds.  The code misreads all other heads.                              *)
(*                                                                         *)
(* input.said are the target and the fields from which the head was        *)
(* written, or NoRecord; a field has its name, blanks, and value.          *)
(***************************************************************************)
LengthFields(said) ==
  {n \in DOMAIN said.fields : \E name \in LengthNames : said.fields[n].name = <<name>>}

IsSaid(said) ==
  /\ said.target \in Seq(STRING) /\ \A i \in DOMAIN said.target : said.target[i] # Blank
  /\ said.fields \in Seq([name : Seq(STRING), blanks : Nat, value : Seq(STRING)])
  /\ \A n \in LengthFields(said) :
       \A i \in DOMAIN said.fields[n].value : IsDigit(said.fields[n].value[i])

LineOf(f) == f.name \o [i \in 1 .. f.blanks |-> Blank] \o f.value \o <<"\r\n">>

HeadOf(said) ==
  LET upto[n \in 0 .. Len(said.fields)] ==
        IF n = 0 THEN <<"POST", Blank>> \o said.target \o <<Blank, "HTTP/1.1", "\r\n">>
        ELSE upto[n - 1] \o LineOf(said.fields[n])
  IN  upto[Len(said.fields)] \o <<"\r\n">>

ASSUME HeadsAssumption ==
  \A in \in Inputs : in.said # NoRecord => IsSaid(in.said) /\ in.head = HeadOf(in.said)

MentionsLength(words) == \E i \in DOMAIN words : words[i] \in LengthNames

AsClientsWrite(said) ==
  /\ ~ MentionsLength(said.target)
  /\ \A n \in DOMAIN said.fields :
       LET f == said.fields[n]
       IN  IF n \in LengthFields(said)
             THEN f.blanks > 0 /\ Value(f.value, 1, Len(f.value) + 1) <= MaxInt
             ELSE \/ ~ MentionsLength(f.name \o f.value)
                  \/ \E k \in LengthFields(said) : k < n

SaidLength(said) ==
  IF LengthFields(said) = {} THEN 0
  ELSE LET n == CHOOSE n \in LengthFields(said) : \A k \in LengthFields(said) : n <= k
       IN  Value(said.fields[n].value, 1, Len(said.fields[n].value) + 1)

HeadsAreRead ==
  request # NoRequest /\ input.said # NoRecord /\ AsClientsWrite(input.said)
    => request = [path |-> input.said.target, length |-> SaidLength(input.said)]

(***************************************************************************)
(* The form of a query, on which the search relies: coordinates are        *)
(* between 0 and quantScale, so that the squares of their differences fit  *)
(* into 32 bits; but 5 and 6 are both -quantScale when there is no last    *)
(* transaction, and only then, which is how the rules of repair.go tell a  *)
(* first transaction from all others (needsKnownBoundaryApprovalRepair).   *)
(***************************************************************************)
VectorForm ==
  query # NoQuery =>
    /\ \A i \in {5, 6} : query[i] = - quantScale <=> p.last_transaction = NoRecord
    /\ \A i \in 0 .. 13 :
         query[i] \in 0 .. quantScale \/ (i \in {5, 6} /\ query[i] = - quantScale)

(***************************************************************************)
(* Days counted year by year and month by month, from Monday, the first of *)
(* January of the year 1; differences are cut at FarDays, which is more    *)
(* than max_minutes.                                                       *)
(***************************************************************************)
DaysBeforeYear(year) ==
  365 * (year - 1) + Cardinality({y \in 1 .. (year - 1) : Leap(y)})

DaysBeforeMonth(year, month) ==
  LET days[m \in 1 .. month] == IF m = 1 THEN 0 ELSE days[m - 1] + MonthLength(year, m - 1)
  IN  days[month]

CountedDays(t) == DaysBeforeYear(t.y) + DaysBeforeMonth(t.y, t.m) + t.d - 1

FarDays == norm["max_minutes"] \div 1440 + 2

Cut(days) ==
  IF days > FarDays THEN FarDays ELSE IF days < - FarDays THEN - FarDays ELSE days

Elapsed(later, earlier) ==
  Cut(CountedDays(later) - CountedDays(earlier)) * 86400
    + (later.h - earlier.h) * 3600 + (later.min - earlier.min) * 60 + later.s - earlier.s

(***************************************************************************)
(* Of proper timestamps, the query has the weekday of the calendar, and    *)
(* the minutes elapsed but for less than one: over the ends of months,     *)
(* leap days and centuries, in either order of the two.                    *)
(***************************************************************************)
ProperTime(s) == s \in DOMAIN timestamps /\ Proper(timestamps[s])

MinutesOf(seconds) == Quantized(clamp([n |-> seconds, d |-> 60 * norm["max_minutes"]]))

TimesAreCalendar ==
  query # NoQuery /\ ProperTime(p.transaction.requested_at) =>
    LET now == timestamps[p.transaction.requested_at]
    IN  /\ query[3] = Quantized([n |-> now.h, d |-> 23])
        /\ query[4] = Quantized([n |-> CountedDays(now) % 7, d |-> 6])
        /\ p.last_transaction # NoRecord /\ ProperTime(p.last_transaction.timestamp) =>
             LET elapsed == Elapsed(now, timestamps[p.last_transaction.timestamp])
             IN  query[5] \in MinutesOf(elapsed - 59) .. MinutesOf(elapsed + 59)
=============================================================================
