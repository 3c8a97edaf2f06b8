----------------------------- MODULE MCScoring ------------------------------
(***************************************************************************)
(* Requests for Scoring: bodies that are texts of documents, and texts     *)
(* with a token lost, put in or replaced; and heads.                       *)
(***************************************************************************)
EXTENDS Scoring, JsonDocument

True == Mark("true")
Null == Mark("null")
Seven == Number(<<"7">>)

(***************************************************************************)
(* Numbers: every spelling of up to four characters, and integers and      *)
(* exponents about the limits of twelve bits.                              *)
(***************************************************************************)
Spelled == UNION {[1 .. n -> {"-", "+", "0", "7", ".", "e"}] : n \in 1 .. 4}

WideIntegers ==
  {<<"2", "0", "4", "7">>, <<"2", "0", "4", "8">>, <<"-", "2", "0", "4", "8">>,
   <<"-", "2", "0", "4", "9">>, <<"9", "9", "9", "9", "9">>, <<"0", "0", "7">>, <<"7", ".", "0">>}

WideExponents ==
  {<<"7", "e">> \o sign \o digits :
     sign \in {<< >>, <<"+">>, <<"-">>},
     digits \in {<<"2", "0", "4", "7">>, <<"2", "0", "4", "8">>, <<"2", "0", "4", "9">>,
                <<"4", "0", "9", "6">>, <<"4", "0", "9", "7">>, <<"9", "9", "9", "9", "9">>}}

One(object, key, v) == Object(<<<<object, Object(<<<<key, v>>>>)>>>>)

NumberDocuments ==
  {One("transaction", "amount", Number(b)) : b \in Spelled \union WideExponents}
  \union {One("transaction", "installments", Number(b)) : b \in Spelled \union WideIntegers}

(***************************************************************************)
(* Documents of up to three members, each known or not, nested, of the     *)
(* right type or not.                                                      *)
(***************************************************************************)
Values ==
  {Str("a"), Seven, True, Null, Mark("junk"), Array(<<>>), Array(<<Str("a"), Str("b")>>),
   Array(<<Seven, Array(<<Null>>)>>), Object(<<>>), Object(<<<<"amount", Seven>>>>),
   Object(<<<<"timestamp", Str("a")>>, <<"timestamp", Seven>>>>)}

AllMembers ==
  {<<o, v>> : o \in DOMAIN Known.payload \union {"other"}, v \in Values}
  \union
  {<<o, Object(<<<<k, v>>>>)>> :
     o \in DOMAIN Known.payload,
     k \in {"amount", "requested_at", "known_merchants", "tx_count_24h", "id", "mcc", "is_online",
            "timestamp", "km_from_current"},
     v \in Values}

Singles == {Object(<<m>>) : m \in AllMembers}

Typical ==
  {<<"id", Str("a")>>,
   <<"transaction", Object(<<<<"amount", Seven>>, <<"requested_at", Str("a")>>>>)>>,
   <<"transaction", Object(<<<<"requested_at", Str("b")>>, <<"other", Object(<<<<"amount", Null>>>>)>>>>)>>,
   <<"customer", Object(<<<<"known_merchants", Array(<<Str("a"), Str("b")>>)>>, <<"tx_count_24h", Seven>>>>)>>,
   <<"customer", Object(<<<<"known_merchants", Array(<<Str("b")>>)>>, <<"known_merchants", Array(<<>>)>>>>)>>,
   <<"merchant", Object(<<<<"id", Str("a")>>, <<"mcc", Str("b")>>>>)>>,
   <<"terminal", Object(<<<<"is_online", True>>, <<"is_online", Mark("false")>>>>)>>,
   <<"last_transaction", Null>>,
   <<"last_transaction", Object(<<<<"timestamp", Str("a")>>, <<"km_from_current", Seven>>>>)>>,
   <<"last_transaction", Object(<<<<"timestamp", Str("b")>>>>)>>,
   <<"other", Array(<<Object(<<<<"transaction", Object(<<<<"amount", Null>>>>)>>>>), Array(<<>>), Seven>>)>>}

Mixed == {Object(s) : s \in UNION {[1 .. n -> Typical] : n \in {0, 2, 3}}}

(***************************************************************************)
(* Timestamps about the ends of months, leap days and centuries, and some  *)
(* that are no dates; the strings "a" and "b" are too short.               *)
(***************************************************************************)
Time(y, m, d, h, min, s) == [y |-> y, m |-> m, d |-> d, h |-> h, min |-> min, s |-> s]

TimeTable ==
  {<<"1900-02-28T23:59:59", Time(1900, 2, 28, 23, 59, 59)>>,
   <<"1900-03-01T00:00:00", Time(1900, 3, 1, 0, 0, 0)>>,
   <<"1999-12-31T23:59:00", Time(1999, 12, 31, 23, 59, 0)>>,
   <<"2000-01-01T00:00:30", Time(2000, 1, 1, 0, 0, 30)>>,
   <<"2000-02-28T12:00:00", Time(2000, 2, 28, 12, 0, 0)>>,
   <<"2000-02-29T11:59:59", Time(2000, 2, 29, 11, 59, 59)>>,
   <<"2000-03-01T11:59:00", Time(2000, 3, 1, 11, 59, 0)>>,
   <<"2023-02-28T00:00:00", Time(2023, 2, 28, 0, 0, 0)>>,
   <<"2023-03-01T00:30:59", Time(2023, 3, 1, 0, 30, 59)>>,
   <<"2024-02-29T23:10:10", Time(2024, 2, 29, 23, 10, 10)>>,
   <<"2024-03-01T22:10:11", Time(2024, 3, 1, 22, 10, 11)>>,
   <<"2026-03-11T20:23:35", Time(2026, 3, 11, 20, 23, 35)>>,
   <<"2026-03-15T23:59:59", Time(2026, 3, 15, 23, 59, 59)>>,
   <<"2026-03-16T00:00:00", Time(2026, 3, 16, 0, 0, 0)>>,
   <<"2026-04-30T07:00:00", Time(2026, 4, 30, 7, 0, 0)>>,
   <<"2026-05-01T06:59:59", Time(2026, 5, 1, 6, 59, 59)>>,
   <<"2100-02-28T10:00:00", Time(2100, 2, 28, 10, 0, 0)>>,
   <<"2100-03-01T09:59:01", Time(2100, 3, 1, 9, 59, 1)>>,
   <<"2026-00-10T10:00:00", Time(2026, 0, 10, 10, 0, 0)>>,
   <<"2026-13-10T10:00:00", Time(2026, 13, 10, 10, 0, 0)>>,
   <<"2026-13-10T24:00:00", Time(2026, 13, 10, 24, 0, 0)>>,
   <<"2026-02-31T10:00:00", Time(2026, 2, 31, 10, 0, 0)>>,
   <<"2026-06-01T10:75:99", Time(2026, 6, 1, 10, 75, 99)>>}

MCTimestamps ==
  [s \in {t[1] : t \in TimeTable} |-> (CHOOSE t \in TimeTable : t[1] = s)[2]]

MCNorm ==
  [max_amount |-> 100, max_installments |-> 12, amount_vs_avg_ratio |-> 10,
   max_minutes |-> 1440, max_km |-> 50, max_tx_count_24h |-> 20,
   max_merchant_avg_amount |-> 100]

MCRisk == [mcc \in {"a", "b"} |-> IF mcc = "a" THEN [n |-> 3, d |-> 20] ELSE [n |-> 2, d |-> 1]]

TimeDocuments ==
  {Object(<<<<"transaction", Object(<<<<"requested_at", Str(later)>>>>)>>,
            <<"last_transaction", Object(<<<<"timestamp", Str(earlier)>>>>)>>>>) :
     later \in DOMAIN MCTimestamps \union {"a"}, earlier \in DOMAIN MCTimestamps \union {"a"}}

Amounts ==
  {Number(b) : b \in {<<"0">>, <<"7">>, <<"-", "7">>, <<"-", "9", "0", "0">>, <<"2", ".", "5">>, <<"9", "0", "0">>}}

AmountDocuments ==
  {Object(<<<<"transaction", Object(<<<<"amount", x>>>>)>>,
            <<"customer", Object(<<<<"avg_amount", y>>>>)>>,
            <<"terminal", Object(<<<<"km_from_home", x>>>>)>>,
            <<"last_transaction", last>>>>) :
     x \in Amounts, y \in Amounts,
     last \in {Null} \union {Object(<<<<"km_from_current", k>>>>) : k \in Amounts}}

(***************************************************************************)
(* Heads of up to three fields: lengths within the limit and beyond it,    *)
(* such that an int of twelve bits holds and not, with no blank and with   *)
(* several, in other fields and in the path; and heads that are no HTTP.   *)
(***************************************************************************)
Field(name, blanks, value) == [name |-> name, blanks |-> blanks, value |-> value]

Lengths ==
  {<<"0">>, <<"7">>, <<"4", "0">>, <<"4", "1">>, <<"0", "0", "9">>, <<"2", "0", "4", "7">>,
   <<"2", "0", "4", "8">>, <<"4", "1", "0", "3">>}

LengthFieldsOf(values) ==
  {Field(<<name>>, blanks, value) : name \in LengthNames, blanks \in 0 .. 2, value \in values}

Fields2 ==
  {Field(<<"host:">>, 1, <<"api", "8">>), Field(<<"x-", "content-length:">>, 1, <<"5">>),
   Field(<<"via:">>, 1, <<"Content-Length:", Blank, "6">>)}

Targets == {<<"/fraud-score">>, <<"/ready">>, <<"/", "content-length:", "7">>}

Saids ==
  {[target |-> t, fields |-> fs] :
     t \in Targets,
     fs \in {<<>>} \union {<<f>> : f \in LengthFieldsOf(Lengths) \union Fields2}
            \union {<<f, g>> : f \in Fields2, g \in LengthFieldsOf({<<"7">>, <<"4", "1">>})}
            \union {<<g, f>> : f \in Fields2, g \in LengthFieldsOf({<<"7">>, <<"4", "1">>})}
            \union {<<g, f, h>> : f \in Fields2, g \in LengthFieldsOf({<<"7">>}),
                                  h \in LengthFieldsOf({<<"8">>})}}

OddHeads ==
  {<<"\r\n", "\r\n">>, <<"POST", "\r\n", "\r\n">>, <<"POST", Blank, "\r\n", "\r\n">>,
   <<Blank, Blank, "\r\n", "\r\n">>, <<"content-length:", "\r\n", "\r\n">>}

Plain == [target |-> <<"/fraud-score">>, fields |-> <<Field(<<"Content-Length:">>, 1, <<"7">>)>>]

Request(said, head, full, tokens, document) ==
  [said |-> said, head |-> head, full |-> full, tokens |-> tokens, document |-> document]

HeadRequests ==
  {Request(said, HeadOf(said), FALSE, <<>>, NoRecord) : said \in Saids}
  \union {Request(NoRecord, head, full, <<>>, NoRecord) : head \in OddHeads, full \in BOOLEAN}

With(tokens, document) == Request(Plain, HeadOf(Plain), FALSE, tokens, document)

(***************************************************************************)
(* Texts that are no longer those of a document.                           *)
(***************************************************************************)
Tokens ==
  {Mark(c) : c \in {"{", "}", "[", "]", ":", ",", "true", "null", "junk"}}
  \union {Str("amount"), Seven}

Damaged(ts) ==
  {RemoveAt(ts, i) : i \in DOMAIN ts}
  \union {InsertAt(ts, i, t) : i \in DOMAIN ts, t \in Tokens}
  \union {ReplaceAt(ts, i, t) : i \in DOMAIN ts, t \in Tokens}
  \union {SubSeq(ts, 1, i) : i \in 0 .. Len(ts)}

DamagedTexts ==
  UNION {Damaged(Text(Object(<<m>>))) : m \in Typical}

MCInputs ==
  HeadRequests
  \union {With(Text(d), d) : d \in NumberDocuments \union Singles \union Mixed
                                  \union TimeDocuments \union AmountDocuments}
  \union {With(ts, NoRecord) : ts \in DamagedTexts}
=============================================================================
