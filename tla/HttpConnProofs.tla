--------------------------- MODULE HttpConnProofs ---------------------------
(***************************************************************************)
(* Safety of the HTTP server, for any number of connections and buffers    *)
(* and any streams: buffers are exclusive and bounded, hold the right      *)
(* piece of the right stream, the n-th answer is for the n-th request, and *)
(* the server closes a connection for no other reason than it should.      *)
(***************************************************************************)
EXTENDS HttpConn, FiniteSetTheorems, WellFoundedInduction, SequenceTheorems, TLAPS

(***************************************************************************)
(* A set of naturals has a least element: what a loop finds that stops at  *)
(* the first position with some property.                                  *)
(***************************************************************************)
LEMMA LeastNatural ==
  ASSUME NEW S \in SUBSET Nat, S # {}
  PROVE  \E n \in S : \A m \in S : n <= m
<1> DEFINE T == {1 .. n : n \in S}
<1>1. T \subseteq FiniteSubsetsOf(Nat) /\ T # {}
  <2>1. ASSUME NEW n \in S PROVE 1 .. n \in FiniteSubsetsOf(Nat)
    <3>1. n \in Int /\ 1 \in Int /\ 1 .. n \subseteq Nat
      OBVIOUS
    <3>2. IsFiniteSet(1 .. n)
      BY <3>1, FS_Interval
    <3> QED BY <3>1, <3>2 DEF FiniteSubsetsOf
  <2> QED BY <2>1
<1>2. PICK t \in T : \A u \in T : <<u, t>> \notin StrictSubsetOrdering(Nat)
  <2> HIDE DEF T
  <2> QED BY <1>1, WFMin, FS_StrictSubsetOrderingWellFounded
<1>3. PICK n \in S : t = 1 .. n
  OBVIOUS
<1>4. ASSUME NEW m \in S, m < n PROVE FALSE
  <2>1. 1 .. m \subseteq 1 .. n /\ 1 .. m # 1 .. n
    <3>1. n \in 1 .. n /\ n \notin 1 .. m
      BY <1>4
    <3> QED BY <1>4, <3>1
  <2>2. <<1 .. m, t>> \in StrictSubsetOrdering(Nat)
    BY <1>3, <2>1 DEF StrictSubsetOrdering
  <2> QED BY <1>2, <2>2
<1>5. QED
  BY <1>4

(***************************************************************************)
(* Streams: a request begins where the one before ends, so that requests   *)
(* do not overlap and the end of a head tells the request.                 *)
(***************************************************************************)
LEMMA StreamShape ==
  ASSUME NEW s \in Streams
  PROVE  /\ Len(s) \in Nat
         /\ \A n \in 1 .. Len(s) :
              /\ s[n].at \in Nat /\ s[n].head \in Nat /\ s[n].head > 0 /\ s[n].body \in Nat
              /\ EndOf(s[n]) \in Nat /\ s[n].at + s[n].head \in Nat
              /\ s[n].at + s[n].head <= EndOf(s[n])
         /\ Len(s) > 0 => s[1].at = 0
         /\ \A n \in 1 .. (Len(s) - 1) : s[n + 1].at = EndOf(s[n])
<1>1. s \in Seq(Request) /\ (Len(s) > 0 => s[1].at = 0)
      /\ \A n \in 1 .. (Len(s) - 1) : s[n + 1].at = EndOf(s[n])
  BY StreamAssumption
<1>2. Len(s) \in Nat /\ \A n \in 1 .. Len(s) : s[n] \in Request
  BY <1>1
<1>3. ASSUME NEW n \in 1 .. Len(s)
      PROVE  /\ s[n].at \in Nat /\ s[n].head \in Nat /\ s[n].head > 0 /\ s[n].body \in Nat
             /\ EndOf(s[n]) \in Nat /\ s[n].at + s[n].head \in Nat
             /\ s[n].at + s[n].head <= EndOf(s[n])
  BY <1>2 DEF Request, EndOf
<1> QED BY <1>1, <1>2, <1>3

LEMMA RequestsFollow ==
  ASSUME NEW s \in Streams, NEW m \in 1 .. Len(s), NEW n \in 1 .. Len(s), m < n
  PROVE  EndOf(s[m]) <= s[n].at
<1> USE StreamShape
<1> DEFINE T == {i \in (m + 1) .. Len(s) : ~ (EndOf(s[m]) <= s[i].at)}
<1>1. SUFFICES ASSUME T # {} PROVE FALSE
  <2>1. n \in (m + 1) .. Len(s)
    OBVIOUS
  <2> QED BY <1>1, <2>1
<1>2. T \in SUBSET Nat
  OBVIOUS
<1>3. PICK i \in T : \A j \in T : i <= j
  <2> HIDE DEF T
  <2> QED BY <1>1, <1>2, LeastNatural
<1>4. i - 1 \in m .. (Len(s) - 1) /\ s[(i - 1) + 1].at = EndOf(s[i - 1])
  BY <1>3
<1>5. i # m + 1
  BY <1>3, <1>4 DEF EndOf
<1>6. i - 1 \in (m + 1) .. Len(s) /\ i - 1 \notin T
  <2>1. i - 1 \in (m + 1) .. Len(s)
    BY <1>3, <1>4, <1>5
  <2>2. ASSUME i - 1 \in T PROVE FALSE
    <3>1. i <= i - 1
      BY <1>3, <2>2
    <3> QED BY <1>3, <3>1
  <2> QED BY <2>1, <2>2
<1>7. EndOf(s[m]) <= s[i - 1].at
  BY <1>6
<1>8. /\ s[i - 1].at \in Nat /\ s[i - 1].head \in Nat /\ EndOf(s[i - 1]) \in Nat
      /\ s[i - 1].at + s[i - 1].head <= EndOf(s[i - 1])
      /\ EndOf(s[m]) \in Nat
  <2>1. i - 1 \in 1 .. Len(s)
    BY <1>4
  <2> QED BY <2>1
<1>9. s[i].at = EndOf(s[i - 1])
  <2>1. (i - 1) + 1 = i
    BY <1>3
  <2> QED BY <1>4, <2>1
<1>10. EndOf(s[m]) <= s[i].at
  BY <1>7, <1>8, <1>9
<1> QED BY <1>3, <1>10

(***************************************************************************)
(* The head that is found in a buffer which holds a stream from the        *)
(* beginning of request n on is that of request n.                         *)
(***************************************************************************)
Begin(s, n) == IF n = 1 THEN 0 ELSE EndOf(s[n - 1])

LEMMA BeginIsAt ==
  ASSUME NEW s \in Streams, NEW n \in 1 .. Len(s)
  PROVE  Begin(s, n) = s[n].at
<1> USE StreamShape
<1>1. CASE n = 1
  BY <1>1 DEF Begin
<1>2. CASE n # 1
  <2>1. n - 1 \in 1 .. (Len(s) - 1) /\ s[(n - 1) + 1].at = EndOf(s[n - 1])
    BY <1>2
  <2> QED BY <1>2, <2>1 DEF Begin
<1> QED BY <1>1, <1>2

LEMMA HeadFound ==
  ASSUME stream \in [Conns -> Streams], NEW c \in Conns,
         NEW n \in 1 .. (Len(stream[c]) + 1), NEW k \in Nat, NEW m,
         \A i \in 1 .. k : m[i] = <<c, Begin(stream[c], n) + i>>,
         indexHeaderEnd(m, k) # 0
  PROVE  /\ n <= Len(stream[c])
         /\ indexHeaderEnd(m, k) = stream[c][n].head /\ indexHeaderEnd(m, k) \in Nat
         /\ findContentLength(m[indexHeaderEnd(m, k)]) = stream[c][n].body
<1> DEFINE s == stream[c]
           h == indexHeaderEnd(m, k)
           ends == {i \in 1 .. k : EndsHead(m[i])}
<1>1. s \in Streams /\ Len(s) \in Nat /\ c # NoConn
  BY StreamShape, NoneAssumption
<1>2. ASSUME NEW i \in 1 .. k
      PROVE  EndsHead(m[i]) <=> \E j \in 1 .. Len(s) : Begin(s, n) + i = s[j].at + s[j].head
  BY <1>1 DEF EndsHead
<1>3. Begin(s, n) \in Nat
  <2>1. CASE n = 1
    BY <2>1 DEF Begin
  <2>2. CASE n # 1
    <3>1. n - 1 \in 1 .. Len(s)
      BY <1>1, <2>2
    <3> QED BY <1>1, <2>2, <3>1, StreamShape DEF Begin, EndOf
  <2> QED BY <2>1, <2>2
<1>4. ASSUME NEW i \in 1 .. k, NEW j \in 1 .. Len(s), Begin(s, n) + i = s[j].at + s[j].head
      PROVE  n <= j
  <2>1. SUFFICES ASSUME j < n PROVE FALSE
    BY <1>1
  <2>2. n # 1 /\ n - 1 \in 1 .. Len(s)
    BY <1>1, <2>1
  <2>3. Begin(s, n) = EndOf(s[n - 1])
    BY <2>2 DEF Begin
  <2>4. s[j].at + s[j].head <= EndOf(s[j]) /\ EndOf(s[j]) \in Nat
    BY <1>1, StreamShape DEF EndOf
  <2>5. EndOf(s[j]) <= EndOf(s[n - 1])
    <3>1. CASE j = n - 1
      BY <3>1, <2>4
    <3>2. CASE j # n - 1
      <4>1. EndOf(s[j]) <= s[n - 1].at
        BY <1>1, <2>1, <2>2, <3>2, RequestsFollow
      <4>2. s[n - 1].at <= EndOf(s[n - 1]) /\ s[n - 1].at \in Nat /\ EndOf(s[n - 1]) \in Nat
        BY <1>1, <2>2, StreamShape DEF EndOf
      <4> QED BY <4>1, <4>2, <2>4
    <3> QED BY <3>1, <3>2
  <2>6. s[j].at \in Nat /\ s[j].head \in Nat
    BY <1>1, StreamShape
  <2> QED BY <1>3, <1>4, <2>3, <2>4, <2>5, <2>6
<1>5. ends # {}
  BY DEF indexHeaderEnd
<1>6. PICK e \in ends : \A i \in ends : e <= i
  <2>1. ends \in SUBSET Nat
    OBVIOUS
  <2> HIDE DEF ends
  <2> QED BY <1>5, <2>1, LeastNatural
<1>7. PICK j \in 1 .. Len(s) : Begin(s, n) + e = s[j].at + s[j].head
  BY <1>2, <1>6
<1>8. n \in 1 .. Len(s) /\ n <= j
  BY <1>1, <1>4, <1>6, <1>7
<1>9. Begin(s, n) = s[n].at /\ s[n].at \in Nat /\ s[n].head \in Nat /\ s[n].head > 0 /\ s[n].body \in Nat
  BY <1>1, <1>8, BeginIsAt, StreamShape
<1>10. s[n].head <= e
  <2>1. CASE j = n
    BY <1>6, <1>7, <1>9, <2>1
  <2>2. CASE j # n
    <3>1. EndOf(s[n]) <= s[j].at
      BY <1>1, <1>8, <2>2, RequestsFollow
    <3>2. s[j].at \in Nat /\ s[j].head \in Nat
      BY <1>1, StreamShape
    <3>3. EndOf(s[n]) \in Nat /\ s[n].at + s[n].head <= EndOf(s[n])
      BY <1>1, <1>8, StreamShape
    <3>4. e \in Nat /\ s[n].at + e = s[j].at + s[j].head
      BY <1>6, <1>7, <1>9
    <3>5. s[n].at + s[n].head <= s[n].at + e
      BY <1>9, <3>1, <3>2, <3>3, <3>4, SMTT(20)
    <3> QED BY <1>9, <3>4, <3>5
  <2> QED BY <2>1, <2>2
<1>11. s[n].head \in ends
  <2>1. s[n].head \in 1 .. k
    BY <1>6, <1>9, <1>10
  <2>2. EndsHead(m[s[n].head])
    BY <1>2, <1>8, <1>9, <2>1
  <2> QED BY <2>1, <2>2
<1>12. e = s[n].head
  BY <1>6, <1>9, <1>10, <1>11
<1>13. h = e
  <2>1. h = CHOOSE i \in ends : \A l \in ends : i <= l
    BY <1>5 DEF indexHeaderEnd
  <2>2. h \in ends /\ \A l \in ends : h <= l
    <3> HIDE DEF ends
    <3> QED BY <1>6, <2>1
  <2> QED BY <1>6, <2>2
<1>14. ASSUME NEW i \in 1 .. Len(s), s[n].at + s[n].head = s[i].at + s[i].head
       PROVE  i = n
  <2>1. /\ s[i].at \in Nat /\ s[i].head \in Nat /\ s[i].head > 0
        /\ EndOf(s[i]) \in Nat /\ s[i].at + s[i].head <= EndOf(s[i])
        /\ EndOf(s[n]) \in Nat /\ s[n].at + s[n].head <= EndOf(s[n])
    BY <1>1, <1>8, StreamShape
  <2>2. CASE i < n
    <3>1. EndOf(s[i]) <= s[n].at
      BY <1>1, <1>8, <2>2, RequestsFollow
    <3>2. s[n].at + s[n].head \in Nat /\ s[i].at + s[i].head \in Nat
      BY <1>1, <1>8, StreamShape
    <3>3. s[n].at + s[n].head # s[i].at + s[i].head
      BY <1>9, <2>1, <3>1, <3>2
    <3> QED BY <1>14, <3>3
  <2>3. CASE n < i
    <3>1. EndOf(s[n]) <= s[i].at
      BY <1>1, <1>8, <2>3, RequestsFollow
    <3>2. s[n].at + s[n].head \in Nat /\ s[i].at + s[i].head \in Nat
      BY <1>1, <1>8, StreamShape
    <3>3. s[n].at + s[n].head # s[i].at + s[i].head
      BY <1>9, <2>1, <3>1, <3>2
    <3> QED BY <1>14, <3>3
  <2> QED BY <1>1, <1>8, <2>2, <2>3
<1>15. findContentLength(m[h]) = s[n].body
  <2>1. m[h] = <<c, s[n].at + s[n].head>>
    BY <1>6, <1>9, <1>12, <1>13
  <2>2. n = CHOOSE i \in 1 .. Len(s) : s[n].at + s[n].head = s[i].at + s[i].head
    BY <1>8, <1>14
  <2>3. m[h][1] = c /\ m[h][2] = s[n].at + s[n].head
    BY <2>1
  <2>4. findContentLength(m[h])
          = s[CHOOSE i \in 1 .. Len(s) : s[n].at + s[n].head = s[i].at + s[i].head].body
    BY <2>3, Zenon DEF findContentLength
  <2> QED BY <2>2, <2>4
<1>16. h = s[n].head /\ h \in Nat
  BY <1>9, <1>12, <1>13
<1> QED BY <1>8, <1>15, <1>16

(***************************************************************************)
(* The inductive invariant.  BuffersBounded alone is not inductive: that a *)
(* buffer which is doubled stays within the limit needs the two sizes, and *)
(* that the body loop doubles only a small one needs the length the loop   *)
(* before it accepted.  AnswersInOrder needs what the buffer holds, which  *)
(* needs that nobody else writes to it.                                    *)
(***************************************************************************)
TwoSizes == \A b \in Buffers : size[b] \in {InitSize, maxRequestSize}

Current(c) == Len(answers[c]) + 1
Start(c)   == Begin(stream[c], Current(c))
Holds(c, m, k) == \A i \in 1 .. k : m[i] = <<c, Start(c) + i>>

NewOK(c) == pc[c] = "new" => answers[c] = <<>> /\ received[c] = 0 /\ used[c] = 0

AnswersOK(c) ==
  /\ Len(answers[c]) <= Len(stream[c])
  /\ \A n \in 1 .. Len(answers[c]) : answers[c][n] = n

BufferOK(c) ==
  Open(c) => /\ used[c] <= size[ref[c]]
             /\ received[c] = Start(c) + used[c]
             /\ Holds(c, mem[ref[c]], used[c])

LengthOK(c) ==
  pc[c] \in {"body", "write"} =>
    /\ Current(c) <= Len(stream[c])
    /\ bodyEnd[c] = stream[c][Current(c)].head + stream[c][Current(c)].body
    /\ bodyEnd[c] <= maxRequestSize

WriteOK(c) ==
  pc[c] = "write" => used[c] >= bodyEnd[c] /\ resp[c] = Current(c)

ConnInv(c) == NewOK(c) /\ AnswersOK(c) /\ BufferOK(c) /\ LengthOK(c) /\ WriteOK(c)

IInv == TypeOK /\ BuffersExclusive /\ TwoSizes /\ \A c \in Conns : ConnInv(c)

(***************************************************************************)
(* A step of connection c leaves alone what the invariant says of others.  *)
(***************************************************************************)
LocalTo(c) ==
  \A d \in Conns \ {c} :
    /\ UNCHANGED <<stream[d], answers[d], received[d], pc[d], ref[d], used[d], bodyEnd[d], resp[d]>>
    /\ Open(d) => size'[ref[d]] = size[ref[d]] /\ mem'[ref[d]] = mem[ref[d]]

LEMMA OthersKept ==
  ASSUME NEW c \in Conns, LocalTo(c), NEW d \in Conns \ {c}, ConnInv(d)
  PROVE  ConnInv(d)'
<1>1. /\ stream'[d] = stream[d] /\ answers'[d] = answers[d] /\ received'[d] = received[d]
      /\ pc'[d] = pc[d] /\ ref'[d] = ref[d] /\ used'[d] = used[d]
      /\ bodyEnd'[d] = bodyEnd[d] /\ resp'[d] = resp[d]
      /\ Open(d) => size'[ref[d]] = size[ref[d]] /\ mem'[ref[d]] = mem[ref[d]]
  BY DEF LocalTo
<1>2. Current(d)' = Current(d) /\ Start(d)' = Start(d) /\ (Open(d)' <=> Open(d))
  BY <1>1 DEF Current, Start, Open
<1>3. AnswersOK(d)'
  BY <1>1 DEF ConnInv, AnswersOK
<1>4. BufferOK(d)'
  <2>1. SUFFICES ASSUME Open(d)'
                 PROVE  /\ used'[d] <= size'[ref'[d]]
                        /\ received'[d] = Start(d)' + used'[d]
                        /\ Holds(d, mem[ref[d]], used[d])'
    BY DEF BufferOK
  <2>2. Open(d) /\ BufferOK(d)
    BY <1>2, <2>1 DEF ConnInv
  <2> QED BY <1>1, <1>2, <2>2 DEF BufferOK, Holds
<1>5. LengthOK(d)'
  BY <1>1, <1>2 DEF ConnInv, LengthOK
<1>6. WriteOK(d)'
  BY <1>1, <1>2 DEF ConnInv, WriteOK
<1>7. NewOK(d)'
  BY <1>1 DEF ConnInv, NewOK
<1> QED BY <1>3, <1>4, <1>5, <1>6, <1>7 DEF ConnInv

(***************************************************************************)
(* What the invariant says of an open connection.                          *)
(***************************************************************************)
LEMMA OpenFacts ==
  ASSUME IInv, NEW c \in Conns, Open(c)
  PROVE  /\ ref[c] \in Buffers /\ ref[c] \notin pool
         /\ size[ref[c]] \in Nat \ {0} /\ mem[ref[c]] \in [1 .. size[ref[c]] -> Unit]
         /\ \A d \in Conns \ {c} : Open(d) => ref[d] # ref[c] /\ ref[d] \in Buffers
         /\ used[c] \in Nat /\ used[c] <= size[ref[c]]
         /\ Len(answers[c]) \in Nat /\ Current(c) \in 1 .. (Len(stream[c]) + 1)
         /\ stream[c] \in Streams /\ Len(stream[c]) \in Nat /\ Start(c) \in Nat
         /\ received[c] = Start(c) + used[c] /\ received[c] \in Nat
         /\ Holds(c, mem[ref[c]], used[c])
<1>1. ref[c] \in Buffers /\ ref[c] \notin pool
      /\ \A d \in Conns \ {c} : Open(d) => ref[d] # ref[c] /\ ref[d] \in Buffers
  BY DEF IInv, TypeOK, BuffersExclusive
<1>2. size[ref[c]] \in Nat \ {0} /\ mem[ref[c]] \in [1 .. size[ref[c]] -> Unit]
  BY <1>1 DEF IInv, TypeOK
<1>3. used[c] \in Nat /\ used[c] <= size[ref[c]] /\ received[c] \in Nat
      /\ received[c] = Start(c) + used[c] /\ Holds(c, mem[ref[c]], used[c])
  BY DEF IInv, TypeOK, ConnInv, BufferOK
<1>4. stream[c] \in Streams /\ Len(stream[c]) \in Nat
  BY StreamShape DEF IInv, TypeOK
<1>5. Len(answers[c]) \in Nat /\ Len(answers[c]) <= Len(stream[c])
  <2>1. answers[c] \in Seq(Nat)
    BY DEF IInv, TypeOK
  <2>2. Len(answers[c]) <= Len(stream[c])
    BY DEF IInv, ConnInv, AnswersOK
  <2> QED BY <2>1, <2>2
<1>6. Current(c) \in 1 .. (Len(stream[c]) + 1)
  BY <1>4, <1>5 DEF Current
<1>7. Start(c) \in Nat
  <2>1. CASE Current(c) = 1
    BY <2>1 DEF Start, Begin
  <2>2. CASE Current(c) # 1
    <3>1. Current(c) - 1 \in 1 .. Len(stream[c])
      BY <1>4, <1>6, <2>2
    <3>2. EndOf(stream[c][Current(c) - 1]) \in Nat
      BY <1>4, <3>1, StreamShape
    <3> QED BY <2>2, <3>2 DEF Start, Begin
  <2> QED BY <2>1, <2>2
<1> QED BY <1>1, <1>2, <1>3, <1>4, <1>5, <1>6, <1>7

(***************************************************************************)
(* It holds of new connections.                                            *)
(***************************************************************************)
LEMMA InitInv == Init => IInv
<1> SUFFICES ASSUME Init PROVE IInv
  OBVIOUS
<1>1. InitSize \in Nat \ {0} /\ maxRequestSize \in Nat
  BY SizeAssumption
<1>2. \A c \in Conns : ~ Open(c)
  BY DEF Init, Open
<1>3. TypeOK
  <2>1. \A b \in Buffers : mem[b] \in [1 .. size[b] -> Unit]
    BY DEF Init, Blank, Unit
  <2>2. answers \in [Conns -> Seq(Nat)]
    BY EmptySeq DEF Init
  <2>3. size \in [Buffers -> Nat \ {0}]
    BY <1>1 DEF Init
  <2>4. \A c \in Conns : Open(c) <=> ref[c] # NoBuffer
    BY <1>2 DEF Init
  <2>5. DOMAIN mem = Buffers /\ pool \subseteq Buffers
    BY DEF Init
  <2> QED BY <2>1, <2>2, <2>3, <2>4, <2>5 DEF Init, TypeOK
<1>4. TwoSizes /\ BuffersExclusive
  BY <1>2 DEF Init, TwoSizes, BuffersExclusive
<1>5. ASSUME NEW c \in Conns PROVE ConnInv(c)
  <2>1. answers[c] = <<>> /\ Len(answers[c]) = 0
    BY DEF Init
  <2>2. Len(stream[c]) \in Nat
    BY StreamShape DEF Init
  <2>3. AnswersOK(c)
    BY <2>1, <2>2 DEF AnswersOK
  <2>4. pc[c] = "new" /\ NewOK(c)
    BY DEF Init, NewOK
  <2> QED BY <1>2, <2>3, <2>4 DEF ConnInv, BufferOK, LengthOK, WriteOK
<1> QED BY <1>3, <1>4, <1>5 DEF IInv

(***************************************************************************)
(* What the client does is nothing the invariant speaks about.             *)
(***************************************************************************)
LEMMA ClientStep ==
  ASSUME IInv, NEW c \in Conns, ClientSend(c) \/ ClientClose(c)
  PROVE  IInv'
<1>1. UNCHANGED <<stream, received, answers, pc, ref, locals, pool, size, mem>>
  BY DEF ClientSend, ClientClose
<1>2. sent' \in [Conns -> Nat] /\ finished' \in [Conns -> BOOLEAN]
  <2>1. sent \in [Conns -> Nat] /\ finished \in [Conns -> BOOLEAN]
    BY DEF IInv, TypeOK
  <2>2. CASE ClientSend(c)
    BY <2>1, <2>2 DEF ClientSend
  <2>3. CASE ClientClose(c)
    BY <2>1, <2>3 DEF ClientClose
  <2> QED BY <2>2, <2>3
<1>3. TypeOK'
  <2>1. TypeOK /\ \A d \in Conns : Open(d)' <=> Open(d)
    BY <1>1 DEF IInv, Open
  <2> QED BY <1>1, <1>2, <2>1 DEF TypeOK, locals
<1>4. BuffersExclusive' /\ TwoSizes'
  BY <1>1 DEF IInv, BuffersExclusive, TwoSizes, Open
<1>5. ASSUME NEW d \in Conns PROVE ConnInv(d)'
  <2>1. ConnInv(d)
    BY DEF IInv
  <2> QED BY <1>1, <2>1 DEF ConnInv, NewOK, AnswersOK, BufferOK, LengthOK, WriteOK, Holds, Start,
                            Current, Open, locals
<1> QED BY <1>3, <1>4, <1>5 DEF IInv

(***************************************************************************)
(* A step of a connection keeps the invariant if it keeps the part about   *)
(* the connection and is local to it.                                      *)
(***************************************************************************)
LEMMA LocalStep ==
  ASSUME IInv, NEW c \in Conns, LocalTo(c), TypeOK', BuffersExclusive', TwoSizes', ConnInv(c)'
  PROVE  IInv'
<1>1. ASSUME NEW d \in Conns PROVE ConnInv(d)'
  <2>1. CASE d = c
    BY <2>1
  <2>2. CASE d # c
    BY <2>2, OthersKept DEF IInv
  <2> QED BY <2>1, <2>2
<1> QED BY <1>1 DEF IInv

LEMMA AcceptStep ==
  ASSUME IInv, NEW c \in Conns, Accept(c)
  PROVE  IInv'
<1>1. pc[c] = "new" /\ pc' = [pc EXCEPT ![c] = "head"]
      /\ UNCHANGED <<client, received, answers, locals>>
  BY DEF Accept
<1>2. PICK b \in Buffers \ InUse :
        /\ ref' = [ref EXCEPT ![c] = b]
        /\ pool' = pool \ {b}
        /\ size'[b] \in {InitSize, maxRequestSize} /\ size' \in [Buffers -> Nat \ {0}]
        /\ DOMAIN mem' = Buffers /\ mem'[b] \in [1 .. size'[b] -> Unit]
        /\ \A a \in Buffers \ {b} : size'[a] = size[a] /\ mem'[a] = mem[a]
  <2>1. CASE \E b \in pool : ref' = [ref EXCEPT ![c] = b] /\ pool' = pool \ {b}
                             /\ UNCHANGED <<size, mem>>
    <3>1. PICK b \in pool : ref' = [ref EXCEPT ![c] = b] /\ pool' = pool \ {b}
                            /\ UNCHANGED <<size, mem>>
      BY <2>1
    <3>2. b \in Buffers
      BY DEF IInv, TypeOK
    <3>3. b \notin InUse
      BY <3>2, NoneAssumption DEF InUse, IInv, BuffersExclusive, TypeOK
    <3>4. size[b] \in {InitSize, maxRequestSize} /\ mem[b] \in [1 .. size[b] -> Unit]
      BY <3>2 DEF IInv, TwoSizes, TypeOK
    <3>5. DOMAIN mem = Buffers /\ size \in [Buffers -> Nat \ {0}]
      BY DEF IInv, TypeOK
    <3> QED BY <3>1, <3>2, <3>3, <3>4, <3>5
  <2>2. CASE \E b \in Buffers \ (pool \union InUse) :
               /\ ref' = [ref EXCEPT ![c] = b]
               /\ size' = [size EXCEPT ![b] = InitSize]
               /\ mem' = [mem EXCEPT ![b] = [i \in 1 .. InitSize |-> Blank]]
               /\ UNCHANGED pool
    <3>1. PICK b \in Buffers \ (pool \union InUse) :
               /\ ref' = [ref EXCEPT ![c] = b]
               /\ size' = [size EXCEPT ![b] = InitSize]
               /\ mem' = [mem EXCEPT ![b] = [i \in 1 .. InitSize |-> Blank]]
               /\ UNCHANGED pool
      BY <2>2
    <3>2. DOMAIN mem = Buffers /\ size \in [Buffers -> Nat \ {0}]
      BY DEF IInv, TypeOK
    <3>3. size' \in [Buffers -> Nat \ {0}] /\ size'[b] = InitSize
      BY <3>1, <3>2, SizeAssumption
    <3>4. DOMAIN mem' = Buffers /\ mem'[b] = [i \in 1 .. InitSize |-> Blank]
      BY <3>1, <3>2
    <3>5. mem'[b] \in [1 .. size'[b] -> Unit]
      BY <3>3, <3>4 DEF Blank, Unit
    <3>6. \A a \in Buffers \ {b} : size'[a] = size[a] /\ mem'[a] = mem[a]
      BY <3>1, <3>2
    <3>7. pool' = pool \ {b} /\ b \in Buffers \ InUse
      BY <3>1
    <3>8. size'[b] \in {InitSize, maxRequestSize}
      BY <3>3
    <3> QED BY <3>1, <3>3, <3>4, <3>5, <3>6, <3>7, <3>8, Zenon
  <2> QED BY <2>1, <2>2 DEF Accept
<1>3. /\ pc' \in [Conns -> {"new", "head", "body", "write", "closed"}] /\ pc'[c] = "head"
      /\ \A d \in Conns \ {c} : pc'[d] = pc[d]
      /\ ref' \in [Conns -> Buffers \union {NoBuffer}] /\ ref'[c] = b
      /\ \A d \in Conns \ {c} : ref'[d] = ref[d]
  BY <1>1, <1>2 DEF IInv, TypeOK
<1>4. ~ Open(c) /\ Open(c)' /\ \A d \in Conns \ {c} : Open(d)' <=> Open(d)
  BY <1>1, <1>3 DEF Open
<1>5. \A d \in Conns \ {c} : Open(d) => ref[d] \in Buffers \ {b}
  BY <1>2 DEF InUse, IInv, TypeOK
<1>6. TypeOK'
  <2>1. \A d \in Conns : Open(d)' <=> ref'[d] # NoBuffer
    <3>1. \A d \in Conns : Open(d) <=> ref[d] # NoBuffer
      BY DEF IInv, TypeOK
    <3> QED BY <1>3, <1>4, <3>1, NoneAssumption
  <2>2. \A a \in Buffers : mem'[a] \in [1 .. size'[a] -> Unit]
    BY <1>2 DEF IInv, TypeOK
  <2>3. pool' \subseteq Buffers
    BY <1>2 DEF IInv, TypeOK
  <2> QED BY <1>1, <1>2, <1>3, <2>1, <2>2, <2>3 DEF IInv, TypeOK, client, locals
<1>7. BuffersExclusive'
  <2>1. SUFFICES ASSUME NEW e \in Conns, Open(e)'
                 PROVE  ref'[e] \notin pool' /\ \A d \in Conns : d # e => ref'[d] # ref'[e]
    BY DEF BuffersExclusive
  <2>2. CASE e = c
    <3>1. \A d \in Conns \ {c} : ref[d] # b
      BY <1>2, NoneAssumption DEF InUse
    <3> QED BY <1>2, <1>3, <2>2, <3>1
  <2>3. CASE e # c
    <3>1. Open(e) /\ ref[e] # b /\ ref'[e] = ref[e]
      BY <1>3, <1>4, <1>5, <2>1, <2>3
    <3>2. ref[e] \notin pool /\ \A d \in Conns : d # e => ref[d] # ref[e]
      BY <3>1 DEF IInv, BuffersExclusive
    <3> QED BY <1>2, <1>3, <3>1, <3>2
  <2> QED BY <2>2, <2>3
<1>8. TwoSizes'
  BY <1>2 DEF IInv, TwoSizes
<1>9. ConnInv(c)'
  <2>1. ConnInv(c) /\ answers'[c] = <<>> /\ received'[c] = 0 /\ used'[c] = 0
    BY <1>1 DEF IInv, ConnInv, NewOK, locals
  <2>2. Len(answers'[c]) = 0 /\ Start(c)' = 0
    BY <2>1 DEF Start, Current, Begin
  <2>3. stream'[c] = stream[c] /\ Len(stream[c]) \in Nat
    BY <1>1, StreamShape DEF IInv, TypeOK, client
  <2>4. AnswersOK(c)'
    BY <2>2, <2>3 DEF AnswersOK
  <2>5. BufferOK(c)'
    <3>1. size'[b] \in Nat
      BY <1>2
    <3> QED BY <1>3, <2>1, <2>2, <3>1 DEF BufferOK, Holds
  <2> QED BY <1>3, <2>4, <2>5 DEF ConnInv, NewOK, LengthOK, WriteOK
<1>10. LocalTo(c)
  BY <1>1, <1>2, <1>3, <1>4, <1>5 DEF LocalTo, client, locals
<1> QED BY <1>6, <1>7, <1>8, <1>9, <1>10, LocalStep

(***************************************************************************)
(* A step of an open connection that keeps its buffer.                     *)
(***************************************************************************)
LEMMA InPlaceStep ==
  ASSUME IInv, NEW c \in Conns, Open(c), Open(c)',
         UNCHANGED <<stream, sent, finished, ref, pool>>,
         received' \in [Conns -> Nat], answers' \in [Conns -> Seq(Nat)],
         pc' \in [Conns -> {"new", "head", "body", "write", "closed"}],
         used' \in [Conns -> Nat], headEnd' \in [Conns -> Nat], bodyEnd' \in [Conns -> Nat],
         resp' \in [Conns -> Nat],
         \A d \in Conns \ {c} :
           UNCHANGED <<answers[d], received[d], pc[d], used[d], bodyEnd[d], resp[d]>>,
         size' \in [Buffers -> Nat \ {0}], size'[ref[c]] \in {InitSize, maxRequestSize},
         DOMAIN mem' = Buffers, mem'[ref[c]] \in [1 .. size'[ref[c]] -> Unit],
         \A a \in Buffers \ {ref[c]} : size'[a] = size[a] /\ mem'[a] = mem[a],
         ConnInv(c)'
  PROVE  IInv'
<1>1. \A d \in Conns : Open(d)' <=> Open(d)
  BY DEF Open
<1>2. TypeOK'
  <2>1. \A a \in Buffers : mem'[a] \in [1 .. size'[a] -> Unit]
    BY DEF IInv, TypeOK
  <2>2. \A d \in Conns : Open(d)' <=> ref'[d] # NoBuffer
    BY <1>1 DEF IInv, TypeOK
  <2> QED BY <2>1, <2>2 DEF IInv, TypeOK
<1>3. BuffersExclusive'
  BY <1>1 DEF IInv, BuffersExclusive
<1>4. TwoSizes'
  BY DEF IInv, TwoSizes
<1>5. LocalTo(c)
  <2>1. \A d \in Conns \ {c} : Open(d) => ref[d] \in Buffers \ {ref[c]}
    BY OpenFacts
  <2> QED BY <2>1 DEF LocalTo
<1> QED BY <1>2, <1>3, <1>4, <1>5, LocalStep

(***************************************************************************)
(* handleConn returns, and gives the buffer back.                          *)
(***************************************************************************)
LEMMA ReturnStep ==
  ASSUME IInv, NEW c \in Conns, Open(c), Return(c),
         received' \in [Conns -> Nat],
         \A d \in Conns \ {c} : received'[d] = received[d],
         DOMAIN mem' = Buffers, mem'[ref[c]] \in [1 .. size[ref[c]] -> Unit],
         \A a \in Buffers \ {ref[c]} : mem'[a] = mem[a]
  PROVE  IInv'
<1>1. /\ pc' = [pc EXCEPT ![c] = "closed"] /\ ref' = [ref EXCEPT ![c] = NoBuffer]
      /\ used' = [used EXCEPT ![c] = 0]
      /\ UNCHANGED <<stream, sent, finished, answers, headEnd, bodyEnd, resp, size>>
  BY DEF Return, client
<1>2. TypeOK /\ ref[c] \in Buffers
  BY OpenFacts DEF IInv
<1>3. pool' \subseteq pool \union {ref[c]}
  BY DEF Return
<1>4. /\ pc' \in [Conns -> {"new", "head", "body", "write", "closed"}] /\ pc'[c] = "closed"
      /\ ref' \in [Conns -> Buffers \union {NoBuffer}] /\ ref'[c] = NoBuffer
      /\ used' \in [Conns -> Nat]
      /\ \A d \in Conns \ {c} : pc'[d] = pc[d] /\ ref'[d] = ref[d] /\ used'[d] = used[d]
  BY <1>1, <1>2 DEF TypeOK
<1>5. ~ Open(c)' /\ \A d \in Conns \ {c} : Open(d)' <=> Open(d)
  BY <1>4 DEF Open
<1>6. \A d \in Conns \ {c} : Open(d) => ref[d] \in Buffers \ {ref[c]}
  BY OpenFacts
<1>7. TypeOK'
  <2>1. \A d \in Conns : Open(d)' <=> ref'[d] # NoBuffer
    BY <1>2, <1>4, <1>5 DEF TypeOK
  <2>2. \A a \in Buffers : mem'[a] \in [1 .. size'[a] -> Unit]
    BY <1>1, <1>2 DEF TypeOK
  <2>3. pool' \subseteq Buffers
    BY <1>2, <1>3 DEF TypeOK
  <2> QED BY <1>1, <1>2, <1>4, <2>1, <2>2, <2>3 DEF TypeOK
<1>8. BuffersExclusive'
  <2>1. SUFFICES ASSUME NEW e \in Conns, Open(e)'
                 PROVE  ref'[e] \notin pool' /\ \A d \in Conns : d # e => ref'[d] # ref'[e]
    BY DEF BuffersExclusive
  <2>2. e # c /\ Open(e) /\ ref[e] \in Buffers \ {ref[c]} /\ ref'[e] = ref[e]
    BY <1>4, <1>5, <1>6, <2>1
  <2>3. ref[e] \notin pool /\ \A d \in Conns : d # e => ref[d] # ref[e]
    BY <2>2 DEF IInv, BuffersExclusive
  <2> QED BY <1>3, <1>4, <2>2, <2>3, NoneAssumption
<1>9. TwoSizes'
  BY <1>1 DEF IInv, TwoSizes
<1>10. ConnInv(c)'
  <2>1. AnswersOK(c)'
    BY <1>1 DEF IInv, ConnInv, AnswersOK
  <2> QED BY <1>4, <1>5, <2>1 DEF ConnInv, NewOK, BufferOK, LengthOK, WriteOK
<1>11. LocalTo(c)
  BY <1>1, <1>4, <1>6 DEF LocalTo
<1> QED BY <1>7, <1>8, <1>9, <1>10, <1>11, LocalStep

LEMMA ReturnUnread ==
  ASSUME IInv, NEW c \in Conns, HeadTooLong(c) \/ ReadFails(c) \/ WriteFails(c)
  PROVE  IInv'
<1>1. Open(c) /\ Return(c) /\ UNCHANGED <<received, mem>>
  BY DEF HeadTooLong, ReadFails, WriteFails, Open
<1>2. received \in [Conns -> Nat] /\ DOMAIN mem = Buffers
  BY DEF IInv, TypeOK
<1> QED BY <1>1, <1>2, OpenFacts, ReturnStep

(***************************************************************************)
(* A buffer is doubled only from the smaller size to the limit.            *)
(***************************************************************************)
LEMMA GrowStep ==
  ASSUME IInv, NEW c \in Conns, GrowForHead(c) \/ GrowForBody(c)
  PROVE  IInv'
<1>1. Open(c) /\ Grow(c)
  BY DEF GrowForHead, GrowForBody, Open
<1> DEFINE b == ref[c]
<1>2. /\ used[c] >= size[b] /\ size' = [size EXCEPT ![b] = 2 * @]
      /\ mem' = [mem EXCEPT ![b] = [i \in 1 .. (2 * size[b]) |->
                                      IF i <= used[c] THEN mem[b][i] ELSE Blank]]
      /\ UNCHANGED <<stream, sent, finished, received, answers, pc, ref, used, headEnd,
                     bodyEnd, resp, pool>>
  BY <1>1 DEF Grow, client, locals
<1>3. /\ b \in Buffers /\ size[b] \in Nat \ {0} /\ mem[b] \in [1 .. size[b] -> Unit]
      /\ used[c] \in Nat /\ used[c] <= size[b] /\ Holds(c, mem[b], used[c])
  BY <1>1, OpenFacts
<1>4. used[c] < maxRequestSize
  <2>1. CASE GrowForHead(c)
    BY <2>1 DEF GrowForHead
  <2>2. CASE GrowForBody(c)
    <3>1. used[c] < bodyEnd[c] /\ pc[c] = "body"
      BY <2>2 DEF GrowForBody
    <3>2. bodyEnd[c] \in Nat /\ bodyEnd[c] <= maxRequestSize
      BY <3>1 DEF IInv, TypeOK, ConnInv, LengthOK
    <3> QED BY <1>3, <3>1, <3>2, SizeAssumption
  <2> QED BY <2>1, <2>2
<1>5. 2 * size[b] = maxRequestSize /\ 2 * size[b] \in Nat \ {0} /\ size[b] <= 2 * size[b]
  <2>1. size[b] \in {InitSize, maxRequestSize}
    BY <1>3 DEF IInv, TwoSizes
  <2> QED BY <1>2, <1>3, <1>4, <2>1, SizeAssumption
<1>6. /\ size' \in [Buffers -> Nat \ {0}] /\ size'[b] = 2 * size[b]
      /\ \A a \in Buffers \ {b} : size'[a] = size[a] /\ mem'[a] = mem[a]
      /\ DOMAIN mem' = Buffers
      /\ mem'[b] = [i \in 1 .. (2 * size[b]) |-> IF i <= used[c] THEN mem[b][i] ELSE Blank]
  <2>1. size \in [Buffers -> Nat \ {0}] /\ DOMAIN mem = Buffers
    BY DEF IInv, TypeOK
  <2>2. size' \in [Buffers -> Nat \ {0}] /\ size'[b] = 2 * size[b]
    BY <1>2, <1>3, <1>5, <2>1
  <2>3. \A a \in Buffers \ {b} : size'[a] = size[a] /\ mem'[a] = mem[a]
    BY <1>2, <1>3, <2>1
  <2> QED BY <1>2, <1>3, <2>1, <2>2, <2>3
<1>7. mem'[b] \in [1 .. size'[b] -> Unit]
  <2>1. Blank \in Unit
    BY DEF Blank, Unit
  <2>2. \A i \in 1 .. (2 * size[b]) : i <= used[c] => mem[b][i] \in Unit
    BY <1>3
  <2> QED BY <1>6, <2>1, <2>2
<1>8. ConnInv(c)'
  <2>1. ConnInv(c)
    BY DEF IInv
  <2>2. BufferOK(c)'
    <3>1. Start(c)' = Start(c) /\ used'[c] <= size'[b]
      BY <1>2, <1>3, <1>5, <1>6 DEF Start, Current
    <3>2. \A i \in 1 .. used[c] : mem'[b][i] = mem[b][i]
      BY <1>3, <1>5, <1>6
    <3>3. Holds(c, mem[ref[c]], used[c])'
      BY <1>2, <1>3, <3>1, <3>2 DEF Holds
    <3>4. received[c] = Start(c) + used[c]
      BY <1>1, OpenFacts
    <3> QED BY <1>2, <3>1, <3>3, <3>4 DEF BufferOK
  <2> QED BY <1>2, <2>1, <2>2 DEF ConnInv, NewOK, AnswersOK, LengthOK, WriteOK, Current
<1>9. Open(c)'
  BY <1>1, <1>2 DEF Open
<1>10. TypeOK
  BY DEF IInv
<1> QED BY <1>1, <1>2, <1>5, <1>6, <1>7, <1>8, <1>9, <1>10, InPlaceStep DEF TypeOK

(***************************************************************************)
(* What arrives is the next piece of the stream.                           *)
(***************************************************************************)
LEMMA ReadEffect ==
  ASSUME IInv, NEW c \in Conns, Open(c), NEW n \in 1 .. Readable(c), Read(c, n)
  PROVE  /\ n \in Nat /\ used[c] + n \in Nat /\ used[c] + n <= size[ref[c]]
         /\ DOMAIN mem' = Buffers /\ mem'[ref[c]] = Filled(c, n)
         /\ Filled(c, n) \in [1 .. size[ref[c]] -> Unit]
         /\ \A a \in Buffers \ {ref[c]} : mem'[a] = mem[a]
         /\ received' \in [Conns -> Nat] /\ received'[c] = Start(c) + (used[c] + n)
         /\ \A d \in Conns \ {c} : received'[d] = received[d]
         /\ Holds(c, Filled(c, n), used[c] + n)
<1> DEFINE b == ref[c]
<1>1. /\ b \in Buffers /\ size[b] \in Nat /\ mem[b] \in [1 .. size[b] -> Unit]
      /\ used[c] \in Nat /\ used[c] <= size[b] /\ received[c] \in Nat /\ Start(c) \in Nat
      /\ received[c] = Start(c) + used[c] /\ Holds(c, mem[b], used[c])
  BY OpenFacts
<1>2. n \in Nat /\ used[c] + n \in Nat /\ used[c] + n <= size[b]
  <2>1. sent[c] \in Nat
    BY DEF IInv, TypeOK
  <2>2. Readable(c) \in Int /\ Readable(c) <= size[b] - used[c]
    BY <1>1, <2>1 DEF Readable, Smaller
  <2> QED BY <1>1, <2>2
<1>3. /\ DOMAIN mem' = Buffers /\ mem'[b] = Filled(c, n)
      /\ \A a \in Buffers \ {b} : mem'[a] = mem[a]
  <2>1. DOMAIN mem = Buffers
    BY DEF IInv, TypeOK
  <2> QED BY <1>1, <2>1 DEF Read
<1>4. /\ received' \in [Conns -> Nat] /\ received'[c] = received[c] + n
      /\ \A d \in Conns \ {c} : received'[d] = received[d]
  <2>1. received \in [Conns -> Nat]
    BY DEF IInv, TypeOK
  <2> QED BY <1>2, <2>1 DEF Read
<1>5. Filled(c, n) \in [1 .. size[b] -> Unit]
  <2>1. \A i \in (used[c] + 1) .. (used[c] + n) : <<c, received[c] + i - used[c]>> \in Unit
    BY <1>1, <1>2 DEF Unit
  <2> QED BY <1>1, <2>1 DEF Filled
<1>6. Holds(c, Filled(c, n), used[c] + n)
  <2>1. SUFFICES ASSUME NEW i \in 1 .. (used[c] + n)
                 PROVE  Filled(c, n)[i] = <<c, Start(c) + i>>
    BY DEF Holds
  <2>2. i \in 1 .. size[b] /\ i \in Nat
    BY <1>1, <1>2
  <2>3. CASE i <= used[c]
    <3>1. i \in 1 .. used[c] /\ i \notin (used[c] + 1) .. (used[c] + n)
      BY <1>1, <1>2, <2>2, <2>3
    <3>2. Filled(c, n)[i] = mem[b][i]
      BY <2>2, <3>1 DEF Filled
    <3> QED BY <1>1, <3>1, <3>2 DEF Holds
  <2>4. CASE ~ (i <= used[c])
    <3>1. i \in (used[c] + 1) .. (used[c] + n)
      BY <1>1, <1>2, <2>2, <2>4
    <3>2. Filled(c, n)[i] = <<c, received[c] + i - used[c]>>
      BY <2>2, <3>1 DEF Filled
    <3>3. received[c] + i - used[c] = Start(c) + i
      BY <1>1, <2>2
    <3> QED BY <3>2, <3>3
  <2> QED BY <2>3, <2>4
<1>7. received'[c] = Start(c) + (used[c] + n)
  BY <1>1, <1>2, <1>4
<1> QED BY <1>2, <1>3, <1>4, <1>5, <1>6, <1>7

(***************************************************************************)
(* A Read that ends in either loop.                                        *)
(***************************************************************************)
LEMMA ReadKept ==
  ASSUME IInv, NEW c \in Conns, Open(c), NEW n \in 1 .. Readable(c), Read(c, n),
         used' = [used EXCEPT ![c] = @ + n], Open(c)',
         UNCHANGED <<stream, sent, finished, answers, ref, resp, pool, size>>,
         pc' \in [Conns -> {"new", "head", "body", "write", "closed"}],
         headEnd' \in [Conns -> Nat], bodyEnd' \in [Conns -> Nat],
         \A d \in Conns \ {c} : UNCHANGED <<pc[d], bodyEnd[d]>>,
         LengthOK(c)', pc'[c] # "write"
  PROVE  IInv'
<1>1. /\ n \in Nat /\ used[c] + n \in Nat /\ used[c] + n <= size[ref[c]]
      /\ DOMAIN mem' = Buffers /\ mem'[ref[c]] = Filled(c, n)
      /\ Filled(c, n) \in [1 .. size[ref[c]] -> Unit]
      /\ \A a \in Buffers \ {ref[c]} : mem'[a] = mem[a]
      /\ received' \in [Conns -> Nat] /\ received'[c] = Start(c) + (used[c] + n)
      /\ \A d \in Conns \ {c} : received'[d] = received[d]
      /\ Holds(c, Filled(c, n), used[c] + n)
  BY ReadEffect
<1>2. TypeOK /\ TwoSizes /\ ref[c] \in Buffers
  BY OpenFacts DEF IInv
<1>3. used' \in [Conns -> Nat] /\ used'[c] = used[c] + n
      /\ \A d \in Conns \ {c} : used'[d] = used[d]
  BY <1>1, <1>2 DEF TypeOK
<1>4. ConnInv(c)'
  <2>1. Start(c)' = Start(c)
    BY DEF Start, Current
  <2>2. BufferOK(c)'
    <3>1. Holds(c, mem[ref[c]], used[c])'
      BY <1>1, <1>3, <2>1 DEF Holds
    <3> QED BY <1>1, <1>3, <2>1, <3>1 DEF BufferOK
  <2>3. AnswersOK(c)'
    BY DEF IInv, ConnInv, AnswersOK
  <2>4. pc'[c] # "new"
    BY DEF Open
  <2> QED BY <2>2, <2>3, <2>4 DEF ConnInv, NewOK, WriteOK
<1>5. size[ref[c]] \in {InitSize, maxRequestSize}
  BY <1>2 DEF TwoSizes
<1> QED BY <1>1, <1>2, <1>3, <1>4, <1>5, InPlaceStep DEF TypeOK

LEMMA ReadHeadStep ==
  ASSUME IInv, NEW c \in Conns, ReadHead(c)
  PROVE  IInv'
<1>1. pc[c] = "head" /\ Open(c)
  BY DEF ReadHead, Open
<1> DEFINE m(n) == Filled(c, n)
           h(n) == indexHeaderEnd(m(n), used[c] + n)
<1>2. PICK n \in 1 .. Readable(c) :
        /\ Read(c, n)
        /\ \/ /\ h(n) = 0
              /\ used' = [used EXCEPT ![c] = @ + n]
              /\ UNCHANGED <<client, answers, pc, ref, headEnd, bodyEnd, resp, pool, size>>
           \/ /\ h(n) > 0 /\ ~ TooLarge(h(n), findContentLength(m(n)[h(n)]))
              /\ used' = [used EXCEPT ![c] = @ + n]
              /\ headEnd' = [headEnd EXCEPT ![c] = h(n)]
              /\ bodyEnd' = [bodyEnd EXCEPT ![c] = h(n) + findContentLength(m(n)[h(n)])]
              /\ pc' = [pc EXCEPT ![c] = "body"]
              /\ UNCHANGED <<client, answers, ref, resp, pool, size>>
           \/ /\ h(n) > 0 /\ TooLarge(h(n), findContentLength(m(n)[h(n)]))
              /\ Return(c)
  BY DEF ReadHead
<1>3. /\ used[c] + n \in Nat
      /\ DOMAIN mem' = Buffers /\ mem'[ref[c]] = m(n) /\ m(n) \in [1 .. size[ref[c]] -> Unit]
      /\ \A a \in Buffers \ {ref[c]} : mem'[a] = mem[a]
      /\ received' \in [Conns -> Nat]
      /\ \A d \in Conns \ {c} : received'[d] = received[d]
      /\ Holds(c, m(n), used[c] + n)
  BY <1>1, <1>2, ReadEffect
<1>4. TypeOK
  BY DEF IInv
<1>5. CASE /\ h(n) = 0
           /\ used' = [used EXCEPT ![c] = @ + n]
           /\ UNCHANGED <<client, answers, pc, ref, headEnd, bodyEnd, resp, pool, size>>
  <2>1. Open(c)' /\ LengthOK(c)' /\ pc'[c] # "write"
    BY <1>1, <1>5 DEF Open, LengthOK
  <2> QED BY <1>1, <1>2, <1>4, <1>5, <2>1, ReadKept DEF TypeOK, client
<1>6. CASE /\ h(n) > 0 /\ ~ TooLarge(h(n), findContentLength(m(n)[h(n)]))
           /\ used' = [used EXCEPT ![c] = @ + n]
           /\ headEnd' = [headEnd EXCEPT ![c] = h(n)]
           /\ bodyEnd' = [bodyEnd EXCEPT ![c] = h(n) + findContentLength(m(n)[h(n)])]
           /\ pc' = [pc EXCEPT ![c] = "body"]
           /\ UNCHANGED <<client, answers, ref, resp, pool, size>>
  <2>1. /\ Current(c) <= Len(stream[c]) /\ h(n) = stream[c][Current(c)].head /\ h(n) \in Nat
        /\ findContentLength(m(n)[h(n)]) = stream[c][Current(c)].body
    <3>1. \A i \in 1 .. (used[c] + n) : m(n)[i] = <<c, Begin(stream[c], Current(c)) + i>>
      BY <1>3 DEF Holds, Start
    <3>2. h(n) # 0
      BY <1>6
    <3>3. Current(c) \in 1 .. (Len(stream[c]) + 1) /\ stream \in [Conns -> Streams]
      BY <1>1, <1>4, OpenFacts DEF TypeOK
    <3> HIDE DEF m
    <3> QED BY <1>3, <3>1, <3>2, <3>3, HeadFound, Zenon
  <2>2. stream[c][Current(c)].body \in Nat
    <3>1. stream[c] \in Streams /\ Current(c) \in 1 .. Len(stream[c])
      BY <1>1, <2>1, OpenFacts
    <3> QED BY <3>1, StreamShape
  <2>3. h(n) + stream[c][Current(c)].body \in Nat
        /\ h(n) + stream[c][Current(c)].body <= maxRequestSize
    BY <1>6, <2>1, <2>2, SizeAssumption DEF TooLarge
  <2>4. headEnd' \in [Conns -> Nat] /\ bodyEnd' \in [Conns -> Nat]
        /\ bodyEnd'[c] = stream[c][Current(c)].head + stream[c][Current(c)].body
        /\ \A d \in Conns \ {c} : bodyEnd'[d] = bodyEnd[d]
    <3> HIDE DEF h
    <3> QED BY <1>4, <1>6, <2>1, <2>3 DEF TypeOK
  <2>5. /\ pc' \in [Conns -> {"new", "head", "body", "write", "closed"}] /\ pc'[c] = "body"
        /\ \A d \in Conns \ {c} : pc'[d] = pc[d]
    BY <1>4, <1>6 DEF TypeOK
  <2>6. LengthOK(c)'
    BY <1>6, <2>1, <2>3, <2>4 DEF LengthOK, Current, client
  <2>7. Open(c)'
    BY <2>5 DEF Open
  <2> QED BY <1>1, <1>2, <1>6, <2>4, <2>5, <2>6, <2>7, ReadKept DEF client
<1>7. CASE /\ h(n) > 0 /\ TooLarge(h(n), findContentLength(m(n)[h(n)]))
           /\ Return(c)
  BY <1>1, <1>3, <1>7, ReturnStep
<1> QED BY <1>2, <1>5, <1>6, <1>7

LEMMA ReadBodyStep ==
  ASSUME IInv, NEW c \in Conns, ReadBody(c)
  PROVE  IInv'
<1>1. pc[c] = "body" /\ Open(c)
  BY DEF ReadBody, Open
<1>2. PICK n \in 1 .. Readable(c) : Read(c, n) /\ used' = [used EXCEPT ![c] = @ + n]
  BY DEF ReadBody
<1>3. UNCHANGED <<stream, sent, finished, answers, pc, ref, headEnd, bodyEnd, resp, pool, size>>
  BY DEF ReadBody, client
<1>4. TypeOK /\ LengthOK(c)
  BY DEF IInv, ConnInv
<1>5. Open(c)' /\ LengthOK(c)' /\ pc'[c] # "write"
  BY <1>1, <1>3, <1>4 DEF Open, LengthOK, Current
<1> QED BY <1>1, <1>2, <1>3, <1>4, <1>5, ReadKept DEF TypeOK

(***************************************************************************)
(* The handler is given the next request and no other.                     *)
(***************************************************************************)
LEMMA GivenNext ==
  ASSUME IInv, NEW c \in Conns, pc[c] = "body", used[c] >= bodyEnd[c]
  PROVE  RequestAt(c, mem[ref[c]], bodyEnd[c]) = {Current(c)}
<1> DEFINE s == stream[c]
           k == Current(c)
           m == mem[ref[c]]
<1>1. Open(c)
  BY DEF Open
<1>2. s \in Streams /\ Len(s) \in Nat /\ k \in 1 .. Len(s) /\ used[c] \in Nat
      /\ bodyEnd[c] = s[k].head + s[k].body /\ Holds(c, m, used[c])
  BY <1>1, OpenFacts DEF IInv, ConnInv, LengthOK
<1>3. s[k].at \in Nat /\ s[k].head \in Nat /\ s[k].head > 0 /\ s[k].body \in Nat
      /\ Start(c) = s[k].at
  BY <1>2, StreamShape, BeginIsAt DEF Start
<1>4. bodyEnd[c] \in Nat /\ 1 \in 1 .. bodyEnd[c]
  BY <1>2, <1>3
<1>5. \A i \in 1 .. bodyEnd[c] : m[i] = <<c, s[k].at + i>>
  BY <1>2, <1>3, <1>4 DEF Holds
<1>6. k \in RequestAt(c, m, bodyEnd[c])
  BY <1>2, <1>5 DEF RequestAt
<1>7. ASSUME NEW j \in RequestAt(c, m, bodyEnd[c]) PROVE j = k
  <2>1. j \in 1 .. Len(s) /\ m[1] = <<c, s[j].at + 1>>
    BY <1>4 DEF RequestAt
  <2>2. s[j].at \in Nat /\ s[j].head \in Nat /\ s[j].head > 0 /\ s[j].at + s[j].head <= EndOf(s[j])
        /\ EndOf(s[j]) \in Nat
    BY <1>2, <2>1, StreamShape
  <2>3. EndOf(s[k]) \in Nat /\ s[k].at + s[k].head <= EndOf(s[k])
    BY <1>2, StreamShape
  <2>4. s[j].at = s[k].at
    <3>1. s[j].at + 1 = s[k].at + 1
      BY <1>4, <1>5, <2>1
    <3> QED BY <1>3, <2>2, <3>1
  <2>5. CASE j < k
    <3>1. EndOf(s[j]) <= s[k].at
      BY <1>2, <2>1, <2>5, RequestsFollow
    <3>2. s[j].at < EndOf(s[j])
      BY <2>2
    <3> QED BY <1>3, <2>2, <2>4, <3>1, <3>2
  <2>6. CASE k < j
    <3>1. EndOf(s[k]) <= s[j].at
      BY <1>2, <2>1, <2>6, RequestsFollow
    <3>2. s[k].at < EndOf(s[k])
      BY <1>3, <2>3
    <3> QED BY <1>3, <2>3, <2>4, <3>1, <3>2
  <2> QED BY <1>2, <2>1, <2>5, <2>6
<1> QED BY <1>6, <1>7

LEMMA HandleStep ==
  ASSUME IInv, NEW c \in Conns, Handle(c)
  PROVE  IInv'
<1>1. /\ pc[c] = "body" /\ used[c] >= bodyEnd[c] /\ pc' = [pc EXCEPT ![c] = "write"]
      /\ UNCHANGED <<stream, sent, finished, received, answers, ref, used, headEnd, bodyEnd,
                     pool, size, mem>>
  BY DEF Handle, client
<1>2. TypeOK /\ Open(c) /\ ConnInv(c) /\ TwoSizes
  BY <1>1 DEF IInv, Open
<1>3. Current(c) \in Nat
  BY <1>2, OpenFacts
<1>4. resp' = [resp EXCEPT ![c] = Current(c)]
  <2>1. RequestAt(c, mem[ref[c]], bodyEnd[c]) = {Current(c)}
    BY <1>1, GivenNext
  <2> QED BY <2>1 DEF Handle
<1>5. /\ pc' \in [Conns -> {"new", "head", "body", "write", "closed"}] /\ pc'[c] = "write"
      /\ resp' \in [Conns -> Nat] /\ resp'[c] = Current(c)
      /\ \A d \in Conns \ {c} : pc'[d] = pc[d] /\ resp'[d] = resp[d]
  BY <1>1, <1>2, <1>3, <1>4 DEF TypeOK
<1>6. Open(c)'
  BY <1>5 DEF Open
<1>7. Current(c)' = Current(c) /\ Start(c)' = Start(c)
  BY <1>1 DEF Current, Start
<1>8. ConnInv(c)'
  <2>1. AnswersOK(c)'
    BY <1>1, <1>2 DEF ConnInv, AnswersOK
  <2>2. BufferOK(c)'
    BY <1>1, <1>2, <1>7 DEF ConnInv, BufferOK, Holds
  <2>3. LengthOK(c)'
    BY <1>1, <1>2, <1>7 DEF ConnInv, LengthOK
  <2>4. WriteOK(c)' /\ NewOK(c)'
    BY <1>1, <1>5, <1>7 DEF WriteOK, NewOK
  <2> QED BY <2>1, <2>2, <2>3, <2>4 DEF ConnInv
<1>9. size[ref[c]] \in {InitSize, maxRequestSize} /\ mem[ref[c]] \in [1 .. size[ref[c]] -> Unit]
  BY <1>2, OpenFacts DEF TwoSizes
<1> QED BY <1>1, <1>2, <1>5, <1>6, <1>8, <1>9, InPlaceStep DEF TypeOK

(***************************************************************************)
(* What is left in the buffer begins with the request after.               *)
(***************************************************************************)
LEMMA WriteStep ==
  ASSUME IInv, NEW c \in Conns, Write(c)
  PROVE  IInv'
<1> DEFINE b == ref[c]
           left == used[c] - bodyEnd[c]
           s == stream[c]
           k == Current(c)
<1>1. /\ pc[c] = "write" /\ answers' = [answers EXCEPT ![c] = Append(@, resp[c])]
      /\ mem' = [mem EXCEPT ![b] = [i \in 1 .. size[b] |->
                                      IF i <= left THEN mem[b][bodyEnd[c] + i] ELSE mem[b][i]]]
      /\ used' = [used EXCEPT ![c] = left] /\ pc' = [pc EXCEPT ![c] = "head"]
      /\ UNCHANGED <<stream, sent, finished, received, ref, headEnd, bodyEnd, resp, pool, size>>
  BY DEF Write, client
<1>2. TypeOK /\ Open(c) /\ ConnInv(c) /\ TwoSizes
  BY <1>1 DEF IInv, Open
<1>3. /\ b \in Buffers /\ size[b] \in Nat /\ mem[b] \in [1 .. size[b] -> Unit]
      /\ used[c] \in Nat /\ used[c] <= size[b] /\ s \in Streams /\ Len(s) \in Nat
      /\ Start(c) \in Nat /\ received[c] = Start(c) + used[c] /\ Holds(c, mem[b], used[c])
      /\ Len(answers[c]) \in Nat
  BY <1>2, OpenFacts
<1>4. k \in 1 .. Len(s) /\ bodyEnd[c] = s[k].head + s[k].body /\ used[c] >= bodyEnd[c]
      /\ resp[c] = k /\ k = Len(answers[c]) + 1
  BY <1>1, <1>2, OpenFacts DEF ConnInv, LengthOK, WriteOK, Current
<1>5. s[k].at \in Nat /\ s[k].head \in Nat /\ s[k].body \in Nat /\ Start(c) = s[k].at
  BY <1>3, <1>4, StreamShape, BeginIsAt DEF Start
<1>6. bodyEnd[c] \in Nat /\ left \in Nat /\ left <= used[c]
  <2>1. s[k].head + s[k].body \in Nat
    BY <1>5
  <2> QED BY <1>3, <1>4, <2>1
<1>7. answers[c] \in Seq(Nat) /\ answers' \in [Conns -> Seq(Nat)]
      /\ answers'[c] = Append(answers[c], k)
      /\ \A d \in Conns \ {c} : answers'[d] = answers[d]
  <2>1. answers \in [Conns -> Seq(Nat)]
    BY <1>2 DEF TypeOK
  <2>2. Append(answers[c], k) \in Seq(Nat)
    BY <1>4, <2>1
  <2> QED BY <1>1, <1>4, <2>1, <2>2
<1>8. /\ Len(answers'[c]) = k /\ answers'[c][k] = k
      /\ \A i \in 1 .. Len(answers[c]) : answers'[c][i] = answers[c][i]
  BY <1>4, <1>7
<1>9. /\ pc' \in [Conns -> {"new", "head", "body", "write", "closed"}] /\ pc'[c] = "head"
      /\ used' \in [Conns -> Nat] /\ used'[c] = left
      /\ \A d \in Conns \ {c} : pc'[d] = pc[d] /\ used'[d] = used[d]
  BY <1>1, <1>2, <1>6 DEF TypeOK
<1>10. /\ DOMAIN mem' = Buffers /\ \A a \in Buffers \ {b} : mem'[a] = mem[a]
       /\ mem'[b] = [i \in 1 .. size[b] |->
                       IF i <= left THEN mem[b][bodyEnd[c] + i] ELSE mem[b][i]]
  BY <1>1, <1>2, <1>3 DEF TypeOK
<1>11. mem'[b] \in [1 .. size[b] -> Unit]
  <2>1. ASSUME NEW i \in 1 .. size[b], i <= left PROVE bodyEnd[c] + i \in 1 .. size[b]
    BY <1>3, <1>6, <2>1
  <2> QED BY <1>3, <1>10, <2>1
<1>12. Start(c)' = Start(c) + bodyEnd[c]
  <2>1. Current(c)' = k + 1
    BY <1>8 DEF Current
  <2>2. k + 1 # 1 /\ (k + 1) - 1 = k
    BY <1>3, <1>4
  <2>3. Start(c)' = EndOf(s[k])
    BY <1>1, <2>1, <2>2 DEF Start, Begin
  <2> QED BY <1>4, <1>5, <2>3 DEF EndOf
<1>13. AnswersOK(c)'
  <2>1. \A i \in 1 .. k : answers'[c][i] = i
    <3>1. \A i \in 1 .. Len(answers[c]) : answers[c][i] = i
      BY <1>2 DEF ConnInv, AnswersOK
    <3> QED BY <1>3, <1>4, <1>8, <3>1
  <2> QED BY <1>1, <1>4, <1>8, <2>1 DEF AnswersOK
<1>14. BufferOK(c)'
  <2>1. ASSUME NEW i \in 1 .. left
        PROVE  mem'[b][i] = <<c, (Start(c) + bodyEnd[c]) + i>>
    <3>1. i \in 1 .. size[b] /\ i <= left /\ bodyEnd[c] + i \in 1 .. used[c]
      BY <1>3, <1>4, <1>6
    <3>2. mem'[b][i] = mem[b][bodyEnd[c] + i]
      BY <1>10, <3>1
    <3>3. mem[b][bodyEnd[c] + i] = <<c, Start(c) + (bodyEnd[c] + i)>>
      BY <1>3, <3>1 DEF Holds
    <3>4. Start(c) + (bodyEnd[c] + i) = (Start(c) + bodyEnd[c]) + i
      BY <1>3, <1>6
    <3> QED BY <3>2, <3>3, <3>4
  <2>2. Holds(c, mem[ref[c]], used[c])'
    BY <1>1, <1>9, <1>12, <2>1 DEF Holds
  <2>3. received[c] = (Start(c) + bodyEnd[c]) + left
    BY <1>3, <1>6
  <2>4. left <= size[b]
    BY <1>3, <1>6
  <2> QED BY <1>1, <1>9, <1>12, <2>2, <2>3, <2>4 DEF BufferOK
<1>15. ConnInv(c)' /\ Open(c)'
  BY <1>9, <1>13, <1>14 DEF ConnInv, NewOK, LengthOK, WriteOK, Open
<1>16. size[b] \in {InitSize, maxRequestSize}
  BY <1>2, <1>3 DEF TwoSizes
<1> QED BY <1>1, <1>2, <1>7, <1>9, <1>10, <1>11, <1>15, <1>16, InPlaceStep DEF TypeOK

LEMMA NextInv == IInv /\ [Next]_vars => IInv'
<1> SUFFICES ASSUME IInv, [Next]_vars PROVE IInv'
  OBVIOUS
<1>1. CASE Next
  <2>1. PICK c \in Conns : ClientSend(c) \/ ClientClose(c) \/ Accept(c) \/ handleConn(c)
    BY <1>1 DEF Next
  <2>2. CASE handleConn(c)
    BY <2>2, ReadHeadStep, GrowStep, ReturnUnread, ReadBodyStep, HandleStep, WriteStep
       DEF handleConn
  <2> QED BY <2>1, <2>2, ClientStep, AcceptStep
<1>2. CASE UNCHANGED vars
  <2>1. UNCHANGED <<stream, sent, received, finished, answers, pc, ref, used, headEnd,
                    bodyEnd, resp, pool, size, mem>>
    BY <1>2 DEF vars
  <2>2. TypeOK'
    <3>1. TypeOK /\ \A c \in Conns : Open(c)' <=> Open(c)
      BY <2>1 DEF IInv, Open
    <3> QED BY <2>1, <3>1 DEF TypeOK
  <2>3. BuffersExclusive' /\ TwoSizes'
    BY <2>1 DEF IInv, BuffersExclusive, TwoSizes, Open
  <2>4. ASSUME NEW c \in Conns PROVE ConnInv(c)'
    <3>1. ConnInv(c)
      BY DEF IInv
    <3> QED BY <2>1, <3>1 DEF ConnInv, NewOK, AnswersOK, BufferOK, LengthOK, WriteOK, Holds,
                              Start, Current, Open
  <2> QED BY <2>2, <2>3, <2>4 DEF IInv
<1> QED BY <1>1, <1>2

THEOREM Invariant == Spec => []IInv
BY InitInv, NextInv, PTL DEF Spec

(***************************************************************************)
(* The properties that the runs check follow from it.                      *)
(***************************************************************************)
\* Every variable of the server and its clients keeps its type.
THEOREM TypeCorrect == Spec => []TypeOK
<1>1. IInv => TypeOK
  BY DEF IInv
<1> QED BY <1>1, Invariant, PTL

\* No two connections ever hold the same buffer, nor one that is in the pool:
\* readBufPool never hands out a buffer that handleConn still reads from.
THEOREM Exclusive == Spec => []BuffersExclusive
<1>1. IInv => BuffersExclusive
  BY DEF IInv
<1> QED BY <1>1, Invariant, PTL

\* No buffer outgrows maxRequestSize, although the body loop does not test it.
THEOREM Bounded == Spec => []BuffersBounded
<1>1. IInv => BuffersBounded
  <2>1. SUFFICES ASSUME IInv PROVE BuffersBounded
    OBVIOUS
  <2>2. \A b \in Buffers : size[b] <= maxRequestSize
    BY <2>1, SizeAssumption DEF IInv, TwoSizes
  <2>3. \A c \in Conns : Open(c) => used[c] <= size[ref[c]]
    BY <2>1, OpenFacts
  <2> QED BY <2>2, <2>3 DEF BuffersBounded
<1> QED BY <1>1, Invariant, PTL

\* What a connection has buffered is the piece of its own stream that begins
\* with the next request, whatever the buffer held before.
THEOREM OwnStream == Spec => []BufferIsOwnStream
<1>1. IInv => BufferIsOwnStream
  <2>1. SUFFICES ASSUME IInv, NEW c \in Conns, Open(c),
                        NEW start, start = IF Len(answers[c]) = 0 THEN 0
                                           ELSE EndOf(stream[c][Len(answers[c])])
                 PROVE  /\ received[c] = start + used[c]
                        /\ \A i \in 1 .. used[c] : mem[ref[c]][i] = <<c, start + i>>
    BY DEF BufferIsOwnStream
  <2>2. Len(answers[c]) \in Nat
    BY <2>1, OpenFacts
  <2>3. start = Start(c)
    <3>1. (Len(answers[c]) + 1 = 1 <=> Len(answers[c]) = 0)
          /\ (Len(answers[c]) + 1) - 1 = Len(answers[c])
      BY <2>2
    <3> QED BY <2>1, <3>1 DEF Start, Begin, Current
  <2> QED BY <2>1, <2>3, OpenFacts DEF Holds
<1> QED BY <1>1, Invariant, PTL

\* The n-th answer of a connection is computed from its n-th request, however
\* the socket cuts up the stream and whoever had the buffer before.
THEOREM InOrder == Spec => []AnswersInOrder
<1>1. IInv => AnswersInOrder
  BY DEF IInv, ConnInv, AnswersOK, WriteOK, AnswersInOrder, Current
<1> QED BY <1>1, Invariant, PTL

(***************************************************************************)
(* Why a connection is closed.  When the buffer is full and holds no head, *)
(* the next request must be shown to exist and to be too large: it exists  *)
(* because no more is received than was sent, and none but its units can   *)
(* fill the buffer; its head does not end in the buffer because the loop   *)
(* looked for one after the Read that filled it.  A buffer that Write has  *)
(* left a head in is not full.                                             *)
(***************************************************************************)
Total(c) == IF Len(stream[c]) = 0 THEN 0 ELSE EndOf(stream[c][Len(stream[c])])

SentOK(c) == received[c] <= sent[c] /\ sent[c] <= Total(c)

FullOK(c) ==
  pc[c] = "head" /\ used[c] >= size[ref[c]] /\ Current(c) <= Len(stream[c])
    => stream[c][Current(c)].head > used[c]

ClosedOK(c) ==
  pc[c] = "closed" /\ ~ finished[c]
    => Current(c) <= Len(stream[c]) /\ ~ Fits(stream[c][Current(c)])

CauseInv(c) == SentOK(c) /\ FullOK(c) /\ ClosedOK(c)

LEMMA TotalIsEnd ==
  ASSUME IInv, NEW c \in Conns
  PROVE  /\ Total(c) \in Nat
         /\ \A n \in 1 .. Len(stream[c]) : EndOf(stream[c][n]) <= Total(c)
<1> DEFINE s == stream[c]
           l == Len(stream[c])
<1>1. s \in Streams /\ l \in Nat
  BY StreamShape DEF IInv, TypeOK
<1>2. Total(c) \in Nat
  <2>1. l # 0 => l \in 1 .. l
    BY <1>1
  <2> QED BY <1>1, <2>1, StreamShape DEF Total
<1>3. ASSUME NEW n \in 1 .. l PROVE EndOf(s[n]) <= Total(c)
  <2>1. Total(c) = EndOf(s[l]) /\ l \in 1 .. l
    BY <1>1 DEF Total
  <2>2. CASE n = l
    BY <1>2, <2>1, <2>2
  <2>3. CASE n # l
    <3>1. EndOf(s[n]) <= s[l].at
      BY <1>1, <2>1, <2>3, RequestsFollow
    <3>2. s[l].at \in Nat /\ s[l].head \in Nat /\ s[l].body \in Nat /\ EndOf(s[n]) \in Nat
      BY <1>1, <2>1, StreamShape
    <3> QED BY <2>1, <3>1, <3>2 DEF EndOf
  <2> QED BY <2>2, <2>3
<1> QED BY <1>2, <1>3

(***************************************************************************)
(* A step of connection c leaves alone what is said of the others.         *)
(***************************************************************************)
CauseLocal(c) ==
  \A d \in Conns \ {c} :
    /\ UNCHANGED <<sent[d], received[d], finished[d], answers[d], pc[d], ref[d], used[d]>>
    /\ pc[d] = "head" => size'[ref[d]] = size[ref[d]]

LEMMA CauseKept ==
  ASSUME NEW c \in Conns, \A d \in Conns : CauseInv(d), stream' = stream,
         CauseLocal(c), CauseInv(c)'
  PROVE  \A d \in Conns : CauseInv(d)'
<1> SUFFICES ASSUME NEW d \in Conns \ {c} PROVE CauseInv(d)'
  OBVIOUS
<1>1. UNCHANGED <<sent[d], received[d], finished[d], answers[d], pc[d], ref[d], used[d]>>
      /\ (pc[d] = "head" => size'[ref[d]] = size[ref[d]]) /\ CauseInv(d)
  BY DEF CauseLocal
<1>2. Current(d)' = Current(d)
  BY <1>1 DEF Current
<1>3. SentOK(d)'
  BY <1>1 DEF CauseInv, SentOK, Total
<1>4. FullOK(d)'
  BY <1>1, <1>2 DEF CauseInv, FullOK
<1>5. ClosedOK(d)'
  BY <1>1, <1>2 DEF CauseInv, ClosedOK
<1> QED BY <1>3, <1>4, <1>5 DEF CauseInv

LEMMA ClientCause ==
  ASSUME IInv, \A d \in Conns : CauseInv(d), NEW c \in Conns, ClientSend(c) \/ ClientClose(c)
  PROVE  \A d \in Conns : CauseInv(d)'
<1>1. UNCHANGED <<stream, received, answers, pc, ref, used, size>> /\ pc[c] # "closed"
  BY DEF ClientSend, ClientClose, locals
<1>2. sent \in [Conns -> Nat] /\ received \in [Conns -> Nat]
      /\ finished \in [Conns -> BOOLEAN] /\ CauseInv(c)
  BY DEF IInv, TypeOK
<1>3. \A d \in Conns \ {c} : sent'[d] = sent[d] /\ finished'[d] = finished[d]
  BY <1>2 DEF ClientSend, ClientClose
<1>4. CauseLocal(c)
  BY <1>1, <1>3 DEF CauseLocal
<1>5. SentOK(c)'
  <2>1. CASE ClientSend(c)
    <3>1. sent'[c] = sent[c] + 1 /\ Allowed(c) > 0 /\ sent[c] < EndOf(stream[c][Allowed(c)])
      BY <1>2, <2>1 DEF ClientSend
    <3>2. stream[c] \in Streams /\ Len(stream[c]) \in Nat /\ Len(answers[c]) \in Nat
      BY StreamShape DEF IInv, TypeOK
    <3>3. Depth[c] \in Nat
      BY DepthAssumption
    <3>4. Allowed(c) \in 1 .. Len(stream[c])
      BY <3>1, <3>2, <3>3 DEF Allowed, Smaller
    <3>5. EndOf(stream[c][Allowed(c)]) \in Nat /\ EndOf(stream[c][Allowed(c)]) <= Total(c)
          /\ Total(c) \in Nat
      BY <3>2, <3>4, StreamShape, TotalIsEnd
    <3>6. sent[c] + 1 <= Total(c) /\ received[c] <= sent[c] + 1
      BY <1>2, <3>1, <3>5 DEF CauseInv, SentOK
    <3> QED BY <1>1, <3>1, <3>6 DEF SentOK, Total
  <2>2. CASE ClientClose(c)
    BY <1>1, <1>2, <2>2 DEF ClientClose, CauseInv, SentOK, Total
  <2> QED BY <2>1, <2>2
<1>6. FullOK(c)' /\ ClosedOK(c)'
  BY <1>1, <1>2 DEF CauseInv, FullOK, ClosedOK, Current
<1> QED BY <1>1, <1>4, <1>5, <1>6, CauseKept DEF CauseInv

LEMMA AcceptCause ==
  ASSUME IInv, IInv', \A d \in Conns : CauseInv(d), NEW c \in Conns, Accept(c)
  PROVE  \A d \in Conns : CauseInv(d)'
<1>1. /\ pc[c] = "new" /\ pc' = [pc EXCEPT ![c] = "head"]
      /\ UNCHANGED <<stream, sent, finished, received, answers, used>>
  BY DEF Accept, client, locals
<1>2. pc'[c] = "head" /\ \A d \in Conns \ {c} : pc'[d] = pc[d]
  BY <1>1 DEF IInv, TypeOK
<1>3. \A d \in Conns \ {c} : ref'[d] = ref[d]
  BY DEF Accept, IInv, TypeOK
<1>4. ASSUME NEW d \in Conns \ {c}, pc[d] = "head" PROVE size'[ref[d]] = size[ref[d]]
  <2>1. ref[d] # NoBuffer /\ ref[d] \in Buffers /\ ref[d] \in InUse
    BY <1>4 DEF IInv, TypeOK, Open, InUse
  <2>2. size \in [Buffers -> Nat \ {0}]
    BY DEF IInv, TypeOK
  <2> QED BY <2>1, <2>2 DEF Accept
<1>5. CauseLocal(c)
  BY <1>1, <1>2, <1>3, <1>4 DEF CauseLocal
<1>6. SentOK(c)'
  BY <1>1 DEF CauseInv, SentOK, Total
<1>7. used'[c] = 0
  BY <1>1 DEF IInv, ConnInv, NewOK
<1>8. size'[ref'[c]] \in Nat \ {0}
  <2>1. ref'[c] \in Buffers
    BY <1>2 DEF IInv, TypeOK, Open
  <2> QED BY <2>1 DEF IInv, TypeOK
<1>9. FullOK(c)' /\ ClosedOK(c)'
  BY <1>2, <1>7, <1>8 DEF FullOK, ClosedOK
<1> QED BY <1>1, <1>5, <1>6, <1>9, CauseKept DEF CauseInv

(***************************************************************************)
(* handleConn returns because the client has closed, or for a request that *)
(* does not fit.                                                           *)
(***************************************************************************)
LEMMA ReturnCause ==
  ASSUME IInv, \A d \in Conns : CauseInv(d), NEW c \in Conns, Return(c),
         \A d \in Conns \ {c} : received'[d] = received[d],
         received'[c] <= sent[c],
         finished[c] \/ (Current(c) <= Len(stream[c]) /\ ~ Fits(stream[c][Current(c)]))
  PROVE  \A d \in Conns : CauseInv(d)'
<1>1. /\ pc' = [pc EXCEPT ![c] = "closed"] /\ ref' = [ref EXCEPT ![c] = NoBuffer]
      /\ used' = [used EXCEPT ![c] = 0]
      /\ UNCHANGED <<stream, sent, finished, answers, size>>
  BY DEF Return, client
<1>2. /\ pc'[c] = "closed"
      /\ \A d \in Conns \ {c} : pc'[d] = pc[d] /\ ref'[d] = ref[d] /\ used'[d] = used[d]
  BY <1>1 DEF IInv, TypeOK
<1>3. CauseLocal(c)
  BY <1>1, <1>2 DEF CauseLocal
<1>4. SentOK(c)'
  BY <1>1 DEF CauseInv, SentOK, Total
<1>5. FullOK(c)' /\ ClosedOK(c)'
  BY <1>1, <1>2 DEF FullOK, ClosedOK, Current
<1> QED BY <1>1, <1>3, <1>4, <1>5, CauseKept DEF CauseInv

LEMMA FailsCause ==
  ASSUME IInv, \A d \in Conns : CauseInv(d), NEW c \in Conns, ReadFails(c) \/ WriteFails(c)
  PROVE  \A d \in Conns : CauseInv(d)'
<1>1. Return(c) /\ finished[c] /\ received' = received
  BY DEF ReadFails, WriteFails, AtEnd
<1>2. received'[c] <= sent[c]
  BY <1>1 DEF CauseInv, SentOK
<1> QED BY <1>1, <1>2, ReturnCause

LEMMA TooLongCause ==
  ASSUME IInv, \A d \in Conns : CauseInv(d), NEW c \in Conns, HeadTooLong(c)
  PROVE  \A d \in Conns : CauseInv(d)'
<1> DEFINE s == stream[c]
           k == Current(c)
<1>1. /\ pc[c] = "head" /\ used[c] >= size[ref[c]] /\ used[c] >= maxRequestSize
      /\ Return(c) /\ received' = received /\ Open(c)
  BY DEF HeadTooLong, Open
<1>2. /\ s \in Streams /\ Len(s) \in Nat /\ k \in 1 .. (Len(s) + 1) /\ used[c] \in Nat
      /\ Start(c) \in Nat /\ received[c] = Start(c) + used[c]
      /\ maxRequestSize \in Nat /\ maxRequestSize > 0
  BY <1>1, OpenFacts, SizeAssumption
<1>3. received[c] <= sent[c] /\ sent[c] <= Total(c) /\ sent[c] \in Nat /\ Total(c) \in Nat
  BY TotalIsEnd DEF CauseInv, SentOK, IInv, TypeOK
<1>4. k <= Len(s)
  <2>1. SUFFICES ASSUME k = Len(s) + 1 PROVE FALSE
    BY <1>2
  <2>2. Start(c) = Total(c)
    <3>1. (k = 1 <=> Len(s) = 0) /\ k - 1 = Len(s)
      BY <1>2, <2>1
    <3> QED BY <3>1 DEF Start, Begin, Total
  <2> QED BY <1>1, <1>2, <1>3, <2>2
<1>5. s[k].head > used[c] /\ s[k].head \in Nat /\ s[k].body \in Nat
  <2>1. k \in 1 .. Len(s)
    BY <1>2, <1>4
  <2> QED BY <1>1, <1>2, <1>4, <2>1, StreamShape DEF CauseInv, FullOK
<1>6. ~ Fits(s[k])
  BY <1>1, <1>2, <1>5 DEF Fits
<1> QED BY <1>1, <1>3, <1>4, <1>6, ReturnCause

LEMMA GrowCause ==
  ASSUME IInv, \A d \in Conns : CauseInv(d), NEW c \in Conns,
         GrowForHead(c) \/ GrowForBody(c)
  PROVE  \A d \in Conns : CauseInv(d)'
<1> DEFINE b == ref[c]
<1>1. /\ Open(c) /\ Grow(c) /\ (pc[c] = "body" \/ used[c] < maxRequestSize)
      /\ pc[c] \in {"head", "body"}
  BY DEF GrowForHead, GrowForBody, Open
<1>2. /\ used[c] >= size[b] /\ size' = [size EXCEPT ![b] = 2 * @]
      /\ UNCHANGED <<stream, sent, finished, received, answers, pc, ref, used>>
  BY <1>1 DEF Grow, client, locals
<1>3. /\ b \in Buffers /\ used[c] \in Nat /\ size \in [Buffers -> Nat \ {0}]
      /\ \A d \in Conns \ {c} : Open(d) => ref[d] # b /\ ref[d] \in Buffers
      /\ size[b] \in {InitSize, maxRequestSize}
  BY <1>1, OpenFacts DEF IInv, TypeOK, TwoSizes
<1>4. CauseLocal(c)
  <2>1. \A d \in Conns \ {c} : pc[d] = "head" => size'[ref[d]] = size[ref[d]]
    BY <1>2, <1>3 DEF Open
  <2> QED BY <1>2, <2>1 DEF CauseLocal
<1>5. FullOK(c)'
  <2>1. CASE pc[c] = "body"
    BY <1>2, <2>1 DEF FullOK
  <2>2. CASE used[c] < maxRequestSize
    <3>1. size[b] = InitSize
      BY <1>2, <1>3, <2>2
    <3>2. size'[b] = maxRequestSize
      BY <1>2, <1>3, <3>1, SizeAssumption
    <3> QED BY <1>2, <1>3, <2>2, <3>2, SizeAssumption DEF FullOK
  <2> QED BY <1>1, <2>1, <2>2
<1>6. SentOK(c)' /\ ClosedOK(c)'
  BY <1>1, <1>2 DEF CauseInv, SentOK, Total, ClosedOK
<1> QED BY <1>2, <1>4, <1>5, <1>6, CauseKept DEF CauseInv

(***************************************************************************)
(* No more is received than was sent.                                      *)
(***************************************************************************)
LEMMA ReadCause ==
  ASSUME IInv, NEW c \in Conns, CauseInv(c), Open(c), NEW n \in 1 .. Readable(c), Read(c, n)
  PROVE  received'[c] <= sent[c] /\ \A d \in Conns \ {c} : received'[d] = received[d]
<1>1. received \in [Conns -> Nat] /\ sent[c] \in Nat /\ size[ref[c]] \in Nat /\ used[c] \in Nat
  BY OpenFacts DEF IInv, TypeOK
<1>2. Readable(c) \in Int /\ Readable(c) <= sent[c] - received[c]
  BY <1>1 DEF Readable, Smaller
<1>3. received' = [received EXCEPT ![c] = @ + n]
  BY DEF Read
<1> QED BY <1>1, <1>2, <1>3

(***************************************************************************)
(* A head that ends in the buffer is seen.                                 *)
(***************************************************************************)
LEMMA HeadSeen ==
  ASSUME stream \in [Conns -> Streams], NEW c \in Conns,
         NEW n \in 1 .. Len(stream[c]), NEW k \in Nat, NEW m,
         \A i \in 1 .. k : m[i] = <<c, Begin(stream[c], n) + i>>,
         stream[c][n].head <= k
  PROVE  indexHeaderEnd(m, k) # 0
<1> DEFINE s == stream[c]
           ends == {i \in 1 .. k : EndsHead(m[i])}
<1>1. s \in Streams /\ s[n].head \in Nat /\ s[n].head > 0 /\ Begin(s, n) = s[n].at
      /\ c # NoConn
  BY StreamShape, BeginIsAt, NoneAssumption
<1>2. m[s[n].head] = <<c, s[n].at + s[n].head>> /\ s[n].head \in 1 .. k
  BY <1>1
<1>3. s[n].head \in ends
  BY <1>1, <1>2 DEF EndsHead
<1>4. ends \in SUBSET Nat /\ ends # {}
  BY <1>3
<1>5. PICK e \in ends : \A i \in ends : e <= i
  <2> HIDE DEF ends
  <2> QED BY <1>4, LeastNatural
<1>6. indexHeaderEnd(m, k) = CHOOSE i \in ends : \A j \in ends : i <= j
  BY <1>4 DEF indexHeaderEnd
<1>7. indexHeaderEnd(m, k) \in ends
  <2> HIDE DEF ends
  <2> QED BY <1>5, <1>6
<1> QED BY <1>7

LEMMA ReadHeadCause ==
  ASSUME IInv, \A d \in Conns : CauseInv(d), NEW c \in Conns, ReadHead(c)
  PROVE  \A d \in Conns : CauseInv(d)'
<1> DEFINE m(n) == Filled(c, n)
           h(n) == indexHeaderEnd(m(n), used[c] + n)
           s == stream[c]
           k == Current(c)
<1>1. pc[c] = "head" /\ Open(c) /\ CauseInv(c)
  BY DEF ReadHead, Open
<1>2. PICK n \in 1 .. Readable(c) :
        /\ Read(c, n)
        /\ \/ /\ h(n) = 0
              /\ used' = [used EXCEPT ![c] = @ + n]
              /\ UNCHANGED <<client, answers, pc, ref, headEnd, bodyEnd, resp, pool, size>>
           \/ /\ h(n) > 0 /\ ~ TooLarge(h(n), findContentLength(m(n)[h(n)]))
              /\ used' = [used EXCEPT ![c] = @ + n]
              /\ headEnd' = [headEnd EXCEPT ![c] = h(n)]
              /\ bodyEnd' = [bodyEnd EXCEPT ![c] = h(n) + findContentLength(m(n)[h(n)])]
              /\ pc' = [pc EXCEPT ![c] = "body"]
              /\ UNCHANGED <<client, answers, ref, resp, pool, size>>
           \/ /\ h(n) > 0 /\ TooLarge(h(n), findContentLength(m(n)[h(n)]))
              /\ Return(c)
  BY DEF ReadHead
<1>3. received'[c] <= sent[c] /\ \A d \in Conns \ {c} : received'[d] = received[d]
  BY <1>1, <1>2, ReadCause
<1>4. /\ s \in Streams /\ Len(s) \in Nat /\ k \in 1 .. (Len(s) + 1)
      /\ used[c] \in Nat /\ used[c] + n \in Nat /\ stream \in [Conns -> Streams]
      /\ \A i \in 1 .. (used[c] + n) : m(n)[i] = <<c, Begin(s, k) + i>>
  <2>1. used[c] + n \in Nat /\ Holds(c, m(n), used[c] + n)
    BY <1>1, <1>2, ReadEffect
  <2>2. stream \in [Conns -> Streams]
    BY DEF IInv, TypeOK
  <2> QED BY <1>1, <2>1, <2>2, OpenFacts DEF Holds, Start
<1>5. ASSUME stream' = stream, sent' = sent PROVE SentOK(c)'
  BY <1>1, <1>3, <1>5 DEF CauseInv, SentOK, Total
<1>6. CASE /\ h(n) = 0
           /\ used' = [used EXCEPT ![c] = @ + n]
           /\ UNCHANGED <<client, answers, pc, ref, headEnd, bodyEnd, resp, pool, size>>
  <2>1. UNCHANGED <<stream, sent, finished, answers, pc, ref, size>>
    BY <1>6 DEF client
  <2>2. used'[c] = used[c] + n /\ \A d \in Conns \ {c} : used'[d] = used[d]
    BY <1>4, <1>6 DEF IInv, TypeOK
  <2>3. CauseLocal(c)
    BY <1>3, <2>1, <2>2 DEF CauseLocal
  <2>4. k <= Len(s) => s[k].head > used[c] + n
    <3>1. SUFFICES ASSUME k <= Len(s), ~ (s[k].head > used[c] + n) PROVE FALSE
      OBVIOUS
    <3>2. k \in 1 .. Len(s) /\ s[k].head \in Nat
      BY <1>4, <3>1, StreamShape
    <3>3. s[k].head <= used[c] + n
      BY <1>4, <3>1, <3>2
    <3>4. h(n) # 0
      <4> HIDE DEF m
      <4> QED BY <1>4, <3>2, <3>3, HeadSeen, Zenon
    <3> QED BY <1>6, <3>4
  <2>5. FullOK(c)' /\ ClosedOK(c)'
    BY <1>1, <2>1, <2>2, <2>4 DEF FullOK, ClosedOK, Current
  <2> QED BY <1>5, <2>1, <2>3, <2>5, CauseKept DEF CauseInv
<1>7. CASE /\ h(n) > 0 /\ ~ TooLarge(h(n), findContentLength(m(n)[h(n)]))
           /\ used' = [used EXCEPT ![c] = @ + n]
           /\ headEnd' = [headEnd EXCEPT ![c] = h(n)]
           /\ bodyEnd' = [bodyEnd EXCEPT ![c] = h(n) + findContentLength(m(n)[h(n)])]
           /\ pc' = [pc EXCEPT ![c] = "body"]
           /\ UNCHANGED <<client, answers, ref, resp, pool, size>>
  <2>1. UNCHANGED <<stream, sent, finished, answers, ref, size>>
    BY <1>7 DEF client
  <2>2. pc'[c] = "body" /\ \A d \in Conns \ {c} : pc'[d] = pc[d] /\ used'[d] = used[d]
    BY <1>7 DEF IInv, TypeOK
  <2>3. CauseLocal(c)
    BY <1>3, <2>1, <2>2 DEF CauseLocal
  <2>4. FullOK(c)' /\ ClosedOK(c)'
    BY <2>2 DEF FullOK, ClosedOK
  <2> QED BY <1>5, <2>1, <2>3, <2>4, CauseKept DEF CauseInv
<1>8. CASE /\ h(n) > 0 /\ TooLarge(h(n), findContentLength(m(n)[h(n)]))
           /\ Return(c)
  <2>1. /\ k <= Len(s) /\ h(n) = s[k].head
        /\ findContentLength(m(n)[h(n)]) = s[k].body
    <3>1. h(n) # 0
      BY <1>8
    <3> HIDE DEF m
    <3> QED BY <1>4, <3>1, HeadFound, Zenon
  <2>2. s[k].head \in Nat /\ s[k].body \in Nat
    <3>1. k \in 1 .. Len(s)
      BY <1>4, <2>1
    <3> QED BY <1>4, <3>1, StreamShape
  <2>3. TooLarge(s[k].head, s[k].body)
    BY <1>8, <2>1
  <2>4. ~ Fits(s[k])
    BY <2>2, <2>3, SizeAssumption DEF TooLarge, Fits
  <2> QED BY <1>3, <1>8, <2>1, <2>4, ReturnCause
<1> QED BY <1>2, <1>6, <1>7, <1>8

LEMMA ReadBodyCause ==
  ASSUME IInv, \A d \in Conns : CauseInv(d), NEW c \in Conns, ReadBody(c)
  PROVE  \A d \in Conns : CauseInv(d)'
<1>1. pc[c] = "body" /\ Open(c) /\ CauseInv(c)
      /\ UNCHANGED <<stream, sent, finished, answers, pc, ref, size>>
  BY DEF ReadBody, Open, client
<1>2. PICK n \in 1 .. Readable(c) : Read(c, n) /\ used' = [used EXCEPT ![c] = @ + n]
  BY DEF ReadBody
<1>3. received'[c] <= sent[c] /\ \A d \in Conns \ {c} : received'[d] = received[d]
  BY <1>1, <1>2, ReadCause
<1>4. \A d \in Conns \ {c} : used'[d] = used[d]
  BY <1>2 DEF IInv, TypeOK
<1>5. CauseLocal(c)
  BY <1>1, <1>3, <1>4 DEF CauseLocal
<1>6. CauseInv(c)'
  BY <1>1, <1>3 DEF CauseInv, SentOK, FullOK, ClosedOK, Total
<1> QED BY <1>1, <1>5, <1>6, CauseKept

LEMMA HandleCause ==
  ASSUME IInv, \A d \in Conns : CauseInv(d), NEW c \in Conns, Handle(c)
  PROVE  \A d \in Conns : CauseInv(d)'
<1>1. /\ pc' = [pc EXCEPT ![c] = "write"] /\ CauseInv(c)
      /\ UNCHANGED <<stream, sent, finished, received, answers, ref, used, size>>
  BY DEF Handle, client
<1>2. pc'[c] = "write" /\ \A d \in Conns \ {c} : pc'[d] = pc[d]
  BY <1>1 DEF IInv, TypeOK
<1>3. CauseLocal(c)
  BY <1>1, <1>2 DEF CauseLocal
<1>4. CauseInv(c)'
  BY <1>1, <1>2 DEF CauseInv, SentOK, FullOK, ClosedOK, Total
<1> QED BY <1>1, <1>3, <1>4, CauseKept

(***************************************************************************)
(* What Write leaves in the buffer does not fill it.                       *)
(***************************************************************************)
LEMMA WriteCause ==
  ASSUME IInv, \A d \in Conns : CauseInv(d), NEW c \in Conns, Write(c)
  PROVE  \A d \in Conns : CauseInv(d)'
<1>1. /\ pc[c] = "write" /\ Open(c) /\ CauseInv(c)
      /\ answers' = [answers EXCEPT ![c] = Append(@, resp[c])]
      /\ used' = [used EXCEPT ![c] = used[c] - bodyEnd[c]] /\ pc' = [pc EXCEPT ![c] = "head"]
      /\ UNCHANGED <<stream, sent, finished, received, ref, size>>
  BY DEF Write, Open, client
<1>2. /\ pc'[c] = "head" /\ used'[c] = used[c] - bodyEnd[c]
      /\ \A d \in Conns \ {c} : pc'[d] = pc[d] /\ used'[d] = used[d] /\ answers'[d] = answers[d]
  BY <1>1 DEF IInv, TypeOK
<1>3. CauseLocal(c)
  BY <1>1, <1>2 DEF CauseLocal
<1>4. bodyEnd[c] \in Nat /\ bodyEnd[c] > 0
  <2>1. /\ stream[c] \in Streams /\ Current(c) \in 1 .. Len(stream[c])
        /\ bodyEnd[c] = stream[c][Current(c)].head + stream[c][Current(c)].body
    BY <1>1, OpenFacts DEF IInv, ConnInv, LengthOK
  <2> QED BY <2>1, StreamShape
<1>5. used'[c] < size'[ref'[c]] /\ used'[c] \in Int /\ size'[ref'[c]] \in Int
  BY <1>1, <1>2, <1>4, OpenFacts
<1>6. FullOK(c)' /\ ClosedOK(c)'
  BY <1>2, <1>5 DEF FullOK, ClosedOK
<1>7. SentOK(c)'
  BY <1>1 DEF CauseInv, SentOK, Total
<1> QED BY <1>1, <1>3, <1>6, <1>7, CauseKept DEF CauseInv

LEMMA NextCause ==
  IInv /\ (\A c \in Conns : CauseInv(c)) /\ [Next]_vars => (\A c \in Conns : CauseInv(c))'
<1> SUFFICES ASSUME IInv, \A c \in Conns : CauseInv(c), [Next]_vars
             PROVE  \A c \in Conns : CauseInv(c)'
  OBVIOUS
<1>1. CASE Next
  <2>1. PICK c \in Conns : ClientSend(c) \/ ClientClose(c) \/ Accept(c) \/ handleConn(c)
    BY <1>1 DEF Next
  <2>2. IInv'
    BY NextInv
  <2>3. CASE handleConn(c)
    BY <2>3, ReadHeadCause, GrowCause, TooLongCause, ReadBodyCause, FailsCause, HandleCause,
       WriteCause DEF handleConn
  <2> QED BY <2>1, <2>2, <2>3, ClientCause, AcceptCause
<1>2. CASE UNCHANGED vars
  BY <1>2 DEF vars, CauseInv, SentOK, FullOK, ClosedOK, Total, Current
<1> QED BY <1>1, <1>2

\* A connection whose client has not closed is closed by the server only when its
\* next request is too large, however the units of the stream arrive: the test on
\* a full buffer and the test on the content length refuse nothing else.
THEOREM ClosesForCause == Spec => []ClosedForCause
<1>1. Init => \A c \in Conns : CauseInv(c)
  <2>1. SUFFICES ASSUME Init, NEW c \in Conns PROVE CauseInv(c)
    OBVIOUS
  <2>2. Total(c) \in Nat
    BY <2>1, InitInv, TotalIsEnd
  <2> QED BY <2>1, <2>2 DEF Init, CauseInv, SentOK, FullOK, ClosedOK
<1>2. IInv /\ (\A c \in Conns : CauseInv(c)) => ClosedForCause
  <2>1. SUFFICES ASSUME IInv, NEW c \in Conns, ClosedOK(c), pc[c] = "closed", ~ finished[c]
                 PROVE  /\ Len(answers[c]) < Len(stream[c])
                        /\ ~ Fits(stream[c][Len(answers[c]) + 1])
    BY DEF CauseInv, ClosedForCause
  <2>2. Len(answers[c]) \in Nat /\ Len(stream[c]) \in Nat
    BY <2>1, StreamShape DEF IInv, TypeOK
  <2> QED BY <2>1, <2>2 DEF ClosedOK, Current
<1> QED BY <1>1, <1>2, Invariant, NextCause, PTL DEF Spec
=============================================================================
