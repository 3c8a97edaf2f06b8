------------------------------ MODULE HttpConn ------------------------------
(***************************************************************************)
(* The HTTP server of internal/server/server.go: one goroutine runs        *)
(* handleConn per connection, all of them share readBufPool.               *)
(*                                                                         *)
(* Bytes are counted in units; a unit on the wire is <<connection,         *)
(* position in its stream>>, so that every unit in a buffer says where it  *)
(* came from.  The stream of a connection is a sequence of requests, each  *)
(* [at, head, body]: the units before it, those of its head and those of   *)
(* its body.  A buffer is what a bufRef of the pool points to; growing it  *)
(* allocates an array nobody else has, so it keeps its identity here.  A   *)
(* buffer from the pool still holds what its last connection left in it.   *)
(*                                                                         *)
(* External: the client (and the proxy before it, which passes bytes on),  *)
(* the socket, which may deliver any number of the units sent, and         *)
(* sync.Pool, whose Get may call New although buffers are in the pool.     *)
(***************************************************************************)
EXTENDS Integers, Sequences

CONSTANTS
  Conns,            \* connections, each accepted at most once
  Buffers,          \* the identities of buffers
  NoConn, NoBuffer,
  InitSize,         \* size of a new buffer; 4096
  maxRequestSize,   \* 8192
  Streams,          \* the streams a client may send
  MaxRequests,      \* the most requests in a stream
  Depth             \* requests each client sends before it waits for an answer

ASSUME SizeAssumption ==
  /\ InitSize \in Nat \ {0} /\ maxRequestSize \in Nat
  /\ maxRequestSize = 2 * InitSize
ASSUME NoneAssumption == NoConn \notin Conns /\ NoBuffer \notin Buffers
ASSUME DepthAssumption == Depth \in [Conns -> Nat \ {0}] /\ MaxRequests \in Nat

Request == [at : Nat, head : Nat \ {0}, body : Nat]

EndOf(rq) == rq.at + rq.head + rq.body

ASSUME StreamAssumption ==
  \A s \in Streams :
    /\ s \in Seq(Request) /\ Len(s) <= MaxRequests
    /\ Len(s) > 0 => s[1].at = 0
    /\ \A n \in 1 .. (Len(s) - 1) : s[n + 1].at = EndOf(s[n])

VARIABLES
  stream,           \* what each client has to send; never changes
  sent, received,   \* units of it on the wire so far, and read by handleConn
  finished,         \* the client has closed the connection
  answers,          \* what the client got: the request each answer is for
  pc,               \* where handleConn is
  ref,              \* bufRef
  used, headEnd, bodyEnd,
  resp,             \* the request the handler was given, 0 if it is none
  pool,             \* the buffers in readBufPool
  size, mem         \* len and contents of each buffer

vars == <<stream, sent, received, finished, answers, pc, ref, used, headEnd,
          bodyEnd, resp, pool, size, mem>>

client == <<stream, sent, finished>>
locals == <<used, headEnd, bodyEnd, resp>>

Blank == <<NoConn, 0>>
Unit  == (Conns \union {NoConn}) \X Nat

Open(c) == pc[c] \in {"head", "body", "write"}

Smaller(a, b) == IF a < b THEN a ELSE b

-----------------------------------------------------------------------------
Init ==
  /\ stream \in [Conns -> Streams]
  /\ sent = [c \in Conns |-> 0] /\ received = [c \in Conns |-> 0]
  /\ finished = [c \in Conns |-> FALSE] /\ answers = [c \in Conns |-> <<>>]
  /\ pc = [c \in Conns |-> "new"] /\ ref = [c \in Conns |-> NoBuffer]
  /\ used = [c \in Conns |-> 0] /\ headEnd = [c \in Conns |-> 0]
  /\ bodyEnd = [c \in Conns |-> 0] /\ resp = [c \in Conns |-> 0]
  /\ pool = {} /\ size = [b \in Buffers |-> InitSize]
  /\ mem = [b \in Buffers |-> [i \in 1 .. InitSize |-> Blank]]

(***************************************************************************)
(* The client sends the next unit of its stream; it has at most Depth[c]   *)
(* requests on the way.  It may close the connection at any time.          *)
(***************************************************************************)
Allowed(c) == Smaller(Len(answers[c]) + Depth[c], Len(stream[c]))

ClientSend(c) ==
  /\ pc[c] # "closed" /\ ~ finished[c]
  /\ Allowed(c) > 0 /\ sent[c] < EndOf(stream[c][Allowed(c)])
  /\ sent' = [sent EXCEPT ![c] = @ + 1]
  /\ UNCHANGED <<stream, received, finished, answers, pc, ref, locals, pool, size, mem>>

ClientClose(c) ==
  /\ pc[c] # "closed" /\ ~ finished[c]
  /\ finished' = [finished EXCEPT ![c] = TRUE]
  /\ UNCHANGED <<stream, sent, received, answers, pc, ref, locals, pool, size, mem>>

(***************************************************************************)
(* acceptLoop starts handleConn, which gets a buffer: one of the pool, or  *)
(* a new one.                                                              *)
(***************************************************************************)
InUse == {ref[c] : c \in Conns} \ {NoBuffer}

Accept(c) ==
  /\ pc[c] = "new"
  /\ pc' = [pc EXCEPT ![c] = "head"]
  /\ \/ \E b \in pool : /\ ref' = [ref EXCEPT ![c] = b]
                        /\ pool' = pool \ {b}
                        /\ UNCHANGED <<size, mem>>
     \/ \E b \in Buffers \ (pool \union InUse) :
          /\ ref' = [ref EXCEPT ![c] = b]
          /\ size' = [size EXCEPT ![b] = InitSize]
          /\ mem' = [mem EXCEPT ![b] = [i \in 1 .. InitSize |-> Blank]]
          /\ UNCHANGED pool
  /\ UNCHANGED <<client, received, answers, locals>>

(***************************************************************************)
(* handleConn returns: conn.Close and the buffer back to the pool, unless  *)
(* it has outgrown it.                                                     *)
(***************************************************************************)
Return(c) ==
  /\ pc' = [pc EXCEPT ![c] = "closed"]
  /\ ref' = [ref EXCEPT ![c] = NoBuffer]
  /\ pool' = IF size[ref[c]] <= maxRequestSize THEN pool \union {ref[c]} ELSE pool
  /\ used' = [used EXCEPT ![c] = 0]
  /\ UNCHANGED <<client, answers, headEnd, bodyEnd, resp, size>>

(***************************************************************************)
(* A full buffer is copied into one of twice its size.                     *)
(***************************************************************************)
Grow(c) ==
  LET b == ref[c]
  IN  /\ used[c] >= size[b]
      /\ size' = [size EXCEPT ![b] = 2 * @]
      /\ mem' = [mem EXCEPT ![b] = [i \in 1 .. (2 * size[b]) |->
                                      IF i <= used[c] THEN mem[b][i] ELSE Blank]]
      /\ UNCHANGED <<client, received, answers, pc, ref, locals, pool>>

(***************************************************************************)
(* conn.Read: n units arrive behind those in the buffer.                   *)
(***************************************************************************)
Readable(c) == Smaller(size[ref[c]] - used[c], sent[c] - received[c])

Filled(c, n) ==
  [i \in 1 .. size[ref[c]] |->
     IF i \in (used[c] + 1) .. (used[c] + n)
       THEN <<c, received[c] + i - used[c]>>
       ELSE mem[ref[c]][i]]

Read(c, n) ==
  /\ mem' = [mem EXCEPT ![ref[c]] = Filled(c, n)]
  /\ received' = [received EXCEPT ![c] = @ + n]

AtEnd(c) == finished[c] /\ received[c] = sent[c]

(***************************************************************************)
(* indexHeaderEnd: the end of the first head in the first k units, or 0.   *)
(* A unit ends a head where the stream it came from says so; the head then *)
(* names the length of the body.                                           *)
(***************************************************************************)
EndsHead(u) ==
  u[1] # NoConn /\ \E n \in 1 .. Len(stream[u[1]]) :
                      u[2] = stream[u[1]][n].at + stream[u[1]][n].head

indexHeaderEnd(m, k) ==
  LET ends == {i \in 1 .. k : EndsHead(m[i])}
  IN  IF ends = {} THEN 0 ELSE CHOOSE i \in ends : \A j \in ends : i <= j

findContentLength(u) ==
  LET n == CHOOSE n \in 1 .. Len(stream[u[1]]) :
             u[2] = stream[u[1]][n].at + stream[u[1]][n].head
  IN  stream[u[1]][n].body

\* Wrong: refuses a request exactly at the limit; forgets the head.
TooLargeOffByOne(head, body) == body >= maxRequestSize - head
TooLargeBodyOnly(head, body) == body > maxRequestSize

TooLarge(head, body) == body > maxRequestSize - head

(***************************************************************************)
(* The loop that reads until the buffer holds a head.  It looks for one    *)
(* only after a Read.  A request that cannot fit ends the connection.      *)
(***************************************************************************)
ReadHead(c) ==
  /\ pc[c] = "head"
  /\ \E n \in 1 .. Readable(c) :
       LET m == Filled(c, n)
           h == indexHeaderEnd(m, used[c] + n)
       IN  /\ Read(c, n)
           /\ \/ /\ h = 0
                 /\ used' = [used EXCEPT ![c] = @ + n]
                 /\ UNCHANGED <<client, answers, pc, ref, headEnd, bodyEnd, resp, pool, size>>
              \/ /\ h > 0 /\ ~ TooLarge(h, findContentLength(m[h]))
                 /\ used' = [used EXCEPT ![c] = @ + n]
                 /\ headEnd' = [headEnd EXCEPT ![c] = h]
                 /\ bodyEnd' = [bodyEnd EXCEPT ![c] = h + findContentLength(m[h])]
                 /\ pc' = [pc EXCEPT ![c] = "body"]
                 /\ UNCHANGED <<client, answers, ref, resp, pool, size>>
              \/ /\ h > 0 /\ TooLarge(h, findContentLength(m[h]))
                 /\ Return(c)

HeadTooLong(c) ==
  /\ pc[c] = "head" /\ used[c] >= size[ref[c]] /\ used[c] >= maxRequestSize
  /\ Return(c)
  /\ UNCHANGED <<received, mem>>

GrowForHead(c) ==
  /\ pc[c] = "head" /\ used[c] < maxRequestSize /\ Grow(c)

(***************************************************************************)
(* The loop that reads until the buffer holds the body.                    *)
(***************************************************************************)
ReadBody(c) ==
  /\ pc[c] = "body" /\ used[c] < bodyEnd[c]
  /\ \E n \in 1 .. Readable(c) :
       /\ Read(c, n)
       /\ used' = [used EXCEPT ![c] = @ + n]
  /\ UNCHANGED <<client, answers, pc, ref, headEnd, bodyEnd, resp, pool, size>>

\* Wrong: grows only a buffer that has overflowed.
GrowForBodyLate(c) ==
  /\ pc[c] = "body" /\ used[c] < bodyEnd[c] /\ used[c] > size[ref[c]] /\ Grow(c)

GrowForBody(c) ==
  /\ pc[c] = "body" /\ used[c] < bodyEnd[c] /\ Grow(c)

(***************************************************************************)
(* Either loop finds that the client has closed.                           *)
(***************************************************************************)
\* Wrong: the loop that reads a body ignores the error.
ReadFailsHeadOnly(c) ==
  /\ pc[c] = "head" /\ used[c] < size[ref[c]] /\ AtEnd(c)
  /\ Return(c)
  /\ UNCHANGED <<received, mem>>

ReadFails(c) ==
  /\ pc[c] = "head" \/ (pc[c] = "body" /\ used[c] < bodyEnd[c])
  /\ used[c] < size[ref[c]] /\ AtEnd(c)
  /\ Return(c)
  /\ UNCHANGED <<received, mem>>

(***************************************************************************)
(* The handler is given path and body, slices of the buffer.  What it is   *)
(* given is request n when the buffer begins with the units of request n   *)
(* of this connection, and no request otherwise.                           *)
(***************************************************************************)
RequestAt(c, m, end) ==
  {n \in 1 .. Len(stream[c]) :
     /\ end = stream[c][n].head + stream[c][n].body
     /\ \A i \in 1 .. end : m[i] = <<c, stream[c][n].at + i>>}

\* Wrong: gives the buffer back as soon as the handler has returned.
HandlePutsEarly(c) ==
  /\ pc[c] = "body" /\ used[c] >= bodyEnd[c]
  /\ resp' = [resp EXCEPT ![c] = Len(answers[c]) + 1]
  /\ pool' = pool \union {ref[c]}
  /\ pc' = [pc EXCEPT ![c] = "write"]
  /\ UNCHANGED <<client, received, answers, ref, used, headEnd, bodyEnd, size, mem>>

Handle(c) ==
  /\ pc[c] = "body" /\ used[c] >= bodyEnd[c]
  /\ LET given == RequestAt(c, mem[ref[c]], bodyEnd[c])
     IN  resp' = [resp EXCEPT ![c] = IF given = {} THEN 0 ELSE CHOOSE n \in given : TRUE]
  /\ pc' = [pc EXCEPT ![c] = "write"]
  /\ UNCHANGED <<client, received, answers, ref, used, headEnd, bodyEnd, pool, size, mem>>

(***************************************************************************)
(* conn.Write, and the units behind the request to the front.              *)
(***************************************************************************)
\* Wrong: the units behind the request stay where they are.
WriteWithoutCopy(c) ==
  /\ pc[c] = "write"
  /\ answers' = [answers EXCEPT ![c] = Append(@, resp[c])]
  /\ used' = [used EXCEPT ![c] = @ - bodyEnd[c]]
  /\ pc' = [pc EXCEPT ![c] = "head"]
  /\ UNCHANGED <<client, received, ref, headEnd, bodyEnd, resp, pool, size, mem>>

\* Wrong: the units behind the request are dropped.
WriteDropsRest(c) ==
  /\ pc[c] = "write"
  /\ answers' = [answers EXCEPT ![c] = Append(@, resp[c])]
  /\ used' = [used EXCEPT ![c] = 0]
  /\ pc' = [pc EXCEPT ![c] = "head"]
  /\ UNCHANGED <<client, received, ref, headEnd, bodyEnd, resp, pool, size, mem>>

Write(c) ==
  LET b == ref[c]
      left == used[c] - bodyEnd[c]
  IN  /\ pc[c] = "write"
      /\ answers' = [answers EXCEPT ![c] = Append(@, resp[c])]
      /\ mem' = [mem EXCEPT ![b] = [i \in 1 .. size[b] |->
                                      IF i <= left THEN mem[b][bodyEnd[c] + i] ELSE mem[b][i]]]
      /\ used' = [used EXCEPT ![c] = left]
      /\ pc' = [pc EXCEPT ![c] = "head"]
      /\ UNCHANGED <<client, received, ref, headEnd, bodyEnd, resp, pool, size>>

WriteFails(c) ==
  /\ pc[c] = "write" /\ finished[c]
  /\ Return(c)
  /\ UNCHANGED <<received, mem>>

handleConn(c) ==
  \/ ReadHead(c) \/ GrowForHead(c) \/ HeadTooLong(c)
  \/ ReadBody(c) \/ GrowForBody(c) \/ ReadFails(c)
  \/ Handle(c) \/ Write(c) \/ WriteFails(c)

Next ==
  \E c \in Conns : ClientSend(c) \/ ClientClose(c) \/ Accept(c) \/ handleConn(c)

Spec == Init /\ [][Next]_vars

(***************************************************************************)
(* The goroutines of the server are scheduled fairly and the socket does   *)
(* not withhold what was sent.  A client owes nothing.                     *)
(***************************************************************************)
FairSpec == Spec /\ \A c \in Conns : WF_vars(Accept(c)) /\ WF_vars(handleConn(c))

-----------------------------------------------------------------------------
TypeOK ==
  /\ stream \in [Conns -> Streams]
  /\ sent \in [Conns -> Nat] /\ received \in [Conns -> Nat]
  /\ finished \in [Conns -> BOOLEAN]
  /\ answers \in [Conns -> Seq(Nat)]
  /\ pc \in [Conns -> {"new", "head", "body", "write", "closed"}]
  /\ ref \in [Conns -> Buffers \union {NoBuffer}]
  /\ \A c \in Conns : Open(c) <=> ref[c] # NoBuffer
  /\ used \in [Conns -> Nat] /\ headEnd \in [Conns -> Nat] /\ bodyEnd \in [Conns -> Nat]
  /\ resp \in [Conns -> Nat]
  /\ pool \subseteq Buffers
  /\ size \in [Buffers -> Nat \ {0}]
  /\ DOMAIN mem = Buffers /\ \A b \in Buffers : mem[b] \in [1 .. size[b] -> Unit]

(***************************************************************************)
(* A buffer belongs to one connection at a time, and to none while it is   *)
(* in the pool: the deferred Put comes after the last use of the slices    *)
(* that the handler was given (server.go:82, 133).                         *)
(***************************************************************************)
BuffersExclusive ==
  \A c \in Conns : Open(c) =>
    /\ ref[c] \notin pool
    /\ \A d \in Conns : d # c => ref[d] # ref[c]

(***************************************************************************)
(* No buffer outgrows the limit, although the loop that reads a body grows *)
(* it unchecked (server.go:119): the test on the content length before it, *)
(* and the power of two between the sizes, are what bounds the memory of a *)
(* connection, and let every buffer return to the pool.                    *)
(***************************************************************************)
BuffersBounded ==
  /\ \A b \in Buffers : size[b] <= maxRequestSize
  /\ \A c \in Conns : Open(c) => used[c] <= size[ref[c]]

(***************************************************************************)
(* What a connection has in its buffer is the piece of its own stream that *)
(* begins with the request to be answered next: nothing of the connection  *)
(* that had the buffer before, nothing of the request before, no gap.      *)
(***************************************************************************)
BufferIsOwnStream ==
  \A c \in Conns : Open(c) =>
    LET n == Len(answers[c])
        start == IF n = 0 THEN 0 ELSE EndOf(stream[c][n])
    IN  /\ received[c] = start + used[c]
        /\ \A i \in 1 .. used[c] : mem[ref[c]][i] = <<c, start + i>>

(***************************************************************************)
(* The n-th answer of a connection is computed from its n-th request, for  *)
(* every way the socket cuts up the stream.                                *)
(***************************************************************************)
AnswersInOrder ==
  \A c \in Conns :
    /\ \A n \in 1 .. Len(answers[c]) : answers[c][n] = n
    /\ pc[c] = "write" => resp[c] = Len(answers[c]) + 1

(***************************************************************************)
(* A connection whose client has not closed is closed by the server only   *)
(* when its next request is larger than the limit.                         *)
(***************************************************************************)
Fits(rq) == rq.head + rq.body <= maxRequestSize

ClosedForCause ==
  \A c \in Conns : pc[c] = "closed" /\ ~ finished[c] =>
    /\ Len(answers[c]) < Len(stream[c])
    /\ ~ Fits(stream[c][Len(answers[c]) + 1])

(***************************************************************************)
(* A request that has been sent in full is answered, or its connection     *)
(* closed.  The code keeps this for a client that waits for the answer     *)
(* before it sends the next request, whatever the others do.  Constant     *)
(* MaxRequests bounds the requests of a stream.                            *)
(***************************************************************************)
Answered(c, n) ==
  (n <= Len(stream[c]) /\ sent[c] >= EndOf(stream[c][n]))
    ~> (Len(answers[c]) >= n \/ pc[c] = "closed")

EveryRequestAnswered == \A c \in Conns : \A n \in 1 .. MaxRequests : Answered(c, n)

PatientClientsAnswered ==
  \A c \in Conns : \A n \in 1 .. MaxRequests : Depth[c] = 1 => Answered(c, n)

(***************************************************************************)
(* When a client has closed, its connection is closed and its buffer given *)
(* back.                                                                   *)
(***************************************************************************)
ConnectionsEnd == \A c \in Conns : finished[c] ~> pc[c] = "closed"
=============================================================================
