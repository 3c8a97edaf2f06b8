# A TLA+ verification of the fraud-score server

The repository answers one question over HTTP: given a card transaction, how
many of the five most similar reference transactions were frauds. It turns a
JSON payload into fourteen quantized numbers, searches an inverted-file (IVF)
index for the five nearest vectors, and sends one of six ready-made answers.
This directory specifies the parts of it where a mistake would not show in a
unit test: a search in several passes that prunes with moving bounds, a server
whose connections share buffers, and a channel between goroutines on which
connections are handed over.

All line numbers are those of the files under `src/`.

## 1. The system

| Component | Source | State it keeps | Operations | Interacts with |
|---|---|---|---|---|
| IVF search | `internal/ivf/{index,scan,repair}.go` | per call: five best, probe mask, the loop of the pass | `searchIVF`: `probeIVF`, `expandProbes`, `repairIVF` | called by the service; reads the index |
| Centroid selection, distances | `internal/ivf/{search,quantize}.go`, `dist_*` | per call: the sorted array of nearest centroids | `topCentroids`, `insertCentroid`, the distances that stop early | called by each pass of a search |
| HTTP server | `internal/server/server.go` | per connection: buffer, bytes used, ends of head and body; shared: `readBufPool` | `acceptLoop`, `handleConn` | goroutines share the pool; calls the handler |
| Descriptor passing | `internal/fdpass/recv_linux.go`, `ServeFDChannel` | control connections, channel `out` of 256 | `Listen`, `acceptLoop`, `recvLoop`, `ServeFDChannel` | goroutines share a channel; starts `handleConn` |
| Index builder | `internal/ivf/build.go`, `cmd/indexer` | vectors, ids and ranges under construction | `balancedSplit`, `materializeIVF` | makes what the search assumes |
| Index file | `internal/ivf/format.go` | a file, a mapping of it | `Save`, `Load` | indexer writes, server maps |
| Vectorizer | `internal/vectorize` | none | `Vectorize`, calendar arithmetic | between parser and search |
| JSON parser | `internal/handler/json.go` | position in the body | `ParsePayload` | given a slice of the connection's buffer |
| Fraud service, handler | `internal/service`, `h` of `cmd/server/main.go` | none | `FraudCount`, `h` | from a body to a response, between server, parser, vectorizer and search |
| Server process | `cmd/server/main.go` | index, tables, listener, socket file | start, serve for ever | composes the others |
| Loader | `internal/loader` | none | `ReadAll`; `Preprocess` and `Load`, which no program calls | used by the indexer |
| Proxies, containers | `haproxy.local.cfg`, `nginx.local.conf`, `docker-compose.local.yml` | health of the processes, the volume of the sockets | start, restart, `test -S` | clients of the server |

What is hard in it:

* **Moving bounds.** A cluster is skipped when its bounding box is farther than
  the fifth neighbour, a bound that changes while clusters are scanned;
  `repairIVF` even works with a copy of it. Losing one neighbour changes an
  answer from approve to deny and no test would notice.
* **Paths through the passes.** A count decides whether the search is widened,
  by which pass, and whether a rule overrides the result.
* **Ties** are decided by an identifier that has nothing to do with the order
  in which rows are scanned.
* **Early ends** of the distance loops: partial sums are compared as if they
  were distances.
* **Shared buffers**: slices of a pooled buffer are given to the handler while
  other connections come and go.
* **Streams**: a request may arrive in any number of pieces, together with the
  one before and after; buffers grow, are compacted and are reused with old
  contents in them.
* **Channels**: several loops send on one channel that somebody else closes.
* **Failures** of `Accept4`, `Recvmsg`, `SetNonblock`, `FileConn`, `Read` and
  `Write`, each with its own early return.
* **Restart**: socket file, index file and health check outlive a process.

For each component, what makes it correct:

* search: every neighbour is found, none is counted twice, the answer is the
  count over the rows that were to be searched, doubtful answers are searched
  further, the search ends;
* centroids: the nearest ones, in a fixed order;
* server: buffers are exclusive and bounded, path and length are those the head
  says, the n-th answer is for the n-th request, connections close only for a
  cause, every request is answered;
* descriptor passing: a descriptor is served once or closed once, in order;
* builder: clusters partition the rows, boxes contain them, none is empty;
* file: what is loaded is what was saved, or an error;
* vectorizer and parser: the payload is what the body says, its times follow the
  calendar, its vector is in range;
* process: it takes connections only when it has read all they need, it comes up
  again whatever its predecessor left behind, and no client waits for another.

## 2. Modules

| Module | What it is |
|---|---|
| `Neighbours` | the five-best array: `insert`, the test of a lane, `countFrauds`. The three parallel arrays are one function to records |
| `RepairRules` | the predicates on a quantized query that steer a search |
| `IVFIndex` | an index as one query sees it, and what a search assumes of it |
| `KNearest` | the abstract specification of a search: it looks at more and more rows and has the nearest of them |
| `IVFSearch` | one call of `searchIVF` as a state machine: a step is one iteration of a loop over clusters, or one row of a scan |
| `IVFSearchProofs` | theorems about it, and that it implements `KNearest` |
| `PartialSums` | the distances that stop early |
| `TopCentroids`, `TopCentroidsProofs` | `topCentroids`, one iteration per cluster; theorems |
| `IVFBuild` | `Build` from quantized vectors: the calls of `balancedSplit` one by one, then the loop of `materializeIVF` |
| `IndexFile` | extends it by `Save`, with a stop after any byte, and `Load` |
| `ClusterScan` | extends that by the scans of both kernels over what was loaded |
| `IndexProofs` | theorems about what is built, saved and loaded |
| `HttpConn`, `HttpConnProofs` | `handleConn`, one instance per connection, with the pool they share; theorems |
| `RequestHead` | the parsers of a head: `parseRequestLine`, `findContentLength` |
| `FdPass`, `FdPassProofs` | `acceptLoop`, a `recvLoop` per control connection, `ServeFDChannel` and the channel; theorems |
| `Process`, `ProcessProofs` | `main` of the server in several processes, `Listen`, `acceptLoop`, their ends and restarts, health check and proxy; theorems |
| `JsonNumber` | `parseInt32Bytes`, `parseFloat32Bytes` |
| `JsonParser` | `ParsePayload` and all it calls, one token per step |
| `JsonGrammar` | the grammar of payloads, with the types of their members, as a table of what has been derived: which bodies `JsonParser` is to accept |
| `JsonDocument` | documents of JSON, their text, what they say of a payload: what the parser is to make of them |
| `Calendar` | day counts, weekdays, minutes between timestamps |
| `Vectorizer` | `Vectorize` and `quantizeVector` |
| `Scoring`, `ScoringProofs` | one request from its head to its response: `RequestHead`, `JsonParser` and `Vectorizer` composed as `handleConn`, `h` and `FraudService` compose them; theorems |
| `SearchLemmas` | what several proofs share: the least element of a set of naturals, induction and recursion along an interval, and what `insert` does to the array of the best neighbours |
| `MC...` | the values of the constants for model checking |

```
KNearest <-refines- IVFSearch -- RepairRules        Process    (who listens, and when)
                        |    \-- Neighbours            |
                     IVFIndex       |               HttpConn   (bytes into requests)   FdPass
                        |           |                  |
  IVFBuild -- IndexFile -- ClusterScan              Scoring -- RequestHead
                               |                       |  \-- JsonParser -- JsonNumber
                          PartialSums -- TopCentroids  |-- Vectorizer -- Calendar
```

Modules meet where the code does. `IVFSearch` assumes `WellFormed` of an index,
and `ClusterScan` shows it of what was built, saved and loaded. `HttpConn` takes
the length that a head names as given, and `Scoring` reads it from the head.
`Scoring` takes any count from the search, and assumes nothing of it.

Definitions beginning with `\* Wrong:` are the code with a mistake in it, such
as a dropped guard or an off-by-one. No specification uses them. Put in the
place of the definition that follows, each makes a property fail, which shows
that the property depends on that piece of the code.

### IVFSearch and KNearest

| Specification | Code |
|---|---|
| `ix` | the `Index`, as far as one query can see it: row ranges, distance, label and original id of each row, distance to each box, order of the centroids |
| `stage`, `next`, `count` | which loop over clusters is running, and where it is |
| `row`, `rowEnd` | the loop of `scanBlocksAVX2` |
| `best` | `bestDist`, `bestID`, `bestFraud` |
| `probeMask`, `cutoff` | the field, and the local of `repairIVF` |
| `ProbeStep`, `ExpandStep`, `RepairStep` | one iteration of `probeIVF`, `expandProbes`, `repairIVF` with the test of the box |
| `AfterProbe` ... `AfterDenial` | the code of `searchIVF` between its passes |
| `passed` | history: the passes that have ended |

Geometry is data here: what `WellFormed` says of an index is that row ranges
cover the rows, that a box is no farther than the rows in it, that ids are
distinct, and that the order of centroids names each cluster once.

`KNearest` knows neither clusters nor boxes. Its `Look` adds rows and keeps the
nearest; its `Answer` counts their frauds, or denies as a rule prescribes.
`Promise` in `IVFSearch` maps the state: `SeenRows` are the rows of the clusters
that have been scanned **or skipped**, but for those the running scan has yet to
come to. So a skip of a box is a `Look` that finds nothing better, and that it
really is one is what the refinement shows. The promise lapses (`Lapse`) when a
pass follows a repair, for reason 1 below.

### IVFBuild, IndexFile and ClusterScan

The recursion of `balancedSplit` is the stack `todo` of calls to be made, so
that each call is a step and the array `ids`, which all of them sort parts of,
can be looked at in between. `Sorted` is `sort.Slice` with the order of the
code, which leaves no ties. `MakeCluster` is an iteration of the loop in
`materializeIVF` with the functions it calls, `MakeBlocks` what comes after it.
The orders of rows, clusters and lanes are those of the code, and so are the
rounding of the centroid and the boxes; variances are compared as exact
fractions where the code divides in float64, so that for nearly equal ones it
may cut in another dimension.

In the file, byte `k` of value `v` is `<<v, k>>`: a value is read back exactly
when its bytes lie where `parseIndexBytes` looks for them. `Save` makes one write
of the code at a time; `SaveStops` leaves any prefix of a write. `Load` refuses,
panics, or gives slices that may reach behind the end of the file, as the code
does; what is there is `NoValue`.

`ClusterScan` has the arithmetic that `IVFSearch` leaves out: a lane of VPMULLD
keeps the low 32 bits of a product (`Low`), blocks go four at a time and then
singly, the last one is cut at the end of the cluster, and the scalar kernel
stops a distance early. Every cluster is settled once, in any order.

### HttpConn

Bytes are counted in units and a unit carries where it comes from, the
connection and its position, so that mixing up buffers, leaving a gap or
reading stale bytes is visible. A client's stream is a sequence of requests
with the size of head and body. `ReadHead`, `GrowForHead` and `HeadTooLong` are
the loop at server.go:91-111 and the test at 114; `ReadBody` and `GrowForBody`
the loop at 118-131; `Handle`, `Write` and `WriteFails` the rest of the body of
`handleConn`; `Return` what is deferred. A buffer from the pool keeps its size
and its old contents, as in the code, and `sync.Pool` may forget to reuse one.
`Depth` says for each client how many requests it sends before it waits for an
answer: 1 for one that does not pipeline.

### RequestHead and Scoring

A head is a sequence of symbols; the fifteen bytes of `content-length:`, which
the code compares without regard to case, are one symbol with several
spellings. `findContentLength` takes the first one anywhere in the head, passes
over the byte behind it, whatever it is, and sums an int that wraps.
`ReadRequest` is what `handleConn` makes of path and length. The steps of
`Scoring` are those of one request, in order.

### JsonParser

The body is a sequence of tokens, since every function of the scanner begins by
skipping white space. The functions for the six kinds of object have the same
loop; the table `Known` holds their switches. `stack` is the stack of calls, with
the place where each one is. The payload is built as the code does it, field by
field, also on the way to an error. What is no number for `readFloat` or
`readInt` is an error here at once, where the code may take its beginning for a
number and fail at the next character.

The parser accepts more than JSON, and `JsonGrammar` names it: a comma behind
the last member of an object, a plus sign or leading zeros of a number, anything
behind the end of the payload.

### Vectorizer and Calendar

Coordinates are fractions `[n, d]`; `d = 0` is what a division by an average of
zero gives. Left out are the rounding of float32 and the sign of zeros. A
timestamp is the record of the six numbers its bytes decode to, which need not
be a date. `Quo` and `Rem` are the division of Go, which truncates.

### FdPass

`ctl[p]` is the control connection of peer `p` and the place of its `recvLoop`;
`fds[p]` the rest of the slice it is going through. All the failures of the
system calls are actions without fairness. A message may bring no descriptors,
or more than `oob` has room for; the kernel drops the excess. A panic ends
everything.

### Process

| Specification | Code |
|---|---|
| `settings` | the image (index, `mcc_risk.json`, `normalization.json`) and the environment, in which `net.Listen` finds its `address` good (a volume that can be written, a port that is free) or not; they never change |
| `main` | the call that `main` is at, one action for each: `Load` ... `ListenControl` |
| `held` | what these calls have left in memory |
| `file` | the socket file: which start of the process it is of, 0 for none |
| `loop`, `control` | the goroutines of `acceptLoop` and of `fdpass` run |
| `conn` | where a connection is: waiting in the backlog, served, refused, closed |
| `boots`, `healthy`, `proxy` | what Docker keeps |

`Kill` is possible at any moment, a socket file outlives its process, and the
health check `test -S` sees no difference. When the goroutines of `acceptLoop`,
the control socket and all connections have ended, `select {}` is all that is
left and the Go runtime ends the process (`AllAsleep`). Descriptors run out at
`MaxOpen`.

## 3. Runs

| Run | Question | Bounds | Result |
|---|---|---|---|
| `search` (`IVFSearch.cfg`) | Does one search, over every small index and kind of query, implement `KNearest`, lose nothing, count nothing twice, answer exactly, and return? | K = 3, denial from 2, probes 2/3/4; four clusters of two rows with three kinds of geometry each, ties included, six clusters of which the widest pass takes four, and indexes with fewer rows than neighbours; six queries, one for each combination of rules the code tells apart | holds |
| `search_rescan` (`IVFSearchRescan.cfg`) | Are the neighbours distinct rows on every path? | as `search` | **violated** |
| `centroids` (`TopCentroids.cfg`) | Is the result of `topCentroids` the nearest clusters in stable order? Does the early end of `bboxDist` change a decision? | four clusters, three dimensions, every choice of nondecreasing sums from 0 to 3 for each of the four | holds |
| `centroids_scalar` (`TopCentroidsScalar.cfg`) | Without AVX2, is no cluster left out that is nearer than one kept? | as above | **violated** |
| `build` (`ClusterScan.cfg`) | From vectors to neighbours: is every vector in one nonempty cluster of about the same size, is what is loaded what was saved and an index that a search may assume, and do both scans find the nearest? | two dimensions, at most four clusters, blocks of two lanes, K = 2; every choice of up to three vectors of three values per dimension, patterns of 4 to 13, and of 32 to 38 vectors, whose clusters have more than four blocks; a stop after any byte for the inputs in `Disturbed`; three queries | holds |
| `http` (`HttpConn.cfg`) | Are buffers exclusive and bounded, answers in order, for every way to cut up the streams? Is a client that waits answered, does every connection end? | two connections, one of which pipelines, two buffers of 2 units that may grow to 4; streams with a largest request, one too large and a head too long | holds |
| `http_pipelined` (`HttpConnPipelined.cfg`) | Is every request of a pipelining client answered? | one connection | **violated** |
| `fdpass` (`FdPass.cfg`) | Is a descriptor in one place, each peer served in order, and every descriptor received settled? | two peers, two messages with none to three descriptors, room for two, channel of two | holds |
| `fdpass_panic` (`FdPassPanic.cfg`) | Is every send on an open channel? | one peer | **violated** |
| `fdpass_hangup` (`FdPassHangUp.cfg`) | Does `recvLoop` end with its peer? | one peer | **violated** |
| `process` (`Process.cfg`) | Are connections taken only by a process that is ready, is one refused only for a cause, does a process with a good image get to serve, and does nobody wait behind another client? | two processes, each started up to twice (`MaxBoots`), every image; three connections to one of them, of which two fit (`MaxOpen`) | holds |
| `json` (`Scoring.cfg`) | Are path and length those of the head, is a body parsed exactly when it begins with a payload of the grammar, and a document when it has the known types, is the payload what the document says, do its times follow the calendar, is the query in range, and is every request answered? | heads of up to three fields, lengths about `MaxBody` and about the width of an int, and heads that are no HTTP; documents of up to three members out of eleven typical ones, of each single member with eleven values of right and wrong types, amounts and counts of every spelling of up to four characters, and of numbers and exponents about the width of an int; each text of one member with any token lost, put in, replaced, or cut off; every pair of 24 timestamps; integers of 12 bits | holds |

Why these bounds are enough to be of use. *Search*: each pass can find the
count on either side of the limits of ambiguity and of denial, boxes can be
nearer than, equal to or beyond the bound, the order of clusters agrees or
disagrees with that of boxes, a repair can come before a wider pass, and the
widest pass takes all clusters or leaves some out, as 128 of 8192 do; the proofs
have no bounds at all, and cover the code's five neighbours. *Build*: counts
that are and are not multiples of the clusters, fewer vectors than clusters,
blocks that are full and not, odd and even numbers of labels; four clusters are
two levels of halving, and a third level is one more step of the same kind.
`MaxProduct` is such that every product of the inputs fits, as
`ProductAssumption` says; with `quantScale` 10000 the largest one is 4 * 10^8,
and fits 31 bits. *Connections*: two units and four keep the ratio of 4096 and
8192 (one doubling), and a stream of five units meets every boundary; a third
connection adds no new kind of sharing. *Descriptors*: the channel of two is
full with one more waiting. *Process*: a second start is what a leftover file
needs, and the third connection finds the table full; connections of different
processes never meet, so that the second process is there for the proxy to wait
for. *Requests*: three members are enough for a key to be repeated with another
one in between; damage to one token reaches every early return; the timestamps
lie about ends of months, leap days and centuries, and the property cuts
differences at two days, which is more than `max_minutes`; an exponent beyond
`ExponentBound` is far outside what `clamp` lets through; the search returns a
count of `Counts`, since all that `h` does with it is to index the responses.

`CHECK_DEADLOCK FALSE` is set for the runs of `HttpConn`, `FdPass` and
`Process`: when all the connections of the bounded instance have ended, or all
processes have been killed and may not be started again, there is nothing more
to do. The type invariants of `IVFSearch`, `HttpConn` and `Process` are theorems,
and no run repeats them.

### Fairness

* `IVFSearch`, `Scoring`: `WF(Next)`. Both are sequential functions; nothing
  blocks them.
* `HttpConn`: `WF` of `Accept` and of `handleConn` for each connection. Each is
  a goroutine of its own, and the scheduler of Go runs every runnable one in the
  end, also with `GOMAXPROCS(1)`. A `Read` with data pending returns. Clients
  have no fairness.
* `FdPass`: the same for `Accept`, each `recvLoop` and `ServeFDChannel`. No
  failure is ever obliged to occur.
* `Process`: `WF` of `main` and of `acceptLoop` in each process. Nobody need be
  killed, started or checked, and no client need connect or leave.

### What the violated runs show

1. *Search.* `repairIVF` does not mark what it scans (repair.go:11-18), so the
   pass that a rule adds afterwards (index.go:75, 83) scans those clusters again
   and one row may fill two of the five slots. The properties of the other runs
   except this case by name (`Rescanned`, `Lapsed`), and hold up to it.
2. *Centroids without AVX2.* `quantizedDistance` returns a sum that is below its
   cutoff (quantize.go:28-30), which `topCentroids` takes for a distance: in the
   trace a cluster at distance 2 takes the place of one at distance 1.
3. *Pipelining.* What was read behind a request is kept (server.go:138-139) but
   only looked at after the next `Read` (server.go:100-103).
4. *Closing the channel.* After an error of `Accept4` the next descriptor
   received makes `recvLoop` panic (recv_linux.go:35, 79).
5. *End of a control connection.* `recvLoop` takes it for a message without
   descriptors and calls `Recvmsg` again, for ever (recv_linux.go:62).

### What the properties except

Some properties hold only with exceptions, which they name; a reader who relies
on the property should know them.

* `ScalarKeepsDistances`: without AVX2 a farther row may come out at the distance
  of the last neighbour and take its place on the tie (scan.go:174). The
  distances kept are right, the label of the last one need not be.
* `LoadedIsSaved`: a file that was cut short may be loaded, with its last arrays
  incomplete; only the headers are checked (format.go).
* `HeadsAreRead`: a length without a blank behind its colon loses its first
  digit, a content-length that is part of another name, of a value or of the
  path is taken for the length, and one that an int does not hold wraps
  (server.go:167-183).
* `BodiesAnswered`: a month outside 1 to 12 with an hour below 24, a length that
  wraps to a negative one, and a head without a blank in a full buffer, end the
  process with a panic. An answer may also be practically for ever in coming:
  `pow10` multiplies as often as the exponent says (json.go:711-720), and the
  model takes its loop as one step.
* `CentroidNearMean`: where the sum is negative a centroid may lie above the
  mean by more than half a unit, by less than one and a half (build.go:77).
* `LoadedWellFormed`: `MaskAssumption`, that there are no more clusters than
  `probeMask` has bits, holds of what Build makes; Load does not check it of a
  file (format.go).
* `StartedServe`: not with an image that is missing something or malformed, a
  volume that cannot be written, or a port that is taken; main ends then.
* `RefusedForCause`: after a restart the health check takes the file of the
  predecessor for a listener.
* `WaitingAreTaken`: once `acceptLoop` has ended, clients wait for as long as
  another connection or the control socket keeps the process alive
  (server.go:66-70).

## 4. Proofs

The theorems hold for every value of the constants that satisfies the named
assumptions; those say what the types of the code and the builder guarantee
(`KAssumption`, `SentinelAssumption`, `DenyAtAssumption`, `ProbeAssumption`,
`RepairAssumption`, `InstanceAssumption`, `QueryAssumption`).

**Search: nothing is lost.** `SearchInv` is inductive. `NothingMissed` alone is
not: that a row which falls out of the five best is no loss needs them to be
sorted (`BestSorted`), a skip by the stale cutoff needs `CutoffIsSafe`, and that
the loops settle the clusters they pass needs `PassShape`. From it follow
`RepairIsComplete` (after a repair the statement is about the whole index),
`WorstImproves`, `CutoffSafe`, and with the history of the passes
`LateDenialsDenied` and `DoubtfulAnswersSearched`. `FirstPassSuffices` has a
hypothesis of its own, `EnoughAtFirst`, that the NProbe nearest clusters hold K
rows or are all there is, as in the indexes of the run and of the builder: none
of these rows is missed, and K of them need K slots (`FirstPassEnds`).

**Search: nothing is counted twice.** `ScannedOnce` says where the neighbours
come from: each is a row of a settled cluster that the running scan will not
reach any more. With `SearchInv` it is inductive, as long as no pass follows a
repair; `NoRowTwice` is its visible part.

**Search: the answer is exact.** `AnswersExact` combines the two: rows not kept
are no closer than the last neighbour, rows kept are distinct, so the fraud
labels counted are those of the rows that fewer than K others precede. It rests
on lemmas about `Offer` and on counting (`SearchLemmas`, `IVFSearchProofs`).

**Search: it implements `KNearest`.** `SearchImplements` is the refinement that
the run checks: initial states map to initial states (`InitPromises`), and each
step to `Look`, `Answer`, `Lapse` or a stutter (`NextPromises`). At its heart is
`KeptAreNearest`: rows seen and not kept are no closer than the last neighbour
(`SeenCovers`, from `NothingMissed`), and rows kept are distinct and have been
seen (`ScannedOnce`), so that the entries kept are those that fewer than K others
precede (`NearestAreKept`). That rows once seen stay seen (`SeenGrows`) needs
that a scan is only ever begun of a cluster not settled before (`ScansAreNew`),
which is where the refinement ends with a pass after a repair.

**Choice of the clusters.** `TopSoFar` of `TopCentroids` says of every moment of
the loop that the list is the nearest clusters among those looked at.
`NearestAreKept` proves it under `Exact`: AVX2 with blocks that are full, or as
many probes as clusters. The builder makes a power of two of clusters, so that
all blocks are full as soon as there are eight clusters, and with fewer all are
probed. Without `Exact` the property is false, and the run `centroids_scalar`
violates even the weaker `NoneNearerLeftOut`: `quantizedDistance` stops its sum
before the cutoff and returns one that is too small. `BoxTestsExact` is the other use of sums that stop early: the tests on
a box decide as they would with the whole distance.

**Server.** `IInv` of `HttpConnProofs` is inductive, for any number of
connections and buffers and any streams (`SizeAssumption`, `NoneAssumption`,
`StreamAssumption`, `DepthAssumption`). The properties alone are not:

* `BuffersBounded` needs `TwoSizes`, that a buffer has one of two sizes, and
  `LengthOK`, that a length which was accepted fits the larger one. Together
  they say that the body loop doubles only a small buffer.
* `AnswersInOrder` needs `BufferOK`, that the buffer begins with the next
  request, and that one needs `BuffersExclusive`, for the steps of others.
* that the head found is the one of the next request (`HeadFound`), and that
  the handler is given this request and no other (`GivenNext`), rest on streams
  in which a request begins where the one before ends (`RequestsFollow`).
* `ClosedForCause` is kept together with `CauseInv`. The test on a full buffer
  (`HeadTooLong`) refuses a request nobody has read to its end, so that the
  request exists (`SentOK`: no more is received than was sent) and that its head
  goes on beyond the buffer (`FullOK`: the loop looked for its end after the Read
  that filled the buffer) must be known before. What `Write` leaves behind may
  hold a whole head that nobody has looked for, but it never fills the buffer.

Every step of `handleConn` concerns one connection and one buffer; `LocalStep`
and `InPlaceStep` say once why the others keep what is said of them.

**Process.** `Inv` of `ProcessProofs` is inductive, for any number of processes,
connections and restarts (`ProcessAssumption`, `TargetAssumption`). `Memory` says
what is held at each place of `main`, `LoopsUp` and `ConnsUp` that goroutines and
connections exist only at the last two places; from them follows `TakenReady`.
For `RefusalsHaveCause` one needs `FirstFile`: until a process is started again
its socket file is its own, and health check and proxy have seen nothing else.

**Descriptor passing.** `FdPassOnePlace` and `FdPassServedInOrder` hold for any
number of peers, any plans of theirs, and any room and capacity. Neither property
is inductive: both speak of descriptors that `recvLoop` still holds, and say
nothing of which those are. `IInv` adds that they are the last of the message
taken last (`Holding`), so that exactly those before them are in the channel, with
`handleConn` or closed (`Passed`), and that the channel and what was served are in
line (`InLine`).

**Build.** `BuildInv` is inductive. `Partitioned` alone is not: that every call
keeps as many vectors as clusters needs that its clusters are a power of two, so
that they can be halved down to one, and `BalancedSizes` needs a bound that holds
on the way: each call has between `share` and `share + 1` vectors for each of its
clusters, `share` being the number of all vectors by that of all clusters, rounded
down. For `CentroidNearMean`, `IndexInv` adds that `ids` stays a permutation
(`IdsOK`: sorting a window enumerates it) and how each cluster is laid out
(`LaidOut`); what remains is how a division truncates: adding half of the count
first rounds to the nearest, but for a negative sum the division goes up once more,
so that the bound above is one and a half units there.

**File.** `IndexLoadedIsSaved` is the theorem on the two programs that share the
file. `FileInv` says that every write lies at its place (`Laid`), as far as the
file goes; the place is the sum of the lengths before it, for any dimension and
any number of clusters and vectors. On the other side the offsets of
`parseIndexBytes` are the same sums (`OffsetsAre`, where the padding of the
labels matters), and values of 1, 2, 4 and 8 bytes are read where their bytes lie
(`ReadIs`). A file that was cut has none of its last block's values
(`NoValueAssumption`: what lies behind the end of the file is no number), and if
it was cut before the blocks, its `Offset(9)` lies at the end or behind it.

**Served index.** `ServedIndexWellFormed` closes the gap between the two halves of
the project: what `IVFSearch` assumes of an index (`InstanceAssumption`), and so
every theorem on the search, is what `Build`, `Save` and `Load` make. `Ready` collects
what the build and file invariants say of the index in memory, and `ServedIndex`
says where each vector lies in the loaded blocks. From there `RowDistanceIs` (lanes
add up the distance of the vector at the row), `BoxDistanceIs` (no row is
nearer than its box), `CentroidDistanceIs` (so that `near` is in order of the
centroids' distances) and `RowsInjective` (no row is in two clusters) lead to
`SeenWellFormed`. `ProductAssumption` and `RoomAssumption` say that no product leaves 32
bits and no sum 64: `quantizeVector` clamps coordinates to 10000 on either side of 0,
a difference is at most 20001 with the one that rounding may add to a centroid, and
its square is less than 2^31. `MaskAssumption` says that `probeMask` has a bit for every
cluster: Build makes at most 8192 of them, and the mask has 8192 bits.

**Scans.** `ScansKeepNearest` and `ScansKeepDistances` go from the vectors given to
`Build` to the neighbours. `ScanInv` says what the best five are once the rows of
the settled clusters have been offered: with AVX2 (`Keeps`) every such row is kept
or no closer than the last neighbour, and a sorted list of distinct rows with that
property is the list of the nearest (`KeepsNearest`). The loops of a kernel are
rounds, each of which needs what those before it have made true (`RoundsExist`,
`RoundsKeep`): lanes of a block (`LanesScanned`), groups of four blocks, then the
blocks left over (`AVX2Scanned`), where the last block need not be full
(`ClusterRows`). A cluster skipped for its box is farther in every row than the last
neighbour (`SkippedFar`).

Without AVX2 `Keeps` is false, since a row whose distance stopped may take the place
of one as far as the last. `KeepsDistances` says instead that entries nearer
than the last are exact, and that as many of the rows as there are positions
are no farther than the last neighbour, which together settle all distances
(`DistancesNearest`). That the sum of `blockLaneDist`, taken in the order of
`dimOrder`, is the distance at all is `SumOverPermuted`; it needs that `dimOrder`
lists every dimension (`OrderAssumption`: there are no more than its 14).

**Calendar.** `toUnixDays` and `parseHourWeekday` are arithmetic on years that
begin in March. `DaysAreConsecutive` says for every date that the day after it
has the next number, over ends of months and years, leap days and centuries;
with `WeekdayFollowsDays`, the two counts, which the code computes by different
formulas, agree. `MinutesNearElapsed` bounds what the code loses by dropping
seconds. The proofs go month by month, and by the remainders of the year.

**From a request to its query.** The theorems of `ScoringProofs` hold for any
set of inputs, whose bodies are sequences of tokens (`InputsAssumption`) and whose
heads, where they were written by a client, are what `HeadOf` makes of target and
fields (`HeadsAssumption`); for any width of int (`MaxIntAssumption`), positive
normalization, risks that are not negative, and timestamps whose numbers are
sums of bytes (`NormAssumption`, `RiskAssumption`, `TimesAssumption`).

* `ScoresTyped` is the inductive invariant `ScoreInv`. That a decimal has a
  positive denominator and a count is an int goes through every production of
  the parser, and through lists and records that a repeated key overwrites. It
  also says that the query is the one of the payload, which no longer changes.
* `VectorsHaveForm` follows from it: `clamp` is applied to all that may leave
  the range, fractions over 0 (an average of 0) included; and coordinates 5 and 6
  are below 0 for a missing last transaction, and for no other reason.
* `TimesFollowCalendar` compares the query with days that are counted year by year
  and month by month. It joins the theorems on the calendar with the counts
  (`DaysCounted`), shows that differences may be cut at `FarDays` because `clamp`
  does not tell them apart, and that `Quantized` keeps the order.
* `HeadsReadRight`: a head is the concatenation of its lines, so that each line
  begins where those before it end (`Lines`, `HeadBegins`). The first words are
  then the path (`PathRead`); the loop of `findContentLength` finds no name of a
  length before the first field that has one, and reads its digits up to the end
  of the line, without wrapping (`LengthRead`).
* `ParserAdvances` is the safety half of `BodiesAnswered`: each step of the parser
  reads a token that is there, or ends with an error, so that a body of n tokens
  takes at most n + 1 steps.
* `IntegersWrapOnce`: wrapping at each digit, as the code does, is wrapping once.
* `NumbersAreSpelled`: the scanning of a number, loop by loop, ends at its last
  character exactly when some `Spellings` of the grammar has its signs, point,
  exponent and digits there, and no part is empty.
* `ParsedIsTyped` says which bodies are parsed, for all of them. The
  grammar is not written as recursion over documents but as a table, filled from
  the front of the body: which stretches of tokens are values of a type, or
  lists up to the end of one of their elements. This is a recursive function, so
  that it can be reasoned about, and its rules hold in both directions:
  `ValueRule`, `ListRule` build derivations, `ValueDown`, `ListDown` take them apart.
  `GrammarInv` is what the parser has read: for each call on the stack, the tokens
  since it began are a list of its type, or where one begins (`Shape`, `Beneath`,
  `Linked`). Hence what is closed is derived, and what is parsed is a payload.
  For the converse, `CompletenessInv` says of a body that begins with a payload what
  it still has: for each call, an end to which the elements or members go on
  (`Rest`, `Behind`). A derivation of a value tells which token comes next, which
  is one the parser takes (`PayloadExpected`), and the rest of it remains for the
  calls (`CompletenessStep`). That at each place there is only one production to
  take, the reason why the parser never goes back, shows in the proof as what
  is excluded: a bracket, comma or string is no other beginning.

Only model-checked: liveness (`SearchReturns`, `PatientClientsAnswered`,
`ConnectionsEnd`, `WaitingAreTaken`, `StartedServe`, `ReceivedAreSettled`,
`BodiesAnswered`), which is out of the prover's reach; and `TypedIsParsed` and
`PayloadIsDocument`, which compare the parser with documents: these are written as
text, and read as a payload, by recursive operators, with which no theorem can be
stated, and facts on them are proved by induction over data. What
`TypedIsParsed` says of the parser, `ParsedIsTyped` proves of the grammar; that the
text of every typed document is in the grammar is left to the run.

## 5. Not modelled

* **`kmeans.go`, `loader.Preprocess`, `loader.Load`, `quantized8DistancesRowMajorAVX2`.**
  No program calls them; tests do, or nothing does.
* **`service.Score` and the net/http handler** (`internal/handler/fraud.go`). They
  make the calls that `Scoring` models, and only tests use them.
* **`loader.ReadAll`**: it decodes a JSON file into vectors, with the decoder of
  the standard library, and keeps no state.
* **`madvise`**, warm-up beyond its place in `main`, logging, and the texts of
  the ready-made answers: nothing the properties tell apart.
* **Float rounding.** Numbers of a body, coordinates and variances are exact
  here. That an exponent wraps like an int (json.go:686), and that `pow10` makes
  1 of the least int, is modelled; what has no property is that a product
  becomes infinite or loses digits, how long the loop of `pow10` takes
  (json.go:712), and ties that rounding makes.
* **Bytes of strings.** Escapes stay as they stand (json.go:441), which the
  abstraction to whole strings does not show.
* **Memory.** What a request allocates is not counted, although the collector is
  switched off (main.go:39); the end that follows from it is `Kill`.
* **The assembly** is modelled by what a lane computes, instruction by
  instruction only where it multiplies.
* **Outside**: a full backlog, a health check that Docker gives up, routing among
  the backends, timeouts of the proxies, which show in the server as clients
  that close.

What could be added next: `Preprocess` if the programs come to use it, and a
composition of `FdPass` with `HttpConn`, whose connections come from both accept
loops and are treated alike.
