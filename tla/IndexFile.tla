----------------------------- MODULE IndexFile ------------------------------
(***************************************************************************)
(* The index file of internal/ivf/format.go, between the two programs that *)
(* share it: the indexer runs Build and Save, the server runs Load.        *)
(*                                                                         *)
(* The file is a sequence of bytes; byte k of the value v is <<v, k>>, so  *)
(* that a value is read back exactly when its bytes lie where they are     *)
(* looked for.  A write may stop after any byte: the indexer is killed, or *)
(* the disk is full and Save returns.  What has been written stays.        *)
(*                                                                         *)
(* Load maps the file, or reads it when it cannot be mapped; slices are    *)
(* cast from its bytes and may reach beyond them, which nothing notices    *)
(* until they are used.  NoValue is what is there.                         *)
(***************************************************************************)
EXTENDS IVFBuild

CONSTANTS
  NoValue, NoIndex,
  Disturbed   \* bound: the inputs during whose Save the indexer may stop

ASSUME NoValueAssumption == NoValue \notin Int

VARIABLES
  section,   \* the writes Save has made
  file,      \* the bytes in the file
  saver,     \* "idle", "saving", "saved" or "stopped"
  loader,    \* "idle", "loaded", "refused" or "panicked"
  idx        \* the index of the server

fileVars == <<section, file, saver, loader, idx>>

indexMagic   == 2026
indexVersion == 1
quantScale   == 10000
headerSize    == 24
ivfHeaderSize == 16

(***************************************************************************)
(* The index in memory: what Build returns, and Load.  The arrays begin    *)
(* with 0, those of vectors hold one after the other.                      *)
(***************************************************************************)
Flat(v) == [i \in 0 .. (clusters * Dim - 1) |-> v[i \div Dim][i % Dim]]

Index ==
  [clusters |-> clusters, nprobe |-> 8, ambiguousNprobe |-> 24, repair |-> TRUE,
   centroids      |-> Flat([c \in DOMAIN stats |-> stats[c].centroid]),
   centroidBlocks |-> centroidBlocks,
   listOffsets    |-> listOffsets,
   blockOffsets   |-> blockOffsets,
   bboxMin        |-> Flat([c \in DOMAIN stats |-> stats[c].bboxMin]),
   bboxMax        |-> Flat([c \in DOMAIN stats |-> stats[c].bboxMax]),
   origIDs        |-> rows,
   labels         |-> [row \in Ids(input) |-> IF input.labels[rows[row]] THEN 1 ELSE 0],
   blocks         |-> blocks]

(***************************************************************************)
(* Bytes of an array of values of w bytes each, and of several values.     *)
(***************************************************************************)
Bytes(w, a) ==
  [i \in 1 .. (w * Cardinality(DOMAIN a)) |-> <<a[(i - 1) \div w], (i - 1) % w>>]

Words(values) == Bytes(4, [i \in 0 .. (Len(values) - 1) |-> values[i + 1]])

Count(x) == Cardinality(DOMAIN x.labels)

(***************************************************************************)
(* Save: its writes, in their order.                                       *)
(***************************************************************************)
Writes(x) ==
  <<Bytes(8, [i \in {0} |-> indexMagic]) \o Words(<<indexVersion, Dim, quantScale, Count(x)>>),
    Words(<<x.clusters, x.nprobe, x.ambiguousNprobe, IF x.repair THEN 1 ELSE 0>>),
    Bytes(2, x.centroids),
    Bytes(2, x.centroidBlocks),
    Bytes(4, x.listOffsets),
    Bytes(4, x.blockOffsets),
    Bytes(2, x.bboxMin),
    Bytes(2, x.bboxMax),
    Bytes(4, x.origIDs),
    Bytes(1, x.labels),
    IF Count(x) % 2 # 0 THEN <<<<0, 0>>>> ELSE <<>>,
    Bytes(2, x.blocks)>>

Sections == 12

FileInit ==
  /\ section = 0 /\ file = <<>> /\ saver = "idle"
  /\ loader = "idle" /\ idx = NoIndex

Create ==
  /\ stage = "done" /\ saver = "idle"
  /\ saver' = "saving"
  /\ UNCHANGED <<vars, section, file, loader, idx>>

Save ==
  /\ saver = "saving"
  /\ file' = file \o Writes(Index)[section + 1]
  /\ section' = section + 1
  /\ saver' = IF section + 1 = Sections THEN "saved" ELSE "saving"
  /\ UNCHANGED <<vars, loader, idx>>

SaveStops ==
  /\ saver = "saving" /\ input \in Disturbed
  /\ LET write == Writes(Index)[section + 1]
     IN  \E n \in 0 .. (Len(write) - 1) : file' = file \o SubSeq(write, 1, n)
  /\ saver' = "stopped"
  /\ UNCHANGED <<vars, section, loader, idx>>

-----------------------------------------------------------------------------
(***************************************************************************)
(* parseIndexBytes: the value of w bytes at offset off, and an array of n. *)
(***************************************************************************)
ValueAt(w, off) ==
  IF off + w > Len(file) THEN NoValue
  ELSE LET v == file[off + 1][1]
       IN  IF \A k \in 0 .. (w - 1) : file[off + 1 + k] = <<v, k>> THEN v ELSE NoValue

ArrayAt(w, off, n) == [i \in 0 .. (n - 1) |-> ValueAt(w, off + i * w)]

Scale      == ValueAt(4, 16)
Dimension  == ValueAt(4, 12)
Count32    == ValueAt(4, 20)
Clusters32 == ValueAt(4, headerSize)

(***************************************************************************)
(* The bytes of each array, and where it begins; the padding belongs to    *)
(* the labels.                                                             *)
(***************************************************************************)
\* Wrong: forgets the padding.
SizesUnpadded(k, n) ==
  <<2 * k * Dim, 2 * blocksForRows(k) * blockStride, 4 * (k + 1), 4 * (k + 1),
    2 * k * Dim, 2 * k * Dim, 4 * n, n>>

Sizes(k, n) ==
  <<2 * k * Dim, 2 * blocksForRows(k) * blockStride, 4 * (k + 1), 4 * (k + 1),
    2 * k * Dim, 2 * k * Dim, 4 * n, n + (n % 2)>>

Offset(array) ==
  LET size == Sizes(Clusters32, Count32)
      from[i \in 1 .. 9] ==
        IF i = 1 THEN headerSize + ivfHeaderSize ELSE from[i - 1] + size[i - 1]
  IN  from[array]

(***************************************************************************)
(* Load refuses a file that is too small for the headers, or is of another *)
(* kind, dimension or scale; it looks at no version and no length.  It     *)
(* panics when an array begins behind the end, or the labels end there.    *)
(***************************************************************************)
Refused ==
  \/ Len(file) < headerSize + ivfHeaderSize
  \/ ValueAt(8, 0) # indexMagic \/ Dimension # Dim \/ Scale # quantScale

Panics ==
  \/ \E array \in (1 .. 9) \ {8} : Offset(array) >= Len(file)
  \/ Offset(8) + Count32 > Len(file)

parseIndexBytes ==
  LET k == Clusters32
      n == Count32
      blockOffsets32 == ArrayAt(4, Offset(4), k + 1)
  IN  [clusters |-> k, nprobe |-> ValueAt(4, headerSize + 4),
       ambiguousNprobe |-> ValueAt(4, headerSize + 8),
       repair         |-> ValueAt(4, headerSize + 12) = 1,
       centroids      |-> ArrayAt(2, Offset(1), k * Dim),
       centroidBlocks |-> ArrayAt(2, Offset(2), blocksForRows(k) * blockStride),
       listOffsets    |-> ArrayAt(4, Offset(3), k + 1),
       blockOffsets   |-> blockOffsets32,
       bboxMin        |-> ArrayAt(2, Offset(5), k * Dim),
       bboxMax        |-> ArrayAt(2, Offset(6), k * Dim),
       origIDs        |-> ArrayAt(4, Offset(7), n),
       labels         |-> ArrayAt(1, Offset(8), n),
       blocks         |-> ArrayAt(2, Offset(9), blockOffsets32[k] * blockStride)]

Load ==
  /\ saver \in {"saved", "stopped"} /\ loader = "idle"
  /\ \/ Refused /\ loader' = "refused" /\ UNCHANGED idx
     \/ ~ Refused /\ Panics /\ loader' = "panicked" /\ UNCHANGED idx
     \/ ~ Refused /\ ~ Panics /\ loader' = "loaded" /\ idx' = parseIndexBytes
  /\ UNCHANGED <<vars, section, file, saver>>

FileNext == Create \/ Save \/ SaveStops \/ Load

-----------------------------------------------------------------------------
(***************************************************************************)
(* What Load returns is what was saved.  A file that was cut short is      *)
(* refused or kills the server at its start, although Load looks at no     *)
(* length: unless it was cut in its last part, the blocks.  Then the       *)
(* server starts, with the blocks that were written and nothing behind     *)
(* them.                                                                   *)
(***************************************************************************)
AllButBlocks == DOMAIN Index \ {"blocks"}

LoadedIsSaved ==
  /\ loader # "idle" /\ saver = "saved" => loader = "loaded"
  /\ loader = "loaded" =>
       /\ \A part \in AllButBlocks : idx[part] = Index[part]
       /\ DOMAIN idx.blocks = DOMAIN blocks
       /\ \A i \in DOMAIN blocks : idx.blocks[i] \in {blocks[i], NoValue}
       /\ (\A i \in DOMAIN blocks : idx.blocks[i] = blocks[i]) <=> saver = "saved"
=============================================================================
