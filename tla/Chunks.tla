------------------------------- MODULE Chunks -------------------------------
(***************************************************************************)
(* Chunked audio data: the chunks Save stores deflated data in (dataChunk, *)
(* sofa_netcdf.go), the cache OpenLazy asks go-hdf5 for (chunkCacheSize,   *)
(* sofa_stream.go), and a Range function that reads one measurement after  *)
(* the other through that cache.                                           *)
(*                                                                         *)
(* A shape or chunk is <<measurements, receivers, values>>, values being   *)
(* the axes after the first two; M is the first axis of every layout.      *)
(* go-hdf5's cache keeps the chunks used last.                             *)
(***************************************************************************)
EXTENDS Integers, SequencesExt

CONSTANTS Shapes,        \* the shapes of the audio variable
          OtherChunks,   \* the chunks of other programs' files
          ElementSizes,  \* the bytes of one value there
          FloatSize,     \* the bytes of a value Save writes (8)
          MaxChunkBytes, \* maxDataChunkBytes
          MaxChunks,     \* maxDataChunks
          MaxCacheBytes, \* maxChunkCacheBytes
          DefaultChunks, \* go-hdf5's cache, unless told otherwise
          DefaultBytes,
          MaxUint        \* math.MaxUint64

Positive == Nat \ {0}

ASSUME FilesGiven ==
  /\ Shapes \subseteq Positive \X Positive \X Positive
  /\ OtherChunks \subseteq Nat \X Nat \X Nat
  /\ ElementSizes \subseteq Positive
ASSUME LimitsGiven ==
  /\ FloatSize \in Positive /\ MaxChunkBytes \in Positive /\ MaxChunks \in Positive
  /\ MaxCacheBytes \in Positive /\ DefaultChunks \in Positive
  /\ DefaultBytes \in Positive
  /\ MaxUint \in Nat /\ MaxCacheBytes < MaxUint

VARIABLES file,   \* its shape, chunk, size of a value, and if Save wrote it
          m, k,   \* the measurement to be read, and the chunk of those it spans
          cache,  \* the chunks in the cache, the one used last first
          loaded, \* ghost: the chunks that were decompressed
          again   \* ghost: those that were decompressed more than once

vars == <<file, m, k, cache, loaded, again>>

Larger(a, b) == IF a < b THEN b ELSE a
Smaller(a, b) == IF a < b THEN a ELSE b
CeilDiv(a, b) == (a + b - 1) \div b

-----------------------------------------------------------------------------
(* dataChunk.                                                              *)

\* As many measurements of one receiver as a chunk may hold, at least one.
MeasurementsFitting(s) ==
  Larger(1, Smaller(s[1], MaxChunkBytes \div (FloatSize * s[3])))

\* A bug: the last receivers get no chunk.
BugReceivers(r, perBlock) == r \div perBlock
\* A bug: the last receivers get a chunk that is almost empty.
MoreReceivers(r, perBlock) == r \div perBlock + 1
\* How many receivers share a chunk when perBlock chunks hold all r of them.
Receivers(r, perBlock) == CeilDiv(r, perBlock)

\* A bug: blocks of measurements that are not full do not count.
BugBlocks(n, perChunk) == Larger(1, n \div perChunk)
\* The blocks of perChunk measurements.
Blocks(n, perChunk) == CeilDiv(n, perChunk)

DataChunk(s) ==
  LET mc == MeasurementsFitting(s)
      blocks == Blocks(s[1], mc)
  IN  IF blocks <= MaxChunks
      THEN <<mc, Receivers(s[2], MaxChunks \div blocks), s[3]>>
      ELSE <<CeilDiv(s[1], MaxChunks), s[2], s[3]>>

-----------------------------------------------------------------------------
(* chunkCacheSize.                                                         *)

\* A bug: the product wraps around.
BugSaturatingMul(a, b) == (a * b) % (MaxUint + 1)
SaturatingMul(a, b) == Smaller(a * b, MaxUint)

\* A bug: a chunk at the edge is forgotten.
BugSpanned(size, c) == Larger(1, size \div c)
\* The chunks an axis is divided into.
Spanned(size, c) == size \div c + Smaller(size % c, 1)

WellFormed(chunk) == \A i \in 1..3 : chunk[i] # 0

\* The number of chunks and of bytes the cache may hold.
ChunkCacheSize(s, chunk, elem) ==
  LET perRead == Smaller(SaturatingMul(Spanned(s[2], chunk[2]), Spanned(s[3], chunk[3])),
                         MaxCacheBytes)
      bytes == SaturatingMul(SaturatingMul(SaturatingMul(elem, chunk[1]), chunk[2]), chunk[3])
      total == Smaller(SaturatingMul(perRead, bytes), MaxCacheBytes)
  IN  IF chunk[1] = 1 \/ ~WellFormed(chunk)
      THEN [chunks |-> DefaultChunks, bytes |-> DefaultBytes]
      ELSE [chunks |-> Larger(DefaultChunks, perRead),
            bytes |-> Larger(DefaultBytes, total)]

-----------------------------------------------------------------------------
(* Reading one measurement after the other.                                *)

OwnFiles ==
  {[shape |-> s, chunk |-> DataChunk(s), elem |-> FloatSize, own |-> TRUE] : s \in Shapes}
OtherFiles ==
  {[shape |-> s, chunk |-> c, elem |-> e, own |-> FALSE] :
     s \in Shapes, c \in OtherChunks, e \in ElementSizes}

Init ==
  /\ file \in OwnFiles \cup OtherFiles
  /\ m = 0 /\ k = 0
  /\ cache = <<>>
  /\ loaded = {} /\ again = {}

\* The chunks of one measurement, and the bytes of one chunk, without bounds.
Span == CeilDiv(file.shape[2], file.chunk[2]) * CeilDiv(file.shape[3], file.chunk[3])
Bytes == file.elem * file.chunk[1] * file.chunk[2] * file.chunk[3]

\* What stays in the cache of entries, the one used last first.
Kept(entries) ==
  LET limits == ChunkCacheSize(file.shape, file.chunk, file.elem)
      n == Smaller(limits.chunks, limits.bytes \div Bytes)
  IN  SubSeq(entries, 1, Smaller(n, Len(entries)))

\* ReadSlice visits the chunks of a measurement in order.
ReadChunk ==
  /\ WellFormed(file.chunk) /\ m < file.shape[1]
  /\ LET c == <<m \div file.chunk[1], k>>
     IN  \/ \E i \in DOMAIN cache :
              /\ cache[i] = c
              /\ cache' = Kept(<<c>> \o RemoveAt(cache, i))
              /\ UNCHANGED <<loaded, again>>
         \/ /\ c \notin Range(cache)
            /\ cache' = Kept(<<c>> \o cache)
            /\ loaded' = loaded \cup {c}
            /\ again' = IF c \in loaded THEN again \cup {c} ELSE again
  /\ IF k + 1 < Span THEN k' = k + 1 /\ UNCHANGED m
                     ELSE k' = 0 /\ m' = m + 1
  /\ UNCHANGED file

Next == ReadChunk

Spec == Init /\ [][Next]_vars

-----------------------------------------------------------------------------
(* Properties.                                                             *)

TypeOK ==
  /\ file.shape \in Positive \X Positive \X Positive
  /\ file.own => file.chunk \in Positive \X Positive \X Positive
  /\ m \in 0..file.shape[1] /\ k \in Nat
  /\ again \subseteq loaded

\* "There are never more than 64 chunks" (sofa_io.go:214-215), all libmysofa
\* reads.
FewChunks ==
  file.own =>
    CeilDiv(file.shape[1], file.chunk[1]) * CeilDiv(file.shape[2], file.chunk[2]) <= MaxChunks

\* The chunks dataChunk's comment asks for, by search: one receiver across as
\* many measurements as fit; as few more receivers as that is too many chunks
\* without; more measurements only where all receivers in one do not help.
AsDocumented ==
  file.own =>
    LET s == file.shape
        fitting == {1} \cup {n \in 1..s[1] : n * FloatSize * s[3] <= MaxChunkBytes}
        most == CHOOSE n \in fitting : \A o \in fitting : o <= n
        few(mc, rc) == CeilDiv(s[1], mc) * CeilDiv(s[2], rc) <= MaxChunks
    IN  IF few(most, s[2])
        THEN /\ file.chunk[1] = most /\ few(most, file.chunk[2])
             /\ \A rc \in 1..file.chunk[2] - 1 : ~few(most, rc)
        ELSE /\ file.chunk[2] = s[2] /\ few(file.chunk[1], s[2])
             /\ \A mc \in 1..file.chunk[1] - 1 : ~few(mc, s[2])

\* "So sequential reads of a chunked file decompress each chunk once"
\* (sofa_stream.go:88-89), where the chunks of one read fit in the cache.
DecompressedOnce == WellFormed(file.chunk) /\ Span * Bytes <= MaxCacheBytes => again = {}

\* The limits are those of exact arithmetic: no product wraps around, and no
\* chunk shape yields a limit below go-hdf5's or above the bound.
CacheAsExact ==
  WellFormed(file.chunk) /\ file.chunk[1] # 1 =>
    ChunkCacheSize(file.shape, file.chunk, file.elem) =
      [chunks |-> Larger(DefaultChunks, Smaller(Span, MaxCacheBytes)),
       bytes |-> Larger(DefaultBytes, Smaller(Span * Bytes, MaxCacheBytes))]

-----------------------------------------------------------------------------
(* Why each chunk is decompressed once: an inductive invariant.            *)

FileOK ==
  /\ file.shape \in Positive \X Positive \X Positive
  /\ file.elem \in Positive
  /\ file.chunk \in Nat \X Nat \X Nat
  /\ file.own => file.chunk \in Positive \X Positive \X Positive

Block == m \div file.chunk[1]

\* How many chunks of the current block have been read: those before the k-th
\* while its first measurement is read, all of them later.
Visited == IF m % file.chunk[1] = 0 THEN k ELSE Span

\* Nothing of block b is loaded ahead, and its visited chunks are the ones
\* used last, in whatever order, if more than one measurement needs them.
Recent(entries, all, b, visited) ==
  /\ all \subseteq Nat \X Nat /\ entries \in Seq(all)
  /\ \A i, j \in DOMAIN entries : entries[i] = entries[j] => i = j
  /\ \A c \in all : c[1] < b \/ (c[1] = b /\ c[2] < visited)
  /\ file.chunk[1] # 1 =>
       \A n \in 0..visited - 1 : \E i \in DOMAIN entries : i <= visited /\ entries[i] = <<b, n>>

CacheInv ==
  WellFormed(file.chunk) /\ Span * Bytes <= MaxCacheBytes =>
    /\ m \in Nat /\ k \in Nat /\ k < Span
    /\ again = {}
    /\ Recent(cache, loaded, Block, Visited)
=============================================================================
