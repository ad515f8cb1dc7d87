-------------------------------- MODULE Manifest --------------------------------
(***************************************************************************)
(* The arithmetic of a manifest and the bytes of a ChunkBitmap             *)
(* (src/src/manifest.rs).  A file is a function from offsets to bytes; a   *)
(* hash is the content it was taken of, so hashes never collide.  Sums and *)
(* products wrap at the width of their type, as in a release build.        *)
(***************************************************************************)
EXTENDS Integers, FiniteSets

CONSTANTS
  U32, U64,   \* the number of values of a u32 and of a u64
  ByteBits    \* bits of a byte, 8 in the code

ASSUME WidthAssumption ==
  U32 \in Nat \ {0} /\ U64 \in Nat \ {0} /\ ByteBits \in Nat \ {0}

Least(a, b) == IF a <= b THEN a ELSE b

\* n divided by d, rounded up.
Ceil(n, d) == (n + d - 1) \div d

-----------------------------------------------------------------------------
(* Chunks of a file *)

\* Mutant: the division rounds down.
ChunksNeededFloor(total, size) == (total \div size) % U32

\* Mutant: the count is not cut.
ChunksNeededUncut(total, size) == ((total + size - 1) % U64) \div size

ChunksNeeded(total, size) == (((total + size - 1) % U64) \div size) % U32

\* Byte range [start, end) of chunk i.
ChunkRange(i, size, total) ==
  LET start == (i * size) % U64
  IN <<start, Least((start + size) % U64, total)>>

Length(data) == Cardinality(DOMAIN data)

Slice(data, start, end) == [b \in 0 .. end - start - 1 |-> data[start + b]]

\* Manifest::build; chunkSize is not zero.
Build(data, chunkSize) ==
  LET total == Length(data)
      count == ChunksNeeded(total, chunkSize)
  IN [total  |-> total,
      size   |-> chunkSize,
      count  |-> count,
      hashes |-> [i \in 0 .. count - 1 |->
                    LET r == ChunkRange(i, chunkSize, total) IN Slice(data, r[1], r[2])]]

VerifyChunk(m, i, bytes) == m.hashes[i] = bytes

-----------------------------------------------------------------------------
(* ChunkBitmap: the set bits among the first len, and the cached counters *)

NewBitmap(n) == [bits |-> {}, len |-> n, complete |-> 0, count |-> n]

\* A byte is the set of its positions that are set, the highest bit first.
AsBytes(bm) ==
  [k \in 0 .. Ceil(bm.len, ByteBits) - 1 |->
     {b \in 0 .. ByteBits - 1 : k * ByteBits + b \in bm.bits}]

\* Mutant: the order of the bits is the other one.
FromBytesLsb(bytes, n) ==
  LET len  == Least(n, ByteBits * Cardinality(DOMAIN bytes))
      bits == {i \in 0 .. len - 1 : ByteBits - 1 - (i % ByteBits) \in bytes[i \div ByteBits]}
  IN [bits |-> bits, len |-> len, complete |-> Cardinality(bits), count |-> n]

\* truncate never lengthens: too few bytes leave fewer bits than n.
FromBytes(bytes, n) ==
  LET len  == Least(n, ByteBits * Cardinality(DOMAIN bytes))
      bits == {i \in 0 .. len - 1 : i % ByteBits \in bytes[i \div ByteBits]}
  IN [bits |-> bits, len |-> len, complete |-> Cardinality(bits), count |-> n]

MarkComplete(bm, i) ==
  IF i >= bm.count \/ i \in bm.bits THEN bm
  ELSE [bm EXCEPT !.bits = @ \cup {i}, !.complete = @ + 1]

\* has() and mark_complete() index past the bits.
Panics(bm, i) == i < bm.count /\ i >= bm.len

Has(bm, i) == i < bm.count /\ i \in bm.bits
IsComplete(bm) == bm.complete = bm.count
Missing(bm) == (0 .. bm.len - 1) \ bm.bits
=============================================================================
