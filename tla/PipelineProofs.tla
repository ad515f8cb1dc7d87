------------------------------ MODULE PipelineProofs ------------------------------
(***************************************************************************)
(* Theorems of Pipeline: a manifest covers its file exactly when no        *)
(* arithmetic wrapped, frames arrive whole or are refused, bitmaps survive *)
(* the wire, and stripes give back what went into them, for every file,    *)
(* chunk size and width.                                                   *)
(***************************************************************************)
EXTENDS Pipeline, FiniteSetTheorems, WellFoundedInduction, TLAPS

(***************************************************************************)
(* Arithmetic                                                              *)
(***************************************************************************)

\* Division leaves a quotient and a remainder below the divisor.
LEMMA DivMod ==
  ASSUME NEW n \in Nat, NEW d \in Nat \ {0}
  PROVE  /\ n \div d \in Nat
         /\ n % d \in 0 .. d - 1
         /\ n = d * (n \div d) + (n % d)
OBVIOUS

\* A number below the divisor is its own remainder.
LEMMA SmallMod ==
  ASSUME NEW n \in Nat, NEW d \in Nat \ {0}, n < d
  PROVE  n % d = n
OBVIOUS

\* A remainder is no more than the number.
LEMMA ModAtMost ==
  ASSUME NEW n \in Nat, NEW d \in Nat \ {0}
  PROVE  n % d \in 0 .. d - 1 /\ n % d <= n
<1>1. n < d => n % d = n
  BY SmallMod
<1>2. n % d \in 0 .. d - 1
  BY DivMod
<1>3. QED
  BY <1>1, <1>2

\* Once above the divisor, it is subtracted.
LEMMA WrapMod ==
  ASSUME NEW n \in Nat, NEW d \in Nat \ {0}, d <= n, n < 2 * d
  PROVE  n % d = n - d
OBVIOUS

\* Products are monotone.
LEMMA MulMono ==
  ASSUME NEW a \in Nat, NEW b \in Nat, NEW d \in Nat, a <= b
  PROVE  a * d <= b * d /\ a * d \in Nat
OBVIOUS

\* The multiple after this one.
LEMMA MulSucc ==
  ASSUME NEW a \in Int, NEW d \in Nat
  PROVE  (a + 1) * d = a * d + d /\ (a - 1) * d = a * d - d
OBVIOUS

\* Quotients are unique.
LEMMA QuotientUnique ==
  ASSUME NEW n \in Nat, NEW d \in Nat \ {0}, NEW q \in Nat, q * d <= n, n < q * d + d
  PROVE  n \div d = q /\ n % d = n - q * d
<1> DEFINE p == n \div d
           r == n % d
<1>1. p \in Nat /\ r \in 0 .. d - 1 /\ n = d * p + r /\ d * p = p * d
  BY DivMod
<1> HIDE DEF p, r
<1>2. ~ (p < q)
  <2>1. SUFFICES ASSUME p < q PROVE FALSE
    OBVIOUS
  <2>2. (p + 1) * d <= q * d
    BY <1>1, <2>1, MulMono
  <2>3. QED
    BY <1>1, <2>2, MulSucc
<1>3. ~ (q < p)
  <2>1. SUFFICES ASSUME q < p PROVE FALSE
    OBVIOUS
  <2>2. (q + 1) * d <= p * d
    BY <1>1, <2>1, MulMono
  <2>3. QED
    BY <1>1, <2>2, MulSucc
<1>4. p = q
  BY <1>1, <1>2, <1>3
<1>5. QED
  BY <1>1, <1>4 DEF p, r

\* Rounding up: the least multiple that reaches n.
LEMMA CeilBounds ==
  ASSUME NEW n \in Nat, NEW d \in Nat \ {0}
  PROVE  /\ Ceil(n, d) \in Nat
         /\ n <= Ceil(n, d) * d
         /\ Ceil(n, d) * d < n + d
<1> DEFINE q == (n + d - 1) \div d
           r == (n + d - 1) % d
<1>1. n + d - 1 \in Nat
  OBVIOUS
<1>2. q \in Nat /\ r \in 0 .. d - 1 /\ n + d - 1 = d * q + r
  BY <1>1, DivMod
<1>3. d * q = q * d /\ d * q \in Nat
  BY <1>2
<1> HIDE DEF q, r
<1>4. QED
  BY <1>2, <1>3 DEF Ceil, q

\* The length of a file or of a row of bytes.
LEMMA LengthOf ==
  ASSUME NEW f, NEW n \in Nat, DOMAIN f = 0 .. n - 1
  PROVE  Length(f) = n
<1>1. Cardinality(0 .. n - 1) = IF 0 > n - 1 THEN 0 ELSE (n - 1) - 0 + 1
  BY FS_Interval
<1>2. QED
  BY <1>1 DEF Length

\* A file's offsets are those below its length.
LEMMA FileDomain ==
  ASSUME NEW f \in Files
  PROVE  Length(f) \in 0 .. U64 - 1 /\ f \in [0 .. Length(f) - 1 -> Nat]
<1>1. PICK n \in 0 .. U64 - 1 : f \in [0 .. n - 1 -> Nat]
  BY FileAssumption
<1>2. n \in Nat
  BY <1>1, WidthAssumption
<1>3. QED
  BY <1>1, <1>2, LengthOf

(***************************************************************************)
(* Chunks of a file                                                        *)
(***************************************************************************)

\* Without a wrap, the chunks are as many as reach the end of the file.
LEMMA CountFits ==
  ASSUME NEW total \in Nat, NEW size \in Nat \ {0},
         total + size - 1 < U64, Ceil(total, size) < U32
  PROVE  ChunksNeeded(total, size) = Ceil(total, size)
<1>1. total + size - 1 \in Nat
  OBVIOUS
<1>2. (total + size - 1) % U64 = total + size - 1
  BY <1>1, SmallMod, WidthAssumption
<1>3. Ceil(total, size) % U32 = Ceil(total, size)
  BY CeilBounds, SmallMod, WidthAssumption
<1>4. QED
  BY <1>2, <1>3 DEF ChunksNeeded, Ceil

\* A count is always one of 32 bits.
LEMMA CountType ==
  ASSUME NEW total \in Nat, NEW size \in Nat \ {0}
  PROVE  ChunksNeeded(total, size) \in 0 .. U32 - 1
<1> DEFINE s == (total + size - 1) % U64
<1>1. s \in Nat
  BY DivMod, total + size - 1 \in Nat, WidthAssumption
<1> HIDE DEF s
<1>2. s \div size \in Nat
  BY <1>1, DivMod
<1>3. (s \div size) % U32 \in 0 .. U32 - 1
  BY <1>2, DivMod, WidthAssumption
<1>4. QED
  BY <1>3 DEF ChunksNeeded, s

\* A chunk that ends below the width of an offset, and its range.
LEMMA RangeFits ==
  ASSUME NEW total \in Nat, NEW size \in Nat \ {0}, NEW i \in Nat,
         i * size + size < U64
  PROVE  ChunkRange(i, size, total) = <<i * size, Least(i * size + size, total)>>
<1>1. i * size \in Nat
  BY MulMono
<1>2. (i * size) % U64 = i * size /\ (i * size + size) % U64 = i * size + size
  BY <1>1, SmallMod, WidthAssumption
<1>3. QED
  BY <1>2 DEF ChunkRange

\* Every offset of a file lies in one chunk, the one its quotient names.
LEMMA ChunkOfByte ==
  ASSUME NEW total \in Nat, NEW size \in Nat \ {0},
         total + size - 1 < U64, Ceil(total, size) < U32,
         NEW m, m.total = total, m.size = size, m.count = ChunksNeeded(total, size),
         NEW b \in 0 .. total - 1
  PROVE  \E i \in 0 .. m.count - 1 :
           /\ Holds(m, i, b)
           /\ \A j \in 0 .. m.count - 1 : Holds(m, j, b) => i = j
<1> DEFINE n == Ceil(total, size)
           q == b \div size
<1>1. /\ n \in Nat /\ total <= n * size /\ n * size < total + size
      /\ m.count = n
  BY CeilBounds, CountFits
<1>2. /\ b \in Nat
      /\ q \in Nat /\ q * size <= b /\ b < q * size + size /\ q * size \in Nat
  <2>1. b \in Nat
    OBVIOUS
  <2>2. q \in Nat /\ b % size \in 0 .. size - 1 /\ b = size * q + (b % size)
    BY <2>1, DivMod
  <2>3. size * q = q * size /\ q * size \in Nat
    BY <2>2
  <2> HIDE DEF q
  <2>4. QED
    BY <2>1, <2>2, <2>3
<1> HIDE DEF n, q
<1>3. ASSUME NEW j \in 0 .. n - 1
      PROVE  Holds(m, j, b) <=> (j * size <= b /\ b < j * size + size)
  <2>1. (j + 1) * size <= n * size /\ j * size \in Nat
    BY <1>1, MulMono
  <2>2. j * size + size < U64
    BY <1>1, <2>1, MulSucc, WidthAssumption
  <2>3. ChunkRange(j, size, total) = <<j * size, Least(j * size + size, total)>>
    BY <2>2, RangeFits
  <2>4. QED
    BY <2>1, <2>3 DEF Holds, Least
<1>4. q < n
  <2>1. SUFFICES ASSUME n <= q PROVE FALSE
    BY <1>1, <1>2
  <2>2. n * size <= q * size
    BY <1>1, <1>2, <2>1, MulMono
  <2>3. QED
    BY <1>1, <1>2, <2>2
<1>5. Holds(m, q, b)
  BY <1>1, <1>2, <1>3, <1>4
<1>6. ASSUME NEW j \in 0 .. n - 1, Holds(m, j, b) PROVE q = j
  <2>1. j * size <= b /\ b < j * size + size
    BY <1>3, <1>6
  <2>2. j \in Nat
    BY <1>1
  <2>3. b \div size = j
    BY <1>2, <2>1, <2>2, QuotientUnique
  <2>4. QED
    BY <2>3 DEF q
<1>7. QED
  BY <1>1, <1>2, <1>4, <1>5, <1>6

\* A sum that wraps, or a count that is cut, leaves the end of the file uncovered.
LEMMA TooFewChunks ==
  ASSUME NEW total \in 1 .. U64 - 1, NEW size \in 1 .. U64 - 1,
         ~ (total + size - 1 < U64 /\ Ceil(total, size) < U32)
  PROVE  /\ ChunksNeeded(total, size) \in Nat
         /\ ChunksNeeded(total, size) * size < total
<1> DEFINE s == (total + size - 1) % U64
           q == s \div size
           c == q % U32
<1>1. total \in Nat /\ size \in Nat \ {0} /\ total + size - 1 \in Nat
  BY WidthAssumption
<1>2. s \in Nat
  BY <1>1, DivMod, WidthAssumption
<1>3. q \in Nat /\ q * size <= s
  <2> HIDE DEF s
  <2>1. q \in Nat /\ s % size \in 0 .. size - 1 /\ s = size * q + (s % size)
    BY <1>1, <1>2, DivMod
  <2>2. QED
    BY <1>1, <1>2, <2>1
<1>4. c \in Nat /\ c <= q /\ (q >= U32 => c < q)
  <2> HIDE DEF q
  <2>1. c \in 0 .. U32 - 1
    BY <1>3, DivMod, WidthAssumption
  <2>2. q < U32 => c = q
    BY <1>3, SmallMod, WidthAssumption
  <2>3. QED
    BY <1>3, <2>1, <2>2, WidthAssumption
<1>5. c * size <= q * size
  BY <1>1, <1>3, <1>4, MulMono
<1>6. CASE total + size - 1 >= U64
  <2> DEFINE n == total + size - 1
  <2>0. n \in Nat /\ U64 \in Nat \ {0} /\ U64 <= n /\ n < 2 * U64
    BY <1>1, <1>6, WidthAssumption
  <2>1. s = n - U64
    <3> HIDE DEF n
    <3>1. n % U64 = n - U64
      BY <2>0, WrapMod
    <3>2. QED
      BY <3>1 DEF n
  <2> HIDE DEF s, q, c
  <2>2. c * size \in Nat
    BY <1>1, <1>4, MulMono
  <2>3. c * size < total
    BY <1>1, <1>2, <1>3, <1>5, <2>1, <2>2, MulMono, WidthAssumption
  <2>4. QED
    BY <1>4, <2>3 DEF ChunksNeeded, c, q, s
<1>7. CASE total + size - 1 < U64
  <2>1. s = total + size - 1
    BY <1>1, <1>7, SmallMod, WidthAssumption
  <2>2. q = Ceil(total, size)
    BY <2>1 DEF Ceil
  <2>3. Ceil(total, size) >= U32 /\ Ceil(total, size) * size < total + size
    BY <1>1, <1>7, CeilBounds, WidthAssumption
  <2> HIDE DEF s, q, c
  <2>4. c + 1 <= q
    BY <1>3, <1>4, <2>2, <2>3, WidthAssumption
  <2>5. (c + 1) * size <= q * size /\ (c + 1) * size = c * size + size /\ c * size \in Nat
    BY <1>1, <1>3, <1>4, <2>4, MulMono, MulSucc
  <2>6. c * size < total
    BY <1>1, <1>3, <2>2, <2>3, <2>5, MulMono
  <2>7. QED
    BY <1>4, <2>6 DEF ChunksNeeded, c, q, s
<1>8. QED
  BY <1>1, <1>6, <1>7, WidthAssumption

\* Chunks that end before the file does do not hold its last byte.
LEMMA LastByteUncovered ==
  ASSUME NEW total \in 1 .. U64 - 1, NEW size \in 1 .. U64 - 1,
         NEW m, m.total = total, m.size = size, m.count \in Nat,
         m.count * size < total,
         NEW i \in 0 .. m.count - 1
  PROVE  ~ Holds(m, i, total - 1)
<1>1. total \in Nat /\ size \in Nat \ {0} /\ U64 \in Nat
  BY WidthAssumption
<1>2. (i + 1) * size <= m.count * size /\ (i + 1) * size = i * size + size
      /\ i * size \in Nat
  BY <1>1, MulMono, MulSucc
<1>3. m.count * size \in Nat
  BY <1>1, MulMono
<1>4. i * size + size < total
  BY <1>1, <1>2, <1>3
<1>5. ChunkRange(i, size, total) = <<i * size, Least(i * size + size, total)>>
  BY <1>1, <1>2, <1>4, RangeFits
<1>6. QED
  BY <1>1, <1>2, <1>4, <1>5 DEF Holds, Least

\* A chunk of a manifest begins inside the file and its offsets do not wrap.
LEMMA RangeInside ==
  ASSUME NEW total \in Nat, NEW size \in Nat \ {0},
         NEW i \in 0 .. ChunksNeeded(total, size) - 1
  PROVE  /\ i \in Nat /\ i * size \in Nat /\ i * size < total
         /\ (i + 1) * size = i * size + size
         /\ ChunkRange(i, size, total) = <<i * size, Least(i * size + size, total)>>
<1> DEFINE s == (total + size - 1) % U64
           q == s \div size
           c == q % U32
<1>1. total + size - 1 \in Nat
  OBVIOUS
<1>2. s \in 0 .. U64 - 1 /\ s <= total + size - 1
  BY <1>1, ModAtMost, WidthAssumption
<1> HIDE DEF s
<1>a. s \in Nat
  BY <1>2, WidthAssumption
<1>3. q \in Nat /\ s % size \in 0 .. size - 1 /\ s = q * size + (s % size)
  <2>1. q \in Nat /\ s % size \in 0 .. size - 1 /\ s = size * q + (s % size)
    BY <1>a, DivMod
  <2> HIDE DEF q
  <2>2. size * q = q * size
    BY <2>1
  <2>3. QED
    BY <2>1, <2>2
<1> HIDE DEF q
<1>4. c \in 0 .. U32 - 1 /\ c <= q
  BY <1>3, ModAtMost, WidthAssumption
<1> HIDE DEF c
<1>5. c = ChunksNeeded(total, size)
  BY DEF c, q, s, ChunksNeeded
<1>6. i \in Nat /\ i + 1 <= q
  BY <1>3, <1>4, <1>5, WidthAssumption
<1>7. (i + 1) * size <= q * size /\ (i + 1) * size = i * size + size /\ i * size \in Nat
  BY <1>3, <1>6, MulMono, MulSucc
<1>8. i * size + size < U64 /\ i * size < total
  BY <1>1, <1>2, <1>3, <1>7, WidthAssumption
<1>9. QED
  BY <1>6, <1>7, <1>8, RangeFits

(***************************************************************************)
(* Bitmaps                                                                 *)
(***************************************************************************)

\* The bits are those of all chunks, and the cached counter is right.
BitmapOK(bm) ==
  /\ bm \in [bits : SUBSET (0 .. bm.count - 1), len : Nat, complete : Nat, count : Nat]
  /\ bm.len = bm.count
  /\ bm.complete = Cardinality(bm.bits)

\* A fresh bitmap counts right.
LEMMA NewBitmapOK ==
  ASSUME NEW n \in Nat
  PROVE  BitmapOK(NewBitmap(n)) /\ NewBitmap(n).count = n
BY FS_EmptySet DEF BitmapOK, NewBitmap

\* Marking a missing chunk keeps the counter right.
LEMMA MarkKeepsBitmap ==
  ASSUME NEW bm, BitmapOK(bm), NEW i \in Missing(bm)
  PROVE  BitmapOK(MarkComplete(bm, i)) /\ MarkComplete(bm, i).count = bm.count
<1>1. i \in 0 .. bm.count - 1 /\ i \notin bm.bits /\ ~ (i >= bm.count)
  BY DEF BitmapOK, Missing
<1>2. IsFiniteSet(bm.bits)
  <2>1. IsFiniteSet(0 .. bm.count - 1)
    BY FS_Interval DEF BitmapOK
  <2>2. bm.bits \in SUBSET (0 .. bm.count - 1)
    BY DEF BitmapOK
  <2>3. QED
    BY <2>1, <2>2, FS_Subset
<1>3. Cardinality(bm.bits \cup {i}) = bm.complete + 1 /\ bm.complete \in Nat
  BY <1>1, <1>2, FS_AddElement DEF BitmapOK
<1>4. MarkComplete(bm, i) = [bm EXCEPT !.bits = @ \cup {i}, !.complete = @ + 1]
  BY <1>1 DEF MarkComplete
<1> DEFINE new == MarkComplete(bm, i)
<1>5. /\ new.bits = bm.bits \cup {i} /\ new.complete = bm.complete + 1
      /\ new.len = bm.len /\ new.count = bm.count
      /\ new = [bits |-> new.bits, len |-> new.len, complete |-> new.complete, count |-> new.count]
  BY <1>4 DEF BitmapOK
<1>6. new.bits \in SUBSET (0 .. new.count - 1)
  BY <1>1, <1>5 DEF BitmapOK
<1> HIDE DEF new
<1>7. BitmapOK(new)
  BY <1>3, <1>5, <1>6 DEF BitmapOK
<1>8. QED
  BY <1>5, <1>7 DEF new

\* What is decoded from the bytes of a bitmap is that bitmap.
LEMMA RoundTrip ==
  ASSUME NEW bm, BitmapOK(bm)
  PROVE  FromBytes(AsBytes(bm), bm.count) =
           [bits |-> bm.bits, len |-> bm.count,
            complete |-> Cardinality(bm.bits), count |-> bm.count]
<1> DEFINE n == bm.count
           B == ByteBits
           K == Ceil(n, B)
           bytes == AsBytes(bm)
<1>1. n \in Nat /\ B \in Nat \ {0} /\ bm.bits \subseteq 0 .. n - 1 /\ bm.len = n
  BY WidthAssumption DEF BitmapOK
<1>2. K \in Nat /\ n <= K * B /\ K * B = B * K /\ B * K \in Nat
  <2>1. K \in Nat /\ n <= K * B
    BY <1>1, CeilBounds
  <2> HIDE DEF K
  <2>2. QED
    BY <1>1, <2>1
<1>3. DOMAIN bytes = 0 .. K - 1
  BY <1>1 DEF AsBytes
<1>4. Cardinality(DOMAIN bytes) = K
  BY <1>2, <1>3, LengthOf DEF Length
<1>5. Least(n, B * Cardinality(DOMAIN bytes)) = n
  BY <1>1, <1>2, <1>4 DEF Least
<1>6. ASSUME NEW i \in 0 .. n - 1
      PROVE  i % B \in bytes[i \div B] <=> i \in bm.bits
  <2>1. /\ i \in Nat /\ i \div B \in Nat /\ i % B \in 0 .. B - 1
        /\ i = (i \div B) * B + (i % B)
    <3>1. i \in Nat
      BY <1>1
    <3>2. i \div B \in Nat /\ i % B \in 0 .. B - 1 /\ i = B * (i \div B) + (i % B)
      BY <1>1, <3>1, DivMod
    <3>3. B * (i \div B) = (i \div B) * B
      BY <1>1, <3>2
    <3>4. QED
      BY <3>1, <3>2, <3>3
  <2>2. i \div B < K
    <3>1. SUFFICES ASSUME K <= i \div B PROVE FALSE
      BY <1>2, <2>1
    <3>2. K * B <= (i \div B) * B
      BY <1>1, <1>2, <2>1, <3>1, MulMono
    <3> DEFINE x == (i \div B) * B
               y == i % B
    <3>3. x \in Nat
      BY <1>1, <2>1, MulMono
    <3> HIDE DEF x, y
    <3>4. K * B <= x /\ i = x + y /\ y \in 0 .. B - 1
      BY <2>1, <3>2 DEF x, y
    <3>5. QED
      BY <1>1, <1>2, <3>3, <3>4
  <2>3. i \div B \in 0 .. K - 1
    BY <1>2, <2>1, <2>2
  <2>4. bytes[i \div B] = {b \in 0 .. B - 1 : (i \div B) * B + b \in bm.bits}
    BY <1>1, <2>3 DEF AsBytes
  <2>5. QED
    BY <2>1, <2>4
<1>7. {i \in 0 .. n - 1 : i % B \in bytes[i \div B]} = bm.bits
  BY <1>1, <1>6
<1> HIDE DEF bytes
<1>8. FromBytes(bytes, n) = [bits |-> bm.bits, len |-> n,
                             complete |-> Cardinality(bm.bits), count |-> n]
  BY <1>5, <1>7 DEF FromBytes
<1>9. QED
  BY <1>8 DEF bytes

\* A bitmap counts all its chunks exactly when none is missing.
LEMMA CompleteIsFull ==
  ASSUME NEW bm, BitmapOK(bm)
  PROVE  Cardinality(bm.bits) = bm.count <=> Missing(bm) = {}
<1> DEFINE n == bm.count
           I == 0 .. n - 1
<1>1. n \in Nat /\ bm.bits \in SUBSET I /\ bm.len = n
  BY DEF BitmapOK
<1>2. IsFiniteSet(I) /\ Cardinality(I) = n
  BY <1>1, FS_Interval
<1>3. Cardinality(I) = Cardinality(bm.bits) => I = bm.bits
  BY <1>1, <1>2, FS_Subset
<1>4. Missing(bm) = {} <=> I = bm.bits
  BY <1>1 DEF Missing
<1>5. QED
  BY <1>2, <1>3, <1>4

(***************************************************************************)
(* Erasure coding                                                          *)
(***************************************************************************)

\* Shards are enough exactly when no more than the parity is lost.
LEMMA EnoughShards ==
  ASSUME NEW present \in SUBSET Shard
  PROVE  CanReconstruct(present) <=> Cardinality(Shard \ present) <= ParityShards
<1>1. DataShards \in Nat /\ ParityShards \in Nat
  BY ShardsAssumption
<1>2. IsFiniteSet(Shard) /\ Cardinality(Shard) = DataShards + ParityShards
  BY <1>1, FS_Interval DEF Shard
<1>3. Shard \cap present = present
  OBVIOUS
<1>4. /\ Cardinality(Shard \ present) = Cardinality(Shard) - Cardinality(present)
      /\ Cardinality(present) \in Nat
  <2>1. IsFiniteSet(present)
    BY <1>2, FS_Subset
  <2>2. Cardinality(Shard \ present) = Cardinality(Shard) - Cardinality(Shard \cap present)
    BY <1>2, FS_Difference
  <2>3. QED
    BY <1>3, <2>1, <2>2, FS_CardinalityType
<1>5. QED
  BY <1>1, <1>2, <1>4 DEF CanReconstruct

\* The shards a file is split into merge to the file.
LEMMA MergeOfSplit ==
  ASSUME NEW f \in Files, Length(f) > 0
  PROVE  MergeShards(SplitIntoShards(f), Length(f)) = f
<1> DEFINE T == Length(f)
           D == DataShards
           s == ShardSize(f)
           sh == SplitIntoShards(f)
<1>1. T \in Nat /\ T > 0 /\ D \in Nat \ {0} /\ f \in [0 .. T - 1 -> Nat]
  BY FileDomain, ShardsAssumption, WidthAssumption
<1>2. s \in Nat /\ T <= s * D /\ D * s = s * D /\ D * s \in Nat
  <2>1. s \in Nat /\ T <= s * D
    <3> HIDE DEF T
    <3>1. QED
      BY <1>1, CeilBounds DEF ShardSize, T
  <2> HIDE DEF s
  <2>2. QED
    BY <1>1, <2>1
<1>3. s # 0
  <2>1. SUFFICES ASSUME s = 0 PROVE FALSE
    OBVIOUS
  <2>2. 0 * D = 0
    BY <1>1
  <2>3. QED
    BY <1>1, <1>2, <2>1, <2>2
<1> HIDE DEF T, D, s
<1>4. ASSUME NEW j \in 0 .. D - 1
      PROVE  sh[j] = Resize(Slice(f, Least(j * s, T), Least(j * s + s, T)), s)
  BY DEF SplitIntoShards, T, D, s
<1>5. Length(sh[0]) = s
  <2> HIDE DEF sh
  <2>1. DOMAIN sh[0] = 0 .. s - 1
    <3>1. 0 \in 0 .. D - 1
      BY <1>1
    <3>2. sh[0] = Resize(Slice(f, Least(0 * s, T), Least(0 * s + s, T)), s)
      BY <1>4, <3>1
    <3>3. QED
      BY <3>2 DEF Resize
  <2>2. QED
    BY <1>2, <2>1, LengthOf
<1>6. ASSUME NEW b \in 0 .. T - 1
      PROVE  sh[b \div s][b % s] = f[b]
  <2> DEFINE q == b \div s
             r == b % s
             js == q * s
  <2>1. b \in Nat
    BY <1>1
  <2>2. q \in Nat /\ r \in 0 .. s - 1 /\ b = s * q + r /\ s * q = js /\ js \in Nat
    <3>1. q \in Nat /\ r \in 0 .. s - 1 /\ b = s * q + r
      BY <1>2, <1>3, <2>1, DivMod
    <3> HIDE DEF q, r
    <3>2. QED
      BY <1>2, <3>1
  <2> HIDE DEF q, r
  <2>3. q < D
    <3>1. SUFFICES ASSUME D <= q PROVE FALSE
      BY <1>1, <2>2
    <3>2. D * s <= js
      BY <1>1, <1>2, <2>2, <3>1, MulMono
    <3> HIDE DEF js
    <3>3. QED
      BY <1>1, <1>2, <2>1, <2>2, <3>2
  <2>4. q \in 0 .. D - 1
    BY <1>1, <2>2, <2>3
  <2>5. sh[q] = Resize(Slice(f, Least(js, T), Least(js + s, T)), s)
    BY <1>4, <2>4
  <2> HIDE DEF js, sh
  <2>6. /\ Least(js, T) = js
        /\ r \in 0 .. Least(js + s, T) - js - 1
    BY <1>1, <1>2, <2>2 DEF Least
  <2>7. Slice(f, js, Least(js + s, T)) = [x \in 0 .. Least(js + s, T) - js - 1 |-> f[js + x]]
    BY DEF Slice
  <2> DEFINE piece == Slice(f, js, Least(js + s, T))
  <2>8. sh[q][r] = f[js + r]
    <3>1. r \in DOMAIN piece /\ piece[r] = f[js + r]
      BY <2>6, <2>7
    <3>2. sh[q] = Resize(piece, s)
      BY <2>5, <2>6
    <3> HIDE DEF piece
    <3>3. QED
      BY <2>2, <3>1, <3>2 DEF Resize
  <2>9. QED
    BY <2>2, <2>8 DEF q, r
<1>7. Least(T, D * s) = T
  BY <1>1, <1>2 DEF Least
<1>8. MergeShards(sh, T) = [b \in 0 .. T - 1 |-> sh[b \div s][b % s]]
  BY <1>5, <1>7 DEF MergeShards, D
<1>9. [b \in 0 .. T - 1 |-> sh[b \div s][b % s]] = [b \in 0 .. T - 1 |-> f[b]]
  BY <1>6
<1>10. QED
  BY <1>1, <1>8, <1>9 DEF T

\* A non-empty set of numbers with a bound has a greatest.
LEMMA Greatest ==
  ASSUME NEW S \in SUBSET Nat, S # {}, NEW n \in Nat, \A x \in S : x <= n
  PROVE  \E m \in S : \A x \in S : x <= m
<1> DEFINE R == {d \in Nat : n - d \in S}
<1>1. R \subseteq Nat /\ R # {}
  <2>1. PICK x \in S : TRUE
    OBVIOUS
  <2>2. x \in Nat /\ n - x \in Nat /\ n - (n - x) = x
    BY <2>1
  <2>3. n - x \in R
    BY <2>1, <2>2
  <2>4. QED
    BY <2>3
<1>2. PICK d \in R : \A e \in R : ~ (<<e, d>> \in OpToRel(<, Nat))
  <2> HIDE DEF R
  <2>1. QED
    BY <1>1, NatLessThanWellFounded, WFMin
<1>3. \A e \in R : ~ (e < d)
  <2>1. ASSUME NEW e \in R, e < d PROVE FALSE
    <3>1. e \in Nat /\ d \in Nat
      OBVIOUS
    <3>2. <<e, d>> \in OpToRel(<, Nat)
      BY <2>1, <3>1 DEF OpToRel
    <3>3. QED
      BY <1>2, <3>2
  <2>2. QED
    BY <2>1
<1>4. n - d \in S /\ n - d \in Nat /\ d \in Nat
  OBVIOUS
<1>5. ASSUME NEW x \in S PROVE x <= n - d
  <2>1. x \in Nat /\ n - x \in Nat /\ n - (n - x) = x
    OBVIOUS
  <2>2. n - x \in R
    BY <2>1
  <2>3. ~ (n - x < d)
    BY <1>3, <2>2
  <2>4. QED
    BY <1>4, <2>1, <2>3
<1>6. QED
  BY <1>4, <1>5

\* The size of a stripe is that of its longest chunk.
LEMMA StripeSizeOf ==
  ASSUME NEW datas, NEW n \in Nat \ {0}, DOMAIN datas = 1 .. n,
         NEW bound \in Nat, \A i \in 1 .. n : Length(datas[i]) \in 0 .. bound
  PROVE  StripeSize(datas) \in Nat /\ \A i \in 1 .. n : Length(datas[i]) <= StripeSize(datas)
<1> DEFINE L == {Length(datas[i]) : i \in DOMAIN datas}
<1>1. L \in SUBSET Nat /\ \A x \in L : x <= bound
  OBVIOUS
<1>2. L # {}
  <2>1. 1 \in DOMAIN datas
    OBVIOUS
  <2>2. QED
    BY <2>1
<1>3. \E m \in L : \A x \in L : x <= m
  <2> HIDE DEF L
  <2>1. QED
    BY <1>1, <1>2, Greatest
<1>4. \E m \in L : \A i \in DOMAIN datas : Length(datas[i]) <= m
  BY <1>3
<1>5. StripeSize(datas) \in L /\ \A i \in DOMAIN datas : Length(datas[i]) <= StripeSize(datas)
  BY <1>4 DEF StripeSize
<1>6. QED
  BY <1>1, <1>5

\* A chunk is cut out of the merged stripe by its place and its length.
LEMMA ChunkOfStripe ==
  ASSUME NEW datas \in Seq(UNION {[0 .. l - 1 -> Nat] : l \in Nat}),
         Len(datas) \in 1 .. DataShards,
         NEW bound \in Nat, \A i \in 1 .. Len(datas) : Length(datas[i]) \in 0 .. bound,
         NEW j \in 1 .. Len(datas)
  PROVE  LET shards == BuildStripe(datas)
             out    == MergeStripe(shards)
             from   == (j - 1) * Length(shards[0])
             to     == from + Length(datas[j])
         IN to <= Length(out) /\ Slice(out, from, to) = datas[j]
<1> DEFINE n == Len(datas)
           D == DataShards
           s == StripeSize(datas)
           sh == BuildStripe(datas)
           out == MergeStripe(sh)
           c == datas[j]
           l == Length(c)
           from == (j - 1) * s
<1>1. /\ D \in Nat \ {0} /\ n \in 1 .. D /\ n \in Nat /\ j \in 1 .. n
      /\ DOMAIN datas = 1 .. n
  <2>1. n \in 1 .. D /\ DOMAIN datas = 1 .. n /\ j \in 1 .. n
    OBVIOUS
  <2>2. D \in Nat \ {0}
    BY ShardsAssumption
  <2> HIDE DEF n, D
  <2>3. QED
    BY <2>1, <2>2
<1>2. s \in Nat /\ l \in Nat /\ l <= s
  <2>1. n \in Nat \ {0} /\ \A i \in 1 .. n : Length(datas[i]) \in 0 .. bound
    BY <1>1
  <2> HIDE DEF n
  <2>2. s \in Nat /\ \A i \in 1 .. n : Length(datas[i]) <= s
    BY <1>1, <2>1, StripeSizeOf
  <2> HIDE DEF s
  <2>3. QED
    BY <1>1, <2>1, <2>2
<1>3. c \in [0 .. l - 1 -> Nat]
  <2>1. PICK k \in Nat : c \in [0 .. k - 1 -> Nat]
    <3> DEFINE S == UNION {[0 .. k - 1 -> Nat] : k \in Nat}
    <3>1. c \in S
      <4>1. datas \in Seq(S)
        OBVIOUS
      <4> HIDE DEF S
      <4>2. QED
        BY <1>1, <4>1
    <3>2. QED
      BY <3>1
  <2>2. l = k
    BY <2>1, LengthOf
  <2>3. QED
    BY <2>1, <2>2
<1> HIDE DEF c, l, s
<1>4. ASSUME NEW i \in 0 .. D - 1, i < n
      PROVE  sh[i] = Resize(datas[i + 1], s)
  BY <1>1, <1>4 DEF BuildStripe, s
<1>5. Length(sh[0]) = s
  <2> HIDE DEF sh
  <2>1. 0 \in 0 .. D - 1 /\ 0 < n
    BY <1>1
  <2>2. sh[0] = Resize(datas[0 + 1], s)
    BY <1>4, <2>1
  <2>3. DOMAIN sh[0] = 0 .. s - 1
    BY <2>2 DEF Resize
  <2>4. QED
    BY <1>2, <2>3, LengthOf
<1> DEFINE N == s * D
<1>6. /\ N \in Nat /\ D * s = N
      /\ from \in Nat /\ from + s <= N
  <2>1. N \in Nat /\ D * s = N
    BY <1>1, <1>2
  <2>2. j - 1 \in Nat /\ j \in Nat /\ j <= D
    BY <1>1
  <2>3. j * s <= D * s /\ (j - 1) * s = j * s - s /\ (j - 1) * s \in Nat /\ j * s \in Nat
    BY <1>1, <1>2, <2>2, MulMono, MulSucc
  <2>4. QED
    BY <1>2, <2>1, <2>3
<1>7. out = [b \in 0 .. N - 1 |-> sh[b \div s][b % s]]
  <2> HIDE DEF sh
  <2>1. Least(N, D * s) = N
    BY <1>6 DEF Least
  <2>2. QED
    BY <1>5, <2>1 DEF MergeStripe, MergeShards, D
<1> HIDE DEF out, N, from
<1>8. Length(out) = N
  BY <1>6, <1>7, LengthOf
<1>9. ASSUME NEW x \in 0 .. l - 1
      PROVE  out[from + x] = c[x]
  <2>1. x \in Nat /\ x < s /\ x \in 0 .. s - 1 /\ j - 1 \in Nat /\ s \in Nat \ {0}
    BY <1>1, <1>2
  <2> DEFINE js == (j - 1) * s
             b == from + x
  <2>2. from = js
    BY DEF from
  <2>3. b \in Nat /\ js <= b /\ b < js + s /\ b - js = x
    <3> HIDE DEF js
    <3>1. QED
      BY <1>2, <1>6, <2>1, <2>2
  <2>4. b \div s = j - 1 /\ b % s = x
    <3> HIDE DEF b
    <3>1. QED
      BY <2>1, <2>3, QuotientUnique
  <2> HIDE DEF js
  <2>5. b \in 0 .. N - 1
    BY <1>6, <2>1, <2>3
  <2>6. out[b] = sh[j - 1][x]
    <3> HIDE DEF b, sh
    <3>1. QED
      BY <1>7, <2>4, <2>5
  <2>7. sh[j - 1] = Resize(c, s)
    <3> HIDE DEF sh
    <3>1. j - 1 \in 0 .. D - 1 /\ j - 1 < n /\ (j - 1) + 1 = j
      BY <1>1
    <3>2. sh[j - 1] = Resize(datas[(j - 1) + 1], s)
      BY <1>4, <3>1
    <3>3. QED
      BY <3>1, <3>2 DEF c
  <2> HIDE DEF sh
  <2>8. sh[j - 1][x] = c[x]
    BY <1>3, <2>1, <2>7 DEF Resize
  <2>9. QED
    BY <2>6, <2>8
<1>10. Slice(out, from, from + l) = c
  <2>1. (from + l) - from - 1 = l - 1
    BY <1>2, <1>6
  <2>2. Slice(out, from, from + l) = [x \in 0 .. l - 1 |-> out[from + x]]
    <3> DEFINE to == from + l
    <3>1. Slice(out, from, to) = [x \in 0 .. to - from - 1 |-> out[from + x]]
      BY DEF Slice
    <3>2. QED
      BY <2>1, <3>1
  <2>3. [x \in 0 .. l - 1 |-> out[from + x]] = [x \in 0 .. l - 1 |-> c[x]]
    BY <1>9
  <2>4. QED
    BY <1>3, <2>2, <2>3
<1>11. from + l <= Length(out)
  BY <1>2, <1>6, <1>8
<1>12. from = (j - 1) * Length(sh[0])
  <2> HIDE DEF sh
  <2>1. QED
    BY <1>5 DEF from
<1>13. QED
  BY <1>10, <1>11, <1>12 DEF l, c, out

(***************************************************************************)
(* The inductive invariant, by component                                   *)
(***************************************************************************)

Client == Build(file, chunkSize)

Stages == {"cli", "built", "refused", "job", "streaming", "streamed", "panicked"}

\* The manifest is the client's from the moment it is built.
IData ==
  /\ file \in Files /\ chunkSize \in 0 .. U64 - 1 /\ stage \in Stages
  /\ stage \in Stages \ {"cli", "panicked"} => chunkSize # 0
  /\ stage \in {"built", "refused", "job"} => manifest = Client
  /\ stage = "refused" => Payload(manifest) > MaxFrame
  /\ stage = "job" => job = manifest /\ Payload(job) <= MaxFrame

\* Whatever FetchManifest answers.
INode == node \in {"idle", "started", "stopped"}

\* The stripe is coded from the file, or from a window of the client's manifest.
IStripe ==
  /\ stripe = [step |-> stripe.step, parts |-> stripe.parts, shards |-> stripe.shards,
               present |-> stripe.present, out |-> stripe.out]
  /\ stripe.step \in {"none", "coded", "rebuilt", "failed"}
  /\ stripe.present \in SUBSET Shard
  /\ stripe.step # "none" =>
       IF stripe.parts = <<>> THEN Total > 0 /\ stripe.shards = SplitIntoShards(file)
       ELSE /\ chunkSize # 0
            /\ stripe.parts \in UNION {[1 .. n -> 0 .. Client.count - 1] : n \in 1 .. DataShards}
            /\ stripe.shards =
                 BuildStripe([j \in DOMAIN stripe.parts |-> Client.hashes[stripe.parts[j]]])
  /\ stripe.step = "rebuilt" =>
       /\ CanReconstruct(stripe.present)
       /\ stripe.out = IF stripe.parts = <<>> THEN MergeShards(stripe.shards, Total)
                       ELSE MergeStripe(stripe.shards)
  /\ stripe.step = "failed" => ~ CanReconstruct(stripe.present)

\* The bitmaps count right, the job's has its length, and the tracker's is decoded.
IBitmap ==
  /\ BitmapOK(bitmap) /\ BitmapOK(seen.sent)
  /\ stage = "job" => bitmap.count = job.count
  /\ seen.got = [bits |-> seen.sent.bits, len |-> seen.sent.count,
                 complete |-> Cardinality(seen.sent.bits), count |-> seen.sent.count]

LEMMA IDataInvariant == Spec => []IData
<1>1. Init => IData
  <2>1. SUFFICES ASSUME Init PROVE IData
    OBVIOUS
  <2>2. PICK mb \in SizesMb : chunkSize = (mb * MiB) % U64
    BY <2>1 DEF Init
  <2>3. mb \in Nat /\ MiB \in Nat
    BY FrameAssumption, WidthAssumption
  <2>4. mb * MiB \in Nat
    BY <2>3, MulMono
  <2>5. chunkSize \in 0 .. U64 - 1
    BY <2>2, <2>4, DivMod, WidthAssumption
  <2>6. QED
    BY <2>1, <2>5 DEF Init, IData, Stages
<1>2. IData /\ [Next]_vars => IData'
  <2>1. SUFFICES ASSUME IData, [Next]_vars PROVE IData'
    OBVIOUS
  <2>2. CASE PanicBuild
    BY <2>1, <2>2 DEF IData, PanicBuild, Client, Stages
  <2>3. CASE BuildManifest
    BY <2>1, <2>3 DEF IData, BuildManifest, Client, Stages
  <2>4. CASE Submit
    <3>1. Client.count \in 0 .. U32 - 1 /\ manifest = Client
      <4>1. file \in Files /\ chunkSize \in Nat \ {0} /\ manifest = Client
        BY <2>1, <2>4, WidthAssumption DEF IData, Submit, Stages
      <4>2. Client.count = ChunksNeeded(Length(file), chunkSize)
        BY DEF Client, Build
      <4>3. QED
        BY <4>1, <4>2, FileDomain, CountType, WidthAssumption
    <3> DEFINE len == Payload(manifest)
    <3>2. len \in Nat
      <4>1. manifest.count \in Nat /\ HashBytes \in Nat /\ Envelope \in Nat
        BY <3>1, FrameAssumption, WidthAssumption
      <4>2. HashBytes * manifest.count \in Nat
        BY <4>1
      <4>3. QED
        BY <4>1, <4>2 DEF Payload
    <3> HIDE DEF len
    <3>3. Accepts(len) => len <= MaxFrame
      BY DEF Accepts
    <3>4. ~ Accepts(len) => len > MaxFrame
      <4>1. len <= MaxFrame => len < U32
        BY <3>2, FrameAssumption, WidthAssumption
      <4>2. len < U32 => len % U32 = len
        BY <3>2, SmallMod, WidthAssumption
      <4>3. QED
        BY <3>2, <4>1, <4>2, FrameAssumption, WidthAssumption DEF Accepts
    <3>5. QED
      BY <2>1, <2>4, <3>3, <3>4 DEF IData, Submit, Client, Stages, len
  <2>5. CASE StreamStart
    BY <2>1, <2>5 DEF IData, StreamStart, Client, Stages
  <2>6. ASSUME NEW n \in 0 .. Least(chunkSize, Total - stream.pos), ReadAgain(n)
        PROVE  IData'
    BY <2>1, <2>6 DEF IData, ReadAgain, Client, Stages
  <2>7. CASE StreamEnd
    BY <2>1, <2>7 DEF IData, StreamEnd, Client, Stages
  <2>8. CASE PanicSplit
    BY <2>1, <2>8 DEF IData, PanicSplit, Client, Stages
  <2>9. ASSUME UNCHANGED data PROVE IData'
    BY <2>1, <2>9 DEF IData, data, Client, Payload
  <2>10. FetchManifest \/ (\E i \in Missing(bitmap) : Mark(i)) \/ Heartbeat \/ SplitFile
         \/ (stage = "job" /\ \E p \in Windows : EncodeStripe(p))
         \/ (\E s \in Shard : Lose(s)) \/ Rebuild \/ UNCHANGED vars => UNCHANGED data
    BY DEF FetchManifest, Mark, Heartbeat, SplitFile, EncodeStripe, Encode, Lose, Rebuild, vars
  <2>11. QED
    BY <2>1, <2>2, <2>3, <2>4, <2>5, <2>6, <2>7, <2>8, <2>9, <2>10 DEF Next
<1>3. QED
  BY <1>1, <1>2, PTL DEF Spec

LEMMA INodeInvariant == Spec => []INode
<1>1. Init => INode
  BY DEF Init, INode
<1>2. INode /\ [Next]_vars => INode'
  <2>1. SUFFICES ASSUME INode, [Next]_vars PROVE INode'
    OBVIOUS
  <2>2. CASE FetchManifest
    BY <2>2 DEF FetchManifest, INode
  <2>3. node' = node => INode'
    BY <2>1 DEF INode
  <2>4. QED
    BY <2>1, <2>2, <2>3
       DEF Next, PanicBuild, BuildManifest, Submit, StreamStart, ReadAgain, StreamEnd, Mark,
           Heartbeat, SplitFile, PanicSplit, EncodeStripe, Encode, Lose, Rebuild, vars, holder
<1>3. QED
  BY <1>1, <1>2, PTL DEF Spec

\* What the tracker and the client have of the manifest is the client's.
LEMMA JobCount ==
  ASSUME IData, stage \in {"built", "job"}
  PROVE  manifest.count \in Nat /\ manifest = Client /\ (stage = "job" => job = Client)
<1>1. file \in Files /\ chunkSize \in Nat \ {0} /\ manifest = Client
      /\ (stage = "job" => job = Client)
  BY WidthAssumption DEF IData, Stages
<1>2. Client.count = ChunksNeeded(Length(file), chunkSize)
  BY DEF Client, Build
<1>3. QED
  BY <1>1, <1>2, FileDomain, CountType, WidthAssumption

LEMMA IBitmapInvariant == Spec => []IBitmap
<1>1. Init => IBitmap
  <2>1. NewBitmap(0) = [bits |-> {}, len |-> 0, complete |-> 0, count |-> 0]
        /\ BitmapOK(NewBitmap(0)) /\ Cardinality({}) = 0
    BY NewBitmapOK, FS_EmptySet DEF NewBitmap
  <2>2. ASSUME Init PROVE IBitmap
    <3>1. /\ bitmap = NewBitmap(0) /\ seen.sent = NewBitmap(0) /\ seen.got = NewBitmap(0)
          /\ stage = "cli"
      BY <2>2 DEF Init
    <3>2. QED
      BY <2>1, <3>1 DEF IBitmap
  <2>3. QED
    BY <2>2
<1>2. IData /\ IBitmap /\ [Next]_vars => IBitmap'
  <2>1. SUFFICES ASSUME IData, IBitmap, [Next]_vars PROVE IBitmap'
    OBVIOUS
  <2>2. CASE Submit
    <3>1. manifest.count \in Nat
      BY <2>1, <2>2, JobCount DEF Submit
    <3>2. CASE Accepts(Payload(manifest))
      <4>1. bitmap' = NewBitmap(manifest.count) /\ job' = manifest /\ seen' = seen
        BY <2>2, <3>2 DEF Submit
      <4>2. QED
        BY <2>1, <3>1, <4>1, NewBitmapOK DEF IBitmap
    <3>3. CASE ~ Accepts(Payload(manifest))
      <4>1. stage' = "refused" /\ bitmap' = bitmap /\ seen' = seen
        BY <2>2, <3>3 DEF Submit
      <4>2. QED
        BY <2>1, <4>1 DEF IBitmap
    <3>4. QED
      BY <3>2, <3>3
  <2>3. ASSUME NEW i \in Missing(bitmap), Mark(i) PROVE IBitmap'
    BY <2>1, <2>3, MarkKeepsBitmap DEF IBitmap, Mark, data
  <2>4. CASE Heartbeat
    <3>1. stage = "job" /\ stage' = stage /\ job' = job /\ bitmap' = bitmap
          /\ BitmapOK(bitmap) /\ bitmap.count = job.count
      BY <2>1, <2>4 DEF IBitmap, Heartbeat, data
    <3>2. seen' = [sent |-> bitmap, got |-> FromBytes(AsBytes(bitmap), bitmap.count)]
      BY <2>4, <3>1 DEF Heartbeat
    <3>3. FromBytes(AsBytes(bitmap), bitmap.count) =
            [bits |-> bitmap.bits, len |-> bitmap.count,
             complete |-> Cardinality(bitmap.bits), count |-> bitmap.count]
      BY <3>1, RoundTrip
    <3>4. QED
      BY <3>1, <3>2, <3>3 DEF IBitmap
  <2>5. ASSUME bitmap' = bitmap, seen' = seen, stage' = "job" => stage = "job" /\ job' = job
        PROVE  IBitmap'
    BY <2>1, <2>5 DEF IBitmap
  <2>6. QED
    BY <2>1, <2>2, <2>3, <2>4, <2>5
       DEF Next, PanicBuild, BuildManifest, StreamStart, ReadAgain, StreamEnd, FetchManifest,
           SplitFile, PanicSplit, EncodeStripe, Encode, Lose, Rebuild, vars, holder, data
<1>3. QED
  BY <1>1, <1>2, IDataInvariant, PTL DEF Spec

LEMMA IStripeInvariant == Spec => []IStripe
<1>1. Init => IStripe
  BY DEF Init, IStripe
<1>2. IData /\ IStripe /\ [Next]_vars => IStripe'
  <2>1. SUFFICES ASSUME IData, IStripe, [Next]_vars PROVE IStripe'
    OBVIOUS
  <2>2. file' = file /\ chunkSize' = chunkSize
    BY <2>1 DEF Next, PanicBuild, BuildManifest, Submit, StreamStart, ReadAgain, StreamEnd,
           FetchManifest, Mark, Heartbeat, SplitFile, PanicSplit, EncodeStripe, Encode, Lose,
           Rebuild, vars, data
  <2>3. Client' = Client /\ Total' = Total
    BY <2>2 DEF Client, Total
  <2>4. CASE SplitFile
    <3>1. Total > 0
      <4>1. file \in Files /\ Total \in Nat
        BY <2>1, FileDomain, WidthAssumption DEF IData, Total
      <4>2. ShardSize(file) # 0
        BY <2>4 DEF SplitFile, SplitPanics
      <4>3. Ceil(0, DataShards) = 0
        <5>1. DataShards \in Nat \ {0} /\ 0 * DataShards <= DataShards - 1
              /\ DataShards - 1 < 0 * DataShards + DataShards /\ DataShards - 1 \in Nat
          BY ShardsAssumption
        <5>2. (DataShards - 1) \div DataShards = 0
          BY <5>1, QuotientUnique
        <5>3. 0 + DataShards - 1 = DataShards - 1
          BY <5>1
        <5>4. QED
          BY <5>2, <5>3 DEF Ceil
      <4>4. QED
        BY <4>1, <4>2, <4>3 DEF ShardSize, Total
    <3>2. stripe' = [step |-> "coded", parts |-> <<>>, shards |-> SplitIntoShards(file),
                     present |-> Shard, out |-> <<>>]
      BY <2>4 DEF SplitFile, Encode
    <3>3. QED
      BY <2>2, <2>3, <3>1, <3>2 DEF IStripe
  <2>5. ASSUME stage = "job", NEW p \in Windows, EncodeStripe(p) PROVE IStripe'
    <3>1. job = Client /\ chunkSize # 0
      BY <2>1, <2>5, JobCount DEF IData, Stages
    <3>2. p \in UNION {[1 .. n -> 0 .. Client.count - 1] : n \in 1 .. DataShards}
      BY <3>1 DEF Windows
    <3>3. stripe' = [step |-> "coded", parts |-> p,
                     shards |-> BuildStripe([j \in DOMAIN p |-> Client.hashes[p[j]]]),
                     present |-> Shard, out |-> <<>>]
      BY <2>5, <3>1 DEF EncodeStripe, Encode
    <3>4. p # <<>>
      <4>1. PICK n \in 1 .. DataShards : p \in [1 .. n -> 0 .. Client.count - 1]
        BY <3>2
      <4>2. 1 \in DOMAIN p
        BY <4>1
      <4>3. QED
        BY <4>2
    <3> DEFINE W == UNION {[1 .. n -> 0 .. Client.count - 1] : n \in 1 .. DataShards}
               code == BuildStripe([j \in DOMAIN p |-> Client.hashes[p[j]]])
    <3>5. W' = W
      BY <2>3
    <3>6. stripe'.parts = p /\ stripe'.shards = code /\ stripe'.step = "coded"
          /\ stripe'.present = Shard /\ stripe'.out = <<>>
      BY <3>3
    <3>7. stripe'.shards = BuildStripe([j \in DOMAIN stripe'.parts |->
                                          Client'.hashes[stripe'.parts[j]]])
      BY <2>3, <3>6
    <3> HIDE DEF code
    <3>8. stripe' = [step |-> stripe'.step, parts |-> stripe'.parts,
               shards |-> stripe'.shards, present |-> stripe'.present, out |-> stripe'.out]
      BY <3>3
    <3>9. stripe'.parts \in W'
      BY <3>2, <3>5, <3>6
    <3>10. chunkSize' # 0
      BY <2>2, <3>1
    <3>11. QED
      BY <3>4, <3>6, <3>7, <3>8, <3>9, <3>10 DEF IStripe
  <2>6. ASSUME NEW s \in Shard, Lose(s) PROVE IStripe'
    BY <2>1, <2>2, <2>3, <2>6 DEF IStripe, Lose
  <2>7. CASE Rebuild
    <3>1. CASE CanReconstruct(stripe.present)
      BY <2>1, <2>2, <2>3, <2>7, <3>1 DEF IStripe, Rebuild
    <3>2. CASE ~ CanReconstruct(stripe.present)
      BY <2>1, <2>2, <2>3, <2>7, <3>2 DEF IStripe, Rebuild
    <3>3. QED
      BY <3>1, <3>2
  <2>8. CASE stripe' = stripe
    BY <2>1, <2>2, <2>3, <2>8 DEF IStripe
  <2>9. QED
    BY <2>1, <2>4, <2>5, <2>6, <2>7, <2>8
       DEF Next, PanicBuild, BuildManifest, Submit, StreamStart, ReadAgain, StreamEnd,
           FetchManifest, Mark, Heartbeat, PanicSplit, vars
<1>3. QED
  BY <1>1, <1>2, IDataInvariant, PTL DEF Spec

\* A chunk of the client's manifest: its range is in the file, its hash that range's.
LEMMA Chunks ==
  ASSUME IData, chunkSize # 0, NEW i \in 0 .. Client.count - 1
  PROVE  /\ Client.count = ChunksNeeded(Total, chunkSize) /\ Client.count \in Nat
         /\ Client.total = Total /\ Client.size = chunkSize
         /\ LET r == ChunkRange(i, chunkSize, Total)
            IN /\ r[1] \in Nat /\ r[2] \in Nat /\ r[1] <= r[2] /\ r[2] <= Total
               /\ r[2] - r[1] <= chunkSize
               /\ Client.hashes[i] = Slice(file, r[1], r[2])
               /\ Slice(file, r[1], r[2]) \in [0 .. (r[2] - r[1]) - 1 -> Nat]
               /\ Length(Slice(file, r[1], r[2])) = r[2] - r[1]
<1>1. /\ file \in Files /\ chunkSize \in Nat \ {0} /\ Total \in Nat
      /\ file \in [0 .. Total - 1 -> Nat]
  BY FileDomain, WidthAssumption DEF IData, Total
<1>2. Client.count = ChunksNeeded(Total, chunkSize) /\ Client.total = Total
      /\ Client.size = chunkSize
  BY DEF Client, Build, Total
<1>3. Client.count \in Nat
  BY <1>1, <1>2, CountType, WidthAssumption
<1> DEFINE r == ChunkRange(i, chunkSize, Total)
           a == i * chunkSize
           z == Least(a + chunkSize, Total)
<1>4. a \in Nat /\ a < Total /\ r = <<a, z>>
  BY <1>1, <1>2, RangeInside
<1>5. Client.hashes[i] = Slice(file, r[1], r[2])
  BY DEF Client, Build, Total
<1> HIDE DEF a, r
<1>6. z \in Nat /\ a <= z /\ z <= Total /\ z - a <= chunkSize /\ z - a \in Nat
  BY <1>1, <1>4 DEF Least
<1> HIDE DEF z
<1>7. Slice(file, a, z) \in [0 .. (z - a) - 1 -> Nat]
  <2>1. Slice(file, a, z) = [b \in 0 .. (z - a) - 1 |-> file[a + b]]
    BY DEF Slice
  <2>2. ASSUME NEW b \in 0 .. (z - a) - 1 PROVE file[a + b] \in Nat
    <3>1. a + b \in 0 .. Total - 1
      BY <1>1, <1>4, <1>6
    <3>2. QED
      BY <1>1, <3>1
  <2>3. QED
    BY <2>1, <2>2
<1>8. Length(Slice(file, a, z)) = z - a
  BY <1>6, <1>7, LengthOf
<1>9. r[1] = a /\ r[2] = z
  BY <1>4
<1>10. /\ r[1] \in Nat /\ r[2] \in Nat /\ r[1] <= r[2] /\ r[2] <= Total
       /\ r[2] - r[1] <= chunkSize
       /\ Slice(file, r[1], r[2]) \in [0 .. (r[2] - r[1]) - 1 -> Nat]
       /\ Length(Slice(file, r[1], r[2])) = r[2] - r[1]
  BY <1>4, <1>6, <1>7, <1>8, <1>9
<1>11. QED
  BY <1>2, <1>3, <1>5, <1>10 DEF r

(***************************************************************************)
(* build_from_file                                                         *)
(***************************************************************************)

\* The bytes a read may return.
Pieces == {Slice(file, x, y) : x \in Nat, y \in Nat}

\* Read k filled its chunk.
FullRead(k) ==
  LET r == ChunkRange(k - 1, chunkSize, Total) IN Length(stream.hashes[k]) = r[2] - r[1]

\* As long as all reads are full they are the chunks, and the next starts at the next.
AllFull == \A k \in 1 .. Len(stream.hashes) : FullRead(k)

IStream ==
  /\ stream = [pos |-> stream.pos, hashes |-> stream.hashes]
  /\ stream.pos \in 0 .. Total /\ stream.hashes \in Seq(Pieces)
  /\ stage = "cli" => stream.pos = 0 /\ stream.hashes = <<>>
  /\ Len(stream.hashes) \in 0 .. U32 - 1
  /\ stage \in {"streaming", "streamed"} => Len(stream.hashes) <= ChunksNeeded(Total, chunkSize)
  /\ stage \in {"streaming", "streamed"} /\ AllFull =>
       /\ stream.pos = Least(Len(stream.hashes) * chunkSize, Total)
       /\ \A k \in 1 .. Len(stream.hashes) : stream.hashes[k] = Client.hashes[k - 1]
  /\ stage = "streamed" =>
       /\ Len(stream.hashes) = ChunksNeeded(Total, chunkSize)
       /\ manifest = [total |-> Total, size |-> chunkSize, count |-> Len(stream.hashes),
                      hashes |-> [i \in 0 .. Len(stream.hashes) - 1 |-> stream.hashes[i + 1]]]

\* A read keeps the invariant.
LEMMA ReadKeepsStream ==
  ASSUME IData, IStream, NEW n \in 0 .. Least(chunkSize, Total - stream.pos), ReadAgain(n)
  PROVE  IStream'
<1> DEFINE h == stream.hashes
           L == Len(h)
           p == stream.pos
           piece == Slice(file, p, p + n)
<1>1. /\ stage = "streaming" /\ stage' = stage /\ file' = file /\ chunkSize' = chunkSize
      /\ Total' = Total /\ manifest' = manifest /\ Client' = Client
      /\ stream' = [pos |-> p + n, hashes |-> Append(h, piece)]
      /\ L < ChunksNeeded(Total, chunkSize)
  BY DEF ReadAgain, Total, Client
<1>2. /\ chunkSize \in Nat \ {0} /\ file \in Files /\ Total \in Nat
      /\ ChunksNeeded(Total, chunkSize) \in 0 .. U32 - 1 /\ U32 \in Nat
      /\ file \in [0 .. Total - 1 -> Nat]
  <2>1. chunkSize \in Nat \ {0} /\ file \in Files /\ U32 \in Nat
    BY <1>1, WidthAssumption DEF IData, Stages
  <2>2. Total \in Nat /\ file \in [0 .. Total - 1 -> Nat]
    BY <2>1, FileDomain, WidthAssumption DEF Total
  <2>3. QED
    BY <2>1, <2>2, CountType
<1>3. /\ h \in Seq(Pieces) /\ L \in Nat /\ p \in Nat /\ p <= Total
      /\ n \in Nat /\ p + n <= Total /\ n <= chunkSize
  <2>1. h \in Seq(Pieces) /\ p \in Nat /\ p <= Total
    BY <1>2 DEF IStream
  <2>2. QED
    BY <1>2, <2>1 DEF Least
<1>4. piece \in Pieces /\ Pieces' = Pieces
  BY <1>1, <1>3 DEF Pieces
<1> HIDE DEF piece, p, h
<1> DEFINE new == Append(h, piece)
<1>5. /\ new \in Seq(Pieces) /\ Len(new) = L + 1 /\ new[L + 1] = piece
      /\ \A k \in 1 .. L : new[k] = h[k]
  BY <1>3, <1>4
<1>6. stream'.pos = p + n /\ stream'.hashes = new
  BY <1>1
<1> HIDE DEF new
<1>7. L + 1 <= ChunksNeeded(Total, chunkSize) /\ L + 1 \in 0 .. U32 - 1
  BY <1>1, <1>2, <1>3
<1> DEFINE Full(k) == LET r == ChunkRange(k - 1, chunkSize, Total) IN Length(new[k]) = r[2] - r[1]
<1>8. ASSUME \A k \in 1 .. L + 1 : Full(k)
      PROVE  /\ p + n = Least((L + 1) * chunkSize, Total)
             /\ \A k \in 1 .. L + 1 : new[k] = Client.hashes[k - 1]
  <2>1. AllFull
    <3>1. ASSUME NEW k \in 1 .. L PROVE FullRead(k)
      <4>1. k \in 1 .. L + 1
        BY <1>3
      <4>2. Full(k) /\ new[k] = h[k]
        BY <1>5, <1>8, <4>1
      <4>3. QED
        BY <4>2 DEF FullRead, h
    <3>2. QED
      BY <3>1 DEF AllFull, h
  <2>2. p = Least(L * chunkSize, Total) /\ \A k \in 1 .. L : h[k] = Client.hashes[k - 1]
    BY <1>1, <2>1 DEF IStream, h, p
  <2> DEFINE a == L * chunkSize
             z == Least(a + chunkSize, Total)
  <2>3. L \in 0 .. ChunksNeeded(Total, chunkSize) - 1
    BY <1>1, <1>2, <1>3
  <2>4. /\ a \in Nat /\ a < Total /\ (L + 1) * chunkSize = a + chunkSize
        /\ ChunkRange(L, chunkSize, Total) = <<a, z>>
    <3> HIDE DEF L
    <3>1. QED
      BY <1>2, <2>3, RangeInside
  <2>5. p = a
    <3> HIDE DEF a
    <3>1. p = Least(a, Total)
      BY <2>2 DEF a
    <3>2. QED
      BY <1>2, <2>4, <3>1 DEF Least
  <2>6. Length(piece) = n
    <3>1. piece = [b \in 0 .. n - 1 |-> file[p + b]]
      <4>1. (p + n) - p - 1 = n - 1
        BY <1>3
      <4> DEFINE y == p + n
      <4>2. Slice(file, p, y) = [b \in 0 .. y - p - 1 |-> file[p + b]]
        BY DEF Slice
      <4>3. QED
        BY <4>1, <4>2 DEF piece
    <3>2. DOMAIN piece = 0 .. n - 1
      BY <3>1
    <3>3. QED
      BY <1>3, <3>2, LengthOf
  <2>7. n = z - a
    <3>1. Full(L + 1) /\ (L + 1) - 1 = L
      BY <1>3, <1>8
    <3>2. Length(new[L + 1]) = z - a
      <4> HIDE DEF a, z
      <4>1. QED
        BY <2>4, <3>1
    <3>3. QED
      BY <1>5, <2>6, <3>2
  <2>8. piece = Client.hashes[L]
    <3> DEFINE r == ChunkRange(L, chunkSize, Total)
    <3>1. Client.count = ChunksNeeded(Total, chunkSize)
      BY DEF Client, Build, Total
    <3>2. L \in 0 .. Client.count - 1
      BY <2>3, <3>1
    <3>3. Client.hashes[L] = Slice(file, r[1], r[2])
      <4> HIDE DEF L
      <4>1. QED
        BY <1>2, <3>2, Chunks
    <3> HIDE DEF a, z, r
    <3>4. r[1] = a /\ r[2] = z
      BY <2>4 DEF r
    <3>5. z = a + n
      <4>1. z \in Int
        BY <1>2, <2>4 DEF z, Least
      <4>2. QED
        BY <1>3, <2>4, <2>7, <4>1
    <3>6. QED
      BY <2>5, <3>3, <3>4, <3>5 DEF piece
  <2>9. p + n = Least((L + 1) * chunkSize, Total)
    <3> HIDE DEF a
    <3>1. z \in Int /\ z = Least(a + chunkSize, Total)
      BY <1>2, <2>4 DEF Least
    <3> HIDE DEF z
    <3>2. QED
      BY <1>3, <2>4, <2>5, <2>7, <3>1
  <2>10. ASSUME NEW k \in 1 .. L + 1 PROVE new[k] = Client.hashes[k - 1]
    <3>1. CASE k = L + 1
      BY <1>3, <1>5, <2>8, <3>1
    <3>2. CASE k # L + 1
      BY <1>3, <1>5, <2>2, <3>2
    <3>3. QED
      BY <3>1, <3>2
  <2>11. QED
    BY <2>9, <2>10
<1>9. AllFull' <=> \A k \in 1 .. L + 1 : Full(k)
  BY <1>1, <1>5, <1>6 DEF AllFull, FullRead
<1>10. p + n \in 0 .. Total
  BY <1>2, <1>3
<1>11. stage' = "streaming" /\ stage' # "cli" /\ stage' # "streamed"
  BY <1>1
<1>12. stream' = [pos |-> stream'.pos, hashes |-> stream'.hashes]
  BY <1>1
<1>13. Len(stream'.hashes) = L + 1
  BY <1>5, <1>6
<1>14. AllFull' => /\ stream'.pos = Least(Len(stream'.hashes) * chunkSize', Total')
                   /\ \A k \in 1 .. Len(stream'.hashes) : stream'.hashes[k] = Client'.hashes[k - 1]
  BY <1>1, <1>6, <1>8, <1>9, <1>13
<1>15. QED
  BY <1>1, <1>4, <1>5, <1>6, <1>7, <1>10, <1>11, <1>12, <1>13, <1>14 DEF IStream

LEMMA IStreamInvariant == Spec => []IStream
<1>1. Init => IStream
  <2>1. SUFFICES ASSUME Init PROVE IStream
    OBVIOUS
  <2>2. stream = [pos |-> 0, hashes |-> <<>>] /\ stage = "cli" /\ file \in Files
    BY <2>1 DEF Init
  <2>3. Total \in Nat /\ U32 \in Nat \ {0}
    BY <2>2, FileDomain, WidthAssumption DEF Total
  <2>4. Len(stream.hashes) = 0 /\ stream.hashes \in Seq(Pieces)
    BY <2>2
  <2>5. QED
    BY <2>2, <2>3, <2>4 DEF IStream
<1>2. IData /\ IStream /\ [Next]_vars => IStream'
  <2>1. SUFFICES ASSUME IData, IStream, [Next]_vars PROVE IStream'
    OBVIOUS
  <2>2. CASE StreamStart
    <3>1. /\ stage = "cli" /\ stage' = "streaming" /\ chunkSize # 0
          /\ UNCHANGED <<file, chunkSize, manifest, stream>>
      BY <2>2 DEF StreamStart
    <3>2. stream.pos = 0 /\ stream.hashes = <<>> /\ Len(stream.hashes) = 0
      BY <2>1, <3>1 DEF IStream
    <3>3. /\ chunkSize \in Nat \ {0} /\ Total \in Nat
          /\ ChunksNeeded(Total, chunkSize) \in 0 .. U32 - 1 /\ U32 \in Nat
      <4>1. chunkSize \in Nat \ {0} /\ file \in Files /\ U32 \in Nat
        BY <2>1, <3>1, WidthAssumption DEF IData
      <4>2. Total \in Nat
        BY <4>1, FileDomain, WidthAssumption DEF Total
      <4>3. QED
        BY <4>1, <4>2, CountType
    <3>4. Least(0 * chunkSize, Total) = 0
      BY <3>3 DEF Least
    <3>5. Total' = Total /\ Pieces' = Pieces /\ stream' = stream /\ chunkSize' = chunkSize
      BY <3>1 DEF Total, Pieces
    <3>6. QED
      BY <2>1, <3>1, <3>2, <3>3, <3>4, <3>5 DEF IStream
  <2>3. ASSUME NEW n \in 0 .. Least(chunkSize, Total - stream.pos), ReadAgain(n)
        PROVE  IStream'
    BY <2>1, <2>3, ReadKeepsStream
  <2>4. CASE StreamEnd
    <3>1. /\ stage = "streaming" /\ stage' = "streamed"
          /\ UNCHANGED <<file, chunkSize, stream>>
          /\ Len(stream.hashes) = ChunksNeeded(Total, chunkSize)
          /\ manifest' = [total |-> Total, size |-> chunkSize, count |-> Len(stream.hashes),
                  hashes |-> [i \in 0 .. Len(stream.hashes) - 1 |-> stream.hashes[i + 1]]]
      BY <2>4 DEF StreamEnd
    <3>2. Total' = Total /\ Pieces' = Pieces /\ Client' = Client
      BY <3>1 DEF Total, Pieces, Client
    <3>3. AllFull' <=> AllFull
      BY <3>1, <3>2 DEF AllFull, FullRead
    <3>4. QED
      BY <2>1, <3>1, <3>2, <3>3 DEF IStream
  <2>5. ASSUME UNCHANGED <<file, chunkSize, stream>>,
               stage' \notin {"cli", "streaming", "streamed"} \/ UNCHANGED <<stage, manifest>>
        PROVE  IStream'
    <3>1. Total' = Total /\ Pieces' = Pieces /\ Client' = Client
      BY <2>5 DEF Total, Pieces, Client
    <3>2. AllFull' <=> AllFull
      BY <2>5, <3>1 DEF AllFull, FullRead
    <3>3. QED
      BY <2>1, <2>5, <3>1, <3>2 DEF IStream
  <2>6. QED
    BY <2>1, <2>2, <2>3, <2>4, <2>5
       DEF Next, PanicBuild, BuildManifest, Submit, FetchManifest, Mark, Heartbeat,
           SplitFile, PanicSplit, EncodeStripe, Encode, Lose, Rebuild, vars, data
<1>3. QED
  BY <1>1, <1>2, IDataInvariant, PTL DEF Spec

(***************************************************************************)
(* Theorems                                                                *)
(***************************************************************************)

\* A manifest that is there is one of this file and chunk size.
LEMMA ManifestShape ==
  ASSUME IData, IStream, HasManifest
  PROVE  /\ IsManifest(manifest) /\ manifest.count = ChunksNeeded(Total, chunkSize)
         /\ chunkSize \in Nat \ {0} /\ file \in Files /\ Total \in Nat /\ Total < U64
<1>1. /\ chunkSize \in Nat \ {0} /\ file \in Files /\ Total \in Nat /\ Total < U64
      /\ U32 \in Nat
  <2>1. chunkSize \in Nat \ {0} /\ file \in Files
    BY WidthAssumption DEF IData, HasManifest, Stages
  <2>2. QED
    BY <2>1, FileDomain, WidthAssumption DEF Total
<1>2. ChunksNeeded(Total, chunkSize) \in 0 .. U32 - 1
  BY <1>1, CountType
<1>3. CASE stage \in {"built", "refused", "job"}
  <2>1. manifest = Client
    BY <1>3 DEF IData
  <2> DEFINE c == ChunksNeeded(Total, chunkSize)
             h == Client.hashes
  <2>2. /\ DOMAIN h = 0 .. c - 1
        /\ Client = [total |-> Total, size |-> chunkSize, count |-> c, hashes |-> h]
    BY DEF Client, Build, Total
  <2> HIDE DEF c, h
  <2>3. /\ DOMAIN manifest = {"total", "size", "count", "hashes"}
        /\ manifest.total = Total /\ manifest.size = chunkSize /\ manifest.count = c
        /\ manifest.hashes = h
    BY <2>1, <2>2
  <2>4. QED
    BY <1>1, <1>2, <2>2, <2>3 DEF IsManifest, c
<1>4. CASE stage = "streamed"
  <2> DEFINE c == Len(stream.hashes)
             h == [i \in 0 .. c - 1 |-> stream.hashes[i + 1]]
  <2>1. c = ChunksNeeded(Total, chunkSize) /\ DOMAIN h = 0 .. c - 1
        /\ manifest = [total |-> Total, size |-> chunkSize, count |-> c, hashes |-> h]
    BY <1>4 DEF IStream
  <2> HIDE DEF c, h
  <2>2. /\ DOMAIN manifest = {"total", "size", "count", "hashes"}
        /\ manifest.total = Total /\ manifest.size = chunkSize /\ manifest.count = c
        /\ manifest.hashes = h
    BY <2>1
  <2>3. QED
    BY <1>1, <1>2, <2>1, <2>2 DEF IsManifest
<1>5. QED
  BY <1>3, <1>4 DEF HasManifest

\* The types of the state: manifests have the counts of their hashes, 32-bit ones, and
\* a streamed file is read no further than its end.
THEOREM TypeCorrect == Spec => []TypeOK
<1>1. IData /\ INode /\ IStream /\ IStripe => TypeOK
  <2>1. SUFFICES ASSUME IData, INode, IStream, IStripe PROVE TypeOK
    OBVIOUS
  <2>2. HasManifest => IsManifest(manifest)
    BY <2>1, ManifestShape
  <2>3. stage = "job" => IsManifest(job)
    BY <2>1, <2>2 DEF HasManifest, IData
  <2>4. QED
    BY <2>1, <2>2, <2>3 DEF TypeOK, IData, INode, IStream, IStripe, Stages
<1>2. QED
  BY <1>1, IDataInvariant, INodeInvariant, IStreamInvariant, IStripeInvariant, PTL

\* The chunks cover every byte of the file once exactly when no sum has wrapped and
\* no count been cut, in memory and streamed.
THEOREM CoverageCorrect == Spec => []ManifestCoversFile
<1>1. IData /\ IStream => ManifestCoversFile
  <2>1. SUFFICES ASSUME IData, IStream, HasManifest
                 PROVE  (\A b \in DOMAIN file :
                           \E i \in 0 .. manifest.count - 1 :
                             /\ Holds(manifest, i, b)
                             /\ \A j \in 0 .. manifest.count - 1 : Holds(manifest, j, b) => i = j)
                        <=> (Total = 0 \/ Fits)
    BY DEF ManifestCoversFile
  <2>2. /\ manifest.total = Total /\ manifest.size = chunkSize
        /\ manifest.count = ChunksNeeded(Total, chunkSize)
        /\ chunkSize \in Nat \ {0} /\ file \in Files /\ Total \in Nat /\ Total < U64
    BY <2>1, ManifestShape DEF IsManifest
  <2>3. DOMAIN file = 0 .. Total - 1
    BY <2>2, FileDomain DEF Total
  <2>4. CASE Total = 0
    BY <2>3, <2>4
  <2>5. CASE Total # 0 /\ Fits
    BY <2>2, <2>3, <2>5, ChunkOfByte DEF Fits
  <2>6. CASE Total # 0 /\ ~ Fits
    <3>1. Total \in 1 .. U64 - 1 /\ chunkSize \in 1 .. U64 - 1 /\ U64 \in Nat
      BY <2>1, <2>2, <2>6, WidthAssumption DEF IData
    <3>2. manifest.count \in Nat /\ manifest.count * chunkSize < Total
      BY <2>2, <2>6, <3>1, TooFewChunks DEF Fits
    <3>3. Total - 1 \in DOMAIN file
      BY <2>3, <3>1
    <3>4. \A i \in 0 .. manifest.count - 1 : ~ Holds(manifest, i, Total - 1)
      BY <2>2, <3>1, <3>2, LastByteUncovered
    <3>5. QED
      BY <2>6, <3>3, <3>4
  <2>7. QED
    BY <2>4, <2>5, <2>6
<1>2. QED
  BY <1>1, IDataInvariant, IStreamInvariant, PTL

\* The tracker has the client's manifest whole or refuses it, and refuses none that
\* the frame has room for.
THEOREM SubmissionCorrect == Spec => []SubmittedWholeOrNot
<1>1. IData => SubmittedWholeOrNot
  BY DEF IData, SubmittedWholeOrNot, Client
<1>2. QED
  BY <1>1, IDataInvariant, PTL

\* build_from_file hashes reads, not chunks.
StreamAgreesUnlessShort ==
  stage = "streamed" =>
    (manifest = Build(file, chunkSize)
     <=> \A i \in 0 .. manifest.count - 1 :
           LET r == ChunkRange(i, chunkSize, Total)
           IN Length(manifest.hashes[i]) = r[2] - r[1])

\* A streamed manifest is that of the same bytes in memory exactly when every read()
\* filled its chunk: only a short read makes what finding 5 shows.
THEOREM StreamCorrect == Spec => []StreamAgreesUnlessShort
<1>1. IData /\ IStream => StreamAgreesUnlessShort
  <2>1. SUFFICES ASSUME IData, IStream, stage = "streamed"
                 PROVE  manifest = Client
                        <=> \A i \in 0 .. manifest.count - 1 :
                              LET r == ChunkRange(i, chunkSize, Total)
                              IN Length(manifest.hashes[i]) = r[2] - r[1]
    BY DEF StreamAgreesUnlessShort, Client
  <2> DEFINE h == stream.hashes
             n == Len(h)
             mh == [i \in 0 .. n - 1 |-> h[i + 1]]
  <2>2. /\ n = ChunksNeeded(Total, chunkSize) /\ n \in Nat /\ chunkSize # 0
        /\ manifest = [total |-> Total, size |-> chunkSize, count |-> n, hashes |-> mh]
    <3>1. n \in Nat
      BY <2>1, WidthAssumption DEF IStream
    <3>2. QED
      BY <2>1, <3>1 DEF IStream, IData, Stages
  <2>3. /\ Client.count = n /\ DOMAIN Client.hashes = 0 .. n - 1
        /\ Client = [total |-> Total, size |-> chunkSize, count |-> n, hashes |-> Client.hashes]
        /\ Client.hashes = [i \in 0 .. n - 1 |-> Client.hashes[i]]
    BY <2>2 DEF Client, Build, Total
  <2>4. manifest.count = n /\ manifest.hashes = mh
    BY <2>2
  <2>5. ASSUME NEW i \in 0 .. n - 1
        PROVE  mh[i] = h[i + 1] /\ i + 1 \in 1 .. n
    BY <2>2
  <2> HIDE DEF mh, n
  <2> DEFINE Chunk(i) == LET r == ChunkRange(i, chunkSize, Total)
                         IN Length(manifest.hashes[i]) = r[2] - r[1]
  <2>6. ASSUME manifest = Client, NEW i \in 0 .. n - 1 PROVE Chunk(i)
    <3>1. i \in 0 .. Client.count - 1
      BY <2>3
    <3>2. QED
      BY <2>1, <2>2, <2>6, <3>1, Chunks
  <2>7. ASSUME \A i \in 0 .. n - 1 : Chunk(i) PROVE manifest = Client
    <3>1. AllFull
      <4>1. ASSUME NEW k \in 1 .. n PROVE FullRead(k)
        <5>1. k - 1 \in 0 .. n - 1 /\ (k - 1) + 1 = k
          BY <2>2
        <5>2. Chunk(k - 1) /\ mh[k - 1] = h[k]
          BY <2>5, <2>7, <5>1
        <5>3. QED
          BY <2>4, <5>2 DEF FullRead
      <4>2. QED
        BY <4>1 DEF AllFull, n
    <3>2. \A k \in 1 .. n : h[k] = Client.hashes[k - 1]
      BY <2>1, <3>1 DEF IStream, n
    <3>3. ASSUME NEW i \in 0 .. n - 1 PROVE mh[i] = Client.hashes[i]
      <4>1. i + 1 \in 1 .. n /\ (i + 1) - 1 = i /\ mh[i] = h[i + 1]
        BY <2>2, <2>5
      <4>2. QED
        BY <3>2, <4>1
    <3>4. mh = [i \in 0 .. n - 1 |-> mh[i]]
      BY DEF mh
    <3>5. mh = Client.hashes
      BY <2>3, <3>3, <3>4
    <3>6. QED
      BY <2>2, <2>3, <3>5
  <2>8. QED
    BY <2>4, <2>6, <2>7
<1>2. QED
  BY <1>1, IDataInvariant, IStreamInvariant, PTL

\* The tracker decodes a heartbeat to the chunks it was sent of, never indexes past
\* its bits, and agrees with the node on completion.
THEOREM BitmapCorrect == Spec => []BitmapSurvives
<1>1. IBitmap => BitmapSurvives
  <2>1. SUFFICES ASSUME IBitmap PROVE BitmapSurvives
    OBVIOUS
  <2> DEFINE sent == seen.sent
             got == seen.got
  <2>2. /\ BitmapOK(sent)
        /\ got = [bits |-> sent.bits, len |-> sent.count,
                  complete |-> Cardinality(sent.bits), count |-> sent.count]
    BY <2>1 DEF IBitmap
  <2> HIDE DEF sent, got
  <2>3. /\ sent.count \in Nat /\ sent.bits \subseteq 0 .. sent.count - 1
        /\ sent.len = sent.count /\ sent.complete = Cardinality(sent.bits)
    BY <2>2 DEF BitmapOK
  <2>4. /\ got.bits = sent.bits /\ got.len = sent.count /\ got.count = sent.count
        /\ got.complete = Cardinality(sent.bits)
    BY <2>2
  <2>5. {i \in 0 .. sent.count - 1 : Has(got, i)} = sent.bits
    BY <2>3, <2>4 DEF Has
  <2>6. \A i \in 0 .. sent.count - 1 : ~ Panics(got, i)
    BY <2>3, <2>4 DEF Panics
  <2>7. Cardinality(sent.bits) = sent.count <=> Missing(sent) = {}
    BY <2>2, CompleteIsFull
  <2>8. QED
    BY <2>3, <2>4, <2>5, <2>6, <2>7 DEF BitmapSurvives, IsComplete, sent, got
<1>2. QED
  BY <1>1, IBitmapInvariant, PTL

\* A file that lost no more shards than the parity is merged to itself; beyond that
\* there is an error.
THEOREM SplitCorrect == Spec => []SplitMergesBack
<1>1. IData /\ IStripe => SplitMergesBack
  <2>1. SUFFICES ASSUME IData, IStripe, stripe.parts = <<>>,
                        stripe.step \in {"rebuilt", "failed"}
                 PROVE  IF Cardinality(Shard \ stripe.present) <= ParityShards
                          THEN stripe.step = "rebuilt" /\ stripe.out = file
                          ELSE stripe.step = "failed"
    BY DEF SplitMergesBack
  <2>2. CanReconstruct(stripe.present) <=> Cardinality(Shard \ stripe.present) <= ParityShards
    BY <2>1, EnoughShards DEF IStripe
  <2>3. CASE stripe.step = "rebuilt"
    <3>1. /\ file \in Files /\ Length(file) > 0
          /\ stripe.out = MergeShards(SplitIntoShards(file), Length(file))
          /\ CanReconstruct(stripe.present)
      BY <2>1, <2>3 DEF IData, IStripe, Total
    <3>2. QED
      BY <2>2, <2>3, <3>1, MergeOfSplit
  <2>4. CASE stripe.step = "failed"
    BY <2>1, <2>2, <2>4 DEF IStripe
  <2>5. QED
    BY <2>1, <2>3, <2>4
<1>2. QED
  BY <1>1, IDataInvariant, IStripeInvariant, PTL

\* Every chunk of a reconstructed stripe is cut out of it by its place and its length
\* in the manifest, and passes verification.
THEOREM StripeCorrect == Spec => []RebuildsEveryChunk
<1>1. IData /\ IStripe => RebuildsEveryChunk
  <2>1. SUFFICES ASSUME IData, IStripe, stage = "job", stripe.step = "rebuilt",
                        NEW j \in DOMAIN stripe.parts
                 PROVE  LET c    == stripe.parts[j]
                            from == (j - 1) * Length(stripe.shards[0])
                            r    == ChunkRange(c, job.size, job.total)
                            to   == from + (r[2] - r[1])
                        IN to <= Length(stripe.out)
                           /\ VerifyChunk(job, c, Slice(stripe.out, from, to))
    BY DEF RebuildsEveryChunk
  <2> DEFINE p == stripe.parts
             datas == [k \in DOMAIN p |-> Client.hashes[p[k]]]
             c == p[j]
             r == ChunkRange(c, chunkSize, Total)
             S == UNION {[0 .. l - 1 -> Nat] : l \in Nat}
  <2>2. /\ job = Client /\ chunkSize # 0 /\ p # <<>>
        /\ p \in UNION {[1 .. n -> 0 .. Client.count - 1] : n \in 1 .. DataShards}
        /\ stripe.shards = BuildStripe(datas)
        /\ stripe.out = MergeStripe(stripe.shards)
    <3>1. p # <<>>
      BY <2>1
    <3>2. QED
      BY <2>1, <3>1, JobCount DEF IStripe, IData, Stages
  <2>3. PICK n \in 1 .. DataShards : p \in [1 .. n -> 0 .. Client.count - 1]
    BY <2>2
  <2>4. chunkSize \in Nat /\ n \in Nat /\ j \in 1 .. n
    BY <2>1, <2>3, ShardsAssumption, WidthAssumption DEF IData
  <2> HIDE DEF r
  <2>5. ASSUME NEW k \in 1 .. n
        PROVE  /\ datas[k] \in S /\ Length(datas[k]) \in 0 .. chunkSize
               /\ datas[k] = Client.hashes[p[k]]
    <3> DEFINE i == p[k]
               q == ChunkRange(i, chunkSize, Total)
               l == q[2] - q[1]
               d == Slice(file, q[1], q[2])
    <3>1. i \in 0 .. Client.count - 1 /\ datas[k] = Client.hashes[i]
      BY <2>3, <2>5
    <3> HIDE DEF i, datas
    <3>2. /\ l \in Nat /\ l <= chunkSize /\ Client.hashes[i] = d
          /\ d \in [0 .. l - 1 -> Nat] /\ Length(d) = l
      <4>1. /\ q[1] \in Nat /\ q[2] \in Nat /\ q[1] <= q[2] /\ q[2] - q[1] <= chunkSize
            /\ Client.hashes[i] = d
            /\ d \in [0 .. (q[2] - q[1]) - 1 -> Nat] /\ Length(d) = q[2] - q[1]
        <5> HIDE DEF q
        <5>1. QED
          BY <2>1, <2>2, <3>1, Chunks DEF q
      <4> HIDE DEF q, d
      <4>2. l \in Nat
        BY <4>1
      <4>3. QED
        BY <4>1, <4>2
    <3> HIDE DEF l, d
    <3>3. d \in S
      BY <3>2
    <3>4. l \in 0 .. chunkSize
      BY <2>4, <3>2
    <3> HIDE DEF S
    <3>5. QED
      BY <3>1, <3>2, <3>3, <3>4 DEF i
  <2>6. datas \in Seq(S) /\ Len(datas) = n /\ Len(datas) \in 1 .. DataShards
    <3>1. DOMAIN datas = 1 .. n
      BY <2>3
    <3> HIDE DEF S
    <3>2. datas = [k \in 1 .. n |-> datas[k]]
      BY <3>1
    <3> HIDE DEF datas
    <3>3. datas \in [1 .. n -> S]
      BY <2>5, <3>2
    <3>4. datas \in Seq(S)
      BY <2>4, <3>3
    <3>5. Len(datas) = n
      BY <2>4, <3>1, <3>4
    <3>6. QED
      BY <3>4, <3>5
  <2> DEFINE sh == stripe.shards
             out == stripe.out
             from == (j - 1) * Length(sh[0])
             len == Length(datas[j])
  <2>7. from + len <= Length(out) /\ Slice(out, from, from + len) = datas[j]
    <3>1. sh = BuildStripe(datas) /\ out = MergeStripe(sh)
      BY <2>2
    <3> HIDE DEF datas, sh, out
    <3>2. \A k \in 1 .. Len(datas) : Length(datas[k]) \in 0 .. chunkSize
      BY <2>5, <2>6
    <3>3. j \in 1 .. Len(datas) /\ chunkSize \in Nat
      BY <2>4, <2>6
    <3>4. LET u == BuildStripe(datas)
              v == MergeStripe(u)
              x == (j - 1) * Length(u[0])
              y == x + Length(datas[j])
          IN y <= Length(v) /\ Slice(v, x, y) = datas[j]
      BY <2>6, <3>2, <3>3, ChunkOfStripe
    <3>5. QED
      BY <3>1, <3>4
  <2>8. datas[j] = Client.hashes[c] /\ len = r[2] - r[1]
    <3>1. c \in 0 .. Client.count - 1 /\ datas[j] = Client.hashes[c]
      BY <2>3, <2>4
    <3> HIDE DEF c, datas
    <3>2. Length(Client.hashes[c]) = r[2] - r[1]
      BY <2>1, <2>2, <3>1, Chunks DEF r
    <3>3. QED
      BY <3>1, <3>2
  <2>9. job.size = chunkSize /\ job.total = Total /\ job.hashes = Client.hashes
    <3>1. Client.size = chunkSize /\ Client.total = Total
      BY DEF Client, Build, Total
    <3>2. QED
      BY <2>2, <3>1
  <2> HIDE DEF datas, len
  <2>10. QED
    BY <2>7, <2>8, <2>9 DEF VerifyChunk, r
<1>2. QED
  BY <1>1, IDataInvariant, IStripeInvariant, PTL

=============================================================================
