--------------------------------- MODULE Erasure ---------------------------------
(***************************************************************************)
(* Shards and stripes (src/src/erasure.rs) over a code of which only this  *)
(* is assumed: any DataShards of the shards give back all of them.  Parity *)
(* shards therefore have no content here, a stripe is its data shards.     *)
(***************************************************************************)
EXTENDS Manifest, Sequences

CONSTANTS DataShards, ParityShards

ASSUME ShardsAssumption ==
  DataShards \in Nat \ {0} /\ ParityShards \in Nat \ {0}

Shard == 0 .. DataShards + ParityShards - 1

\* resize(size, 0): cut, or filled with zeros.
Resize(bytes, size) ==
  [b \in 0 .. size - 1 |-> IF b \in DOMAIN bytes THEN bytes[b] ELSE 0]

\* Mutant: the size of a shard is rounded down.
ShardSizeFloor(data) == Length(data) \div DataShards

ShardSize(data) == Ceil(Length(data), DataShards)

\* split_into_shards; chunks(0) panics for empty data.
SplitPanics(data) == ShardSize(data) = 0

SplitIntoShards(data) ==
  LET s == ShardSize(data)
  IN [j \in 0 .. DataShards - 1 |->
        Resize(Slice(data, Least(j * s, Length(data)), Least(j * s + s, Length(data))), s)]

\* merge_shards of shards of one size, none of the first DataShards missing.
MergeShards(shards, len) ==
  LET s == Length(shards[0])
  IN [b \in 0 .. Least(len, DataShards * s) - 1 |-> shards[b \div s][b % s]]

\* reconstruct gives back all shards, or an error if too few are present.
CanReconstruct(present) == Cardinality(present) >= DataShards

\* Mutant: the first chunk of the stripe gives the size.
StripeSizeOfFirst(datas) == Length(datas[1])

\* The largest chunk of the stripe.
StripeSize(datas) ==
  CHOOSE s \in {Length(datas[i]) : i \in DOMAIN datas} :
    \A i \in DOMAIN datas : Length(datas[i]) <= s

\* One window of build_ec_stripes: chunks of any length, at most DataShards.
BuildStripe(datas) ==
  [j \in 0 .. DataShards - 1 |->
     IF j < Len(datas) THEN Resize(datas[j + 1], StripeSize(datas))
     ELSE Resize(<<>>, StripeSize(datas))]

\* reconstruct_stripe: all data shards in a row, zeros included.
MergeStripe(shards) == MergeShards(shards, Length(shards[0]) * DataShards)
=============================================================================
