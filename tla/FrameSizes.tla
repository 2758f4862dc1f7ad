----------------------------- MODULE FrameSizes -----------------------------
(***************************************************************************)
(* The size classes of the frame allocator (frame_malloc.c).  A class is   *)
(* numbered from 1; a request above the largest class is not the           *)
(* allocator's to serve.                                                   *)
(***************************************************************************)
EXTENDS Integers, Sequences

CONSTANT BucketSizes            \* __cilkrts_bucket_sizes, smallest first

ASSUME BucketSizesIncrease ==
  /\ BucketSizes \in Seq(Nat \ {0}) /\ BucketSizes /= <<>>
  /\ \A i, j \in DOMAIN BucketSizes : i < j => BucketSizes[i] < BucketSizes[j]

FRAME_MALLOC_MAX_SIZE == BucketSizes[Len(BucketSizes)]

bucket_of_size(size) ==
  CHOOSE i \in DOMAIN BucketSizes :
    size <= BucketSizes[i] /\ \A j \in DOMAIN BucketSizes : j < i => size > BucketSizes[j]

size_of_bucket(bucket) == BucketSizes[bucket]

frame_malloc_roundup(size) ==
  IF size > FRAME_MALLOC_MAX_SIZE THEN size ELSE BucketSizes[bucket_of_size(size)]
=============================================================================
