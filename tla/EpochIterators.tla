--------------------------- MODULE EpochIterators ---------------------------
(***************************************************************************)
(* The iterators training reads its batches from, fairseq/data/iterators.py. *)
(* An EpochBatchIterator hands out, epoch after epoch, one CountingIterator *)
(* over this worker's share of the batches, and can be saved and restored  *)
(* in the middle of an epoch.  A GroupedIterator puts the batches together *)
(* that make one update.                                                   *)
(*                                                                         *)
(* All workers are in lockstep and read the same positions of their        *)
(* shares, so an iterator is only its epoch, the way its batches were      *)
(* ordered and the count of those consumed; what a worker reads there is   *)
(* ShardOf.                                                                *)
(***************************************************************************)
EXTENDS Integers, SequencesExt

CONSTANTS
  NumBatches,  \* the batches of the data set, the same in every epoch
  Prefetch,    \* does the data set support prefetching?
  None         \* Python's None

ASSUME BatchesAssumption == NumBatches \in Nat \ {0} /\ Prefetch \in BOOLEAN

Batch == 1 .. NumBatches
Empty == 0     \* the fill value of the shares that are one batch short

CeilDiv(a, b) == (a + b - 1) \div b

-----------------------------------------------------------------------------
(***************************************************************************)
(* The order of the batches.                                               *)
(***************************************************************************)

\* np.random.shuffle under a seed: some permutation that the seed determines.
shuffle_batches(batches, seed) ==
  [i \in DOMAIN batches |-> batches[((i - 1 + seed) % Len(batches)) + 1]]

ShardLen(shards) == CeilDiv(NumBatches, shards)

\* Every shards-th batch from the shard's own on, filled up to a common length.
ShardedIterator(batches, shards, shard) ==
  [i \in 1 .. CeilDiv(Len(batches), shards) |->
     LET at == (i - 1) * shards + shard + 1
     IN  IF at <= Len(batches) THEN batches[at] ELSE Empty]

\* With fix, batches stay with their worker: each share is shuffled by itself.
ShardOf(itr, shards, shard) ==
  LET frozen == [i \in Batch |-> i]
      fixed  == Prefetch /\ itr.fix
  IN  IF ~ itr.shuffle THEN ShardedIterator(frozen, shards, shard)
      ELSE IF fixed
      THEN shuffle_batches(ShardedIterator(frozen, shards, shard), itr.epoch + shard)
      ELSE ShardedIterator(shuffle_batches(frozen, itr.epoch), shards, shard)

-----------------------------------------------------------------------------
(***************************************************************************)
(* CountingIterator and EpochBatchIterator.                                *)
(***************************************************************************)

\* A CountingIterator is told from none.
Iterators == [epoch : Nat, shuffle : BOOLEAN, fix : BOOLEAN, n : Nat]

ASSUME NoneAssumption == None \notin Iterators

CountingIterator(epoch, shuffle, fix, start) ==
  [epoch |-> epoch, shuffle |-> shuffle, fix |-> fix, n |-> start]

has_next(itr, shards) == itr.n < ShardLen(shards)

\* None when the offset is beyond the share.
get_iterator_for_epoch(epoch, shuffle, fix, offset, shards) ==
  IF offset > 0 /\ offset >= ShardLen(shards) THEN None
  ELSE CountingIterator(epoch, shuffle, fix, offset)

EpochBatchIterator(epoch) ==
  [epoch |-> epoch, shuffle |-> TRUE, cur |-> None, next |-> None]

end_of_epoch(itr, shards) == ~ has_next(itr.cur, shards)

next_epoch_idx(itr, shards) ==
  IF itr.next # None THEN itr.epoch
  ELSE IF itr.cur # None /\ end_of_epoch(itr, shards) THEN itr.epoch + 1
  ELSE itr.epoch

next_epoch_itr(itr, shuffle, fix, shards) ==
  LET epoch == next_epoch_idx(itr, shards)
  IN  [epoch   |-> epoch,
       shuffle |-> shuffle,
       cur     |-> IF itr.next # None THEN itr.next
                   ELSE get_iterator_for_epoch(epoch, shuffle, fix, 0, shards),
       next    |-> None]

\* Bug: the end of an epoch is saved as the beginning of the same one.
state_dict_sameEpoch(itr, shards) ==
  [epoch |-> itr.epoch, shuffle |-> itr.shuffle,
   iterations_in_epoch |-> IF end_of_epoch(itr, shards) THEN 0 ELSE itr.cur.n]

state_dict(itr, shards) ==
  IF end_of_epoch(itr, shards)
  THEN [epoch |-> itr.epoch + 1, iterations_in_epoch |-> 0, shuffle |-> itr.shuffle]
  ELSE [epoch |-> itr.epoch, iterations_in_epoch |-> itr.cur.n, shuffle |-> itr.shuffle]

\* Bug: the share is read from its beginning again.
load_state_dict_noOffset(itr, saved, shards) ==
  [itr EXCEPT !.epoch = saved.epoch, !.next = None]

\* Whether batches were fixed to their workers is not among what was saved.
load_state_dict(itr, saved, shards) ==
  [itr EXCEPT
     !.epoch = saved.epoch,
     !.next  = IF saved.iterations_in_epoch > 0
               THEN get_iterator_for_epoch(saved.epoch, saved.shuffle, FALSE,
                                           saved.iterations_in_epoch, shards)
               ELSE None]

-----------------------------------------------------------------------------
(***************************************************************************)
(* GroupedIterator: its count and total are in groups.                     *)
(***************************************************************************)

\* Bug: the groups that were read before the restart are not counted.
GroupedIterator_fromZero(itr, chunk_size, shards) ==
  [n |-> 0, total |-> CeilDiv(ShardLen(shards), chunk_size), chunk |-> chunk_size]

GroupedIterator(itr, chunk_size, shards) ==
  [n     |-> CeilDiv(itr.n, chunk_size),
   total |-> CeilDiv(ShardLen(shards), chunk_size),
   chunk |-> chunk_size]

\* How many batches the next group has: the last one may be smaller.
ChunkLen(grouped, itr, shards) ==
  LET left == ShardLen(shards) - itr.n
  IN  IF left < grouped.chunk THEN left ELSE grouped.chunk

\* The next group, worker by worker.
Chunk(grouped, itr, shards, shard) ==
  SubSeq(ShardOf(itr, shards, shard), itr.n + 1, itr.n + ChunkLen(grouped, itr, shards))
=============================================================================
