--------------------------- MODULE Training_proofs ---------------------------
(***************************************************************************)
(* Theorems of Training, for every configuration, every data set, every    *)
(* bound, every crash and restart, and also when files cannot be written   *)
(* (but for the theorems that say so): the number of updates is right, the *)
(* iterators agree on the end of an epoch, every batch is trained on once  *)
(* in an epoch, the variables keep to their types, the best checkpoint is  *)
(* the best, the file of an epoch stays, there is a checkpoint to go on    *)
(* from, and the loss scale grows after a whole window only.  All but the  *)
(* last rest on what the files hold, since a restart takes everything from *)
(* one.                                                                    *)
(***************************************************************************)
EXTENDS Training, FiniteSetTheorems, TLAPS

IsSequence(s) == \E S : s \in Seq(S)

UpdatesOf(steps) == {i \in DOMAIN steps : steps[i].outcome = "update"}

\* A model that was trained with n updates.
Counted(l, n) == IsSequence(l.steps) /\ n = Cardinality(UpdatesOf(l.steps))

\* What is in memory is right, and what is in every file that can be read ...
MemoryCounted == Up => Counted(lineage, num_updates)
FilesCounted  == \A f \in DOMAIN dir : dir[f] # Torn => Counted(dir[f].lineage, dir[f].num_updates)

\* ... because copies are made of a file that is there.
SourceIsThere ==
  /\ DOMAIN save = {"files", "source", "open", "old", "loss", "stop"}
  /\ save.open => save.files # << >> /\ Head(save.files) \in DOMAIN dir
  /\ save.source # None /\ save.files # << >> => save.source \in DOMAIN dir
  /\ proc # "saving" => save.source = None /\ ~ save.open

CountInv == MemoryCounted /\ FilesCounted /\ SourceIsThere

-----------------------------------------------------------------------------
LEMMA NothingCounted == Counted(NoLineage, 0)
<1>1. NoLineage.steps = << >> /\ << >> \in Seq({})
  BY DEF NoLineage
<1>2. UpdatesOf(<< >>) = {}
  BY DEF UpdatesOf
<1>. QED
  BY <1>1, <1>2, FS_EmptySet DEF Counted, IsSequence

\* One step more, and one update more if it is one.
LEMMA OneMoreStep ==
  ASSUME NEW l, NEW n, Counted(l, n), NEW s, NEW losses, NEW others
  PROVE  Counted([steps |-> Append(l.steps, s), losses |-> losses, others |-> others],
                 IF s.outcome = "update" THEN n + 1 ELSE n)
<1>. DEFINE steps == l.steps
            A     == Append(steps, s)
<1>1. PICK S : steps \in Seq(S)
  BY DEF Counted, IsSequence
<1>2. steps \in Seq(S \cup {s}) /\ s \in S \cup {s}
  BY <1>1
<1>3. A \in Seq(S \cup {s})
  BY <1>2
<1>4. /\ Len(steps) \in Nat /\ DOMAIN steps = 1 .. Len(steps) /\ DOMAIN A = 1 .. Len(steps) + 1
      /\ \A i \in 1 .. Len(steps) : A[i] = steps[i]
      /\ A[Len(steps) + 1] = s
  BY <1>2
<1>5. n = Cardinality(UpdatesOf(steps))
  BY DEF Counted
<1>. HIDE DEF A, steps
<1>6. IsFiniteSet(UpdatesOf(steps)) /\ Len(steps) + 1 \notin UpdatesOf(steps)
  <2>1. UpdatesOf(steps) \subseteq 1 .. Len(steps)
    BY <1>4 DEF UpdatesOf
  <2>2. IsFiniteSet(1 .. Len(steps))
    BY <1>4, FS_Interval
  <2>. QED
    BY <1>4, <2>1, <2>2, FS_Subset
<1>7. UpdatesOf(A) = IF s.outcome = "update" THEN UpdatesOf(steps) \cup {Len(steps) + 1}
                     ELSE UpdatesOf(steps)
  <2>1. \A i \in DOMAIN A : (i \in DOMAIN steps /\ A[i] = steps[i]) \/ i = Len(steps) + 1
    BY <1>4
  <2>2. DOMAIN steps \subseteq DOMAIN A /\ Len(steps) + 1 \in DOMAIN A
    BY <1>4
  <2>. QED
    BY <1>4, <2>1, <2>2 DEF UpdatesOf
<1>8. Cardinality(UpdatesOf(A)) = IF s.outcome = "update" THEN n + 1 ELSE n
  BY <1>5, <1>6, <1>7, FS_AddElement
<1>. QED
  BY <1>3, <1>8 DEF Counted, IsSequence, A, steps

LEMMA InitCounts == Init => CountInv
  BY DEF Init, CountInv, MemoryCounted, FilesCounted, SourceIsThere, Up, NoSave

-----------------------------------------------------------------------------
LEMMA NoMemoryCounts ==
  ASSUME CountInv, NoMemory, dir' = dir, proc' \in {"down", "done"}
  PROVE  CountInv'
  BY DEF CountInv, NoMemory, MemoryCounted, FilesCounted, SourceIsThere, Up, NoSave

LEMMA LaunchCounts ==
  ASSUME CountInv, LaunchNew \/ \E file \in DOMAIN dir : LaunchFrom(file)
  PROVE  CountInv'
<1>1. dir' = dir /\ save' = NoSave /\ Counted(lineage', num_updates')
  <2>1. CASE LaunchNew
    BY <2>1, NothingCounted DEF LaunchNew
  <2>2. CASE \E file \in DOMAIN dir : LaunchFrom(file)
    BY <2>2 DEF LaunchFrom, CountInv, FilesCounted, Counted
  <2>. QED
    BY <2>1, <2>2
<1>. QED
  BY <1>1 DEF CountInv, MemoryCounted, FilesCounted, SourceIsThere, NoSave

LEMMA TrainStepCounts ==
  ASSUME CountInv, NEW outcome, NEW loss, TrainStep(outcome, loss)
  PROVE  CountInv'
<1>1. /\ Up /\ dir' = dir
      /\ num_updates' = UpdatesAfter(outcome)
      /\ \E losses : lineage' = [steps |-> Append(lineage.steps, Step(outcome)), losses |-> losses,
                                  others |-> lineage.others]
  BY DEF TrainStep, Up
<1>2. SourceIsThere'
  <2>1. DOMAIN save' = DOMAIN NoSave /\ save'.source = None /\ ~ save'.open
    BY DEF TrainStep, NoSave
  <2>. QED
    BY <2>1 DEF SourceIsThere, NoSave
<1>3. Step(outcome).outcome = outcome
  BY DEF Step
<1>4. Counted(lineage', num_updates')
  BY <1>1, <1>3, OneMoreStep DEF CountInv, MemoryCounted, UpdatesAfter
<1>. QED
  BY <1>1, <1>2, <1>4 DEF CountInv, MemoryCounted, FilesCounted

LEMMA OpenFileCounts ==
  ASSUME CountInv, OpenFile
  PROVE  CountInv'
<1>1. /\ DOMAIN dir' = DOMAIN dir \cup {Head(save.files)}
      /\ \A f \in DOMAIN dir' : dir'[f] = Torn \/ (f \in DOMAIN dir /\ dir'[f] = dir[f])
  BY DEF OpenFile
<1>2. SourceIsThere'
  BY <1>1 DEF OpenFile, CountInv, SourceIsThere
<1>. QED
  BY <1>1, <1>2 DEF OpenFile, CountInv, MemoryCounted, FilesCounted, Up

LEMMA WriteFileCounts ==
  ASSUME CountInv, WriteFile
  PROVE  CountInv'
<1>1. PICK content \in IF save.source = None THEN Written ELSE {dir[save.source]} :
        dir' = [dir EXCEPT ![Head(save.files)] = content]
  BY DEF WriteFile
<1>2. Up /\ Counted(lineage, num_updates)
  BY DEF WriteFile, CountInv, MemoryCounted, Up
<1>3. content # Torn => Counted(content.lineage, content.num_updates)
  <2>1. CASE save.source = None
    BY <1>1, <1>2, <2>1 DEF Written, Content
  <2>2. CASE save.source # None
    BY <1>1, <2>2 DEF CountInv, FilesCounted, SourceIsThere, WriteFile
  <2>. QED
    BY <2>1, <2>2
<1>4. SourceIsThere'
  BY <1>1 DEF WriteFile, CountInv, SourceIsThere
<1>5. FilesCounted'
  BY <1>1, <1>3 DEF CountInv, FilesCounted
<1>. QED
  BY <1>2, <1>4, <1>5 DEF WriteFile, CountInv, MemoryCounted, Up

LEMMA NextCounts == CountInv /\ [Next]_vars => CountInv'
<1>. SUFFICES ASSUME CountInv, [Next]_vars PROVE CountInv'
  OBVIOUS
<1>1. CASE LaunchNew \/ \E file \in DOMAIN dir : LaunchFrom(file)
  BY <1>1, LaunchCounts
<1>2. CASE BeginEpoch
  BY <1>2 DEF BeginEpoch, CountInv, MemoryCounted, FilesCounted, SourceIsThere, Up
<1>3. CASE EndTraining \/ Crash
  BY <1>3, NoMemoryCounts DEF EndTraining, Crash
<1>4. CASE \E outcome \in Outcomes, loss \in Losses \cup {None} : TrainStep(outcome, loss)
  BY <1>4, TrainStepCounts
<1>5. CASE OpenFile
  BY <1>5, OpenFileCounts
<1>6. CASE WriteFile
  BY <1>6, WriteFileCounts
<1>7. CASE RemoveFile
  <2>1. /\ DOMAIN dir' \subseteq DOMAIN dir /\ \A f \in DOMAIN dir' : dir'[f] = dir[f]
    BY <1>7 DEF RemoveFile, Restrict
  <2>2. SourceIsThere'
    BY <1>7, <2>1 DEF RemoveFile, CountInv, SourceIsThere
  <2>. QED
    BY <1>7, <2>1, <2>2 DEF RemoveFile, CountInv, MemoryCounted, FilesCounted, Up
<1>8. CASE EndSave
  <2>1. CASE save.stop
    BY <1>8, <2>1, NoMemoryCounts DEF EndSave
  <2>2. CASE ~ save.stop
    BY <1>8, <2>2 DEF EndSave, CountInv, MemoryCounted, FilesCounted, SourceIsThere, Up, NoSave
  <2>. QED
    BY <2>1, <2>2
<1>9. CASE UNCHANGED vars
  BY <1>9 DEF vars, memory, CountInv, MemoryCounted, FilesCounted, SourceIsThere, Up
<1>. QED
  BY <1>1, <1>2, <1>3, <1>4, <1>5, <1>6, <1>7, <1>8, <1>9 DEF Next

\* The number of updates is that of the model at every moment of every launch: restoring,
\* steps that overflow or run out of memory, copied, torn and removed files included.
THEOREM UpdatesCorrect == Spec => []UpdatesAreCounted
<1>1. CountInv => UpdatesAreCounted
  BY DEF CountInv, MemoryCounted, UpdatesAreCounted, Counted, UpdatesOf
<1>. QED
  BY <1>1, InitCounts, NextCounts, PTL DEF Spec

-----------------------------------------------------------------------------
(***************************************************************************)
(* Groups and batches: where a group ends after m groups of c batches.     *)
(***************************************************************************)

LEMMA DivIs ==
  ASSUME NEW a \in Nat, NEW c \in Nat \ {0}, NEW q \in Nat, q * c <= a, a < q * c + c
  PROVE  a \div c = q
  BY Z3T(30)

LEMMA DivBounds ==
  ASSUME NEW a \in Nat, NEW c \in Nat \ {0}
  PROVE  a \div c \in Nat /\ (a \div c) * c <= a /\ a < (a \div c) * c + c
  BY Z3T(30)

LEMMA GroupsMore ==
  ASSUME NEW m \in Nat, NEW c \in Nat
  PROVE  (m + 1) * c = m * c + c /\ m * c \in Nat
  BY Z3T(30)

LEMMA FewerGroups ==
  ASSUME NEW a \in Nat, NEW b \in Nat, NEW c \in Nat \ {0}, a * c < b * c
  PROVE  a < b
  BY Z3T(30)

LEMMA CeilDivExact ==
  ASSUME NEW m \in Nat, NEW c \in Nat \ {0}
  PROVE  CeilDiv(m * c, c) = m
<1>1. m * c \in Nat
  BY GroupsMore
<1>. DEFINE p == m * c
<1>. HIDE DEF p
<1>2. p \in Nat /\ p + c - 1 \in Nat /\ m * c = p
  BY <1>1 DEF p
<1>. QED
  BY <1>2, DivIs DEF CeilDiv

\* The last group begins before the end, and it is the last one.
LEMMA CeilDivLast ==
  ASSUME NEW m \in Nat, NEW c \in Nat \ {0}, NEW len \in Nat, m * c < len, len <= m * c + c
  PROVE  CeilDiv(len, c) = m + 1
<1>1. (m + 1) * c = m * c + c /\ m * c \in Nat
  BY GroupsMore
<1>2. len + c - 1 \in Nat /\ (m + 1) * c <= len + c - 1 /\ len + c - 1 < (m + 1) * c + c
  BY <1>1
<1>. QED
  BY <1>2, DivIs DEF CeilDiv

LEMMA CeilDivEnough ==
  ASSUME NEW c \in Nat \ {0}, NEW len \in Nat
  PROVE  CeilDiv(len, c) \in Nat /\ len <= CeilDiv(len, c) * c
<1>1. len + c - 1 \in Nat
  OBVIOUS
<1>. DEFINE q == (len + c - 1) \div c
<1>2. q \in Nat /\ q * c \in Nat /\ len + c - 1 < q * c + c
  BY <1>1, DivBounds, GroupsMore
<1>. HIDE DEF q
<1>3. len <= q * c
  BY <1>2
<1>. QED
  BY <1>2, <1>3 DEF CeilDiv, q

LEMMA CeilDivPositive ==
  ASSUME NEW c \in Nat \ {0}, NEW len \in Nat \ {0}
  PROVE  CeilDiv(len, c) \in Nat \ {0}
<1>1. CeilDiv(len, c) \in Nat /\ len <= CeilDiv(len, c) * c
  BY CeilDivEnough
<1>2. CeilDiv(len, c) # 0
  BY <1>1
<1>. QED
  BY <1>1, <1>2

-----------------------------------------------------------------------------
(***************************************************************************)
(* Where training stands in an epoch, in memory and in every file: at the  *)
(* end of a group of the size that is set for that epoch.                  *)
(***************************************************************************)

Epochs == Nat \ {0}

\* The batches of an update in an epoch, and those of a worker's share.
Freq(epoch) == config.update_freq[Min({epoch, Len(config.update_freq)})]
Share       == ShardLen(config.shards)

EpochItrs == [epoch : Epochs, shuffle : BOOLEAN,
              cur : Iterators \cup {None}, next : Iterators \cup {None}]
Positions == [epoch : Epochs, iterations_in_epoch : Nat, shuffle : BOOLEAN]
Groupings == [n : Nat, total : Nat, chunk : Nat \ {0}]

\* An update may begin after the first k batches of the epoch.
Resumable(epoch, k) == k < Share /\ \E m \in Nat : k = m * Freq(epoch)

FilesAligned ==
  \A f \in DOMAIN dir : dir[f] # Torn =>
    LET position == dir[f].train_iterator IN
    position \in Positions /\ Resumable(position.epoch, position.iterations_in_epoch)

\* Between two epochs, or before the first one of a launch.
EpochAligned ==
  proc = "epoch" =>
    /\ epoch_itr \in EpochItrs
    /\ \/ epoch_itr.next = None /\ epoch_itr.cur = None
       \/ epoch_itr.next \in Iterators /\ Resumable(epoch_itr.epoch, epoch_itr.next.n)
       \/ epoch_itr.next = None /\ epoch_itr.cur \in Iterators /\ epoch_itr.cur.n = Share

\* After m groups of c batches of a share of len: in its middle, or at its end.
Aligned(n, m, c, len) == (n < len /\ n = m * c) \/ (n = len /\ m = CeilDiv(len, c))

GroupsAligned ==
  proc \in {"train", "saving"} =>
    /\ epoch_itr \in EpochItrs /\ epoch_itr.cur \in Iterators /\ epoch_itr.next = None
    /\ grouped \in Groupings
    /\ grouped.chunk = Freq(epoch_itr.epoch) /\ grouped.total = CeilDiv(Share, grouped.chunk)
    /\ Aligned(epoch_itr.cur.n, grouped.n, grouped.chunk, Share)

AlignInv == config \in Configs /\ FilesAligned /\ EpochAligned /\ GroupsAligned

LEMMA FreqType ==
  ASSUME config \in Configs, NEW epoch \in Epochs
  PROVE  Freq(epoch) \in Nat \ {0} /\ Share \in Nat \ {0} /\ config.fix_batches_to_gpus \in BOOLEAN
<1>1. /\ config.shards \in Nat \ {0} /\ config.fix_batches_to_gpus \in BOOLEAN
      /\ config.update_freq # << >> /\ config.update_freq \in Seq(Nat \ {0})
  BY ConfigsAssumption
<1>2. Share \in Nat \ {0}
  BY <1>1, CeilDivPositive, BatchesAssumption DEF Share, ShardLen
<1>. DEFINE freqs == config.update_freq
            at    == Min({epoch, Len(freqs)})
<1>3. Len(freqs) \in Nat \ {0}
  BY <1>1
<1>4. at \in {epoch, Len(freqs)} /\ \A y \in {epoch, Len(freqs)} : at <= y
  <2>1. \E x \in {epoch, Len(freqs)} : \A y \in {epoch, Len(freqs)} : x <= y
    BY <1>3 DEF Epochs
  <2>. QED
    BY <2>1 DEF Min
<1>. HIDE DEF at
<1>5. at \in 1 .. Len(freqs)
  BY <1>3, <1>4 DEF Epochs
<1>6. freqs[at] \in Nat \ {0}
  BY <1>1, <1>5
<1>. QED
  BY <1>1, <1>2, <1>6 DEF Freq, at

LEMMA StartResumable ==
  ASSUME config \in Configs, NEW epoch \in Epochs
  PROVE  Resumable(epoch, 0)
<1>1. Freq(epoch) \in Nat /\ Share \in Nat \ {0} /\ 0 \in Nat
  BY FreqType
<1>2. 0 = 0 * Freq(epoch) /\ 0 < Share
  BY <1>1
<1>. QED
  BY <1>1, <1>2 DEF Resumable

LEMMA AlignedGroupsMore ==
  ASSUME NEW n \in Nat, NEW m \in Nat, NEW c \in Nat \ {0}, NEW len \in Nat, n < len,
         Aligned(n, m, c, len)
  PROVE  LET some == IF len - n < c THEN len - n ELSE c
         IN  n + some \in Nat /\ Aligned(n + some, m + 1, c, len)
<1>1. n = m * c /\ (m + 1) * c = m * c + c /\ m * c \in Nat
  BY GroupsMore DEF Aligned
<1>2. CASE len <= n + c
  <2>1. CeilDiv(len, c) = m + 1
    BY <1>1, <1>2, CeilDivLast
  <2>2. n + (IF len - n < c THEN len - n ELSE c) = len
    BY <1>2
  <2>. QED
    BY <2>1, <2>2 DEF Aligned
<1>3. CASE n + c < len
  BY <1>1, <1>3 DEF Aligned
<1>. QED
  BY <1>2, <1>3

\* What the two iterators say of the end of the epoch.
LEMMA AlignedEnds ==
  ASSUME NEW n \in Nat, NEW m \in Nat, NEW c \in Nat \ {0}, NEW len \in Nat,
         Aligned(n, m, c, len)
  PROVE  (m >= CeilDiv(len, c)) <=> (n >= len)
<1>1. CeilDiv(len, c) \in Nat /\ len <= CeilDiv(len, c) * c
  BY CeilDivEnough
<1>2. CASE n < len /\ n = m * c
  <2>. DEFINE t == CeilDiv(len, c)
  <2>1. t \in Nat /\ len <= t * c
    BY <1>1
  <2>. HIDE DEF t
  <2>2. m * c \in Nat /\ t * c \in Nat
    BY <2>1, GroupsMore
  <2>3. m * c < t * c
    BY <1>2, <2>1, <2>2
  <2>4. m < t
    BY <2>1, <2>3, FewerGroups
  <2>. QED
    BY <1>2, <2>1, <2>4 DEF t
<1>3. CASE n = len /\ m = CeilDiv(len, c)
  BY <1>1, <1>3
<1>. QED
  BY <1>2, <1>3 DEF Aligned

\* The position that a checkpoint written now would have.
LEMMA PositionSaved ==
  ASSUME AlignInv, proc = "saving"
  PROVE  LET position == state_dict(epoch_itr, config.shards) IN
         position \in Positions /\ Resumable(position.epoch, position.iterations_in_epoch)
<1>1. /\ epoch_itr \in EpochItrs /\ epoch_itr.cur \in Iterators /\ config \in Configs
      /\ grouped \in Groupings /\ grouped.chunk = Freq(epoch_itr.epoch)
      /\ Aligned(epoch_itr.cur.n, grouped.n, grouped.chunk, Share)
  BY DEF AlignInv, GroupsAligned
<1>2. /\ epoch_itr.epoch \in Epochs /\ epoch_itr.shuffle \in BOOLEAN
      /\ epoch_itr.epoch + 1 \in Epochs /\ epoch_itr.cur.n \in Nat /\ grouped.n \in Nat
  BY <1>1 DEF EpochItrs, Epochs, Iterators, Groupings
<1>3. Share \in Nat
  BY <1>1, <1>2, FreqType
<1>4. CASE end_of_epoch(epoch_itr, config.shards)
  BY <1>1, <1>2, <1>4, StartResumable DEF state_dict, Positions
<1>5. CASE ~ end_of_epoch(epoch_itr, config.shards)
  <2>1. epoch_itr.cur.n < Share
    BY <1>5 DEF end_of_epoch, has_next, Share
  <2>2. epoch_itr.cur.n = grouped.n * Freq(epoch_itr.epoch)
    BY <1>1, <1>2, <1>3, <2>1 DEF Aligned
  <2>3. Resumable(epoch_itr.epoch, epoch_itr.cur.n)
    BY <1>2, <2>1, <2>2 DEF Resumable
  <2>. QED
    BY <1>2, <1>5, <2>3 DEF state_dict, Positions
<1>. QED
  BY <1>4, <1>5

\* What is restored from such a position.
LEMMA PositionRestored ==
  ASSUME config \in Configs, NEW position \in Positions,
         Resumable(position.epoch, position.iterations_in_epoch)
  PROVE  LET itr == load_state_dict(EpochBatchIterator(position.epoch), position, config.shards)
         IN  /\ itr \in EpochItrs /\ itr.cur = None /\ itr.epoch = position.epoch /\ itr.shuffle
             /\ itr.next = IF position.iterations_in_epoch > 0
                           THEN CountingIterator(position.epoch, position.shuffle, FALSE,
                                                 position.iterations_in_epoch)
                           ELSE None
             /\ \/ itr.next = None
                \/ itr.next \in Iterators /\ Resumable(itr.epoch, itr.next.n)
<1>. DEFINE k   == position.iterations_in_epoch
            itr == load_state_dict(EpochBatchIterator(position.epoch), position, config.shards)
            cnt == CountingIterator(position.epoch, position.shuffle, FALSE, k)
<1>1. position.epoch \in Epochs /\ position.shuffle \in BOOLEAN /\ k \in Nat /\ k < Share
  BY DEF Positions, Resumable
<1>2. Share \in Nat
  BY <1>1, FreqType
<1>3. cnt \in Iterators /\ cnt.n = k
  <2>. HIDE DEF k
  <2>1. position.epoch \in Nat
    BY <1>1 DEF Epochs
  <2>. QED
    BY <1>1, <2>1 DEF CountingIterator, Iterators
<1>. DEFINE len == ShardLen(config.shards)
            all == [epoch |-> position.epoch, shuffle |-> position.shuffle, fix |-> FALSE, n |-> k]
            nxt == IF k > 0 THEN IF k > 0 /\ k >= len THEN None ELSE all ELSE None
            new == EpochBatchIterator(position.epoch)
<1>4. itr = [new EXCEPT !.epoch = position.epoch, !.next = nxt]
  BY DEF load_state_dict, get_iterator_for_epoch, CountingIterator
<1>5. nxt = IF k > 0 THEN cnt ELSE None
  <2>1. ~ (k >= len) /\ cnt = all
    BY <1>1, <1>2 DEF Share, CountingIterator
  <2>. HIDE DEF len, all, cnt, k
  <2>. QED
    BY <2>1
<1>6. new \in EpochItrs /\ new.cur = None /\ new.shuffle
  BY <1>1 DEF EpochBatchIterator, EpochItrs
<1>. HIDE DEF itr, new, nxt, cnt, k
<1>7. nxt \in Iterators \cup {None}
  BY <1>3, <1>5
<1>8. /\ itr \in EpochItrs /\ itr.epoch = position.epoch /\ itr.shuffle
      /\ itr.next = nxt /\ itr.cur = None
  BY <1>1, <1>4, <1>6, <1>7 DEF EpochItrs
<1>9. nxt # None => Resumable(itr.epoch, nxt.n)
  BY <1>3, <1>5, <1>8 DEF k
<1>. QED
  BY <1>5, <1>7, <1>8, <1>9 DEF itr, cnt, k

LEMMA FilesStayAligned ==
  ASSUME FilesAligned, config' = config,
         \A f \in DOMAIN dir' : dir'[f] = Torn \/ (f \in DOMAIN dir /\ dir'[f] = dir[f])
  PROVE  FilesAligned'
  BY DEF FilesAligned, Resumable, Freq, Share

\* Steps of a launch that leave its iterators alone.
LEMMA ItrsStayAligned ==
  ASSUME AlignInv, UNCHANGED <<config, proc, epoch_itr, grouped>>, FilesAligned'
  PROVE  AlignInv'
<1>1. EpochAligned'
  BY DEF AlignInv, EpochAligned, Resumable, Freq, Share
<1>2. GroupsAligned'
  BY DEF AlignInv, GroupsAligned, Freq, Share
<1>. QED
  BY <1>1, <1>2 DEF AlignInv

LEMMA NoMemoryAligned ==
  ASSUME AlignInv, config' = config, dir' = dir, proc' \in {"down", "done"}
  PROVE  AlignInv'
  BY FilesStayAligned DEF AlignInv, EpochAligned, GroupsAligned

LEMMA LaunchAligned ==
  ASSUME AlignInv, LaunchNew \/ \E file \in DOMAIN dir : LaunchFrom(file)
  PROVE  AlignInv'
<1>1. config' = config /\ dir' = dir /\ proc' = "epoch" /\ config \in Configs
  BY DEF LaunchNew, LaunchFrom, AlignInv
<1>2. FilesAligned'
  BY <1>1, FilesStayAligned DEF AlignInv
<1>3. CASE LaunchNew
  <2>1. epoch_itr' = EpochBatchIterator(1)
    BY <1>3 DEF LaunchNew
  <2>2. epoch_itr' \in EpochItrs /\ epoch_itr'.next = None /\ epoch_itr'.cur = None
    BY <2>1 DEF EpochBatchIterator, EpochItrs, Epochs
  <2>. QED
    BY <1>1, <1>2, <2>2 DEF AlignInv, EpochAligned, GroupsAligned
<1>4. ASSUME NEW file \in DOMAIN dir, LaunchFrom(file) PROVE AlignInv'
  <2>. DEFINE position == dir[file].train_iterator
  <2>1. position \in Positions /\ Resumable(position.epoch, position.iterations_in_epoch)
    BY <1>4 DEF LaunchFrom, AlignInv, FilesAligned
  <2>2. epoch_itr' = load_state_dict(EpochBatchIterator(position.epoch), position, config.shards)
    BY <1>4 DEF LaunchFrom
  <2>. HIDE DEF position
  <2>3. /\ epoch_itr' \in EpochItrs /\ epoch_itr'.cur = None
        /\ \/ epoch_itr'.next = None
           \/ epoch_itr'.next \in Iterators /\ Resumable(epoch_itr'.epoch, epoch_itr'.next.n)
    BY <1>1, <2>1, <2>2, PositionRestored
  <2>4. EpochAligned'
    BY <1>1, <2>3 DEF EpochAligned, Resumable, Freq, Share
  <2>. QED
    BY <1>1, <1>2, <2>4 DEF AlignInv, GroupsAligned
<1>. QED
  BY <1>3, <1>4

\* The next epoch begins, or the restored one goes on, where an update may begin.
LEMMA NextItr ==
  ASSUME AlignInv, proc = "epoch", NEW sh \in BOOLEAN, NEW fix \in BOOLEAN
  PROVE  LET itr == next_epoch_itr(epoch_itr, sh, fix, config.shards)
         IN  /\ itr \in EpochItrs /\ itr.next = None /\ itr.cur \in Iterators
             /\ Resumable(itr.epoch, itr.cur.n)
             /\ itr.shuffle = sh /\ itr.epoch = next_epoch_idx(epoch_itr, config.shards)
             /\ itr.cur = IF epoch_itr.next # None THEN epoch_itr.next
                          ELSE CountingIterator(itr.epoch, sh, fix, 0)
<1>. DEFINE itr == next_epoch_itr(epoch_itr, sh, fix, config.shards)
            idx == next_epoch_idx(epoch_itr, config.shards)
<1>1. /\ epoch_itr \in EpochItrs /\ config \in Configs
      /\ \/ epoch_itr.next = None /\ epoch_itr.cur = None
         \/ epoch_itr.next \in Iterators /\ Resumable(epoch_itr.epoch, epoch_itr.next.n)
         \/ epoch_itr.next = None /\ epoch_itr.cur \in Iterators /\ epoch_itr.cur.n = Share
  BY DEF AlignInv, EpochAligned
<1>2. epoch_itr.epoch \in Epochs /\ epoch_itr.epoch + 1 \in Epochs
  BY <1>1 DEF EpochItrs, Epochs
<1>3. /\ itr.epoch = idx /\ itr.shuffle = sh /\ itr.next = None
      /\ itr.cur = IF epoch_itr.next # None THEN epoch_itr.next
                   ELSE get_iterator_for_epoch(idx, sh, fix, 0, config.shards)
      /\ itr \in [epoch : {itr.epoch}, shuffle : {itr.shuffle}, cur : {itr.cur}, next : {itr.next}]
  BY DEF next_epoch_itr
<1>. HIDE DEF itr
<1>4. CASE epoch_itr.next \in Iterators /\ Resumable(epoch_itr.epoch, epoch_itr.next.n)
  <2>1. epoch_itr.next # None
    BY <1>4, NoneAssumption
  <2>2. itr.epoch = epoch_itr.epoch /\ itr.cur = epoch_itr.next
    BY <1>3, <2>1 DEF next_epoch_idx
  <2>3. itr \in EpochItrs
    BY <1>2, <1>3, <1>4, <2>2 DEF EpochItrs
  <2>. QED
    BY <1>3, <1>4, <2>1, <2>2, <2>3 DEF itr
<1>5. CASE epoch_itr.next = None
  <2>1. idx \in Epochs
    BY <1>2, <1>5 DEF next_epoch_idx
  <2>. HIDE DEF idx
  <2>2. itr.cur = CountingIterator(idx, sh, fix, 0)
    BY <1>3, <1>5 DEF get_iterator_for_epoch
  <2>3. itr.cur \in Iterators /\ itr.cur.n = 0
    BY <2>1, <2>2 DEF CountingIterator, Iterators, Epochs
  <2>4. itr \in EpochItrs
    BY <1>3, <2>1, <2>3 DEF EpochItrs
  <2>5. Resumable(itr.epoch, itr.cur.n)
    BY <1>1, <1>3, <2>1, <2>3, StartResumable
  <2>. QED
    BY <1>3, <1>5, <2>2, <2>3, <2>4, <2>5 DEF itr, idx
<1>. QED
  BY <1>1, <1>4, <1>5

\* The groups are counted from that place.
LEMMA GroupedThere ==
  ASSUME config \in Configs, NEW epoch \in Epochs, NEW itr \in Iterators, Resumable(epoch, itr.n)
  PROVE  LET g == GroupedIterator(itr, Freq(epoch), config.shards)
         IN  /\ g \in Groupings /\ g.chunk = Freq(epoch) /\ g.total = CeilDiv(Share, g.chunk)
             /\ Aligned(itr.n, g.n, g.chunk, Share)
<1>. DEFINE c == Freq(epoch)
            g == GroupedIterator(itr, c, config.shards)
<1>1. c \in Nat \ {0} /\ Share \in Nat
  BY FreqType
<1>2. PICK m \in Nat : itr.n = m * c
  BY DEF Resumable
<1>3. itr.n < Share
  BY DEF Resumable
<1>. HIDE DEF c
<1>4. CeilDiv(itr.n, c) = m /\ CeilDiv(Share, c) \in Nat
  BY <1>1, <1>2, CeilDivExact, CeilDivEnough
<1>5. g = [n |-> m, total |-> CeilDiv(Share, c), chunk |-> c]
  BY <1>4 DEF GroupedIterator, Share
<1>6. g \in Groupings /\ g.n = m /\ g.chunk = c /\ g.total = CeilDiv(Share, c)
  BY <1>1, <1>4, <1>5 DEF Groupings
<1>. HIDE DEF g
<1>7. Aligned(itr.n, g.n, g.chunk, Share)
  BY <1>2, <1>3, <1>6 DEF Aligned
<1>. QED
  BY <1>6, <1>7 DEF g, c

LEMMA BeginEpochAligned ==
  ASSUME AlignInv, BeginEpoch
  PROVE  AlignInv'
<1>. DEFINE itr == next_epoch_itr(epoch_itr, TRUE, config.fix_batches_to_gpus, config.shards)
            g   == GroupedIterator(itr.cur, Freq(itr.epoch), config.shards)
<1>1. /\ proc = "epoch" /\ proc' = "train" /\ config' = config /\ dir' = dir /\ config \in Configs
      /\ epoch_itr' = itr /\ grouped' = g
  BY DEF BeginEpoch, AlignInv, Freq
<1>2. config.fix_batches_to_gpus \in BOOLEAN
  BY <1>1, ConfigsAssumption
<1>3. /\ itr \in EpochItrs /\ itr.next = None /\ itr.cur \in Iterators
      /\ Resumable(itr.epoch, itr.cur.n)
  <2>. DEFINE sh == TRUE
  <2>1. sh \in BOOLEAN
    OBVIOUS
  <2>. HIDE DEF sh
  <2>2. LET new == next_epoch_itr(epoch_itr, sh, config.fix_batches_to_gpus, config.shards)
        IN  /\ new \in EpochItrs /\ new.next = None /\ new.cur \in Iterators
            /\ Resumable(new.epoch, new.cur.n)
    BY <1>1, <1>2, <2>1, NextItr
  <2>. QED
    BY <2>2, Zenon DEF sh
<1>. HIDE DEF itr
<1>4. itr.epoch \in Epochs
  BY <1>3 DEF EpochItrs
<1>5. /\ g \in Groupings /\ g.chunk = Freq(itr.epoch) /\ g.total = CeilDiv(Share, g.chunk)
      /\ Aligned(itr.cur.n, g.n, g.chunk, Share)
  BY <1>1, <1>3, <1>4, GroupedThere
<1>. HIDE DEF g
<1>6. GroupsAligned'
  BY <1>1, <1>3, <1>5 DEF GroupsAligned, Freq, Share
<1>7. FilesAligned'
  BY <1>1, FilesStayAligned DEF AlignInv
<1>. QED
  BY <1>1, <1>6, <1>7 DEF AlignInv, EpochAligned

\* A step takes one group, or what is left of the share.
LEMMA TrainStepGroups ==
  ASSUME AlignInv, NEW outcome, NEW loss, TrainStep(outcome, loss)
  PROVE  /\ epoch_itr' \in EpochItrs /\ epoch_itr'.next = None /\ epoch_itr'.cur \in Iterators
         /\ epoch_itr'.epoch = epoch_itr.epoch
         /\ grouped' \in Groupings /\ grouped'.n = grouped.n + 1
         /\ grouped'.chunk = Freq(epoch_itr.epoch) /\ grouped'.total = grouped.total
         /\ grouped.total = CeilDiv(Share, grouped'.chunk)
         /\ Aligned(epoch_itr'.cur.n, grouped'.n, grouped'.chunk, Share)
<1>. DEFINE cur  == epoch_itr.cur
            some == IF Share - cur.n < grouped.chunk THEN Share - cur.n ELSE grouped.chunk
<1>1. /\ proc = "train" /\ config \in Configs /\ cur.n < Share
      /\ epoch_itr' = [epoch_itr EXCEPT !.cur.n = @ + some]
      /\ grouped' = [grouped EXCEPT !.n = @ + 1]
  BY DEF TrainStep, AlignInv, has_next, ChunkLen, Share
<1>2. /\ epoch_itr \in EpochItrs /\ cur \in Iterators /\ epoch_itr.next = None
      /\ grouped \in Groupings
      /\ grouped.chunk = Freq(epoch_itr.epoch) /\ grouped.total = CeilDiv(Share, grouped.chunk)
      /\ Aligned(cur.n, grouped.n, grouped.chunk, Share)
  BY <1>1 DEF AlignInv, GroupsAligned
<1>3. /\ cur.n \in Nat /\ grouped.n \in Nat /\ grouped.chunk \in Nat \ {0}
      /\ Share \in Nat /\ epoch_itr.epoch \in Epochs
  BY <1>1, <1>2, FreqType DEF EpochItrs, Iterators, Groupings
<1>4. cur.n + some \in Nat /\ Aligned(cur.n + some, grouped.n + 1, grouped.chunk, Share)
  BY <1>1, <1>2, <1>3, AlignedGroupsMore
<1>. HIDE DEF some
<1>5. /\ epoch_itr' \in EpochItrs /\ epoch_itr'.next = None /\ epoch_itr'.cur \in Iterators
      /\ epoch_itr'.cur.n = cur.n + some /\ epoch_itr'.epoch = epoch_itr.epoch
  BY <1>1, <1>2, <1>4 DEF EpochItrs, Iterators
<1>6. /\ grouped' \in Groupings /\ grouped'.n = grouped.n + 1
      /\ grouped'.chunk = grouped.chunk /\ grouped'.total = grouped.total
  BY <1>1, <1>2, <1>3 DEF Groupings
<1>. QED
  BY <1>2, <1>4, <1>5, <1>6

\* The groups and the batches of an epoch end with the same step.
LEMMA StepsEnd ==
  ASSUME AlignInv, NEW outcome, NEW loss, TrainStep(outcome, loss)
  PROVE  (grouped.n + 1 >= grouped.total) <=> end_of_epoch(epoch_itr', config.shards)
<1>1. config \in Configs
  BY DEF AlignInv
<1>2. Share \in Nat
  BY <1>1, FreqType, 1 \in Epochs DEF Epochs
<1>3. epoch_itr'.cur \in Iterators /\ grouped' \in Groupings
  BY TrainStepGroups
<1>4. epoch_itr'.cur.n \in Nat /\ grouped'.n \in Nat /\ grouped'.chunk \in Nat \ {0}
  BY <1>3 DEF Groupings, Iterators
<1>5. (grouped'.n >= grouped.total) <=> (epoch_itr'.cur.n >= Share)
  BY <1>2, <1>4, TrainStepGroups, AlignedEnds
<1>. QED
  BY <1>2, <1>4, <1>5, TrainStepGroups DEF end_of_epoch, has_next, Share

LEMMA TrainStepAligned ==
  ASSUME AlignInv, NEW outcome, NEW loss, TrainStep(outcome, loss)
  PROVE  AlignInv'
<1>1. /\ config' = config /\ dir' = dir /\ config \in Configs
      /\ proc' \in {"saving", "train", "epoch"}
      /\ proc' = "epoch" => ~ has_next(epoch_itr'.cur, config.shards)
  BY DEF TrainStep, AlignInv
<1>2. /\ epoch_itr' \in EpochItrs /\ epoch_itr'.next = None /\ epoch_itr'.cur \in Iterators
      /\ epoch_itr'.epoch = epoch_itr.epoch
      /\ grouped' \in Groupings
      /\ grouped'.chunk = Freq(epoch_itr.epoch) /\ grouped'.total = CeilDiv(Share, grouped'.chunk)
      /\ Aligned(epoch_itr'.cur.n, grouped'.n, grouped'.chunk, Share)
  BY TrainStepGroups
<1>3. Share' = Share /\ Share \in Nat
  <2>1. Share' = Share
    BY <1>1 DEF Share
  <2>2. epoch_itr'.epoch \in Epochs
    BY <1>2 DEF EpochItrs
  <2>. QED
    BY <1>1, <2>1, <2>2, FreqType
<1>4. GroupsAligned'
  BY <1>1, <1>2 DEF GroupsAligned, Share, Freq
<1>5. EpochAligned'
  <2>1. ASSUME proc' = "epoch" PROVE epoch_itr'.cur.n = Share
    <3>1. ~ (epoch_itr'.cur.n < Share) /\ epoch_itr'.cur.n \in Nat
      BY <1>1, <1>2, <2>1 DEF has_next, Share, Iterators
    <3>. QED
      BY <1>2, <1>3, <3>1 DEF Aligned
  <2>. QED
    BY <1>2, <1>3, <2>1 DEF EpochAligned
<1>6. FilesAligned'
  BY <1>1, FilesStayAligned DEF AlignInv
<1>. QED
  BY <1>1, <1>4, <1>5, <1>6 DEF AlignInv

LEMMA WriteFileAligned ==
  ASSUME AlignInv, CountInv, WriteFile
  PROVE  AlignInv'
<1>1. PICK content \in IF save.source = None THEN Written ELSE {dir[save.source]} :
        dir' = [dir EXCEPT ![Head(save.files)] = content]
  BY DEF WriteFile
<1>2. proc = "saving" /\ UNCHANGED <<config, proc, epoch_itr, grouped>>
  BY DEF WriteFile
<1>3. content # Torn =>
        LET position == content.train_iterator IN
        position \in Positions /\ Resumable(position.epoch, position.iterations_in_epoch)
  <2>1. CASE save.source = None
    <3>1. content # Torn => content = Content
      BY <1>1, <2>1 DEF Written
    <3>2. Content.train_iterator = state_dict(epoch_itr, config.shards)
      BY DEF Content
    <3>. QED
      BY <1>2, <3>1, <3>2, PositionSaved
  <2>2. CASE save.source # None
    <3>1. save.source \in DOMAIN dir /\ content = dir[save.source]
      BY <1>1, <2>2 DEF CountInv, SourceIsThere, WriteFile
    <3>. QED
      BY <3>1 DEF AlignInv, FilesAligned
  <2>. QED
    BY <2>1, <2>2
<1>4. FilesAligned'
  <2>1. ASSUME NEW f \in DOMAIN dir', dir'[f] # Torn
        PROVE  LET position == dir'[f].train_iterator IN
               position \in Positions /\ Resumable(position.epoch, position.iterations_in_epoch)
    <3>1. f \in DOMAIN dir /\ (dir'[f] = content \/ dir'[f] = dir[f])
      BY <1>1
    <3>. QED
      BY <1>3, <2>1, <3>1 DEF AlignInv, FilesAligned
  <2>. QED
    BY <1>2, <2>1 DEF FilesAligned, Resumable, Freq, Share
<1>. QED
  BY <1>2, <1>4, ItrsStayAligned

LEMMA EndSaveAligned ==
  ASSUME AlignInv, EndSave
  PROVE  AlignInv'
<1>1. config' = config /\ dir' = dir /\ proc = "saving"
  BY DEF EndSave
<1>2. CASE save.stop
  BY <1>1, <1>2, NoMemoryAligned DEF EndSave
<1>3. CASE ~ save.stop
  <2>1. /\ proc' = IF has_next(epoch_itr.cur, config.shards) THEN "train" ELSE "epoch"
        /\ UNCHANGED <<epoch_itr, grouped>>
    BY <1>3 DEF EndSave
  <2>2. FilesAligned'
    BY <1>1, FilesStayAligned DEF AlignInv
  <2>3. GroupsAligned'
    BY <1>1, <2>1 DEF AlignInv, GroupsAligned, Share, Freq
  <2>4. EpochAligned'
    <3>1. /\ epoch_itr \in EpochItrs /\ epoch_itr.cur \in Iterators /\ epoch_itr.next = None
          /\ grouped \in Groupings
          /\ Aligned(epoch_itr.cur.n, grouped.n, grouped.chunk, Share) /\ config \in Configs
      BY <1>1 DEF AlignInv, GroupsAligned
    <3>2. epoch_itr.cur.n \in Nat /\ Share \in Nat
      BY <3>1, FreqType DEF Iterators, EpochItrs
    <3>3. ASSUME proc' = "epoch" PROVE epoch_itr.cur.n = Share
      <4>1. ~ has_next(epoch_itr.cur, config.shards)
        BY <2>1, <3>3
      <4>. QED
        BY <3>1, <3>2, <4>1 DEF Aligned, has_next, Share
    <3>. QED
      BY <1>1, <2>1, <3>1, <3>3 DEF EpochAligned, Share
  <2>. QED
    BY <1>1, <2>2, <2>3, <2>4 DEF AlignInv
<1>. QED
  BY <1>2, <1>3

LEMMA NextAligned == AlignInv /\ CountInv /\ [Next]_vars => AlignInv'
<1>. SUFFICES ASSUME AlignInv, CountInv, [Next]_vars PROVE AlignInv'
  OBVIOUS
<1>1. CASE LaunchNew \/ \E file \in DOMAIN dir : LaunchFrom(file)
  BY <1>1, LaunchAligned
<1>2. CASE BeginEpoch
  BY <1>2, BeginEpochAligned
<1>3. CASE EndTraining \/ Crash
  BY <1>3, NoMemoryAligned DEF EndTraining, Crash
<1>4. CASE \E outcome \in Outcomes, loss \in Losses \cup {None} : TrainStep(outcome, loss)
  BY <1>4, TrainStepAligned
<1>5. CASE OpenFile
  <2>1. UNCHANGED <<config, proc, epoch_itr, grouped>>
    BY <1>5 DEF OpenFile
  <2>2. \A f \in DOMAIN dir' : dir'[f] = Torn \/ (f \in DOMAIN dir /\ dir'[f] = dir[f])
    BY <1>5 DEF OpenFile
  <2>. QED
    BY <2>1, <2>2, FilesStayAligned, ItrsStayAligned DEF AlignInv
<1>6. CASE WriteFile
  BY <1>6, WriteFileAligned
<1>7. CASE RemoveFile
  <2>1. UNCHANGED <<config, proc, epoch_itr, grouped>>
    BY <1>7 DEF RemoveFile
  <2>2. \A f \in DOMAIN dir' : f \in DOMAIN dir /\ dir'[f] = dir[f]
    BY <1>7 DEF RemoveFile, Restrict
  <2>. QED
    BY <2>1, <2>2, FilesStayAligned, ItrsStayAligned DEF AlignInv
<1>8. CASE EndSave
  BY <1>8, EndSaveAligned
<1>9. CASE UNCHANGED vars
  <2>1. UNCHANGED <<config, proc, epoch_itr, grouped, dir>>
    BY <1>9 DEF vars, memory
  <2>. QED
    BY <2>1, FilesStayAligned, ItrsStayAligned DEF AlignInv
<1>. QED
  BY <1>1, <1>2, <1>3, <1>4, <1>5, <1>6, <1>7, <1>8, <1>9 DEF Next

LEMMA InitAligned == Init => AlignInv
  BY DEF Init, AlignInv, FilesAligned, EpochAligned, GroupsAligned

\* The iterator over groups and the one over batches agree on the end of every epoch,
\* for any number of batches and workers and any grouping, also when training goes on
\* from a checkpoint within an epoch: every position that is saved is the end of a group.
THEOREM EndsAgree == Spec => []EpochEndsAgree
<1>1. AlignInv => EpochEndsAgree
  <2>. SUFFICES ASSUME AlignInv, proc \in {"train", "saving"}
                PROVE  (grouped.n >= grouped.total) = end_of_epoch(epoch_itr, config.shards)
    BY DEF EpochEndsAgree
  <2>1. /\ epoch_itr \in EpochItrs /\ epoch_itr.cur \in Iterators /\ config \in Configs
        /\ grouped \in Groupings /\ grouped.total = CeilDiv(Share, grouped.chunk)
        /\ Aligned(epoch_itr.cur.n, grouped.n, grouped.chunk, Share)
    BY DEF AlignInv, GroupsAligned
  <2>2. /\ epoch_itr.cur.n \in Nat /\ Share \in Nat
        /\ grouped.n \in Nat /\ grouped.chunk \in Nat \ {0}
    BY <2>1, FreqType DEF Iterators, EpochItrs, Groupings
  <2>3. (grouped.n >= grouped.total) <=> (epoch_itr.cur.n >= Share)
    BY <2>1, <2>2, AlignedEnds
  <2>4. (epoch_itr.cur.n >= Share) <=> end_of_epoch(epoch_itr, config.shards)
    BY <2>2 DEF end_of_epoch, has_next, Share
  <2>5. /\ end_of_epoch(epoch_itr, config.shards) \in BOOLEAN
        /\ (grouped.n >= grouped.total) \in BOOLEAN
    BY DEF end_of_epoch
  <2>. QED
    BY <2>3, <2>4, <2>5, Zenon
<1>2. Spec => [](AlignInv /\ CountInv)
  BY InitAligned, InitCounts, NextAligned, NextCounts, PTL DEF Spec
<1>. QED
  BY <1>1, <1>2, PTL

-----------------------------------------------------------------------------
(***************************************************************************)
(* Which batches have been trained on: in memory and in every file, those  *)
(* of all epochs before, and of this one those up to the saved position in *)
(* its order.                                                              *)
(***************************************************************************)

\* The order of an epoch's batches over all workers, and those at some of its places.
Order(epoch) == shuffle_batches([i \in Batch |-> i], epoch)
Read(epoch, from, to) == {Order(epoch)[k] : k \in {i \in Batch : from < i /\ i <= to}}

\* Shuffling moves a batch by the rest of the seed, around the end.
LEMMA RemainderAdd ==
  ASSUME NEW n \in Nat \ {0}, NEW x \in 0 .. n - 1, NEW e \in Nat
  PROVE  /\ e % n \in 0 .. n - 1
         /\ (x + e) % n = IF x + (e % n) < n THEN x + (e % n) ELSE x + (e % n) - n
<1>. DEFINE r == e % n
            q == e \div n
<1>1. r \in 0 .. n - 1 /\ q \in Nat /\ e = q * n + r
  BY Z3T(30)
<1>2. q * n \in Nat /\ (q + 1) * n = q * n + n
  BY <1>1, GroupsMore
<1>3. ASSUME NEW a \in Nat, NEW p \in Nat, NEW y \in 0 .. n - 1, a = p * n + y
      PROVE  a % n = y
  BY <1>3, Z3T(30)
<1>. HIDE DEF r, q
<1>4. CASE x + r < n
  <2>1. x + r \in 0 .. n - 1 /\ x + e = q * n + (x + r) /\ x + e \in Nat
    BY <1>1, <1>2, <1>4
  <2>2. (x + e) % n = x + r
    BY <1>1, <2>1, <1>3
  <2>. QED
    BY <1>1, <1>4, <2>2 DEF r
<1>5. CASE ~ (x + r < n)
  <2>1. x + r - n \in 0 .. n - 1 /\ x + e = (q + 1) * n + (x + r - n) /\ x + e \in Nat /\ q + 1 \in Nat
    BY <1>1, <1>2, <1>5
  <2>2. (x + e) % n = x + r - n
    BY <2>1, <1>3
  <2>. QED
    BY <1>1, <1>5, <2>2 DEF r
<1>. QED
  BY <1>4, <1>5

\* The order of an epoch, place by place.
LEMMA OrderIs ==
  ASSUME NEW epoch \in Nat
  PROVE  /\ DOMAIN Order(epoch) = Batch /\ Len(Order(epoch)) = NumBatches
         /\ \A k \in Batch : Order(epoch)[k] = ((k - 1 + epoch) % NumBatches) + 1
<1>. DEFINE frozen == [i \in Batch |-> i]
<1>1. NumBatches \in Nat \ {0} /\ Batch = 1 .. NumBatches
  BY BatchesAssumption DEF Batch
<1>2. frozen \in Seq(Batch) /\ Len(frozen) = NumBatches /\ DOMAIN frozen = Batch
  BY <1>1
<1>3. \A k \in Batch : frozen[k] = k
  OBVIOUS
<1>. DEFINE at(k) == ((k - 1 + epoch) % NumBatches) + 1
<1>4. ASSUME NEW k \in Batch PROVE at(k) \in Batch
  <2>1. k - 1 \in 0 .. NumBatches - 1
    BY <1>1
  <2>2. (k - 1 + epoch) % NumBatches \in 0 .. NumBatches - 1
    BY <1>1, <2>1, RemainderAdd
  <2>. QED
    BY <1>1, <2>2
<1>5. Order(epoch) = [i \in Batch |-> frozen[at(i)]]
  BY <1>2 DEF Order, shuffle_batches
<1>. HIDE DEF frozen, at
<1>6. \A k \in Batch : Order(epoch)[k] = at(k)
  BY <1>3, <1>4, <1>5
<1>7. DOMAIN Order(epoch) = 1 .. NumBatches /\ Order(epoch) \in Seq(Batch)
  BY <1>1, <1>3, <1>4, <1>5
<1>. QED
  BY <1>1, <1>6, <1>7 DEF at

\* Every batch has one place in the order of an epoch.
LEMMA OrderPermutes ==
  ASSUME NEW epoch \in Nat
  PROVE  /\ \A k \in Batch : Order(epoch)[k] \in Batch
         /\ \A i, j \in Batch : Order(epoch)[i] = Order(epoch)[j] => i = j
         /\ \A b \in Batch : \E k \in Batch : Order(epoch)[k] = b
<1>. DEFINE n == NumBatches
            r == epoch % n
<1>1. n \in Nat \ {0} /\ Batch = 1 .. n /\ 0 \in 0 .. n - 1
  BY BatchesAssumption DEF Batch
<1>2. r \in 0 .. n - 1
  BY <1>1, RemainderAdd
<1>3. ASSUME NEW k \in Batch
      PROVE  Order(epoch)[k] = IF k - 1 + r < n THEN k + r ELSE k + r - n
  <2>1. k - 1 \in 0 .. n - 1
    BY <1>1
  <2>2. (k - 1 + epoch) % n = IF k - 1 + r < n THEN k - 1 + r ELSE k - 1 + r - n
    BY <1>1, <2>1, RemainderAdd
  <2>3. Order(epoch)[k] = ((k - 1 + epoch) % n) + 1
    BY OrderIs
  <2>. QED
    BY <1>1, <1>2, <2>2, <2>3
<1>. HIDE DEF n, r
<1>4. ASSUME NEW k \in Batch PROVE Order(epoch)[k] \in Batch
  BY <1>1, <1>2, <1>3
<1>5. ASSUME NEW i \in Batch, NEW j \in Batch, Order(epoch)[i] = Order(epoch)[j] PROVE i = j
  BY <1>1, <1>2, <1>3, <1>5
<1>6. ASSUME NEW b \in Batch PROVE \E k \in Batch : Order(epoch)[k] = b
  <2>1. CASE b > r
    <3>1. b - r \in Batch
      BY <1>1, <1>2, <2>1
    <3>2. Order(epoch)[b - r] = b
      BY <1>1, <1>2, <1>3, <3>1
    <3>. QED
      BY <3>1, <3>2
  <2>2. CASE ~ (b > r)
    <3>1. b - r + n \in Batch
      BY <1>1, <1>2, <2>2
    <3>2. Order(epoch)[b - r + n] = b
      BY <1>1, <1>2, <1>3, <2>2, <3>1
    <3>. QED
      BY <3>1, <3>2
  <2>. QED
    BY <2>1, <2>2
<1>. QED
  BY <1>4, <1>5, <1>6

\* What is read before a place and what is read from it on.
LEMMA ReadOn ==
  ASSUME NEW epoch \in Nat, NEW a \in Nat, NEW b \in Nat, a <= b
  PROVE  /\ Read(epoch, 0, a) \cap Read(epoch, a, b) = {}
         /\ Read(epoch, 0, a) \cup Read(epoch, a, b) = Read(epoch, 0, b)
         /\ Read(epoch, 0, 0) = {}
         /\ b >= NumBatches => Read(epoch, 0, b) = Batch
<1>1. NumBatches \in Nat \ {0} /\ Batch = 1 .. NumBatches
  BY BatchesAssumption DEF Batch
<1>. DEFINE o == Order(epoch)
<1>2. /\ \A k \in Batch : o[k] \in Batch
      /\ \A i, j \in Batch : o[i] = o[j] => i = j
      /\ \A c \in Batch : \E k \in Batch : o[k] = c
  BY OrderPermutes
<1>. HIDE DEF o
<1>3. ASSUME NEW x, NEW f, NEW t
      PROVE  x \in Read(epoch, f, t) <=> \E k \in Batch : f < k /\ k <= t /\ x = o[k]
  BY DEF Read, o
<1>4. Read(epoch, 0, a) \cap Read(epoch, a, b) = {}
  <2>. SUFFICES ASSUME NEW x, x \in Read(epoch, 0, a), x \in Read(epoch, a, b) PROVE FALSE
    OBVIOUS
  <2>1. PICK k \in Batch : k <= a /\ x = o[k]
    BY <1>3
  <2>2. PICK j \in Batch : a < j /\ x = o[j]
    BY <1>3
  <2>3. k = j
    BY <1>2, <2>1, <2>2
  <2>. QED
    BY <1>1, <2>1, <2>2, <2>3
<1>5. Read(epoch, 0, a) \cup Read(epoch, a, b) = Read(epoch, 0, b)
  <2>1. ASSUME NEW x PROVE x \in Read(epoch, 0, b) <=> x \in Read(epoch, 0, a) \/ x \in Read(epoch, a, b)
    BY <1>1, <1>3
  <2>. QED
    BY <2>1
<1>6. Read(epoch, 0, 0) = {}
  BY <1>1, <1>3
<1>7. ASSUME b >= NumBatches PROVE Read(epoch, 0, b) = Batch
  <2>1. ASSUME NEW x PROVE x \in Read(epoch, 0, b) <=> \E k \in Batch : x = o[k]
    <3>1. \A k \in Batch : 0 < k /\ k <= b
      BY <1>1, <1>7
    <3>. QED
      BY <1>3, <3>1
  <2>. QED
    BY <1>2, <2>1
<1>. QED
  BY <1>4, <1>5, <1>6, <1>7

\* An iterator whose batches are not fixed to their workers reads them in that order.
Ordered(itr, epoch) == itr.epoch = epoch /\ itr.shuffle /\ ~ (Prefetch /\ itr.fix)

\* The place of a worker's batch among those of all.
LEMMA Places ==
  ASSUME NEW c \in Nat \ {0}, NEW n \in Nat, NEW len \in Nat
  PROVE  /\ \A i \in n + 1 .. n + len, s \in 0 .. c - 1 :
              (i - 1) * c + s + 1 \in Nat /\ n * c < (i - 1) * c + s + 1
                /\ (i - 1) * c + s + 1 <= (n + len) * c
         /\ \A k \in Nat : n * c < k /\ k <= (n + len) * c =>
              \E i \in n + 1 .. n + len, s \in 0 .. c - 1 : k = (i - 1) * c + s + 1
<1>0. \A a, b \in Nat : (a < b => a * c + c <= b * c) /\ (a <= b => a * c <= b * c)
  BY Z3T(30)
<1>1. ASSUME NEW i \in n + 1 .. n + len, NEW s \in 0 .. c - 1
      PROVE  (i - 1) * c + s + 1 \in Nat /\ n * c < (i - 1) * c + s + 1
                /\ (i - 1) * c + s + 1 <= (n + len) * c
  <2>1. i - 1 \in Nat /\ n + len \in Nat /\ n <= i - 1 /\ i - 1 < n + len
    OBVIOUS
  <2>2. n * c <= (i - 1) * c /\ (i - 1) * c + c <= (n + len) * c
    BY <1>0, <2>1
  <2>3. n * c \in Nat /\ (i - 1) * c \in Nat /\ (n + len) * c \in Nat
    BY <2>1, GroupsMore
  <2>. DEFINE p == n * c
              q == (i - 1) * c
              t == (n + len) * c
  <2>. HIDE DEF p, q, t
  <2>4. p \in Nat /\ q \in Nat /\ t \in Nat /\ p <= q /\ q + c <= t
    BY <2>2, <2>3 DEF p, q, t
  <2>5. q + s + 1 \in Nat /\ p < q + s + 1 /\ q + s + 1 <= t
    BY <2>4
  <2>. QED
    BY <2>5 DEF p, q, t
<1>2. ASSUME NEW k \in Nat, n * c < k, k <= (n + len) * c
      PROVE  \E i \in n + 1 .. n + len, s \in 0 .. c - 1 : k = (i - 1) * c + s + 1
  <2>1. n * c \in Nat /\ (n + len) * c \in Nat /\ n + len \in Nat
    BY GroupsMore
  <2>2. k - 1 \in Nat
    BY <1>2, <2>1
  <2>. DEFINE q == (k - 1) \div c
  <2>3. q \in Nat /\ q * c <= k - 1 /\ k - 1 < q * c + c /\ q * c \in Nat
    BY <2>2, DivBounds, GroupsMore
  <2>. HIDE DEF q
  <2>4. ~ (q < n)
    <3>. SUFFICES ASSUME q < n PROVE FALSE
      OBVIOUS
    <3>1. q * c + c <= n * c
      BY <1>0, <2>3
    <3>. DEFINE x == q * c
                y == n * c
    <3>2. x \in Nat /\ y \in Nat /\ x + c <= y /\ y < k /\ k - 1 < x + c
      BY <1>2, <2>1, <2>3, <3>1
    <3>. HIDE DEF x, y
    <3>. QED
      BY <3>2
  <2>5. q < n + len
    <3>. SUFFICES ASSUME ~ (q < n + len) PROVE FALSE
      OBVIOUS
    <3>1. (n + len) * c <= q * c
      BY <1>0, <2>1, <2>3
    <3>. DEFINE x == q * c
                y == (n + len) * c
    <3>2. x \in Nat /\ y \in Nat /\ y <= x /\ k <= y /\ x <= k - 1
      BY <1>2, <2>1, <2>3, <3>1
    <3>. HIDE DEF x, y
    <3>. QED
      BY <3>2
  <2>. DEFINE s == k - 1 - q * c
  <2>6. s \in 0 .. c - 1 /\ k = q * c + s + 1
    <3>. DEFINE x == q * c
    <3>1. x \in Nat /\ x <= k - 1 /\ k - 1 < x + c
      BY <2>3
    <3>. HIDE DEF x
    <3>2. k - 1 - x \in 0 .. c - 1 /\ k = x + (k - 1 - x) + 1
      BY <3>1
    <3>. QED
      BY <3>2 DEF x
  <2>. HIDE DEF s
  <2>7. q + 1 \in n + 1 .. n + len /\ (q + 1) - 1 = q
    BY <2>1, <2>3, <2>4, <2>5
  <2>. QED
    BY <2>6, <2>7
<1>. QED
  BY <1>1, <1>2

\* A worker's share: its places of that order, and the fill value beyond the end.
LEMMA ShareIs ==
  ASSUME config \in Configs, NEW shard \in Shards, NEW itr, NEW epoch \in Nat, Ordered(itr, epoch)
  PROVE  LET share == ShardOf(itr, config.shards, shard) IN
         /\ share \in Seq(Batch \cup {Empty}) /\ Len(share) = Share
         /\ \A i \in 1 .. Share :
              share[i] = IF (i - 1) * config.shards + shard + 1 <= NumBatches
                         THEN Order(epoch)[(i - 1) * config.shards + shard + 1] ELSE Empty
<1>. DEFINE c  == config.shards
            o  == Order(epoch)
            at(i) == (i - 1) * c + shard + 1
            share == ShardOf(itr, c, shard)
            len == CeilDiv(NumBatches, c)
            val(i) == IF at(i) <= NumBatches THEN o[at(i)] ELSE Empty
<1>1. c \in Nat \ {0} /\ NumBatches \in Nat \ {0} /\ Batch = 1 .. NumBatches /\ shard \in 0 .. c - 1
  BY ConfigsAssumption, BatchesAssumption DEF Batch, Shards
<1>2. share = ShardedIterator(o, c, shard)
  BY DEF ShardOf, Ordered, Order
<1>3. len \in Nat /\ Share = len
  BY <1>1, CeilDivEnough DEF Share, ShardLen
<1>4. Len(o) = NumBatches /\ \A k \in Batch : o[k] \in Batch
  BY OrderIs, OrderPermutes
<1>. HIDE DEF o, share, len, c
<1>5. share = [i \in 1 .. len |-> val(i)]
  BY <1>2, <1>4 DEF ShardedIterator, len
<1>6. ASSUME NEW i \in 1 .. len PROVE val(i) \in Batch \cup {Empty}
  <2>1. i - 1 \in Nat /\ (i - 1) * c \in Nat
    BY <1>1, <1>3, GroupsMore
  <2>2. at(i) \in Nat \ {0}
    <3>. DEFINE x == (i - 1) * c
    <3>1. x \in Nat
      BY <2>1
    <3>. HIDE DEF x
    <3>2. x + shard + 1 \in Nat \ {0}
      BY <1>1, <3>1
    <3>. QED
      BY <3>2 DEF x
  <2>. HIDE DEF at
  <2>. QED
    BY <1>1, <1>4, <2>2
<1>. HIDE DEF val
<1>7. share \in Seq(Batch \cup {Empty}) /\ Len(share) = len
  BY <1>3, <1>5, <1>6
<1>8. \A i \in 1 .. len : share[i] = val(i)
  BY <1>5
<1>. QED
  BY <1>3, <1>7, <1>8 DEF val, o, share, c

\* The batches of an update are those at the next places of the order, of all workers together.
LEMMA GroupReads ==
  ASSUME config \in Configs, NEW epoch \in Nat, epoch_itr.cur \in Iterators,
         Ordered(epoch_itr.cur, epoch), grouped \in Groupings, epoch_itr.cur.n < Share
  PROVE  LET n == epoch_itr.cur.n
             m == n + ChunkLen(grouped, epoch_itr.cur, config.shards)
         IN  /\ m \in Nat /\ n < m /\ n * config.shards \in Nat /\ m * config.shards \in Nat
             /\ n * config.shards <= m * config.shards
             /\ BatchesOfGroup = Read(epoch, n * config.shards, m * config.shards)
<1>. DEFINE n   == epoch_itr.cur.n
            c   == config.shards
            len == ChunkLen(grouped, epoch_itr.cur, config.shards)
            m   == n + len
            o   == Order(epoch)
<1>1. /\ c \in Nat \ {0} /\ n \in Nat /\ grouped.chunk \in Nat \ {0} /\ Share \in Nat
      /\ NumBatches \in Nat \ {0} /\ Batch = 1 .. NumBatches
  BY ConfigsAssumption, BatchesAssumption, FreqType, 1 \in Epochs DEF Iterators, Groupings, Epochs, Batch
<1>2. len \in Nat \ {0} /\ n + len <= Share /\ m \in Nat
  BY <1>1 DEF ChunkLen, Share
<1>3. n * c \in Nat /\ m * c \in Nat /\ n * c <= m * c
  <2>1. n * c \in Nat /\ m * c \in Nat
    BY <1>1, <1>2, GroupsMore
  <2>2. n * c <= m * c
    BY <1>1, <1>2, Z3T(30)
  <2>. QED
    BY <2>1, <2>2
<1>. DEFINE at(i, shard) == (i - 1) * c + shard + 1
<1>4. ASSUME NEW shard \in Shards
      PROVE  ToSet(Group(shard)) =
               {IF at(i, shard) <= NumBatches THEN o[at(i, shard)] ELSE Empty : i \in n + 1 .. n + len}
  <2>. DEFINE share == ShardOf(epoch_itr.cur, c, shard)
              val(i) == IF at(i, shard) <= NumBatches THEN o[at(i, shard)] ELSE Empty
  <2>1. /\ share \in Seq(Batch \cup {Empty}) /\ Len(share) = Share
        /\ \A i \in 1 .. Share : share[i] = val(i)
    BY ShareIs
  <2>2. Group(shard) = SubSeq(share, n + 1, n + len)
    BY DEF Group, Chunk
  <2>. HIDE DEF share, val, n, len
  <2>3. ToSet(SubSeq(share, n + 1, n + len)) = {share[i] : i \in n + 1 .. n + len}
    <3>. DEFINE sub == SubSeq(share, n + 1, n + len)
    <3>1. DOMAIN sub = 1 .. len /\ \A i \in 1 .. len : sub[i] = share[n + i]
      BY <1>1, <1>2, <2>1
    <3>2. {sub[i] : i \in 1 .. len} = {share[i] : i \in n + 1 .. n + len}
      <4>1. \A i \in 1 .. len : n + i \in n + 1 .. n + len
        BY <1>1, <1>2
      <4>2. \A i \in n + 1 .. n + len : i - n \in 1 .. len /\ n + (i - n) = i
        BY <1>1, <1>2
      <4>. HIDE DEF sub
      <4>3. ASSUME NEW x PROVE x \in {sub[i] : i \in 1 .. len} <=> x \in {share[i] : i \in n + 1 .. n + len}
        BY <3>1, <4>1, <4>2
      <4>. QED
        BY <4>3
    <3>. QED
      BY <3>1, <3>2 DEF ToSet
  <2>4. \A i \in n + 1 .. n + len : share[i] = val(i)
    BY <1>1, <1>2, <2>1
  <2>5. {share[i] : i \in n + 1 .. n + len} = {val(i) : i \in n + 1 .. n + len}
    BY <2>4
  <2>. QED
    BY <2>2, <2>3, <2>5 DEF val, n, len
<1>. HIDE DEF n, c, len, o, at
<1>5. ASSUME NEW b
      PROVE  b \in BatchesOfGroup <=>
               /\ b # Empty
               /\ \E shard \in Shards, i \in n + 1 .. n + len :
                    b = IF at(i, shard) <= NumBatches THEN o[at(i, shard)] ELSE Empty
  <2>1. b \in BatchesOfGroup <=> b # Empty /\ \E shard \in Shards : b \in ToSet(Group(shard))
    <3>1. b \in BatchesOfGroup <=>
            b \in UNION {ToSet(Group(shard)) : shard \in Shards} /\ b \notin {Empty}
      BY Zenon DEF BatchesOfGroup
    <3>2. b \in UNION {ToSet(Group(shard)) : shard \in Shards} <=>
            \E shard \in Shards : b \in ToSet(Group(shard))
      BY Zenon
    <3>. QED
      BY <3>1, <3>2, Zenon
  <2>2. ASSUME NEW shard \in Shards
        PROVE  b \in ToSet(Group(shard)) <=>
                 \E i \in n + 1 .. n + len :
                   b = IF at(i, shard) <= NumBatches THEN o[at(i, shard)] ELSE Empty
    BY <1>4
  <2>. HIDE DEF m
  <2>. QED
    BY <2>1, <2>2
<1>6. Shards = 0 .. c - 1 /\ \A k \in Batch : o[k] \in Batch /\ o[k] # Empty
  <2>1. \A k \in Batch : o[k] \in Batch
    BY OrderPermutes DEF o
  <2>2. Empty \notin Batch
    BY <1>1 DEF Empty
  <2>3. Shards = 0 .. c - 1
    BY DEF Shards, c
  <2>. QED
    BY <2>1, <2>2, <2>3
<1>7. /\ \A i \in n + 1 .. n + len, s \in 0 .. c - 1 :
           at(i, s) \in Nat /\ n * c < at(i, s) /\ at(i, s) <= m * c
      /\ \A k \in Nat : n * c < k /\ k <= m * c =>
           \E i \in n + 1 .. n + len, s \in 0 .. c - 1 : k = at(i, s)
  <2>1. /\ \A i \in n + 1 .. n + len, s \in 0 .. c - 1 :
             (i - 1) * c + s + 1 \in Nat /\ n * c < (i - 1) * c + s + 1
               /\ (i - 1) * c + s + 1 <= (n + len) * c
        /\ \A k \in Nat : n * c < k /\ k <= (n + len) * c =>
             \E i \in n + 1 .. n + len, s \in 0 .. c - 1 : k = (i - 1) * c + s + 1
    <3>1. c \in Nat \ {0} /\ n \in Nat /\ len \in Nat
      BY <1>1, <1>2
    <3>. QED
      BY <3>1, Places
  <2>. QED
    BY <2>1, Zenon DEF at
<1>8. ASSUME NEW b
      PROVE  b \in Read(epoch, n * c, m * c) <=> \E k \in Batch : n * c < k /\ k <= m * c /\ b = o[k]
  BY DEF Read, o
<1>. DEFINE p == n * c
            q == m * c
<1>9. p \in Nat /\ q \in Nat
  BY <1>3
<1>10. ASSUME NEW b PROVE b \in BatchesOfGroup <=> b \in Read(epoch, n * c, m * c)
  <2>1. ASSUME b \in BatchesOfGroup PROVE b \in Read(epoch, n * c, m * c)
    <3>1. PICK shard \in Shards, i \in n + 1 .. n + len :
            b = IF at(i, shard) <= NumBatches THEN o[at(i, shard)] ELSE Empty
      BY <1>5, <2>1
    <3>2. b # Empty
      BY <1>5, <2>1
    <3>3. at(i, shard) \in Nat /\ n * c < at(i, shard) /\ at(i, shard) <= m * c
      BY <1>6, <1>7
    <3>. DEFINE k == at(i, shard)
    <3>4. k \in Nat /\ p < k /\ k <= q /\ k <= NumBatches /\ b = o[k]
      BY <3>1, <3>2, <3>3
    <3>. HIDE DEF k, p, q
    <3>5. k \in Batch
      BY <1>1, <1>9, <3>4
    <3>. QED
      BY <1>8, <3>4, <3>5 DEF p, q
  <2>2. ASSUME b \in Read(epoch, n * c, m * c) PROVE b \in BatchesOfGroup
    <3>1. PICK k \in Batch : n * c < k /\ k <= m * c /\ b = o[k]
      BY <1>8, <2>2
    <3>2. k \in Nat /\ k <= NumBatches
      BY <1>1
    <3>3. PICK i \in n + 1 .. n + len, s \in 0 .. c - 1 : k = at(i, s)
      BY <1>7, <3>1, <3>2
    <3>. QED
      BY <1>5, <1>6, <3>1, <3>2, <3>3
  <2>. QED
    BY <2>1, <2>2
<1>11. BatchesOfGroup = Read(epoch, n * c, m * c)
  BY <1>10
<1>12. n < m
  BY <1>1, <1>2 DEF n, len
<1>. QED
  BY <1>2, <1>3, <1>11, <1>12 DEF n, c, len

BatchesOf(steps, e) == UNION {steps[i].batches : i \in {j \in DOMAIN steps : steps[j].epoch = e}}

\* Steps through all epochs before this one, and of it through the first k batches.
Trained(steps, epoch, k) ==
  /\ \A i, j \in DOMAIN steps :
       i < j /\ steps[i].epoch = steps[j].epoch => steps[i].batches \cap steps[j].batches = {}
  /\ \A e \in Epochs : BatchesOf(steps, e) = IF e < epoch THEN Batch
                                             ELSE IF e = epoch THEN Read(epoch, 0, k) ELSE {}

\* The iterator that is read now, or will be next.
Reading == IF epoch_itr.next # None THEN epoch_itr.next ELSE epoch_itr.cur

MemoryTrained ==
  Up => /\ epoch_itr.shuffle
        /\ IF Reading = None THEN Trained(lineage.steps, epoch_itr.epoch, 0)
           ELSE /\ Ordered(Reading, epoch_itr.epoch)
                /\ Trained(lineage.steps, epoch_itr.epoch, Reading.n * config.shards)

FilesTrained ==
  \A f \in DOMAIN dir : dir[f] # Torn =>
    LET position == dir[f].train_iterator IN
    /\ position.shuffle
    /\ Trained(dir[f].lineage.steps, position.epoch,
               position.iterations_in_epoch * config.shards)

OnceInv == MemoryTrained /\ FilesTrained

LEMMA NothingTrained == Trained(<< >>, 1, 0)
<1>1. \A e \in Epochs : BatchesOf(<< >>, e) = {}
  BY DEF BatchesOf
<1>2. \A e \in Epochs : ~ (e < 1)
  BY DEF Epochs
<1>3. Read(1, 0, 0) = {}
  <2>1. 1 \in Nat /\ 0 \in Nat /\ 0 <= 0
    OBVIOUS
  <2>. QED
    BY <2>1, ReadOn
<1>4. DOMAIN << >> = {}
  OBVIOUS
<1>. QED
  BY <1>1, <1>2, <1>3, <1>4 DEF Trained

\* The end of an epoch is the beginning of the next one.
LEMMA NextEpochTrained ==
  ASSUME NEW steps, NEW epoch \in Epochs, NEW k \in Nat, k >= NumBatches, Trained(steps, epoch, k)
  PROVE  Trained(steps, epoch + 1, 0)
<1>1. /\ epoch \in Nat /\ epoch + 1 \in Nat
      /\ \A e \in Epochs : (e < epoch + 1) <=> (e < epoch \/ e = epoch)
      /\ \A e \in Epochs : e = epoch + 1 => ~ (e < epoch) /\ e # epoch
  BY DEF Epochs
<1>2. Read(epoch, 0, k) = Batch /\ Read(epoch + 1, 0, 0) = {}
  BY <1>1, ReadOn
<1>3. \A e \in Epochs : BatchesOf(steps, e) = IF e < epoch + 1 THEN Batch
                        ELSE IF e = epoch + 1 THEN Read(epoch + 1, 0, 0) ELSE {}
  BY <1>1, <1>2 DEF Trained
<1>. QED
  BY <1>3 DEF Trained

\* A step with the batches at the next places.
LEMMA OneMoreTrained ==
  ASSUME NEW steps, IsSequence(steps), NEW epoch \in Epochs, NEW k \in Nat, NEW m \in Nat, k <= m,
         Trained(steps, epoch, k), NEW step, step.epoch = epoch, step.batches = Read(epoch, k, m)
  PROVE  Trained(Append(steps, step), epoch, m)
<1>. DEFINE A == Append(steps, step)
<1>1. PICK S : steps \in Seq(S)
  BY DEF IsSequence
<1>2. steps \in Seq(S \cup {step}) /\ step \in S \cup {step}
  BY <1>1
<1>3. /\ Len(steps) \in Nat /\ DOMAIN steps = 1 .. Len(steps) /\ DOMAIN A = 1 .. Len(steps) + 1
      /\ \A i \in 1 .. Len(steps) : A[i] = steps[i]
      /\ A[Len(steps) + 1] = step
  BY <1>2
<1>. DEFINE l == Len(steps)
<1>. HIDE DEF A, l
<1>4. /\ \A i \in DOMAIN A : (i \in DOMAIN steps /\ A[i] = steps[i]) \/ (i = l + 1 /\ A[i] = step)
      /\ \A i \in DOMAIN steps : i \in DOMAIN A /\ A[i] = steps[i] /\ i < l + 1
      /\ l + 1 \in DOMAIN A /\ A[l + 1] = step /\ l \in Nat
      /\ \A i \in DOMAIN steps : i \in Nat
  BY <1>3 DEF l
<1>5. ASSUME NEW e
      PROVE  BatchesOf(A, e) = IF e = epoch THEN BatchesOf(steps, e) \cup step.batches
                               ELSE BatchesOf(steps, e)
  <2>1. ASSUME NEW b, NEW s
        PROVE  b \in BatchesOf(s, e) <=> \E i \in DOMAIN s : s[i].epoch = e /\ b \in s[i].batches
    BY DEF BatchesOf
  <2>2. ASSUME NEW b
        PROVE  b \in BatchesOf(A, e) <=>
                 (b \in BatchesOf(steps, e) \/ (e = epoch /\ b \in step.batches))
    BY <1>4, <2>1
  <2>. QED
    BY <2>2
<1>6. /\ Read(epoch, 0, k) \cap Read(epoch, k, m) = {}
      /\ Read(epoch, 0, k) \cup Read(epoch, k, m) = Read(epoch, 0, m)
      /\ epoch \in Nat /\ ~ (epoch < epoch)
  BY ReadOn DEF Epochs
<1>7. BatchesOf(steps, epoch) = Read(epoch, 0, k)
  BY <1>6 DEF Trained
<1>8. ASSUME NEW i \in DOMAIN A, NEW j \in DOMAIN A, i < j, A[i].epoch = A[j].epoch
      PROVE  A[i].batches \cap A[j].batches = {}
  <2>1. CASE j \in DOMAIN steps
    <3>1. i \in DOMAIN steps /\ A[i] = steps[i] /\ A[j] = steps[j]
      BY <1>3, <1>4, <1>8, <2>1 DEF l
    <3>. QED
      BY <1>8, <2>1, <3>1 DEF Trained
  <2>2. CASE j \notin DOMAIN steps
    <3>1. j = l + 1 /\ A[j] = step /\ i # l + 1
      BY <1>4, <1>8, <2>2
    <3>2. i \in DOMAIN steps /\ A[i] = steps[i]
      BY <1>4, <3>1
    <3>3. steps[i].batches \subseteq BatchesOf(steps, epoch)
      <4>1. steps[i].epoch = epoch
        BY <1>8, <3>1, <3>2
      <4>. QED
        BY <3>2, <4>1 DEF BatchesOf
    <3>. QED
      BY <1>6, <1>7, <3>1, <3>2, <3>3
  <2>. QED
    BY <2>1, <2>2
<1>9. ASSUME NEW e \in Epochs
      PROVE  BatchesOf(A, e) = IF e < epoch THEN Batch
                               ELSE IF e = epoch THEN Read(epoch, 0, m) ELSE {}
  <2>1. CASE e = epoch
    BY <1>5, <1>6, <1>7, <2>1
  <2>2. CASE e # epoch
    BY <1>5, <2>2 DEF Trained
  <2>. QED
    BY <2>1, <2>2
<1>. QED
  BY <1>8, <1>9 DEF Trained, A

\* A worker's whole share is of all batches, whoever gets the last ones.
LEMMA ShareIsAll ==
  ASSUME config \in Configs, NEW n \in Nat, n >= Share
  PROVE  n * config.shards \in Nat /\ n * config.shards >= NumBatches
<1>. DEFINE c == config.shards
<1>1. c \in Nat \ {0} /\ NumBatches \in Nat \ {0}
  BY ConfigsAssumption, BatchesAssumption
<1>2. Share \in Nat /\ NumBatches <= Share * c
  BY <1>1, CeilDivEnough DEF Share, ShardLen
<1>. DEFINE len == Share
<1>. HIDE DEF len, c
<1>3. n * c \in Nat /\ len * c \in Nat /\ len * c <= n * c
  <2>1. len \in Nat /\ n >= len
    BY <1>2 DEF len
  <2>. QED
    BY <1>1, <2>1, Z3T(30)
<1>4. n * c >= NumBatches
  <2>. DEFINE x == n * c
              y == len * c
  <2>1. x \in Nat /\ y \in Nat /\ y <= x /\ NumBatches <= y
    BY <1>2, <1>3 DEF len
  <2>. HIDE DEF x, y
  <2>2. x >= NumBatches
    BY <1>1, <2>1
  <2>. QED
    BY <2>2 DEF x
<1>. QED
  BY <1>3, <1>4 DEF c

\* No worker has a share of its own that is shuffled by itself.
NeverFixed == ~ Prefetch \/ \A c \in Configs : ~ c.fix_batches_to_gpus

LEMMA InitOnce == Init => OnceInv
  BY DEF Init, OnceInv, MemoryTrained, FilesTrained, Up

LEMMA FilesStayTrained ==
  ASSUME FilesTrained, config' = config,
         \A f \in DOMAIN dir' : dir'[f] = Torn \/ (f \in DOMAIN dir /\ dir'[f] = dir[f])
  PROVE  FilesTrained'
  BY DEF FilesTrained

LEMMA NoMemoryOnce ==
  ASSUME OnceInv, config' = config, dir' = dir, proc' \in {"down", "done"}
  PROVE  OnceInv'
  BY FilesStayTrained DEF OnceInv, MemoryTrained, Up

\* Steps that leave memory alone.
LEMMA MemoryStaysTrained ==
  ASSUME OnceInv, UNCHANGED <<config, lineage, epoch_itr>>, Up, FilesTrained'
  PROVE  OnceInv'
  BY DEF OnceInv, MemoryTrained, Up, Reading

LEMMA LaunchOnce ==
  ASSUME OnceInv, AlignInv, LaunchNew \/ \E file \in DOMAIN dir : LaunchFrom(file)
  PROVE  OnceInv'
<1>1. config' = config /\ dir' = dir /\ config \in Configs
  BY DEF LaunchNew, LaunchFrom, AlignInv
<1>2. FilesTrained'
  BY <1>1, FilesStayTrained DEF OnceInv
<1>3. CASE LaunchNew
  <2>1. epoch_itr' = EpochBatchIterator(1) /\ lineage' = NoLineage
    BY <1>3 DEF LaunchNew
  <2>2. /\ epoch_itr'.epoch = 1 /\ epoch_itr'.shuffle /\ Reading' = None
        /\ lineage'.steps = << >>
    BY <2>1 DEF EpochBatchIterator, Reading, NoLineage
  <2>3. Trained(lineage'.steps, epoch_itr'.epoch, 0)
    BY <2>2, NothingTrained
  <2>. QED
    BY <1>2, <2>2, <2>3 DEF OnceInv, MemoryTrained
<1>4. ASSUME NEW file \in DOMAIN dir, LaunchFrom(file) PROVE OnceInv'
  <2>. DEFINE position == dir[file].train_iterator
              k        == position.iterations_in_epoch
  <2>1. /\ position \in Positions /\ Resumable(position.epoch, k)
        /\ position.shuffle /\ Trained(dir[file].lineage.steps, position.epoch, k * config.shards)
    BY <1>4 DEF LaunchFrom, AlignInv, FilesAligned, OnceInv, FilesTrained
  <2>2. /\ epoch_itr' = load_state_dict(EpochBatchIterator(position.epoch), position, config.shards)
        /\ lineage'.steps = dir[file].lineage.steps
    BY <1>4 DEF LaunchFrom
  <2>3. k \in Nat /\ config.shards \in Nat \ {0} /\ position.epoch \in Nat
    BY <1>1, <2>1, ConfigsAssumption DEF Positions, Epochs
  <2>. HIDE DEF position
  <2>4. /\ epoch_itr'.cur = None /\ epoch_itr'.epoch = position.epoch /\ epoch_itr'.shuffle
        /\ epoch_itr'.next = IF k > 0
                             THEN CountingIterator(position.epoch, position.shuffle, FALSE, k)
                             ELSE None
        /\ epoch_itr'.next = None \/ epoch_itr'.next \in Iterators
    BY <1>1, <2>1, <2>2, PositionRestored
  <2>. HIDE DEF k
  <2>5. CASE k > 0
    <3>. DEFINE itr == CountingIterator(position.epoch, position.shuffle, FALSE, k)
    <3>1. itr \in Iterators
      <4>1. position.shuffle \in BOOLEAN
        BY <2>1 DEF Positions
      <4>. QED
        BY <2>3, <4>1 DEF CountingIterator, Iterators
    <3>2. Reading' = itr /\ itr # None
      BY <2>4, <2>5, <3>1, NoneAssumption DEF Reading
    <3>3. itr.n = k /\ Ordered(itr, position.epoch)
      BY <2>1 DEF CountingIterator, Ordered
    <3>. HIDE DEF itr
    <3>4. Reading' # None /\ Ordered(Reading', epoch_itr'.epoch) /\ Reading'.n = k
      BY <2>4, <3>2, <3>3
    <3>5. Trained(lineage'.steps, epoch_itr'.epoch, Reading'.n * config'.shards)
      BY <1>1, <2>1, <2>2, <2>4, <3>4
    <3>. QED
      BY <1>2, <2>4, <3>4, <3>5 DEF OnceInv, MemoryTrained, Ordered
  <2>6. CASE ~ (k > 0)
    <3>1. Reading' = None
      BY <2>4, <2>6 DEF Reading
    <3>2. k = 0 /\ k * config.shards = 0
      BY <2>3, <2>6
    <3>3. Trained(lineage'.steps, epoch_itr'.epoch, 0)
      BY <2>1, <2>2, <2>4, <3>2
    <3>. QED
      BY <1>2, <2>4, <3>1, <3>3 DEF OnceInv, MemoryTrained
  <2>. QED
    BY <2>5, <2>6
<1>. QED
  BY <1>3, <1>4

LEMMA BeginEpochOnce ==
  ASSUME NeverFixed, OnceInv, AlignInv, BeginEpoch
  PROVE  OnceInv'
<1>. DEFINE idx == next_epoch_idx(epoch_itr, config.shards)
            fix == config.fix_batches_to_gpus
<1>1. /\ proc = "epoch" /\ Up /\ config' = config /\ dir' = dir /\ config \in Configs
      /\ epoch_itr' = next_epoch_itr(epoch_itr, TRUE, fix, config.shards)
      /\ lineage' = lineage
  BY DEF BeginEpoch, AlignInv, Up
<1>2. fix \in BOOLEAN /\ ~ (Prefetch /\ fix) /\ config.shards \in Nat \ {0}
  BY <1>1, ConfigsAssumption DEF NeverFixed
<1>3. /\ epoch_itr'.next = None /\ epoch_itr'.cur \in Iterators
      /\ epoch_itr'.shuffle /\ epoch_itr'.epoch = idx
      /\ epoch_itr'.cur = IF epoch_itr.next # None THEN epoch_itr.next
                          ELSE CountingIterator(idx, TRUE, fix, 0)
  <2>. DEFINE sh == TRUE
  <2>1. sh \in BOOLEAN /\ sh
    OBVIOUS
  <2>. HIDE DEF sh
  <2>2. LET new == next_epoch_itr(epoch_itr, sh, fix, config.shards)
        IN  /\ new.next = None /\ new.cur \in Iterators
            /\ new.shuffle = sh /\ new.epoch = idx
            /\ new.cur = IF epoch_itr.next # None THEN epoch_itr.next
                         ELSE CountingIterator(idx, sh, fix, 0)
    BY <1>1, <1>2, <2>1, NextItr
  <2>3. epoch_itr' = next_epoch_itr(epoch_itr, sh, fix, config.shards)
    BY <1>1, Zenon DEF sh
  <2>. HIDE DEF idx, fix
  <2>4. /\ epoch_itr'.next = None /\ epoch_itr'.cur \in Iterators
        /\ epoch_itr'.shuffle = sh /\ epoch_itr'.epoch = idx
        /\ epoch_itr'.cur = IF epoch_itr.next # None THEN epoch_itr.next
                            ELSE CountingIterator(idx, sh, fix, 0)
    BY <2>2, <2>3, Zenon
  <2>5. epoch_itr'.shuffle
    BY <2>1, <2>4
  <2>. QED
    BY <2>4, <2>5, Zenon DEF sh
<1>4. /\ epoch_itr \in EpochItrs
      /\ \/ epoch_itr.next = None /\ epoch_itr.cur = None
         \/ epoch_itr.next \in Iterators
         \/ epoch_itr.next = None /\ epoch_itr.cur \in Iterators /\ epoch_itr.cur.n = Share
  BY <1>1 DEF AlignInv, EpochAligned
<1>5. epoch_itr.epoch \in Epochs /\ epoch_itr.epoch \in Nat
  BY <1>4 DEF EpochItrs, Epochs
<1>6. FilesTrained'
  BY <1>1, FilesStayTrained DEF OnceInv
<1>7. epoch_itr'.cur # None /\ Reading' = epoch_itr'.cur
  BY <1>3, NoneAssumption DEF Reading
<1>8. /\ Ordered(epoch_itr'.cur, epoch_itr'.epoch)
      /\ Trained(lineage.steps, epoch_itr'.epoch, epoch_itr'.cur.n * config.shards)
  <2>1. CASE epoch_itr.next # None
    <3>1. Reading = epoch_itr.next /\ Reading # None
      BY <2>1 DEF Reading
    <3>2. idx = epoch_itr.epoch
      BY <2>1 DEF next_epoch_idx
    <3>. QED
      BY <1>1, <1>3, <2>1, <3>1, <3>2 DEF OnceInv, MemoryTrained
  <2>2. CASE epoch_itr.next = None
    <3>1. Reading = epoch_itr.cur
      BY <2>2 DEF Reading
    <3>2. epoch_itr'.cur = CountingIterator(idx, TRUE, fix, 0)
      BY <1>3, <2>2
    <3>3. epoch_itr'.cur.n = 0 /\ Ordered(epoch_itr'.cur, epoch_itr'.epoch)
      BY <1>2, <1>3, <3>2 DEF CountingIterator, Ordered
    <3>4. 0 * config.shards = 0
      BY <1>2
    <3>5. Trained(lineage.steps, idx, 0)
      <4>1. CASE epoch_itr.cur = None
        <5>1. idx = epoch_itr.epoch
          BY <2>2, <4>1 DEF next_epoch_idx
        <5>. QED
          BY <1>1, <3>1, <4>1, <5>1 DEF OnceInv, MemoryTrained
      <4>2. CASE epoch_itr.cur # None
        <5>1. epoch_itr.cur.n = Share /\ Share \in Nat
          BY <1>1, <1>4, <1>5, <2>2, <4>2, NoneAssumption, FreqType
        <5>2. end_of_epoch(epoch_itr, config.shards)
          BY <5>1 DEF end_of_epoch, has_next, Share
        <5>3. idx = epoch_itr.epoch + 1
          BY <2>2, <4>2, <5>2 DEF next_epoch_idx
        <5>4. Trained(lineage.steps, epoch_itr.epoch, epoch_itr.cur.n * config.shards)
          BY <1>1, <3>1, <4>2 DEF OnceInv, MemoryTrained
        <5>5. /\ epoch_itr.cur.n * config.shards \in Nat
              /\ epoch_itr.cur.n * config.shards >= NumBatches
          BY <1>1, <5>1, ShareIsAll
        <5>. HIDE DEF idx
        <5>. QED
          BY <1>5, <5>3, <5>4, <5>5, NextEpochTrained
      <4>. QED
        BY <4>1, <4>2
    <3>. HIDE DEF idx
    <3>. QED
      BY <1>3, <3>3, <3>4, <3>5
  <2>. QED
    BY <2>1, <2>2
<1>9. MemoryTrained'
  BY <1>1, <1>3, <1>7, <1>8 DEF MemoryTrained, Ordered
<1>. QED
  BY <1>6, <1>9 DEF OnceInv

LEMMA TrainStepOnce ==
  ASSUME OnceInv, AlignInv, CountInv, NEW outcome, NEW loss, TrainStep(outcome, loss)
  PROVE  OnceInv'
<1>. DEFINE cur == epoch_itr.cur
            c   == config.shards
            m   == cur.n + ChunkLen(grouped, cur, c)
<1>1. /\ proc = "train" /\ Up /\ config \in Configs /\ config' = config /\ dir' = dir
      /\ cur.n < Share
      /\ epoch_itr' = [epoch_itr EXCEPT !.cur.n = m]
      /\ lineage'.steps = Append(lineage.steps, Step(outcome))
  BY DEF TrainStep, AlignInv, has_next, Share, Up
<1>2. /\ epoch_itr \in EpochItrs /\ cur \in Iterators /\ epoch_itr.next = None
      /\ grouped \in Groupings
  BY <1>1 DEF AlignInv, GroupsAligned
<1>3. epoch_itr.epoch \in Epochs /\ epoch_itr.epoch \in Nat
  BY <1>2 DEF EpochItrs, Epochs
<1>4. Reading = cur /\ cur # None
  BY <1>2, NoneAssumption DEF Reading
<1>5. /\ epoch_itr.shuffle /\ Ordered(cur, epoch_itr.epoch)
      /\ Trained(lineage.steps, epoch_itr.epoch, cur.n * c)
  BY <1>1, <1>4 DEF OnceInv, MemoryTrained
<1>6. /\ m \in Nat /\ cur.n * c \in Nat /\ m * c \in Nat /\ cur.n * c <= m * c
      /\ BatchesOfGroup = Read(epoch_itr.epoch, cur.n * c, m * c)
  BY <1>1, <1>2, <1>3, <1>5, GroupReads
<1>7. IsSequence(lineage.steps)
  BY <1>1 DEF CountInv, MemoryCounted, Counted
<1>8. Step(outcome).epoch = epoch_itr.epoch /\ Step(outcome).batches = BatchesOfGroup
  BY DEF Step
<1>. HIDE DEF m
<1>9. /\ epoch_itr'.epoch = epoch_itr.epoch /\ epoch_itr'.shuffle = epoch_itr.shuffle
      /\ epoch_itr'.next = None /\ epoch_itr'.cur \in Iterators /\ epoch_itr'.cur.n = m
      /\ epoch_itr'.cur.epoch = cur.epoch /\ epoch_itr'.cur.shuffle = cur.shuffle
      /\ epoch_itr'.cur.fix = cur.fix
  BY <1>1, <1>2, <1>6 DEF EpochItrs, Iterators
<1>10. Trained(lineage'.steps, epoch_itr.epoch, m * c)
  <2>. DEFINE k == cur.n * c
              t == m * c
              step == Step(outcome)
  <2>1. k \in Nat /\ t \in Nat /\ k <= t /\ step.epoch = epoch_itr.epoch
        /\ step.batches = Read(epoch_itr.epoch, k, t) /\ Trained(lineage.steps, epoch_itr.epoch, k)
    BY <1>5, <1>6, <1>8
  <2>. HIDE DEF k, t, step
  <2>2. Trained(Append(lineage.steps, step), epoch_itr.epoch, t)
    BY <1>3, <1>7, <2>1, OneMoreTrained
  <2>. QED
    BY <1>1, <2>2 DEF step, t
<1>11. Reading' = epoch_itr'.cur /\ Reading' # None
  BY <1>9, NoneAssumption DEF Reading
<1>12. Ordered(epoch_itr'.cur, epoch_itr'.epoch)
  BY <1>5, <1>9 DEF Ordered
<1>13. Trained(lineage'.steps, epoch_itr'.epoch, epoch_itr'.cur.n * config'.shards)
  BY <1>1, <1>9, <1>10
<1>14. FilesTrained'
  BY <1>1, FilesStayTrained DEF OnceInv
<1>. QED
  BY <1>5, <1>9, <1>11, <1>12, <1>13, <1>14 DEF OnceInv, MemoryTrained, Ordered

\* The position that a checkpoint written now would have.
LEMMA ContentTrained ==
  ASSUME OnceInv, AlignInv, proc = "saving"
  PROVE  LET position == Content.train_iterator IN
         /\ position.shuffle
         /\ Trained(Content.lineage.steps, position.epoch,
                    position.iterations_in_epoch * config.shards)
<1>1. /\ epoch_itr \in EpochItrs /\ epoch_itr.cur \in Iterators /\ epoch_itr.next = None
      /\ config \in Configs /\ Up
  BY DEF AlignInv, GroupsAligned, Up
<1>2. epoch_itr.epoch \in Epochs /\ epoch_itr.cur.n \in Nat /\ config.shards \in Nat \ {0}
  BY <1>1, ConfigsAssumption DEF EpochItrs, Iterators
<1>3. Share \in Nat
  BY <1>1, <1>2, FreqType
<1>4. Reading = epoch_itr.cur /\ Reading # None
  BY <1>1, NoneAssumption DEF Reading
<1>5. /\ epoch_itr.shuffle
      /\ Trained(lineage.steps, epoch_itr.epoch, epoch_itr.cur.n * config.shards)
  BY <1>1, <1>4 DEF OnceInv, MemoryTrained
<1>6. /\ Content.lineage.steps = lineage.steps
      /\ Content.train_iterator = state_dict(epoch_itr, config.shards)
  BY DEF Content
<1>7. CASE end_of_epoch(epoch_itr, config.shards)
  <2>1. epoch_itr.cur.n >= Share
    BY <1>2, <1>3, <1>7 DEF end_of_epoch, has_next, Share
  <2>2. /\ epoch_itr.cur.n * config.shards \in Nat
        /\ epoch_itr.cur.n * config.shards >= NumBatches
    BY <1>1, <1>2, <2>1, ShareIsAll
  <2>3. Trained(lineage.steps, epoch_itr.epoch + 1, 0)
    BY <1>2, <1>5, <2>2, NextEpochTrained
  <2>4. 0 * config.shards = 0
    BY <1>2
  <2>5. /\ Content.train_iterator.shuffle = epoch_itr.shuffle
        /\ Content.train_iterator.epoch = epoch_itr.epoch + 1
        /\ Content.train_iterator.iterations_in_epoch = 0
    BY <1>6, <1>7 DEF state_dict
  <2>. QED
    BY <1>5, <1>6, <2>3, <2>4, <2>5
<1>8. CASE ~ end_of_epoch(epoch_itr, config.shards)
  <2>1. /\ Content.train_iterator.shuffle = epoch_itr.shuffle
        /\ Content.train_iterator.epoch = epoch_itr.epoch
        /\ Content.train_iterator.iterations_in_epoch = epoch_itr.cur.n
    BY <1>6, <1>8 DEF state_dict
  <2>. QED
    BY <1>5, <1>6, <2>1
<1>. QED
  BY <1>7, <1>8

LEMMA WriteFileOnce ==
  ASSUME OnceInv, AlignInv, CountInv, WriteFile
  PROVE  OnceInv'
<1>1. PICK content \in IF save.source = None THEN Written ELSE {dir[save.source]} :
        dir' = [dir EXCEPT ![Head(save.files)] = content]
  BY DEF WriteFile
<1>2. proc = "saving" /\ Up /\ UNCHANGED <<config, lineage, epoch_itr>>
  BY DEF WriteFile, Up
<1>3. content # Torn =>
        LET position == content.train_iterator IN
        /\ position.shuffle
        /\ Trained(content.lineage.steps, position.epoch,
                   position.iterations_in_epoch * config.shards)
  <2>1. CASE save.source = None
    <3>1. content # Torn => content = Content
      BY <1>1, <2>1 DEF Written
    <3>. QED
      BY <1>2, <3>1, ContentTrained
  <2>2. CASE save.source # None
    <3>1. save.source \in DOMAIN dir /\ content = dir[save.source]
      BY <1>1, <2>2 DEF CountInv, SourceIsThere, WriteFile
    <3>. QED
      BY <3>1 DEF OnceInv, FilesTrained
  <2>. QED
    BY <2>1, <2>2
<1>4. FilesTrained'
  <2>1. ASSUME NEW f \in DOMAIN dir', dir'[f] # Torn
        PROVE  LET position == dir'[f].train_iterator IN
               /\ position.shuffle
               /\ Trained(dir'[f].lineage.steps, position.epoch,
                          position.iterations_in_epoch * config.shards)
    <3>1. f \in DOMAIN dir /\ (dir'[f] = content \/ dir'[f] = dir[f])
      BY <1>1
    <3>. QED
      BY <1>3, <2>1, <3>1 DEF OnceInv, FilesTrained
  <2>. QED
    BY <1>2, <2>1 DEF FilesTrained
<1>. QED
  BY <1>2, <1>4, MemoryStaysTrained

LEMMA NextOnce ==
  ASSUME NeverFixed, OnceInv, AlignInv, CountInv, [Next]_vars
  PROVE  OnceInv'
<1>1. CASE LaunchNew \/ \E file \in DOMAIN dir : LaunchFrom(file)
  BY <1>1, LaunchOnce
<1>2. CASE BeginEpoch
  BY <1>2, BeginEpochOnce
<1>3. CASE EndTraining \/ Crash
  BY <1>3, NoMemoryOnce DEF EndTraining, Crash
<1>4. CASE \E outcome \in Outcomes, loss \in Losses \cup {None} : TrainStep(outcome, loss)
  BY <1>4, TrainStepOnce
<1>5. CASE OpenFile
  <2>1. UNCHANGED <<config, lineage, epoch_itr>> /\ Up
    BY <1>5 DEF OpenFile, Up
  <2>2. \A f \in DOMAIN dir' : dir'[f] = Torn \/ (f \in DOMAIN dir /\ dir'[f] = dir[f])
    BY <1>5 DEF OpenFile
  <2>. QED
    BY <2>1, <2>2, FilesStayTrained, MemoryStaysTrained DEF OnceInv
<1>6. CASE WriteFile
  BY <1>6, WriteFileOnce
<1>7. CASE RemoveFile
  <2>1. UNCHANGED <<config, lineage, epoch_itr>> /\ Up
    BY <1>7 DEF RemoveFile, Up
  <2>2. \A f \in DOMAIN dir' : f \in DOMAIN dir /\ dir'[f] = dir[f]
    BY <1>7 DEF RemoveFile, Restrict
  <2>. QED
    BY <2>1, <2>2, FilesStayTrained, MemoryStaysTrained DEF OnceInv
<1>8. CASE EndSave
  <2>1. CASE save.stop
    BY <1>8, <2>1, NoMemoryOnce DEF EndSave
  <2>2. CASE ~ save.stop
    <3>1. UNCHANGED <<config, dir, lineage, epoch_itr>> /\ Up
      BY <1>8, <2>2 DEF EndSave, Up
    <3>. QED
      BY <3>1, FilesStayTrained, MemoryStaysTrained DEF OnceInv
  <2>. QED
    BY <2>1, <2>2
<1>9. CASE UNCHANGED vars
  <2>1. UNCHANGED <<config, dir, proc, lineage, epoch_itr>>
    BY <1>9 DEF vars, memory
  <2>. QED
    BY <2>1 DEF OnceInv, MemoryTrained, FilesTrained, Up, Reading
<1>. QED
  BY <1>1, <1>2, <1>3, <1>4, <1>5, <1>6, <1>7, <1>8, <1>9 DEF Next

\* Whatever was saved where and restored how often, for any number of batches, workers and
\* groups: in an epoch no batch is trained on twice, and in an epoch that is through none was
\* left out.  The last share is filled up and the last group short without losing any.
THEOREM BatchesComeOnce ==
  ASSUME NeverFixed
  PROVE  Spec => []EachBatchOnce
<1>1. OnceInv /\ AlignInv => EachBatchOnce
  <2>. SUFFICES ASSUME OnceInv, AlignInv, Up PROVE EachBatchOnce
    BY DEF EachBatchOnce
  <2>. DEFINE steps == lineage.steps
              idx   == next_epoch_idx(epoch_itr, config.shards)
  <2>1. /\ epoch_itr \in EpochItrs /\ config \in Configs
        /\ \/ epoch_itr.next = None /\ epoch_itr.cur = None
           \/ epoch_itr.next \in Iterators
           \/ epoch_itr.next = None /\ epoch_itr.cur \in Iterators
    BY DEF AlignInv, EpochAligned, GroupsAligned, Up
  <2>2. epoch_itr.epoch \in Epochs /\ epoch_itr.epoch \in Nat
    BY <2>1 DEF EpochItrs, Epochs
  <2>3. \E k : Trained(steps, idx, k)
    <3>1. CASE epoch_itr.next # None \/ epoch_itr.cur = None
                \/ ~ end_of_epoch(epoch_itr, config.shards)
      <4>1. idx = epoch_itr.epoch
        BY <3>1 DEF next_epoch_idx
      <4>. QED
        BY <4>1 DEF OnceInv, MemoryTrained
    <3>2. CASE epoch_itr.next = None /\ epoch_itr.cur # None
                 /\ end_of_epoch(epoch_itr, config.shards)
      <4>1. idx = epoch_itr.epoch + 1
        BY <3>2 DEF next_epoch_idx
      <4>2. Trained(steps, epoch_itr.epoch, epoch_itr.cur.n * config.shards)
        BY <3>2 DEF OnceInv, MemoryTrained, Reading
      <4>3. epoch_itr.cur.n \in Nat /\ Share \in Nat
        BY <2>1, <2>2, <3>2, NoneAssumption, FreqType DEF Iterators
      <4>4. epoch_itr.cur.n >= Share
        BY <3>2, <4>3 DEF end_of_epoch, has_next, Share
      <4>5. /\ epoch_itr.cur.n * config.shards \in Nat
            /\ epoch_itr.cur.n * config.shards >= NumBatches
        BY <2>1, <4>3, <4>4, ShareIsAll
      <4>6. Trained(steps, epoch_itr.epoch + 1, 0)
        BY <2>2, <4>2, <4>5, NextEpochTrained
      <4>. QED
        BY <4>1, <4>6
    <3>. QED
      BY <3>1, <3>2
  <2>4. idx \in Nat
    BY <2>2 DEF next_epoch_idx
  <2>. HIDE DEF idx, steps
  <2>5. \A e \in 1 .. idx - 1 : BatchesOf(steps, e) = Batch
    <3>1. \A e \in 1 .. idx - 1 : e \in Epochs /\ e < idx
      BY <2>4 DEF Epochs
    <3>. QED
      BY <2>3, <3>1 DEF Trained
  <2>6. \A i, j \in DOMAIN steps :
          i < j /\ steps[i].epoch = steps[j].epoch => steps[i].batches \cap steps[j].batches = {}
    BY <2>3 DEF Trained
  <2>. QED
    BY <2>5, <2>6, Zenon DEF EachBatchOnce, BatchesOf, steps, idx
<1>2. Init => OnceInv /\ AlignInv /\ CountInv
  BY InitOnce, InitAligned, InitCounts
<1>3. OnceInv /\ AlignInv /\ CountInv /\ [Next]_vars => (OnceInv /\ AlignInv /\ CountInv)'
  BY NextOnce, NextAligned, NextCounts
<1>. QED
  BY <1>1, <1>2, <1>3, PTL DEF Spec

-----------------------------------------------------------------------------
(***************************************************************************)
(* What memory and files hold.                                             *)
(***************************************************************************)

Scalers == [loss_scale : Int, iter : Nat, last_overflow_iter : Int, last_rescale_iter : Int,
            overflows_since_rescale : Nat]

\* A scale that may still be lowered, and counts of steps that lie behind.
ScalerRight(s) ==
  /\ s \in Scalers /\ s.loss_scale > MinScale
  /\ s.iter > s.last_rescale_iter /\ s.iter > s.last_overflow_iter

ProcessTypes ==
  /\ proc \in {"down", "epoch", "train", "saving", "done"} /\ launches \in 0 .. MaxLaunches
  /\ ~ Up => epoch_itr = None /\ save = NoSave /\ lineage = NoLineage /\ num_updates = 0

MemoryTypes ==
  lineage.losses \subseteq Losses /\ best \in Losses \cup {None} /\ ScalerRight(scaler)

ContentTypes(content) ==
  /\ content.lineage.losses \subseteq Losses /\ content.best \in Losses \cup {None}
  /\ content.loss_scale \in Int /\ content.loss_scale > MinScale

ContentsTyped == \A f \in DOMAIN dir : dir[f] # Torn => ContentTypes(dir[f])

TypeInv == ProcessTypes /\ MemoryTypes /\ ContentsTyped

LEMMA ScalerStarts ==
  /\ ScalerRight(DynamicLossScaler)
  /\ \A scale \in Int : scale > MinScale =>
       ScalerRight([DynamicLossScaler EXCEPT !.loss_scale = scale])
  BY ScaleAssumption DEF ScalerRight, Scalers, DynamicLossScaler

\* The scale is above its minimum after every step that does not end training.
LEMMA ScalerStaysRight ==
  ASSUME NEW s, ScalerRight(s)
  PROVE  ScalerRight(update(s)) /\ (~ ReachesMinimum(s) => ScalerRight(overflow(s)))
<1>1. /\ s \in Scalers /\ s.loss_scale \in Int /\ s.iter \in Nat /\ s.last_overflow_iter \in Int
      /\ s.last_rescale_iter \in Int /\ s.overflows_since_rescale \in Nat
      /\ s.loss_scale > MinScale /\ s.iter > s.last_rescale_iter /\ s.iter > s.last_overflow_iter
  BY DEF ScalerRight, Scalers
<1>2. ASSUME NEW scale \in Int, NEW iter \in Nat, NEW over \in Int, NEW last \in Int,
             NEW count \in Nat, scale > MinScale, iter > last, iter > over
      PROVE  ScalerRight([loss_scale |-> scale, iter |-> iter, last_overflow_iter |-> over,
                          last_rescale_iter |-> last, overflows_since_rescale |-> count])
  BY <1>2 DEF ScalerRight, Scalers
<1>3. /\ s.iter + 1 \in Nat /\ s.iter \in Int /\ s.overflows_since_rescale + 1 \in Nat /\ 0 \in Nat
      /\ s.iter + 1 > s.iter /\ s.iter + 1 > s.last_rescale_iter
      /\ s.iter + 1 > s.last_overflow_iter
  BY <1>1
<1>4. ScalerRight(update(s))
  <2>. DEFINE grows == (s.iter - s.last_overflow_iter) % ScaleWindow = 0
              scale == IF grows THEN s.loss_scale + 1 ELSE s.loss_scale
              last  == IF grows THEN s.iter ELSE s.last_rescale_iter
              iter  == s.iter + 1
  <2>1. scale \in Int /\ scale > MinScale /\ last \in Int /\ iter \in Nat /\ iter > last
        /\ iter > s.last_overflow_iter
    <3>. HIDE DEF grows
    <3>. QED
      BY <1>1, <1>3, ScaleAssumption
  <2>2. update(s) = [loss_scale |-> scale, iter |-> iter,
                     last_overflow_iter |-> s.last_overflow_iter, last_rescale_iter |-> last,
                     overflows_since_rescale |-> s.overflows_since_rescale]
    BY DEF update
  <2>. HIDE DEF scale, last, iter
  <2>. QED
    BY <1>1, <1>2, <2>1, <2>2
<1>5. ASSUME ~ ReachesMinimum(s) PROVE ScalerRight(overflow(s))
  <2>. DEFINE scale == IF Intolerable(s) THEN s.loss_scale - 1 ELSE s.loss_scale
              last  == IF Intolerable(s) THEN s.iter ELSE s.last_rescale_iter
              count == IF Intolerable(s) THEN 0 ELSE s.overflows_since_rescale + 1
              iter  == s.iter + 1
  <2>1. scale \in Int /\ scale > MinScale
    BY <1>1, <1>5, ScaleAssumption DEF ReachesMinimum
  <2>2. last \in Int /\ count \in Nat /\ iter \in Nat /\ iter > last /\ iter > s.iter
    BY <1>1, <1>3
  <2>3. overflow(s) = [loss_scale |-> scale, iter |-> iter, last_overflow_iter |-> s.iter,
                       last_rescale_iter |-> last, overflows_since_rescale |-> count]
    BY DEF overflow
  <2>. HIDE DEF scale, last, count, iter
  <2>. QED
    BY <1>2, <1>3, <2>1, <2>2, <2>3
<1>. QED
  BY <1>4, <1>5

LEMMA BestTyped ==
  ASSUME NEW b \in Losses \cup {None}, NEW loss \in Losses \cup {None}
  PROVE  best_after(b, loss) \in Losses \cup {None}
  BY DEF best_after

LEMMA ContentsStayTyped ==
  ASSUME ContentsTyped,
         \A f \in DOMAIN dir' : dir'[f] = Torn \/ (f \in DOMAIN dir /\ dir'[f] = dir[f])
  PROVE  ContentsTyped'
  BY DEF ContentsTyped

LEMMA InitTyped == Init => TypeInv
  BY ScalerStarts, BoundsAssumption
     DEF Init, TypeInv, ProcessTypes, MemoryTypes, ContentsTyped, Up, NoLineage

LEMMA NoMemoryTyped ==
  ASSUME TypeInv, NoMemory, UNCHANGED <<dir, launches>>, proc' \in {"down", "done"}
  PROVE  TypeInv'
<1>1. ProcessTypes' /\ MemoryTypes'
  BY ScalerStarts DEF TypeInv, ProcessTypes, MemoryTypes, NoMemory, Up, NoLineage
<1>. QED
  BY <1>1, ContentsStayTyped DEF TypeInv

LEMMA LaunchTyped ==
  ASSUME TypeInv, LaunchNew \/ \E file \in DOMAIN dir : LaunchFrom(file)
  PROVE  TypeInv'
<1>1. /\ dir' = dir /\ proc' = "epoch" /\ launches' = launches + 1 /\ launches < MaxLaunches
      /\ launches \in 0 .. MaxLaunches
  BY DEF LaunchNew, LaunchFrom, CanLaunch, TypeInv, ProcessTypes
<1>2. ProcessTypes'
  BY <1>1, BoundsAssumption DEF ProcessTypes, Up
<1>3. MemoryTypes'
  <2>1. CASE LaunchNew
    BY <2>1, ScalerStarts DEF LaunchNew, MemoryTypes, NoLineage
  <2>2. ASSUME NEW file \in DOMAIN dir, LaunchFrom(file) PROVE MemoryTypes'
    <3>1. ContentTypes(dir[file])
      BY <2>2 DEF LaunchFrom, TypeInv, ContentsTyped
    <3>2. /\ lineage'.losses = dir[file].lineage.losses /\ best' = dir[file].best
          /\ scaler' = [DynamicLossScaler EXCEPT !.loss_scale = dir[file].loss_scale]
      BY <2>2 DEF LaunchFrom
    <3>. QED
      BY <3>1, <3>2, ScalerStarts DEF MemoryTypes, ContentTypes
  <2>. QED
    BY <2>1, <2>2
<1>. QED
  BY <1>1, <1>2, <1>3, ContentsStayTyped DEF TypeInv

LEMMA TrainStepTyped ==
  ASSUME TypeInv, NEW outcome \in Outcomes, NEW loss \in Losses \cup {None},
         TrainStep(outcome, loss)
  PROVE  TypeInv'
<1>1. /\ UNCHANGED <<dir, launches>> /\ proc' \in {"saving", "train", "epoch"}
      /\ best' \in {best, best_after(best, loss)}
      /\ \/ lineage'.losses = lineage.losses
         \/ lineage'.losses = lineage.losses \cup ({loss} \ {None})
      /\ scaler' = CASE outcome = "update" -> update(scaler)
                     [] outcome = "overflow" -> overflow(scaler)
                     [] outcome = "oom" -> scaler
  BY DEF TrainStep
<1>2. ScalerRight(scaler')
  <2>1. ScalerRight(scaler)
    BY DEF TypeInv, MemoryTypes
  <2>2. CASE outcome = "update"
    BY <1>1, <2>1, <2>2, ScalerStaysRight
  <2>3. CASE outcome = "overflow"
    <3>1. ~ ReachesMinimum(scaler)
      BY <2>3 DEF Outcomes
    <3>. QED
      BY <1>1, <2>1, <2>3, <3>1, ScalerStaysRight
  <2>4. CASE outcome = "oom"
    BY <1>1, <2>1, <2>4
  <2>. QED
    BY <2>2, <2>3, <2>4 DEF Outcomes
<1>3. MemoryTypes'
  BY <1>1, <1>2, BestTyped DEF TypeInv, MemoryTypes
<1>4. ProcessTypes'
  BY <1>1 DEF TypeInv, ProcessTypes, Up
<1>. QED
  BY <1>1, <1>3, <1>4, ContentsStayTyped DEF TypeInv

LEMMA WriteFileTyped ==
  ASSUME TypeInv, CountInv, WriteFile
  PROVE  TypeInv'
<1>1. PICK content \in IF save.source = None THEN Written ELSE {dir[save.source]} :
        dir' = [dir EXCEPT ![Head(save.files)] = content]
  BY DEF WriteFile
<1>2. proc = "saving" /\ UNCHANGED <<proc, launches, lineage, best, scaler>>
  BY DEF WriteFile
<1>3. content # Torn => ContentTypes(content)
  <2>1. CASE save.source = None
    BY <1>1, <2>1 DEF Written, Content, ContentTypes, TypeInv, MemoryTypes, ScalerRight, Scalers
  <2>2. CASE save.source # None
    BY <1>1, <2>2 DEF CountInv, SourceIsThere, WriteFile, TypeInv, ContentsTyped
  <2>. QED
    BY <2>1, <2>2
<1>4. ContentsTyped'
  BY <1>1, <1>3 DEF TypeInv, ContentsTyped
<1>. QED
  BY <1>2, <1>4 DEF TypeInv, ProcessTypes, MemoryTypes, Up

LEMMA NextTyped == TypeInv /\ CountInv /\ [Next]_vars => TypeInv'
<1>. SUFFICES ASSUME TypeInv, CountInv, [Next]_vars PROVE TypeInv'
  OBVIOUS
<1>. USE DEF TypeInv
<1>1. CASE LaunchNew \/ \E file \in DOMAIN dir : LaunchFrom(file)
  BY <1>1, LaunchTyped
<1>2. CASE BeginEpoch
  BY <1>2, ContentsStayTyped DEF BeginEpoch, ProcessTypes, MemoryTypes, Up
<1>3. CASE EndTraining \/ Crash
  BY <1>3, NoMemoryTyped DEF EndTraining, Crash
<1>4. CASE \E outcome \in Outcomes, loss \in Losses \cup {None} : TrainStep(outcome, loss)
  BY <1>4, TrainStepTyped
<1>5. CASE OpenFile
  <2>1. \A f \in DOMAIN dir' : dir'[f] = Torn \/ (f \in DOMAIN dir /\ dir'[f] = dir[f])
    BY <1>5 DEF OpenFile
  <2>2. ProcessTypes' /\ MemoryTypes'
    BY <1>5 DEF OpenFile, ProcessTypes, MemoryTypes, Up
  <2>. QED
    BY <2>1, <2>2, ContentsStayTyped
<1>6. CASE WriteFile
  BY <1>6, WriteFileTyped
<1>7. CASE RemoveFile
  <2>1. \A f \in DOMAIN dir' : f \in DOMAIN dir /\ dir'[f] = dir[f]
    BY <1>7 DEF RemoveFile, Restrict
  <2>2. ProcessTypes' /\ MemoryTypes'
    BY <1>7 DEF RemoveFile, ProcessTypes, MemoryTypes, Up
  <2>. QED
    BY <2>1, <2>2, ContentsStayTyped
<1>8. CASE EndSave
  <2>1. CASE save.stop
    BY <1>8, <2>1, NoMemoryTyped DEF EndSave
  <2>2. CASE ~ save.stop
    BY <1>8, <2>2, ContentsStayTyped DEF EndSave, ProcessTypes, MemoryTypes, Up
  <2>. QED
    BY <2>1, <2>2
<1>9. CASE UNCHANGED vars
  BY <1>9, ContentsStayTyped DEF vars, memory, ProcessTypes, MemoryTypes, Up
<1>. QED
  BY <1>1, <1>2, <1>3, <1>4, <1>5, <1>6, <1>7, <1>8, <1>9 DEF Next

\* No more updates are counted than steps were made.
LEMMA UpdatesAreSteps ==
  ASSUME NEW l, NEW n, Counted(l, n)
  PROVE  n \in 0 .. Len(l.steps)
<1>. DEFINE steps == l.steps
<1>1. /\ Len(steps) \in Nat /\ DOMAIN steps = 1 .. Len(steps) /\ n = Cardinality(UpdatesOf(steps))
  BY DEF Counted, IsSequence
<1>. HIDE DEF steps
<1>2. UpdatesOf(steps) \subseteq 1 .. Len(steps)
  BY <1>1 DEF UpdatesOf
<1>3. IsFiniteSet(1 .. Len(steps)) /\ Cardinality(1 .. Len(steps)) = Len(steps)
  <2>1. /\ IsFiniteSet(1 .. Len(steps))
        /\ Cardinality(1 .. Len(steps)) = IF 1 > Len(steps) THEN 0 ELSE Len(steps) - 1 + 1
    BY <1>1, FS_Interval
  <2>. QED
    BY <1>1, <2>1
<1>4. Cardinality(UpdatesOf(steps)) \in Nat /\ Cardinality(UpdatesOf(steps)) <= Len(steps)
  BY <1>2, <1>3, FS_Subset, FS_CardinalityType
<1>. QED
  BY <1>1, <1>4 DEF steps

\* The state of training has its types: the loss scale stays above its minimum, what is
\* restored is what can be saved, and no more groups are taken from an epoch than it has.
THEOREM TypeCorrect == Spec => []TypeOK
<1>1. AlignInv /\ CountInv /\ TypeInv => TypeOK
  <2>. SUFFICES ASSUME AlignInv, CountInv, TypeInv PROVE TypeOK
    OBVIOUS
  <2>1. ProcessTypes /\ MemoryTypes /\ config \in Configs
    BY DEF TypeInv, AlignInv
  <2>2. num_updates \in 0 .. Len(lineage.steps)
    <3>1. CASE Up
      BY <3>1, UpdatesAreSteps DEF CountInv, MemoryCounted
    <3>2. CASE ~ Up
      BY <2>1, <3>2 DEF ProcessTypes, NoLineage
    <3>. QED
      BY <3>1, <3>2
  <2>3. ASSUME proc = "train" PROVE grouped.n <= grouped.total
    <3>1. /\ epoch_itr \in EpochItrs /\ epoch_itr.cur \in Iterators /\ config \in Configs
          /\ grouped \in Groupings /\ grouped.total = CeilDiv(Share, grouped.chunk)
          /\ Aligned(epoch_itr.cur.n, grouped.n, grouped.chunk, Share)
      BY <2>3 DEF AlignInv, GroupsAligned
    <3>2. /\ epoch_itr.cur.n \in Nat /\ Share \in Nat
          /\ grouped.n \in Nat /\ grouped.total \in Nat /\ grouped.chunk \in Nat \ {0}
      BY <3>1, FreqType DEF Iterators, EpochItrs, Groupings
    <3>3. (grouped.n >= grouped.total) <=> (epoch_itr.cur.n >= Share)
      BY <3>1, <3>2, AlignedEnds
    <3>. QED
      BY <3>1, <3>2, <3>3 DEF Aligned
  <2>. QED
    BY <2>1, <2>2, <2>3 DEF TypeOK, ProcessTypes, MemoryTypes, ScalerRight
<1>2. Spec => [](AlignInv /\ CountInv /\ TypeInv)
  BY InitAligned, InitCounts, InitTyped, NextAligned, NextCounts, NextTyped, PTL DEF Spec
<1>. QED
  BY <1>1, <1>2, PTL

-----------------------------------------------------------------------------
(***************************************************************************)
(* The best checkpoint.                                                    *)
(***************************************************************************)

\* A loss under which none of these is.
Bounds(loss, losses) == \A l \in losses : loss # None /\ loss <= l

\* The best checkpoint, if it can be read, is at least as good as that loss.
Covers(loss) == loss # None /\ Whole(BestFile) => dir[BestFile].val_loss <= loss

\* Files to write, each once and the last checkpoint at the end.
InOrder(files) ==
  /\ IsSequence(files)
  /\ \A i, j \in DOMAIN files : files[i] = files[j] => i = j
  /\ files # << >> => files[Len(files)] = LastFile

\* What is known as the best loss is the best one of the model's losses.
BestKnown ==
  /\ Up => Bounds(best, lineage.losses)
  /\ \A f \in DOMAIN dir : dir[f] # Torn => Bounds(dir[f].best, dir[f].lineage.losses)

\* The best checkpoint and the last one.
BestHasLoss == Whole(BestFile) => dir[BestFile].val_loss \in Losses
LastCovered == Whole(LastFile) /\ ~ dir[LastFile].lineage.others => Covers(dir[LastFile].best)

\* The model of the process comes from the last checkpoint if that can be read.
FromLast ==
  Up /\ Whole(LastFile) /\ ~ dir[LastFile].lineage.others =>
    /\ ~ lineage.others
    /\ dir[LastFile].best # None => best # None /\ best <= dir[LastFile].best

\* A best checkpoint that is still to be written is better than the one there was.
BestPending == BestFile \in ToSet(save.files) => save.loss \in Losses /\ save.loss = best

BestCovered ==
  Up /\ ~ lineage.others => Covers(best) \/ (proc = "saving" /\ BestFile \in ToSet(save.files))

\* The copies to come are of what is in memory, or of a file that was torn.
CopiesAreOwn ==
  proc = "saving" /\ save.source # None /\ save.files # << >> =>
    dir[save.source] \in {Torn, Content} /\ save.source \notin ToSet(save.files)

BestInv ==
  /\ BestKnown /\ BestHasLoss /\ LastCovered /\ FromLast
  /\ InOrder(save.files) /\ BestPending /\ BestCovered /\ CopiesAreOwn

LEMMA NamesDiffer ==
  ASSUME NEW epoch, NEW updates, NEW loss
  PROVE  /\ BestFile # LastFile
         /\ EpochFile(epoch) \notin {UpdatesFile(epoch, updates), BestFile, BestLossFile(loss), LastFile}
         /\ UpdatesFile(epoch, updates) \notin {BestFile, BestLossFile(loss), LastFile}
         /\ BestLossFile(loss) \notin {BestFile, LastFile}
  BY DEF BestFile, LastFile, EpochFile, UpdatesFile, BestLossFile

Distinct(files) == \A i, j \in DOMAIN files : files[i] = files[j] => i = j

LEMMA OptionalFile ==
  ASSUME NEW file, NEW cond
  PROVE  /\ IsSequence(If(file, cond)) /\ Distinct(If(file, cond))
         /\ cond => ToSet(If(file, cond)) = {file}
         /\ ~ cond => ToSet(If(file, cond)) = {}
<1>1. CASE cond
  <2>. DEFINE s == <<file>>
  <2>1. If(file, cond) = s
    BY <1>1 DEF If
  <2>2. s \in Seq({file}) /\ DOMAIN s = {1} /\ s[1] = file
    OBVIOUS
  <2>. HIDE DEF s
  <2>. QED
    BY <1>1, <2>1, <2>2 DEF IsSequence, Distinct, ToSet
<1>2. CASE ~ cond
  <2>. DEFINE s == << >>
  <2>1. If(file, cond) = s
    BY <1>2 DEF If
  <2>2. s \in Seq({}) /\ DOMAIN s = {}
    OBVIOUS
  <2>. HIDE DEF s
  <2>. QED
    BY <1>2, <2>1, <2>2 DEF IsSequence, Distinct, ToSet
<1>. QED
  BY <1>1, <1>2

LEMMA ConcatDistinct ==
  ASSUME NEW s, NEW t, IsSequence(s), IsSequence(t), Distinct(s), Distinct(t),
         ToSet(s) \cap ToSet(t) = {}
  PROVE  IsSequence(s \o t) /\ Distinct(s \o t) /\ ToSet(s \o t) = ToSet(s) \cup ToSet(t)
<1>1. PICK S : s \in Seq(S)
  BY DEF IsSequence
<1>2. PICK T : t \in Seq(T)
  BY DEF IsSequence
<1>3. s \in Seq(S \cup T) /\ t \in Seq(S \cup T)
  BY <1>1, <1>2
<1>. DEFINE st == s \o t
<1>4. /\ st \in Seq(S \cup T) /\ Len(s) \in Nat /\ Len(t) \in Nat
      /\ DOMAIN s = 1 .. Len(s) /\ DOMAIN t = 1 .. Len(t) /\ DOMAIN st = 1 .. Len(s) + Len(t)
      /\ \A i \in 1 .. Len(s) : st[i] = s[i]
      /\ \A i \in Len(s) + 1 .. Len(s) + Len(t) : st[i] = t[i - Len(s)]
  BY <1>3
<1>. HIDE DEF st
<1>5. \A i \in DOMAIN st : \/ i \in DOMAIN s /\ st[i] = s[i]
                           \/ /\ i \notin DOMAIN s /\ i - Len(s) \in DOMAIN t
                              /\ st[i] = t[i - Len(s)]
  BY <1>4
<1>6. Distinct(st)
  <2>1. ASSUME NEW i \in DOMAIN st, NEW j \in DOMAIN st, st[i] = st[j] PROVE i = j
    <3>1. CASE i \in DOMAIN s /\ j \in DOMAIN s
      BY <1>5, <2>1, <3>1 DEF Distinct
    <3>2. CASE i \notin DOMAIN s /\ j \notin DOMAIN s
      <4>1. i - Len(s) = j - Len(s)
        BY <1>5, <2>1, <3>2 DEF Distinct
      <4>. QED
        BY <1>4, <4>1
    <3>3. CASE i \in DOMAIN s /\ j \notin DOMAIN s
      BY <1>5, <2>1, <3>3 DEF ToSet
    <3>4. CASE i \notin DOMAIN s /\ j \in DOMAIN s
      BY <1>5, <2>1, <3>4 DEF ToSet
    <3>. QED
      BY <3>1, <3>2, <3>3, <3>4
  <2>. QED
    BY <2>1 DEF Distinct
<1>7. ToSet(st) = ToSet(s) \cup ToSet(t)
  <2>1. ToSet(st) \subseteq ToSet(s) \cup ToSet(t)
    BY <1>5 DEF ToSet
  <2>2. ToSet(s) \subseteq ToSet(st)
    BY <1>4 DEF ToSet
  <2>3. ASSUME NEW i \in DOMAIN t PROVE t[i] \in ToSet(st)
    <3>1. i + Len(s) \in DOMAIN st /\ st[i + Len(s)] = t[i]
      BY <1>4
    <3>. QED
      BY <3>1 DEF ToSet
  <2>. QED
    BY <2>1, <2>2, <2>3 DEF ToSet
<1>. QED
  BY <1>4, <1>6, <1>7 DEF IsSequence, st

\* The files of a save: each once, the best one among them for a best loss, and the last
\* checkpoint at the end.
LEMMA FilesInOrder ==
  ASSUME NEW c, NEW epoch, NEW ended, NEW updates, NEW loss, NEW b
  PROVE  LET files == checkpoints(c, epoch, ended, updates, loss, b) IN
         /\ InOrder(files)
         /\ ToSet(files) \subseteq {EpochFile(epoch), UpdatesFile(epoch, updates), BestFile,
                                   BestLossFile(loss), LastFile}
         /\ BestFile \in ToSet(files) <=> loss # None /\ loss <= b
<1>. DEFINE is_best == loss # None /\ loss <= b
            e1 == If(EpochFile(epoch), ended /\ ~ c.no_epoch_checkpoints /\ epoch % c.save_interval = 0)
            e2 == If(UpdatesFile(epoch, updates), ~ ended /\ c.save_interval_updates > 0
                                                  /\ updates % c.save_interval_updates = 0)
            e3 == If(BestFile, is_best)
            e4 == If(BestLossFile(loss), is_best /\ c.keep_best_checkpoints > 0)
            e5 == <<LastFile>>
            f2 == e1 \o e2
            f3 == f2 \o e3
            f4 == f3 \o e4
            f5 == f4 \o e5
<1>1. checkpoints(c, epoch, ended, updates, loss, b) = f5
  BY DEF checkpoints, regular
<1>2. /\ IsSequence(e1) /\ Distinct(e1) /\ ToSet(e1) \subseteq {EpochFile(epoch)}
  BY OptionalFile
<1>3. /\ IsSequence(e2) /\ Distinct(e2) /\ ToSet(e2) \subseteq {UpdatesFile(epoch, updates)}
  BY OptionalFile
<1>4. /\ IsSequence(e3) /\ Distinct(e3) /\ ToSet(e3) \subseteq {BestFile}
      /\ BestFile \in ToSet(e3) <=> is_best
  BY OptionalFile
<1>5. /\ IsSequence(e4) /\ Distinct(e4) /\ ToSet(e4) \subseteq {BestLossFile(loss)}
  BY OptionalFile
<1>6. e5 = If(LastFile, TRUE)
  BY DEF If
<1>7. /\ IsSequence(e5) /\ Distinct(e5) /\ ToSet(e5) = {LastFile}
  BY <1>6, OptionalFile
<1>8. f5 # << >> /\ f5[Len(f5)] = LastFile
  <2>. HIDE DEF e1, e2, e3, e4
  <2>1. IsSequence(f4)
    <3>1. PICK S1, S2, S3, S4 : e1 \in Seq(S1) /\ e2 \in Seq(S2) /\ e3 \in Seq(S3) /\ e4 \in Seq(S4)
      BY <1>2, <1>3, <1>4, <1>5 DEF IsSequence
    <3>. DEFINE S == S1 \cup S2 \cup S3 \cup S4
    <3>2. e1 \in Seq(S) /\ e2 \in Seq(S) /\ e3 \in Seq(S) /\ e4 \in Seq(S)
      BY <3>1
    <3>3. f4 \in Seq(S)
      BY <3>2
    <3>. QED
      BY <3>3 DEF IsSequence
  <2>. HIDE DEF f4
  <2>2. PICK S : f4 \in Seq(S)
    BY <2>1 DEF IsSequence
  <2>3. f4 \in Seq(S \cup {LastFile}) /\ LastFile \in S \cup {LastFile}
    BY <2>2
  <2>4. f5 = Append(f4, LastFile)
    BY <2>3
  <2>5. Len(f5) = Len(f4) + 1 /\ f5[Len(f4) + 1] = LastFile /\ Len(f4) \in Nat
    BY <2>3, <2>4
  <2>. QED
    BY <2>5
<1>. HIDE DEF e1, e2, e3, e4, e5, is_best
<1>9. IsSequence(f2) /\ Distinct(f2) /\ ToSet(f2) = ToSet(e1) \cup ToSet(e2)
  BY <1>2, <1>3, NamesDiffer, ConcatDistinct
<1>. HIDE DEF f2
<1>10. IsSequence(f3) /\ Distinct(f3) /\ ToSet(f3) = ToSet(f2) \cup ToSet(e3)
  BY <1>2, <1>3, <1>4, <1>9, NamesDiffer, ConcatDistinct
<1>. HIDE DEF f3
<1>11. IsSequence(f4) /\ Distinct(f4) /\ ToSet(f4) = ToSet(f3) \cup ToSet(e4)
  BY <1>2, <1>3, <1>4, <1>5, <1>9, <1>10, NamesDiffer, ConcatDistinct
<1>. HIDE DEF f4
<1>12. IsSequence(f5) /\ Distinct(f5) /\ ToSet(f5) = ToSet(f4) \cup ToSet(e5)
  BY <1>2, <1>3, <1>4, <1>5, <1>7, <1>9, <1>10, <1>11, NamesDiffer, ConcatDistinct
<1>. HIDE DEF f5
<1>13. BestFile \in ToSet(f5) <=> is_best
  BY <1>2, <1>3, <1>4, <1>5, <1>7, <1>9, <1>10, <1>11, <1>12, NamesDiffer
<1>14. ToSet(f5) \subseteq {EpochFile(epoch), UpdatesFile(epoch, updates), BestFile,
                           BestLossFile(loss), LastFile}
  BY <1>2, <1>3, <1>4, <1>5, <1>7, <1>9, <1>10, <1>11, <1>12
<1>. QED
  BY <1>1, <1>8, <1>12, <1>13, <1>14 DEF InOrder, Distinct, is_best

\* One file after the other.
LEMMA NextFile ==
  ASSUME NEW files, InOrder(files), files # << >>
  PROVE  /\ InOrder(Tail(files))
         /\ ToSet(files) = {Head(files)} \cup ToSet(Tail(files))
         /\ Head(files) \notin ToSet(Tail(files))
         /\ Head(files) = LastFile => Tail(files) = << >>
<1>. DEFINE rest == Tail(files)
            head == Head(files)
<1>1. PICK S : files \in Seq(S)
  BY DEF InOrder, IsSequence
<1>2. /\ rest \in Seq(S) /\ Len(files) \in Nat \ {0} /\ Len(rest) = Len(files) - 1
      /\ DOMAIN files = 1 .. Len(files) /\ DOMAIN rest = 1 .. Len(rest)
      /\ \A i \in 1 .. Len(rest) : rest[i] = files[i + 1]
      /\ head = files[1]
      /\ Len(rest) = 0 => rest = << >>
  BY <1>1
<1>3. /\ \A i, j \in DOMAIN files : files[i] = files[j] => i = j
      /\ files[Len(files)] = LastFile
  BY DEF InOrder
<1>. HIDE DEF rest, head
<1>4. InOrder(rest)
  <2>1. ASSUME NEW i \in DOMAIN rest, NEW j \in DOMAIN rest, rest[i] = rest[j] PROVE i = j
    <3>1. i + 1 \in DOMAIN files /\ j + 1 \in DOMAIN files
      BY <1>2
    <3>2. i + 1 = j + 1
      BY <1>2, <1>3, <2>1, <3>1
    <3>. QED
      BY <1>2, <3>2
  <2>2. ASSUME rest # << >> PROVE rest[Len(rest)] = LastFile
    BY <1>2, <1>3, <2>2
  <2>. QED
    BY <1>2, <2>1, <2>2 DEF InOrder, IsSequence
<1>5. ASSUME NEW i \in DOMAIN files PROVE files[i] = head \/ files[i] \in ToSet(rest)
  <2>1. CASE i = 1
    BY <1>2, <2>1
  <2>2. CASE i # 1
    <3>1. i - 1 \in DOMAIN rest /\ rest[i - 1] = files[i]
      BY <1>2, <2>2
    <3>. QED
      BY <3>1 DEF ToSet
  <2>. QED
    BY <2>1, <2>2
<1>6. ASSUME NEW i \in DOMAIN rest PROVE rest[i] \in ToSet(files) /\ rest[i] # head
  <2>1. i + 1 \in DOMAIN files /\ 1 \in DOMAIN files /\ i + 1 # 1 /\ rest[i] = files[i + 1]
    BY <1>2
  <2>. QED
    BY <1>2, <1>3, <2>1 DEF ToSet
<1>7. head \in ToSet(files)
  BY <1>2 DEF ToSet
<1>8. head = LastFile => rest = << >>
  <2>1. ASSUME head = LastFile PROVE Len(files) = 1
    <3>1. 1 \in DOMAIN files /\ Len(files) \in DOMAIN files /\ files[1] = files[Len(files)]
      BY <1>2, <1>3, <2>1
    <3>. QED
      BY <1>3, <3>1
  <2>. QED
    BY <1>2, <2>1
<1>9. ToSet(files) = {head} \cup ToSet(rest) /\ head \notin ToSet(rest)
  BY <1>5, <1>6, <1>7 DEF ToSet
<1>. QED
  BY <1>4, <1>8, <1>9 DEF rest, head

\* A new loss, and the best one after it.
LEMMA BestAfter ==
  ASSUME NEW b \in Losses \cup {None}, NEW loss \in Losses \cup {None},
         NEW losses \in SUBSET Losses, Bounds(b, losses)
  PROVE  LET new == best_after(b, loss) IN
         /\ new \in Losses \cup {None}
         /\ Bounds(new, losses \cup ({loss} \ {None}))
         /\ loss # None /\ loss <= new => new = loss /\ loss \in Losses
         /\ ~ (loss # None /\ loss <= new) => new = b
         /\ b # None => new # None /\ new <= b
<1>1. Losses \subseteq Nat /\ None \notin Losses
  BY BoundsAssumption
<1>2. CASE loss = None
  BY <1>1, <1>2 DEF best_after, Bounds
<1>3. CASE loss # None /\ b = None
  <2>1. best_after(b, loss) = loss /\ losses = {} /\ loss \in Nat
    BY <1>1, <1>3 DEF best_after, Bounds
  <2>. QED
    BY <1>1, <1>3, <2>1 DEF Bounds
<1>4. CASE loss # None /\ b # None /\ loss < b
  <2>1. best_after(b, loss) = loss /\ loss \in Nat /\ b \in Nat
    BY <1>1, <1>4 DEF best_after
  <2>2. Bounds(loss, losses \cup {loss})
    BY <1>1, <1>4, <2>1 DEF Bounds
  <2>. QED
    BY <1>1, <1>4, <2>1, <2>2
<1>5. CASE loss # None /\ b # None /\ ~ (loss < b)
  <2>1. best_after(b, loss) = b /\ loss \in Nat /\ b \in Nat
    BY <1>1, <1>5 DEF best_after
  <2>2. Bounds(b, losses \cup {loss})
    BY <1>1, <1>5, <2>1 DEF Bounds
  <2>. QED
    BY <1>1, <1>5, <2>1, <2>2
<1>. QED
  BY <1>2, <1>3, <1>4, <1>5

\* Nothing to write.
LEMMA NoFiles == InOrder(<< >>) /\ ToSet(<< >>) = {}
<1>1. << >> \in Seq({}) /\ DOMAIN << >> = {}
  OBVIOUS
<1>. DEFINE s == << >>
<1>. HIDE DEF s
<1>2. s \in Seq({}) /\ DOMAIN s = {} /\ (s # << >> => s[Len(s)] = LastFile)
  BY <1>1 DEF s
<1>3. InOrder(s) /\ ToSet(s) = {}
  BY <1>2 DEF InOrder, IsSequence, ToSet
<1>. QED
  BY <1>3 DEF s

\* When nothing is being saved.
LEMMA NothingPending ==
  ASSUME save'.files = << >>
  PROVE  InOrder(save'.files) /\ BestPending' /\ CopiesAreOwn' /\ BestFile \notin ToSet(save'.files)
  BY NoFiles DEF BestPending, CopiesAreOwn

LEMMA InitBest == Init => BestInv
<1>. SUFFICES ASSUME Init PROVE BestInv
  OBVIOUS
<1>1. dir = << >> /\ DOMAIN dir = {} /\ ~ Up /\ save = NoSave /\ save.files = << >>
  BY DEF Init, Up, NoSave
<1>2. InOrder(save.files) /\ BestPending /\ CopiesAreOwn
  BY <1>1, NoFiles DEF BestPending, CopiesAreOwn
<1>. QED
  BY <1>1, <1>2
     DEF BestInv, BestKnown, BestHasLoss, LastCovered, FromLast, BestCovered, Whole

\* What the files hold stays true of them while they do not change.
LEMMA FilesStayBest ==
  ASSUME BestInv, dir' = dir
  PROVE  /\ \A f \in DOMAIN dir' : dir'[f] # Torn => Bounds(dir'[f].best, dir'[f].lineage.losses)
         /\ BestHasLoss' /\ LastCovered'
  BY DEF BestInv, BestKnown, BestHasLoss, LastCovered, Covers, Whole

LEMMA NoMemoryBest ==
  ASSUME BestInv, NoMemory, dir' = dir, proc' \in {"down", "done"}
  PROVE  BestInv'
<1>1. ~ Up' /\ save'.files = << >>
  BY DEF NoMemory, NoSave, Up
<1>. QED
  BY <1>1, FilesStayBest, NothingPending DEF BestInv, BestKnown, FromLast, BestCovered

LEMMA LaunchBest ==
  ASSUME BestInv, TypeInv, LaunchNew \/ \E file \in DOMAIN dir : LaunchFrom(file)
  PROVE  BestInv'
<1>1. dir' = dir /\ save'.files = << >>
  BY DEF LaunchNew, LaunchFrom, NoSave
<1>2. CASE LaunchNew
  <2>1. lineage' = NoLineage /\ ~ Whole(LastFile)' /\ best' = None
    BY <1>1, <1>2 DEF LaunchNew, Whole
  <2>2. Bounds(best', lineage'.losses) /\ Covers(best)'
    BY <2>1 DEF Bounds, Covers, NoLineage
  <2>. QED
    BY <1>1, <2>1, <2>2, FilesStayBest, NothingPending DEF BestInv, BestKnown, FromLast, BestCovered
<1>3. ASSUME NEW file \in DOMAIN dir, LaunchFrom(file) PROVE BestInv'
  <2>1. /\ dir[file] # Torn /\ (file = LastFile \/ ~ Whole(LastFile))
        /\ lineage'.losses = dir[file].lineage.losses /\ best' = dir[file].best
        /\ lineage'.others = (dir[file].lineage.others \/ file # LastFile)
    BY <1>3 DEF LaunchFrom, Whole
  <2>2. Bounds(best', lineage'.losses)
    BY <2>1 DEF BestInv, BestKnown
  <2>3. ASSUME ~ lineage'.others PROVE Covers(best)'
    BY <1>1, <2>1, <2>3 DEF BestInv, LastCovered, Covers, Whole
  <2>4. FromLast'
    <3>1. ASSUME Whole(LastFile), ~ dir[LastFile].lineage.others
          PROVE  ~ lineage'.others /\ (dir[LastFile].best # None => best' # None /\ best' <= dir[LastFile].best)
      <4>1. file = LastFile /\ best' = dir[LastFile].best
        BY <2>1, <3>1
      <4>2. dir[LastFile].best \in Losses \cup {None} /\ Losses \subseteq Nat
        BY <3>1, BoundsAssumption DEF TypeInv, ContentsTyped, ContentTypes, Whole
      <4>3. ~ lineage'.others
        BY <2>1, <3>1, <4>1, Zenon
      <4>4. ASSUME dir[LastFile].best # None PROVE best' # None /\ best' <= dir[LastFile].best
        <5>. DEFINE b == dir[LastFile].best
        <5>1. b \in Nat /\ best' = b
          BY <4>1, <4>2, <4>4
        <5>. HIDE DEF b
        <5>2. best' <= b
          BY <5>1
        <5>. QED
          BY <4>1, <4>4, <5>2 DEF b
      <4>. QED
        BY <4>3, <4>4
    <3>. QED
      BY <1>1, <3>1 DEF FromLast, Whole
  <2>. QED
    BY <1>1, <2>2, <2>3, <2>4, FilesStayBest, NothingPending DEF BestInv, BestKnown, BestCovered
<1>. QED
  BY <1>2, <1>3

LEMMA TrainStepBest ==
  ASSUME BestInv, TypeInv, NEW outcome, NEW loss \in Losses \cup {None}, TrainStep(outcome, loss)
  PROVE  BestInv'
<1>. DEFINE new == best_after(best, loss)
<1>1. /\ dir' = dir /\ proc = "train" /\ proc' \in {"saving", "train", "epoch"}
      /\ lineage'.others = lineage.others
  BY DEF TrainStep
<1>2. \/ /\ best' = best /\ lineage'.losses = lineage.losses /\ save' = NoSave
      \/ /\ best' = new /\ lineage'.losses = lineage.losses \cup ({loss} \ {None})
         /\ proc' = "saving" /\ save'.loss = loss /\ save'.source = None
         /\ \E epoch, ended, updates :
              save'.files = checkpoints(config, epoch, ended, updates, loss, new)
  BY DEF TrainStep, NoSave
<1>3. /\ Up /\ Bounds(best, lineage.losses) /\ best \in Losses \cup {None}
      /\ lineage.losses \in SUBSET Losses
      /\ ~ lineage.others => Covers(best)
  BY <1>1 DEF BestInv, BestKnown, BestCovered, TypeInv, MemoryTypes, Up
<1>4. CASE best' = best /\ lineage'.losses = lineage.losses /\ save' = NoSave
  <2>1. save'.files = << >>
    BY <1>4 DEF NoSave
  <2>2. BestKnown'
    BY <1>1, <1>3, <1>4, FilesStayBest DEF BestKnown, Bounds
  <2>3. FromLast'
    BY <1>1, <1>3, <1>4 DEF BestInv, FromLast, Whole
  <2>4. BestCovered'
    BY <1>1, <1>3, <1>4 DEF BestCovered, Covers, Whole
  <2>. QED
    BY <1>1, <2>1, <2>2, <2>3, <2>4, FilesStayBest, NothingPending DEF BestInv
<1>5. ASSUME best' = new, lineage'.losses = lineage.losses \cup ({loss} \ {None}),
             proc' = "saving", save'.loss = loss, save'.source = None,
             NEW epoch, NEW ended, NEW updates,
             save'.files = checkpoints(config, epoch, ended, updates, loss, new)
      PROVE  BestInv'
  <2>1. /\ new \in Losses \cup {None}
        /\ Bounds(new, lineage'.losses)
        /\ loss # None /\ loss <= new => new = loss /\ loss \in Losses
        /\ ~ (loss # None /\ loss <= new) => new = best
        /\ best # None => new # None /\ new <= best
    BY <1>3, <1>5, BestAfter
  <2>. HIDE DEF new
  <2>2. /\ InOrder(save'.files)
        /\ BestFile \in ToSet(save'.files) <=> loss # None /\ loss <= new
    BY <1>5, FilesInOrder
  <2>3. BestKnown'
    BY <1>1, <1>5, <2>1, FilesStayBest DEF BestKnown
  <2>4. FromLast'
    <3>1. ASSUME Whole(LastFile), ~ dir[LastFile].lineage.others
          PROVE  ~ lineage'.others /\ (dir[LastFile].best # None => new # None /\ new <= dir[LastFile].best)
      <4>. DEFINE b == dir[LastFile].best
      <4>1. /\ ~ lineage.others /\ (b # None => best # None /\ best <= b)
            /\ b \in Losses \cup {None}
        BY <1>3, <3>1
           DEF BestInv, FromLast, TypeInv, ContentsTyped, ContentTypes, Whole
      <4>2. ~ lineage'.others
        BY <1>1, <4>1, Zenon
      <4>. HIDE DEF b
      <4>3. ASSUME b # None PROVE new # None /\ new <= b
        <5>1. /\ new # None /\ new <= best /\ best <= b
              /\ new \in Nat /\ best \in Nat /\ b \in Nat
          BY <1>3, <2>1, <4>1, <4>3, BoundsAssumption
        <5>. QED
          BY <5>1
      <4>. QED
        BY <4>2, <4>3 DEF b
    <3>. QED
      BY <1>1, <1>5, <3>1 DEF FromLast, Whole
  <2>5. BestPending'
    BY <1>5, <2>1, <2>2 DEF BestPending
  <2>6. BestCovered'
    <3>1. ASSUME ~ lineage'.others, BestFile \notin ToSet(save'.files) PROVE Covers(best)'
      <4>1. ~ lineage.others
        BY <1>1, <3>1, Zenon
      <4>2. new = best
        BY <2>1, <2>2, <3>1
      <4>. QED
        BY <1>1, <1>3, <1>5, <4>1, <4>2 DEF Covers, Whole
    <3>. QED
      BY <1>5, <3>1 DEF BestCovered
  <2>7. CopiesAreOwn'
    BY <1>5 DEF CopiesAreOwn
  <2>. QED
    BY <1>1, <2>2, <2>3, <2>4, <2>5, <2>6, <2>7, FilesStayBest DEF BestInv
<1>. QED
  BY <1>2, <1>4, <1>5

\* A file that is torn or removed makes nothing wrong.
LEMMA FewerFilesBest ==
  ASSUME BestInv, UNCHANGED <<proc, lineage, best>>,
         \A f \in DOMAIN dir' : dir'[f] = Torn \/ (f \in DOMAIN dir /\ dir'[f] = dir[f])
  PROVE  /\ BestKnown' /\ BestHasLoss' /\ LastCovered' /\ FromLast'
         /\ Covers(best) => Covers(best)'
<1>1. \A f : Whole(f)' => Whole(f) /\ dir'[f] = dir[f]
  BY DEF Whole
<1>2. BestKnown'
  BY DEF BestInv, BestKnown, Up
<1>3. BestHasLoss' /\ (Covers(best) => Covers(best)')
  BY <1>1 DEF BestInv, BestHasLoss, Covers
<1>4. LastCovered' /\ FromLast'
  BY <1>1 DEF BestInv, LastCovered, FromLast, Covers, Up
<1>. QED
  BY <1>2, <1>3, <1>4

LEMMA OpenFileBest ==
  ASSUME BestInv, CountInv, OpenFile
  PROVE  BestInv'
<1>1. /\ proc = "saving" /\ save.files # << >>
      /\ UNCHANGED <<config, proc, lineage, num_updates, scaler, epoch_itr, best>>
      /\ save' = [save EXCEPT !.open = TRUE]
      /\ DOMAIN dir' = DOMAIN dir \cup {Head(save.files)}
      /\ \A f \in DOMAIN dir' : dir'[f] = IF f = Head(save.files) THEN Torn ELSE dir[f]
  BY DEF OpenFile
<1>2. \A f \in DOMAIN dir' : dir'[f] = Torn \/ (f \in DOMAIN dir /\ dir'[f] = dir[f])
  BY <1>1
<1>3. save'.files = save.files /\ save'.loss = save.loss /\ save'.source = save.source
  BY <1>1
<1>4. /\ BestKnown' /\ BestHasLoss' /\ LastCovered' /\ FromLast'
      /\ Covers(best) => Covers(best)'
  BY <1>1, <1>2, FewerFilesBest
<1>5. InOrder(save'.files) /\ BestPending' /\ BestCovered'
  BY <1>1, <1>3, <1>4 DEF BestInv, BestPending, BestCovered, Up
<1>6. CopiesAreOwn'
  <2>1. Content' = Content
    BY <1>1, <1>3 DEF Content
  <2>2. ASSUME save.source # None
        PROVE  dir'[save.source] \in {Torn, Content} /\ save.source \notin ToSet(save.files)
    <3>1. dir[save.source] \in {Torn, Content} /\ save.source \notin ToSet(save.files)
      BY <1>1, <2>2 DEF BestInv, CopiesAreOwn
    <3>2. save.source \in DOMAIN dir
      BY <1>1, <2>2 DEF CountInv, SourceIsThere
    <3>. QED
      BY <1>1, <3>1, <3>2
  <2>. QED
    BY <1>3, <2>1, <2>2 DEF CopiesAreOwn
<1>. QED
  BY <1>4, <1>5, <1>6 DEF BestInv

LEMMA WriteFileBest ==
  ASSUME BestInv, CountInv, TypeInv, WriteFile
  PROVE  BestInv'
<1>. DEFINE file == Head(save.files)
            rest == Tail(save.files)
            After(loss) ==
              loss # None /\ Whole(BestFile)' => dir'[BestFile].val_loss <= loss
<1>1. /\ proc = "saving" /\ save.open /\ Up
      /\ UNCHANGED <<config, proc, lineage, num_updates, scaler, epoch_itr, best>>
      /\ save'.files = rest /\ save'.loss = save.loss
      /\ save'.source = IF save.source = None THEN file ELSE save.source
  BY DEF WriteFile, Up, CountInv, SourceIsThere
<1>2. PICK content \in IF save.source = None THEN Written ELSE {dir[save.source]} :
        dir' = [dir EXCEPT ![file] = content]
  BY DEF WriteFile
<1>3. /\ save.files # << >> /\ file \in DOMAIN dir
      /\ save.source # None => save.source \in DOMAIN dir
  BY <1>1 DEF CountInv, SourceIsThere
<1>4. content \in {Torn, Content}
  <2>1. CASE save.source = None
    BY <1>2, <2>1 DEF Written
  <2>2. CASE save.source # None
    BY <1>1, <1>2, <1>3, <2>2 DEF BestInv, CopiesAreOwn
  <2>. QED
    BY <2>1, <2>2
<1>5. /\ InOrder(rest) /\ ToSet(save.files) = {file} \cup ToSet(rest) /\ file \notin ToSet(rest)
      /\ file = LastFile => rest = << >>
  BY <1>3, NextFile DEF BestInv
<1>. HIDE DEF file, rest
<1>6. /\ DOMAIN dir' = DOMAIN dir /\ dir'[file] = content
      /\ \A f \in DOMAIN dir : f # file => dir'[f] = dir[f]
  BY <1>2, <1>3
<1>7. /\ Content.lineage = lineage /\ Content.best = best /\ Content.val_loss = save.loss
      /\ Content' = Content
  BY <1>1 DEF Content
<1>. HIDE DEF Content
<1>8. BestKnown'
  <2>1. Bounds(best, lineage.losses)
    BY <1>1 DEF BestInv, BestKnown
  <2>2. ASSUME NEW f \in DOMAIN dir', dir'[f] # Torn
        PROVE  Bounds(dir'[f].best, dir'[f].lineage.losses)
    BY <1>4, <1>6, <1>7, <2>1, <2>2 DEF BestInv, BestKnown
  <2>. QED
    BY <1>1, <2>1, <2>2 DEF BestKnown
<1>9. file = BestFile => save.loss \in Losses /\ save.loss = best
  BY <1>5 DEF BestInv, BestPending
<1>10. BestHasLoss'
  <2>1. ASSUME BestFile \in DOMAIN dir', dir'[BestFile] # Torn PROVE dir'[BestFile].val_loss \in Losses
    BY <1>4, <1>6, <1>7, <1>9, <2>1 DEF BestInv, BestHasLoss, Whole
  <2>. QED
    BY <2>1 DEF BestHasLoss, Whole
<1>11. \A loss \in Losses \cup {None} :
         (Covers(loss) \/ file = BestFile) /\ (file = BestFile => loss = None \/ best <= loss)
           => After(loss)
  <2>1. ASSUME NEW loss \in Losses \cup {None}, Covers(loss) \/ file = BestFile,
               file = BestFile => loss = None \/ best <= loss, loss # None,
               BestFile \in DOMAIN dir', dir'[BestFile] # Torn
        PROVE  dir'[BestFile].val_loss <= loss
    <3>1. CASE file = BestFile
      <4>1. dir'[BestFile].val_loss = best
        BY <1>4, <1>6, <1>7, <1>9, <2>1, <3>1
      <4>. QED
        BY <2>1, <3>1, <4>1
    <3>2. CASE file # BestFile
      BY <1>6, <2>1, <3>2 DEF Covers, Whole
    <3>. QED
      BY <3>1, <3>2
  <2>. QED
    BY <2>1 DEF Whole
<1>. HIDE DEF After
<1>12. best \in Losses \cup {None} /\ Losses \subseteq Nat
  BY BoundsAssumption DEF TypeInv, MemoryTypes
<1>13. BestPending'
  BY <1>1, <1>5 DEF BestInv, BestPending
<1>14. ASSUME ~ lineage.others, BestFile \notin ToSet(rest) PROVE After(best)
  <2>1. Covers(best) \/ file = BestFile
    BY <1>1, <1>5, <1>14 DEF BestInv, BestCovered
  <2>2. file = BestFile => best = None \/ best <= best
    BY <1>9, <1>12
  <2>. QED
    BY <1>11, <1>12, <2>1, <2>2
<1>15. BestCovered'
  <2>1. After(best) => Covers(best)'
    BY <1>1 DEF Covers, After
  <2>. QED
    BY <1>1, <1>14, <2>1 DEF BestCovered
<1>16. LastCovered'
  <2>1. ASSUME Whole(LastFile)', ~ dir'[LastFile].lineage.others
        PROVE  After(dir'[LastFile].best)
    <3>1. CASE file = LastFile
      <4>1. /\ dir'[LastFile].best = best /\ dir'[LastFile].lineage = lineage
        BY <1>4, <1>6, <1>7, <2>1, <3>1 DEF Whole
      <4>2. ~ lineage.others /\ BestFile \notin ToSet(rest)
        BY <1>5, <2>1, <3>1, <4>1, NoFiles
      <4>. QED
        BY <1>14, <4>1, <4>2
    <3>2. CASE file # LastFile
      <4>. DEFINE b == dir[LastFile].best
      <4>1. Whole(LastFile) /\ dir'[LastFile] = dir[LastFile]
        BY <1>6, <2>1, <3>2 DEF Whole
      <4>2. /\ Covers(b) /\ b \in Losses \cup {None}
            /\ b # None => best # None /\ best <= b
        BY <1>1, <2>1, <4>1
           DEF BestInv, LastCovered, FromLast, TypeInv, ContentsTyped, ContentTypes, Whole
      <4>. HIDE DEF b
      <4>3. file = BestFile => best <= b \/ b = None
        BY <4>2
      <4>4. After(b)
        BY <1>11, <4>2, <4>3
      <4>. QED
        BY <4>1, <4>4 DEF b
    <3>. QED
      BY <3>1, <3>2
  <2>. QED
    BY <2>1 DEF LastCovered, Covers, After
<1>17. FromLast'
  <2>1. ASSUME Whole(LastFile)', ~ dir'[LastFile].lineage.others
        PROVE  ~ lineage.others /\ (dir'[LastFile].best # None => best # None /\ best <= dir'[LastFile].best)
    <3>1. CASE file = LastFile
      <4>1. /\ dir'[LastFile].best = best /\ dir'[LastFile].lineage = lineage
        BY <1>4, <1>6, <1>7, <2>1, <3>1 DEF Whole
      <4>2. best # None => best <= best
        BY <1>12
      <4>. QED
        BY <2>1, <4>1, <4>2
    <3>2. CASE file # LastFile
      <4>1. Whole(LastFile) /\ dir'[LastFile] = dir[LastFile]
        BY <1>6, <2>1, <3>2 DEF Whole
      <4>. QED
        BY <1>1, <2>1, <4>1 DEF BestInv, FromLast
    <3>. QED
      BY <3>1, <3>2
  <2>. QED
    BY <1>1, <2>1 DEF FromLast
<1>18. CopiesAreOwn'
  <2>1. ASSUME save'.source # None
        PROVE  dir'[save'.source] \in {Torn, Content} /\ save'.source \notin ToSet(rest)
    <3>1. CASE save.source = None
      BY <1>1, <1>4, <1>5, <1>6, <3>1
    <3>2. CASE save.source # None
      <4>1. dir[save.source] \in {Torn, Content} /\ save.source \notin ToSet(save.files)
        BY <1>1, <1>3, <3>2 DEF BestInv, CopiesAreOwn
      <4>. QED
        BY <1>1, <1>3, <1>5, <1>6, <3>2, <4>1
    <3>. QED
      BY <3>1, <3>2
  <2>. QED
    BY <1>1, <1>7, <2>1 DEF CopiesAreOwn
<1>. QED
  BY <1>1, <1>5, <1>8, <1>10, <1>13, <1>15, <1>16, <1>17, <1>18 DEF BestInv

LEMMA NextBest == BestInv /\ CountInv /\ TypeInv /\ [Next]_vars => BestInv'
<1>. SUFFICES ASSUME BestInv, CountInv, TypeInv, [Next]_vars PROVE BestInv'
  OBVIOUS
<1>1. CASE LaunchNew \/ \E file \in DOMAIN dir : LaunchFrom(file)
  BY <1>1, LaunchBest
<1>2. CASE BeginEpoch
  <2>1. /\ UNCHANGED <<dir, lineage, best, save>> /\ proc = "epoch" /\ proc' = "train"
    BY <1>2 DEF BeginEpoch
  <2>2. BestKnown' /\ FromLast' /\ BestCovered'
    BY <2>1 DEF BestInv, BestKnown, FromLast, BestCovered, Covers, Whole, Up
  <2>3. InOrder(save'.files) /\ BestPending' /\ CopiesAreOwn'
    BY <2>1 DEF BestInv, BestPending, CopiesAreOwn
  <2>. QED
    BY <2>1, <2>2, <2>3, FilesStayBest DEF BestInv
<1>3. CASE EndTraining \/ Crash
  BY <1>3, NoMemoryBest DEF EndTraining, Crash
<1>4. CASE \E outcome \in Outcomes, loss \in Losses \cup {None} : TrainStep(outcome, loss)
  BY <1>4, TrainStepBest
<1>5. CASE OpenFile
  BY <1>5, OpenFileBest
<1>6. CASE WriteFile
  BY <1>6, WriteFileBest
<1>7. CASE RemoveFile
  <2>1. /\ UNCHANGED <<proc, lineage, best>> /\ proc = "saving"
        /\ save'.files = << >> /\ save.files = << >>
        /\ \A f \in DOMAIN dir' : f \in DOMAIN dir /\ dir'[f] = dir[f]
    BY <1>7 DEF RemoveFile, Restrict
  <2>2. /\ BestKnown' /\ BestHasLoss' /\ LastCovered' /\ FromLast'
        /\ Covers(best) => Covers(best)'
    BY <2>1, FewerFilesBest
  <2>3. BestCovered'
    BY <2>1, <2>2 DEF BestInv, BestCovered, Up
  <2>. QED
    BY <2>1, <2>2, <2>3, NothingPending DEF BestInv
<1>8. CASE EndSave
  <2>1. CASE save.stop
    BY <1>8, <2>1, NoMemoryBest DEF EndSave
  <2>2. CASE ~ save.stop
    <3>1. /\ UNCHANGED <<dir, lineage, best>> /\ proc = "saving" /\ proc' \in {"train", "epoch"}
          /\ save.files = << >> /\ save' = NoSave
      BY <1>8, <2>2 DEF EndSave
    <3>2. save'.files = << >>
      BY <3>1 DEF NoSave
    <3>3. BestFile \notin ToSet(save.files)
      BY <3>1, NoFiles
    <3>4. BestKnown' /\ FromLast'
      BY <3>1 DEF BestInv, BestKnown, FromLast, Whole, Up
    <3>5. BestCovered'
      BY <3>1, <3>3 DEF BestInv, BestCovered, Covers, Whole, Up
    <3>. QED
      BY <3>1, <3>2, <3>4, <3>5, FilesStayBest, NothingPending DEF BestInv
  <2>. QED
    BY <2>1, <2>2
<1>9. CASE UNCHANGED vars
  <2>1. UNCHANGED <<config, dir, proc, lineage, num_updates, scaler, epoch_itr, best, save>>
    BY <1>9 DEF vars, memory
  <2>2. BestKnown' /\ FromLast' /\ BestCovered'
    BY <2>1 DEF BestInv, BestKnown, FromLast, BestCovered, Covers, Whole, Up
  <2>3. InOrder(save'.files) /\ BestPending' /\ CopiesAreOwn'
    BY <2>1 DEF BestInv, BestPending, CopiesAreOwn, Content
  <2>. QED
    BY <2>1, <2>2, <2>3, FilesStayBest DEF BestInv
<1>. QED
  BY <1>1, <1>2, <1>3, <1>4, <1>5, <1>6, <1>7, <1>8, <1>9 DEF Next

\* The best checkpoint, if it can be read, is at least as good as every model its training
\* was saved with, for every configuration, over any number of crashes and restarts, and
\* also when files cannot be written: in each save it is written before the last checkpoint,
\* which is the one that training goes on from.
THEOREM BestStaysBest == Spec => []BestIsBest
<1>1. BestInv /\ TypeInv => BestIsBest
  <2>. SUFFICES ASSUME BestInv, TypeInv, proc \in {"epoch", "train"}, Whole(BestFile),
                       ~ lineage.others, NEW loss \in lineage.losses
                PROVE  dir[BestFile].val_loss <= loss
    BY DEF BestIsBest
  <2>1. Up /\ Bounds(best, lineage.losses)
    BY DEF BestInv, BestKnown, Up
  <2>2. best # None /\ best <= loss
    BY <2>1 DEF Bounds
  <2>3. dir[BestFile].val_loss <= best
    BY <2>1, <2>2 DEF BestInv, BestCovered, Covers
  <2>. DEFINE v == dir[BestFile].val_loss
  <2>4. v \in Nat /\ best \in Nat /\ loss \in Nat
    BY <2>2, BoundsAssumption DEF BestInv, BestHasLoss, TypeInv, MemoryTypes
  <2>. HIDE DEF v
  <2>5. v <= best => v <= loss
    BY <2>2, <2>4
  <2>. QED
    BY <2>3, <2>5 DEF v
<1>2. Spec => [](BestInv /\ CountInv /\ TypeInv)
  BY InitBest, InitCounts, InitTyped, NextBest, NextCounts, NextTyped, PTL DEF Spec
<1>. QED
  BY <1>1, <1>2, PTL

-----------------------------------------------------------------------------
(***************************************************************************)
(* The file of an epoch, until it is removed.                              *)
(***************************************************************************)

\* The files of epochs after this one.
Newer(files, epoch) == {f \in files : f[1] = "checkpoint" /\ f[2] > epoch}

\* Enough files of later epochs stay when the old ones are removed.
Enough(epoch) ==
  /\ config.keep_last_epochs > 0
  /\ Cardinality(Newer(DOMAIN dir \ save.old, epoch)) >= config.keep_last_epochs

Saved(epoch) == Whole(EpochFile(epoch)) /\ dir[EpochFile(epoch)].lineage = lineage

Wanted == ~ config.no_epoch_checkpoints /\ epoch_itr.epoch % config.save_interval = 0

\* The file of the epoch is the first one to be written, and stays until the last one is.
SavePending ==
  proc = "saving" /\ end_of_epoch(epoch_itr, config.shards) /\ Wanted =>
    \/ /\ save.source = None /\ save.files # << >>
       /\ Head(save.files) = EpochFile(epoch_itr.epoch)
    \/ /\ EpochFile(epoch_itr.epoch) \notin ToSet(save.files)
       /\ Saved(epoch_itr.epoch) \/ (save.files = << >> /\ Enough(epoch_itr.epoch))

SaveDone ==
  proc = "epoch" /\ epoch_itr.cur # None /\ Wanted =>
    Saved(epoch_itr.epoch) \/ Enough(epoch_itr.epoch)

\* What is removed is the file of an epoch before those that are kept.
OldCounted ==
  /\ save.files # << >> \/ proc # "saving" => save.old = {}
  /\ \A f \in save.old : f[1] = "checkpoint" => Enough(f[2])

IsName(f) == f[1] = "checkpoint" => f[2] \in Nat

NamesTyped ==
  /\ IsFiniteSet(DOMAIN dir)
  /\ \A f \in DOMAIN dir : IsName(f)
  /\ \A f \in ToSet(save.files) : IsName(f)

SavedInv == SavePending /\ SaveDone /\ OldCounted /\ NamesTyped

\* A file that was torn is told from one that was written.
LEMMA WrittenIsWhole == Content # Torn
<1>1. "kind" \in DOMAIN Torn
  BY DEF Torn
<1>2. "kind" \notin DOMAIN Content
  BY DEF Content
<1>. QED
  BY <1>1, <1>2

LEMMA NewerFinite ==
  ASSUME NEW files, IsFiniteSet(files), NEW epoch
  PROVE  IsFiniteSet(Newer(files, epoch)) /\ Cardinality(Newer(files, epoch)) \in Nat
<1>1. Newer(files, epoch) \subseteq files
  BY DEF Newer
<1>. QED
  BY <1>1, FS_Subset, FS_CardinalityType

\* If a file is removed because keep others are later, keep that are not removed are:
\* later ones than the last that is removed.
LEMMA NewestAreKept ==
  ASSUME NEW files, IsFiniteSet(files), \A f \in files : IsName(f), NEW keep \in Int,
         NEW old \in SUBSET files,
         \A f \in old : f[1] = "checkpoint" => Cardinality(Newer(files, f[2])) >= keep,
         NEW file \in old, file[1] = "checkpoint"
  PROVE  Cardinality(Newer(files \ old, file[2])) >= keep
<1>. DEFINE epochs == {f \in old : f[1] = "checkpoint" /\ f[2] >= file[2]}
            later  == {Cardinality(Newer(files, f[2])) : f \in epochs}
<1>1. later \subseteq Nat
  BY NewerFinite
<1>2. later # {}
  <2>1. file \in epochs
    BY DEF IsName
  <2>. QED
    BY <2>1
<1>3. PICK n \in later : \A m \in later : ~ (<<m, n>> \in OpToRel(<, Nat))
  <2>. HIDE DEF later
  <2>. QED
    BY <1>1, <1>2, NatLessThanWellFounded, WFMin
<1>4. PICK last \in epochs : n = Cardinality(Newer(files, last[2]))
  BY <1>3
<1>5. \A f \in epochs : ~ (Cardinality(Newer(files, f[2])) < n)
  <2>1. ASSUME NEW f \in epochs, Cardinality(Newer(files, f[2])) < n PROVE FALSE
    <3>. DEFINE m == Cardinality(Newer(files, f[2]))
    <3>1. m \in later /\ m \in Nat /\ n \in Nat
      BY <1>1, <1>3
    <3>2. m < n
      BY <2>1
    <3>. HIDE DEF m, later
    <3>3. <<m, n>> \in OpToRel(<, Nat)
      BY <3>1, <3>2 DEF OpToRel
    <3>. QED
      BY <1>3, <3>1, <3>3
  <2>. QED
    BY <2>1
<1>6. ASSUME NEW f \in Newer(files, last[2]) PROVE f \notin old
  <2>1. SUFFICES ASSUME f \in old PROVE FALSE
    OBVIOUS
  <2>2. /\ f \in files /\ f[1] = "checkpoint" /\ f[2] \in Nat /\ f[2] > last[2]
        /\ last[2] \in Nat /\ file[2] \in Nat /\ last[2] >= file[2]
    BY <1>4, <1>6 DEF Newer, IsName
  <2>3. f \in epochs
    BY <2>1, <2>2
  <2>4. /\ Newer(files, f[2]) \subseteq Newer(files, last[2])
        /\ f \in Newer(files, last[2]) /\ f \notin Newer(files, f[2])
    BY <2>2 DEF Newer, IsName
  <2>5. /\ IsFiniteSet(Newer(files, last[2]))
        /\ Cardinality(Newer(files, last[2])) \in Nat /\ Cardinality(Newer(files, f[2])) \in Nat
    BY NewerFinite
  <2>6. Cardinality(Newer(files, f[2])) < Cardinality(Newer(files, last[2]))
    <3>1. /\ Cardinality(Newer(files, f[2])) <= Cardinality(Newer(files, last[2]))
          /\ Cardinality(Newer(files, last[2])) = Cardinality(Newer(files, f[2]))
               => Newer(files, last[2]) = Newer(files, f[2])
      BY <2>4, <2>5, FS_Subset
    <3>. QED
      BY <2>4, <2>5, <3>1
  <2>. QED
    BY <1>4, <1>5, <2>3, <2>6
<1>7. Newer(files, last[2]) \subseteq Newer(files \ old, file[2])
  BY <1>4, <1>6 DEF Newer, IsName
<1>8. /\ IsFiniteSet(files \ old)
      /\ IsFiniteSet(Newer(files \ old, file[2])) /\ Cardinality(Newer(files \ old, file[2])) \in Nat
      /\ Cardinality(Newer(files, last[2])) \in Nat
  BY NewerFinite, FS_Subset
<1>9. Cardinality(Newer(files, last[2])) <= Cardinality(Newer(files \ old, file[2]))
  BY <1>7, <1>8, FS_Subset
<1>10. Cardinality(Newer(files, last[2])) >= keep
  BY <1>4
<1>. QED
  BY <1>8, <1>9, <1>10

\* What is removed is there, and is the file of an epoch if enough others are later.
LEMMA OldAreBeyond ==
  ASSUME NEW c, NEW files, NEW ended
  PROVE  LET old == old_checkpoints(c, files, ended) IN
         /\ old \subseteq files
         /\ \A f \in old : f[1] = "checkpoint" =>
              c.keep_last_epochs > 0 /\ Cardinality(Newer(files, f[2])) >= c.keep_last_epochs
<1>. DEFINE epochs  == {f \in files : f[1] = "checkpoint"}
            updates == {f \in files : f[1] = "checkpoint_"}
            bests   == {f \in files : f[1] = "checkpoint.best_loss"}
            A == IF ~ ended /\ c.keep_interval_updates > 0
                 THEN Beyond(updates, c.keep_interval_updates,
                             {p \in updates \X updates :
                                \/ p[1][3] > p[2][3]
                                \/ p[1][3] = p[2][3] /\ p[1][2] > p[2][2]}) ELSE {}
            B == IF c.keep_last_epochs > 0
                 THEN Beyond(epochs, c.keep_last_epochs, {p \in epochs \X epochs : p[1][2] > p[2][2]}) ELSE {}
            C == IF c.keep_best_checkpoints > 0
                 THEN Beyond(bests, c.keep_best_checkpoints, {p \in bests \X bests : p[1][2] < p[2][2]}) ELSE {}
<1>1. old_checkpoints(c, files, ended) = A \cup B \cup C
  BY DEF old_checkpoints, Beyond
<1>2. A \subseteq updates /\ C \subseteq bests
  BY DEF Beyond
<1>3. ASSUME NEW f \in B
      PROVE  /\ f \in epochs /\ c.keep_last_epochs > 0
             /\ Cardinality(Newer(files, f[2])) >= c.keep_last_epochs
  <2>1. /\ f \in epochs /\ c.keep_last_epochs > 0
        /\ Cardinality({g \in epochs : g[2] > f[2]}) >= c.keep_last_epochs
    BY <1>3 DEF Beyond
  <2>2. {g \in epochs : g[2] > f[2]} = Newer(files, f[2])
    BY <2>1 DEF Newer
  <2>. QED
    BY <2>1, <2>2
<1>. HIDE DEF A, B, C
<1>. QED
  BY <1>1, <1>2, <1>3

\* The file of an epoch that ended comes first.
LEMMA EpochFileFirst ==
  ASSUME NEW c, NEW epoch, NEW updates, NEW loss, NEW b,
         ~ c.no_epoch_checkpoints, epoch % c.save_interval = 0
  PROVE  LET files == checkpoints(c, epoch, TRUE, updates, loss, b)
         IN  files # << >> /\ Head(files) = EpochFile(epoch)
<1>. DEFINE Names == {EpochFile(epoch), BestFile, BestLossFile(loss), LastFile}
            e1 == <<EpochFile(epoch)>>
            e2 == << >>
            e3 == If(BestFile, loss # None /\ loss <= b)
            e4 == If(BestLossFile(loss), (loss # None /\ loss <= b) /\ c.keep_best_checkpoints > 0)
            e5 == <<LastFile>>
            files == e1 \o e2 \o e3 \o e4 \o e5
<1>1. checkpoints(c, epoch, TRUE, updates, loss, b) = files
  <2>1. regular(c, epoch, TRUE, updates) = e1 \o e2
    BY DEF regular, If
  <2>. QED
    BY <2>1 DEF checkpoints
<1>2. e1 \in Seq(Names) /\ e2 \in Seq(Names) /\ e5 \in Seq(Names)
  OBVIOUS
<1>3. e3 \in Seq(Names) /\ e4 \in Seq(Names)
  <2>1. e3 \in {<<BestFile>>, << >>} /\ e4 \in {<<BestLossFile(loss)>>, << >>}
    BY DEF If
  <2>2. <<BestFile>> \in Seq(Names) /\ <<BestLossFile(loss)>> \in Seq(Names) /\ << >> \in Seq(Names)
    OBVIOUS
  <2>. HIDE DEF e3, e4, Names
  <2>. QED
    BY <2>1, <2>2
<1>4. e1 # << >> /\ Len(e1) = 1 /\ e1[1] = EpochFile(epoch)
  OBVIOUS
<1>. HIDE DEF e1, e2, e3, e4, e5, Names
<1>5. files # << >> /\ files[1] = EpochFile(epoch) /\ files \in Seq(Names)
  BY <1>2, <1>3, <1>4
<1>. HIDE DEF files
<1>6. Head(files) = files[1]
  BY <1>5
<1>. QED
  BY <1>1, <1>5, <1>6

\* Nothing is saved, and nothing is wrong with the directory.
LEMMA NothingSaving ==
  ASSUME SavedInv, dir' = dir, save' = NoSave, proc' # "saving"
  PROVE  SavePending' /\ OldCounted' /\ NamesTyped' /\ save'.old = {}
<1>1. save'.old = {} /\ save'.files = << >> /\ ToSet(<< >>) = {}
  BY NoFiles DEF NoSave
<1>. QED
  BY <1>1 DEF SavedInv, SavePending, OldCounted, NamesTyped

LEMMA InitSaved == Init => SavedInv
<1>. SUFFICES ASSUME Init PROVE SavedInv
  OBVIOUS
<1>1. dir = << >> /\ DOMAIN dir = {} /\ proc = "down" /\ save.files = << >> /\ save.old = {}
  BY DEF Init, NoSave
<1>. QED
  BY <1>1, NoFiles, FS_EmptySet DEF SavedInv, SavePending, SaveDone, OldCounted, NamesTyped

LEMMA LaunchSaved ==
  ASSUME SavedInv, LaunchNew \/ \E file \in DOMAIN dir : LaunchFrom(file)
  PROVE  SavedInv'
<1>1. dir' = dir /\ save' = NoSave /\ proc' = "epoch" /\ epoch_itr'.cur = None
  <2>1. \A epoch : EpochBatchIterator(epoch).cur = None
    BY DEF EpochBatchIterator
  <2>2. \A itr, saved : load_state_dict(itr, saved, config.shards).cur = itr.cur
    BY DEF load_state_dict
  <2>. QED
    BY <2>1, <2>2 DEF LaunchNew, LaunchFrom
<1>. QED
  BY <1>1, NothingSaving DEF SavedInv, SaveDone

LEMMA NoMemorySaved ==
  ASSUME SavedInv, NoMemory, dir' = dir, proc' \in {"down", "done"}
  PROVE  SavedInv'
<1>1. save' = NoSave
  BY DEF NoMemory
<1>. QED
  BY <1>1, NothingSaving DEF SavedInv, SaveDone

LEMMA TrainStepSaved ==
  ASSUME SavedInv, AlignInv, NEW outcome, NEW loss, TrainStep(outcome, loss)
  PROVE  SavedInv'
<1>. DEFINE end   == grouped.n + 1 >= grouped.total
            saves == do_save(end, UpdatesAfter(outcome))
                       \/ should_stop_early(loss).stop \/ Reached(UpdatesAfter(outcome))
            ended == end_of_epoch(epoch_itr', config.shards)
<1>1. /\ config' = config /\ dir' = dir /\ proc = "train"
      /\ ~ saves => save' = NoSave /\ proc' \in {"train", "epoch"}
                    /\ (proc' = "epoch" => ended)
      /\ saves => /\ proc' = "saving" /\ save'.source = None /\ save'.old = {}
                  /\ \E updates, b : save'.files =
                       checkpoints(config, epoch_itr'.epoch, ended, updates, loss, b)
  BY DEF TrainStep, NoSave, end_of_epoch
<1>2. epoch_itr'.epoch = epoch_itr.epoch /\ epoch_itr'.epoch \in Nat
  BY TrainStepGroups DEF EpochItrs, Epochs
<1>3. end <=> ended
  BY StepsEnd
<1>. HIDE DEF ended
<1>4. CASE ~ saves
  <2>1. ASSUME proc' = "epoch" PROVE ~ Wanted'
    <3>1. end /\ ~ do_save(end, UpdatesAfter(outcome))
      BY <1>1, <1>3, <1>4, <2>1
    <3>2. ~ (epoch_itr.epoch % config.save_interval = 0)
      BY <3>1 DEF do_save
    <3>. QED
      BY <1>1, <1>2, <3>2 DEF Wanted
  <2>. QED
    BY <1>1, <1>4, <2>1, NothingSaving DEF SavedInv, SaveDone
<1>5. CASE saves
  <2>1. PICK updates, b : save'.files =
          checkpoints(config, epoch_itr'.epoch, ended, updates, loss, b)
    BY <1>1, <1>5
  <2>. HIDE DEF saves
  <2>2. ASSUME ended, Wanted'
        PROVE  save'.files # << >> /\ Head(save'.files) = EpochFile(epoch_itr'.epoch)
    <3>1. save'.files = checkpoints(config, epoch_itr'.epoch, TRUE, updates, loss, b)
      <4>1. ended = TRUE
        BY <2>2 DEF ended, end_of_epoch
      <4>. QED
        BY <2>1, <4>1
    <3>. QED
      BY <1>1, <2>2, <3>1, EpochFileFirst DEF Wanted
  <2>3. SavePending'
    BY <1>1, <1>5, <2>2 DEF SavePending, ended
  <2>4. \A f \in ToSet(save'.files) : IsName(f)
    <3>1. ToSet(save'.files) \subseteq
            {EpochFile(epoch_itr'.epoch), UpdatesFile(epoch_itr'.epoch, updates), BestFile,
             BestLossFile(loss), LastFile}
      BY <2>1, FilesInOrder
    <3>. QED
      BY <1>2, <3>1 DEF IsName, EpochFile, UpdatesFile, BestFile, BestLossFile, LastFile
  <2>5. OldCounted' /\ NamesTyped' /\ SaveDone'
    BY <1>1, <1>5, <2>4 DEF SavedInv, OldCounted, NamesTyped, SaveDone
  <2>. QED
    BY <2>3, <2>5 DEF SavedInv
<1>. QED
  BY <1>4, <1>5

LEMMA OpenFileSaved ==
  ASSUME SavedInv, BestInv, OpenFile
  PROVE  SavedInv'
<1>. DEFINE file == Head(save.files)
<1>1. /\ proc = "saving" /\ save.files # << >>
      /\ UNCHANGED <<config, proc, lineage, epoch_itr>>
      /\ save'.files = save.files /\ save'.source = save.source /\ save'.old = save.old
      /\ DOMAIN dir' = DOMAIN dir \cup {file}
      /\ \A f \in DOMAIN dir : f # file => dir'[f] = dir[f]
  BY DEF OpenFile
<1>2. file \in ToSet(save.files) /\ save.old = {}
  BY <1>1, NextFile DEF BestInv, SavedInv, OldCounted
<1>. HIDE DEF file
<1>3. NamesTyped'
  BY <1>1, <1>2, FS_AddElement DEF SavedInv, NamesTyped
<1>4. OldCounted' /\ SaveDone'
  BY <1>1, <1>2 DEF SavedInv, OldCounted, SaveDone
<1>5. SavePending'
  <2>1. ASSUME EpochFile(epoch_itr.epoch) \notin ToSet(save.files), Saved(epoch_itr.epoch)
        PROVE  Saved(epoch_itr.epoch)'
    <3>1. EpochFile(epoch_itr.epoch) # file
      BY <1>2, <2>1
    <3>. QED
      BY <1>1, <2>1, <3>1 DEF Saved, Whole
  <2>. QED
    BY <1>1, <2>1 DEF SavedInv, SavePending, Wanted
<1>. QED
  BY <1>3, <1>4, <1>5 DEF SavedInv

LEMMA WriteFileSaved ==
  ASSUME SavedInv, BestInv, CountInv, AlignInv, ~ WriteFails, WriteFile
  PROVE  SavedInv'
<1>. DEFINE file == Head(save.files)
            rest == Tail(save.files)
            E    == EpochFile(epoch_itr.epoch)
            ended == end_of_epoch(epoch_itr, config.shards)
<1>1. /\ proc = "saving" /\ save.open
      /\ UNCHANGED <<config, proc, lineage, epoch_itr>>
      /\ save'.files = rest
      /\ save'.source = IF save.source = None THEN file ELSE save.source
      /\ save'.old = IF rest = << >> THEN old_checkpoints(config, DOMAIN dir, ended) ELSE {}
  BY DEF WriteFile, CountInv, SourceIsThere
<1>2. PICK content \in IF save.source = None THEN Written ELSE {dir[save.source]} :
        dir' = [dir EXCEPT ![file] = content]
  BY DEF WriteFile
<1>3. /\ save.files # << >> /\ file \in DOMAIN dir
      /\ ToSet(save.files) = {file} \cup ToSet(rest) /\ file \notin ToSet(rest)
      /\ rest # << >> => file # LastFile
  BY <1>1, NextFile DEF CountInv, SourceIsThere, BestInv
<1>4. /\ DOMAIN dir' = DOMAIN dir /\ dir'[file] = content
      /\ \A f \in DOMAIN dir : f # file => dir'[f] = dir[f]
  BY <1>2, <1>3
<1>. HIDE DEF file, rest
<1>5. NamesTyped'
  BY <1>1, <1>3, <1>4 DEF SavedInv, NamesTyped
<1>6. OldCounted'
  <2>1. CASE rest # << >>
    BY <1>1, <2>1 DEF OldCounted
  <2>2. CASE rest = << >>
    <3>. DEFINE old == old_checkpoints(config, DOMAIN dir, ended)
    <3>1. /\ old \subseteq DOMAIN dir
          /\ \A f \in old : f[1] = "checkpoint" =>
               /\ config.keep_last_epochs > 0
               /\ Cardinality(Newer(DOMAIN dir, f[2])) >= config.keep_last_epochs
      BY OldAreBeyond
    <3>2. config.keep_last_epochs \in Int
      BY ConfigsAssumption DEF AlignInv
    <3>3. save'.old = old
      BY <1>1, <2>2
    <3>. HIDE DEF old
    <3>4. IsFiniteSet(DOMAIN dir) /\ \A f \in DOMAIN dir : IsName(f)
      BY DEF SavedInv, NamesTyped
    <3>5. ASSUME NEW f \in old, f[1] = "checkpoint"
          PROVE  Cardinality(Newer(DOMAIN dir \ old, f[2])) >= config.keep_last_epochs
      BY <3>1, <3>2, <3>4, <3>5, NewestAreKept
    <3>6. \A f \in save'.old : f[1] = "checkpoint" => Enough(f[2])'
      BY <1>1, <1>4, <3>1, <3>3, <3>5 DEF Enough
    <3>. QED
      BY <1>1, <3>6 DEF OldCounted
  <2>. QED
    BY <2>1, <2>2
<1>7. SavePending'
  <2>1. ASSUME ended, Wanted PROVE E \notin ToSet(rest) /\ Saved(epoch_itr.epoch)'
    <3>1. CASE save.source = None /\ file = E
      <4>1. content = Content /\ Content.lineage = lineage
        BY <1>2, <3>1 DEF Written, Content
      <4>. QED
        BY <1>1, <1>3, <1>4, <3>1, <4>1, WrittenIsWhole DEF Saved, Whole
    <3>2. CASE E \notin ToSet(save.files) /\ Saved(epoch_itr.epoch)
      BY <1>1, <1>3, <1>4, <3>2 DEF Saved, Whole
    <3>. QED
      BY <1>1, <1>3, <2>1, <3>1, <3>2 DEF SavedInv, SavePending, file
  <2>. QED
    BY <1>1, <2>1 DEF SavePending, Wanted
<1>8. SaveDone'
  BY <1>1 DEF SaveDone
<1>. QED
  BY <1>5, <1>6, <1>7, <1>8 DEF SavedInv

LEMMA RemoveFileSaved ==
  ASSUME SavedInv, RemoveFile
  PROVE  SavedInv'
<1>1. PICK file \in save.old :
        /\ dir' = Restrict(dir, DOMAIN dir \ {file})
        /\ save' = [save EXCEPT !.old = @ \ {file}]
  BY DEF RemoveFile
<1>2. /\ proc = "saving" /\ save.files = << >>
      /\ UNCHANGED <<config, proc, lineage, epoch_itr>>
  BY DEF RemoveFile
<1>3. /\ DOMAIN dir' = DOMAIN dir \ {file}
      /\ \A f \in DOMAIN dir' : dir'[f] = dir[f]
  BY <1>1 DEF Restrict
<1>4. /\ save'.files = save.files /\ save'.source = save.source /\ save'.old = save.old \ {file}
  BY <1>1 DEF Enough
<1>5. DOMAIN dir' \ save'.old = DOMAIN dir \ save.old
  BY <1>1, <1>3, <1>4
<1>6. \A epoch : Enough(epoch) => Enough(epoch)'
  BY <1>2, <1>5 DEF Enough
<1>7. NamesTyped'
  BY <1>3, <1>4, FS_RemoveElement DEF SavedInv, NamesTyped
<1>8. OldCounted' /\ SaveDone'
  BY <1>2, <1>4, <1>6 DEF SavedInv, OldCounted, SaveDone
<1>9. SavePending'
  <2>1. ASSUME end_of_epoch(epoch_itr, config.shards), Wanted
        PROVE  /\ EpochFile(epoch_itr'.epoch) \notin ToSet(save'.files)
               /\ Saved(epoch_itr.epoch)' \/ Enough(epoch_itr.epoch)'
    <3>. DEFINE E == EpochFile(epoch_itr.epoch)
    <3>1. /\ E \notin ToSet(save.files)
          /\ Saved(epoch_itr.epoch) \/ Enough(epoch_itr.epoch)
      BY <1>2, <2>1 DEF SavedInv, SavePending
    <3>2. ASSUME file = E PROVE Enough(epoch_itr.epoch)
      <4>1. file[1] = "checkpoint" /\ file[2] = epoch_itr.epoch
        BY <3>2 DEF EpochFile
      <4>. QED
        BY <4>1 DEF SavedInv, OldCounted
    <3>3. ASSUME file # E, Saved(epoch_itr.epoch) PROVE Saved(epoch_itr.epoch)'
      BY <1>2, <1>3, <3>3 DEF Saved, Whole
    <3>. QED
      BY <1>2, <1>4, <1>6, <3>1, <3>2, <3>3
  <2>2. save'.files = << >>
    BY <1>2, <1>4
  <2>. QED
    BY <1>2, <2>1, <2>2 DEF SavePending, Wanted
<1>. QED
  BY <1>7, <1>8, <1>9 DEF SavedInv

LEMMA EndSaveSaved ==
  ASSUME SavedInv, EndSave
  PROVE  SavedInv'
<1>1. CASE save.stop
  BY <1>1, NoMemorySaved DEF EndSave
<1>2. CASE ~ save.stop
  <2>1. /\ proc = "saving" /\ save.files = << >> /\ save.old = {}
        /\ UNCHANGED <<config, dir, lineage, epoch_itr>> /\ save' = NoSave /\ save'.old = {}
        /\ proc' \in {"train", "epoch"}
        /\ proc' = "epoch" => end_of_epoch(epoch_itr, config.shards)
    BY <1>2 DEF EndSave, NoSave, end_of_epoch
  <2>2. ASSUME proc' = "epoch", Wanted PROVE Saved(epoch_itr.epoch) \/ Enough(epoch_itr.epoch)
    BY <2>1, <2>2 DEF SavedInv, SavePending
  <2>3. SaveDone'
    BY <2>1, <2>2 DEF SaveDone, Wanted, Saved, Whole, Enough
  <2>. QED
    BY <2>1, <2>3, NothingSaving DEF SavedInv
<1>. QED
  BY <1>1, <1>2

LEMMA NextSaved ==
  ASSUME SavedInv, BestInv, CountInv, AlignInv, ~ WriteFails, [Next]_vars
  PROVE  SavedInv'
<1>1. CASE LaunchNew \/ \E file \in DOMAIN dir : LaunchFrom(file)
  BY <1>1, LaunchSaved
<1>2. CASE BeginEpoch
  <2>1. UNCHANGED <<config, dir, save>> /\ proc' = "train" /\ proc = "epoch"
    BY <1>2 DEF BeginEpoch
  <2>2. OldCounted' /\ NamesTyped'
    BY <2>1 DEF SavedInv, OldCounted, NamesTyped, Enough
  <2>. QED
    BY <2>1, <2>2 DEF SavedInv, SavePending, SaveDone
<1>3. CASE EndTraining \/ Crash
  BY <1>3, NoMemorySaved DEF EndTraining, Crash
<1>4. CASE \E outcome \in Outcomes, loss \in Losses \cup {None} : TrainStep(outcome, loss)
  BY <1>4, TrainStepSaved
<1>5. CASE OpenFile
  BY <1>5, OpenFileSaved
<1>6. CASE WriteFile
  BY <1>6, WriteFileSaved
<1>7. CASE RemoveFile
  BY <1>7, RemoveFileSaved
<1>8. CASE EndSave
  BY <1>8, EndSaveSaved
<1>9. CASE UNCHANGED vars
  <2>1. UNCHANGED <<config, dir, proc, lineage, epoch_itr, save>>
    BY <1>9 DEF vars, memory
  <2>. QED
    BY <2>1 DEF SavedInv, SavePending, SaveDone, OldCounted, NamesTyped, Enough, Saved, Wanted, Whole
<1>. QED
  BY <1>1, <1>2, <1>3, <1>4, <1>5, <1>6, <1>7, <1>8, <1>9 DEF Next

\* An epoch that was trained to its end and is to be kept is in its file when the next one
\* begins, or keep_last_epochs files of later epochs are, if writes do not fail (one that
\* does is only logged): the removal of old checkpoints never takes the newest ones, though
\* the directory may hold files of a run that had got further.
THEOREM EpochStaysSaved ==
  ASSUME ~ WriteFails
  PROVE  Spec => []EpochIsSaved
<1>1. SavedInv => EpochIsSaved
  <2>. SUFFICES ASSUME SavedInv, proc = "epoch", epoch_itr.cur # None, Wanted
                PROVE  \/ Saved(epoch_itr.epoch)
                       \/ /\ config.keep_last_epochs > 0
                          /\ Cardinality(Newer(DOMAIN dir, epoch_itr.epoch))
                               >= config.keep_last_epochs
    BY DEF EpochIsSaved, Saved, Wanted, Newer
  <2>1. DOMAIN dir \ save.old = DOMAIN dir
    BY DEF SavedInv, OldCounted
  <2>. QED
    BY <2>1 DEF SavedInv, SaveDone, Enough
<1>2. Spec => [](SavedInv /\ BestInv /\ CountInv /\ AlignInv /\ TypeInv)
  BY InitSaved, InitBest, InitCounts, InitAligned, InitTyped,
     NextSaved, NextBest, NextCounts, NextAligned, NextTyped, PTL DEF Spec
<1>. QED
  BY <1>1, <1>2, PTL

-----------------------------------------------------------------------------
(***************************************************************************)
(* A checkpoint to go on from.                                             *)
(***************************************************************************)

\* A file that can be read, other than the given one.
Other(file) == \E f \in DOMAIN dir : dir[f] # Torn /\ f # file

\* Who goes on from the file of an epoch trains the next one.
EpochsOwn ==
  \A f \in DOMAIN dir : f[1] = "checkpoint" /\ dir[f] # Torn =>
    dir[f].train_iterator.epoch = f[2] + 1

NextEpoch ==
  IF proc = "epoch" THEN next_epoch_idx(epoch_itr, config.shards) ELSE epoch_itr.epoch

\* There is a file that the next save does not open first.
OneIsLeft ==
  LastFile \in DOMAIN dir =>
    /\ ~ Up => \E f \in DOMAIN dir : Whole(f)
    /\ proc \in {"epoch", "train"} => Other(EpochFile(NextEpoch))

\* The file of the epoch comes first; then it is there, until the last checkpoint is.
SavingEpoch ==
  proc = "saving" =>
    LET file == EpochFile(epoch_itr.epoch) IN
    /\ end_of_epoch(epoch_itr, config.shards)
    /\ \A f \in ToSet(save.files) : f[1] = "checkpoint" => f = file
    /\ \/ /\ save.source = None /\ save.files # << >> /\ Head(save.files) = file
          /\ LastFile \in DOMAIN dir => Other(file)
       \/ /\ save.files # << >> /\ file \notin ToSet(save.files) /\ Whole(file)
          /\ save.source # None => Whole(save.source) /\ save.source \notin ToSet(save.files)
       \/ save.files = << >> /\ Whole(LastFile)

\* Every save comes with a validation.
Validates(c) == ~ c.disable_validation /\ c.validate_interval = 1

\* There is a best checkpoint, or one is to be written before the last one.
BestIsThere ==
  /\ LastFile \in DOMAIN dir => BestFile \in DOMAIN dir
  /\ proc \in {"epoch", "train"} /\ best # None => BestFile \in DOMAIN dir
  /\ proc = "saving" => BestFile \in DOMAIN dir \cup ToSet(save.files)

RecoveryInv ==
  /\ SavesEpochs(config) => EpochsOwn /\ OneIsLeft /\ SavingEpoch
  /\ Validates(config) => BestIsThere
  /\ save.old \cap {BestFile, LastFile} = {}

\* The best and the last checkpoint are never among the old ones.
LEMMA NeverOld ==
  ASSUME NEW c, NEW files, NEW ended
  PROVE  old_checkpoints(c, files, ended) \cap {BestFile, LastFile} = {}
<1>. DEFINE epochs  == {f \in files : f[1] = "checkpoint"}
            updates == {f \in files : f[1] = "checkpoint_"}
            bests   == {f \in files : f[1] = "checkpoint.best_loss"}
            A == IF ~ ended /\ c.keep_interval_updates > 0
                 THEN Beyond(updates, c.keep_interval_updates,
                             {p \in updates \X updates :
                                \/ p[1][3] > p[2][3]
                                \/ p[1][3] = p[2][3] /\ p[1][2] > p[2][2]}) ELSE {}
            B == IF c.keep_last_epochs > 0
                 THEN Beyond(epochs, c.keep_last_epochs, {p \in epochs \X epochs : p[1][2] > p[2][2]}) ELSE {}
            C == IF c.keep_best_checkpoints > 0
                 THEN Beyond(bests, c.keep_best_checkpoints, {p \in bests \X bests : p[1][2] < p[2][2]}) ELSE {}
<1>1. old_checkpoints(c, files, ended) = A \cup B \cup C
  BY DEF old_checkpoints, Beyond
<1>2. A \subseteq updates /\ B \subseteq epochs /\ C \subseteq bests
  BY DEF Beyond
<1>. HIDE DEF A, B, C
<1>3. BestFile[1] = "checkpoint_best" /\ LastFile[1] = "checkpoint_last"
  BY DEF BestFile, LastFile
<1>. QED
  BY <1>1, <1>2, <1>3

\* If only epochs are saved, a step saves if it is the last one of its epoch.
LEMMA EpochIsSavedAtItsEnd ==
  ASSUME AlignInv, SavesEpochs(config), NEW outcome, NEW loss \in Losses \cup {None},
         TrainStep(outcome, loss)
  PROVE  \/ /\ ~ end_of_epoch(epoch_itr', config.shards)
            /\ proc' = "train" /\ save' = NoSave /\ best' = best
         \/ /\ end_of_epoch(epoch_itr', config.shards)
            /\ proc' = "saving" /\ save'.source = None /\ save'.old = {}
            /\ \E updates, b :
                 save'.files = checkpoints(config, epoch_itr'.epoch, TRUE, updates, loss, b)
<1>. DEFINE updates == UpdatesAfter(outcome)
            end     == grouped.n + 1 >= grouped.total
            ended   == end_of_epoch(epoch_itr', config.shards)
            stop    == should_stop_early(loss).stop \/ Reached(updates)
            saves   == do_save(end, updates) \/ stop
<1>1. /\ ~ saves => /\ save' = NoSave /\ best' = best
                    /\ proc' = IF has_next(epoch_itr'.cur, config.shards) THEN "train" ELSE "epoch"
      /\ saves => /\ proc' = "saving" /\ save'.source = None /\ save'.old = {}
                  /\ \E b : save'.files =
                       checkpoints(config, epoch_itr'.epoch, ended, updates, loss, b)
      /\ (loss = None) = ~ do_validate(end, updates)
  BY DEF TrainStep, NoSave
<1>2. end <=> ended
  BY StepsEnd
<1>3. /\ config.save_interval = 1 /\ config.max_update \in Int /\ config.max_update <= 0
      /\ config.save_interval_updates \in Int /\ config.save_interval_updates <= 0
      /\ config.validate_interval_updates \in Int /\ config.patience \in Int
      /\ config.patience <= 0 \/ config.validate_interval_updates <= 0
  BY ConfigsAssumption DEF AlignInv, SavesEpochs
<1>4. ~ Reached(updates) /\ ~ AtInterval(config.save_interval_updates, updates)
  BY <1>3 DEF Reached, AtInterval
<1>5. do_save(end, updates) <=> end
  <2>1. epoch_itr.epoch \in Nat
    BY TrainStepGroups DEF EpochItrs, Epochs
  <2>2. epoch_itr.epoch % 1 = 0
    BY <2>1
  <2>. QED
    BY <1>3, <1>4, <2>2 DEF do_save
<1>6. ASSUME should_stop_early(loss).stop PROVE end
  <2>1. loss # None /\ ~ (config.patience <= 0)
    BY <1>6 DEF should_stop_early
  <2>2. do_validate(end, updates)
    <3>. HIDE DEF end, updates
    <3>. QED
      BY <1>1, <2>1
  <2>3. ~ AtInterval(config.validate_interval_updates, updates)
    BY <1>3, <2>1 DEF AtInterval
  <2>. QED
    BY <1>4, <1>5, <2>2, <2>3 DEF do_validate
<1>7. saves <=> ended
  BY <1>2, <1>4, <1>5, <1>6
<1>8. ended => ended = TRUE
  BY DEF end_of_epoch
<1>9. ~ ended => has_next(epoch_itr'.cur, config.shards)
  BY DEF end_of_epoch
<1>. HIDE DEF saves, ended, updates
<1>10. CASE ended
  BY <1>1, <1>7, <1>8, <1>10 DEF ended
<1>11. CASE ~ ended
  BY <1>1, <1>7, <1>9, <1>11 DEF ended
<1>. QED
  BY <1>10, <1>11

\* With a validation at the end of every epoch, no save is without one.
LEMMA SavesAreValidated ==
  ASSUME AlignInv, Validates(config), NEW outcome, NEW loss \in Losses \cup {None},
         TrainStep(outcome, loss)
  PROVE  \/ proc' \in {"train", "epoch"} /\ save' = NoSave /\ best' = best
         \/ /\ loss # None /\ proc' = "saving" /\ save'.old = {}
            /\ \E epoch, ended, updates : save'.files =
                 checkpoints(config, epoch, ended, updates, loss, best_after(best, loss))
<1>. DEFINE updates == UpdatesAfter(outcome)
            end     == grouped.n + 1 >= grouped.total
            stop    == should_stop_early(loss).stop \/ Reached(updates)
            saves   == do_save(end, updates) \/ stop
<1>1. /\ ~ saves => save' = NoSave /\ best' = best /\ proc' \in {"train", "epoch"}
      /\ saves => /\ proc' = "saving" /\ save'.old = {}
                  /\ \E epoch, ended : save'.files =
                       checkpoints(config, epoch, ended, updates, loss, best_after(best, loss))
      /\ (loss = None) = ~ do_validate(end, updates)
  BY DEF TrainStep, NoSave
<1>2. saves => loss # None
  <2>1. should_stop_early(loss).stop => loss # None
    BY DEF should_stop_early
  <2>2. epoch_itr.epoch % config.validate_interval = 0
    <3>1. epoch_itr.epoch \in Nat
      BY TrainStepGroups DEF EpochItrs, Epochs
    <3>2. epoch_itr.epoch % 1 = 0
      BY <3>1
    <3>. QED
      BY <3>2 DEF Validates
  <2>3. do_save(end, updates) \/ Reached(updates) => do_validate(end, updates)
    BY <2>2 DEF do_validate, Validates
  <2>. HIDE DEF end, updates
  <2>. QED
    BY <1>1, <2>1, <2>3
<1>. HIDE DEF saves
<1>. QED
  BY <1>1, <1>2

LEMMA LastIsNoEpoch ==
  ASSUME NEW epoch
  PROVE  /\ EpochFile(epoch)[1] = "checkpoint" /\ EpochFile(epoch)[2] = epoch
         /\ LastFile # EpochFile(epoch) /\ BestFile # LastFile
  BY DEF EpochFile, LastFile, BestFile

\* As long as the process is up, some file can be read.
LEMMA OneCanBeRead ==
  ASSUME OneIsLeft, SavingEpoch, LastFile \in DOMAIN dir,
         proc \in {"down", "epoch", "train", "saving", "done"}
  PROVE  \E f \in DOMAIN dir : Whole(f)
<1>1. CASE proc \in {"epoch", "train"}
  BY <1>1 DEF OneIsLeft, Other, Whole
<1>2. CASE proc = "saving"
  BY <1>2 DEF SavingEpoch, Other, Whole
<1>3. CASE ~ Up
  BY <1>3 DEF OneIsLeft
<1>. QED
  BY <1>1, <1>2, <1>3 DEF Up

LEMMA InitRecovers == Init => RecoveryInv
<1>. SUFFICES ASSUME Init PROVE RecoveryInv
  OBVIOUS
<1>1. dir = << >> /\ DOMAIN dir = {} /\ proc = "down" /\ save.old = {}
  BY DEF Init, NoSave
<1>. QED
  BY <1>1 DEF RecoveryInv, EpochsOwn, OneIsLeft, SavingEpoch, BestIsThere

\* The file training goes on from is not the one it saves next.
LEMMA LaunchRecovers ==
  ASSUME RecoveryInv, AlignInv, LaunchNew \/ \E file \in DOMAIN dir : LaunchFrom(file)
  PROVE  RecoveryInv'
<1>1. /\ UNCHANGED <<config, dir>> /\ proc' = "epoch" /\ save'.old = {}
      /\ LaunchNew => LastFile \notin DOMAIN dir /\ best' = None
      /\ (\E file \in DOMAIN dir : LaunchFrom(file)) => LastFile \in DOMAIN dir
  BY DEF LaunchNew, LaunchFrom, NoSave
<1>2. ASSUME SavesEpochs(config) PROVE EpochsOwn' /\ OneIsLeft' /\ SavingEpoch'
  <2>1. EpochsOwn' /\ SavingEpoch'
    BY <1>1, <1>2 DEF RecoveryInv, EpochsOwn, SavingEpoch
  <2>2. ASSUME NEW file \in DOMAIN dir, LaunchFrom(file)
        PROVE  Other(EpochFile(NextEpoch))'
    <3>. DEFINE position == dir[file].train_iterator
                new      == EpochBatchIterator(position.epoch)
                itr      == load_state_dict(new, position, config.shards)
    <3>1. dir[file] # Torn /\ epoch_itr' = itr
      BY <2>2 DEF LaunchFrom
    <3>2. /\ position \in Positions /\ Resumable(position.epoch, position.iterations_in_epoch)
          /\ config \in Configs
      BY <3>1 DEF AlignInv, FilesAligned
    <3>3. position.epoch \in Nat
      BY <3>2 DEF Positions, Epochs
    <3>4. itr.epoch = position.epoch /\ itr.cur = None
      BY DEF load_state_dict, EpochBatchIterator
    <3>. HIDE DEF itr
    <3>5. NextEpoch' = position.epoch
      BY <1>1, <3>1, <3>4 DEF NextEpoch, next_epoch_idx
    <3>6. file # EpochFile(position.epoch)
      <4>1. file[1] = "checkpoint" => position.epoch = file[2] + 1
        BY <1>2, <3>1 DEF RecoveryInv, EpochsOwn
      <4>. HIDE DEF position
      <4>2. file = EpochFile(position.epoch) => file[1] = "checkpoint" /\ file[2] = position.epoch
        BY LastIsNoEpoch
      <4>. QED
        BY <3>3, <4>1, <4>2
    <3>. QED
      BY <1>1, <3>1, <3>5, <3>6 DEF Other
  <2>3. OneIsLeft'
    BY <1>1, <2>2 DEF OneIsLeft, Up
  <2>. QED
    BY <2>1, <2>3
<1>3. Validates(config) => BestIsThere'
  BY <1>1 DEF RecoveryInv, BestIsThere
<1>. QED
  BY <1>1, <1>2, <1>3 DEF RecoveryInv

LEMMA NoMemoryRecovers ==
  ASSUME RecoveryInv, TypeInv, NoMemory, UNCHANGED <<config, dir>>, proc' \in {"down", "done"}
  PROVE  RecoveryInv'
<1>1. save'.old = {} /\ proc' \notin {"epoch", "train", "saving"} /\ ~ Up'
  BY DEF NoMemory, NoSave, Up
<1>2. ASSUME SavesEpochs(config) PROVE EpochsOwn' /\ OneIsLeft' /\ SavingEpoch'
  <2>1. LastFile \in DOMAIN dir => \E f \in DOMAIN dir : Whole(f)
    BY <1>2, OneCanBeRead DEF RecoveryInv, TypeInv, ProcessTypes
  <2>. QED
    BY <1>1, <1>2, <2>1 DEF RecoveryInv, EpochsOwn, OneIsLeft, SavingEpoch, Whole
<1>3. Validates(config) => BestIsThere'
  BY <1>1 DEF RecoveryInv, BestIsThere
<1>. QED
  BY <1>1, <1>2, <1>3 DEF RecoveryInv

LEMMA BeginEpochRecovers ==
  ASSUME RecoveryInv, BeginEpoch
  PROVE  RecoveryInv'
<1>1. /\ UNCHANGED <<config, dir, best, save>> /\ proc = "epoch" /\ proc' = "train"
      /\ epoch_itr'.epoch = next_epoch_idx(epoch_itr, config.shards)
  BY DEF BeginEpoch, next_epoch_itr
<1>2. NextEpoch' = NextEpoch
  BY <1>1 DEF NextEpoch
<1>3. OneIsLeft => OneIsLeft'
  BY <1>1, <1>2 DEF OneIsLeft, Other, Up
<1>4. EpochsOwn => EpochsOwn'
  BY <1>1 DEF EpochsOwn
<1>. QED
  BY <1>1, <1>3, <1>4 DEF RecoveryInv, SavingEpoch, BestIsThere

LEMMA TrainStepRecovers ==
  ASSUME RecoveryInv, AlignInv, TypeInv, NEW outcome, NEW loss \in Losses \cup {None},
         TrainStep(outcome, loss)
  PROVE  RecoveryInv'
<1>1. UNCHANGED <<config, dir>> /\ proc = "train" /\ epoch_itr'.epoch = epoch_itr.epoch
  BY TrainStepGroups DEF TrainStep
<1>2. save'.old = {}
  BY DEF TrainStep, NoSave
<1>3. ASSUME SavesEpochs(config) PROVE EpochsOwn' /\ OneIsLeft' /\ SavingEpoch'
  <2>. DEFINE file  == EpochFile(epoch_itr.epoch)
              ended == end_of_epoch(epoch_itr', config.shards)
  <2>1. EpochsOwn' /\ (LastFile \in DOMAIN dir => Other(file)')
    BY <1>1, <1>3 DEF RecoveryInv, EpochsOwn, OneIsLeft, NextEpoch, Other
  <2>2. CASE proc' = "train"
    BY <1>1, <2>1, <2>2 DEF OneIsLeft, SavingEpoch, NextEpoch, Up
  <2>3. ASSUME ended, proc' = "saving", save'.source = None, NEW updates, NEW b,
               save'.files = checkpoints(config, epoch_itr'.epoch, TRUE, updates, loss, b)
        PROVE  OneIsLeft' /\ SavingEpoch'
    <3>1. save'.files # << >> /\ Head(save'.files) = file
      <4>1. ~ config.no_epoch_checkpoints /\ epoch_itr.epoch % config.save_interval = 0
        <5>1. epoch_itr.epoch \in Nat
          BY TrainStepGroups DEF EpochItrs, Epochs
        <5>2. epoch_itr.epoch % 1 = 0
          BY <5>1
        <5>. QED
          BY <1>3, <5>2 DEF SavesEpochs
      <4>. QED
        BY <1>1, <2>3, <4>1, EpochFileFirst
    <3>2. \A f \in ToSet(save'.files) : f[1] = "checkpoint" => f = file
      <4>1. ToSet(save'.files) \subseteq
              {file, UpdatesFile(epoch_itr.epoch, updates), BestFile, BestLossFile(loss), LastFile}
        <5>. HIDE DEF ended
        <5>1. save'.files = checkpoints(config, epoch_itr'.epoch, ended, updates, loss, b)
          <6>1. ended = TRUE
            BY <2>3 DEF ended, end_of_epoch
          <6>. QED
            BY <2>3, <6>1
        <5>2. ToSet(save'.files) \subseteq
                {EpochFile(epoch_itr'.epoch), UpdatesFile(epoch_itr'.epoch, updates), BestFile,
                 BestLossFile(loss), LastFile}
          BY <5>1, FilesInOrder
        <5>. QED
          BY <1>1, <5>2
      <4>2. /\ UpdatesFile(epoch_itr.epoch, updates)[1] = "checkpoint_"
            /\ BestFile[1] = "checkpoint_best" /\ LastFile[1] = "checkpoint_last"
            /\ BestLossFile(loss)[1] = "checkpoint.best_loss"
        BY DEF UpdatesFile, BestFile, LastFile, BestLossFile
      <4>. QED
        BY <4>1, <4>2
    <3>. QED
      BY <1>1, <2>1, <2>3, <3>1, <3>2 DEF OneIsLeft, SavingEpoch, Up
  <2>. QED
    BY <1>3, <2>1, <2>2, <2>3, EpochIsSavedAtItsEnd
<1>4. ASSUME Validates(config) PROVE BestIsThere'
  <2>1. CASE proc' \in {"train", "epoch"} /\ best' = best
    BY <1>1, <1>4, <2>1 DEF RecoveryInv, BestIsThere
  <2>2. ASSUME loss # None, proc' = "saving", NEW epoch, NEW ended, NEW updates,
               save'.files = checkpoints(config, epoch, ended, updates, loss, best_after(best, loss))
        PROVE  BestIsThere'
    <3>1. CASE best = None
      <4>1. best_after(best, loss) = loss /\ loss \in Nat
        BY <2>2, <3>1, BoundsAssumption DEF best_after
      <4>2. loss <= best_after(best, loss)
        BY <4>1
      <4>3. BestFile \in ToSet(save'.files)
        BY <2>2, <4>2, FilesInOrder
      <4>. QED
        BY <1>1, <1>4, <2>2, <4>3 DEF RecoveryInv, BestIsThere
    <3>2. CASE best # None
      BY <1>1, <1>4, <2>2, <3>2 DEF RecoveryInv, BestIsThere
    <3>. QED
      BY <3>1, <3>2
  <2>. QED
    BY <1>4, <2>1, <2>2, SavesAreValidated
<1>. QED
  BY <1>1, <1>2, <1>3, <1>4 DEF RecoveryInv

LEMMA OpenFileRecovers ==
  ASSUME RecoveryInv, BestInv, OpenFile
  PROVE  RecoveryInv'
<1>. DEFINE file == Head(save.files)
            E    == EpochFile(epoch_itr.epoch)
<1>1. /\ proc = "saving" /\ save.files # << >>
      /\ UNCHANGED <<config, proc, epoch_itr, best>>
      /\ save'.files = save.files /\ save'.source = save.source /\ save'.old = save.old
      /\ DOMAIN dir' = DOMAIN dir \cup {file} /\ dir'[file] = Torn
      /\ \A f \in DOMAIN dir : f # file => dir'[f] = dir[f]
  BY DEF OpenFile
<1>2. /\ file \in ToSet(save.files)
      /\ file = LastFile => ToSet(save.files) = {LastFile}
  <2>1. InOrder(save.files)
    BY DEF BestInv
  <2>. QED
    BY <1>1, <2>1, NextFile, NoFiles
<1>. HIDE DEF file
<1>3. ASSUME SavesEpochs(config) PROVE EpochsOwn' /\ OneIsLeft' /\ SavingEpoch'
  <2>1. EpochsOwn'
    BY <1>1, <1>3 DEF RecoveryInv, EpochsOwn
  <2>2. OneIsLeft'
    BY <1>1 DEF OneIsLeft, Up
  <2>3. CASE /\ save.source = None /\ file = E
             /\ LastFile \in DOMAIN dir => Other(E)
    <3>1. LastFile \in DOMAIN dir' => Other(E)'
      BY <1>1, <2>3, LastIsNoEpoch DEF Other
    <3>. QED
      BY <1>1, <1>3, <2>1, <2>2, <2>3, <3>1 DEF RecoveryInv, SavingEpoch, file
  <2>4. CASE /\ E \notin ToSet(save.files) /\ Whole(E)
             /\ save.source # None => Whole(save.source) /\ save.source \notin ToSet(save.files)
    <3>1. \A f : Whole(f) /\ f \notin ToSet(save.files) => Whole(f)'
      BY <1>1, <1>2 DEF Whole
    <3>. QED
      BY <1>1, <1>3, <2>1, <2>2, <2>4, <3>1 DEF RecoveryInv, SavingEpoch
  <2>. QED
    BY <1>1, <1>3, <2>3, <2>4 DEF RecoveryInv, SavingEpoch, file
<1>4. ASSUME Validates(config) PROVE BestIsThere'
  <2>1. BestFile \in DOMAIN dir \cup ToSet(save.files) /\ (LastFile \in DOMAIN dir => BestFile \in DOMAIN dir)
    BY <1>1, <1>4 DEF RecoveryInv, BestIsThere
  <2>2. LastFile \in DOMAIN dir' => BestFile \in DOMAIN dir'
    BY <1>1, <1>2, <2>1, LastIsNoEpoch
  <2>. QED
    BY <1>1, <2>1, <2>2 DEF BestIsThere
<1>. QED
  BY <1>1, <1>3, <1>4 DEF RecoveryInv

LEMMA WriteFileRecovers ==
  ASSUME RecoveryInv, BestInv, CountInv, ~ WriteFails, WriteFile
  PROVE  RecoveryInv'
<1>. DEFINE file == Head(save.files)
            rest == Tail(save.files)
            E    == EpochFile(epoch_itr.epoch)
            old  == old_checkpoints(config, DOMAIN dir, end_of_epoch(epoch_itr, config.shards))
<1>1. /\ proc = "saving" /\ save.open /\ UNCHANGED <<config, proc, epoch_itr, best>>
      /\ save'.files = rest
      /\ save'.source = IF save.source = None THEN file ELSE save.source
      /\ save'.old = IF rest = << >> THEN old ELSE {}
  BY DEF WriteFile, CountInv, SourceIsThere
<1>2. PICK content \in IF save.source = None THEN Written ELSE {dir[save.source]} :
        dir' = [dir EXCEPT ![file] = content]
  BY DEF WriteFile
<1>3. /\ save.files # << >> /\ file \in DOMAIN dir
      /\ ToSet(save.files) = {file} \cup ToSet(rest) /\ file \notin ToSet(rest)
      /\ rest = << >> => ToSet(rest) = {}
      /\ rest # << >> => rest[Len(rest)] = LastFile /\ LastFile \in ToSet(rest)
      /\ rest = << >> => file = LastFile
  <2>1. save.files # << >> /\ file \in DOMAIN dir /\ InOrder(save.files)
    BY <1>1 DEF CountInv, SourceIsThere, BestInv
  <2>2. /\ InOrder(rest) /\ ToSet(save.files) = {file} \cup ToSet(rest)
        /\ file \notin ToSet(rest)
    BY <2>1, NextFile
  <2>3. \A s : InOrder(s) /\ s # << >> => s[Len(s)] = LastFile /\ LastFile \in ToSet(s)
    <3>1. ASSUME NEW s, InOrder(s), s # << >> PROVE LastFile \in ToSet(s)
      <4>1. PICK S : s \in Seq(S)
        BY <3>1 DEF InOrder, IsSequence
      <4>2. Len(s) \in DOMAIN s /\ s[Len(s)] = LastFile
        BY <3>1, <4>1 DEF InOrder
      <4>. QED
        BY <4>2 DEF ToSet
    <3>. QED
      BY <3>1 DEF InOrder
  <2>. HIDE DEF file, rest
  <2>. QED
    BY <2>1, <2>2, <2>3, NoFiles
<1>4. /\ DOMAIN dir' = DOMAIN dir /\ dir'[file] = content
      /\ \A f \in DOMAIN dir : f # file => dir'[f] = dir[f]
  BY <1>2, <1>3
<1>5. /\ old \cap {BestFile, LastFile} = {} /\ save'.old \in {old, {}}
  BY <1>1, NeverOld
<1>. HIDE DEF rest, old
<1>6. ASSUME SavesEpochs(config) PROVE EpochsOwn' /\ OneIsLeft' /\ SavingEpoch'
  <2>1. /\ end_of_epoch(epoch_itr, config.shards)
        /\ \A f \in ToSet(save.files) : f[1] = "checkpoint" => f = E
    BY <1>1, <1>6 DEF RecoveryInv, SavingEpoch
  <2>2. Written = {Content}
    BY DEF Written
  <2>3. OneIsLeft'
    BY <1>1 DEF OneIsLeft, Up
  <2>4. CASE save.source = None /\ file = E
    <3>1. content = Content /\ Content # Torn
      BY <1>2, <2>2, <2>4, WrittenIsWhole
    <3>2. Content.train_iterator.epoch = epoch_itr.epoch + 1
      BY <2>1 DEF Content, state_dict
    <3>3. EpochsOwn'
      BY <1>4, <1>6, <2>4, <3>1, <3>2, LastIsNoEpoch DEF RecoveryInv, EpochsOwn
    <3>4. rest # << >>
      BY <1>3, <2>4, LastIsNoEpoch
    <3>5. Whole(E)' /\ E \notin ToSet(rest) /\ save'.source = E
      BY <1>1, <1>3, <1>4, <2>4, <3>1 DEF Whole
    <3>. QED
      BY <1>1, <1>3, <2>1, <2>3, <3>3, <3>4, <3>5 DEF SavingEpoch
  <2>5. CASE /\ E \notin ToSet(save.files) /\ Whole(E)
             /\ save.source # None => Whole(save.source) /\ save.source \notin ToSet(save.files)
    <3>1. content # Torn
      BY <1>2, <2>2, <2>5, WrittenIsWhole DEF Whole
    <3>2. file \in ToSet(save.files) /\ file # E /\ file[1] # "checkpoint"
      BY <1>3, <2>1, <2>5
    <3>. HIDE DEF file
    <3>3. EpochsOwn'
      BY <1>4, <1>6, <3>2 DEF RecoveryInv, EpochsOwn
    <3>4. Whole(E)' /\ E \notin ToSet(rest)
      BY <1>1, <1>3, <1>4, <2>5, <3>2 DEF Whole
    <3>5. Whole(save.source)' /\ save'.source \notin ToSet(rest)
      BY <1>1, <1>3, <1>4, <2>5, <3>1, <3>2 DEF Whole
    <3>6. rest = << >> => Whole(LastFile)'
      BY <1>3, <1>4, <3>1 DEF Whole
    <3>. QED
      BY <1>1, <1>3, <2>1, <2>3, <3>3, <3>4, <3>5, <3>6 DEF SavingEpoch
  <2>. QED
    BY <1>1, <1>3, <1>6, <2>4, <2>5 DEF RecoveryInv, SavingEpoch
<1>7. Validates(config) => BestIsThere'
  BY <1>1, <1>3, <1>4 DEF RecoveryInv, BestIsThere
<1>. QED
  BY <1>1, <1>5, <1>6, <1>7 DEF RecoveryInv

LEMMA RemoveFileRecovers ==
  ASSUME RecoveryInv, RemoveFile
  PROVE  RecoveryInv'
<1>1. PICK file \in save.old :
        /\ dir' = Restrict(dir, DOMAIN dir \ {file})
        /\ save' = [save EXCEPT !.old = @ \ {file}]
  BY DEF RemoveFile
<1>2. /\ proc = "saving" /\ save.files = << >>
      /\ UNCHANGED <<config, proc, epoch_itr, best>>
  BY DEF RemoveFile
<1>3. /\ DOMAIN dir' = DOMAIN dir \ {file}
      /\ \A f \in DOMAIN dir' : dir'[f] = dir[f]
      /\ file \notin {BestFile, LastFile}
  BY <1>1 DEF Restrict, RecoveryInv
<1>4. /\ save'.files = save.files /\ save'.source = save.source /\ save'.old \subseteq save.old
  BY <1>1, <1>2
<1>5. ASSUME SavesEpochs(config) PROVE EpochsOwn' /\ OneIsLeft' /\ SavingEpoch'
  <2>1. EpochsOwn'
    BY <1>3, <1>5 DEF RecoveryInv, EpochsOwn
  <2>2. OneIsLeft'
    BY <1>2 DEF OneIsLeft, Up
  <2>3. /\ end_of_epoch(epoch_itr, config.shards) /\ Whole(LastFile)
        /\ \A f \in ToSet(save.files) : f[1] = "checkpoint" => f = EpochFile(epoch_itr.epoch)
    BY <1>2, <1>5 DEF RecoveryInv, SavingEpoch
  <2>4. Whole(LastFile)'
    BY <1>3, <2>3 DEF Whole
  <2>. QED
    BY <1>2, <1>4, <2>1, <2>2, <2>3, <2>4 DEF SavingEpoch
<1>6. Validates(config) => BestIsThere'
  BY <1>2, <1>3, <1>4 DEF RecoveryInv, BestIsThere
<1>. QED
  BY <1>2, <1>4, <1>5, <1>6 DEF RecoveryInv

LEMMA EndSaveRecovers ==
  ASSUME RecoveryInv, TypeInv, EndSave
  PROVE  RecoveryInv'
<1>1. CASE save.stop
  <2>1. proc' = "done" /\ NoMemory /\ UNCHANGED <<config, dir>>
    BY <1>1 DEF EndSave
  <2>. QED
    BY <2>1, NoMemoryRecovers
<1>2. CASE ~ save.stop
  <2>1. /\ proc = "saving" /\ save.files = << >> /\ save'.old = {}
        /\ UNCHANGED <<config, dir, epoch_itr, best>> /\ proc' \in {"train", "epoch"}
        /\ ToSet(save.files) = {}
    BY <1>2, NoFiles DEF EndSave, NoSave
  <2>2. ASSUME SavesEpochs(config) PROVE EpochsOwn' /\ OneIsLeft' /\ SavingEpoch'
    <3>1. Whole(LastFile)
      BY <2>1, <2>2 DEF RecoveryInv, SavingEpoch
    <3>2. \A epoch : Other(EpochFile(epoch))'
      BY <2>1, <3>1, LastIsNoEpoch DEF Other, Whole
    <3>. QED
      BY <2>1, <2>2, <3>2 DEF RecoveryInv, EpochsOwn, OneIsLeft, SavingEpoch, Up
  <2>3. Validates(config) => BestIsThere'
    BY <2>1 DEF RecoveryInv, BestIsThere
  <2>. QED
    BY <2>1, <2>2, <2>3 DEF RecoveryInv
<1>. QED
  BY <1>1, <1>2

LEMMA NextRecovers ==
  ASSUME RecoveryInv, BestInv, CountInv, AlignInv, TypeInv, ~ WriteFails, [Next]_vars
  PROVE  RecoveryInv'
<1>1. CASE LaunchNew \/ \E file \in DOMAIN dir : LaunchFrom(file)
  BY <1>1, LaunchRecovers
<1>2. CASE BeginEpoch
  BY <1>2, BeginEpochRecovers
<1>3. CASE EndTraining \/ Crash
  BY <1>3, NoMemoryRecovers DEF EndTraining, Crash
<1>4. CASE \E outcome \in Outcomes, loss \in Losses \cup {None} : TrainStep(outcome, loss)
  BY <1>4, TrainStepRecovers
<1>5. CASE OpenFile
  BY <1>5, OpenFileRecovers
<1>6. CASE WriteFile
  BY <1>6, WriteFileRecovers
<1>7. CASE RemoveFile
  BY <1>7, RemoveFileRecovers
<1>8. CASE EndSave
  BY <1>8, EndSaveRecovers
<1>9. CASE UNCHANGED vars
  <2>1. UNCHANGED <<config, dir, proc, epoch_itr, best, save>>
    BY <1>9 DEF vars, memory
  <2>. QED
    BY <2>1 DEF RecoveryInv, EpochsOwn, OneIsLeft, SavingEpoch, BestIsThere, Other, NextEpoch, Whole, Up
<1>. QED
  BY <1>1, <1>2, <1>3, <1>4, <1>5, <1>6, <1>7, <1>8, <1>9 DEF Next

\* Where every save is of a whole epoch, no number of crashes leaves a training without a
\* checkpoint it can go on from.  Where epochs are validated at their end, no single crash
\* does, whatever is saved and removed: it tears one file, and there is a best checkpoint
\* whenever there is a last one.
THEOREM OneStaysWhole ==
  ASSUME ~ WriteFails, \A c \in Configs : SavesEpochs(c) \/ Validates(c)
  PROVE  Spec => []SomeCheckpointIsWhole
<1>1. RecoveryInv /\ SavedInv /\ AlignInv /\ TypeInv => SomeCheckpointIsWhole
  <2>. SUFFICES ASSUME RecoveryInv, SavedInv, AlignInv, TypeInv, LastFile \in DOMAIN dir,
                       ~ \E file \in DOMAIN dir : Whole(file)
                PROVE  /\ ~ SavesEpochs(config)
                       /\ Cardinality({file \in DOMAIN dir : dir[file] = Torn}) >= 2
    BY DEF SomeCheckpointIsWhole
  <2>. DEFINE torn == {file \in DOMAIN dir : dir[file] = Torn}
  <2>1. ~ SavesEpochs(config)
    BY OneCanBeRead DEF RecoveryInv, TypeInv, ProcessTypes
  <2>2. BestFile \in DOMAIN dir
    BY <2>1 DEF RecoveryInv, AlignInv, BestIsThere
  <2>3. {BestFile, LastFile} \in SUBSET torn
    BY <2>2 DEF Whole
  <2>4. IsFiniteSet(torn)
    BY FS_Subset DEF SavedInv, NamesTyped
  <2>. HIDE DEF torn
  <2>5. Cardinality({BestFile, LastFile}) = 2
    <3>1. /\ Cardinality({BestFile}) = 1 /\ IsFiniteSet({BestFile})
          /\ LastFile \notin {BestFile} /\ {BestFile} \cup {LastFile} = {BestFile, LastFile}
      BY LastIsNoEpoch, FS_Singleton
    <3>. QED
      BY <3>1, FS_AddElement
  <2>6. Cardinality(torn) >= 2
    BY <2>3, <2>4, <2>5, FS_Subset, FS_CardinalityType
  <2>. QED
    BY <2>1, <2>6 DEF torn
<1>2. Spec => [](RecoveryInv /\ SavedInv /\ BestInv /\ CountInv /\ AlignInv /\ TypeInv)
  BY InitRecovers, InitSaved, InitBest, InitCounts, InitAligned, InitTyped,
     NextRecovers, NextSaved, NextBest, NextCounts, NextAligned, NextTyped, PTL DEF Spec
<1>. QED
  BY <1>1, <1>2, PTL

-----------------------------------------------------------------------------
(***************************************************************************)
(* When the loss scale grows.                                              *)
(***************************************************************************)

UpdatesSince(steps, k) == {i \in k + 1 .. Len(steps) : steps[i].outcome = "update"}

\* The last steps are n updates, with no overflow between them.
Quiet(steps, n) ==
  \E k \in 0 .. Len(steps) :
    /\ \A i \in k + 1 .. Len(steps) : steps[i].outcome # "overflow"
    /\ Cardinality(UpdatesSince(steps, k)) = n

\* The scaler counts from the last overflow or, as it is not restored, from the launch.
ScalerCounts == Up => Quiet(lineage.steps, scaler.iter - scaler.last_overflow_iter - 1)

LEMMA QuietNow ==
  ASSUME NEW steps, IsSequence(steps)
  PROVE  Quiet(steps, 0)
<1>1. Len(steps) \in Nat
  BY DEF IsSequence
<1>2. Len(steps) \in 0 .. Len(steps) /\ Len(steps) + 1 .. Len(steps) = {}
  BY <1>1
<1>3. UpdatesSince(steps, Len(steps)) = {}
  BY <1>2 DEF UpdatesSince
<1>. QED
  BY <1>2, <1>3, FS_EmptySet DEF Quiet

LEMMA QuietStep ==
  ASSUME NEW steps, IsSequence(steps), NEW n, Quiet(steps, n), NEW s, s.outcome # "overflow"
  PROVE  Quiet(Append(steps, s), IF s.outcome = "update" THEN n + 1 ELSE n)
<1>. DEFINE A == Append(steps, s)
            m == Len(steps) + 1
<1>1. PICK S : steps \in Seq(S)
  BY DEF IsSequence
<1>2. /\ Len(steps) \in Nat /\ m \in Nat /\ m > Len(steps) /\ Len(A) = m
      /\ \A i \in 1 .. Len(steps) : A[i] = steps[i]
      /\ A[m] = s
  <2>1. steps \in Seq(S \cup {s}) /\ s \in S \cup {s}
    BY <1>1
  <2>. QED
    BY <2>1
<1>3. PICK k \in 0 .. Len(steps) :
        /\ \A i \in k + 1 .. Len(steps) : steps[i].outcome # "overflow"
        /\ Cardinality(UpdatesSince(steps, k)) = n
  BY DEF Quiet
<1>4. /\ k \in 0 .. m
      /\ k + 1 .. m = (k + 1 .. Len(steps)) \cup {m}
      /\ k + 1 .. Len(steps) \subseteq 1 .. Len(steps)
  BY <1>2
<1>. HIDE DEF A
<1>5. \A i \in k + 1 .. m : A[i].outcome # "overflow"
  <2>. HIDE DEF m
  <2>. QED
    BY <1>2, <1>3, <1>4
<1>6. IsFiniteSet(UpdatesSince(steps, k)) /\ m \notin UpdatesSince(steps, k)
  <2>1. IsFiniteSet(k + 1 .. Len(steps))
    <3>1. k + 1 \in Int /\ Len(steps) \in Int
      BY <1>2
    <3>. QED
      BY <3>1, FS_Interval
  <2>2. UpdatesSince(steps, k) \subseteq k + 1 .. Len(steps) /\ m \notin k + 1 .. Len(steps)
    BY <1>2 DEF UpdatesSince
  <2>. QED
    BY <2>1, <2>2, FS_Subset
<1>. HIDE DEF m
<1>7. UpdatesSince(A, k) = IF s.outcome = "update" THEN UpdatesSince(steps, k) \cup {m}
                           ELSE UpdatesSince(steps, k)
  <2>1. \A i \in k + 1 .. Len(steps) : A[i] = steps[i]
    BY <1>2, <1>4
  <2>2. UpdatesSince(A, k) = {i \in (k + 1 .. Len(steps)) \cup {m} : A[i].outcome = "update"}
    BY <1>2, <1>4 DEF UpdatesSince
  <2>. QED
    BY <1>2, <2>1, <2>2 DEF UpdatesSince
<1>8. Cardinality(UpdatesSince(A, k)) = IF s.outcome = "update" THEN n + 1 ELSE n
  BY <1>3, <1>6, <1>7, FS_AddElement
<1>9. Quiet(A, IF s.outcome = "update" THEN n + 1 ELSE n)
  BY <1>2, <1>4, <1>5, <1>8 DEF Quiet
<1>. QED
  BY <1>9 DEF A

LEMMA TrainStepCountsScale ==
  ASSUME ScalerCounts, CountInv, TypeInv, NEW outcome \in Outcomes, NEW loss,
         TrainStep(outcome, loss)
  PROVE  ScalerCounts'
<1>. DEFINE n == scaler.iter - scaler.last_overflow_iter - 1
<1>1. /\ Up
      /\ lineage'.steps = Append(lineage.steps, Step(outcome))
      /\ scaler' = CASE outcome = "update" -> update(scaler)
                     [] outcome = "overflow" -> overflow(scaler)
                     [] outcome = "oom" -> scaler
  BY DEF TrainStep, Up
<1>2. Step(outcome).outcome = outcome
  BY DEF Step
<1>3. IsSequence(lineage.steps) /\ Quiet(lineage.steps, n)
  BY <1>1 DEF CountInv, MemoryCounted, Counted, ScalerCounts
<1>4. scaler.iter \in Nat /\ scaler.last_overflow_iter \in Int
  BY DEF TypeInv, MemoryTypes, ScalerRight, Scalers
<1>. SUFFICES Quiet(lineage'.steps, scaler'.iter - scaler'.last_overflow_iter - 1)
  BY DEF ScalerCounts
<1>5. CASE outcome = "update"
  <2>1. scaler'.iter - scaler'.last_overflow_iter - 1 = n + 1
    BY <1>1, <1>4, <1>5 DEF update
  <2>. QED
    BY <1>1, <1>2, <1>3, <1>5, <2>1, QuietStep
<1>6. CASE outcome = "overflow"
  <2>1. scaler'.iter - scaler'.last_overflow_iter - 1 = 0
    BY <1>1, <1>4, <1>6 DEF overflow
  <2>2. CountInv'
    BY TrainStepCounts
  <2>3. IsSequence(lineage'.steps)
    <3>1. Up'
      BY DEF TrainStep, Up
    <3>. QED
      BY <2>2, <3>1 DEF CountInv, MemoryCounted, Counted
  <2>. QED
    BY <2>1, <2>3, QuietNow
<1>7. CASE outcome = "oom"
  BY <1>1, <1>2, <1>3, <1>7, QuietStep
<1>. QED
  BY <1>5, <1>6, <1>7 DEF Outcomes

LEMMA NextCountsScale == ScalerCounts /\ CountInv /\ TypeInv /\ [Next]_vars => ScalerCounts'
<1>. SUFFICES ASSUME ScalerCounts, CountInv, TypeInv, [Next]_vars PROVE ScalerCounts'
  OBVIOUS
<1>1. CASE LaunchNew \/ \E file \in DOMAIN dir : LaunchFrom(file)
  <2>1. scaler'.iter - scaler'.last_overflow_iter - 1 = 0
    BY <1>1 DEF LaunchNew, LaunchFrom, DynamicLossScaler
  <2>2. Counted(lineage', num_updates')
    <3>1. CASE LaunchNew
      BY <3>1, NothingCounted DEF LaunchNew
    <3>2. CASE \E file \in DOMAIN dir : LaunchFrom(file)
      BY <3>2 DEF LaunchFrom, CountInv, FilesCounted, Counted
    <3>. QED
      BY <1>1, <3>1, <3>2
  <2>. QED
    BY <2>1, <2>2, QuietNow DEF ScalerCounts, Counted
<1>2. CASE EndTraining \/ Crash \/ (EndSave /\ save.stop)
  BY <1>2 DEF EndTraining, Crash, EndSave, ScalerCounts, Up
<1>3. CASE \E outcome \in Outcomes, loss \in Losses \cup {None} : TrainStep(outcome, loss)
  BY <1>3, TrainStepCountsScale
<1>4. CASE BeginEpoch \/ OpenFile \/ WriteFile \/ RemoveFile \/ (EndSave /\ ~ save.stop)
  <2>1. Up /\ UNCHANGED <<lineage, scaler>>
    BY <1>4 DEF BeginEpoch, OpenFile, WriteFile, RemoveFile, EndSave, Up
  <2>. QED
    BY <2>1 DEF ScalerCounts
<1>5. CASE UNCHANGED vars
  BY <1>5 DEF vars, memory, ScalerCounts, Up
<1>. QED
  BY <1>1, <1>2, <1>3, <1>4, <1>5 DEF Next

\* The loss scale grows only after a whole window of updates with no overflow between
\* them: a restart forgets the part of the window that lies before it, and never counts
\* an update that it has not got.
THEOREM GrowthIsEarned == Spec => GrowsAfterWindow
<1>1. Init => ScalerCounts
  BY DEF Init, ScalerCounts, Up
<1>2. ASSUME ScalerCounts, CountInv, TypeInv, Next,
             proc = "train", proc' # "down", scaler'.loss_scale > scaler.loss_scale
      PROVE  \E k \in 0 .. Len(lineage'.steps) :
               LET since == k + 1 .. Len(lineage'.steps) IN
               /\ \A i \in since : lineage'.steps[i].outcome # "overflow"
               /\ Cardinality({i \in since : lineage'.steps[i].outcome = "update"}) >= ScaleWindow
  <2>. DEFINE n == scaler.iter - scaler.last_overflow_iter
  <2>1. /\ scaler.iter \in Nat /\ scaler.last_overflow_iter \in Int /\ scaler.loss_scale \in Int
        /\ scaler.iter > scaler.last_overflow_iter
    BY <1>2 DEF TypeInv, MemoryTypes, ScalerRight, Scalers
  <2>2. PICK outcome \in Outcomes, loss \in Losses \cup {None} : TrainStep(outcome, loss)
    <3>1. scaler' # scaler
      BY <1>2, <2>1
    <3>. QED
      BY <1>2, <3>1 DEF Next, LaunchNew, LaunchFrom, CanLaunch, BeginEpoch, EndTraining,
                        OpenFile, WriteFile, RemoveFile, EndSave, Crash
  <2>3. scaler' = update(scaler) /\ n % ScaleWindow = 0
    <3>1. scaler' = CASE outcome = "update" -> update(scaler)
                      [] outcome = "overflow" -> overflow(scaler)
                      [] outcome = "oom" -> scaler
      BY <2>2 DEF TrainStep
    <3>2. ~ (overflow(scaler).loss_scale > scaler.loss_scale)
      BY <2>1 DEF overflow
    <3>3. scaler' = update(scaler)
      BY <1>2, <2>1, <3>1, <3>2 DEF Outcomes
    <3>4. n % ScaleWindow = 0
      BY <1>2, <2>1, <3>3 DEF update
    <3>. QED
      BY <3>3, <3>4
  <2>4. scaler'.iter - scaler'.last_overflow_iter - 1 = n
    BY <2>1, <2>3 DEF update
  <2>5. n \in Nat /\ n >= ScaleWindow
    <3>1. n \in Nat \ {0}
      BY <2>1
    <3>. HIDE DEF n
    <3>. QED
      BY <2>3, <3>1, ScaleAssumption
  <2>6. Quiet(lineage'.steps, n)
    <3>1. Up'
      BY <2>2 DEF TrainStep, Up
    <3>. QED
      BY <1>2, <2>2, <2>4, <3>1, TrainStepCountsScale DEF ScalerCounts
  <2>. HIDE DEF n
  <2>. QED
    BY <2>5, <2>6 DEF Quiet, UpdatesSince
<1>3. ScalerCounts /\ CountInv /\ TypeInv /\ [Next]_vars =>
        [proc = "train" /\ proc' # "down" /\ scaler'.loss_scale > scaler.loss_scale =>
           \E k \in 0 .. Len(lineage'.steps) :
             LET since == k + 1 .. Len(lineage'.steps) IN
             /\ \A i \in since : lineage'.steps[i].outcome # "overflow"
             /\ Cardinality({i \in since : lineage'.steps[i].outcome = "update"}) >= ScaleWindow]_vars
  BY <1>2
<1>. QED
  BY <1>1, <1>3, InitCounts, InitTyped, NextCounts, NextTyped, NextCountsScale, PTL
     DEF Spec, GrowsAfterWindow

=============================================================================
