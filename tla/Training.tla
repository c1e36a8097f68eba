------------------------------ MODULE Training ------------------------------
(***************************************************************************)
(* Training with fairseq_cli/train.py: epochs of updates, validation,      *)
(* saving, stopping; and crashes at any step, after which the same command *)
(* is run again and goes on from the checkpoint it finds.                  *)
(*                                                                         *)
(* The workers run in lockstep (every update is a collective operation),   *)
(* so there is one of each variable.  The model is what it was trained on: *)
(* its parameters are its "lineage", the steps that led to them.  Losses,  *)
(* overflows and running out of memory are choices.                        *)
(***************************************************************************)
EXTENDS Checkpoints, LossScaler

CONSTANTS
  Configs,      \* the configurations to check: records named like the options
  Losses,       \* the values a validation may have
  MaxLaunches,  \* bound: how often training is started
  MaxFaults,    \* bound: steps that overflow or run out of memory, per launch
  WriteFails    \* may writing a file fail, as on a full disk?

ASSUME BoundsAssumption ==
  /\ Losses \subseteq Nat /\ None \notin Losses
  /\ MaxLaunches \in Nat /\ MaxFaults \in Nat /\ WriteFails \in BOOLEAN

ASSUME ConfigsAssumption ==
  \A c \in Configs :
    /\ c.shards \in Nat \ {0} /\ c.fix_batches_to_gpus \in BOOLEAN
    /\ c.save_interval \in Nat \ {0} /\ c.validate_interval \in Nat \ {0}
    /\ {c.save_interval_updates, c.validate_interval_updates, c.max_update, c.patience,
        c.keep_last_epochs} \subseteq Int
    /\ c.update_freq # << >> /\ c.update_freq \in Seq(Nat \ {0})

\* What a file holds that was opened and not written to its end.
Torn == [kind |-> "torn"]

VARIABLES
  config,       \* the configuration, the same at every launch
  dir,          \* the checkpoints of save_dir: from names to contents
  launches,     \* how often training was started
  proc,         \* "down", "epoch" (between epochs), "train", "saving" or "done"
  lineage,      \* the steps the model comes from, the losses it was saved with, and
                \* whether it was ever restored from another file than the last checkpoint
  num_updates,  \* Trainer._num_updates
  scaler,       \* the loss scaler of the FP16 optimizer
  epoch_itr,    \* the EpochBatchIterator ...
  grouped,      \* ... and the GroupedIterator over its current epoch
  best,         \* save_checkpoint.best
  early,        \* should_stop_early.best and .num_runs
  save,         \* what is being saved
  faults        \* steps without an update since the launch

memory == <<lineage, num_updates, scaler, epoch_itr, grouped, best, early, save, faults>>
vars   == <<config, dir, launches, proc, memory>>

Shards == 0 .. config.shards - 1

NoLineage == [steps |-> << >>, losses |-> {}, others |-> FALSE]
NoSave    == [files |-> << >>, source |-> None, open |-> FALSE, old |-> {},
              loss |-> None, stop |-> FALSE]

-----------------------------------------------------------------------------
(***************************************************************************)
(* One update, Trainer.train_step.                                         *)
(***************************************************************************)

Group(shard) == Chunk(grouped, epoch_itr.cur, config.shards, shard)

BatchesOfGroup == (UNION {ToSet(Group(shard)) : shard \in Shards}) \ {Empty}

\* The samples a worker counts: none if its last batch is a dummy one.
sample_size(shard) == IF Last(Group(shard)) = Empty THEN 0 ELSE Len(Group(shard))

SampleSize == FoldSet(LAMBDA shard, sum : sum + sample_size(shard), 0, Shards)

Step(outcome) ==
  [epoch |-> epoch_itr.epoch, batches |-> BatchesOfGroup, size |-> SampleSize,
   outcome |-> outcome]

\* Bug: a step that overflowed counts.
UpdatesAfter_any(outcome) == num_updates + 1

UpdatesAfter(outcome) == IF outcome = "update" THEN num_updates + 1 ELSE num_updates

-----------------------------------------------------------------------------
(***************************************************************************)
(* When to validate, save and stop: validate_and_save.                     *)
(***************************************************************************)

Reached(updates) == config.max_update > 0 /\ updates >= config.max_update

AtInterval(interval, updates) == interval > 0 /\ updates > 0 /\ updates % interval = 0

do_save(end, updates) ==
  \/ end /\ epoch_itr.epoch % config.save_interval = 0
  \/ Reached(updates)
  \/ /\ AtInterval(config.save_interval_updates, updates)
     /\ updates >= config.validate_after_updates

do_validate(end, updates) ==
  /\ \/ ~ end /\ do_save(end, updates)
     \/ end /\ epoch_itr.epoch % config.validate_interval = 0
     \/ Reached(updates)
     \/ AtInterval(config.validate_interval_updates, updates)
  /\ ~ config.disable_validation

\* What should_stop_early keeps, and whether it stops.
should_stop_early(loss) ==
  IF loss = None \/ config.patience <= 0 THEN [early |-> early, stop |-> FALSE]
  ELSE IF early.best = None \/ loss < early.best
  THEN [early |-> [best |-> loss, num_runs |-> 0], stop |-> FALSE]
  ELSE [early |-> [early EXCEPT !.num_runs = @ + 1],
        stop  |-> early.num_runs + 1 >= config.patience]

-----------------------------------------------------------------------------
(***************************************************************************)
(* Actions.                                                                *)
(***************************************************************************)

\* A process that is not running has no memory.
NoMemory ==
  /\ lineage' = NoLineage /\ num_updates' = 0 /\ scaler' = DynamicLossScaler
  /\ epoch_itr' = None /\ grouped' = None /\ best' = None
  /\ early' = [best |-> None, num_runs |-> 0] /\ save' = NoSave /\ faults' = 0

Init ==
  /\ config \in Configs
  /\ dir = << >>
  /\ launches = 0
  /\ proc = "down"
  /\ lineage = NoLineage /\ num_updates = 0 /\ scaler = DynamicLossScaler
  /\ epoch_itr = None /\ grouped = None /\ best = None
  /\ early = [best |-> None, num_runs |-> 0] /\ save = NoSave /\ faults = 0

CanLaunch == proc \in {"down", "done"} /\ launches < MaxLaunches

\* main without a checkpoint to load.
LaunchNew ==
  /\ CanLaunch
  /\ LastFile \notin DOMAIN dir
  /\ launches' = launches + 1
  /\ proc' = "epoch"
  /\ lineage' = NoLineage /\ num_updates' = 0 /\ scaler' = DynamicLossScaler
  /\ epoch_itr' = EpochBatchIterator(1)
  /\ grouped' = None /\ best' = None
  /\ early' = [best |-> None, num_runs |-> 0] /\ save' = NoSave /\ faults' = 0
  /\ UNCHANGED <<config, dir>>

\* main with the last checkpoint, or with another that --restore-file names when
\* the last one cannot be read.  Of the optimizer the scale is restored, of the
\* losses only the best one.
LaunchFrom(file) ==
  /\ CanLaunch
  /\ dir[file] # Torn
  /\ file = LastFile \/ (LastFile \in DOMAIN dir /\ dir[LastFile] = Torn)
  /\ LET state == dir[file]
         itr   == load_state_dict(EpochBatchIterator(state.train_iterator.epoch),
                                  state.train_iterator, config.shards)
     IN  /\ lineage' = [steps  |-> state.lineage.steps, losses |-> state.lineage.losses,
                        others |-> state.lineage.others \/ file # LastFile]
         /\ num_updates' = state.num_updates
         /\ scaler' = [DynamicLossScaler EXCEPT !.loss_scale = state.loss_scale]
         /\ epoch_itr' = itr
         /\ best' = state.best
  /\ launches' = launches + 1
  /\ proc' = "epoch"
  /\ grouped' = None
  /\ early' = [best |-> None, num_runs |-> 0] /\ save' = NoSave /\ faults' = 0
  /\ UNCHANGED <<config, dir>>

\* The head of main's loop and of train: the next epoch, or the rest of the one
\* that was restored.
BeginEpoch ==
  /\ proc = "epoch"
  /\ next_epoch_idx(epoch_itr, config.shards) <= config.max_epoch
  /\ LET itr  == next_epoch_itr(epoch_itr, TRUE, config.fix_batches_to_gpus, config.shards)
         freq == config.update_freq[Min({itr.epoch, Len(config.update_freq)})]
     IN  /\ epoch_itr' = itr
         /\ grouped' = GroupedIterator(itr.cur, freq, config.shards)
  /\ proc' = "train"
  /\ UNCHANGED <<config, dir, launches, lineage, num_updates, scaler, best, early, save, faults>>

EndTraining ==
  /\ proc = "epoch"
  /\ next_epoch_idx(epoch_itr, config.shards) > config.max_epoch
  /\ proc' = "done"
  /\ NoMemory
  /\ UNCHANGED <<config, dir, launches>>

-----------------------------------------------------------------------------
\* The steps that do not update the model: a loss scale that was too large, and
\* on a single worker also a batch that does not fit in memory.
Outcomes ==
  {"update"}
    \cup (IF faults < MaxFaults /\ ~ ReachesMinimum(scaler) THEN {"overflow"} ELSE {})
    \cup (IF faults < MaxFaults /\ config.shards = 1 THEN {"oom"} ELSE {})

\* A step of train's loop: train_step, and validate_and_save up to the first write.
TrainStep(outcome, loss) ==
  LET updates == UpdatesAfter(outcome)
      end     == grouped.n + 1 >= grouped.total
      itr     == [epoch_itr EXCEPT
                    !.cur.n = @ + ChunkLen(grouped, epoch_itr.cur, config.shards)]
      checked == should_stop_early(loss)
      stop    == checked.stop \/ Reached(updates)
      saves   == do_save(end, updates) \/ stop
      newest  == best_after(best, loss)
  IN
  /\ proc = "train" /\ has_next(epoch_itr.cur, config.shards)
  /\ (loss = None) = ~ do_validate(end, updates)
  /\ num_updates' = updates
  /\ scaler' = CASE outcome = "update"   -> update(scaler)
                 [] outcome = "overflow" -> overflow(scaler)
                 [] outcome = "oom"      -> scaler
  /\ faults' = IF outcome = "update" THEN faults ELSE faults + 1
  /\ epoch_itr' = itr
  /\ grouped' = [grouped EXCEPT !.n = @ + 1]
  /\ early' = checked.early
  /\ best' = IF saves THEN newest ELSE best
  /\ lineage' = [steps  |-> Append(lineage.steps, Step(outcome)),
                 losses |-> IF saves THEN lineage.losses \cup ({loss} \ {None})
                            ELSE lineage.losses,
                 others |-> lineage.others]
  /\ save' = IF saves
             THEN [NoSave EXCEPT
                     !.files = checkpoints(config, itr.epoch, end_of_epoch(itr, config.shards),
                                           updates, loss, newest),
                     !.loss = loss, !.stop = stop]
             ELSE NoSave
  /\ proc' = IF saves THEN "saving"
             ELSE IF has_next(itr.cur, config.shards) THEN "train" ELSE "epoch"
  /\ UNCHANGED <<config, dir, launches>>

\* What trainer.save_checkpoint writes.
Content ==
  [lineage |-> lineage, num_updates |-> num_updates, loss_scale |-> scaler.loss_scale,
   train_iterator |-> state_dict(epoch_itr, config.shards), best |-> best, val_loss |-> save.loss]

\* A file is opened, which makes it empty ...
OpenFile ==
  /\ proc = "saving" /\ save.files # << >> /\ ~ save.open
  /\ dir' = [file \in DOMAIN dir \cup {Head(save.files)} |->
               IF file = Head(save.files) THEN Torn ELSE dir[file]]
  /\ save' = [save EXCEPT !.open = TRUE]
  /\ UNCHANGED <<config, launches, proc, lineage, num_updates, scaler, epoch_itr, grouped,
                 best, early, faults>>

\* What a write leaves in the file: torch_persistent_save logs that it could not
\* write, and returns.
Written == {Content} \cup (IF WriteFails THEN {Torn} ELSE {})

\* ... and written, from memory or as a copy of the first one.  After the last one the
\* directory is listed for old checkpoints.
WriteFile ==
  /\ proc = "saving" /\ save.open
  /\ LET file == Head(save.files)
         rest == Tail(save.files)
     IN  /\ \E content \in IF save.source = None THEN Written ELSE {dir[save.source]} :
              dir' = [dir EXCEPT ![file] = content]
         /\ save' = [save EXCEPT
              !.files  = rest,
              !.open   = FALSE,
              !.source = IF @ = None THEN file ELSE @,
              !.old    = IF rest = << >>
                         THEN old_checkpoints(config, DOMAIN dir,
                                              end_of_epoch(epoch_itr, config.shards))
                         ELSE {}]
  /\ UNCHANGED <<config, launches, proc, lineage, num_updates, scaler, epoch_itr, grouped,
                 best, early, faults>>

RemoveFile ==
  /\ proc = "saving" /\ save.files = << >>
  /\ \E file \in save.old :
       /\ dir' = Restrict(dir, DOMAIN dir \ {file})
       /\ save' = [save EXCEPT !.old = @ \ {file}]
  /\ UNCHANGED <<config, launches, proc, lineage, num_updates, scaler, epoch_itr, grouped,
                 best, early, faults>>

\* Training goes on, or ends: early, or at max_update.
EndSave ==
  /\ proc = "saving" /\ save.files = << >> /\ save.old = {}
  /\ IF save.stop
     THEN proc' = "done" /\ NoMemory
     ELSE /\ proc' = IF has_next(epoch_itr.cur, config.shards) THEN "train" ELSE "epoch"
          /\ save' = NoSave
          /\ UNCHANGED <<lineage, num_updates, scaler, epoch_itr, grouped, best, early, faults>>
  /\ UNCHANGED <<config, dir, launches>>

\* The process is killed, or dies of any error.
Crash ==
  /\ proc \in {"epoch", "train", "saving"}
  /\ proc' = "down"
  /\ NoMemory
  /\ UNCHANGED <<config, dir, launches>>

Next ==
  \/ LaunchNew
  \/ \E file \in DOMAIN dir : LaunchFrom(file)
  \/ BeginEpoch
  \/ EndTraining
  \/ \E outcome \in Outcomes, loss \in Losses \cup {None} : TrainStep(outcome, loss)
  \/ OpenFile
  \/ WriteFile
  \/ RemoveFile
  \/ EndSave
  \/ Crash

Spec == Init /\ [][Next]_vars

-----------------------------------------------------------------------------
(***************************************************************************)
(* Properties.                                                             *)
(***************************************************************************)

Up == proc \in {"epoch", "train", "saving"}

Whole(file) == file \in DOMAIN dir /\ dir[file] # Torn

TypeOK ==
  /\ config \in Configs
  /\ proc \in {"down", "epoch", "train", "saving", "done"}
  /\ launches \in 0 .. MaxLaunches
  /\ num_updates \in 0 .. Len(lineage.steps)
  /\ lineage.losses \subseteq Losses
  /\ best \in Losses \cup {None}
  /\ scaler.loss_scale > MinScale
  /\ scaler.iter > scaler.last_rescale_iter /\ scaler.iter > scaler.last_overflow_iter
  /\ ~ Up => epoch_itr = None /\ save = NoSave
  /\ proc = "train" => grouped.n <= grouped.total

(***************************************************************************)
(* Whatever was restored from whichever checkpoint, the model has seen no  *)
(* batch twice in an epoch, and all batches of every epoch it is through   *)
(* with (in an update, or in a step that overflowed or ran out of memory). *)
(***************************************************************************)
EachBatchOnce ==
  Up =>
    LET steps == lineage.steps IN
    /\ \A i, j \in DOMAIN steps :
         i < j /\ steps[i].epoch = steps[j].epoch
           => steps[i].batches \cap steps[j].batches = {}
    /\ \A e \in 1 .. next_epoch_idx(epoch_itr, config.shards) - 1 :
         UNION {steps[i].batches : i \in {j \in DOMAIN steps : steps[j].epoch = e}} = Batch

(***************************************************************************)
(* The iterator over groups, which decides when an epoch is validated and  *)
(* saved as a whole, and the one over batches, which decides what is saved *)
(* as the position, agree on the end of the epoch, also after a restart in *)
(* its middle.                                                             *)
(***************************************************************************)
EpochEndsAgree ==
  proc \in {"train", "saving"} =>
    (grouped.n >= grouped.total) = end_of_epoch(epoch_itr, config.shards)

(***************************************************************************)
(* The number of updates is that of the model, however often and from      *)
(* where training was restarted: schedules, intervals and the random seed  *)
(* of each step depend on it.                                              *)
(***************************************************************************)
UpdatesAreCounted ==
  Up => num_updates = Cardinality({i \in DOMAIN lineage.steps :
                                     lineage.steps[i].outcome = "update"})

\* Every save is at the end of an epoch, and begins with the file of that epoch.
SavesEpochs(c) ==
  /\ ~ c.no_epoch_checkpoints /\ c.save_interval = 1
  /\ c.save_interval_updates <= 0 /\ c.max_update <= 0
  /\ c.patience <= 0 \/ c.validate_interval_updates <= 0

(***************************************************************************)
(* Once a first save is through there is always a checkpoint to go on      *)
(* from, though files are overwritten in place, old ones are removed and   *)
(* the process may die anywhere in between.  With other files than those   *)
(* of epochs no single crash takes them all, but two can: after a restart  *)
(* the first file that is opened may be the one training went on from.     *)
(***************************************************************************)
SomeCheckpointIsWhole ==
  LastFile \in DOMAIN dir =>
    \/ \E file \in DOMAIN dir : Whole(file)
    \/ ~ SavesEpochs(config) /\ Cardinality({file \in DOMAIN dir : dir[file] = Torn}) >= 2

(***************************************************************************)
(* The best checkpoint, if it can be read, is at least as good as every    *)
(* model its training was saved with, also before a restart.  This is so   *)
(* because the last checkpoint is written after the best one: who goes on  *)
(* from another one, as the last one is torn, may know of a best loss      *)
(* whose model a second crash kept from becoming the best checkpoint.      *)
(***************************************************************************)
BestIsBest ==
  proc \in {"epoch", "train"} /\ Whole(BestFile) /\ ~ lineage.others =>
    \A loss \in lineage.losses : dir[BestFile].val_loss <= loss

(***************************************************************************)
(* An epoch that was trained to its end and is to be kept is in its file   *)
(* when the next one begins; the removal of old checkpoints may take it    *)
(* only for later epochs of a run that had got further.                    *)
(***************************************************************************)
EpochIsSaved ==
  proc = "epoch" /\ epoch_itr.cur # None
    /\ ~ config.no_epoch_checkpoints /\ epoch_itr.epoch % config.save_interval = 0 =>
       \/ /\ Whole(EpochFile(epoch_itr.epoch))
          /\ dir[EpochFile(epoch_itr.epoch)].lineage = lineage
       \/ /\ config.keep_last_epochs > 0
          /\ Cardinality({f \in DOMAIN dir : f[1] = "checkpoint" /\ f[2] > epoch_itr.epoch})
               >= config.keep_last_epochs

(***************************************************************************)
(* The loss scale grows only after a whole window of updates without an    *)
(* overflow between them (a step that ran out of memory does not count).   *)
(***************************************************************************)
GrowsAfterWindow ==
  [][proc = "train" /\ proc' # "down" /\ scaler'.loss_scale > scaler.loss_scale =>
       \E k \in 0 .. Len(lineage'.steps) :
         LET since == k + 1 .. Len(lineage'.steps) IN
         /\ \A i \in since : lineage'.steps[i].outcome # "overflow"
         /\ Cardinality({i \in since : lineage'.steps[i].outcome = "update"}) >= ScaleWindow]_vars

-----------------------------------------------------------------------------
\* fairseq/trainer.py:619, "Thus we get (sum_of_gradients / sample_size) at the end".
DividedBySampleSize ==
  \A i \in DOMAIN lineage.steps : lineage.steps[i].size = Cardinality(lineage.steps[i].batches)
=============================================================================
