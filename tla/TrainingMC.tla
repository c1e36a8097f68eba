----------------------------- MODULE TrainingMC -----------------------------
(* Configurations to check Training with. *)
EXTENDS Training

\* The defaults, but for the length of training.
Default ==
  [shards |-> 1, update_freq |-> <<1>>, max_epoch |-> 2, max_update |-> 0,
   save_interval |-> 1, save_interval_updates |-> 0, keep_interval_updates |-> -1,
   keep_last_epochs |-> -1, keep_best_checkpoints |-> -1, no_epoch_checkpoints |-> FALSE,
   validate_interval |-> 1, validate_interval_updates |-> 0, validate_after_updates |-> 0,
   disable_validation |-> FALSE, patience |-> -1, fix_batches_to_gpus |-> FALSE]

\* The files of the last epoch, the best and the last checkpoint.
Epochwise == [Default EXCEPT !.update_freq = <<3>>, !.keep_last_epochs = 1]

\* Checkpoints within epochs, and the removal of old ones.
Often == [Default EXCEPT !.update_freq = <<3>>, !.save_interval_updates = 1,
            !.keep_interval_updates = 1, !.keep_last_epochs = 1]

\* Copies of the best checkpoints under a name of their own.
Bests == [Default EXCEPT !.update_freq = <<3>>, !.no_epoch_checkpoints = TRUE,
            !.keep_best_checkpoints = 1]

\* Two workers, the share of one filled up; only the last and the best checkpoint.
Parallel == [Default EXCEPT !.shards = 2, !.update_freq = <<1, 2>>, !.save_interval_updates = 2,
               !.no_epoch_checkpoints = TRUE, !.patience = 1]

\* A limit that is reached within an epoch.
Limited == [Default EXCEPT !.max_update = 6, !.validate_interval_updates = 3, !.patience = 2,
              !.keep_last_epochs = 1]

PassConfigs    == {Epochwise, Often, Bests, Parallel, Limited}
DividedConfigs == {[Default EXCEPT !.shards = 2, !.update_freq = <<2>>]}
=============================================================================
