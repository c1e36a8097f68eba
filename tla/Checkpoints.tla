---------------------------- MODULE Checkpoints ----------------------------
(***************************************************************************)
(* The files of a training run: which checkpoints save_checkpoint of       *)
(* fairseq/checkpoint_utils.py writes, and which old ones it removes.      *)
(*                                                                         *)
(* The name of a file is a tuple: what it is for, and the numbers in it.   *)
(* c is the configuration, with the names of fairseq's options; losses are *)
(* to be minimized and have the two decimals that file names have.         *)
(***************************************************************************)
EXTENDS EpochIterators  \* for None, the loss of a checkpoint without validation

EpochFile(epoch)            == <<"checkpoint", epoch>>
UpdatesFile(epoch, updates) == <<"checkpoint_", epoch, updates>>
BestFile                    == <<"checkpoint_best">>
BestLossFile(loss)          == <<"checkpoint.best_loss", loss>>
LastFile                    == <<"checkpoint_last">>

\* save_checkpoint.best after a loss, and whether there is one.
best_after(best, loss) ==
  IF loss = None THEN best
  ELSE IF best = None THEN loss ELSE IF loss < best THEN loss ELSE best

\* A file, if it is to be written.
If(file, cond) == IF cond THEN <<file>> ELSE << >>

\* The files of an epoch that ended, and of the updates within one.
regular(c, epoch, ended, updates) ==
  If(EpochFile(epoch), ended /\ ~ c.no_epoch_checkpoints /\ epoch % c.save_interval = 0)
    \o If(UpdatesFile(epoch, updates),
          ~ ended /\ c.save_interval_updates > 0 /\ updates % c.save_interval_updates = 0)

\* Bug: any loss makes a best checkpoint.
checkpoints_anyBest(c, epoch, ended, updates, loss, best) ==
  regular(c, epoch, ended, updates)
    \o If(BestFile, loss # None)
    \o If(BestLossFile(loss), loss # None /\ c.keep_best_checkpoints > 0)
    \o <<LastFile>>

\* The files to write, the first one from memory and the others as copies of it.
\* best is save_checkpoint.best, which has seen this loss already.
checkpoints(c, epoch, ended, updates, loss, best) ==
  LET is_best == loss # None /\ loss <= best
  IN  regular(c, epoch, ended, updates)
        \o If(BestFile, is_best)
        \o If(BestLossFile(loss), is_best /\ c.keep_best_checkpoints > 0)
        \o <<LastFile>>

\* Those of the files that keep or more others come before; before is a set of pairs.
Beyond(files, keep, before) ==
  {f \in files : Cardinality({g \in files : <<g, f>> \in before}) >= keep}

\* Bug: files are counted from the oldest one.
old_checkpoints_keepsOldest(c, files, ended) ==
  LET epochs == {f \in files : f[1] = "checkpoint"}
  IN  IF c.keep_last_epochs > 0
      THEN Beyond(epochs, c.keep_last_epochs, {p \in epochs \X epochs : p[1][2] < p[2][2]})
      ELSE {}

\* The files to remove: checkpoint_paths sorts them by the number in their names
\* (and then by the whole name), and those after the first N go.
old_checkpoints(c, files, ended) ==
  LET Of(kind) == {f \in files : f[1] = kind}
      updates == Of("checkpoint_")
      epochs  == Of("checkpoint")
      bests   == Of("checkpoint.best_loss")
  IN  (IF ~ ended /\ c.keep_interval_updates > 0
       THEN Beyond(updates, c.keep_interval_updates,
                   {p \in updates \X updates :
                      \/ p[1][3] > p[2][3]
                      \/ p[1][3] = p[2][3] /\ p[1][2] > p[2][2]})
       ELSE {})
      \cup
      (IF c.keep_last_epochs > 0
       THEN Beyond(epochs, c.keep_last_epochs, {p \in epochs \X epochs : p[1][2] > p[2][2]})
       ELSE {})
      \cup
      (IF c.keep_best_checkpoints > 0
       THEN Beyond(bests, c.keep_best_checkpoints, {p \in bests \X bests : p[1][2] < p[2][2]})
       ELSE {})
=============================================================================
