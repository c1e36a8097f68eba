----------------------------- MODULE LossScaler -----------------------------
(***************************************************************************)
(* DynamicLossScaler of fairseq/optim/dynamic_loss_scaler.py.  The scale   *)
(* is counted in powers of scale_factor; the tolerance is a fraction.      *)
(***************************************************************************)
EXTENDS Integers

CONSTANTS
  InitScale, MinScale,  \* the first scale, and the one that stops training
  ScaleWindow,          \* updates without overflow until the scale grows
  TolNum, TolDen        \* the tolerated share of overflows, TolNum / TolDen

ASSUME ScaleAssumption ==
  /\ InitScale \in Int /\ MinScale \in Int /\ MinScale < InitScale
  /\ ScaleWindow \in Nat \ {0}
  /\ TolNum \in Nat \ {0} /\ TolDen \in Nat \ {0}

DynamicLossScaler ==
  [loss_scale |-> InitScale, iter |-> 0, last_overflow_iter |-> -1,
   last_rescale_iter |-> -1, overflows_since_rescale |-> 0]

\* Bug: the window goes on over an overflow.
update_anyWindow(s) ==
  LET grows == (s.iter + 1) % ScaleWindow = 0
  IN  [s EXCEPT !.loss_scale = IF grows THEN @ + 1 ELSE @,
                !.last_rescale_iter = IF grows THEN s.iter ELSE @,
                !.iter = @ + 1]

\* After an update.
update(s) ==
  LET grows == (s.iter - s.last_overflow_iter) % ScaleWindow = 0
  IN  [loss_scale              |-> IF grows THEN s.loss_scale + 1 ELSE s.loss_scale,
       iter                    |-> s.iter + 1,
       last_overflow_iter      |-> s.last_overflow_iter,
       last_rescale_iter       |-> IF grows THEN s.iter ELSE s.last_rescale_iter,
       overflows_since_rescale |-> s.overflows_since_rescale]

\* Are there enough overflows since the scale last changed to lower it?
Intolerable(s) ==
  (s.overflows_since_rescale + 1) * TolDen >= TolNum * (s.iter - s.last_rescale_iter)

\* Bug: the scale is compared before it is lowered.
ReachesMinimum_before(s) == s.loss_scale <= MinScale

\* check_overflow raises FloatingPointError, which ends training ...
ReachesMinimum(s) ==
  (IF Intolerable(s) THEN s.loss_scale - 1 ELSE s.loss_scale) <= MinScale

\* ... or OverflowError, which skips the update.
overflow(s) ==
  [loss_scale              |-> IF Intolerable(s) THEN s.loss_scale - 1 ELSE s.loss_scale,
   iter                    |-> s.iter + 1,
   last_overflow_iter      |-> s.iter,
   last_rescale_iter       |-> IF Intolerable(s) THEN s.iter ELSE s.last_rescale_iter,
   overflows_since_rescale |-> IF Intolerable(s) THEN 0 ELSE s.overflows_since_rescale + 1]
=============================================================================
