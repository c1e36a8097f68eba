---------------------------- MODULE AudioWindow ----------------------------
(***************************************************************************)
(* The decision of websocket_server/FBK_API_server.py on which audio goes  *)
(* to the speech translation (ST) server: checkAudioAndSendToProcess and   *)
(* the slices it takes of audioBuffer.                                     *)
(*                                                                         *)
(* Time is counted in ticks, a unit that divides stStepSecs, stWindowSecs  *)
(* and the length of every chunk (half a second for the defaults 1.5 and   *)
(* 10), so a position in audioBuffer and a time are the same number.       *)
(*                                                                         *)
(* Here and in the other modules an operator preceded by a comment "Bug:"  *)
(* is a slip of the code next to the definition it would spoil; no         *)
(* specification uses it.  Each one breaks a property of some run.         *)
(***************************************************************************)
EXTENDS Integers

CONSTANTS
  stStepSecs,    \* the atomic audio unit, in ticks
  stWindowSecs   \* the longest audio the ST server is given, in ticks

ASSUME StepAssumption   == stStepSecs \in Nat \ {0}
ASSUME WindowAssumption == stWindowSecs \in Nat \ {0}

(***************************************************************************)
(* totAudioSecs is a float that a sum of chunk lengths reaches.  Its       *)
(* rounding error is far below one tick and matters only where the exact   *)
(* sum is a multiple of stStepSecs or equals stWindowSecs; there the float *)
(* may lie just below it.  short says that it does.                        *)
(***************************************************************************)

\* totAudioSecs < limit, of a sum of tot ticks
IsBelow(tot, short, limit) == tot < limit \/ (short /\ tot = limit)

\* Bug: the steps are rounded up.
WholeSteps_up(tot, short) ==
  (((IF short THEN tot - 1 ELSE tot) + stStepSecs - 1) \div stStepSecs) * stStepSecs

\* int(totAudioSecs / stStepSecs) * stStepSecs
WholeSteps(tot, short) ==
  ((IF short THEN tot - 1 ELSE tot) \div stStepSecs) * stStepSecs

\* The value of lastSentEndSec that stands for "nothing sent".
NothingSent == -1

\* Bug: nothing puts the cursor back before the first step of a session.
checkAudio_keeps(tot, short, lastSentEndSec) ==
  LET endSec == WholeSteps(tot, short)
      sends  == ~ IsBelow(tot, short, stStepSecs) /\ endSec > lastSentEndSec
  IN  [sends |-> sends, last |-> IF sends THEN endSec ELSE lastSentEndSec,
       from |-> IF IsBelow(tot, short, stWindowSecs) THEN 0 ELSE endSec - stWindowSecs,
       to |-> endSec]

\* Bug: audio already sent is not told apart.
checkAudio_resends(tot, short, lastSentEndSec) ==
  LET endSec == WholeSteps(tot, short)
      sends  == ~ IsBelow(tot, short, stStepSecs)
  IN  [sends |-> sends, last |-> IF sends THEN endSec ELSE NothingSent,
       from |-> IF IsBelow(tot, short, stWindowSecs) THEN 0 ELSE endSec - stWindowSecs,
       to |-> endSec]

\* Bug: the audio shorter than a window has no case of its own.
checkAudio_noShort(tot, short, lastSentEndSec) ==
  LET endSec == WholeSteps(tot, short)
      sends  == ~ IsBelow(tot, short, stStepSecs) /\ endSec > lastSentEndSec
  IN  [sends |-> sends,
       last |-> IF sends THEN endSec
                ELSE IF IsBelow(tot, short, stStepSecs) THEN NothingSent ELSE lastSentEndSec,
       from |-> endSec - stWindowSecs, to |-> endSec]

(***************************************************************************)
(* What one call of checkAudioAndSendToProcess decides: whether it sends,  *)
(* the new lastSentEndSec, and the bounds of the slice of audioBuffer.     *)
(***************************************************************************)
checkAudio(tot, short, lastSentEndSec) ==
  LET endSec == WholeSteps(tot, short)
      start  == IF IsBelow(tot, short, stWindowSecs)
                THEN 0 ELSE endSec - stWindowSecs
  IN  IF IsBelow(tot, short, stStepSecs)
      THEN [sends |-> FALSE, last |-> NothingSent, from |-> 0, to |-> 0]
      ELSE IF endSec <= lastSentEndSec
      THEN [sends |-> FALSE, last |-> lastSentEndSec, from |-> 0, to |-> 0]
      ELSE [sends |-> TRUE, last |-> endSec, from |-> start, to |-> endSec]

\* The index a slice bound of a Python sequence of length len stands for.
SliceIndex(len, bound) ==
  IF bound < 0 THEN IF len + bound < 0 THEN 0 ELSE len + bound
               ELSE IF bound > len THEN len ELSE bound

\* The positions, counted from 0, that buffer[from:to] selects.
SlicePositions(len, from, to) == SliceIndex(len, from) .. SliceIndex(len, to) - 1
=============================================================================
