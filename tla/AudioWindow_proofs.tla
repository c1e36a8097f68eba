------------------------- MODULE AudioWindow_proofs -------------------------
(***************************************************************************)
(* Facts about the operators of AudioWindow, for every step and window,    *)
(* which the proofs about the sessions and about the server rest on.       *)
(***************************************************************************)
EXTENDS AudioWindow, TLAPS

USE DEF NothingSent

(***************************************************************************)
(* Whole steps.                                                            *)
(***************************************************************************)

\* The number of ticks that totAudioSecs counts as, once divided by the step.
Effective(tot, sh) == IF sh THEN tot - 1 ELSE tot

LEMMA DivBounds ==
  ASSUME NEW n \in Nat, NEW s \in Nat \ {0}
  PROVE  /\ n \div s \in Nat
         /\ (n \div s) * s <= n
         /\ n < (n \div s) * s + s
  BY Z3

LEMMA DivMonotone ==
  ASSUME NEW m \in Nat, NEW n \in Nat, m <= n, NEW s \in Nat \ {0}
  PROVE  (m \div s) * s <= (n \div s) * s
<1> DEFINE p == m \div s
           q == n \div s
<1>1. p \in Nat /\ q \in Nat /\ p * s <= m /\ n < q * s + s
  BY DivBounds
<1>2. p * s < (q + 1) * s
  BY <1>1
<1>3. p <= q
  <2> SUFFICES ASSUME q + 1 <= p PROVE FALSE
    BY <1>1
  <2> HIDE DEF p, q
  <2> (q + 1) * s <= p * s
    BY <1>1
  <2> QED
    BY <1>1, <1>2
<1> HIDE DEF p, q
<1>4. p * s <= q * s
  BY <1>1, <1>3
<1> QED
  BY <1>4 DEF p, q

LEMMA WholeStepsBounds ==
  ASSUME NEW tot \in Nat, NEW sh \in BOOLEAN, sh => tot > 0
  PROVE  /\ WholeSteps(tot, sh) \in Nat
         /\ WholeSteps(tot, sh) <= Effective(tot, sh)
         /\ Effective(tot, sh) < WholeSteps(tot, sh) + stStepSecs
<1> DEFINE e == Effective(tot, sh)
<1>1. e \in Nat
  BY DEF Effective
<1>2. WholeSteps(tot, sh) = (e \div stStepSecs) * stStepSecs
  BY DEF WholeSteps, Effective
<1> HIDE DEF e
<1>3. /\ e \div stStepSecs \in Nat
      /\ (e \div stStepSecs) * stStepSecs <= e
      /\ e < (e \div stStepSecs) * stStepSecs + stStepSecs
  BY <1>1, DivBounds, StepAssumption
<1>4. (e \div stStepSecs) * stStepSecs \in Nat
  BY <1>3, StepAssumption
<1> QED
  BY <1>2, <1>3, <1>4 DEF e

\* A sum that is not below a step counts at least one.
LEMMA AtLeastOneStep ==
  ASSUME NEW tot \in Nat, NEW sh \in BOOLEAN, ~ IsBelow(tot, sh, stStepSecs)
  PROVE  WholeSteps(tot, sh) \in Nat /\ WholeSteps(tot, sh) >= stStepSecs
<1> DEFINE e == Effective(tot, sh)
           q == e \div stStepSecs
<1>1. e \in Nat /\ e >= stStepSecs
  BY StepAssumption DEF Effective, IsBelow
<1>2. q \in Nat /\ e < q * stStepSecs + stStepSecs
  BY <1>1, DivBounds, StepAssumption
<1>3. WholeSteps(tot, sh) = q * stStepSecs
  BY DEF WholeSteps, Effective
<1> HIDE DEF e, q
<1>4. q >= 1
  <2> SUFFICES ASSUME q = 0 PROVE FALSE
    BY <1>2
  <2> QED
    BY <1>1, <1>2, StepAssumption
<1>5. q * stStepSecs \in Nat /\ q * stStepSecs >= stStepSecs
  BY <1>2, <1>4, StepAssumption
<1> QED
  BY <1>3, <1>5

\* Two different numbers of whole steps are at least one step apart.
LEMMA StepsApart ==
  ASSUME NEW tot1 \in Nat, NEW sh1 \in BOOLEAN, sh1 => tot1 > 0,
         NEW tot2 \in Nat, NEW sh2 \in BOOLEAN, sh2 => tot2 > 0,
         WholeSteps(tot1, sh1) < WholeSteps(tot2, sh2)
  PROVE  WholeSteps(tot1, sh1) + stStepSecs <= WholeSteps(tot2, sh2)
<1> DEFINE p == Effective(tot1, sh1) \div stStepSecs
           q == Effective(tot2, sh2) \div stStepSecs
<1>1. p \in Nat /\ q \in Nat
  BY DivBounds, StepAssumption DEF Effective
<1>2. WholeSteps(tot1, sh1) = p * stStepSecs /\ WholeSteps(tot2, sh2) = q * stStepSecs
  BY DEF WholeSteps, Effective
<1> HIDE DEF p, q
<1>3. p + 1 <= q
  <2> SUFFICES ASSUME q <= p PROVE FALSE
    BY <1>1
  <2> q * stStepSecs <= p * stStepSecs
    BY <1>1, StepAssumption
  <2> p * stStepSecs \in Nat /\ q * stStepSecs \in Nat
    BY <1>1, StepAssumption
  <2> QED
    BY <1>2
<1>4. (p + 1) * stStepSecs <= q * stStepSecs
  BY <1>1, <1>3, StepAssumption
<1>5. (p + 1) * stStepSecs = p * stStepSecs + stStepSecs
  BY <1>1, StepAssumption
<1> QED
  BY <1>2, <1>4, <1>5

\* A longer sum counts no fewer steps, whatever the rounding of the two.
LEMMA StepsMonotone ==
  ASSUME NEW tot1 \in Nat, NEW sh1 \in BOOLEAN, sh1 => tot1 > 0,
         NEW tot2 \in Nat, NEW sh2 \in BOOLEAN,
         tot1 < tot2
  PROVE  WholeSteps(tot1, sh1) <= WholeSteps(tot2, sh2)
<1>1. /\ Effective(tot1, sh1) \in Nat /\ Effective(tot2, sh2) \in Nat
      /\ Effective(tot1, sh1) <= Effective(tot2, sh2)
  BY DEF Effective
<1> QED
  BY <1>1, DivMonotone, StepAssumption DEF WholeSteps, Effective

LEMMA DivRemainder ==
  ASSUME NEW n \in Nat, NEW s \in Nat \ {0}
  PROVE  n % s \in Nat /\ n % s < s /\ n = ((n \div s) * s) + (n % s)
  BY Z3

LEMMA MultiplesApart ==
  ASSUME NEW p \in Nat, NEW q \in Nat, NEW s \in Nat \ {0}, p * s < q * s
  PROVE  (p * s) + s <= q * s
<1>1. p + 1 <= q
  <2> SUFFICES ASSUME q <= p PROVE FALSE
    OBVIOUS
  <2> q * s <= p * s
    OBVIOUS
  <2> p * s \in Nat /\ q * s \in Nat
    OBVIOUS
  <2> QED
    OBVIOUS
<1>2. (p + 1) * s <= q * s
  BY <1>1
<1>3. (p + 1) * s = (p * s) + s
  OBVIOUS
<1> QED
  BY <1>2, <1>3

(***************************************************************************)
(* The three outcomes of checkAudioAndSendToProcess.                       *)
(***************************************************************************)
LEMMA CheckOutcomes ==
  ASSUME NEW tot \in Nat, NEW sh \in BOOLEAN, NEW last \in Int
  PROVE  LET c == checkAudio(tot, sh, last) IN
         /\ c.sends \in BOOLEAN
         /\ IsBelow(tot, sh, stStepSecs) => ~ c.sends /\ c.last = NothingSent
         /\ (~ IsBelow(tot, sh, stStepSecs) /\ WholeSteps(tot, sh) <= last)
               => ~ c.sends /\ c.last = last
         /\ (~ IsBelow(tot, sh, stStepSecs) /\ ~ WholeSteps(tot, sh) <= last)
               => /\ c.sends
                  /\ c.last = WholeSteps(tot, sh)
                  /\ c.to = WholeSteps(tot, sh)
                  /\ c.from = IF IsBelow(tot, sh, stWindowSecs) THEN 0
                              ELSE WholeSteps(tot, sh) - stWindowSecs
<1>1. CASE IsBelow(tot, sh, stStepSecs)
  BY <1>1 DEF checkAudio
<1>2. CASE ~ IsBelow(tot, sh, stStepSecs) /\ WholeSteps(tot, sh) <= last
  BY <1>2 DEF checkAudio
<1>3. CASE ~ IsBelow(tot, sh, stStepSecs) /\ ~ WholeSteps(tot, sh) <= last
  BY <1>3 DEF checkAudio
<1> QED
  BY <1>1, <1>2, <1>3

\* What a slice within the buffer selects.
LEMMA SliceWithin ==
  ASSUME NEW len \in Nat, NEW from \in Nat, NEW to \in Nat, from <= to, to <= len
  PROVE  SlicePositions(len, from, to) = from .. to - 1
BY DEF SlicePositions, SliceIndex

LEMMA SliceInBuffer ==
  ASSUME NEW len \in Nat, NEW from \in Int, NEW to \in Int
  PROVE  SlicePositions(len, from, to) \subseteq 0 .. len - 1
BY DEF SlicePositions, SliceIndex

\* Python's slice bounds never leave the sequence.
LEMMA SliceIndexBounds ==
  ASSUME NEW len \in Nat, NEW bound \in Int
  PROVE  SliceIndex(len, bound) \in 0 .. len
  BY DEF SliceIndex

(***************************************************************************)
(* Checks one after the other.                                             *)
(***************************************************************************)

\* There is nothing to send of no audio.
LEMMA NothingToSend ==
  ASSUME NEW last \in Int
  PROVE  ~ checkAudio(0, FALSE, last).sends
<1>. DEFINE sh == FALSE
<1>1. sh \in BOOLEAN /\ IsBelow(0, sh, stStepSecs)
  BY StepAssumption DEF IsBelow
<1>. HIDE DEF sh
<1>2. ~ checkAudio(0, sh, last).sends
  BY <1>1, CheckOutcomes
<1>. QED
  BY <1>2 DEF sh

\* The same audio is not sent twice in a row, whatever the cursor was before.
LEMMA CheckedOnce ==
  ASSUME NEW tot \in Nat, NEW sh \in BOOLEAN, sh => tot > 0, NEW last \in Int
  PROVE  /\ checkAudio(tot, sh, last).last \in Int
         /\ ~ checkAudio(tot, sh, checkAudio(tot, sh, last).last).sends
<1>1. WholeSteps(tot, sh) \in Nat
  BY WholeStepsBounds
<1>2. /\ IsBelow(tot, sh, stStepSecs) => checkAudio(tot, sh, last).last = NothingSent
      /\ ~ IsBelow(tot, sh, stStepSecs) =>
           /\ checkAudio(tot, sh, last).last \in Int
           /\ WholeSteps(tot, sh) <= checkAudio(tot, sh, last).last
  <2>1. CASE IsBelow(tot, sh, stStepSecs)
    BY <2>1, CheckOutcomes
  <2>2. CASE ~ IsBelow(tot, sh, stStepSecs) /\ WholeSteps(tot, sh) <= last
    <3>1. checkAudio(tot, sh, last).last = last
      BY <2>2, CheckOutcomes
    <3>. QED
      BY <2>2, <3>1
  <2>3. CASE ~ IsBelow(tot, sh, stStepSecs) /\ ~ WholeSteps(tot, sh) <= last
    <3>1. checkAudio(tot, sh, last).last = WholeSteps(tot, sh)
      BY <2>3, CheckOutcomes
    <3>. QED
      BY <1>1, <2>3, <3>1
  <2>. QED
    BY <2>1, <2>2, <2>3
<1>. DEFINE after == checkAudio(tot, sh, last).last
<1>3. after \in Int
  BY <1>2
<1>. HIDE DEF after
<1>4. ~ checkAudio(tot, sh, after).sends
  BY <1>2, <1>3, CheckOutcomes DEF after
<1>. QED
  BY <1>3, <1>4 DEF after

\* When audio grows by single ticks and every tick is checked, what is sent
\* ends where the audio ends.
LEMMA SentAtTheEnd ==
  ASSUME NEW tot \in Nat, NEW sh \in BOOLEAN, ~ sh, NEW last \in Int,
         ~ checkAudio(tot, sh, last).sends,
         checkAudio(tot + 1, sh, last).sends
  PROVE  /\ checkAudio(tot + 1, sh, last).to = tot + 1
         /\ checkAudio(tot + 1, sh, last).from \in 0 .. tot
<1>. DEFINE next   == tot + 1
            before == WholeSteps(tot, sh)
            after  == WholeSteps(next, sh)
<1>1. next \in Nat /\ next = tot + 1
  OBVIOUS
<1>. HIDE DEF next
<1>2. ~ IsBelow(next, sh, stStepSecs) /\ ~ after <= last
  BY <1>1, CheckOutcomes
<1>3. /\ checkAudio(next, sh, last).to = after
      /\ checkAudio(next, sh, last).from =
           IF IsBelow(next, sh, stWindowSecs) THEN 0 ELSE after - stWindowSecs
  BY <1>1, <1>2, CheckOutcomes
<1>4. after \in Nat /\ after <= next
  BY <1>1, WholeStepsBounds DEF Effective
<1>5. stStepSecs \in Nat /\ stStepSecs > 0 /\ stWindowSecs \in Nat /\ stWindowSecs > 0
  BY StepAssumption, WindowAssumption
<1>6. after = next
  <2>1. CASE IsBelow(tot, sh, stStepSecs)
    <3>1. next = stStepSecs
      BY <1>1, <1>2, <1>5, <2>1 DEF IsBelow
    <3>2. after >= stStepSecs
      BY <1>1, <1>2, AtLeastOneStep
    <3>. HIDE DEF after
    <3>. QED
      BY <1>1, <1>4, <1>5, <3>1, <3>2
  <2>2. CASE ~ IsBelow(tot, sh, stStepSecs)
    <3>1. before <= last
      BY <2>2, CheckOutcomes
    <3>2. before \in Nat /\ tot < before + stStepSecs
      BY WholeStepsBounds DEF Effective
    <3>3. before < after
      <4>. HIDE DEF before, after
      <4>. QED
        BY <1>2, <1>4, <3>1, <3>2
    <3>4. before + stStepSecs <= after
      BY <1>1, <3>3, StepsApart
    <3>. HIDE DEF before, after
    <3>. QED
      BY <1>1, <1>4, <1>5, <3>2, <3>4
  <2>. QED
    BY <2>1, <2>2
<1>7. checkAudio(next, sh, last).to = next /\ checkAudio(next, sh, last).from \in 0 .. tot
  <2>. HIDE DEF after
  <2>. QED
    BY <1>1, <1>3, <1>5, <1>6 DEF IsBelow
<1>. QED
  BY <1>7 DEF next
=============================================================================
