------------------------ MODULE AudioSession_proofs ------------------------
(***************************************************************************)
(* Theorems of AudioSession, for every step, window, set of chunk lengths  *)
(* and bound: the types of the globals, the cursor, the slices and the     *)
(* absence of gaps.                                                        *)
(***************************************************************************)
EXTENDS AudioSession, AudioWindow_proofs

USE DEF NothingSent, NoRequest

-----------------------------------------------------------------------------
(***************************************************************************)
(* Type correctness.  The bound of lastSentEndSec needs that audioBuffer   *)
(* and totAudioSecs never part.                                            *)
(***************************************************************************)
TypeInv ==
  /\ TypeOK
  /\ audioBuffer = totAudioSecs
  /\ short => Rounding /\ totAudioSecs > 0

\* The cursor that a check leaves is in the range of the sum it checked.
LEMMA CheckTypes ==
  ASSUME NEW h \in {"chunk", "end"}, NEW tot \in 0 .. MaxTicks, NEW sh \in BOOLEAN,
         sh => tot > 0,
         TypeOK, Check(h, tot, sh)
  PROVE  /\ lastSentEndSec' \in -1 .. MaxTicks
         /\ request' \in [from : Int, to : Int]
         /\ handler' \in {"recv", "chunk", "end"}
<1> DEFINE c == checkAudio(tot, sh, lastSentEndSec)
<1>1. tot \in Nat /\ MaxTicks \in Nat /\ lastSentEndSec \in Int
  BY MaxTicksAssumption DEF TypeOK
<1>2. WholeSteps(tot, sh) \in 0 .. MaxTicks
  BY <1>1, WholeStepsBounds DEF Effective
<1>3. /\ c.sends \in BOOLEAN
      /\ c.last \in {NothingSent, lastSentEndSec, WholeSteps(tot, sh)}
      /\ c.sends => /\ c.to = WholeSteps(tot, sh)
                    /\ c.from \in {0, WholeSteps(tot, sh) - stWindowSecs}
  BY <1>1, CheckOutcomes, Zenon
<1>4. c.last \in -1 .. MaxTicks
  BY <1>1, <1>2, <1>3 DEF TypeOK
<1> HIDE DEF c
<1>5. c.sends => c.from \in Int /\ c.to \in Int
  BY <1>1, <1>2, <1>3, WindowAssumption
<1>6. /\ lastSentEndSec' = c.last
      /\ IF c.sends THEN request' = [from |-> c.from, to |-> c.to] /\ handler' = h
                    ELSE UNCHANGED <<request, handler>>
  BY DEF Check, c
<1> QED
  BY <1>3, <1>4, <1>5, <1>6 DEF TypeOK

\* The end of a session leaves the empty values.
LEMMA EndSessionTypes ==
  ASSUME EndSession
  PROVE  /\ started' \in BOOLEAN /\ short' \in BOOLEAN /\ ~ short' /\ ~ started'
         /\ audioBuffer' = 0 /\ totAudioSecs' = 0 /\ heard' = {}
BY Zenon DEF EndSession

LEMMA TypeInductive ==
  ASSUME TypeInv, [Next]_vars
  PROVE  TypeInv'
<1> USE MaxTicksAssumption, RoundingAssumption, ChunkAssumption DEF TypeInv
<1>1. CASE Connect
  BY <1>1 DEF Connect, TypeOK
<1>2. CASE Start
  <2>1. /\ started' \in BOOLEAN /\ short' \in BOOLEAN /\ ~ short'
        /\ heard' \subseteq 0 .. MaxTicks - 1
    BY <1>2, Zenon DEF Start
  <2>2. audioBuffer' \in 0 .. MaxTicks /\ audioBuffer' = totAudioSecs'
    BY <1>2 DEF Start
  <2>3. UNCHANGED <<connected, handler, lastSentEndSec, request>>
    BY <1>2 DEF Start
  <2> QED
    BY <2>1, <2>2, <2>3 DEF TypeOK
<1>3. ASSUME NEW d \in ChunkSizes, Chunk(d)
      PROVE  TypeInv'
  <2>1. /\ totAudioSecs' \in 0 .. MaxTicks /\ totAudioSecs' > 0
        /\ audioBuffer' = totAudioSecs'
    BY <1>3 DEF Chunk, TypeOK
  <2>3. short' \in BOOLEAN /\ (short' => Rounding)
    <3>1. short' \in IF Rounding THEN BOOLEAN ELSE {FALSE}
      BY <1>3 DEF Chunk
    <3> QED
      BY <3>1, Zenon
  <2>2. /\ lastSentEndSec' \in -1 .. MaxTicks
        /\ request' \in [from : Int, to : Int]
        /\ handler' \in {"recv", "chunk", "end"}
    BY <1>3, <2>1, <2>3, CheckTypes DEF Chunk
  <2> QED
    BY <1>3, <2>1, <2>2, <2>3 DEF Chunk, TypeOK
<1>4. CASE End
  <2>1. /\ lastSentEndSec' \in -1 .. MaxTicks
        /\ request' \in [from : Int, to : Int]
        /\ handler' \in {"recv", "chunk", "end"}
    BY <1>4, CheckTypes DEF End, TypeOK
  <2>2. CASE handler' = "end"
    BY <1>4, <2>1, <2>2 DEF End, TypeOK
  <2>3. CASE handler' # "end"
    <3>1. EndSession /\ UNCHANGED connected
      BY <1>4, <2>3 DEF End
    <3> QED
      BY <2>1, <3>1, EndSessionTypes DEF TypeOK
  <2> QED
    BY <2>2, <2>3
<1>5. ASSUME NEW outcome \in Outcomes, Reply(outcome)
      PROVE  TypeInv'
  <2>1. Requested \subseteq 0 .. MaxTicks - 1
    BY SliceInBuffer DEF Requested, TypeOK
  <2>2. outcome \in {"result", "gone", "error", "eof"}
    BY OutcomesAssumption
  <2>3. CASE outcome = "result"
    <3>1. /\ handler' = "recv" /\ request' = NoRequest
          /\ UNCHANGED <<connected, lastSentEndSec>>
      BY <1>5, <2>3 DEF Reply
    <3>2. CASE handler = "end"
      <4>1. EndSession
        BY <1>5, <2>3, <3>2 DEF Reply
      <4> QED
        BY <3>1, <4>1, EndSessionTypes DEF TypeOK
    <3>3. CASE handler # "end"
      BY <1>5, <2>1, <2>3, <3>1, <3>3 DEF Reply, TypeOK
    <3> QED
      BY <3>2, <3>3
  <2>4. CASE outcome \in {"gone", "error"}
    <3>1. /\ handler' = "recv" /\ request' = NoRequest
          /\ connected' = FALSE /\ started' = FALSE
          /\ UNCHANGED <<audioBuffer, totAudioSecs, short, heard, lastSentEndSec>>
      BY <1>5, <2>4 DEF Reply
    <3>2. connected' \in BOOLEAN /\ started' \in BOOLEAN
      BY <3>1, Zenon
    <3> QED
      BY <3>1, <3>2 DEF TypeOK
  <2>5. CASE outcome = "eof"
    BY <1>5, <2>5 DEF Reply, TypeOK
  <2> QED
    BY <2>2, <2>3, <2>4, <2>5
<1>6. CASE Drop
  BY <1>6 DEF Drop, TypeOK
<1>7. CASE UNCHANGED vars
  BY <1>7 DEF vars, TypeOK
<1> QED
  BY <1>1, <1>2, <1>3, <1>4, <1>5, <1>6, <1>7 DEF Next

LEMMA InitTypes ==
  ASSUME Init
  PROVE  TypeInv
<1>1. /\ connected \in BOOLEAN /\ started \in BOOLEAN
      /\ short \in BOOLEAN /\ ~ short
  BY Zenon DEF Init
<1>2. /\ handler = "recv" /\ audioBuffer = 0 /\ totAudioSecs = 0
      /\ lastSentEndSec = NothingSent /\ request = NoRequest /\ heard = {}
  BY DEF Init
<1> QED
  BY <1>1, <1>2, MaxTicksAssumption DEF TypeInv, TypeOK

LEMMA TypeInvariant == Spec => []TypeInv
  BY InitTypes, TypeInductive, PTL DEF Spec

\* Every global stays in its range, whatever the chunks, the outcomes of the
\* requests and the order of the messages.
THEOREM TypeCorrect == Spec => []TypeOK
<1>1. TypeInv => TypeOK
  BY DEF TypeInv
<1> QED
  BY <1>1, TypeInvariant, PTL

-----------------------------------------------------------------------------
(***************************************************************************)
(* The cursor.  A chunk shorter than a step cannot pass the first step of  *)
(* a session at once, so the check of the first chunk always takes its     *)
(* first branch, which throws away what earlier sessions left.             *)
(***************************************************************************)
CursorInv ==
  /\ TypeInv
  /\ CaughtUp
  /\ handler # "end"
  /\ handler # "recv" => connected /\ started /\ totAudioSecs > 0

\* Before a check that follows a chunk, the cursor is not ahead of the sum.
LEMMA CursorNotAhead ==
  ASSUME ShortChunks, CursorInv, started,
         NEW d \in ChunkSizes, NEW sh \in BOOLEAN,
         ~ IsBelow(totAudioSecs + d, sh, stStepSecs)
  PROVE  lastSentEndSec <= WholeSteps(totAudioSecs + d, sh)
<1> DEFINE tot == totAudioSecs + d
<1>1. /\ totAudioSecs \in Nat /\ d \in Nat /\ d > 0 /\ d < stStepSecs
      /\ short \in BOOLEAN /\ (short => totAudioSecs > 0) /\ stStepSecs \in Nat
  BY MaxTicksAssumption, ChunkAssumption, StepAssumption
     DEF CursorInv, TypeInv, TypeOK, ShortChunks
<1>2. totAudioSecs > 0
  BY <1>1 DEF IsBelow
<1>3. CASE lastSentEndSec = NothingSent
  <2>1. WholeSteps(tot, sh) \in Nat
    BY <1>1, AtLeastOneStep
  <2> QED
    BY <1>3, <2>1
<1>4. CASE lastSentEndSec = WholeSteps(totAudioSecs, short)
  BY <1>1, <1>4, StepsMonotone
<1> QED
  BY <1>2, <1>3, <1>4 DEF CursorInv, CaughtUp

\* A check brings a cursor that is not ahead to its place.
LEMMA CheckCatchesUp ==
  ASSUME NEW h \in {"chunk", "end"}, NEW tot \in Nat, NEW sh \in BOOLEAN,
         sh => tot > 0, lastSentEndSec \in Int,
         ~ IsBelow(tot, sh, stStepSecs) => lastSentEndSec <= WholeSteps(tot, sh),
         Check(h, tot, sh)
  PROVE  lastSentEndSec' = IF IsBelow(tot, sh, stStepSecs)
                           THEN NothingSent ELSE WholeSteps(tot, sh)
<1>1. WholeSteps(tot, sh) \in Nat
  BY WholeStepsBounds
<1>2. lastSentEndSec' = checkAudio(tot, sh, lastSentEndSec).last
  BY DEF Check
<1>3. CASE IsBelow(tot, sh, stStepSecs)
  BY <1>2, <1>3, CheckOutcomes
<1>4. CASE ~ IsBelow(tot, sh, stStepSecs) /\ WholeSteps(tot, sh) <= lastSentEndSec
  <2>1. checkAudio(tot, sh, lastSentEndSec).last = lastSentEndSec
    BY <1>4, CheckOutcomes
  <2> QED
    BY <1>1, <1>2, <1>4, <2>1
<1>5. CASE ~ IsBelow(tot, sh, stStepSecs) /\ ~ WholeSteps(tot, sh) <= lastSentEndSec
  BY <1>2, <1>5, CheckOutcomes
<1> QED
  BY <1>3, <1>4, <1>5

\* What CaughtUp says before the check of "end".
LEMMA EndFindsNothing ==
  ASSUME CursorInv, started
  PROVE  ~ checkAudio(totAudioSecs, short, lastSentEndSec).sends
<1>1. /\ totAudioSecs \in Nat /\ short \in BOOLEAN /\ lastSentEndSec \in Int
      /\ (short => totAudioSecs > 0)
  BY MaxTicksAssumption DEF CursorInv, TypeInv, TypeOK
<1>2. CASE IsBelow(totAudioSecs, short, stStepSecs)
  BY <1>1, <1>2, CheckOutcomes
<1>3. CASE ~ IsBelow(totAudioSecs, short, stStepSecs)
  <2>1. totAudioSecs > 0
    BY <1>1, <1>3, StepAssumption DEF IsBelow
  <2>2. lastSentEndSec = WholeSteps(totAudioSecs, short)
    BY <1>3, <2>1 DEF CursorInv, CaughtUp
  <2> QED
    BY <1>1, <1>3, <2>2, CheckOutcomes
<1> QED
  BY <1>2, <1>3

LEMMA CursorInductive ==
  ASSUME ShortChunks, CursorInv, [Next]_vars
  PROVE  CursorInv'
<1>1. TypeInv'
  BY TypeInductive DEF CursorInv
<1>2. CASE Connect
  BY <1>1, <1>2 DEF CursorInv, CaughtUp, Connect
<1>3. CASE Start
  BY <1>1, <1>3 DEF CursorInv, CaughtUp, Start
<1>4. ASSUME NEW d \in ChunkSizes, Chunk(d)
      PROVE  CursorInv'
  <2>1. /\ started /\ started' /\ connected' /\ handler = "recv"
        /\ totAudioSecs' = totAudioSecs + d
        /\ Check("chunk", totAudioSecs', short')
    BY <1>4 DEF Chunk
  <2>2. /\ totAudioSecs' \in Nat /\ short' \in BOOLEAN /\ (short' => totAudioSecs' > 0)
        /\ lastSentEndSec \in Int /\ totAudioSecs \in Nat /\ d \in Nat \ {0}
    BY <1>1, MaxTicksAssumption, ChunkAssumption DEF CursorInv, TypeInv, TypeOK
  <2>3. ~ IsBelow(totAudioSecs', short', stStepSecs)
          => lastSentEndSec <= WholeSteps(totAudioSecs', short')
    BY <2>1, <2>2, CursorNotAhead
  <2>4. CaughtUp'
    BY <2>1, <2>2, <2>3, CheckCatchesUp DEF CaughtUp
  <2>5. handler' \in {"recv", "chunk"}
    BY <2>1 DEF Check
  <2> QED
    BY <1>1, <2>1, <2>2, <2>4, <2>5 DEF CursorInv
<1>5. CASE End
  <2>1. ~ checkAudio(totAudioSecs, short, lastSentEndSec).sends
    BY <1>5, EndFindsNothing DEF End
  <2>2. handler' = "recv"
    BY <1>5, <2>1 DEF End, Check
  <2>3. EndSession
    BY <1>5, <2>2 DEF End
  <2> QED
    BY <1>1, <2>2, <2>3 DEF CursorInv, CaughtUp, EndSession
<1>6. ASSUME NEW outcome \in Outcomes, Reply(outcome)
      PROVE  CursorInv'
  <2>1. handler # "end" /\ handler' = "recv" /\ UNCHANGED lastSentEndSec
    BY <1>6 DEF CursorInv, Reply
  <2>2. outcome \in {"result", "gone", "error", "eof"}
    BY OutcomesAssumption
  <2>3. UNCHANGED <<totAudioSecs, short>> /\ (started' => started)
    BY <1>6, <2>1, <2>2 DEF Reply
  <2> QED
    BY <1>1, <2>1, <2>3 DEF CursorInv, CaughtUp
<1>7. CASE Drop
  BY <1>1, <1>7 DEF CursorInv, CaughtUp, Drop
<1>8. CASE UNCHANGED vars
  BY <1>1, <1>8 DEF CursorInv, CaughtUp, vars
<1> QED
  BY <1>2, <1>3, <1>4, <1>5, <1>6, <1>7, <1>8 DEF Next

LEMMA CursorInvariant ==
  ASSUME ShortChunks
  PROVE  Spec => []CursorInv
<1>1. Init => CursorInv
  BY InitTypes DEF Init, CursorInv, CaughtUp
<1>2. CursorInv /\ [Next]_vars => CursorInv'
  BY CursorInductive
<1> QED
  BY <1>1, <1>2, PTL DEF Spec

\* Between two messages the cursor is at the last whole step of the session's
\* audio, also after sessions that were not ended and after handlers that died.
THEOREM CursorCorrect ==
  ASSUME ShortChunks
  PROVE  Spec => []CaughtUp
<1>1. CursorInv => CaughtUp
  BY DEF CursorInv
<1> QED
  BY <1>1, CursorInvariant, PTL

-----------------------------------------------------------------------------
(***************************************************************************)
(* The slices.  What has to be shown is that a request made with a window  *)
(* or more of audio ends a window or more from the start: the sum cannot   *)
(* reach the window from below the last whole step under it.               *)
(***************************************************************************)

\* How much audio a cursor below a whole step `base` leaves room for.
LEMMA CursorBelow ==
  ASSUME CursorInv, started, NEW p \in Nat,
         lastSentEndSec < p * stStepSecs, p > 0
  PROVE  totAudioSecs < p * stStepSecs \/ (short /\ totAudioSecs <= p * stStepSecs)
<1> DEFINE base == p * stStepSecs
           e == Effective(totAudioSecs, short)
           q == e \div stStepSecs
<1>1. base \in Nat /\ base >= stStepSecs /\ stStepSecs \in Nat \ {0}
  BY StepAssumption
<1>2. /\ totAudioSecs \in Nat /\ short \in BOOLEAN /\ (short => totAudioSecs > 0)
      /\ e \in Nat
  BY MaxTicksAssumption DEF CursorInv, TypeInv, TypeOK, Effective
<1>3. CASE totAudioSecs = 0
  BY <1>1, <1>3
<1>4. CASE totAudioSecs > 0 /\ IsBelow(totAudioSecs, short, stStepSecs)
  BY <1>1, <1>2, <1>4 DEF IsBelow
<1>5. CASE totAudioSecs > 0 /\ ~ IsBelow(totAudioSecs, short, stStepSecs)
  <2>1. lastSentEndSec = q * stStepSecs
    BY <1>5 DEF CursorInv, CaughtUp, WholeSteps, Effective
  <2>2. q \in Nat /\ e < (q * stStepSecs) + stStepSecs
    BY <1>1, <1>2, DivBounds
  <2> HIDE DEF q
  <2>3. (q * stStepSecs) + stStepSecs <= p * stStepSecs
    BY <1>1, <2>1, <2>2, MultiplesApart
  <2>4. q * stStepSecs \in Nat
    BY <1>1, <2>2
  <2>5. e < base
    BY <1>1, <1>2, <2>2, <2>3, <2>4
  <2> QED
    BY <1>1, <1>2, <2>5 DEF Effective
<1> QED
  BY <1>2, <1>3, <1>4, <1>5

LEMMA WindowFits ==
  ASSUME ShortChunks, GapFits, CursorInv, started,
         NEW d \in ChunkSizes, NEW sh \in BOOLEAN, sh => Rounding,
         ~ IsBelow(totAudioSecs + d, sh, stStepSecs),
         ~ IsBelow(totAudioSecs + d, sh, stWindowSecs),
         lastSentEndSec < WholeSteps(totAudioSecs + d, sh)
  PROVE  stWindowSecs <= WholeSteps(totAudioSecs + d, sh)
<1> DEFINE tot == totAudioSecs + d
           e == Effective(tot, sh)
           q == e \div stStepSecs
           p == stWindowSecs \div stStepSecs
           r == stWindowSecs % stStepSecs
<1>1. /\ totAudioSecs \in Nat /\ d \in Nat \ {0} /\ stStepSecs \in Nat \ {0}
      /\ stWindowSecs \in Nat \ {0} /\ lastSentEndSec \in Int
      /\ short \in BOOLEAN /\ (short => Rounding)
  BY MaxTicksAssumption, ChunkAssumption, StepAssumption, WindowAssumption
     DEF CursorInv, TypeInv, TypeOK
<1>2. /\ p \in Nat /\ r \in Nat /\ r < stStepSecs
      /\ stWindowSecs = (p * stStepSecs) + r
  BY <1>1, DivBounds, DivRemainder
<1>3. e \in Nat /\ stWindowSecs <= e /\ tot >= stWindowSecs
  BY <1>1 DEF Effective, IsBelow
<1>4. /\ q \in Nat /\ WholeSteps(tot, sh) = q * stStepSecs
      /\ p * stStepSecs <= q * stStepSecs
  BY <1>1, <1>3, DivBounds, DivMonotone DEF WholeSteps, Effective
<1>5. q * stStepSecs \in Nat /\ p * stStepSecs \in Nat /\ stStepSecs <= q * stStepSecs
  BY <1>1, <1>2, <1>4, AtLeastOneStep
<1> HIDE DEF p, q, r, e
<1>6. CASE r = 0
  BY <1>2, <1>4, <1>5, <1>6
<1>7. CASE r # 0
  <2> SUFFICES ASSUME q * stStepSecs < stWindowSecs PROVE FALSE
    BY <1>1, <1>4, <1>5
  <2>1. q * stStepSecs = p * stStepSecs
    <3>1. CASE p * stStepSecs < q * stStepSecs
      <4>1. (p * stStepSecs) + stStepSecs <= q * stStepSecs
        BY <1>1, <1>2, <1>4, <3>1, MultiplesApart
      <4> QED
        BY <1>1, <1>2, <1>5, <4>1
    <3> QED
      BY <1>4, <1>5, <3>1
  <2>2. lastSentEndSec < p * stStepSecs /\ p > 0
    <3>1. p # 0
      BY <1>1, <1>5, <2>1
    <3> QED
      BY <1>2, <1>4, <2>1, <3>1
  <2>3. \/ totAudioSecs < p * stStepSecs
        \/ short /\ totAudioSecs <= p * stStepSecs
    BY <1>2, <2>2, CursorBelow
  <2>4. IF Rounding THEN d < r ELSE d <= r
    BY <1>7 DEF GapFits, r
  <2>5. CASE Rounding
    BY <1>1, <1>2, <1>3, <1>5, <2>3, <2>4, <2>5
  <2>6. CASE ~ Rounding
    BY <1>1, <1>2, <1>3, <1>5, <2>3, <2>4, <2>6
  <2> QED
    BY <2>5, <2>6
<1> QED
  BY <1>6, <1>7

SliceInv ==
  /\ CursorInv
  /\ RequestWellFormed

\* The request that a chunk's check makes, if it makes one.
LEMMA ChunkRequest ==
  ASSUME ShortChunks, GapFits, CursorInv, CursorInv',
         NEW d \in ChunkSizes, Chunk(d), handler' # "recv"
  PROVE  /\ RequestWellFormed'
         /\ lastSentEndSec < lastSentEndSec'
         /\ request'.to = WholeSteps(totAudioSecs', short')
         /\ ~ IsBelow(totAudioSecs', short', stStepSecs)
         /\ request'.from = IF IsBelow(totAudioSecs', short', stWindowSecs)
                            THEN 0 ELSE request'.to - stWindowSecs
<1> DEFINE tot == totAudioSecs'
           sh == short'
           last == lastSentEndSec
           c == checkAudio(tot, sh, last)
<1>1. /\ tot \in Nat /\ sh \in BOOLEAN /\ (sh => tot > 0 /\ Rounding) /\ last \in Int
      /\ stWindowSecs \in Nat \ {0} /\ stStepSecs \in Nat \ {0} /\ audioBuffer' = tot
  BY MaxTicksAssumption, WindowAssumption, StepAssumption DEF CursorInv, TypeInv, TypeOK
<1>2. /\ started /\ handler = "recv" /\ totAudioSecs' = totAudioSecs + d
      /\ lastSentEndSec' = c.last
      /\ IF c.sends THEN request' = [from |-> c.from, to |-> c.to] /\ handler' = "chunk"
                    ELSE UNCHANGED <<request, handler>>
  BY DEF Chunk, Check
<1>3. c.sends
  BY <1>2
<1>4. /\ ~ IsBelow(tot, sh, stStepSecs)
      /\ ~ WholeSteps(tot, sh) <= last
      /\ c.last = WholeSteps(tot, sh)
      /\ c.to = WholeSteps(tot, sh)
      /\ c.from = IF IsBelow(tot, sh, stWindowSecs) THEN 0
                  ELSE WholeSteps(tot, sh) - stWindowSecs
  BY <1>1, <1>3, CheckOutcomes, Zenon
<1> HIDE DEF c
<1>5. request'.from = c.from /\ request'.to = c.to
  BY <1>2, <1>3
<1>6. /\ WholeSteps(tot, sh) \in Nat /\ WholeSteps(tot, sh) >= stStepSecs
      /\ WholeSteps(tot, sh) <= Effective(tot, sh)
  BY <1>1, <1>4, AtLeastOneStep, WholeStepsBounds
<1>7. last < WholeSteps(tot, sh)
  BY <1>1, <1>4, <1>6
<1>8. RequestWellFormed'
  <2>1. request'.to = lastSentEndSec' /\ request'.to <= audioBuffer'
    BY <1>1, <1>2, <1>4, <1>5, <1>6 DEF Effective
  <2>2. CASE IsBelow(tot, sh, stWindowSecs)
    <3>1. request'.from = 0 /\ request'.to > 0 /\ request'.to <= stWindowSecs
      BY <1>1, <1>4, <1>5, <1>6, <2>2 DEF IsBelow, Effective
    <3> QED
      BY <2>1, <3>1 DEF RequestWellFormed
  <2>3. CASE ~ IsBelow(tot, sh, stWindowSecs)
    <3>1. stWindowSecs <= WholeSteps(tot, sh)
      BY <1>1, <1>2, <1>4, <1>7, <2>3, WindowFits
    <3>2. /\ request'.from = request'.to - stWindowSecs
          /\ request'.from \in Nat /\ request'.to \in Nat
      BY <1>1, <1>4, <1>5, <1>6, <2>3, <3>1
    <3> QED
      BY <1>1, <2>1, <3>2 DEF RequestWellFormed
  <2> QED
    BY <2>2, <2>3
<1> QED
  BY <1>2, <1>4, <1>5, <1>7, <1>8

LEMMA SliceInductive ==
  ASSUME ShortChunks, GapFits, SliceInv, [Next]_vars
  PROVE  SliceInv'
<1>1. CursorInv /\ CursorInv'
  BY CursorInductive DEF SliceInv
<1>2. CASE Connect
  BY <1>1, <1>2 DEF SliceInv, RequestWellFormed, Connect
<1>3. CASE Start
  BY <1>1, <1>3 DEF SliceInv, RequestWellFormed, Start
<1>4. ASSUME NEW d \in ChunkSizes, Chunk(d)
      PROVE  SliceInv'
  <2>1. CASE handler' = "recv"
    BY <1>1, <2>1 DEF SliceInv, RequestWellFormed
  <2>2. CASE handler' # "recv"
    BY <1>1, <1>4, <2>2, ChunkRequest DEF SliceInv
  <2> QED
    BY <2>1, <2>2
<1>5. CASE End
  <2>1. handler' = "recv"
    BY <1>1, <1>5, EndFindsNothing DEF End, Check
  <2> QED
    BY <1>1, <2>1 DEF SliceInv, RequestWellFormed
<1>6. ASSUME NEW outcome \in Outcomes, Reply(outcome)
      PROVE  SliceInv'
  BY <1>1, <1>6 DEF SliceInv, RequestWellFormed, Reply
<1>7. CASE Drop
  BY <1>1, <1>7 DEF SliceInv, RequestWellFormed, Drop
<1>8. CASE UNCHANGED vars
  BY <1>1, <1>8 DEF SliceInv, RequestWellFormed, vars
<1> QED
  BY <1>2, <1>3, <1>4, <1>5, <1>6, <1>7, <1>8 DEF Next

LEMMA SliceInvariant ==
  ASSUME ShortChunks, GapFits
  PROVE  Spec => []SliceInv
<1>1. Init => SliceInv
  BY InitTypes DEF Init, SliceInv, CursorInv, CaughtUp, RequestWellFormed
<1>2. SliceInv /\ [Next]_vars => SliceInv'
  BY SliceInductive
<1> QED
  BY <1>1, <1>2, PTL DEF Spec

\* No request has an index outside audioBuffer, none is empty, and each one
\* holds all the audio or exactly a window of it, up to the cursor.
THEOREM SlicesCorrect ==
  ASSUME ShortChunks, GapFits
  PROVE  Spec => []RequestWellFormed
<1>1. SliceInv => RequestWellFormed
  BY DEF SliceInv
<1> QED
  BY <1>1, SliceInvariant, PTL

-----------------------------------------------------------------------------
(***************************************************************************)
(* No gaps.  The audio a client has results of ends at the cursor, and a   *)
(* window reaches back to it.                                              *)
(***************************************************************************)
HeardInv ==
  /\ SliceInv
  /\ started => \A i \in heard : totAudioSecs > 0 /\ i < lastSentEndSec

\* The window of a chunk's request begins no later than the old cursor.
LEMMA WindowReachesBack ==
  ASSUME ShortChunks, GapFits, WindowsMeet, CursorInv, CursorInv',
         NEW d \in ChunkSizes, Chunk(d), handler' # "recv"
  PROVE  \/ request'.from <= 0
         \/ totAudioSecs > 0 /\ request'.from <= lastSentEndSec
<1>1. /\ totAudioSecs \in Nat /\ d \in Nat \ {0} /\ stStepSecs \in Nat \ {0}
      /\ stWindowSecs \in Nat \ {0} /\ short \in BOOLEAN /\ short' \in BOOLEAN
      /\ (short => totAudioSecs > 0) /\ d + stStepSecs <= stWindowSecs
      /\ totAudioSecs' \in Nat /\ (short' => totAudioSecs' > 0)
  BY MaxTicksAssumption, ChunkAssumption, WindowAssumption, StepAssumption
     DEF CursorInv, TypeInv, TypeOK, WindowsMeet
<1>2. started /\ totAudioSecs' = totAudioSecs + d
  BY DEF Chunk
<1>3. /\ request'.to = WholeSteps(totAudioSecs', short')
      /\ request'.from = IF IsBelow(totAudioSecs', short', stWindowSecs)
                         THEN 0 ELSE request'.to - stWindowSecs
  BY ChunkRequest
<1>4. request'.to \in Nat /\ request'.to <= totAudioSecs + d
  BY <1>1, <1>2, <1>3, WholeStepsBounds DEF Effective
<1>5. CASE IsBelow(totAudioSecs', short', stWindowSecs)
  BY <1>3, <1>5
<1>6. CASE ~ IsBelow(totAudioSecs', short', stWindowSecs)
  <2>1. request'.from <= (totAudioSecs + d) - stWindowSecs
    BY <1>1, <1>3, <1>4, <1>6
  <2>2. CASE totAudioSecs <= stStepSecs
    BY <1>1, <1>3, <1>4, <1>6, <2>1, <2>2
  <2>3. CASE totAudioSecs > stStepSecs
    <3>1. ~ IsBelow(totAudioSecs, short, stStepSecs)
      BY <1>1, <2>3 DEF IsBelow
    <3>2. lastSentEndSec = WholeSteps(totAudioSecs, short)
      BY <1>1, <1>2, <2>3, <3>1 DEF CursorInv, CaughtUp
    <3>3. lastSentEndSec \in Nat /\ totAudioSecs <= lastSentEndSec + stStepSecs
      BY <1>1, <3>2, WholeStepsBounds DEF Effective
    <3> QED
      BY <1>1, <1>3, <1>4, <1>6, <2>1, <2>3, <3>3
  <2> QED
    BY <1>1, <2>2, <2>3
<1> QED
  BY <1>5, <1>6

\* A new cursor is at least a step beyond the old one.
LEMMA CursorMovesByAStep ==
  ASSUME ShortChunks, GapFits, CursorInv, CursorInv',
         NEW d \in ChunkSizes, Chunk(d), handler' # "recv", totAudioSecs > 0
  PROVE  lastSentEndSec <= lastSentEndSec' - stStepSecs
<1>1. /\ totAudioSecs \in Nat /\ stStepSecs \in Nat \ {0} /\ short \in BOOLEAN
      /\ short' \in BOOLEAN /\ (short => totAudioSecs > 0) /\ started
      /\ totAudioSecs' \in Nat /\ (short' => totAudioSecs' > 0)
  BY MaxTicksAssumption, StepAssumption DEF CursorInv, TypeInv, TypeOK, Chunk
<1>2. /\ lastSentEndSec < lastSentEndSec'
      /\ lastSentEndSec' = WholeSteps(totAudioSecs', short')
      /\ ~ IsBelow(totAudioSecs', short', stStepSecs)
  BY ChunkRequest DEF RequestWellFormed
<1>3. CASE lastSentEndSec = NothingSent
  BY <1>1, <1>2, <1>3, AtLeastOneStep
<1>4. CASE lastSentEndSec = WholeSteps(totAudioSecs, short)
  <2>1. /\ WholeSteps(totAudioSecs, short) \in Nat
        /\ WholeSteps(totAudioSecs', short') \in Nat
    BY <1>1, WholeStepsBounds
  <2> QED
    BY <1>1, <1>2, <1>4, <2>1, StepsApart
<1> QED
  BY <1>1, <1>3, <1>4 DEF CursorInv, CaughtUp

\* In a session with results the cursor never moves back.
LEMMA CursorForward ==
  ASSUME ShortChunks, HeardInv, CursorInv',
         NEW d \in ChunkSizes, Chunk(d), heard # {}
  PROVE  lastSentEndSec <= lastSentEndSec'
<1>1. /\ totAudioSecs \in Nat /\ d \in Nat \ {0} /\ stStepSecs \in Nat \ {0}
      /\ short \in BOOLEAN /\ short' \in BOOLEAN /\ CursorInv
      /\ heard \subseteq Nat /\ lastSentEndSec \in Int
      /\ started /\ started' /\ totAudioSecs' = totAudioSecs + d
  BY MaxTicksAssumption, ChunkAssumption, StepAssumption
     DEF HeardInv, SliceInv, CursorInv, TypeInv, TypeOK, Chunk
<1>2. totAudioSecs > 0 /\ lastSentEndSec > 0
  <2>1. PICK i \in heard : TRUE
    OBVIOUS
  <2>2. i \in Nat /\ totAudioSecs > 0 /\ i < lastSentEndSec
    BY <1>1, <2>1 DEF HeardInv
  <2> QED
    BY <1>1, <2>2
<1>3. ~ IsBelow(totAudioSecs, short, stStepSecs)
  BY <1>1, <1>2 DEF CursorInv, CaughtUp
<1>4. ~ IsBelow(totAudioSecs', short', stStepSecs)
  BY <1>1, <1>3 DEF IsBelow
<1>5. lastSentEndSec' = WholeSteps(totAudioSecs', short')
  BY <1>1, <1>2, <1>4 DEF CursorInv, CaughtUp
<1> QED
  BY <1>1, <1>4, <1>5, CursorNotAhead

LEMMA HeardInductive ==
  ASSUME ShortChunks, GapFits, HeardInv, [Next]_vars
  PROVE  HeardInv'
<1>1. SliceInv /\ SliceInv' /\ CursorInv /\ CursorInv'
  BY SliceInductive DEF HeardInv, SliceInv
<1>2. CASE Connect
  BY <1>1, <1>2 DEF HeardInv, Connect
<1>3. CASE Start
  BY <1>1, <1>3 DEF HeardInv, Start
<1>4. ASSUME NEW d \in ChunkSizes, Chunk(d)
      PROVE  HeardInv'
  <2>1. /\ UNCHANGED heard /\ started
        /\ totAudioSecs' \in Nat /\ totAudioSecs' > 0
        /\ heard \subseteq Int /\ lastSentEndSec \in Int /\ lastSentEndSec' \in Int
    BY <1>1, <1>4, MaxTicksAssumption, ChunkAssumption
       DEF CursorInv, TypeInv, TypeOK, Chunk
  <2>2. CASE heard = {}
    BY <1>1, <2>1, <2>2 DEF HeardInv
  <2>3. CASE heard # {}
    <3>1. lastSentEndSec <= lastSentEndSec'
      BY <1>1, <1>4, <2>3, CursorForward
    <3> QED
      BY <1>1, <2>1, <3>1 DEF HeardInv
  <2> QED
    BY <2>2, <2>3
<1>5. CASE End
  <2>1. handler' # "end"
    BY <1>1 DEF CursorInv
  <2>2. EndSession
    BY <1>5, <2>1 DEF End
  <2> QED
    BY <1>1, <2>2 DEF HeardInv, EndSession
<1>6. ASSUME NEW outcome \in Outcomes, Reply(outcome)
      PROVE  HeardInv'
  <2>1. /\ handler = "chunk" /\ UNCHANGED lastSentEndSec
        /\ started /\ totAudioSecs > 0
    BY <1>1, <1>6 DEF Reply, CursorInv, TypeInv, TypeOK
  <2>2. outcome \in {"result", "gone", "error", "eof"}
    BY OutcomesAssumption
  <2>3. CASE outcome = "result"
    <3>1. UNCHANGED totAudioSecs /\ heard' = heard \cup Requested
      BY <1>6, <2>1, <2>3 DEF Reply
    <3>2. \A i \in Requested : i < lastSentEndSec
      <4>1. /\ request.from \in Nat /\ request.to \in Nat /\ audioBuffer \in Nat
            /\ request.from <= request.to /\ request.to <= audioBuffer
            /\ request.to = lastSentEndSec
        BY <1>1, <2>1, MaxTicksAssumption
           DEF SliceInv, RequestWellFormed, CursorInv, TypeInv, TypeOK
      <4>2. Requested = request.from .. request.to - 1
        BY <4>1, SliceWithin DEF Requested
      <4> QED
        BY <4>1, <4>2
    <3> QED
      BY <1>1, <2>1, <3>1, <3>2 DEF HeardInv
  <2>4. CASE outcome \in {"gone", "error"}
    BY <1>1, <1>6, <2>4 DEF HeardInv, Reply
  <2>5. CASE outcome = "eof"
    BY <1>1, <1>6, <2>1, <2>5 DEF HeardInv, Reply
  <2> QED
    BY <2>2, <2>3, <2>4, <2>5
<1>7. CASE Drop
  BY <1>1, <1>7 DEF HeardInv, Drop
<1>8. CASE UNCHANGED vars
  BY <1>1, <1>8 DEF HeardInv, vars
<1> QED
  BY <1>2, <1>3, <1>4, <1>5, <1>6, <1>7, <1>8 DEF Next

LEMMA HeardInvariant ==
  ASSUME ShortChunks, GapFits
  PROVE  Spec => []HeardInv
<1>1. Init => HeardInv
  BY InitTypes DEF Init, HeardInv, SliceInv, CursorInv, CaughtUp, RequestWellFormed
<1>2. HeardInv /\ [Next]_vars => HeardInv'
  BY HeardInductive
<1> QED
  BY <1>1, <1>2, PTL DEF Spec

\* (stated apart because SMT does not subtract from a primed variable)
LEMMA BelowTheStep ==
  ASSUME NEW old \in Int, NEW new \in Int, NEW s \in Int, NEW i \in Int,
         i < old, old <= new - s
  PROVE  i \notin (new - s) .. (new - 1)
  OBVIOUS

\* No request is made but with a whole step at its end that no answered request
\* of the session has covered.
THEOREM RequestsAreNew ==
  ASSUME ShortChunks, GapFits
  PROVE  Spec => EachRequestIsNew
<1> DEFINE New == (handler = "recv" /\ handler' # "recv") =>
                    (request'.to - stStepSecs) .. (request'.to - 1) \cap heard = {}
<1>1. ASSUME HeardInv, HeardInv', [Next]_vars
      PROVE  [New]_vars
  <2> SUFFICES ASSUME handler = "recv", handler' # "recv"
               PROVE  (request'.to - stStepSecs) .. (request'.to - 1) \cap heard = {}
    BY <1>1
  <2>1. CursorInv /\ CursorInv'
    BY <1>1 DEF HeardInv, SliceInv
  <2>2. PICK d \in ChunkSizes : Chunk(d)
    <3>1. CASE End
      BY <2>1, <3>1, EndFindsNothing DEF End, Check
    <3> QED
      BY <1>1, <3>1 DEF Next, Connect, Start, Reply, Drop, vars
  <2>3. /\ lastSentEndSec' \in Int /\ lastSentEndSec \in Int
        /\ heard \subseteq Int /\ started /\ stStepSecs \in Int
    BY <1>1, <2>1, <2>2, MaxTicksAssumption, StepAssumption
       DEF CursorInv, TypeInv, TypeOK, Chunk
  <2>4. request'.to = lastSentEndSec'
    BY <2>1, <2>2, ChunkRequest DEF RequestWellFormed
  <2>5. SUFFICES ASSUME NEW i \in heard,
                        i \in (lastSentEndSec' - stStepSecs) .. (lastSentEndSec' - 1)
                 PROVE  FALSE
    BY <2>4
  <2>6. i \in Int /\ totAudioSecs > 0 /\ i < lastSentEndSec
    BY <1>1, <2>3 DEF HeardInv
  <2>7. lastSentEndSec <= lastSentEndSec' - stStepSecs
    BY <2>1, <2>2, <2>6, CursorMovesByAStep
  <2> QED
    BY <2>3, <2>5, <2>6, <2>7, BelowTheStep
<1> QED
  BY <1>1, HeardInvariant, PTL DEF Spec, EachRequestIsNew

GapInv ==
  /\ SliceInv
  /\ NoGap

\* A window that reaches back to a covered prefix continues it.
LEMMA PrefixContinues ==
  ASSUME NEW from \in Int, NEW to \in Int, NEW old \in Int, NEW covered,
         from <= 0 \/ (from <= old /\ 0 .. old - 1 \subseteq covered)
  PROVE  0 .. to - 1 \subseteq covered \cup (from .. to - 1)
  OBVIOUS

LEMMA GapInductive ==
  ASSUME ShortChunks, GapFits, WindowsMeet, "eof" \notin Outcomes,
         GapInv, [Next]_vars
  PROVE  GapInv'
<1>1. SliceInv /\ SliceInv' /\ CursorInv /\ CursorInv'
  BY SliceInductive DEF GapInv, SliceInv
<1>2. CASE Connect
  BY <1>1, <1>2 DEF GapInv, NoGap, Connect
<1>3. CASE Start
  <2>1. totAudioSecs' = 0 /\ handler' = "recv"
    BY <1>3 DEF Start
  <2> QED
    BY <1>1, <2>1 DEF GapInv, NoGap
<1>4. ASSUME NEW d \in ChunkSizes, Chunk(d)
      PROVE  GapInv'
  <2>1. /\ UNCHANGED heard /\ started /\ handler = "recv"
        /\ totAudioSecs \in Nat /\ totAudioSecs' \in Nat /\ short' \in BOOLEAN
        /\ lastSentEndSec \in Int /\ lastSentEndSec' \in Int /\ d < stStepSecs
        /\ totAudioSecs' = totAudioSecs + d
    BY <1>1, <1>4, MaxTicksAssumption
       DEF CursorInv, TypeInv, TypeOK, Chunk, ShortChunks
  <2>2. CASE handler' = "recv"
    <3> SUFFICES ASSUME totAudioSecs' > 0, started'
                 PROVE  0 .. lastSentEndSec' - 1 \subseteq heard
      BY <1>1, <2>1, <2>2 DEF GapInv, NoGap
    <3>1. CASE IsBelow(totAudioSecs', short', stStepSecs)
      <4>1. lastSentEndSec' = -1
        BY <1>1, <3>1 DEF CursorInv, CaughtUp
      <4> QED
        BY <4>1
    <3>2. CASE ~ IsBelow(totAudioSecs', short', stStepSecs)
      <4>1. totAudioSecs > 0
        BY <2>1, <3>2, ChunkAssumption DEF IsBelow
      <4>2. ~ checkAudio(totAudioSecs', short', lastSentEndSec).sends
        BY <1>4, <2>2 DEF Chunk, Check
      <4>3. lastSentEndSec' = lastSentEndSec
        <5>1. lastSentEndSec' = checkAudio(totAudioSecs', short', lastSentEndSec).last
          BY <1>4 DEF Chunk, Check
        <5> QED
          BY <2>1, <3>2, <4>2, <5>1, CheckOutcomes
      <4> QED
        BY <2>1, <4>1, <4>3 DEF GapInv, NoGap
    <3> QED
      BY <3>1, <3>2
  <2>3. CASE handler' # "recv"
    <3>1. \/ request'.from <= 0
          \/ totAudioSecs > 0 /\ request'.from <= lastSentEndSec
      BY <1>1, <1>4, <2>3, WindowReachesBack
    <3>2. /\ request'.from \in Nat /\ request'.to \in Nat
          /\ request'.from <= request'.to /\ request'.to <= audioBuffer'
          /\ audioBuffer' \in Nat /\ request'.to = lastSentEndSec'
      BY <1>1, <2>3, MaxTicksAssumption
         DEF SliceInv, RequestWellFormed, CursorInv, TypeInv, TypeOK
    <3>3. Requested' = request'.from .. request'.to - 1
      BY <3>2, SliceWithin DEF Requested
    <3>4. totAudioSecs > 0 => 0 .. lastSentEndSec - 1 \subseteq heard
      BY <2>1 DEF GapInv, NoGap
    <3>5. request'.from \in Int /\ request'.to \in Int
      BY <3>2
    <3>6. 0 .. request'.to - 1 \subseteq heard \cup (request'.from .. request'.to - 1)
      BY <2>1, <3>1, <3>4, <3>5, PrefixContinues
    <3> QED
      BY <1>1, <2>1, <2>3, <3>2, <3>3, <3>6 DEF GapInv, NoGap
  <2> QED
    BY <2>2, <2>3
<1>5. CASE End
  <2>1. EndSession
    BY <1>1, <1>5 DEF End, CursorInv
  <2> QED
    BY <1>1, <2>1 DEF GapInv, NoGap, EndSession
<1>6. ASSUME NEW outcome \in Outcomes, Reply(outcome)
      PROVE  GapInv'
  <2>1. handler = "chunk" /\ handler' = "recv" /\ UNCHANGED lastSentEndSec /\ started
    BY <1>1, <1>6 DEF Reply, CursorInv, TypeInv, TypeOK
  <2>2. CASE outcome = "result"
    <3>1. heard' = heard \cup Requested
      BY <1>6, <2>1, <2>2 DEF Reply
    <3> QED
      BY <1>1, <2>1, <3>1 DEF GapInv, NoGap
  <2>3. CASE outcome \in {"gone", "error"}
    BY <1>1, <1>6, <2>3 DEF GapInv, NoGap, Reply
  <2> QED
    BY <2>2, <2>3, OutcomesAssumption
<1>7. CASE Drop
  BY <1>1, <1>7 DEF GapInv, NoGap, Drop
<1>8. CASE UNCHANGED vars
  BY <1>1, <1>8 DEF GapInv, NoGap, Requested, vars
<1> QED
  BY <1>2, <1>3, <1>4, <1>5, <1>6, <1>7, <1>8 DEF Next

\* As long as the ST server lives, the client of a session has results covering
\* all of its audio up to the cursor: the sliding windows leave no instant out.
THEOREM NothingIsLeftOut ==
  ASSUME ShortChunks, GapFits, WindowsMeet, "eof" \notin Outcomes
  PROVE  Spec => []NoGap
<1>1. Init => GapInv
  BY InitTypes DEF Init, GapInv, NoGap, SliceInv, CursorInv, CaughtUp, RequestWellFormed
<1>2. GapInv /\ [Next]_vars => GapInv'
  BY GapInductive
<1>3. GapInv => NoGap
  BY DEF GapInv
<1> QED
  BY <1>1, <1>2, <1>3, PTL DEF Spec

-----------------------------------------------------------------------------
(***************************************************************************)
(* The last check.                                                         *)
(***************************************************************************)

\* The audio of the globals was checked as it stands, of any session.
CheckedInv ==
  /\ TypeInv
  /\ handler # "end"
  /\ ~ checkAudio(totAudioSecs, short, lastSentEndSec).sends

LEMMA NoAudioIsChecked ==
  ASSUME NEW last \in Int, NEW sh \in BOOLEAN, ~ sh
  PROVE  ~ checkAudio(0, sh, last).sends
<1>1. IsBelow(0, sh, stStepSecs)
  BY StepAssumption DEF IsBelow
<1> QED
  BY <1>1, CheckOutcomes

LEMMA CheckedInductive ==
  ASSUME CheckedInv, [Next]_vars
  PROVE  CheckedInv'
<1>. USE DEF TypeInv, TypeOK
<1>1. TypeInv'
  BY TypeInductive DEF CheckedInv
<1>2. /\ totAudioSecs \in Nat /\ short \in BOOLEAN /\ lastSentEndSec \in Int
      /\ totAudioSecs' \in Nat /\ short' \in BOOLEAN /\ lastSentEndSec' \in Int
      /\ short => totAudioSecs > 0
      /\ short' => totAudioSecs' > 0
  BY <1>1, MaxTicksAssumption DEF CheckedInv
<1>3. ASSUME totAudioSecs' = 0, ~ short', handler' # "end"
      PROVE  CheckedInv'
  BY <1>1, <1>2, <1>3, NoAudioIsChecked DEF CheckedInv
<1>4. CASE Start
  BY <1>3, <1>4 DEF Start
<1>5. ASSUME NEW d \in ChunkSizes, Chunk(d)
      PROVE  CheckedInv'
  <2>1. /\ lastSentEndSec' = checkAudio(totAudioSecs', short', lastSentEndSec).last
        /\ handler' \in {"recv", "chunk"}
    BY <1>5 DEF Chunk, Check
  <2>2. ~ checkAudio(totAudioSecs', short', lastSentEndSec').sends
    BY <1>2, <2>1, CheckedOnce
  <2>. QED
    BY <1>1, <2>1, <2>2 DEF CheckedInv
<1>6. CASE End
  <2>1. handler' = "recv"
    BY <1>6 DEF End, Check, CheckedInv
  <2>. QED
    BY <1>3, <1>6, <2>1 DEF End, EndSession
<1>7. ASSUME NEW outcome \in Outcomes, Reply(outcome)
      PROVE  CheckedInv'
  <2>1. UNCHANGED <<totAudioSecs, short, lastSentEndSec>> /\ handler' = "recv"
    BY <1>7, OutcomesAssumption DEF Reply, CheckedInv
  <2>. QED
    BY <1>1, <2>1 DEF CheckedInv
<1>8. CASE Connect \/ Drop \/ UNCHANGED vars
  BY <1>1, <1>8 DEF Connect, Drop, vars, CheckedInv
<1> QED
  BY <1>4, <1>5, <1>6, <1>7, <1>8 DEF Next

\* Why EndSendsTheRest does not hold: whatever the chunks are, short or longer than
\* a window, and whatever became of the requests before, "end" (FBK_API_server.py:288)
\* never makes a request.  Audio that no chunk has sent, the part of a step at the end of
\* every session as much as what an old cursor held back, is dropped.
THEOREM EndMakesNoRequest == Spec => [](handler # "end")
<1>1. Init => CheckedInv
  <2>. SUFFICES ASSUME Init PROVE CheckedInv
    OBVIOUS
  <2>1. lastSentEndSec \in Int
    BY DEF Init, NothingSent
  <2>2. totAudioSecs = 0 /\ short \in BOOLEAN /\ ~ short /\ handler # "end"
    BY DEF Init
  <2>. QED
    BY <2>1, <2>2, InitTypes, NoAudioIsChecked DEF CheckedInv
<1>2. CheckedInv => handler # "end"
  BY DEF CheckedInv
<1> QED
  BY <1>1, <1>2, CheckedInductive, PTL DEF Spec
=============================================================================
