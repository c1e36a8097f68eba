---------------------------- MODULE AudioSession ----------------------------
(***************************************************************************)
(* The audio of the sessions of websocket_server/FBK_API_server.py, served *)
(* one connection after the other.  The module follows the globals         *)
(* audioBuffer, totAudioSecs and lastSentEndSec through the handlers of    *)
(* externalLoop ("start", "chunk", "end") and records what the client      *)
(* learns about: heard is the part of the session's audio that an answered *)
(* request has covered.  What the request holds besides the audio, and     *)
(* connections open at the same time, are in FBKServer.                    *)
(***************************************************************************)
EXTENDS AudioWindow, FiniteSets

CONSTANTS
  ChunkSizes,   \* the lengths of the chunks clients send, in ticks
  MaxTicks,     \* bound: the ticks of audio of one session
  Rounding,     \* whether the float sum may fall just below the exact one
  Outcomes      \* how a request to the ST server may end, see Reply

ASSUME ChunkAssumption    == ChunkSizes \subseteq Nat \ {0}
ASSUME MaxTicksAssumption == MaxTicks \in Nat
ASSUME RoundingAssumption == Rounding \in BOOLEAN
ASSUME OutcomesAssumption == Outcomes \subseteq {"result", "gone", "error", "eof"}

VARIABLES
  connected,       \* a client holds the connection
  started,         \* its session is between "start" and the response to "end"
  handler,         \* "recv", or the handler waiting for the ST server
  audioBuffer,     \* length of the global of that name, in ticks
  totAudioSecs,    \* the exact sum behind the global of that name ...
  short,           \* ... and whether the float lies just below it
  lastSentEndSec,  \* the global of that name, in ticks
  request,         \* the slice the ST server is working on, or NoRequest
  heard            \* positions of the session's audio the client has results of

vars == <<connected, started, handler, audioBuffer, totAudioSecs, short,
          lastSentEndSec, request, heard>>

NoRequest == [from |-> 0, to |-> 0]

\* The positions of audioBuffer that request asks the ST server about.
Requested == SlicePositions(audioBuffer, request.from, request.to)

TypeOK ==
  /\ connected \in BOOLEAN
  /\ started \in BOOLEAN
  /\ handler \in {"recv", "chunk", "end"}
  /\ audioBuffer \in 0 .. MaxTicks
  /\ totAudioSecs \in 0 .. MaxTicks
  /\ short \in BOOLEAN
  /\ lastSentEndSec \in -1 .. MaxTicks
  /\ request \in [from : Int, to : Int]
  /\ heard \subseteq 0 .. MaxTicks - 1

\* The values the module gives its globals when it is loaded.
Init ==
  /\ connected = FALSE
  /\ started = FALSE
  /\ handler = "recv"
  /\ audioBuffer = 0
  /\ totAudioSecs = 0
  /\ short = FALSE
  /\ lastSentEndSec = NothingSent
  /\ request = NoRequest
  /\ heard = {}

-----------------------------------------------------------------------------

\* A client connects: externalLoop begins, and touches none of the globals.
Connect ==
  /\ ~ connected
  /\ connected' = TRUE
  /\ started' = FALSE
  /\ UNCHANGED <<handler, audioBuffer, totAudioSecs, short, lastSentEndSec,
                 request, heard>>

\* "start": a new session, also when the last one of the connection was not
\* ended.  lastSentEndSec keeps its value.
Start ==
  /\ connected /\ handler = "recv"
  /\ started' = TRUE
  /\ audioBuffer' = 0
  /\ totAudioSecs' = 0
  /\ short' = FALSE
  /\ heard' = {}
  /\ UNCHANGED <<connected, handler, lastSentEndSec, request>>

\* The assignments of checkAudioAndSendToProcess, called by handler h with the
\* sum tot: a request to the ST server, or none and the handler goes on.
Check(h, tot, sh) ==
  LET c == checkAudio(tot, sh, lastSentEndSec) IN
  /\ lastSentEndSec' = c.last
  /\ IF c.sends
     THEN request' = [from |-> c.from, to |-> c.to] /\ handler' = h
     ELSE UNCHANGED <<request, handler>>

\* "chunk": the audio is appended, its length is added, and the sum checked.
Chunk(d) ==
  /\ connected /\ started /\ handler = "recv"
  /\ totAudioSecs + d <= MaxTicks
  /\ audioBuffer' = audioBuffer + d
  /\ totAudioSecs' = totAudioSecs + d
  /\ short' \in IF Rounding THEN BOOLEAN ELSE {FALSE}
  /\ Check("chunk", totAudioSecs', short')
  /\ UNCHANGED <<connected, started, heard>>

\* The rest of "end".  It assigns -1 to a lastSentEndSec of externalLoop's own
\* (the global statement does not name it): the global keeps its value.
EndSession ==
  /\ audioBuffer' = 0
  /\ totAudioSecs' = 0
  /\ short' = FALSE
  /\ started' = FALSE
  /\ heard' = {}

\* "end": the sum is checked once more, then the session's audio is dropped.
End ==
  /\ connected /\ started /\ handler = "recv"
  /\ Check("end", totAudioSecs, short)
  /\ IF handler' = "end"
     THEN UNCHANGED <<started, audioBuffer, totAudioSecs, short, heard>>
     ELSE EndSession
  /\ UNCHANGED connected

\* Bug: a handler catches the KeyError of an error line and goes on.
Reply_goesOn(outcome) ==
  /\ handler # "recv"
  /\ handler' = "recv"
  /\ request' = NoRequest
  /\ heard' = IF outcome = "result" THEN heard \cup Requested ELSE heard
  /\ IF outcome = "gone" THEN connected' = FALSE /\ started' = FALSE
     ELSE UNCHANGED <<connected, started>>
  /\ UNCHANGED <<audioBuffer, totAudioSecs, short, lastSentEndSec>>

\* The handler gets the ST server's line, or the end of the pipe:
\*  "result"  a result, and the client is sent it; "end" runs on to its reset;
\*  "gone"    a result, but the client has closed: send raises, the loop ends;
\*  "error"   {"status": "error"}: d["nes"] raises KeyError, which nothing
\*            catches, so the handler dies and the connection is closed;
\*  "eof"     an empty line: the JSONDecodeError is logged, the loop goes on.
Reply(outcome) ==
  /\ handler # "recv"
  /\ handler' = "recv"
  /\ request' = NoRequest
  /\ CASE outcome = "result" ->
            /\ IF handler = "end"
               THEN EndSession
               ELSE /\ heard' = heard \cup Requested
                    /\ UNCHANGED <<started, audioBuffer, totAudioSecs, short>>
            /\ UNCHANGED connected
       [] outcome \in {"gone", "error"} ->
            /\ connected' = FALSE
            /\ started' = FALSE
            /\ UNCHANGED <<audioBuffer, totAudioSecs, short, heard>>
       [] outcome = "eof" ->
            UNCHANGED <<connected, started, audioBuffer, totAudioSecs, short, heard>>
  /\ UNCHANGED lastSentEndSec

\* The client closes: recv raises, the loop ends, nothing is cleaned up.
Drop ==
  /\ connected /\ handler = "recv"
  /\ connected' = FALSE
  /\ started' = FALSE
  /\ UNCHANGED <<handler, audioBuffer, totAudioSecs, short, lastSentEndSec,
                 request, heard>>

Next ==
  \/ Connect
  \/ Start
  \/ \E d \in ChunkSizes : Chunk(d)
  \/ End
  \/ \E outcome \in Outcomes : Reply(outcome)
  \/ Drop

Spec == Init /\ [][Next]_vars

-----------------------------------------------------------------------------
(***************************************************************************)
(* What the properties below need of the clients' chunks.                  *)
(***************************************************************************)

\* Every chunk is shorter than the atomic audio unit.
ShortChunks == \A d \in ChunkSizes : d < stStepSecs

\* No chunk can carry the sum from below the last whole step under the window
\* to the window at once.
GapFits ==
  \/ stWindowSecs % stStepSecs = 0
  \/ \A d \in ChunkSizes : IF Rounding THEN d < stWindowSecs % stStepSecs
                                       ELSE d <= stWindowSecs % stStepSecs

\* Two successive windows meet, whatever the cursor's delay.
WindowsMeet == \A d \in ChunkSizes : d + stStepSecs <= stWindowSecs

(***************************************************************************)
(* Between two messages of a session the cursor lastSentEndSec is at the   *)
(* last whole step of the session's audio, or at -1 before the first step: *)
(* nothing but a tail of less than a step waits, and no value of an        *)
(* earlier session is left in it.  The globals survive "end", a dropped    *)
(* connection and a dead handler, so this must be re-established by the    *)
(* first chunk of every session.                                           *)
(***************************************************************************)
CaughtUp ==
  (started /\ totAudioSecs > 0) =>
    lastSentEndSec = IF IsBelow(totAudioSecs, short, stStepSecs)
                     THEN NothingSent
                     ELSE WholeSteps(totAudioSecs, short)

(***************************************************************************)
(* The slice of every request lies in audioBuffer as it stands (no index   *)
(* is negative or beyond the end, where Python silently gives less audio), *)
(* is not empty, ends at the cursor, and is the whole audio up to there or *)
(* exactly one window of it.                                               *)
(***************************************************************************)
RequestWellFormed ==
  handler # "recv" =>
    /\ 0 <= request.from
    /\ request.from < request.to
    /\ request.to = lastSentEndSec
    /\ request.to <= audioBuffer
    /\ \/ request.from = 0 /\ request.to <= stWindowSecs
       \/ request.to - request.from = stWindowSecs

(***************************************************************************)
(* The client has results covering all the audio of its session up to the  *)
(* cursor: the sliding windows leave no instant out.  With RequestWellFormed*)
(* the request under way extends that prefix without a gap.                *)
(***************************************************************************)
NoGap ==
  started =>
    IF handler = "recv"
    THEN totAudioSecs > 0 => 0 .. lastSentEndSec - 1 \subseteq heard
    ELSE 0 .. lastSentEndSec - 1 \subseteq heard \cup Requested

(***************************************************************************)
(* The ST server is never asked again about audio it has answered for: a   *)
(* request is made only with a whole new step at its end.                  *)
(***************************************************************************)
EachRequestIsNew ==
  [][(handler = "recv" /\ handler' # "recv") =>
        (request'.to - stStepSecs) .. (request'.to - 1) \cap heard = {}]_vars

-----------------------------------------------------------------------------
(***************************************************************************)
(* What a comment of the source says; the code does otherwise.             *)
(***************************************************************************)

\* FBK_API_server.py:286, "if still audio then send it to ST to be processed", over the
\* check "end" makes: whenever a client may end its session, it has results of all its
\* audio, or the check sends what is left.
EndSendsTheRest ==
  (connected /\ started /\ handler = "recv") =>
    \/ 0 .. audioBuffer - 1 \subseteq heard
    \/ checkAudio(totAudioSecs, short, lastSentEndSec).sends
=============================================================================
