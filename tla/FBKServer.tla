----------------------------- MODULE FBKServer -----------------------------
(***************************************************************************)
(* websocket_server/FBK_API_server.py as a whole: the process that starts  *)
(* the ST server and warms it up, the coroutine externalLoop of every open *)
(* connection, the globals they share, the two files in /tmp, the pipes.   *)
(*                                                                         *)
(* One thread runs everything.  A handler gives way to the others only     *)
(* where it awaits (websocket.recv and websocket.send); while it reads the *)
(* ST server's line nothing else runs.  The message a handler deals with   *)
(* stays at the head of its connection's inbox until it is done.           *)
(*                                                                         *)
(* Audio is a sequence of the sessions its ticks were recorded in, and the *)
(* languages and the glossary of a session are its number too, so that     *)
(* what a result was made from can be told.  Rounding is in AudioSession:  *)
(* here totAudioSecs is exactly the length of audioBuffer.                 *)
(***************************************************************************)
EXTENDS AudioWindow, StServer, FiniteSets

CONSTANTS
  Connections,  \* the connections clients make
  Kinds,        \* what clients send: "start", "chunk", "end", "shutdown", or faulty
  Overlap,      \* whether clients connect while another connection lives
  MaxMessages,  \* bound: the messages a client sends over one connection
  MaxSessions   \* bound: the sessions of all clients

ASSUME OverlapAssumption == Overlap \in BOOLEAN
ASSUME BoundsAssumption  == MaxMessages \in Nat /\ MaxSessions \in Nat
ASSUME PathsAssumption   == Paths = {"wav", "dict"}  \* stWavPath, bilingualDictPath
ASSUME AbsentAssumption  == Absent \notin Seq(Nat)    \* no file is no audio

VARIABLES
  server,          \* "booting", "warming", "warmup" (a request is out), "serving", "exited"
  warmups,         \* requests that doWarmUp has still to make
  conn,            \* of each connection: "off", "open", "closing" (by the client), "closed"
  inbox,           \* the messages received that are not dealt with
  outbox,          \* all that was sent to the client
  handler,         \* "recv", or the handler waiting for the ST server
  langs,           \* srcLanguage and tgtLanguage, set together: whose they are
  audioBuffer,     \* the global of that name
  lastSentEndSec,  \* the global of that name, in ticks
  session,         \* the session the client of each connection is in, 0 if none
  sessions,        \* how many sessions clients have begun
  sent             \* how many messages each client has sent

serverVars == <<server, warmups>>
connVars   == <<conn, inbox, outbox, handler>>
audioVars  == <<langs, audioBuffer, lastSentEndSec>>
clientVars == <<session, sessions, sent>>
vars == <<stVars, disk, serverVars, connVars, audioVars, clientVars>>

WarmUp == 0  \* the session of the warm-up's audio and languages

\* The kinds of messages that begin a session for the client that sends them.
StartKinds == {"start", "startBadLine", "startBadGloss"}

\* The messages the server sends; for is the session of the message answered.
Response(status) == [type |-> "response", status |-> status]
Result(line, id) ==
  [type |-> "result", status |-> 0, for |-> id,
   audio |-> line.audio, langs |-> line.langs, terms |-> line.terms]

\* The process reads the ST server's stdout in doWarmUp, or in a handler.
Waiting == server = "warmup" \/ \E c \in Connections : handler[c] # "recv"

TypeOK ==
  /\ stProc \in {"starting", "serving", "exited"}
  /\ server \in {"booting", "warming", "warmup", "serving", "exited"}
  /\ warmups \in 0 .. 3
  /\ conn \in [Connections -> {"off", "open", "closing", "closed"}]
  /\ handler \in [Connections -> {"recv", "chunk", "end"}]
  /\ \A c \in Connections :
       /\ Len(inbox[c]) <= sent[c] /\ sent[c] <= MaxMessages
       /\ conn[c] \in {"off", "closed"} => inbox[c] = << >> /\ handler[c] = "recv"
  /\ Cardinality({c \in Connections : handler[c] # "recv"}) <= 1
  /\ langs \in 0 .. sessions
  /\ sessions \in 0 .. MaxSessions
  /\ session \in [Connections -> 0 .. sessions]
  /\ \A i \in 1 .. Len(audioBuffer) : audioBuffer[i] \in 1 .. sessions
  /\ lastSentEndSec \in {NothingSent} \cup Nat

Init ==
  /\ StInit
  /\ disk = [p \in Paths |-> Absent]
  /\ server = "booting"
  /\ warmups = 3
  /\ conn = [c \in Connections |-> "off"]
  /\ inbox = [c \in Connections |-> << >>]
  /\ outbox = [c \in Connections |-> << >>]
  /\ handler = [c \in Connections |-> "recv"]
  /\ langs = WarmUp
  /\ audioBuffer = << >>
  /\ lastSentEndSec = NothingSent
  /\ session = [c \in Connections |-> 0]
  /\ sessions = 0
  /\ sent = [c \in Connections |-> 0]

-----------------------------------------------------------------------------
(***************************************************************************)
(* The pipes to the ST server.                                             *)
(***************************************************************************)

\* A line for the ST server; a write to a process that is gone raises.
WriteToSt(line) ==
  /\ stProc # "exited"
  /\ stdin' = Append(stdin, line)
  /\ UNCHANGED <<stProc, stdinOpen, stdout, stdoutOpen, current, loadedDicts>>

\* The next line of its stdout.
HasLine == stdout # << >>
TakeLine ==
  /\ stdout' = Tail(stdout)
  /\ UNCHANGED <<stProc, stdin, stdinOpen, stdoutOpen, current, loadedDicts>>

\* readline gives "" when the ST server is gone and all it wrote is read.
AtEof == stdout = << >> /\ stProc = "exited"

\* The process ends: its ends of the pipes and its connections close.
Exit ==
  /\ server' = "exited"
  /\ stdinOpen' = FALSE /\ stdoutOpen' = FALSE
  /\ conn' = [c \in Connections |-> "closed"]
  /\ inbox' = [c \in Connections |-> << >>]
  /\ handler' = [c \in Connections |-> "recv"]
  /\ UNCHANGED <<stProc, stdout, current, loadedDicts, outbox, warmups>>

-----------------------------------------------------------------------------
(***************************************************************************)
(* Start-up.                                                               *)
(***************************************************************************)

\* stServerStart reads one line.  The banner leads to the warm-up; after
\* another line, or none, the function returns and the server goes on.
BootRead ==
  /\ server = "booting"
  /\ \/ HasLine /\ TakeLine
     \/ AtEof /\ UNCHANGED stVars
  /\ server' = IF HasLine /\ Head(stdout) = Banner THEN "warming" ELSE "serving"
  /\ UNCHANGED <<warmups, disk, connVars, audioVars, clientVars>>

\* One of the three requests of doWarmUp, without a dictionary.
WarmUpSend ==
  /\ server = "warming"
  /\ disk' = [disk EXCEPT !["wav"] = <<WarmUp>>]
  /\ \/ /\ WriteToSt(Request("wav", langs, NoPath))
        /\ server' = "warmup"
        /\ UNCHANGED <<warmups, connVars>>
     \/ /\ stProc = "exited"
        /\ Exit /\ UNCHANGED stdin
  /\ UNCHANGED <<audioVars, clientVars>>

\* Nothing catches what an error line or the end of the pipe raises here.
WarmUpReceive ==
  /\ server = "warmup"
  /\ \/ /\ HasLine /\ Head(stdout).kind = "ok"
        /\ TakeLine
        /\ warmups' = warmups - 1
        /\ server' = IF warmups = 1 THEN "serving" ELSE "warming"
        /\ UNCHANGED connVars
     \/ /\ \/ HasLine /\ Head(stdout).kind # "ok"
           \/ AtEof
        /\ Exit /\ UNCHANGED stdin
  /\ UNCHANGED <<disk, audioVars, clientVars>>

-----------------------------------------------------------------------------
(***************************************************************************)
(* The clients, and the websockets library between them and the handlers.  *)
(***************************************************************************)

\* A handshake, which the event loop does: a new externalLoop.  Without
\* Overlap clients connect when the server is done with the one before.
Connect(c) ==
  /\ server = "serving" /\ ~ Waiting
  /\ conn[c] = "off"
  /\ Overlap \/ \A k \in Connections : conn[k] \in {"off", "closed"}
  /\ conn' = [conn EXCEPT ![c] = "open"]
  /\ UNCHANGED <<stVars, disk, serverVars, inbox, outbox, handler, audioVars, clientVars>>

\* The client sends a message.  A session of its own begins with "start" and
\* has chunks of one tick; faulty messages come at any time.
ClientSend(c) ==
  /\ conn[c] = "open" /\ sent[c] < MaxMessages
  /\ sent' = [sent EXCEPT ![c] = @ + 1]
  /\ \E kind \in Kinds :
       /\ CASE kind \in {"chunk", "end"} -> session[c] # 0
            [] kind = "start"            -> session[c] = 0 \/ "restart" \in Kinds
            [] OTHER                     -> kind # "restart"
       /\ kind \in StartKinds => sessions < MaxSessions
       /\ sessions' = IF kind \in StartKinds THEN sessions + 1 ELSE sessions
       /\ session' = [session EXCEPT ![c] = CASE kind \in StartKinds -> sessions'
                                              [] kind = "end"       -> 0
                                              [] OTHER              -> @]
       /\ inbox' = [inbox EXCEPT ![c] =
                      Append(@, [kind |-> kind,
                                 id |-> IF kind = "end" THEN session[c] ELSE session'[c]])]
  /\ UNCHANGED <<stVars, disk, serverVars, conn, outbox, handler, audioVars>>

\* The client closes; what the library has queued of it stays to be received.
Leave(c) ==
  /\ conn[c] = "open"
  /\ conn' = [conn EXCEPT ![c] = "closing"]
  /\ UNCHANGED <<stVars, disk, serverVars, inbox, outbox, handler, audioVars, clientVars>>

-----------------------------------------------------------------------------
(***************************************************************************)
(* externalLoop.                                                           *)
(***************************************************************************)

\* The coroutine of c is given a message of one of these kinds.
Receives(c, kinds) ==
  /\ server = "serving" /\ ~ Waiting
  /\ conn[c] \in {"open", "closing"}
  /\ inbox[c] # << >> /\ Head(inbox[c]).kind \in kinds

\* Bug: the queue of a connection outlives it.
Dies_keepsQueue(c) ==
  /\ conn' = [conn EXCEPT ![c] = "closed"]
  /\ UNCHANGED <<inbox, outbox>>

\* An exception nothing catches, or a send to a client that has left: the loop
\* is over and the library closes the connection.
Dies(c) ==
  /\ conn' = [conn EXCEPT ![c] = "closed"]
  /\ inbox' = [inbox EXCEPT ![c] = << >>]
  /\ UNCHANGED outbox

\* The handler sends these messages and goes back to recv.
Finishes(c, messages) ==
  IF messages = << >> \/ conn[c] = "open"
  THEN /\ outbox' = [outbox EXCEPT ![c] = @ \o messages]
       /\ inbox' = [inbox EXCEPT ![c] = Tail(@)]
       /\ UNCHANGED conn
  ELSE Dies(c)

\* Bug: the audio is left for "end" to forget.
ReceiveStart_keepsAudio(c) ==
  LET m == Head(inbox[c]) IN
  /\ Receives(c, {"start", "startBadLine"})
  /\ langs' = m.id
  /\ disk' = [disk EXCEPT !["dict"] = IF m.kind = "start" THEN m.id ELSE Unreadable]
  /\ Finishes(c, <<Response(0)>>)
  /\ UNCHANGED <<stVars, serverVars, handler, audioBuffer, lastSentEndSec, clientVars>>

\* Bug: a file that is there already is not written.
ReceiveStart_keepsFile(c) ==
  LET m == Head(inbox[c]) IN
  /\ Receives(c, {"start", "startBadLine"})
  /\ langs' = m.id
  /\ disk' = [disk EXCEPT !["dict"] = IF @ # Absent THEN @
                                      ELSE IF m.kind = "start" THEN m.id ELSE Unreadable]
  /\ audioBuffer' = << >>
  /\ Finishes(c, <<Response(0)>>)
  /\ UNCHANGED <<stVars, serverVars, handler, lastSentEndSec, clientVars>>

\* "start": the languages, the glossary's file, and no audio.  A gloss with an
\* empty target makes a file that load_dict cannot read ("startBadLine").
ReceiveStart(c) ==
  LET m == Head(inbox[c]) IN
  /\ Receives(c, {"start", "startBadLine"})
  /\ langs' = m.id
  /\ disk' = [disk EXCEPT !["dict"] = IF m.kind = "start" THEN m.id ELSE Unreadable]
  /\ audioBuffer' = << >>
  /\ Finishes(c, <<Response(0)>>)
  /\ UNCHANGED <<stVars, serverVars, handler, lastSentEndSec, clientVars>>

\* A term without "src" or "tgt": "except Error" names nothing, so the handler
\* dies between the languages and the audio, the file written up to there.
ReceiveBadGloss(c) ==
  LET m == Head(inbox[c]) IN
  /\ Receives(c, {"startBadGloss"})
  /\ langs' = m.id
  /\ disk' = [disk EXCEPT !["dict"] = m.id]
  /\ Dies(c)
  /\ UNCHANGED <<stVars, serverVars, handler, audioBuffer, lastSentEndSec, clientVars>>

\* checkAudioAndSendToProcess on the audio in buffer, for handler h of c: with
\* nothing to send, otherwise is what follows; else the slice goes to the WAV
\* file and a request to the ST server, where a pipe without reader raises.
CheckAndSend(c, h, buffer, otherwise) ==
  LET check == checkAudio(Len(buffer), FALSE, lastSentEndSec)
      slice == SubSeq(buffer, SliceIndex(Len(buffer), check.from) + 1,
                              SliceIndex(Len(buffer), check.to))
  IN
  /\ lastSentEndSec' = check.last
  /\ IF ~ check.sends
     THEN otherwise /\ UNCHANGED <<stVars, handler>>
     ELSE /\ audioBuffer' = buffer
          /\ disk' = [disk EXCEPT !["wav"] = slice]
          /\ \/ /\ WriteToSt(Request("wav", langs, "dict"))
                /\ handler' = [handler EXCEPT ![c] = h]
                /\ UNCHANGED <<conn, inbox, outbox>>
             \/ /\ stProc = "exited"
                /\ Dies(c)
                /\ UNCHANGED <<stVars, handler>>

ReceiveChunk(c) ==
  LET buffer == Append(audioBuffer, Head(inbox[c]).id) IN
  /\ Receives(c, {"chunk"})
  /\ CheckAndSend(c, "chunk", buffer,
                  audioBuffer' = buffer /\ Finishes(c, << >>) /\ UNCHANGED disk)
  /\ UNCHANGED <<serverVars, langs, clientVars>>

\* The last lines of "end": the audio and both files go.
ForgetSession ==
  /\ audioBuffer' = << >>
  /\ disk' = [p \in Paths |-> Absent]

\* Bug: "end" answers only when it has a result to send.
ReceiveEnd_silent(c) ==
  /\ Receives(c, {"end"})
  /\ CheckAndSend(c, "end", audioBuffer, ForgetSession /\ Finishes(c, << >>))
  /\ UNCHANGED <<serverVars, langs, clientVars>>

ReceiveEnd(c) ==
  /\ Receives(c, {"end"})
  /\ CheckAndSend(c, "end", audioBuffer,
                  ForgetSession /\ Finishes(c, <<Response(0)>>))
  /\ UNCHANGED <<serverVars, langs, clientVars>>

\* The ST server's line, read by the handler of c.  A result is sent to the
\* client, and "end" goes on to its response; an error line is a KeyError,
\* which nothing catches; an empty line or a line that is no JSON is logged,
\* and the handler goes back to recv, from "end" too.
ReadReply(c) ==
  /\ server = "serving" /\ handler[c] # "recv"
  /\ LET result == Result(Head(stdout), Head(inbox[c]).id) IN
     \/ /\ HasLine /\ Head(stdout).kind = "ok"
        /\ TakeLine
        /\ IF handler[c] = "end" /\ conn[c] = "open"
           THEN ForgetSession /\ Finishes(c, <<result, Response(0)>>)
           ELSE Finishes(c, <<result>>) /\ UNCHANGED <<audioBuffer, disk>>
     \/ /\ HasLine /\ Head(stdout).kind = "error"
        /\ TakeLine
        /\ Dies(c) /\ UNCHANGED <<audioBuffer, disk>>
     \/ /\ \/ HasLine /\ Head(stdout).kind \notin {"ok", "error"} /\ TakeLine
           \/ AtEof /\ UNCHANGED stVars
        /\ Finishes(c, << >>) /\ UNCHANGED <<audioBuffer, disk>>
  /\ handler' = [handler EXCEPT ![c] = "recv"]
  /\ UNCHANGED <<serverVars, langs, lastSentEndSec, clientVars>>

\* An action that is none of the four.
ReceiveUnknown(c) ==
  /\ Receives(c, {"unknown"})
  /\ Finishes(c, <<Response(1)>>)
  /\ UNCHANGED <<stVars, disk, serverVars, handler, audioVars, clientVars>>

\* No JSON, no action, or a start without its data: only the log says so.
ReceiveLogged(c) ==
  /\ Receives(c, {"notJson", "noAction", "startNoData"})
  /\ Finishes(c, << >>)
  /\ UNCHANGED <<stVars, disk, serverVars, handler, audioVars, clientVars>>

\* A chunk without audio, audio that is no Base64, JSON that is a number.
ReceiveMalformed(c) ==
  /\ Receives(c, {"malformed"})
  /\ Dies(c)
  /\ UNCHANGED <<stVars, disk, serverVars, handler, audioVars, clientVars>>

\* "shutdown", from any client: the ST server is told, the files go, the
\* process exits.  With no ST server to tell, the handler dies instead.
ReceiveShutdown(c) ==
  /\ Receives(c, {"shutdown"})
  /\ \/ /\ stProc # "exited"
        /\ stdin' = Append(stdin, ShutdownCommand)
        /\ disk' = [p \in Paths |-> Absent]
        /\ Exit
     \/ /\ stProc = "exited"
        /\ Dies(c)
        /\ UNCHANGED <<stVars, disk, serverVars, handler>>
  /\ UNCHANGED <<audioVars, clientVars>>

\* Bug: the handler is cancelled when its client leaves, whatever it waits for.
NoticeLeft_cancels(c) ==
  /\ server = "serving"
  /\ conn[c] = "closing"
  /\ Dies(c)
  /\ handler' = [handler EXCEPT ![c] = "recv"]
  /\ UNCHANGED <<stVars, disk, serverVars, audioVars, clientVars>>

\* recv finds no more messages of a client that has left: it raises, the loop
\* ends, and the globals and the files stay as they are.
NoticeLeft(c) ==
  /\ server = "serving" /\ ~ Waiting
  /\ conn[c] = "closing" /\ inbox[c] = << >>
  /\ conn' = [conn EXCEPT ![c] = "closed"]
  /\ UNCHANGED <<stVars, disk, serverVars, inbox, outbox, handler, audioVars, clientVars>>

externalLoop(c) ==
  \/ ReceiveStart(c) \/ ReceiveBadGloss(c) \/ ReceiveChunk(c) \/ ReceiveEnd(c)
  \/ ReadReply(c) \/ ReceiveUnknown(c) \/ ReceiveLogged(c) \/ ReceiveMalformed(c)
  \/ ReceiveShutdown(c) \/ NoticeLeft(c)

-----------------------------------------------------------------------------

notStVars == <<serverVars, connVars, audioVars, clientVars>>

StServe == StWork /\ UNCHANGED notStVars
StFail  == (FailToStart \/ Crash) /\ UNCHANGED notStVars
StartServer == BootRead \/ WarmUpSend \/ WarmUpReceive

Next ==
  \/ StServe \/ StFail \/ StartServer
  \/ \E c \in Connections : Connect(c) \/ ClientSend(c) \/ Leave(c) \/ externalLoop(c)

\* Both processes run, the model and the knowledge graph service answer, and
\* the event loop gives every coroutine its turn.
Fairness ==
  /\ WF_vars(StServe) /\ WF_vars(StartServer)
  /\ \A c \in Connections : WF_vars(externalLoop(c))

Spec == Init /\ [][Next]_vars
FairSpec == Spec /\ Fairness

-----------------------------------------------------------------------------
(***************************************************************************)
(* The lines of the pipes have no number: a handler takes the next line    *)
(* for the answer to its request.  This keeps them together: as long as    *)
(* both processes live, the pipes hold exactly one line, or the ST server  *)
(* is at work on it, when somebody waits for it, and nothing at all when   *)
(* nobody does, whichever handlers died or clients left in the meantime.   *)
(***************************************************************************)
PipesInStep ==
  (server \in {"warming", "warmup", "serving"} /\ stProc = "serving") =>
    Len(stdin) + Len(stdout) + (IF current = Idle THEN 0 ELSE 1)
      = IF Waiting THEN 1 ELSE 0

Results(c) == {outbox[c][i] : i \in {j \in 1 .. Len(outbox[c]) : outbox[c][j].type = "result"}}

(***************************************************************************)
(* Clients that do not overlap get results made from the audio and the     *)
(* languages of the session they are sent for, though every session uses   *)
(* the same globals, the same WAV file and the same pipes.                 *)
(***************************************************************************)
ResultsAreOwn ==
  \A c \in Connections : \A r \in Results(c) :
    /\ r.langs = r.for
    /\ r.audio # << >>
    /\ \A i \in 1 .. Len(r.audio) : r.audio[i] = r.for

(***************************************************************************)
(* As long as the ST server has a request to read the files for, they are  *)
(* those of the session that makes it: nobody has removed or rewritten     *)
(* them.                                                                   *)
(***************************************************************************)
FilesAreOwn ==
  \A c \in Connections :
    (server = "serving" /\ handler[c] # "recv" /\ (stdin # << >> \/ current # Idle)) =>
      /\ disk["dict"] \in {Head(inbox[c]).id, Unreadable}
      /\ disk["wav"] # Absent
      /\ \A i \in 1 .. Len(disk["wav"]) : disk["wav"][i] = Head(inbox[c]).id

(***************************************************************************)
(* Every message received is dealt with, or its connection is closed: no   *)
(* handler waits for ever.                                                 *)
(***************************************************************************)
MessagesAreHandled ==
  \A c \in Connections : (inbox[c] # << >>) ~> (inbox[c] = << >>)

(***************************************************************************)
(* However this process ends, by a shutdown or by a failed warm-up, the ST *)
(* server it has started does not outlive it.                              *)
(***************************************************************************)
NoOrphan == (server = "exited") ~> (stProc = "exited")

(***************************************************************************)
(* The API's promise: seen from the clients, the whole implements          *)
(* ApiProtocol.                                                            *)
(***************************************************************************)
Action(message) == IF message.kind \in StartKinds THEN "start" ELSE message.kind
Said(message) ==
  IF message.type = "result" THEN "result 0"
  ELSE IF message.status = 0 THEN "response 0" ELSE "response 1"

Api == INSTANCE ApiProtocol WITH
  Actions <- Kinds \cup {"start"},
  link <- conn,
  todo <- [c \in Connections |-> [i \in 1 .. Len(inbox[c]) |-> Action(inbox[c][i])]],
  said <- [c \in Connections |-> [i \in 1 .. Len(outbox[c]) |-> Said(outbox[c][i])]]

ImplementsApi == Api!Spec

-----------------------------------------------------------------------------
(***************************************************************************)
(* What the documentation says; the code does otherwise.                   *)
(***************************************************************************)

\* websocket_server/README.md:38, "this message starts a session with the needed
\* information, namely [...] the bilingual dictionary of terminology": the terms
\* of a result come from the glossary of its session.
TermsAreOwn ==
  \A c \in Connections : \A r \in Results(c) : r.terms = r.for
=============================================================================
