-------------------------- MODULE FBKServer_proofs --------------------------
(***************************************************************************)
(* Theorems of FBKServer, for every step and window, any set of            *)
(* connections and of messages, every fault of the ST server, every bound. *)
(***************************************************************************)
EXTENDS FBKServer, AudioWindow_proofs, SequenceTheorems, FiniteSetTheorems

-----------------------------------------------------------------------------
(***************************************************************************)
(* Types.                                                                  *)
(***************************************************************************)

Messages == [kind : Kinds, id : Nat]

\* What the two files can hold.
Audios     == {Absent} \cup Seq(Nat)
Glossaries == {Absent, Unreadable} \cup Nat

Requests == [kind : {"request"}, wav_path : {"wav"}, langs : Nat, dictionary : {"dict", NoPath}]
Lines    == {ShutdownCommand} \cup Requests

OkReplies == [kind : {"ok"}, audio : Seq(Nat), langs : Nat, terms : Glossaries]
Replies   == {Banner, Complaint, ErrorReply} \cup OkReplies

ResultMessages == [type : {"result"}, status : {0}, for : Nat,
             audio : Seq(Nat), langs : Nat, terms : Glossaries]
Sent     == [type : {"response"}, status : {0, 1}] \cup ResultMessages

PipeTypes ==
  /\ stProc \in {"starting", "serving", "exited"}
  /\ stdin \in Seq(Lines) /\ stdout \in Seq(Replies)
  /\ stdinOpen \in BOOLEAN /\ stdoutOpen \in BOOLEAN
  /\ current \in {Idle} \cup [line : Lines, audio : Audios]
  /\ DOMAIN disk = Paths /\ disk["wav"] \in Audios /\ disk["dict"] \in Glossaries
  /\ loadedDicts \in [Paths -> Glossaries]

ServerTypes ==
  /\ server \in {"booting", "warming", "warmup", "serving", "exited"}
  /\ warmups \in 0 .. 3
  /\ server \in {"booting", "warming", "warmup"} => warmups # 0

ConnTypes ==
  /\ conn \in [Connections -> {"off", "open", "closing", "closed"}]
  /\ inbox \in [Connections -> Seq(Messages)]
  /\ outbox \in [Connections -> Seq(Sent)]
  /\ handler \in [Connections -> {"recv", "chunk", "end"}]

ClientTypes ==
  /\ sessions \in 0 .. MaxSessions
  /\ session \in [Connections -> 0 .. sessions]
  /\ sent \in [Connections -> 0 .. MaxMessages]
  /\ \A c \in Connections : Len(inbox[c]) <= sent[c]

AudioTypes ==
  /\ langs \in 0 .. sessions
  /\ audioBuffer \in Seq(1 .. sessions)
  /\ lastSentEndSec \in {NothingSent} \cup Nat

\* Messages name sessions that were begun, and audio is of one.
InboxTypes ==
  \A c \in Connections : \A i \in 1 .. Len(inbox[c]) :
    /\ inbox[c][i].id \in 0 .. sessions
    /\ inbox[c][i].kind \in {"chunk", "end"} => inbox[c][i].id # 0

Types == PipeTypes /\ ServerTypes /\ ConnTypes /\ ClientTypes /\ AudioTypes /\ InboxTypes

-----------------------------------------------------------------------------
(***************************************************************************)
(* Who waits, and what is on the pipes.                                    *)
(***************************************************************************)

\* A closed connection has nothing left; a handler that waits has the message
\* it deals with at the head of its inbox, and is alone.
HandlersInStep ==
  /\ \A c \in Connections :
       /\ conn[c] \in {"off", "closed"} => inbox[c] = << >> /\ handler[c] = "recv"
       /\ handler[c] # "recv" =>
            server = "serving" /\ inbox[c] # << >> /\ Head(inbox[c]).kind = handler[c]
  /\ \A c, k \in Connections : handler[c] # "recv" /\ handler[k] # "recv" => c = k

\* The audio of the buffer was checked as it stands.
AudioChecked ==
  /\ ~ checkAudio(Len(audioBuffer), FALSE, lastSentEndSec).sends
  /\ \A c \in Connections : handler[c] # "end"

\* While this process lives its pipes are open and only requests were written.
PipesOpen ==
  server # "exited" =>
    /\ stdinOpen /\ stdoutOpen
    /\ \A i \in 1 .. Len(stdin) : stdin[i] \in Requests
    /\ current # Idle => current.line \in Requests

\* Before the first line of the ST server is read nothing was written.
BootInStep ==
  /\ stProc = "starting" => server = "booting" /\ stdout = << >>
  /\ stProc # "serving" => current = Idle
  /\ server = "booting" =>
       /\ stdin = << >> /\ current = Idle /\ Len(stdout) <= 1
       /\ stProc = "serving" => stdout = <<Banner>>

\* No line is left over, also not of an ST server that has died.
NothingLeftOver ==
  server \in {"warming", "warmup", "serving"} => Len(stdout) <= IF Waiting THEN 1 ELSE 0

StepInv ==
  /\ Types /\ HandlersInStep /\ AudioChecked
  /\ PipesOpen /\ BootInStep /\ NothingLeftOver /\ PipesInStep

USE PathsAssumption DEF NothingSent, WarmUp, NoPath, Banner, Complaint, ErrorReply,
                        ShutdownCommand, OtherLine

-----------------------------------------------------------------------------
(***************************************************************************)
(* The initial state.                                                      *)
(***************************************************************************)
LEMMA InitInStep == Init => StepInv
<1>. SUFFICES ASSUME Init PROVE StepInv
  OBVIOUS
<1>1. Types
  BY BoundsAssumption DEF Init, StInit, Types, PipeTypes, ServerTypes, ConnTypes, ClientTypes,
     AudioTypes, InboxTypes, Audios, Glossaries
<1>2. HandlersInStep /\ PipesOpen /\ BootInStep /\ NothingLeftOver /\ PipesInStep
  BY DEF Init, StInit, HandlersInStep, PipesOpen, BootInStep, NothingLeftOver, PipesInStep
<1>3. ~ checkAudio(0, FALSE, NothingSent).sends
  <2>1. NothingSent \in Int
    OBVIOUS
  <2>. QED
    BY <2>1, NothingToSend
<1>4. AudioChecked
  BY <1>3 DEF Init, AudioChecked
<1>. QED
  BY <1>1, <1>2, <1>4 DEF StepInv

-----------------------------------------------------------------------------
(***************************************************************************)
(* The steps of the ST server.                                             *)
(***************************************************************************)

LEMMA IdleOrBusy ==
  /\ \A l \in Lines : l.kind \in {"request", "shutdown"} /\ (l.kind = "request" => l \in Requests)
  /\ \A busy : busy.line \in Lines => busy # Idle
<1>1. ASSUME NEW l \in Lines 
      PROVE  l.kind \in {"request", "shutdown"} /\ (l.kind = "request" => l \in Requests)
  <2>1. CASE l = ShutdownCommand
    BY <2>1
  <2>2. CASE l \in Requests
    BY <2>2 DEF Requests
  <2>. QED
    BY <2>1, <2>2 DEF Lines
<1>2. Idle.line.kind = "none"
  BY DEF Idle
<1>. QED
  BY <1>1, <1>2

\* What they leave alone keeps what is said of it.
LEMMA StKeepsTheRest ==
  ASSUME StepInv, UNCHANGED notStVars
  PROVE  /\ (ServerTypes /\ ConnTypes /\ ClientTypes /\ AudioTypes /\ InboxTypes)'
         /\ HandlersInStep' /\ AudioChecked' /\ Waiting' = Waiting /\ server' = server
  BY DEF StepInv, notStVars, serverVars, connVars, audioVars, clientVars, Types, ServerTypes,
     ConnTypes, ClientTypes, AudioTypes, InboxTypes, HandlersInStep, AudioChecked, Waiting

\* An answer takes the place of the line it answers.
LEMMA AnswerInStep ==
  ASSUME StepInv, UNCHANGED notStVars, stProc = "serving", current # Idle,
         NEW line \in Replies, Answers(line), loadedDicts' \in [Paths -> Glossaries],
         UNCHANGED <<stdin, stdinOpen, stdoutOpen, disk>>
  PROVE  StepInv'
<1>1. PipeTypes'
  <2>1. stdout \in Seq(Replies) /\ Append(stdout, line) \in Seq(Replies)
    BY DEF StepInv, Types, PipeTypes
  <2>2. stdout' \in Seq(Replies) /\ stProc' \in {"serving", "exited"} /\ current' = Idle
    BY <2>1 DEF Answers
  <2>. QED
    BY <2>2 DEF StepInv, Types, PipeTypes
<1>2. PipesOpen' /\ BootInStep'
  BY StKeepsTheRest DEF StepInv, PipesOpen, BootInStep, Answers
<1>3. NothingLeftOver' /\ PipesInStep'
  BY StKeepsTheRest DEF StepInv, NothingLeftOver, PipesInStep, PipesOpen, Answers, Types, PipeTypes, ServerTypes
<1>. QED
  BY <1>1, <1>2, <1>3, StKeepsTheRest DEF StepInv, Types

LEMMA StWorkInStep ==
  ASSUME StepInv, StServe
  PROVE  StepInv'
<1>. UNCHANGED notStVars
  BY DEF StServe
<1>1. PipeTypes /\ PipesOpen /\ BootInStep /\ NothingLeftOver /\ PipesInStep /\ ServerTypes
  BY DEF StepInv, Types
<1>2. StepInv' <=> PipeTypes' /\ PipesOpen' /\ BootInStep' /\ NothingLeftOver' /\ PipesInStep'
  BY StKeepsTheRest DEF StepInv, Types
<1>3. current # Idle => stProc = "serving"
  BY <1>1 DEF BootInStep
<1>4. ErrorReply \in Replies
  BY DEF Replies
<1>5. CASE StartUp
  <2>1. server = "booting" /\ stdinOpen /\ stdoutOpen /\ stdout = << >> /\ current = Idle
    BY <1>1, <1>5 DEF StartUp, BootInStep, PipesOpen
  <2>2. stdout' = <<Banner>> /\ stProc' = "serving" /\ current' = Idle
    BY <1>5, <2>1 DEF StartUp, Answers
  <2>3. <<Banner>> \in Seq(Replies)
    BY DEF Replies
  <2>4. PipeTypes'
    BY <1>1, <1>5, <2>2, <2>3 DEF StartUp, PipeTypes
  <2>5. PipesOpen' /\ BootInStep' /\ NothingLeftOver' /\ PipesInStep'
    BY <1>1, <1>5, <2>1, <2>2, StKeepsTheRest
       DEF StartUp, BootInStep, PipesOpen, NothingLeftOver, PipesInStep
  <2>. QED
    BY <1>2, <2>4, <2>5
<1>6. CASE ReadLine
  <2>1. /\ stdin \in Seq(Lines) /\ Head(stdin) \in Lines /\ Tail(stdin) \in Seq(Lines)
        /\ Len(Tail(stdin)) = Len(stdin) - 1 /\ Len(stdin) \in Nat
        /\ \A i \in 1 .. Len(Tail(stdin)) : Tail(stdin)[i] = stdin[i + 1]
        /\ Head(stdin) = stdin[1] /\ Len(stdin) >= 1
    BY <1>1, <1>6, HeadTailProperties DEF ReadLine, PipeTypes
  <2>2. current' = [line |-> Head(stdin), audio |-> Absent] /\ current' # Idle
    BY <1>6, <2>1, IdleOrBusy DEF ReadLine
  <2>3. PipeTypes'
    BY <1>1, <1>6, <2>1, <2>2 DEF ReadLine, PipeTypes, Audios
  <2>4. PipesOpen'
    BY <1>1, <1>6, <2>1, <2>2, StKeepsTheRest DEF ReadLine, PipesOpen
  <2>5. BootInStep'
    BY <1>1, <1>6, <2>1, <2>2, StKeepsTheRest DEF ReadLine, BootInStep
  <2>6. NothingLeftOver' /\ PipesInStep'
    BY <1>1, <1>6, <2>1, <2>2, StKeepsTheRest DEF ReadLine, NothingLeftOver, PipesInStep, PipeTypes
  <2>. QED
    BY <1>2, <2>3, <2>4, <2>5, <2>6
<1>7. CASE ReadEof
  <2>1. server = "exited"
    BY <1>1, <1>7 DEF ReadEof, PipesOpen
  <2>2. PipeTypes'
    <3>1. stdout \in Seq(Replies) /\ Append(stdout, ErrorReply) \in Seq(Replies)
      BY <1>1, <1>4 DEF PipeTypes
    <3>2. stdout' \in Seq(Replies) /\ stProc' \in {"serving", "exited"} /\ current' = Idle
      BY <1>7, <3>1 DEF ReadEof, Answers
    <3>. QED
      BY <1>1, <1>7, <3>2 DEF ReadEof, PipeTypes
  <2>3. PipesOpen' /\ BootInStep' /\ NothingLeftOver' /\ PipesInStep'
    BY <1>7, <2>1, StKeepsTheRest
       DEF ReadEof, Answers, BootInStep, PipesOpen, NothingLeftOver, PipesInStep
  <2>. QED
    BY <1>2, <2>2, <2>3
<1>8. CASE ShutDown
  <2>1. server = "exited"
    BY <1>1, <1>8 DEF ShutDown, PipesOpen, Requests
  <2>2. PipeTypes'
    BY <1>1, <1>8 DEF ShutDown, PipeTypes
  <2>3. PipesOpen' /\ BootInStep' /\ NothingLeftOver' /\ PipesInStep'
    BY <1>8, <2>1, StKeepsTheRest
       DEF ShutDown, BootInStep, PipesOpen, NothingLeftOver, PipesInStep
  <2>. QED
    BY <1>2, <2>2, <2>3
<1>9. CASE Refuse
  BY <1>1, <1>3, <1>4, <1>9, AnswerInStep DEF Refuse, PipeTypes
<1>10. CASE ReadAudio
  <2>1. current # Idle /\ current \in [line : Lines, audio : Audios] /\ current.line \in Requests
    BY <1>1, <1>10 DEF ReadAudio, PipeTypes, Lines
  <2>2. CASE disk[current.line.wav_path] = Absent
    BY <1>1, <1>3, <1>4, <1>10, <2>2, AnswerInStep DEF ReadAudio, PipeTypes
  <2>3. CASE disk[current.line.wav_path] # Absent
    <3>1. /\ current' = [current EXCEPT !.audio = disk["wav"]]
          /\ UNCHANGED <<stProc, stdin, stdinOpen, stdout, stdoutOpen, loadedDicts, disk>>
      BY <1>10, <2>1, <2>3 DEF ReadAudio, Requests
    <3>2. current' \in [line : Lines, audio : Audios] /\ current'.line = current.line
      BY <1>1, <2>1, <3>1 DEF PipeTypes
    <3>3. current' # Idle
      BY <2>1, <3>2, IdleOrBusy DEF Lines
    <3>4. PipeTypes'
      BY <1>1, <3>1, <3>2 DEF PipeTypes
    <3>5. PipesOpen' /\ BootInStep' /\ NothingLeftOver' /\ PipesInStep'
      BY <1>1, <2>1, <3>1, <3>2, <3>3, StKeepsTheRest
         DEF BootInStep, PipesOpen, NothingLeftOver, PipesInStep
    <3>. QED
      BY <1>2, <3>4, <3>5
  <2>. QED
    BY <2>2, <2>3
<1>11. CASE Raise
  BY <1>1, <1>3, <1>4, <1>11, AnswerInStep DEF Raise, PipeTypes
<1>12. CASE Process
  <2>. DEFINE path == current.line.dictionary
              dict == IF path = NoPath THEN Absent ELSE load_dict(path)
              ok   == OkReply(current.audio, current.line.langs, dict)
  <2>1. current # Idle /\ current.line \in Requests /\ current.audio \in Seq(Nat)
    <3>1. current \in [line : Lines, audio : Audios] /\ current.audio # Absent
      BY <1>1, <1>12 DEF Process, PipeTypes
    <3>2. current.line \in Requests
      BY <1>12, <3>1, IdleOrBusy DEF Process
    <3>. QED
      BY <1>12, <3>1, <3>2 DEF Process, Audios
  <2>2. dict \in Glossaries
    BY <1>1, <2>1 DEF load_dict, PipeTypes, Glossaries, Requests
  <2>3. ok \in Replies
    BY <2>1, <2>2 DEF OkReply, Replies, OkReplies, Requests
  <2>4. loadedDicts' \in [Paths -> Glossaries]
    BY <1>1, <1>12, <2>2 DEF Process, PipeTypes
  <2>5. CASE Answers(ErrorReply)
    BY <1>3, <1>4, <1>12, <2>1, <2>4, <2>5, AnswerInStep DEF Process
  <2>6. CASE Answers(ok)
    <3>1. ok \in Replies /\ UNCHANGED <<stdin, stdinOpen, stdoutOpen, disk>>
      BY <1>12, <2>3, <2>6 DEF Process
    <3>. HIDE DEF ok
    <3>. QED
      BY <1>3, <2>1, <2>4, <2>6, <3>1, AnswerInStep
  <2>7. Answers(ErrorReply) \/ Answers(ok)
    BY <1>12 DEF Process
  <2>. QED
    BY <2>5, <2>6, <2>7
<1>. QED
  BY <1>5, <1>6, <1>7, <1>8, <1>9, <1>10, <1>11, <1>12 DEF StServe, StWork

LEMMA StFailInStep ==
  ASSUME StepInv, StFail
  PROVE  StepInv'
<1>. UNCHANGED notStVars
  BY DEF StFail
<1>1. PipeTypes /\ PipesOpen /\ BootInStep /\ NothingLeftOver /\ PipesInStep /\ ServerTypes
  BY DEF StepInv, Types
<1>2. StepInv' <=> PipeTypes' /\ PipesOpen' /\ BootInStep' /\ NothingLeftOver' /\ PipesInStep'
  BY StKeepsTheRest DEF StepInv, Types
<1>3. CASE FailToStart
  <2>1. server = "booting" /\ stdout = << >> /\ current = Idle /\ stdin = << >>
    BY <1>1, <1>3 DEF FailToStart, BootInStep
  <2>2. stdout' \in Seq(Replies) /\ Len(stdout') <= 1
    <3>1. stdout' = << >> \/ stdout' = <<Complaint>>
      BY <1>3, <2>1 DEF FailToStart
    <3>2. Complaint \in Replies
      BY DEF Replies
    <3>3. << >> \in Seq(Replies) /\ <<Complaint>> \in Seq(Replies)
      BY <3>2
    <3>4. Len(<< >>) = 0 /\ Len(<<Complaint>>) = 1
      OBVIOUS
    <3>5. CASE stdout' = << >>
      BY <3>3, <3>4, <3>5
    <3>6. CASE stdout' = <<Complaint>>
      BY <3>3, <3>4, <3>6
    <3>. QED
      BY <3>1, <3>5, <3>6
  <2>3. PipeTypes'
    BY <1>1, <1>3, <2>2 DEF FailToStart, PipeTypes
  <2>4. PipesOpen' /\ BootInStep' /\ NothingLeftOver' /\ PipesInStep'
    BY <1>1, <1>3, <2>1, <2>2, StKeepsTheRest
       DEF FailToStart, BootInStep, PipesOpen, NothingLeftOver, PipesInStep
  <2>. QED
    BY <1>2, <2>3, <2>4
<1>4. CASE Crash
  <2>1. PipeTypes'
    BY <1>1, <1>4 DEF Crash, PipeTypes
  <2>2. PipesOpen' /\ BootInStep' /\ NothingLeftOver' /\ PipesInStep'
    BY <1>1, <1>4, StKeepsTheRest
       DEF Crash, BootInStep, PipesOpen, NothingLeftOver, PipesInStep
  <2>. QED
    BY <1>2, <2>1, <2>2
<1>. QED
  BY <1>3, <1>4 DEF StFail

-----------------------------------------------------------------------------
(***************************************************************************)
(* Start-up, and the end of the process.                                   *)
(***************************************************************************)

LEMMA ExitInStep ==
  ASSUME StepInv, server # "booting", Exit, stdin' \in Seq(Lines),
         (DOMAIN disk = Paths /\ disk["wav"] \in Audios /\ disk["dict"] \in Glossaries)',
         UNCHANGED <<audioVars, clientVars>>
  PROVE  StepInv'
<1>1. PipeTypes' /\ ServerTypes'
  BY DEF StepInv, Types, PipeTypes, ServerTypes, Exit
<1>2. ConnTypes' /\ ClientTypes' /\ AudioTypes' /\ InboxTypes'
  <2>1. << >> \in Seq(Messages) /\ Len(<< >>) = 0
    OBVIOUS
  <2>2. ConnTypes'
    BY <2>1 DEF StepInv, Types, ConnTypes, Exit
  <2>3. ClientTypes' /\ AudioTypes'
    BY <2>1, BoundsAssumption
       DEF StepInv, Types, ClientTypes, AudioTypes, Exit, audioVars, clientVars
  <2>4. InboxTypes'
    BY <2>1 DEF InboxTypes, Exit
  <2>. QED
    BY <2>2, <2>3, <2>4
<1>3. HandlersInStep' /\ AudioChecked'
  BY DEF StepInv, HandlersInStep, AudioChecked, Exit, audioVars
<1>4. PipesOpen' /\ BootInStep' /\ NothingLeftOver' /\ PipesInStep'
  BY DEF StepInv, PipesOpen, BootInStep, NothingLeftOver, PipesInStep, Exit
<1>. QED
  BY <1>1, <1>2, <1>3, <1>4 DEF StepInv, Types

\* What the two counts of lines say when nobody waits, and when somebody does.
LEMMA PipesCounted ==
  ASSUME StepInv, server \in {"warming", "warmup", "serving"}
  PROVE  /\ Len(stdin) \in Nat /\ Len(stdout) \in Nat
         /\ ~ Waiting => Len(stdout) = 0
         /\ ~ Waiting /\ stProc = "serving" => Len(stdin) = 0 /\ current = Idle
         /\ Waiting => Len(stdout) <= 1
         /\ stProc = "serving" /\ Len(stdout) = 1 => Len(stdin) = 0 /\ current = Idle
<1>. DEFINE in   == Len(stdin)
            out  == Len(stdout)
            busy == IF current = Idle THEN 0 ELSE 1
<1>1. in \in Nat /\ out \in Nat
  BY DEF StepInv, Types, PipeTypes
<1>2. /\ busy \in {0, 1} /\ (busy = 0 => current = Idle)
      /\ out <= (IF Waiting THEN 1 ELSE 0)
      /\ stProc = "serving" => in + out + busy = (IF Waiting THEN 1 ELSE 0)
  BY DEF StepInv, NothingLeftOver, PipesInStep
<1>. HIDE DEF in, out, busy
<1>3. CASE Waiting
  <2>1. out <= 1 /\ (stProc = "serving" => in + out + busy = 1)
    BY <1>2, <1>3
  <2>2. stProc = "serving" /\ out = 1 => in = 0 /\ busy = 0
    BY <1>1, <1>2, <2>1
  <2>. QED
    BY <1>1, <1>2, <1>3, <2>1, <2>2 DEF in, out
<1>4. CASE ~ Waiting
  <2>1. out <= 0 /\ (stProc = "serving" => in + out + busy = 0)
    BY <1>2, <1>4
  <2>2. out = 0 /\ (stProc = "serving" => in = 0 /\ busy = 0)
    BY <1>1, <1>2, <2>1
  <2>. QED
    BY <1>1, <1>2, <1>4, <2>2 DEF in, out
<1>. QED
  BY <1>3, <1>4

\* The same in reverse, after a step.
LEMMA CountedPipes ==
  ASSUME Len(stdout') \in Nat,
         ~ Waiting' => /\ Len(stdout') = 0
                       /\ stProc' = "serving" => Len(stdin') = 0 /\ current' = Idle,
         Waiting' => /\ Len(stdout') <= 1
                     /\ stProc' = "serving" => Len(stdout') = 0 /\ Len(stdin') = 1 /\ current' = Idle
  PROVE  NothingLeftOver' /\ PipesInStep'
<1>1. CASE Waiting'
  <2>1. NothingLeftOver'
    BY <1>1 DEF NothingLeftOver
  <2>2. stProc' = "serving" =>
          Len(stdin') + Len(stdout') + (IF current' = Idle THEN 0 ELSE 1) = 1
    BY <1>1
  <2>. QED
    BY <1>1, <2>1, <2>2 DEF PipesInStep
<1>2. CASE ~ Waiting'
  <2>1. NothingLeftOver'
    BY <1>2 DEF NothingLeftOver
  <2>2. stProc' = "serving" =>
          Len(stdin') + Len(stdout') + (IF current' = Idle THEN 0 ELSE 1) = 0
    BY <1>2
  <2>. QED
    BY <1>2, <2>1, <2>2 DEF PipesInStep
<1>. QED
  BY <1>1, <1>2

\* Reading a line leaves one less.
LEMMA LineTaken ==
  ASSUME StepInv, HasLine, TakeLine
  PROVE  /\ Head(stdout) \in Replies /\ stdout' \in Seq(Replies)
         /\ Len(stdout') = Len(stdout) - 1 /\ Len(stdout) \in Nat \ {0}
         /\ Len(stdout) = 1 => stdout' = << >> /\ stdout = <<Head(stdout)>>
<1>1. stdout \in Seq(Replies) /\ stdout # << >> /\ stdout' = Tail(stdout)
  BY DEF StepInv, Types, PipeTypes, HasLine, TakeLine
<1>. QED
  BY <1>1

LEMMA BootReadInStep ==
  ASSUME StepInv, BootRead
  PROVE  StepInv'
<1>1. /\ PipeTypes /\ ServerTypes /\ PipesOpen /\ BootInStep
      /\ stdin = << >> /\ current = Idle /\ Len(stdout) <= 1
      /\ stProc = "serving" => stdout = <<Banner>>
      /\ stProc = "starting" => stdout = << >>
      /\ ~ Waiting /\ ~ Waiting'
  BY DEF StepInv, Types, BootRead, BootInStep, HandlersInStep, Waiting, connVars
<1>2. /\ UNCHANGED <<stProc, stdin, stdinOpen, stdoutOpen, current, loadedDicts, disk, warmups,
                     connVars, audioVars, clientVars>>
      /\ server' \in {"warming", "serving"}
      /\ (HasLine /\ TakeLine) \/ (AtEof /\ stdout' = stdout)
  BY DEF BootRead, stVars, TakeLine
<1>3. stdout' = << >> /\ stProc # "starting"
  <2>1. CASE HasLine /\ TakeLine
    BY <1>1, <2>1, LineTaken DEF HasLine
  <2>2. CASE AtEof /\ stdout' = stdout
    BY <2>2 DEF AtEof
  <2>. QED
    BY <1>2, <2>1, <2>2
<1>4. PipeTypes' /\ ServerTypes'
  <2>1. << >> \in Seq(Replies)
    OBVIOUS
  <2>2. warmups # 0
    BY DEF StepInv, Types, BootRead, ServerTypes
  <2>. QED
    BY <1>1, <1>2, <1>3, <2>1, <2>2 DEF PipeTypes, ServerTypes
<1>5. (ConnTypes /\ ClientTypes /\ AudioTypes /\ InboxTypes /\ AudioChecked)'
  BY <1>2 DEF StepInv, Types, ConnTypes, ClientTypes, AudioTypes, InboxTypes, AudioChecked,
              connVars, audioVars, clientVars
<1>6. HandlersInStep'
  BY <1>2 DEF StepInv, BootRead, HandlersInStep, connVars
<1>7. PipesOpen' /\ BootInStep' /\ NothingLeftOver' /\ PipesInStep'
  BY <1>1, <1>2, <1>3 DEF PipesOpen, BootInStep, NothingLeftOver, PipesInStep, AtEof, HasLine, BootRead
<1>. QED
  BY <1>4, <1>5, <1>6, <1>7 DEF StepInv, Types

\* Writing a line leaves one more.
LEMMA LineWritten ==
  ASSUME StepInv, NEW line \in Requests, WriteToSt(line)
  PROVE  /\ stdin' \in Seq(Lines) /\ Len(stdin') = Len(stdin) + 1 /\ Len(stdin) \in Nat
         /\ server # "exited" => \A i \in 1 .. Len(stdin') : stdin'[i] \in Requests
<1>1. stdin \in Seq(Lines) /\ line \in Lines /\ stdin' = Append(stdin, line)
  BY DEF StepInv, Types, PipeTypes, WriteToSt, Lines
<1>. QED
  BY <1>1 DEF StepInv, PipesOpen

LEMMA WarmUpSendInStep ==
  ASSUME StepInv, WarmUpSend
  PROVE  StepInv'
<1>1. server = "warming" /\ ~ Waiting
  BY DEF StepInv, WarmUpSend, HandlersInStep, Waiting
<1>2. (DOMAIN disk = Paths /\ disk["wav"] \in Audios /\ disk["dict"] \in Glossaries)'
  <2>1. <<WarmUp>> \in Seq(Nat)
    OBVIOUS
  <2>. QED
    BY <2>1 DEF StepInv, Types, PipeTypes, WarmUpSend, Audios
<1>3. UNCHANGED <<audioVars, clientVars>>
  BY DEF WarmUpSend
<1>4. CASE WriteToSt(Request("wav", langs, NoPath)) /\ server' = "warmup"
           /\ UNCHANGED <<warmups, connVars>>
  <2>1. Request("wav", langs, NoPath) \in Requests
    BY BoundsAssumption DEF StepInv, Types, ClientTypes, AudioTypes, Request, Requests
  <2>2. /\ stdin' \in Seq(Lines) /\ Len(stdin') = Len(stdin) + 1 /\ Len(stdin) \in Nat
        /\ \A i \in 1 .. Len(stdin') : stdin'[i] \in Requests
    BY <1>1, <1>4, <2>1, LineWritten
  <2>3. PipeTypes' /\ ServerTypes'
    BY <1>1, <1>2, <1>4, <2>2 DEF StepInv, Types, PipeTypes, ServerTypes, WriteToSt
  <2>4. (ConnTypes /\ ClientTypes /\ AudioTypes /\ InboxTypes /\ AudioChecked)'
    BY <1>3, <1>4 DEF StepInv, Types, ConnTypes, ClientTypes, AudioTypes, InboxTypes, AudioChecked,
                connVars, audioVars, clientVars
  <2>5. HandlersInStep' /\ Waiting'
    BY <1>1, <1>4 DEF StepInv, HandlersInStep, connVars, Waiting
  <2>6. PipesOpen' /\ BootInStep'
    BY <1>1, <1>4, <2>2 DEF StepInv, PipesOpen, BootInStep, WriteToSt
  <2>7. NothingLeftOver' /\ PipesInStep'
    <3>1. UNCHANGED <<stProc, stdout, current>> /\ stProc # "exited"
      BY <1>4 DEF WriteToSt
    <3>2. stProc = "serving"
      BY <1>1, <3>1 DEF StepInv, Types, PipeTypes, BootInStep
    <3>3. Len(stdout) = 0 /\ Len(stdin) = 0 /\ current = Idle
      BY <1>1, <3>2, PipesCounted
    <3>. QED
      BY <2>2, <2>5, <3>1, <3>3, CountedPipes
  <2>. QED
    BY <2>3, <2>4, <2>5, <2>6, <2>7 DEF StepInv, Types
<1>5. CASE Exit /\ UNCHANGED stdin
  BY <1>1, <1>2, <1>3, <1>5, ExitInStep DEF StepInv, Types, PipeTypes
<1>. QED
  BY <1>4, <1>5 DEF WarmUpSend

LEMMA WarmUpReceiveInStep ==
  ASSUME StepInv, WarmUpReceive
  PROVE  StepInv'
<1>1. server = "warmup" /\ Waiting /\ warmups \in 1 .. 3 /\ \A c \in Connections : handler[c] = "recv"
  BY DEF StepInv, Types, ServerTypes, WarmUpReceive, HandlersInStep, Waiting
<1>2. UNCHANGED <<disk, audioVars, clientVars>>
  BY DEF WarmUpReceive
<1>3. CASE /\ HasLine /\ TakeLine /\ warmups' = warmups - 1
           /\ server' = IF warmups = 1 THEN "serving" ELSE "warming"
           /\ UNCHANGED connVars
  <2>1. ~ Waiting'
    BY <1>1, <1>3 DEF Waiting, connVars
  <2>2. PipeTypes' /\ ServerTypes'
    BY <1>1, <1>2, <1>3, LineTaken DEF StepInv, Types, PipeTypes, ServerTypes, TakeLine
  <2>3. (ConnTypes /\ ClientTypes /\ AudioTypes /\ InboxTypes /\ AudioChecked)'
    BY <1>2, <1>3 DEF StepInv, Types, ConnTypes, ClientTypes, AudioTypes, InboxTypes, AudioChecked,
                connVars, audioVars, clientVars
  <2>4. HandlersInStep'
    BY <1>1, <1>3 DEF StepInv, HandlersInStep, connVars
  <2>5. PipesOpen' /\ BootInStep'
    BY <1>1, <1>3 DEF StepInv, PipesOpen, BootInStep, TakeLine
  <2>6. NothingLeftOver' /\ PipesInStep'
    <3>1. UNCHANGED <<stProc, stdin, current>>
      BY <1>3 DEF TakeLine
    <3>2. Len(stdout) = 1 /\ Len(stdout') = 0
      BY <1>1, <1>3, LineTaken, PipesCounted
    <3>3. stProc = "serving" => Len(stdin) = 0 /\ current = Idle
      BY <1>1, <3>2, PipesCounted
    <3>. QED
      BY <2>1, <3>1, <3>2, <3>3, CountedPipes
  <2>. QED
    BY <2>2, <2>3, <2>4, <2>5, <2>6 DEF StepInv, Types
<1>4. CASE Exit /\ UNCHANGED stdin
  BY <1>1, <1>2, <1>4, ExitInStep DEF StepInv, Types, PipeTypes
<1>. QED
  BY <1>3, <1>4 DEF WarmUpReceive

-----------------------------------------------------------------------------
(***************************************************************************)
(* The clients.                                                            *)
(***************************************************************************)

\* What does not concern the pipes keeps what is said of them.
LEMMA PipesKept ==
  ASSUME StepInv, UNCHANGED <<stVars, serverVars>>, Waiting' = Waiting,
         (DOMAIN disk = Paths /\ disk["wav"] \in Audios /\ disk["dict"] \in Glossaries)'
  PROVE  /\ PipeTypes' /\ ServerTypes' /\ PipesOpen' /\ BootInStep'
         /\ NothingLeftOver' /\ PipesInStep'
  BY DEF StepInv, stVars, serverVars, Types, PipeTypes, ServerTypes, PipesOpen, BootInStep,
         NothingLeftOver, PipesInStep

LEMMA DiskTypes ==
  ASSUME StepInv
  PROVE  DOMAIN disk = Paths /\ disk["wav"] \in Audios /\ disk["dict"] \in Glossaries
  BY DEF StepInv, Types, PipeTypes

LEMMA ConnectInStep ==
  ASSUME StepInv, NEW c \in Connections, Connect(c) \/ Leave(c)
  PROVE  StepInv'
<1>1. /\ UNCHANGED <<stVars, disk, serverVars, inbox, outbox, handler, audioVars, clientVars>>
      /\ conn' \in [Connections -> {"off", "open", "closing", "closed"}]
      /\ \A k \in Connections : conn'[k] \in {"off", "closed"} => conn[k] \in {"off", "closed"}
  BY DEF StepInv, Types, ConnTypes, Connect, Leave
<1>2. Waiting' = Waiting
  BY <1>1 DEF serverVars, Waiting
<1>3. (ConnTypes /\ ClientTypes /\ AudioTypes /\ InboxTypes /\ AudioChecked)'
  BY <1>1 DEF StepInv, Types, ConnTypes, ClientTypes, AudioTypes, InboxTypes, AudioChecked,
              audioVars, clientVars
<1>4. HandlersInStep'
  BY <1>1 DEF StepInv, HandlersInStep, serverVars
<1>. QED
  BY <1>1, <1>2, <1>3, <1>4, PipesKept, DiskTypes DEF StepInv, Types

LEMMA ClientSendInStep ==
  ASSUME StepInv, NEW c \in Connections, ClientSend(c)
  PROVE  StepInv'
<1>1. PICK kind \in Kinds :
        /\ kind \in {"chunk", "end"} => session[c] # 0
        /\ kind \in StartKinds => sessions < MaxSessions
        /\ sessions' = IF kind \in StartKinds THEN sessions + 1 ELSE sessions
        /\ session' = [session EXCEPT ![c] = CASE kind \in StartKinds -> sessions'
                                               [] kind = "end"       -> 0
                                               [] OTHER              -> @]
        /\ inbox' = [inbox EXCEPT ![c] =
                       Append(@, [kind |-> kind,
                                  id |-> IF kind = "end" THEN session[c] ELSE session'[c]])]
  BY DEF ClientSend
<1>2. /\ conn[c] = "open" /\ sent[c] < MaxMessages /\ sent' = [sent EXCEPT ![c] = @ + 1]
      /\ UNCHANGED <<stVars, disk, serverVars, conn, outbox, handler, audioVars>>
  BY DEF ClientSend
<1>. DEFINE m == [kind |-> kind, id |-> IF kind = "end" THEN session[c] ELSE session'[c]]
<1>3. /\ sessions \in Nat /\ sessions' \in Nat /\ sessions <= sessions' /\ sessions' <= MaxSessions
      /\ kind \in StartKinds => sessions' # 0
      /\ session \in [Connections -> 0 .. sessions]
  BY <1>1, BoundsAssumption DEF StepInv, Types, ClientTypes
<1>4. session' \in [Connections -> 0 .. sessions'] /\ (kind # "end" => session'[c] =
        IF kind \in StartKinds THEN sessions' ELSE session[c])
  BY <1>1, <1>3
<1>5. m.id \in 0 .. sessions' /\ (m.kind \in {"chunk", "end"} => m.id # 0) /\ m \in Messages
  BY <1>1, <1>3, <1>4 DEF Messages, StartKinds
<1>. HIDE DEF m
<1>6. /\ inbox[c] \in Seq(Messages) /\ inbox' = [inbox EXCEPT ![c] = Append(inbox[c], m)]
      /\ inbox \in [Connections -> Seq(Messages)]
  BY <1>1 DEF StepInv, Types, ConnTypes, m
<1>7. /\ Append(inbox[c], m) \in Seq(Messages) /\ Len(inbox[c]) \in Nat
      /\ Len(Append(inbox[c], m)) = Len(inbox[c]) + 1
      /\ \A i \in 1 .. Len(inbox[c]) : Append(inbox[c], m)[i] = inbox[c][i]
      /\ Append(inbox[c], m)[Len(inbox[c]) + 1] = m
      /\ Append(inbox[c], m) # << >>
      /\ inbox[c] # << >> => Head(Append(inbox[c], m)) = Head(inbox[c])
  BY <1>5, <1>6, AppendProperties, HeadTailAppend
<1>8. ConnTypes'
  BY <1>2, <1>6, <1>7 DEF StepInv, Types, ConnTypes
<1>9. ClientTypes' /\ AudioTypes'
  <2>1. sent' \in [Connections -> 0 .. MaxMessages] /\ sent'[c] = sent[c] + 1
    BY <1>2, BoundsAssumption DEF StepInv, Types, ClientTypes
  <2>2. \A k \in Connections : Len(inbox'[k]) <= sent'[k]
    BY <1>2, <1>6, <1>7, <2>1, BoundsAssumption DEF StepInv, Types, ClientTypes
  <2>3. 1 .. sessions \subseteq 1 .. sessions' /\ 0 .. sessions \subseteq 0 .. sessions'
    BY <1>3
  <2>4. langs' \in 0 .. sessions' /\ audioBuffer' \in Seq(1 .. sessions')
    BY <1>2, <2>3, SeqMonotonic DEF StepInv, Types, AudioTypes, audioVars
  <2>5. sessions' \in 0 .. MaxSessions
    BY <1>3, BoundsAssumption
  <2>6. ClientTypes'
    BY <1>4, <2>1, <2>2, <2>5 DEF ClientTypes
  <2>7. AudioTypes'
    BY <1>2, <2>4 DEF StepInv, Types, AudioTypes, audioVars
  <2>. QED
    BY <2>6, <2>7
<1>10. InboxTypes'
  <2>1. ASSUME NEW k \in Connections, NEW i \in 1 .. Len(inbox'[k])
        PROVE  /\ inbox'[k][i].id \in 0 .. sessions'
               /\ inbox'[k][i].kind \in {"chunk", "end"} => inbox'[k][i].id # 0
    <3>1. CASE k = c /\ i = Len(inbox[c]) + 1
      BY <1>5, <1>6, <1>7, <3>1
    <3>2. CASE ~ (k = c /\ i = Len(inbox[c]) + 1)
      <4>1. i \in 1 .. Len(inbox[k]) /\ inbox'[k][i] = inbox[k][i]
        BY <1>6, <1>7, <3>2
      <4>2. inbox[k][i].id \in 0 .. sessions /\ (inbox[k][i].kind \in {"chunk", "end"} => inbox[k][i].id # 0)
        BY <4>1 DEF StepInv, Types, InboxTypes
      <4>. QED
        BY <1>3, <4>1, <4>2
    <3>. QED
      BY <3>1, <3>2
  <2>. QED
    BY <2>1 DEF InboxTypes
<1>11. HandlersInStep' /\ AudioChecked' /\ Waiting' = Waiting
  <2>1. \A k \in Connections :
          /\ conn[k] # "open" => inbox'[k] = inbox[k]
          /\ inbox[k] # << >> => inbox'[k] # << >> /\ Head(inbox'[k]) = Head(inbox[k])
    BY <1>2, <1>6, <1>7
  <2>. QED
    BY <1>2, <2>1 DEF StepInv, HandlersInStep, AudioChecked, serverVars, audioVars, Waiting
<1>. QED
  BY <1>2, <1>8, <1>9, <1>10, <1>11, PipesKept, DiskTypes DEF StepInv, Types

-----------------------------------------------------------------------------
(***************************************************************************)
(* The handlers.                                                           *)
(***************************************************************************)

\* What a handler leaves of its connection, when it is done with a message or
\* dies, and of the others.
ConnAfter(c) ==
  /\ conn' \in [Connections -> {"off", "open", "closing", "closed"}]
  /\ inbox' \in [Connections -> Seq(Messages)]
  /\ outbox' \in [Connections -> Seq(Sent)]
  /\ \A k \in Connections \ {c} : inbox'[k] = inbox[k] /\ conn'[k] = conn[k]
  /\ \/ inbox'[c] = << >>
     \/ inbox'[c] = Tail(inbox[c]) /\ conn'[c] = conn[c]

LEMMA FinishesOrDies ==
  ASSUME StepInv, NEW c \in Connections, inbox[c] # << >>,
         Dies(c) \/ \E messages \in Seq(Sent) : Finishes(c, messages)
  PROVE  ConnAfter(c)
<1>1. CASE Dies(c)
  <2>1. << >> \in Seq(Messages)
    OBVIOUS
  <2>. QED
    BY <1>1, <2>1 DEF StepInv, Types, ConnTypes, Dies, ConnAfter
<1>2. ASSUME NEW messages \in Seq(Sent), Finishes(c, messages), ~ Dies(c)
      PROVE  ConnAfter(c)
  <2>1. /\ outbox' = [outbox EXCEPT ![c] = outbox[c] \o messages]
        /\ inbox' = [inbox EXCEPT ![c] = Tail(inbox[c])]
        /\ UNCHANGED conn
    BY <1>2 DEF Finishes
  <2>2. inbox[c] \in Seq(Messages) /\ outbox[c] \in Seq(Sent)
    BY DEF StepInv, Types, ConnTypes
  <2>3. Tail(inbox[c]) \in Seq(Messages) /\ outbox[c] \o messages \in Seq(Sent)
    BY <2>2, HeadTailProperties, ConcatProperties
  <2>. QED
    BY <2>1, <2>3 DEF StepInv, Types, ConnTypes, ConnAfter
<1>. QED
  BY <1>1, <1>2

\* A message less, or none, in one of the inboxes.
LEMMA InboxesAfter ==
  ASSUME StepInv, NEW c \in Connections, inbox[c] # << >>, ConnAfter(c), UNCHANGED clientVars,
         handler' \in [Connections -> {"recv", "chunk", "end"}]
  PROVE  (ConnTypes /\ ClientTypes /\ InboxTypes)'
<1>1. \A k \in Connections : /\ inbox[k] \in Seq(Messages) /\ Len(inbox[k]) \in Nat
                             /\ Len(inbox[k]) <= sent[k] /\ sent[k] \in 0 .. MaxMessages
  BY DEF StepInv, Types, ConnTypes, ClientTypes
<1>2. ASSUME NEW k \in Connections
      PROVE  /\ Len(inbox'[k]) \in Nat /\ Len(inbox'[k]) <= Len(inbox[k])
             /\ \A i \in 1 .. Len(inbox'[k]) : \E j \in 1 .. Len(inbox[k]) : inbox'[k][i] = inbox[k][j]
  <2>1. CASE inbox'[k] = inbox[k]
    BY <1>1, <2>1
  <2>2. CASE k = c /\ inbox'[c] = << >>
    BY <1>1, <2>2
  <2>3. CASE k = c /\ inbox'[c] = Tail(inbox[c])
    <3>1. /\ Len(Tail(inbox[c])) = Len(inbox[c]) - 1 /\ Len(inbox[c]) \in Nat \ {0}
          /\ \A i \in 1 .. Len(Tail(inbox[c])) : Tail(inbox[c])[i] = inbox[c][i + 1]
      BY <1>1, HeadTailProperties, EmptySeq
    <3>. QED
      BY <2>3, <3>1
  <2>. QED
    BY <2>1, <2>2, <2>3 DEF ConnAfter
<1>3. ConnTypes'
  BY DEF StepInv, Types, ConnTypes, ConnAfter
<1>4. ClientTypes'
  BY <1>1, <1>2, BoundsAssumption DEF StepInv, Types, ClientTypes, clientVars
<1>5. InboxTypes'
  <2>1. ASSUME NEW k \in Connections, NEW i \in 1 .. Len(inbox'[k])
        PROVE  /\ inbox'[k][i].id \in 0 .. sessions'
               /\ inbox'[k][i].kind \in {"chunk", "end"} => inbox'[k][i].id # 0
    <3>1. PICK j \in 1 .. Len(inbox[k]) : inbox'[k][i] = inbox[k][j]
      BY <1>2
    <3>. QED
      BY <3>1 DEF StepInv, Types, InboxTypes, clientVars
  <2>. QED
    BY <2>1 DEF InboxTypes
<1>. QED
  BY <1>3, <1>4, <1>5

\* A handler that was given a message and does not wait.
LEMMA HandledInStep ==
  ASSUME StepInv, NEW c \in Connections, NEW kinds, Receives(c, kinds), ConnAfter(c),
         conn'[c] \in {"off", "closed"} => inbox'[c] = << >>,
         UNCHANGED <<stVars, serverVars, handler, clientVars>>,
         (DOMAIN disk = Paths /\ disk["wav"] \in Audios /\ disk["dict"] \in Glossaries)',
         AudioTypes', (~ checkAudio(Len(audioBuffer), FALSE, lastSentEndSec).sends)'
  PROVE  StepInv'
<1>1. inbox[c] # << >> /\ ~ Waiting /\ server = "serving"
  BY DEF Receives
<1>2. \A k \in Connections : handler[k] = "recv"
  BY <1>1 DEF Waiting
<1>3. (ConnTypes /\ ClientTypes /\ InboxTypes)'
  BY <1>1, InboxesAfter DEF StepInv, Types, ConnTypes
<1>4. HandlersInStep'
  BY <1>2 DEF StepInv, HandlersInStep, ConnAfter
<1>5. AudioChecked' /\ Waiting' = Waiting
  BY <1>2 DEF AudioChecked, Waiting, serverVars
<1>. QED
  BY <1>3, <1>4, <1>5, PipesKept DEF StepInv, Types

LEMMA ClosedIsEmpty ==
  ASSUME StepInv, NEW c \in Connections, conn[c] \in {"open", "closing"},
         Dies(c) \/ \E messages \in Seq(Sent) : Finishes(c, messages)
  PROVE  conn'[c] \in {"off", "closed"} => inbox'[c] = << >>
  BY DEF StepInv, Types, ConnTypes, Dies, Finishes

\* Messages that are answered, or refused, and change nothing else.
LEMMA SimpleInStep ==
  ASSUME StepInv, NEW c \in Connections,
         ReceiveUnknown(c) \/ ReceiveLogged(c) \/ ReceiveMalformed(c)
  PROVE  StepInv'
<1>1. PICK kinds : Receives(c, kinds)
  BY DEF ReceiveUnknown, ReceiveLogged, ReceiveMalformed
<1>2. Dies(c) \/ \E messages \in Seq(Sent) : Finishes(c, messages)
  <2>1. <<Response(1)>> \in Seq(Sent) /\ << >> \in Seq(Sent)
    BY DEF Response, Sent
  <2>. QED
    BY <2>1 DEF ReceiveUnknown, ReceiveLogged, ReceiveMalformed
<1>3. UNCHANGED <<stVars, disk, serverVars, handler, audioVars, clientVars>>
  BY DEF ReceiveUnknown, ReceiveLogged, ReceiveMalformed
<1>4. AudioTypes' /\ (~ checkAudio(Len(audioBuffer), FALSE, lastSentEndSec).sends)'
  BY <1>3 DEF StepInv, Types, AudioTypes, AudioChecked, audioVars, clientVars
<1>5. ConnAfter(c) /\ (conn'[c] \in {"off", "closed"} => inbox'[c] = << >>)
  BY <1>1, <1>2, FinishesOrDies, ClosedIsEmpty DEF Receives
<1>. QED
  BY <1>1, <1>3, <1>4, <1>5, HandledInStep, DiskTypes

LEMMA HeadOfInbox ==
  ASSUME StepInv, NEW c \in Connections, inbox[c] # << >>
  PROVE  /\ Head(inbox[c]) \in Messages /\ Head(inbox[c]).id \in 0 .. sessions
         /\ Head(inbox[c]).kind \in {"chunk", "end"} => Head(inbox[c]).id # 0
<1>1. inbox[c] \in Seq(Messages)
  BY DEF StepInv, Types, ConnTypes
<1>2. Head(inbox[c]) \in Messages /\ 1 \in 1 .. Len(inbox[c]) /\ Head(inbox[c]) = inbox[c][1]
  BY <1>1
<1>. QED
  BY <1>2 DEF StepInv, Types, InboxTypes

LEMMA StartInStep ==
  ASSUME StepInv, NEW c \in Connections, ReceiveStart(c) \/ ReceiveBadGloss(c)
  PROVE  StepInv'
<1>. DEFINE m == Head(inbox[c])
<1>1. PICK kinds : Receives(c, kinds)
  BY DEF ReceiveStart, ReceiveBadGloss
<1>2. conn[c] \in {"open", "closing"} /\ inbox[c] # << >> /\ m.id \in 0 .. sessions
  BY <1>1, HeadOfInbox DEF Receives
<1>3. Dies(c) \/ \E messages \in Seq(Sent) : Finishes(c, messages)
  <2>1. <<Response(0)>> \in Seq(Sent)
    BY DEF Response, Sent
  <2>. QED
    BY <2>1 DEF ReceiveStart, ReceiveBadGloss
<1>4. UNCHANGED <<stVars, serverVars, handler, lastSentEndSec, clientVars>> /\ langs' = m.id
  BY DEF ReceiveStart, ReceiveBadGloss
<1>5. (DOMAIN disk = Paths /\ disk["wav"] \in Audios /\ disk["dict"] \in Glossaries)'
  <2>1. sessions \in Nat
    BY BoundsAssumption DEF StepInv, Types, ClientTypes
  <2>2. \E g \in Glossaries : disk' = [disk EXCEPT !["dict"] = g]
    BY <1>2, <2>1 DEF ReceiveStart, ReceiveBadGloss, Glossaries
  <2>. QED
    BY <2>2, DiskTypes
<1>6. audioBuffer' = << >> \/ audioBuffer' = audioBuffer
  BY DEF ReceiveStart, ReceiveBadGloss
<1>7. AudioTypes'
  <2>1. << >> \in Seq(1 .. sessions)
    OBVIOUS
  <2>. QED
    BY <1>2, <1>4, <1>6, <2>1 DEF StepInv, Types, AudioTypes, clientVars
<1>8. (~ checkAudio(Len(audioBuffer), FALSE, lastSentEndSec).sends)'
  <2>1. lastSentEndSec \in Int
    BY DEF StepInv, Types, AudioTypes
  <2>2. ~ checkAudio(0, FALSE, lastSentEndSec).sends
    BY <2>1, NothingToSend
  <2>3. CASE audioBuffer' = << >>
    BY <1>4, <2>2, <2>3
  <2>4. CASE audioBuffer' = audioBuffer
    BY <1>4, <2>4 DEF StepInv, AudioChecked
  <2>. QED
    BY <1>6, <2>3, <2>4
<1>9. ConnAfter(c) /\ (conn'[c] \in {"off", "closed"} => inbox'[c] = << >>)
  BY <1>2, <1>3, FinishesOrDies, ClosedIsEmpty
<1>. QED
  BY <1>1, <1>4, <1>5, <1>7, <1>8, <1>9, HandledInStep

\* Nothing to forget keeps anything from being right.
LEMMA ForgetTypes ==
  ASSUME ForgetSession
  PROVE  (DOMAIN disk = Paths /\ disk["wav"] \in Audios /\ disk["dict"] \in Glossaries)'
  BY DEF ForgetSession, Audios, Glossaries

\* The process that is told to stop.
LEMMA ShutdownInStep ==
  ASSUME StepInv, NEW c \in Connections, ReceiveShutdown(c)
  PROVE  StepInv'
<1>1. /\ Receives(c, {"shutdown"}) /\ server = "serving"
      /\ conn[c] \in {"open", "closing"} /\ inbox[c] # << >>
      /\ UNCHANGED <<audioVars, clientVars>>
  BY DEF ReceiveShutdown, Receives
<1>2. CASE /\ stdin' = Append(stdin, ShutdownCommand)
           /\ disk' = [p \in Paths |-> Absent]
           /\ Exit
  <2>1. stdin' \in Seq(Lines)
    <3>1. stdin \in Seq(Lines) /\ ShutdownCommand \in Lines
      BY DEF StepInv, Types, PipeTypes, Lines
    <3>. QED
      BY <1>2, <3>1
  <2>2. (DOMAIN disk = Paths /\ disk["wav"] \in Audios /\ disk["dict"] \in Glossaries)'
    BY <1>2 DEF Audios, Glossaries
  <2>. QED
    BY <1>1, <1>2, <2>1, <2>2, ExitInStep
<1>3. CASE Dies(c) /\ UNCHANGED <<stVars, disk, serverVars, handler>>
  <2>1. AudioTypes' /\ (~ checkAudio(Len(audioBuffer), FALSE, lastSentEndSec).sends)'
    BY <1>1 DEF StepInv, Types, AudioTypes, AudioChecked, audioVars, clientVars
  <2>2. ConnAfter(c) /\ (conn'[c] \in {"off", "closed"} => inbox'[c] = << >>)
    BY <1>1, <1>3, FinishesOrDies, ClosedIsEmpty
  <2>. QED
    BY <1>1, <1>3, <2>1, <2>2, HandledInStep, DiskTypes
<1>. QED
  BY <1>2, <1>3 DEF ReceiveShutdown

LEMMA NoticeLeftInStep ==
  ASSUME StepInv, NEW c \in Connections, NoticeLeft(c)
  PROVE  StepInv'
<1>1. /\ UNCHANGED <<stVars, disk, serverVars, inbox, outbox, handler, audioVars, clientVars>>
      /\ conn' = [conn EXCEPT ![c] = "closed"] /\ inbox[c] = << >>
      /\ \A k \in Connections : handler[k] = "recv"
  BY DEF NoticeLeft, Waiting
<1>2. Waiting' = Waiting
  BY <1>1 DEF serverVars, Waiting
<1>3. (ConnTypes /\ ClientTypes /\ AudioTypes /\ InboxTypes /\ AudioChecked)'
  BY <1>1 DEF StepInv, Types, ConnTypes, ClientTypes, AudioTypes, InboxTypes, AudioChecked,
              audioVars, clientVars
<1>4. HandlersInStep'
  BY <1>1 DEF StepInv, Types, ConnTypes, HandlersInStep
<1>. QED
  BY <1>1, <1>2, <1>3, <1>4, PipesKept, DiskTypes DEF StepInv, Types

-----------------------------------------------------------------------------
(***************************************************************************)
(* Audio.                                                                  *)
(***************************************************************************)

\* Checking audio leaves a cursor at which it is not sent again, and the slice
\* sent is audio.
LEMMA CheckInStep ==
  ASSUME StepInv, NEW buffer \in Seq(1 .. sessions),
         NEW check, check = checkAudio(Len(buffer), FALSE, lastSentEndSec)
  PROVE  /\ check.last \in {NothingSent} \cup Nat
         /\ ~ checkAudio(Len(buffer), FALSE, check.last).sends
         /\ check.sends =>
              SubSeq(buffer, SliceIndex(Len(buffer), check.from) + 1,
                             SliceIndex(Len(buffer), check.to)) \in Seq(Nat)
<1>. DEFINE sh  == FALSE
            tot == Len(buffer)
<1>1. tot \in Nat /\ sh \in BOOLEAN /\ ~ sh /\ lastSentEndSec \in Int
  BY DEF StepInv, Types, AudioTypes
<1>2. lastSentEndSec \in {NothingSent} \cup Nat /\ sessions \in Nat
  BY BoundsAssumption DEF StepInv, Types, AudioTypes, ClientTypes
<1>3. check = checkAudio(tot, sh, lastSentEndSec)
  OBVIOUS
<1>. HIDE DEF sh, tot
<1>. DEFINE end == WholeSteps(tot, sh)
<1>4. end \in Nat
  BY <1>1, WholeStepsBounds
<1>5. \/ check.last = NothingSent /\ ~ check.sends
      \/ check.last = lastSentEndSec /\ ~ check.sends
      \/ /\ check.last = end /\ check.to = end
         /\ check.from = 0 \/ check.from = end - stWindowSecs
  <2>. DEFINE d == checkAudio(tot, sh, lastSentEndSec)
  <2>1. CASE IsBelow(tot, sh, stStepSecs)
    <3>1. d.last = NothingSent /\ ~ d.sends
      BY <1>1, <2>1, CheckOutcomes
    <3>. HIDE DEF d
    <3>. QED
      BY <1>3, <3>1 DEF d
  <2>2. CASE ~ IsBelow(tot, sh, stStepSecs) /\ end <= lastSentEndSec
    <3>1. d.last = lastSentEndSec /\ ~ d.sends
      BY <1>1, <2>2, CheckOutcomes
    <3>. HIDE DEF d
    <3>. QED
      BY <1>3, <3>1 DEF d
  <2>3. CASE ~ IsBelow(tot, sh, stStepSecs) /\ ~ end <= lastSentEndSec
    <3>1. /\ d.last = end /\ d.to = end
          /\ d.from = IF IsBelow(tot, sh, stWindowSecs) THEN 0 ELSE end - stWindowSecs
      BY <1>1, <2>3, CheckOutcomes
    <3>. HIDE DEF d, end
    <3>2. d.from = 0 \/ d.from = end - stWindowSecs
      BY <3>1
    <3>. QED
      BY <1>3, <3>1, <3>2 DEF d
  <2>. QED
    BY <2>1, <2>2, <2>3
<1>. HIDE DEF end
<1>8. check.last \in {NothingSent} \cup Nat
  <2>1. CASE check.last = NothingSent
    BY <2>1
  <2>2. CASE check.last = lastSentEndSec
    BY <1>2, <2>2
  <2>3. CASE check.last = end
    BY <1>4, <2>3
  <2>. QED
    BY <1>5, <2>1, <2>2, <2>3
<1>6. ~ checkAudio(tot, sh, check.last).sends
  BY <1>1, <1>3, CheckedOnce
<1>7. ASSUME check.sends
      PROVE  SubSeq(buffer, SliceIndex(Len(buffer), check.from) + 1,
                            SliceIndex(Len(buffer), check.to)) \in Seq(Nat)
  <2>1. check.to = end /\ (check.from = 0 \/ check.from = end - stWindowSecs)
    BY <1>5, <1>7
  <2>2. check.from \in Int /\ check.to \in Int
    <3>1. 0 \in Int /\ end \in Int /\ end - stWindowSecs \in Int
      BY <1>4, WindowAssumption
    <3>. QED
      BY <2>1, <3>1, Zenon
  <2>3. /\ SliceIndex(tot, check.from) \in 0 .. tot
        /\ SliceIndex(tot, check.to) \in 0 .. tot
    BY <1>1, <2>2, SliceIndexBounds
  <2>. DEFINE i == SliceIndex(tot, check.from) + 1
              j == SliceIndex(tot, check.to)
  <2>4. i \in 1 .. tot + 1 /\ j \in 0 .. tot
    <3>. DEFINE f == SliceIndex(tot, check.from)
    <3>1. f \in 0 .. tot
      BY <2>3
    <3>. HIDE DEF f
    <3>2. f + 1 \in 1 .. tot + 1
      BY <1>1, <3>1
    <3>. QED
      BY <2>3, <3>2 DEF f
  <2>5. \A n \in 1 .. sessions : n \in Nat
    BY <1>2
  <2>6. buffer \in Seq(Nat)
    BY <2>5, SeqMonotonic
  <2>. HIDE DEF i, j
  <2>7. SubSeq(buffer, i, j) \in Seq(Nat)
    BY <2>4, <2>6 DEF tot
  <2>. QED
    BY <2>7 DEF i, j, tot
<1>. QED
  BY <1>8, <1>6, <1>7 DEF sh, tot

\* A request of a handler: it waits, alone.
LEMMA RequestInStep ==
  ASSUME StepInv, NEW c \in Connections, Receives(c, {"chunk"}),
         NEW slice \in Seq(Nat),
         WriteToSt(Request("wav", langs, "dict")), disk' = [disk EXCEPT !["wav"] = slice],
         handler' = [handler EXCEPT ![c] = "chunk"],
         UNCHANGED <<conn, inbox, outbox, serverVars, clientVars>>,
         AudioTypes', (~ checkAudio(Len(audioBuffer), FALSE, lastSentEndSec).sends)'
  PROVE  StepInv'
<1>1. /\ server = "serving" /\ ~ Waiting /\ inbox[c] # << >> /\ Head(inbox[c]).kind = "chunk"
      /\ conn[c] \in {"open", "closing"}
      /\ \A k \in Connections : handler[k] = "recv"
  BY DEF Receives, Waiting
<1>2. handler \in [Connections -> {"recv", "chunk", "end"}]
  BY DEF StepInv, Types, ConnTypes
<1>3. Request("wav", langs, "dict") \in Requests
  BY BoundsAssumption DEF StepInv, Types, ClientTypes, AudioTypes, Request, Requests
<1>4. /\ stdin' \in Seq(Lines) /\ Len(stdin') = Len(stdin) + 1 /\ Len(stdin) \in Nat
      /\ \A i \in 1 .. Len(stdin') : stdin'[i] \in Requests
  BY <1>1, <1>3, LineWritten
<1>5. PipeTypes' /\ ServerTypes'
  <2>1. (DOMAIN disk = Paths /\ disk["wav"] \in Audios /\ disk["dict"] \in Glossaries)'
    BY DiskTypes DEF Audios
  <2>. QED
    BY <1>4, <2>1 DEF StepInv, Types, PipeTypes, ServerTypes, WriteToSt, serverVars
<1>6. (ConnTypes /\ ClientTypes /\ InboxTypes)'
  BY <1>2 DEF StepInv, Types, ConnTypes, ClientTypes, InboxTypes, clientVars
<1>7. HandlersInStep'
  BY <1>1, <1>2 DEF StepInv, HandlersInStep, serverVars
<1>8. AudioChecked' /\ Waiting'
  BY <1>1, <1>2 DEF AudioChecked, Waiting
<1>9. PipesOpen' /\ BootInStep'
  BY <1>1, <1>4 DEF StepInv, PipesOpen, BootInStep, WriteToSt, serverVars
<1>10. NothingLeftOver' /\ PipesInStep'
  <2>1. UNCHANGED <<stProc, stdout, current>> /\ stProc # "exited"
    BY DEF WriteToSt
  <2>2. stProc = "serving"
    BY <1>1, <2>1 DEF StepInv, Types, PipeTypes, BootInStep
  <2>3. Len(stdout) = 0 /\ Len(stdin) = 0 /\ current = Idle
    BY <1>1, <2>2, PipesCounted
  <2>. QED
    BY <1>4, <1>8, <2>1, <2>3, CountedPipes
<1>. QED
  BY <1>5, <1>6, <1>7, <1>8, <1>9, <1>10 DEF StepInv, Types

LEMMA ChunkInStep ==
  ASSUME StepInv, NEW c \in Connections, ReceiveChunk(c)
  PROVE  StepInv'
<1>. DEFINE buffer == Append(audioBuffer, Head(inbox[c]).id)
            check  == checkAudio(Len(buffer), FALSE, lastSentEndSec)
            slice  == SubSeq(buffer, SliceIndex(Len(buffer), check.from) + 1,
                                     SliceIndex(Len(buffer), check.to))
<1>1. Receives(c, {"chunk"}) /\ UNCHANGED <<serverVars, langs, clientVars>>
  BY DEF ReceiveChunk
<1>2. conn[c] \in {"open", "closing"} /\ inbox[c] # << >> /\ Head(inbox[c]).kind = "chunk"
  BY <1>1 DEF Receives
<1>3. buffer \in Seq(1 .. sessions)
  <2>1. Head(inbox[c]).id \in 1 .. sessions
    BY <1>2, HeadOfInbox, BoundsAssumption DEF StepInv, Types, ClientTypes
  <2>. QED
    BY <2>1 DEF StepInv, Types, AudioTypes
<1>4. /\ audioBuffer' = buffer /\ lastSentEndSec' = check.last
      /\ \/ /\ Finishes(c, << >>) /\ UNCHANGED <<disk, stVars, handler>>
         \/ /\ check.sends
            /\ disk' = [disk EXCEPT !["wav"] = slice]
            /\ \/ /\ WriteToSt(Request("wav", langs, "dict"))
                  /\ handler' = [handler EXCEPT ![c] = "chunk"]
                  /\ UNCHANGED <<conn, inbox, outbox>>
               \/ /\ Dies(c)
                  /\ UNCHANGED <<stVars, handler>>
  BY DEF ReceiveChunk, CheckAndSend
<1>. HIDE DEF buffer, check, slice
<1>5. /\ check.last \in {NothingSent} \cup Nat
      /\ ~ checkAudio(Len(buffer), FALSE, check.last).sends
      /\ check.sends => slice \in Seq(Nat)
  BY <1>3, CheckInStep DEF check, slice
<1>6. AudioTypes' /\ (~ checkAudio(Len(audioBuffer), FALSE, lastSentEndSec).sends)'
  BY <1>1, <1>3, <1>4, <1>5 DEF StepInv, Types, AudioTypes, clientVars
<1>7. CASE Finishes(c, << >>) /\ UNCHANGED <<disk, stVars, handler>>
  <2>1. ConnAfter(c) /\ (conn'[c] \in {"off", "closed"} => inbox'[c] = << >>)
    <3>1. << >> \in Seq(Sent)
      OBVIOUS
    <3>. QED
      BY <1>2, <1>7, <3>1, FinishesOrDies, ClosedIsEmpty
  <2>. QED
    BY <1>1, <1>6, <1>7, <2>1, HandledInStep, DiskTypes
<1>8. CASE /\ check.sends /\ disk' = [disk EXCEPT !["wav"] = slice]
           /\ Dies(c) /\ UNCHANGED <<stVars, handler>>
  <2>1. ConnAfter(c) /\ (conn'[c] \in {"off", "closed"} => inbox'[c] = << >>)
    BY <1>2, <1>8, FinishesOrDies, ClosedIsEmpty
  <2>2. (DOMAIN disk = Paths /\ disk["wav"] \in Audios /\ disk["dict"] \in Glossaries)'
    BY <1>5, <1>8, DiskTypes DEF Audios
  <2>. QED
    BY <1>1, <1>6, <1>8, <2>1, <2>2, HandledInStep
<1>9. CASE /\ check.sends /\ disk' = [disk EXCEPT !["wav"] = slice]
           /\ WriteToSt(Request("wav", langs, "dict"))
           /\ handler' = [handler EXCEPT ![c] = "chunk"]
           /\ UNCHANGED <<conn, inbox, outbox>>
  BY <1>1, <1>5, <1>6, <1>9, RequestInStep
<1>. QED
  BY <1>4, <1>7, <1>8, <1>9

\* "end" never has anything to send: its audio was checked when it came.
LEMMA EndSaysDone ==
  ASSUME StepInv, NEW c \in Connections, ReceiveEnd(c)
  PROVE  /\ ForgetSession /\ Finishes(c, <<Response(0)>>)
         /\ lastSentEndSec' = checkAudio(Len(audioBuffer), FALSE, lastSentEndSec).last
         /\ UNCHANGED <<stVars, serverVars, handler, langs, clientVars>>
  BY DEF StepInv, AudioChecked, ReceiveEnd, CheckAndSend

LEMMA EndInStep ==
  ASSUME StepInv, NEW c \in Connections, ReceiveEnd(c)
  PROVE  StepInv'
<1>1. /\ Receives(c, {"end"}) /\ conn[c] \in {"open", "closing"} /\ inbox[c] # << >>
  BY DEF ReceiveEnd, Receives
<1>2. /\ ForgetSession /\ Finishes(c, <<Response(0)>>) /\ audioBuffer' = << >>
      /\ lastSentEndSec' = checkAudio(Len(audioBuffer), FALSE, lastSentEndSec).last
      /\ UNCHANGED <<stVars, serverVars, handler, langs, clientVars>>
  BY EndSaysDone DEF ForgetSession
<1>3. lastSentEndSec' \in {NothingSent} \cup Nat
  <2>1. audioBuffer \in Seq(1 .. sessions)
    BY DEF StepInv, Types, AudioTypes
  <2>. QED
    BY <1>2, <2>1, CheckInStep
<1>4. AudioTypes'
  <2>1. << >> \in Seq(1 .. sessions)
    OBVIOUS
  <2>. QED
    BY <1>2, <1>3, <2>1 DEF StepInv, Types, AudioTypes, clientVars
<1>5. (~ checkAudio(Len(audioBuffer), FALSE, lastSentEndSec).sends)'
  <2>1. lastSentEndSec' \in Int
    BY <1>3
  <2>2. ~ checkAudio(0, FALSE, lastSentEndSec').sends
    BY <2>1, NothingToSend
  <2>. QED
    BY <1>2, <2>2
<1>6. ConnAfter(c) /\ (conn'[c] \in {"off", "closed"} => inbox'[c] = << >>)
  <2>1. <<Response(0)>> \in Seq(Sent)
    BY DEF Response, Sent
  <2>. QED
    BY <1>1, <1>2, <2>1, FinishesOrDies, ClosedIsEmpty
<1>. QED
  BY <1>1, <1>2, <1>4, <1>5, <1>6, HandledInStep, ForgetTypes

-----------------------------------------------------------------------------
(***************************************************************************)
(* The ST server's answer.                                                 *)
(***************************************************************************)

\* The handler that reads it is the one of a chunk: a result, the end of the
\* handler, or nothing.
LEMMA ReadReplyCases ==
  ASSUME StepInv, NEW c \in Connections, ReadReply(c)
  PROVE  /\ server = "serving" /\ handler[c] = "chunk" /\ inbox[c] # << >>
         /\ Head(inbox[c]).kind = "chunk" /\ conn[c] \in {"open", "closing"}
         /\ handler' = [handler EXCEPT ![c] = "recv"]
         /\ UNCHANGED <<serverVars, audioVars, clientVars, disk>>
         /\ (HasLine /\ TakeLine) \/ (AtEof /\ UNCHANGED stVars)
         /\ \/ /\ HasLine /\ Head(stdout).kind = "ok"
               /\ Finishes(c, <<Result(Head(stdout), Head(inbox[c]).id)>>)
            \/ Finishes(c, << >>)
            \/ Dies(c)
<1>1. handler[c] = "chunk"
  BY DEF StepInv, Types, ConnTypes, AudioChecked, ReadReply
<1>2. /\ server = "serving" /\ inbox[c] # << >> /\ Head(inbox[c]).kind = "chunk"
      /\ conn[c] \in {"open", "closing"}
  <2>1. conn[c] \in {"off", "open", "closing", "closed"}
    BY DEF StepInv, Types, ConnTypes
  <2>. QED
    BY <1>1, <2>1 DEF StepInv, HandlersInStep
<1>. QED
  BY <1>1, <1>2 DEF ReadReply, audioVars

LEMMA ResultIsSent ==
  ASSUME StepInv, NEW c \in Connections, inbox[c] # << >>, HasLine, Head(stdout).kind = "ok"
  PROVE  /\ Head(stdout) \in OkReplies
         /\ Result(Head(stdout), Head(inbox[c]).id) \in ResultMessages
<1>1. Head(stdout) \in Replies
  BY DEF StepInv, Types, PipeTypes, HasLine
<1>2. Head(stdout) \in OkReplies
  BY <1>1 DEF Replies
<1>3. Head(inbox[c]).id \in Nat
  BY HeadOfInbox DEF Messages
<1>. QED
  BY <1>2, <1>3 DEF OkReplies, Result, ResultMessages

LEMMA ReadReplyInStep ==
  ASSUME StepInv, NEW c \in Connections, ReadReply(c)
  PROVE  StepInv'
<1>1. /\ server = "serving" /\ handler[c] = "chunk" /\ inbox[c] # << >>
      /\ handler' = [handler EXCEPT ![c] = "recv"] /\ conn[c] \in {"open", "closing"}
      /\ UNCHANGED <<serverVars, audioVars, clientVars, disk>>
      /\ (HasLine /\ TakeLine) \/ (AtEof /\ UNCHANGED stVars)
  BY ReadReplyCases
<1>2. ConnAfter(c) /\ (conn'[c] \in {"off", "closed"} => inbox'[c] = << >>)
  <2>1. << >> \in Seq(Sent)
    OBVIOUS
  <2>2. HasLine /\ Head(stdout).kind = "ok" =>
          <<Result(Head(stdout), Head(inbox[c]).id)>> \in Seq(Sent)
    <3>1. ASSUME HasLine, Head(stdout).kind = "ok"
          PROVE  Result(Head(stdout), Head(inbox[c]).id) \in Sent
      BY <1>1, <3>1, ResultIsSent DEF Sent
    <3>. QED
      BY <3>1
  <2>3. Dies(c) \/ \E messages \in Seq(Sent) : Finishes(c, messages)
    BY <2>1, <2>2, ReadReplyCases
  <2>. QED
    BY <1>1, <2>3, FinishesOrDies, ClosedIsEmpty
<1>3. handler \in [Connections -> {"recv", "chunk", "end"}]
  BY DEF StepInv, Types, ConnTypes
<1>4. \A k \in Connections : handler'[k] = "recv"
  BY <1>1, <1>3 DEF StepInv, HandlersInStep
<1>5. Waiting /\ ~ Waiting'
  BY <1>1, <1>4 DEF Waiting, serverVars
<1>6. (ConnTypes /\ ClientTypes /\ InboxTypes)'
  BY <1>1, <1>2, <1>3, InboxesAfter
<1>7. HandlersInStep'
  BY <1>1, <1>2, <1>4 DEF StepInv, HandlersInStep, ConnAfter
<1>8. AudioTypes' /\ AudioChecked'
  BY <1>1, <1>4 DEF StepInv, Types, AudioTypes, AudioChecked, audioVars, clientVars
<1>9. PipeTypes' /\ ServerTypes'
  BY <1>1, LineTaken DEF StepInv, Types, PipeTypes, ServerTypes, TakeLine, stVars, serverVars
<1>10. PipesOpen' /\ BootInStep'
  <2>1. UNCHANGED <<stProc, stdin, stdinOpen, stdoutOpen, current, server>>
    BY <1>1 DEF TakeLine, stVars, serverVars
  <2>2. stProc # "starting"
    BY <1>1 DEF StepInv, BootInStep
  <2>. QED
    BY <1>1, <2>1, <2>2 DEF StepInv, PipesOpen, BootInStep
<1>11. NothingLeftOver' /\ PipesInStep'
  <2>1. CASE HasLine /\ TakeLine
    <3>1. UNCHANGED <<stProc, stdin, current>>
      BY <2>1 DEF TakeLine
    <3>2. Len(stdout) = 1 /\ Len(stdout') = 0
      BY <1>1, <1>5, <2>1, LineTaken, PipesCounted
    <3>3. stProc = "serving" => Len(stdin) = 0 /\ current = Idle
      BY <1>1, <3>2, PipesCounted
    <3>. QED
      BY <1>5, <3>1, <3>2, <3>3, CountedPipes
  <2>2. CASE AtEof /\ UNCHANGED stVars
    <3>1. Len(stdout') = 0 /\ stProc' = "exited"
      BY <2>2 DEF AtEof, stVars
    <3>. QED
      BY <1>5, <3>1, CountedPipes
  <2>. QED
    BY <1>1, <2>1, <2>2
<1>. QED
  BY <1>6, <1>7, <1>8, <1>9, <1>10, <1>11 DEF StepInv, Types

-----------------------------------------------------------------------------
(***************************************************************************)
(* The theorems.                                                           *)
(***************************************************************************)

LEMMA StepInductive ==
  ASSUME StepInv, [Next]_vars
  PROVE  StepInv'
<1>1. CASE UNCHANGED vars
  <2>1. Waiting' = Waiting /\ UNCHANGED <<stVars, disk, serverVars>>
    BY <1>1 DEF vars, Waiting, connVars, serverVars
  <2>2. (ConnTypes /\ ClientTypes /\ AudioTypes /\ InboxTypes)'
    BY <1>1 DEF vars, connVars, audioVars, clientVars, serverVars, StepInv, Types, ConnTypes,
                ClientTypes, AudioTypes, InboxTypes
  <2>3. AudioChecked' /\ HandlersInStep'
    BY <1>1 DEF vars, connVars, audioVars, serverVars, StepInv, AudioChecked, HandlersInStep
  <2>. QED
    BY <2>1, <2>2, <2>3, PipesKept, DiskTypes DEF StepInv, Types
<1>2. ASSUME NEW c \in Connections, externalLoop(c)
      PROVE  StepInv'
  BY <1>2, StartInStep, ChunkInStep, EndInStep, ReadReplyInStep, SimpleInStep, ShutdownInStep,
     NoticeLeftInStep DEF externalLoop
<1>. QED
  BY <1>1, <1>2, StWorkInStep, StFailInStep, BootReadInStep, WarmUpSendInStep, WarmUpReceiveInStep,
     ConnectInStep, ClientSendInStep DEF Next, StartServer

\* Through every interleaving of handlers, clients and the ST server, whatever
\* fails: at most one handler is inside readline, with its message at the head
\* of its inbox and one line under way; nothing is on the pipes otherwise, not
\* even of an ST server that has died; the buffer was checked as it stands.
THEOREM AlwaysInStep == Spec => []StepInv
  BY InitInStep, StepInductive, PTL DEF Spec

(***************************************************************************)
(* The types, and that at most one handler waits for the ST server.        *)
(***************************************************************************)
THEOREM TypeCorrect == Spec => []TypeOK
<1>1. ASSUME StepInv PROVE TypeOK
  <2>. DEFINE waiting == {c \in Connections : handler[c] # "recv"}
  <2>1. waiting = {} \/ \E c \in Connections : waiting = {c}
    BY <1>1 DEF StepInv, HandlersInStep
  <2>2. Cardinality(waiting) <= 1
    <3>1. CASE waiting = {}
      BY <3>1, FS_EmptySet
    <3>2. ASSUME NEW c \in Connections, waiting = {c}
          PROVE  Cardinality(waiting) <= 1
      BY <3>2, FS_Singleton
    <3>. QED
      BY <2>1, <3>1, <3>2
  <2>. HIDE DEF waiting
  <2>3. \A i \in 1 .. Len(audioBuffer) : audioBuffer[i] \in 1 .. sessions
    <3>1. audioBuffer \in Seq(1 .. sessions)
      BY <1>1 DEF StepInv, Types, AudioTypes
    <3>. QED
      BY <3>1, ElementOfSeq
  <2>4. \A c \in Connections : Len(inbox[c]) <= sent[c] /\ sent[c] <= MaxMessages
    BY <1>1, BoundsAssumption DEF StepInv, Types, ClientTypes
  <2>. QED
    BY <1>1, <2>2, <2>3, <2>4
       DEF TypeOK, StepInv, Types, PipeTypes, ServerTypes, ConnTypes, ClientTypes, AudioTypes,
           HandlersInStep, waiting
<1>. QED
  BY <1>1, AlwaysInStep, PTL

(***************************************************************************)
(* The next line of the ST server is always the answer to the request of   *)
(* whoever waits, whatever handlers died and clients left before, and      *)
(* nothing is on the pipes when nobody waits.                              *)
(***************************************************************************)
THEOREM PipesStayInStep == Spec => []PipesInStep
<1>1. StepInv => PipesInStep
  BY DEF StepInv
<1>. QED
  BY <1>1, AlwaysInStep, PTL

-----------------------------------------------------------------------------
(***************************************************************************)
(* The API's promise.                                                      *)
(***************************************************************************)

\* What ApiProtocol sees: the actions of an inbox, what an outbox says.
ActionsOf(box) == [i \in 1 .. Len(box) |-> Action(box[i])]
SaidOf(out)    == [i \in 1 .. Len(out) |-> Said(out[i])]

TodoSeen == [c \in Connections |-> ActionsOf(inbox[c])]
SaidSeen == [c \in Connections |-> SaidOf(outbox[c])]

LEMMA ActionsOfBox ==
  ASSUME NEW box \in Seq(Messages)
  PROVE  /\ box = << >> => ActionsOf(box) = << >>
         /\ box # << >> => /\ ActionsOf(box) # << >>
                           /\ Head(ActionsOf(box)) = Action(Head(box))
                           /\ ActionsOf(Tail(box)) = Tail(ActionsOf(box))
         /\ \A m \in Messages : ActionsOf(Append(box, m)) = Append(ActionsOf(box), Action(m))
<1>. DEFINE V == {Action(m) : m \in Messages}
            acts == ActionsOf(box)
<1>1. /\ acts \in Seq(V) /\ Len(acts) = Len(box) /\ Len(box) \in Nat
      /\ \A i \in 1 .. Len(box) : acts[i] = Action(box[i])
  BY DEF ActionsOf
<1>. HIDE DEF V
<1>2. box = << >> => acts = << >>
  BY <1>1
<1>3. ASSUME box # << >>
      PROVE  /\ acts # << >> /\ Head(acts) = Action(Head(box))
             /\ ActionsOf(Tail(box)) = Tail(acts)
  <2>. DEFINE rest == ActionsOf(Tail(box))
  <2>1. /\ Tail(box) \in Seq(Messages) /\ Len(Tail(box)) = Len(box) - 1 /\ Len(box) >= 1
        /\ \A i \in 1 .. Len(Tail(box)) : Tail(box)[i] = box[i + 1]
        /\ Head(box) = box[1]
    BY <1>3
  <2>2. /\ acts # << >> /\ Head(acts) = acts[1] /\ Tail(acts) \in Seq(V)
        /\ Len(Tail(acts)) = Len(acts) - 1
        /\ \A i \in 1 .. Len(Tail(acts)) : Tail(acts)[i] = acts[i + 1]
    <3>. HIDE DEF acts
    <3>. QED
      BY <1>1, <2>1
  <2>3. /\ DOMAIN rest = 1 .. Len(Tail(box)) /\ rest = [i \in DOMAIN rest |-> rest[i]]
        /\ \A i \in 1 .. Len(Tail(box)) : rest[i] = Action(Tail(box)[i])
    BY DEF ActionsOf
  <2>4. rest \in Seq(V) /\ Len(rest) = Len(Tail(box))
    BY <2>1 DEF ActionsOf, V
  <2>. HIDE DEF rest, acts
  <2>5. \A i \in 1 .. Len(rest) : rest[i] = Tail(acts)[i]
    BY <1>1, <2>1, <2>2, <2>3, <2>4
  <2>6. rest = Tail(acts)
    BY <1>1, <2>1, <2>2, <2>4, <2>5, SeqEqual
  <2>. QED
    BY <1>1, <2>1, <2>2, <2>6 DEF rest
<1>4. ASSUME NEW m \in Messages
      PROVE  ActionsOf(Append(box, m)) = Append(acts, Action(m))
  <2>. DEFINE all == ActionsOf(Append(box, m))
  <2>1. /\ Append(box, m) \in Seq(Messages) /\ Len(Append(box, m)) = Len(box) + 1
        /\ \A i \in 1 .. Len(box) : Append(box, m)[i] = box[i]
        /\ Append(box, m)[Len(box) + 1] = m
    BY AppendProperties
  <2>2. Action(m) \in V
    BY DEF V
  <2>3. /\ Append(acts, Action(m)) \in Seq(V) /\ Len(Append(acts, Action(m))) = Len(box) + 1
        /\ \A i \in 1 .. Len(box) : Append(acts, Action(m))[i] = acts[i]
        /\ Append(acts, Action(m))[Len(box) + 1] = Action(m)
    <3>. HIDE DEF acts
    <3>. QED
      BY <1>1, <2>2, AppendProperties
  <2>4. /\ all \in Seq(V) /\ Len(all) = Len(box) + 1
        /\ \A i \in 1 .. Len(box) + 1 : all[i] = Action(Append(box, m)[i])
    BY <1>1, <2>1 DEF ActionsOf, V
  <2>. HIDE DEF all, acts
  <2>5. ASSUME NEW i \in 1 .. Len(all) PROVE all[i] = Append(acts, Action(m))[i]
    <3>1. CASE i \in 1 .. Len(box)
      BY <1>1, <2>1, <2>3, <2>4, <3>1
    <3>2. CASE i = Len(box) + 1
      BY <1>1, <2>1, <2>3, <2>4, <3>2
    <3>. QED
      BY <1>1, <2>4, <3>1, <3>2
  <2>6. all = Append(acts, Action(m))
    BY <2>3, <2>4, <2>5, SeqEqual
  <2>. QED
    BY <2>6 DEF all
<1>. QED
  BY <1>2, <1>3, <1>4

LEMMA SaidOfBoth ==
  ASSUME NEW out \in Seq(Sent), NEW messages \in Seq(Sent)
  PROVE  SaidOf(out \o messages) = SaidOf(out) \o SaidOf(messages)
<1>. DEFINE V == {Said(m) : m \in Sent}
            all == SaidOf(out \o messages)
            s1  == SaidOf(out)
            s2  == SaidOf(messages)
<1>1. /\ s1 \in Seq(V) /\ Len(s1) = Len(out) /\ Len(out) \in Nat
      /\ \A i \in 1 .. Len(out) : s1[i] = Said(out[i])
  BY DEF SaidOf
<1>2. /\ s2 \in Seq(V) /\ Len(s2) = Len(messages) /\ Len(messages) \in Nat
      /\ \A i \in 1 .. Len(messages) : s2[i] = Said(messages[i])
  BY DEF SaidOf
<1>3. /\ out \o messages \in Seq(Sent) /\ Len(out \o messages) = Len(out) + Len(messages)
      /\ \A i \in 1 .. Len(out) + Len(messages) :
           (out \o messages)[i] = IF i <= Len(out) THEN out[i] ELSE messages[i - Len(out)]
  BY ConcatProperties
<1>4. /\ all \in Seq(V) /\ Len(all) = Len(out) + Len(messages)
      /\ \A i \in 1 .. Len(out) + Len(messages) : all[i] = Said((out \o messages)[i])
  BY <1>1, <1>2, <1>3 DEF SaidOf, V
<1>. HIDE DEF V, all, s1, s2
<1>5. /\ s1 \o s2 \in Seq(V) /\ Len(s1 \o s2) = Len(out) + Len(messages)
      /\ \A i \in 1 .. Len(out) + Len(messages) :
           (s1 \o s2)[i] = IF i <= Len(out) THEN s1[i] ELSE s2[i - Len(out)]
  <2>1. /\ s1 \o s2 \in Seq(V) /\ Len(s1 \o s2) = Len(s1) + Len(s2)
        /\ \A i \in 1 .. Len(s1) + Len(s2) :
             (s1 \o s2)[i] = IF i <= Len(s1) THEN s1[i] ELSE s2[i - Len(s1)]
    <3>1. s1 \in Seq(V) /\ s2 \in Seq(V)
      BY <1>1, <1>2
    <3>. QED
      BY <3>1, ConcatProperties
  <2>. QED
    BY <1>1, <1>2, <2>1, Zenon
<1>6. ASSUME NEW i \in 1 .. Len(all) PROVE all[i] = (s1 \o s2)[i]
  <2>1. i \in 1 .. Len(out) + Len(messages)
    BY <1>4
  <2>2. CASE i <= Len(out)
    BY <1>1, <1>3, <1>4, <1>5, <2>1, <2>2
  <2>3. CASE ~ i <= Len(out)
    <3>1. i - Len(out) \in 1 .. Len(messages)
      BY <1>1, <1>2, <2>1, <2>3
    <3>. QED
      BY <1>2, <1>3, <1>4, <1>5, <2>1, <2>3, <3>1
  <2>. QED
    BY <2>2, <2>3
<1>7. all = s1 \o s2
  BY <1>4, <1>5, <1>6, SeqEqual
<1>. QED
  BY <1>7 DEF all, s1, s2

\* Steps of a connection as ApiProtocol sees them.
LEMMA SeenTypes ==
  ASSUME StepInv
  PROVE  /\ conn \in [Connections -> {"off", "open", "closing", "closed"}]
         /\ \A c \in Connections : inbox[c] \in Seq(Messages) /\ outbox[c] \in Seq(Sent)
         /\ inbox \in [Connections -> Seq(Messages)] /\ outbox \in [Connections -> Seq(Sent)]
         /\ DOMAIN TodoSeen = Connections /\ DOMAIN SaidSeen = Connections
         /\ \A c \in Connections : TodoSeen[c] = ActionsOf(inbox[c]) /\ SaidSeen[c] = SaidOf(outbox[c])
  BY DEF StepInv, Types, ConnTypes, TodoSeen, SaidSeen

LEMMA EmptySeen == ActionsOf(<< >>) = << >>
<1>1. << >> \in Seq(Messages)
  OBVIOUS
<1>. QED
  BY <1>1, ActionsOfBox

\* A handler dies over its message, or for its client has left.
LEMMA DiesSeen ==
  ASSUME StepInv, NEW c \in Connections,
         conn[c] = "closing" \/ (conn[c] = "open" /\ inbox[c] # << >>), Dies(c)
  PROVE  Api!Next
<1>1. TodoSeen' = [TodoSeen EXCEPT ![c] = << >>]
  <2>1. inbox'[c] = << >> /\ \A k \in Connections \ {c} : inbox'[k] = inbox[k]
    BY SeenTypes DEF Dies
  <2>. QED
    BY <2>1, EmptySeen DEF TodoSeen
<1>2. conn[c] = "closing" \/ (conn[c] = "open" /\ TodoSeen[c] # << >>)
  BY SeenTypes, ActionsOfBox
<1>3. SaidSeen' = SaidSeen
  BY DEF SaidSeen, Dies
<1>4. Api!Break(c)
  BY <1>1, <1>2, <1>3 DEF Api!Break, Dies, TodoSeen, SaidSeen, ActionsOf, SaidOf
<1>. QED
  BY <1>4 DEF Api!Next

\* The process exits.
LEMMA ExitSeen ==
  ASSUME Exit
  PROVE  Api!Next
<1>1. TodoSeen' = [c \in Connections |-> << >>]
  BY EmptySeen DEF TodoSeen, Exit
<1>2. SaidSeen' = SaidSeen
  BY DEF SaidSeen, Exit
<1>3. Api!Stop
  BY <1>1, <1>2 DEF Api!Stop, Exit, TodoSeen, SaidSeen, ActionsOf, SaidOf
<1>. QED
  BY <1>3 DEF Api!Next

\* A message that is answered.
LEMMA AnsweredSeen ==
  ASSUME StepInv, NEW c \in Connections, conn[c] \in {"open", "closing"}, inbox[c] # << >>,
         NEW messages \in Seq(Sent), Finishes(c, messages),
         SaidOf(messages) \in Api!Answers(Action(Head(inbox[c])))
  PROVE  Api!Next
<1>1. CASE Dies(c)
  BY <1>1, DiesSeen
<1>2. CASE /\ outbox' = [outbox EXCEPT ![c] = @ \o messages]
           /\ inbox' = [inbox EXCEPT ![c] = Tail(@)]
           /\ UNCHANGED conn
           /\ messages = << >> \/ conn[c] = "open"
  <2>1. /\ TodoSeen' = [TodoSeen EXCEPT ![c] = Tail(@)]
        /\ TodoSeen[c] # << >> /\ Head(TodoSeen[c]) = Action(Head(inbox[c]))
    <3>1. /\ inbox'[c] = Tail(inbox[c])
          /\ \A k \in Connections \ {c} : inbox'[k] = inbox[k]
      BY <1>2, SeenTypes
    <3>2. /\ ActionsOf(inbox[c]) # << >> /\ Head(ActionsOf(inbox[c])) = Action(Head(inbox[c]))
          /\ ActionsOf(inbox'[c]) = Tail(ActionsOf(inbox[c]))
      BY <3>1, SeenTypes, ActionsOfBox
    <3>. QED
      BY <3>1, <3>2 DEF TodoSeen
  <2>2. SaidSeen' = [SaidSeen EXCEPT ![c] = @ \o SaidOf(messages)]
    <3>1. /\ outbox'[c] = outbox[c] \o messages
          /\ \A k \in Connections \ {c} : outbox'[k] = outbox[k]
      BY <1>2, SeenTypes
    <3>2. SaidOf(outbox'[c]) = SaidOf(outbox[c]) \o SaidOf(messages)
      BY <3>1, SeenTypes, SaidOfBoth
    <3>. QED
      BY <3>1, <3>2 DEF SaidSeen
  <2>3. CASE conn[c] = "open"
    <3>1. \E answers \in Api!Answers(Head(TodoSeen[c])) :
            SaidSeen' = [SaidSeen EXCEPT ![c] = @ \o answers]
      BY <2>1, <2>2
    <3>2. Api!Answer(c)
      BY <1>2, <2>1, <2>3, <3>1 DEF Api!Answer, TodoSeen, SaidSeen, ActionsOf, SaidOf
    <3>. QED
      BY <3>2 DEF Api!Next
  <2>4. CASE conn[c] = "closing"
    <3>1. SaidSeen' = SaidSeen
      <4>1. outbox' = outbox
        BY <1>2, <2>4, SeenTypes
      <4>. QED
        BY <4>1 DEF SaidSeen
    <3>2. Api!Ignore(c)
      BY <1>2, <2>1, <2>4, <3>1 DEF Api!Ignore, TodoSeen, SaidSeen, ActionsOf, SaidOf
    <3>. QED
      BY <3>2 DEF Api!Next
  <2>. QED
    BY <2>3, <2>4
<1>. QED
  BY <1>1, <1>2 DEF Finishes

\* Connections, and what clients do over them.
LEMMA ClientSeen ==
  ASSUME StepInv, NEW c \in Connections, Connect(c) \/ ClientSend(c) \/ Leave(c)
  PROVE  Api!Next
<1>1. CASE Connect(c)
  <2>1. Api!Connect(c)
    BY <1>1 DEF Connect, Api!Connect
  <2>. QED
    BY <2>1 DEF Api!Next
<1>2. CASE Leave(c)
  <2>1. Api!Leave(c)
    BY <1>2 DEF Leave, Api!Leave
  <2>. QED
    BY <2>1 DEF Api!Next
<1>3. CASE ClientSend(c)
  <2>1. PICK m \in Messages : inbox' = [inbox EXCEPT ![c] = Append(@, m)]
    <3>1. PICK kind, id :
            inbox' = [inbox EXCEPT ![c] = Append(@, [kind |-> kind, id |-> id])]
      BY <1>3 DEF ClientSend
    <3>2. /\ inbox'[c] = Append(inbox[c], [kind |-> kind, id |-> id])
          /\ inbox[c] \in Seq(Messages) /\ inbox'[c] \in Seq(Messages)
      BY <1>3, <3>1, SeenTypes, ClientSendInStep DEF StepInv, Types, ConnTypes
    <3>3. [kind |-> kind, id |-> id] \in Messages
      <4>. DEFINE m == [kind |-> kind, id |-> id]
      <4>1. Len(inbox[c]) + 1 \in 1 .. Len(Append(inbox[c], m)) /\ Append(inbox[c], m)[Len(inbox[c]) + 1] = m
        BY <3>2
      <4>. HIDE DEF m
      <4>. QED
        BY <3>2, <4>1, ElementOfSeq DEF m
    <3>. QED
      BY <3>1, <3>3
  <2>2. m.kind \in Kinds
    BY DEF Messages
  <2>3. Action(m) \in Kinds \cup {"start"}
    BY <2>2 DEF Action
  <2>4. TodoSeen' = [TodoSeen EXCEPT ![c] = Append(@, Action(m))]
    <3>1. inbox'[c] = Append(inbox[c], m) /\ \A k \in Connections \ {c} : inbox'[k] = inbox[k]
      BY <2>1, SeenTypes
    <3>2. ActionsOf(inbox'[c]) = Append(ActionsOf(inbox[c]), Action(m))
      BY <3>1, SeenTypes, ActionsOfBox
    <3>. QED
      BY <3>1, <3>2 DEF TodoSeen
  <2>5. conn[c] = "open" /\ UNCHANGED <<conn, outbox>>
    BY <1>3 DEF ClientSend
  <2>6. \E a \in Kinds \cup {"start"} : TodoSeen' = [TodoSeen EXCEPT ![c] = Append(@, a)]
    BY <2>3, <2>4
  <2>7. SaidSeen' = SaidSeen
    BY <2>5 DEF SaidSeen
  <2>8. Api!Ask(c)
    BY <2>5, <2>6, <2>7 DEF Api!Ask, TodoSeen, SaidSeen, ActionsOf, SaidOf
  <2>. QED
    BY <2>8 DEF Api!Next
<1>. QED
  BY <1>1, <1>2, <1>3

LEMMA AnswersSeen ==
  /\ SaidOf(<< >>) = << >>
  /\ SaidOf(<<Response(0)>>) = <<"response 0">> /\ SaidOf(<<Response(1)>>) = <<"response 1">>
  /\ \A line, id : SaidOf(<<Result(line, id)>>) = <<"result 0">>
<1>1. SaidOf(<< >>) = << >>
  BY DEF SaidOf
<1>2. ASSUME NEW m PROVE SaidOf(<<m>>) = <<Said(m)>>
  BY DEF SaidOf
<1>3. Said(Response(0)) = "response 0" /\ Said(Response(1)) = "response 1"
  BY DEF Said, Response
<1>4. ASSUME NEW line, NEW id PROVE Said(Result(line, id)) = "result 0"
  BY DEF Said, Result
<1>. QED
  BY <1>1, <1>2, <1>3, <1>4

\* What the loop of a connection does.
LEMMA LoopSeen ==
  ASSUME StepInv, "startNoData" \notin Kinds, NEW c \in Connections, externalLoop(c)
  PROVE  [Api!Next]_(Api!vars)
<1>. DEFINE m == Head(inbox[c])
<1>1. ASSUME NEW kinds, Receives(c, kinds)
      PROVE  conn[c] \in {"open", "closing"} /\ inbox[c] # << >> /\ m.kind \in kinds
  BY <1>1 DEF Receives
<1>2. Response(0) \in Sent /\ Response(1) \in Sent /\ << >> \in Seq(Sent)
  BY DEF Response, Sent
<1>3. <<Response(0)>> \in Seq(Sent) /\ <<Response(1)>> \in Seq(Sent)
  BY <1>2
<1>4. CASE ReceiveStart(c)
  <2>1. Action(m) = "start"
    BY <1>1, <1>4 DEF ReceiveStart, Action, StartKinds
  <2>2. SaidOf(<<Response(0)>>) \in Api!Answers(Action(m))
    BY <2>1, AnswersSeen DEF Api!Answers
  <2>. QED
    BY <1>1, <1>3, <1>4, <2>2, AnsweredSeen DEF ReceiveStart
<1>5. CASE ReceiveBadGloss(c) \/ ReceiveMalformed(c)
  BY <1>1, <1>5, DiesSeen DEF ReceiveBadGloss, ReceiveMalformed
<1>6. CASE ReceiveChunk(c)
  <2>1. m.kind = "chunk" /\ Action(m) = "chunk"
    BY <1>1, <1>6 DEF ReceiveChunk, Action, StartKinds
  <2>2. SaidOf(<< >>) \in Api!Answers(Action(m))
    BY <2>1, AnswersSeen DEF Api!Answers
  <2>3. Finishes(c, << >>) \/ Dies(c) \/ UNCHANGED <<conn, inbox, outbox>>
    BY <1>6 DEF ReceiveChunk, CheckAndSend
  <2>4. CASE Finishes(c, << >>)
    BY <1>1, <1>2, <1>6, <2>2, <2>4, AnsweredSeen DEF ReceiveChunk
  <2>5. CASE Dies(c)
    BY <1>1, <1>6, <2>5, DiesSeen DEF ReceiveChunk
  <2>6. CASE UNCHANGED <<conn, inbox, outbox>>
    BY <2>6 DEF Api!vars
  <2>. QED
    BY <2>3, <2>4, <2>5, <2>6
<1>7. CASE ReceiveEnd(c)
  <2>1. m.kind = "end" /\ Action(m) = "end"
    BY <1>1, <1>7 DEF ReceiveEnd, Action, StartKinds
  <2>2. SaidOf(<<Response(0)>>) \in Api!Answers(Action(m))
    BY <2>1, AnswersSeen DEF Api!Answers
  <2>3. Finishes(c, <<Response(0)>>)
    BY <1>7, EndSaysDone
  <2>. QED
    BY <1>1, <1>3, <1>7, <2>2, <2>3, AnsweredSeen DEF ReceiveEnd
<1>8. CASE ReadReply(c)
  <2>1. /\ conn[c] \in {"open", "closing"} /\ inbox[c] # << >> /\ m.kind = "chunk"
        /\ \/ /\ HasLine /\ Head(stdout).kind = "ok"
              /\ Finishes(c, <<Result(Head(stdout), m.id)>>)
           \/ Finishes(c, << >>)
           \/ Dies(c)
    BY <1>8, ReadReplyCases
  <2>2. Action(m) = "chunk"
    BY <2>1 DEF Action, StartKinds
  <2>3. /\ SaidOf(<< >>) \in Api!Answers(Action(m))
        /\ SaidOf(<<Result(Head(stdout), m.id)>>) \in Api!Answers(Action(m))
    BY <2>2, AnswersSeen DEF Api!Answers
  <2>4. CASE /\ HasLine /\ Head(stdout).kind = "ok"
             /\ Finishes(c, <<Result(Head(stdout), m.id)>>)
    <3>1. Result(Head(stdout), m.id) \in Sent
      BY <2>1, <2>4, ResultIsSent DEF Sent
    <3>2. <<Result(Head(stdout), m.id)>> \in Seq(Sent)
      BY <3>1
    <3>. QED
      BY <2>1, <2>3, <2>4, <3>2, AnsweredSeen
  <2>5. CASE Finishes(c, << >>)
    BY <1>2, <2>1, <2>3, <2>5, AnsweredSeen
  <2>6. CASE Dies(c)
    BY <2>1, <2>6, DiesSeen
  <2>. QED
    BY <2>1, <2>4, <2>5, <2>6
<1>9. CASE ReceiveUnknown(c)
  <2>1. m.kind = "unknown" /\ Action(m) = "unknown"
    BY <1>1, <1>9 DEF ReceiveUnknown, Action, StartKinds
  <2>2. SaidOf(<<Response(1)>>) \in Api!Answers(Action(m))
    <3>1. SaidOf(<<Response(1)>>) = <<"response 1">>
      BY AnswersSeen
    <3>2. <<"response 1">> \in Api!Answers("unknown")
      BY DEF Api!Answers
    <3>. QED
      BY <2>1, <3>1, <3>2
  <2>. QED
    BY <1>1, <1>3, <1>9, <2>2, AnsweredSeen DEF ReceiveUnknown
<1>10. CASE ReceiveLogged(c)
  <2>1. Action(m) \in {"notJson", "noAction"}
    <3>1. inbox[c] \in Seq(Messages) /\ inbox[c] # << >> /\ m.kind \in {"notJson", "noAction", "startNoData"}
      BY <1>1, <1>10, SeenTypes DEF ReceiveLogged
    <3>2. m \in Messages
      BY <3>1
    <3>3. m.kind \in Kinds
      BY <3>2 DEF Messages
    <3>. QED
      BY <3>1, <3>3 DEF Action, StartKinds
  <2>2. SaidOf(<< >>) \in Api!Answers(Action(m))
    BY <2>1, AnswersSeen DEF Api!Answers
  <2>. QED
    BY <1>1, <1>2, <1>10, <2>2, AnsweredSeen DEF ReceiveLogged
<1>11. CASE ReceiveShutdown(c)
  BY <1>1, <1>11, DiesSeen, ExitSeen DEF ReceiveShutdown
<1>12. CASE NoticeLeft(c)
  <2>1. Dies(c) /\ conn[c] = "closing"
    BY <1>12, SeenTypes DEF NoticeLeft, Dies
  <2>. QED
    BY <2>1, DiesSeen
<1>. QED
  BY <1>4, <1>5, <1>6, <1>7, <1>8, <1>9, <1>10, <1>11, <1>12 DEF externalLoop

(***************************************************************************)
(* Seen from its clients the server implements ApiProtocol: it deals with  *)
(* the messages of a connection one at a time, in order, answers each with *)
(* what the API has for it, and says no more on a connection that closed,  *)
(* however the ST server fails and whatever clients send but a start       *)
(* without its data: that is not answered as the API says.                 *)
(***************************************************************************)
THEOREM PromiseKept ==
  ASSUME "startNoData" \notin Kinds
  PROVE  Spec => ImplementsApi
<1>1. Init => Api!Init
  <2>1. Init => TodoSeen = [c \in Connections |-> << >>] /\ SaidSeen = [c \in Connections |-> << >>]
    BY DEF Init, TodoSeen, SaidSeen, ActionsOf, SaidOf
  <2>. QED
    BY <2>1 DEF Init, Api!Init, TodoSeen, SaidSeen, ActionsOf, SaidOf
<1>2. ASSUME StepInv, [Next]_vars
      PROVE  [Api!Next]_(Api!vars)
  <2>1. CASE StServe \/ StFail
    BY <2>1 DEF StServe, StFail, notStVars, connVars, Api!vars
  <2>2. CASE StartServer
    <3>1. Exit \/ UNCHANGED connVars
      BY <2>2 DEF StartServer, BootRead, WarmUpSend, WarmUpReceive
    <3>. QED
      BY <1>2, <3>1, ExitSeen DEF connVars, Api!vars
  <2>3. CASE UNCHANGED vars
    BY <2>3 DEF vars, connVars, Api!vars
  <2>4. ASSUME NEW c \in Connections, Connect(c) \/ ClientSend(c) \/ Leave(c) \/ externalLoop(c)
        PROVE  [Api!Next]_(Api!vars)
    BY <1>2, <2>4, ClientSeen, LoopSeen
  <2>. QED
    BY <1>2, <2>1, <2>2, <2>3, <2>4 DEF Next
<1>. QED
  BY <1>1, <1>2, AlwaysInStep, PTL DEF Spec, ImplementsApi, Api!Spec

-----------------------------------------------------------------------------
(***************************************************************************)
(* Clients that come one after the other.                                  *)
(***************************************************************************)

Live(c) == conn[c] \in {"open", "closing"}

\* The session a client is in after a message.
After(m) == IF m.kind = "end" THEN 0 ELSE m.id

\* Messages that begin no session go with the one before them, and the client
\* goes on from its last.
InboxInOrder(c) ==
  /\ \A i \in 1 .. Len(inbox[c]) - 1 :
       inbox[c][i + 1].kind \notin StartKinds => inbox[c][i + 1].id = After(inbox[c][i])
  /\ inbox[c] # << >> => session[c] = After(inbox[c][Len(inbox[c])])

\* The session that the next message of c goes on with, 0 if it begins one.
Served(c) == IF inbox[c] = << >> THEN session[c]
             ELSE IF Head(inbox[c]).kind \in StartKinds THEN 0 ELSE Head(inbox[c]).id

\* Audio of session s, and not none.
AudioOf(audio, s) ==
  /\ audio \in Seq(Nat) /\ audio # << >>
  /\ \A i \in 1 .. Len(audio) : audio[i] = s

\* The globals and the glossary are those of the session served.
GlobalsAreOwn(c) ==
  Served(c) # 0 =>
    /\ langs = Served(c)
    /\ \A i \in 1 .. Len(audioBuffer) : audioBuffer[i] = Served(c)
    /\ disk["dict"] \in {Served(c), Unreadable}

\* The request of a handler that waits, wherever it is, is about its session.
RequestIsOwn(c) ==
  LET id == Head(inbox[c]).id IN
  /\ AudioOf(disk["wav"], id)
  /\ \A i \in 1 .. Len(stdin) : stdin[i].langs = id
  /\ current # Idle => /\ current.line.langs = id
                       /\ current.audio = Absent \/ AudioOf(current.audio, id)
  /\ \A i \in 1 .. Len(stdout) : stdout[i].kind = "ok" =>
       stdout[i].langs = id /\ AudioOf(stdout[i].audio, id)

OwnInv ==
  /\ \A c, k \in Connections : Live(c) /\ Live(k) => c = k
  /\ \A c \in Connections :
       /\ conn[c] = "off" => session[c] = 0
       /\ Live(c) => InboxInOrder(c) /\ GlobalsAreOwn(c)
       /\ handler[c] # "recv" => RequestIsOwn(c)
  /\ ResultsAreOwn

USE DEF Live

LEMMA OwnInit == Init => OwnInv
  BY DEF Init, OwnInv, ResultsAreOwn, Results

\* A line that answers the request of the session.
LEMMA AnswerIsOwn ==
  ASSUME StepInv, OwnInv, NEW c \in Connections, handler[c] # "recv",
         NEW line, Answers(line),
         line.kind = "ok" => line.langs = Head(inbox[c]).id /\ AudioOf(line.audio, Head(inbox[c]).id),
         UNCHANGED <<stdin, disk, inbox>>
  PROVE  RequestIsOwn(c)'
<1>. DEFINE id == Head(inbox[c]).id
<1>1. RequestIsOwn(c) /\ stdout \in Seq(Replies) /\ current' = Idle
  BY DEF OwnInv, Answers, StepInv, Types, PipeTypes
<1>2. ASSUME NEW i \in 1 .. Len(stdout'), stdout'[i].kind = "ok"
      PROVE  stdout'[i].langs = id /\ AudioOf(stdout'[i].audio, id)
  <2>1. CASE stdout' = stdout
    BY <1>1, <1>2, <2>1 DEF RequestIsOwn
  <2>2. CASE stdout' = Append(stdout, line)
    <3>1. /\ Len(stdout') = Len(stdout) + 1 /\ Len(stdout) \in Nat
          /\ \A j \in 1 .. Len(stdout) : stdout'[j] = stdout[j]
          /\ stdout'[Len(stdout) + 1] = line
      BY <1>1, <2>2
    <3>2. CASE i = Len(stdout) + 1
      BY <1>2, <3>1, <3>2
    <3>3. CASE i # Len(stdout) + 1
      <4>1. i \in 1 .. Len(stdout) /\ stdout'[i] = stdout[i]
        BY <3>1, <3>3
      <4>. QED
        BY <1>1, <1>2, <4>1 DEF RequestIsOwn
    <3>. QED
      BY <3>2, <3>3
  <2>. QED
    BY <2>1, <2>2 DEF Answers
<1>. HIDE DEF id
<1>3. inbox' = inbox /\ stdin' = stdin /\ disk' = disk
  OBVIOUS
<1>. QED
  BY <1>1, <1>2, <1>3 DEF RequestIsOwn, id

\* What the ST server does keeps a request about its session.
LEMMA StKeepsRequest ==
  ASSUME StepInv, OwnInv, NEW c \in Connections, handler[c] # "recv", StServe \/ StFail
  PROVE  RequestIsOwn(c)'
<1>. DEFINE id == Head(inbox[c]).id
<1>1. /\ RequestIsOwn(c) /\ server = "serving" /\ inbox' = inbox
      /\ PipeTypes /\ PipesOpen /\ BootInStep /\ stdinOpen /\ stProc # "starting"
  BY DEF StepInv, OwnInv, HandlersInStep, Types, StServe, StFail, notStVars, connVars,
         PipesOpen, BootInStep
<1>2. CASE StFail
  <2>1. current' = Idle /\ UNCHANGED <<stdin, stdout, disk>>
    BY <1>1, <1>2 DEF StFail, FailToStart, Crash
  <2>. QED
    BY <1>1, <2>1 DEF RequestIsOwn
<1>3. CASE ReadLine
  <2>1. stdin \in Seq(Lines) /\ stdin # << >> /\ stdin' = Tail(stdin)
    BY <1>1, <1>3 DEF ReadLine, PipeTypes
  <2>2. /\ Head(stdin).langs = id
        /\ \A i \in 1 .. Len(stdin') : stdin'[i].langs = id
    <3>1. /\ Len(stdin') = Len(stdin) - 1 /\ Len(stdin) \in Nat \ {0} /\ Head(stdin) = stdin[1]
          /\ \A i \in 1 .. Len(stdin') : stdin'[i] = stdin[i + 1]
      BY <2>1
    <3>. QED
      BY <1>1, <3>1 DEF RequestIsOwn
  <2>3. current' = [line |-> Head(stdin), audio |-> Absent] /\ UNCHANGED <<stdout, disk>>
    BY <1>3 DEF ReadLine
  <2>. QED
    BY <1>1, <2>2, <2>3 DEF RequestIsOwn
<1>4. CASE ReadAudio
  <2>1. current # Idle /\ current.line \in Requests /\ current \in [line : Lines, audio : Audios]
    BY <1>1, <1>4 DEF ReadAudio, PipesOpen, PipeTypes
  <2>2. CASE disk["wav"] = Absent
    <3>1. Answers(ErrorReply) /\ UNCHANGED <<stdin, disk>>
      BY <1>4, <2>1, <2>2 DEF ReadAudio, Requests
    <3>. QED
      BY <1>1, <3>1, AnswerIsOwn
  <2>3. CASE disk["wav"] # Absent
    <3>1. current' = [current EXCEPT !.audio = disk["wav"]] /\ UNCHANGED <<stdin, stdout, disk>>
      BY <1>4, <2>1, <2>3 DEF ReadAudio, Requests
    <3>2. current'.line = current.line /\ current'.audio = disk["wav"]
      BY <2>1, <3>1
    <3>. QED
      BY <1>1, <2>1, <3>1, <3>2 DEF RequestIsOwn
  <2>. QED
    BY <2>2, <2>3
<1>5. CASE Raise \/ Refuse
  <2>1. Answers(ErrorReply) /\ UNCHANGED <<stdin, disk>>
    BY <1>5 DEF Raise, Refuse
  <2>. QED
    BY <1>1, <2>1, AnswerIsOwn
<1>6. CASE Process
  <2>. DEFINE path == current.line.dictionary
              dict == IF path = NoPath THEN Absent ELSE load_dict(path)
              ok   == OkReply(current.audio, current.line.langs, dict)
  <2>1. Answers(ErrorReply) \/ Answers(ok)
    BY <1>6 DEF Process
  <2>2. UNCHANGED <<stdin, disk>> /\ current # Idle /\ current.audio # Absent
    BY <1>6 DEF Process
  <2>3. ok.langs = id /\ AudioOf(ok.audio, id)
    BY <1>1, <2>2 DEF OkReply, RequestIsOwn
  <2>4. CASE Answers(ErrorReply)
    BY <1>1, <2>2, <2>4, AnswerIsOwn
  <2>. HIDE DEF ok
  <2>5. CASE Answers(ok)
    BY <1>1, <2>2, <2>3, <2>5, AnswerIsOwn
  <2>. QED
    BY <2>1, <2>4, <2>5
<1>7. ~ StartUp /\ ~ ReadEof
  BY <1>1 DEF StartUp, ReadEof
<1>8. ~ ShutDown
  BY <1>1 DEF ShutDown, PipesOpen, Requests
<1>. QED
  BY <1>2, <1>3, <1>4, <1>5, <1>6, <1>7, <1>8 DEF StServe, StWork

\* What does not concern a connection keeps what is said of it.
LEMMA OwnKept ==
  ASSUME UNCHANGED <<inbox, session, langs, audioBuffer, disk>>, NEW c \in Connections,
         InboxInOrder(c) /\ GlobalsAreOwn(c)
  PROVE  (InboxInOrder(c) /\ GlobalsAreOwn(c))'
<1>1. Served(c)' = Served(c)
  BY DEF Served
<1>. QED
  BY <1>1 DEF InboxInOrder, GlobalsAreOwn

LEMMA ResultsKept ==
  ASSUME OwnInv, UNCHANGED outbox
  PROVE  ResultsAreOwn'
  BY DEF OwnInv, ResultsAreOwn, Results

LEMMA OwnStServer ==
  ASSUME StepInv, OwnInv, StServe \/ StFail
  PROVE  OwnInv'
<1>1. UNCHANGED <<conn, inbox, outbox, handler, session, langs, audioBuffer>>
  BY DEF StServe, StFail, notStVars, connVars, audioVars, clientVars
<1>2. UNCHANGED disk
  BY DEF StServe, StFail, StWork, StartUp, ReadLine, ReadEof, ShutDown, Refuse, ReadAudio, Raise,
         Process, FailToStart, Crash
<1>3. \A c \in Connections : handler[c] # "recv" => RequestIsOwn(c)'
  BY StKeepsRequest
<1>. QED
  BY <1>1, <1>2, <1>3, OwnKept, ResultsKept DEF OwnInv

\* No connection is left, or none was made.
LEMMA OwnExit ==
  ASSUME OwnInv, Exit, UNCHANGED clientVars
  PROVE  OwnInv'
  BY ResultsKept DEF OwnInv, Exit

LEMMA OwnStart ==
  ASSUME StepInv, OwnInv, StartServer
  PROVE  OwnInv'
<1>1. CASE Exit
  BY <1>1, OwnExit DEF StartServer, BootRead, WarmUpSend, WarmUpReceive
<1>2. CASE UNCHANGED connVars
  <2>1. UNCHANGED <<conn, inbox, outbox, handler, session, langs, audioBuffer>> /\ disk'["dict"] = disk["dict"]
    BY <1>2, DiskTypes
       DEF StartServer, BootRead, WarmUpSend, WarmUpReceive, connVars, audioVars, clientVars
  <2>2. \A c \in Connections : handler[c] = "recv"
    BY DEF StepInv, HandlersInStep, StartServer, BootRead, WarmUpSend, WarmUpReceive
  <2>3. \A c \in Connections : (InboxInOrder(c) <=> InboxInOrder(c)') /\ (GlobalsAreOwn(c) <=> GlobalsAreOwn(c)')
    BY <2>1 DEF InboxInOrder, GlobalsAreOwn, Served
  <2>. QED
    BY <2>1, <2>2, <2>3, ResultsKept DEF OwnInv
<1>. QED
  BY <1>1, <1>2 DEF StartServer, BootRead, WarmUpSend, WarmUpReceive

\* A client connects when the others are gone; it is in no session yet.
LEMMA OwnConnect ==
  ASSUME StepInv, OwnInv, ~ Overlap, NEW c \in Connections, Connect(c)
  PROVE  OwnInv'
<1>1. /\ \A k \in Connections : conn[k] \in {"off", "closed"}
      /\ conn[c] = "off" /\ conn' = [conn EXCEPT ![c] = "open"]
      /\ UNCHANGED <<disk, inbox, outbox, handler, session, langs, audioBuffer>>
      /\ \A k \in Connections : handler[k] = "recv"
  BY DEF Connect, Waiting, audioVars, clientVars
<1>2. inbox[c] = << >> /\ session[c] = 0
  BY <1>1 DEF StepInv, OwnInv, HandlersInStep
<1>3. /\ conn' \in [Connections -> {"off", "open", "closing", "closed"}]
      /\ \A k \in Connections : k # c => conn'[k] = conn[k]
  BY <1>1, SeenTypes
<1>4. \A k \in Connections : Live(k)' => k = c
  BY <1>1, <1>3
<1>5. (InboxInOrder(c) /\ GlobalsAreOwn(c))'
  BY <1>1, <1>2 DEF InboxInOrder, GlobalsAreOwn, Served
<1>6. \A k \in Connections : conn'[k] = "off" => session'[k] = 0
  BY <1>1, <1>3, SeenTypes DEF OwnInv
<1>. QED
  BY <1>1, <1>4, <1>5, <1>6, ResultsKept DEF OwnInv

\* What is said of a connection is kept when it is left or closed.
LEMMA OwnLess ==
  ASSUME StepInv, OwnInv, NEW c \in Connections, NEW status \in {"closing", "closed"},
         conn[c] # "off", conn[c] = "closed" => status = "closed",
         conn' = [conn EXCEPT ![c] = status],
         UNCHANGED <<disk, inbox, outbox, handler, session, langs, audioBuffer,
                     stdin, stdout, current>>
  PROVE  OwnInv'
<1>1. \A k \in Connections : /\ Live(k)' => Live(k)
                             /\ conn'[k] = "off" => conn[k] = "off"
  BY SeenTypes
<1>2. \A k \in Connections : RequestIsOwn(k) => RequestIsOwn(k)'
  BY DEF RequestIsOwn
<1>. QED
  BY <1>1, <1>2, OwnKept, ResultsKept DEF OwnInv

LEMMA OwnLeave ==
  ASSUME StepInv, OwnInv, NEW c \in Connections, Leave(c) \/ NoticeLeft(c)
  PROVE  OwnInv'
  BY OwnLess DEF Leave, NoticeLeft, stVars, audioVars, clientVars

\* A client goes on from the last message it has sent.
LEMMA OwnClientSend ==
  ASSUME StepInv, OwnInv, NEW c \in Connections, ClientSend(c)
  PROVE  OwnInv'
<1>1. /\ conn[c] = "open" /\ session \in [Connections -> 0 .. sessions]
      /\ UNCHANGED <<conn, outbox, handler, disk, langs, audioBuffer, stdin, stdout, current>>
  BY DEF ClientSend, StepInv, Types, ClientTypes, stVars, audioVars
<1>2. PICK m :
        /\ inbox' = [inbox EXCEPT ![c] = Append(@, m)]
        /\ m.kind \notin StartKinds => m.id = session[c]
        /\ \A k \in Connections : session'[k] = IF k = c THEN After(m) ELSE session[k]
  <2>1. PICK kind \in Kinds :
          /\ sessions' = IF kind \in StartKinds THEN sessions + 1 ELSE sessions
          /\ session' = [session EXCEPT ![c] = CASE kind \in StartKinds -> sessions'
                                                 [] kind = "end"       -> 0
                                                 [] OTHER              -> @]
          /\ inbox' = [inbox EXCEPT ![c] =
                         Append(@, [kind |-> kind,
                                    id |-> IF kind = "end" THEN session[c] ELSE session'[c]])]
    BY DEF ClientSend
  <2>. DEFINE m == [kind |-> kind, id |-> IF kind = "end" THEN session[c] ELSE session'[c]]
  <2>2. session'[c] = IF kind \in StartKinds THEN sessions' ELSE IF kind = "end" THEN 0 ELSE session[c]
    <3>1. session'[c] = CASE kind \in StartKinds -> sessions'
                          [] kind = "end"       -> 0
                          [] OTHER              -> session[c]
      BY <1>1, <2>1
    <3>2. ~ (kind \in StartKinds /\ kind = "end")
      BY DEF StartKinds
    <3>. QED
      BY <3>1, <3>2
  <2>3. \A k \in Connections : k # c => session'[k] = session[k]
    BY <1>1, <2>1
  <2>4. session'[c] = After(m) /\ (m.kind \notin StartKinds => m.id = session[c])
    BY <2>2 DEF After, StartKinds
  <2>5. inbox' = [inbox EXCEPT ![c] = Append(@, m)]
    BY <2>1
  <2>. HIDE DEF m
  <2>. QED
    BY <2>3, <2>4, <2>5
<1>3. \A k \in Connections : k # c => inbox'[k] = inbox[k] /\ session'[k] = session[k]
  BY <1>2, SeenTypes
<1>4. /\ inbox[c] \in Seq(Messages) /\ inbox'[c] = Append(inbox[c], m)
      /\ Len(inbox[c]) \in Nat /\ Len(inbox'[c]) = Len(inbox[c]) + 1
      /\ \A i \in 1 .. Len(inbox[c]) : inbox'[c][i] = inbox[c][i]
      /\ inbox'[c][Len(inbox[c]) + 1] = m /\ inbox'[c] # << >>
      /\ inbox[c] # << >> => Len(inbox[c]) >= 1 /\ Head(inbox[c]) = inbox[c][1]
      /\ Head(inbox'[c]) = inbox'[c][1]
  <2>1. inbox[c] \in Seq(Messages) /\ inbox'[c] = Append(inbox[c], m)
    BY <1>2, SeenTypes
  <2>2. inbox[c] \in Seq(Messages \cup {m}) /\ m \in Messages \cup {m}
    BY <2>1, SeqMonotonic
  <2>. QED
    BY <2>1, <2>2, AppendProperties, HeadTailAppend
<1>5. inbox[c] # << >> => Head(inbox'[c]) = Head(inbox[c])
  BY <1>4
<1>6. InboxInOrder(c) /\ GlobalsAreOwn(c)
  BY <1>1 DEF OwnInv
<1>7. InboxInOrder(c)'
  <2>1. ASSUME NEW i \in 1 .. Len(inbox'[c]) - 1, inbox'[c][i + 1].kind \notin StartKinds
        PROVE  inbox'[c][i + 1].id = After(inbox'[c][i])
    <3>1. CASE i = Len(inbox[c])
      <4>1. inbox[c] # << >>
        BY <1>4, <3>1
      <4>. QED
        BY <1>2, <1>4, <1>6, <2>1, <3>1, <4>1 DEF InboxInOrder
    <3>2. CASE i # Len(inbox[c])
      <4>1. i \in 1 .. Len(inbox[c]) - 1 /\ i \in 1 .. Len(inbox[c]) /\ i + 1 \in 1 .. Len(inbox[c])
        BY <1>4, <3>2
      <4>. QED
        BY <1>4, <1>6, <2>1, <4>1 DEF InboxInOrder
    <3>. QED
      BY <3>1, <3>2
  <2>. QED
    BY <1>2, <1>4, <2>1 DEF InboxInOrder
<1>8. GlobalsAreOwn(c)'
  <2>1. Served(c)' = Served(c) \/ Served(c)' = 0
    BY <1>2, <1>4, <1>5 DEF Served
  <2>. QED
    BY <1>1, <1>6, <2>1 DEF GlobalsAreOwn
<1>9. \A k \in Connections : k # c => (InboxInOrder(k) <=> InboxInOrder(k)') /\ (GlobalsAreOwn(k) <=> GlobalsAreOwn(k)')
  BY <1>1, <1>3 DEF InboxInOrder, GlobalsAreOwn, Served
<1>10. \A k \in Connections : handler[k] # "recv" => RequestIsOwn(k)'
  <2>1. ASSUME NEW k \in Connections, handler[k] # "recv" PROVE RequestIsOwn(k)'
    <3>1. Head(inbox'[k]) = Head(inbox[k])
      BY <1>3, <1>5, <2>1 DEF StepInv, HandlersInStep
    <3>2. RequestIsOwn(k)
      BY <2>1 DEF OwnInv
    <3>. QED
      BY <1>1, <3>1, <3>2 DEF RequestIsOwn
  <2>. QED
    BY <2>1
<1>11. \A k \in Connections : conn'[k] = "off" => session'[k] = 0
  BY <1>1, <1>3 DEF OwnInv
<1>. QED
  BY <1>1, <1>7, <1>8, <1>9, <1>10, <1>11, ResultsKept DEF OwnInv

\* The next message of a client goes with the one dealt with.
LEMMA ServedNext ==
  ASSUME StepInv, NEW c \in Connections, inbox[c] # << >>, InboxInOrder(c),
         inbox'[c] = Tail(inbox[c]), session'[c] = session[c]
  PROVE  InboxInOrder(c)' /\ Served(c)' \in {0, After(Head(inbox[c]))}
<1>. DEFINE box  == inbox[c]
            rest == Tail(inbox[c])
<1>1. /\ box \in Seq(Messages) /\ Len(box) \in Nat \ {0} /\ Head(box) = box[1]
      /\ rest \in Seq(Messages) /\ Len(rest) = Len(box) - 1
      /\ \A i \in 1 .. Len(rest) : rest[i] = box[i + 1]
      /\ rest # << >> => Len(rest) >= 1 /\ Head(rest) = rest[1] /\ Head(rest) = box[2]
      /\ rest = << >> => Len(box) = 1
  <2>1. box \in Seq(Messages) /\ box # << >>
    BY SeenTypes
  <2>. HIDE DEF box
  <2>. DEFINE tail == Tail(box)
  <2>2. /\ Len(box) \in Nat \ {0} /\ Head(box) = box[1]
        /\ tail \in Seq(Messages) /\ Len(tail) = Len(box) - 1
        /\ \A i \in 1 .. Len(tail) : tail[i] = box[i + 1]
    BY <2>1
  <2>3. tail # << >> => Len(tail) >= 1 /\ Head(tail) = tail[1]
    <3>. HIDE DEF tail
    <3>. QED
      BY <2>2
  <2>4. tail = << >> => Len(box) = 1
    <3>. HIDE DEF tail
    <3>1. tail = << >> => Len(tail) = 0
      BY EmptySeq
    <3>. QED
      BY <2>2, <3>1
  <2>5. tail = rest
    BY DEF box
  <2>. HIDE DEF tail, rest
  <2>6. tail # << >> => Head(tail) = box[2]
    <3>1. Len(tail) >= 1 => 1 \in 1 .. Len(tail) /\ tail[1] = box[1 + 1]
      BY <2>2
    <3>. QED
      BY <2>3, <3>1
  <2>. QED
    BY <2>1, <2>2, <2>3, <2>4, <2>5, <2>6
<1>2. /\ \A i \in 1 .. Len(box) - 1 :
           box[i + 1].kind \notin StartKinds => box[i + 1].id = After(box[i])
      /\ session[c] = After(box[Len(box)])
  BY DEF InboxInOrder
<1>3. inbox'[c] = rest /\ session'[c] = session[c]
  OBVIOUS
<1>. HIDE DEF box, rest
<1>4. ASSUME NEW i \in 1 .. Len(rest) - 1, rest[i + 1].kind \notin StartKinds
      PROVE  rest[i + 1].id = After(rest[i])
  <2>1. i + 1 \in 1 .. Len(box) - 1 /\ rest[i] = box[i + 1] /\ rest[i + 1] = box[i + 1 + 1]
    BY <1>1
  <2>. QED
    BY <1>2, <1>4, <2>1
<1>5. rest # << >> => session[c] = After(rest[Len(rest)])
  BY <1>1, <1>2
<1>6. InboxInOrder(c)'
  BY <1>3, <1>4, <1>5 DEF InboxInOrder
<1>7. Served(c)' \in {0, After(Head(box))}
  <2>1. CASE rest = << >>
    BY <1>1, <1>2, <1>3, <2>1 DEF Served
  <2>2. CASE rest # << >> /\ Head(rest).kind \in StartKinds
    BY <1>3, <2>2 DEF Served
  <2>3. CASE rest # << >> /\ Head(rest).kind \notin StartKinds
    <3>1. 1 \in 1 .. Len(box) - 1 /\ Head(rest) = box[1 + 1] /\ Head(box) = box[1]
      BY <1>1, <2>3
    <3>2. Head(rest).id = After(Head(box))
      BY <1>2, <2>3, <3>1
    <3>. QED
      BY <1>3, <2>3, <3>2 DEF Served
  <2>. QED
    BY <2>1, <2>2, <2>3
<1>. QED
  BY <1>6, <1>7 DEF box

\* A handler is done with a message, or dies, and nobody waits.
LEMMA OwnHandled ==
  ASSUME StepInv, OwnInv, NEW c \in Connections, Live(c), inbox[c] # << >>,
         Dies(c) \/ \E messages : Finishes(c, messages),
         \A k \in Connections : handler'[k] = "recv",
         UNCHANGED session,
         LET s == After(Head(inbox[c])) IN
           s # 0 => /\ langs' = s
                    /\ \A i \in 1 .. Len(audioBuffer') : audioBuffer'[i] = s
                    /\ disk'["dict"] \in {s, Unreadable},
         ResultsAreOwn'
  PROVE  OwnInv'
<1>. DEFINE s == After(Head(inbox[c]))
<1>1. \A k \in Connections : k # c => ~ Live(k)
  BY DEF OwnInv
<1>2. /\ \A k \in Connections : k # c => conn'[k] = conn[k]
      /\ conn'[c] = "closed" \/ (conn'[c] = conn[c] /\ inbox'[c] = Tail(inbox[c]))
  BY SeenTypes DEF Dies, Finishes
<1>3. \A k \in Connections : Live(k)' => k = c
  BY <1>1, <1>2
<1>4. Live(c)' => (InboxInOrder(c) /\ GlobalsAreOwn(c))'
  <2>1. ASSUME Live(c)' PROVE InboxInOrder(c)' /\ GlobalsAreOwn(c)'
    <3>1. InboxInOrder(c)' /\ Served(c)' \in {0, s}
      BY <1>2, <2>1, ServedNext DEF OwnInv
    <3>. QED
      BY <3>1 DEF GlobalsAreOwn
  <2>. QED
    BY <2>1
<1>5. \A k \in Connections : conn'[k] = "off" => session'[k] = 0
  BY <1>2 DEF OwnInv
<1>. QED
  BY <1>3, <1>4, <1>5 DEF OwnInv

\* What the globals hold when a message that begins no session is given.
LEMMA OwnGiven ==
  ASSUME StepInv, OwnInv, NEW c \in Connections, Live(c), inbox[c] # << >>,
         Head(inbox[c]).kind \notin StartKinds, Head(inbox[c]).id # 0
  PROVE  LET s == Head(inbox[c]).id IN
         /\ langs = s
         /\ \A i \in 1 .. Len(audioBuffer) : audioBuffer[i] = s
         /\ disk["dict"] \in {s, Unreadable}
  BY DEF OwnInv, GlobalsAreOwn, Served

\* Responses are no results.
LEMMA OutboxGrows ==
  ASSUME StepInv, OwnInv, NEW c \in Connections,
         NEW messages \in Seq(Sent), Finishes(c, messages),
         \A i \in 1 .. Len(messages) : messages[i].type = "result" =>
           /\ messages[i].langs = messages[i].for
           /\ AudioOf(messages[i].audio, messages[i].for)
  PROVE  ResultsAreOwn'
<1>1. CASE UNCHANGED outbox
  BY <1>1, ResultsKept
<1>2. CASE outbox' = [outbox EXCEPT ![c] = @ \o messages]
  <2>1. /\ outbox'[c] = outbox[c] \o messages /\ outbox[c] \in Seq(Sent)
        /\ \A k \in Connections : k # c => outbox'[k] = outbox[k]
    BY <1>2, SeenTypes
  <2>2. /\ Len(outbox'[c]) = Len(outbox[c]) + Len(messages)
        /\ Len(outbox[c]) \in Nat /\ Len(messages) \in Nat
        /\ \A i \in 1 .. Len(outbox[c]) + Len(messages) :
             outbox'[c][i] = IF i <= Len(outbox[c]) THEN outbox[c][i] ELSE messages[i - Len(outbox[c])]
    BY <2>1, ConcatProperties
  <2>3. ASSUME NEW i \in 1 .. Len(outbox'[c]), outbox'[c][i].type = "result"
        PROVE  LET r == outbox'[c][i] IN
               /\ r.langs = r.for /\ r.audio # << >>
               /\ \A n \in 1 .. Len(r.audio) : r.audio[n] = r.for
    <3>1. CASE i <= Len(outbox[c])
      <4>1. i \in 1 .. Len(outbox[c]) /\ outbox'[c][i] = outbox[c][i]
        BY <2>2, <3>1
      <4>. QED
        BY <2>3, <4>1 DEF OwnInv, ResultsAreOwn, Results
    <3>2. CASE ~ i <= Len(outbox[c])
      <4>1. i - Len(outbox[c]) \in 1 .. Len(messages) /\ outbox'[c][i] = messages[i - Len(outbox[c])]
        BY <2>2, <3>2
      <4>. QED
        BY <2>3, <4>1 DEF AudioOf
    <3>. QED
      BY <3>1, <3>2
  <2>4. ASSUME NEW k \in Connections, NEW r \in Results(k)'
        PROVE  /\ r.langs = r.for /\ r.audio # << >>
               /\ \A n \in 1 .. Len(r.audio) : r.audio[n] = r.for
    <3>1. CASE k = c
      <4>1. PICK i \in 1 .. Len(outbox'[c]) : r = outbox'[c][i] /\ outbox'[c][i].type = "result"
        BY <2>4, <3>1 DEF Results
      <4>. QED
        BY <2>3, <4>1
    <3>2. CASE k # c
      <4>1. Results(k)' = Results(k)
        BY <2>1, <3>2 DEF Results
      <4>. QED
        BY <2>4, <4>1 DEF OwnInv, ResultsAreOwn
    <3>. QED
      BY <3>1, <3>2
  <2>. QED
    BY <2>4 DEF ResultsAreOwn
<1>. QED
  BY <1>1, <1>2 DEF Finishes, Dies

LEMMA ResponseIsNoResult ==
  ASSUME StepInv, OwnInv, NEW c \in Connections,
         \/ Dies(c) \/ Finishes(c, << >>)
         \/ Finishes(c, <<Response(0)>>) \/ Finishes(c, <<Response(1)>>)
  PROVE  ResultsAreOwn' /\ (Dies(c) \/ \E messages : Finishes(c, messages))
<1>1. << >> \in Seq(Sent) /\ <<Response(0)>> \in Seq(Sent) /\ <<Response(1)>> \in Seq(Sent)
  BY DEF Response, Sent
<1>2. CASE Dies(c)
  BY <1>2, ResultsKept DEF Dies
<1>3. CASE Finishes(c, << >>)
  <2>1. ResultsAreOwn'
    <3>. DEFINE messages == << >>
    <3>1. messages \in Seq(Sent) /\ \A i \in 1 .. Len(messages) : messages[i].type # "result"
      BY <1>1
    <3>2. Finishes(c, messages)
      BY <1>3
    <3>. HIDE DEF messages
    <3>. QED
      BY <3>1, <3>2, OutboxGrows
  <2>. QED
    BY <1>3, <2>1
<1>4. ASSUME NEW status \in {0, 1}, Finishes(c, <<Response(status)>>)
      PROVE  ResultsAreOwn' /\ \E messages : Finishes(c, messages)
  <2>. DEFINE messages == <<Response(status)>>
  <2>1. messages \in Seq(Sent) /\ \A i \in 1 .. Len(messages) : messages[i].type # "result"
    BY DEF Response, Sent
  <2>. HIDE DEF messages
  <2>2. Finishes(c, messages)
    BY <1>4 DEF messages
  <2>. QED
    BY <2>1, <2>2, OutboxGrows
<1>. QED
  BY <1>2, <1>3, <1>4

\* "start" makes the globals those of its session.
LEMMA OwnReceiveStart ==
  ASSUME StepInv, OwnInv, NEW c \in Connections, ReceiveStart(c) \/ ReceiveBadGloss(c)
  PROVE  OwnInv'
<1>. DEFINE m == Head(inbox[c])
<1>1. /\ Live(c) /\ inbox[c] # << >> /\ UNCHANGED session
      /\ \A k \in Connections : handler'[k] = "recv"
  BY DEF ReceiveStart, ReceiveBadGloss, Receives, Waiting, clientVars
<1>2. CASE ReceiveBadGloss(c)
  <2>1. Dies(c)
    BY <1>2 DEF ReceiveBadGloss
  <2>2. conn' = [conn EXCEPT ![c] = "closed"] /\ UNCHANGED outbox
    BY <2>1 DEF Dies
  <2>3. \A k \in Connections : ~ Live(k)' /\ (conn'[k] = "off" => conn[k] = "off")
    BY <1>1, <2>2, SeenTypes DEF OwnInv
  <2>. QED
    BY <1>1, <2>2, <2>3, ResultsKept DEF OwnInv
<1>3. CASE ReceiveStart(c)
  <2>1. m.kind \in {"start", "startBadLine"} /\ After(m) = m.id
    BY <1>3 DEF ReceiveStart, Receives, After
  <2>2. /\ langs' = m.id /\ audioBuffer' = << >> /\ disk'["dict"] \in {m.id, Unreadable}
    BY <1>3, DiskTypes DEF ReceiveStart
  <2>3. ResultsAreOwn' /\ (Dies(c) \/ \E messages : Finishes(c, messages))
    BY <1>3, ResponseIsNoResult DEF ReceiveStart
  <2>. QED
    BY <1>1, <2>1, <2>2, <2>3, OwnHandled
<1>. QED
  BY <1>2, <1>3

\* Messages that change nothing, and the end of a session.
LEMMA OwnSimple ==
  ASSUME StepInv, OwnInv, NEW c \in Connections,
         ReceiveUnknown(c) \/ ReceiveLogged(c) \/ ReceiveMalformed(c)
  PROVE  OwnInv'
<1>. DEFINE m == Head(inbox[c])
<1>1. /\ Live(c) /\ inbox[c] # << >> /\ \A k \in Connections : handler'[k] = "recv"
      /\ UNCHANGED <<session, langs, audioBuffer, disk>>
      /\ m.kind \notin StartKinds \cup {"end"}
  BY DEF ReceiveUnknown, ReceiveLogged, ReceiveMalformed, Receives, Waiting, clientVars, audioVars,
         StartKinds
<1>2. ResultsAreOwn' /\ (Dies(c) \/ \E messages : Finishes(c, messages))
  BY ResponseIsNoResult DEF ReceiveUnknown, ReceiveLogged, ReceiveMalformed
<1>3. After(m) = m.id
  BY <1>1 DEF After
<1>. QED
  BY <1>1, <1>2, <1>3, OwnGiven, OwnHandled

LEMMA OwnEnd ==
  ASSUME StepInv, OwnInv, NEW c \in Connections, ReceiveEnd(c)
  PROVE  OwnInv'
<1>1. /\ Live(c) /\ inbox[c] # << >> /\ \A k \in Connections : handler[k] = "recv"
      /\ After(Head(inbox[c])) = 0
  BY DEF ReceiveEnd, Receives, Waiting, After
<1>2. Finishes(c, <<Response(0)>>) /\ UNCHANGED <<handler, session>>
  BY EndSaysDone DEF clientVars
<1>. QED
  BY <1>1, <1>2, ResponseIsNoResult, OwnHandled

\* A chunk adds its audio to that of its session.
LEMMA OwnBuffer ==
  ASSUME StepInv, OwnInv, NEW c \in Connections, Live(c), inbox[c] # << >>,
         Head(inbox[c]).kind = "chunk"
  PROVE  LET id == Head(inbox[c]).id  buffer == Append(audioBuffer, id) IN
         /\ id \in Nat \ {0} /\ After(Head(inbox[c])) = id
         /\ langs = id /\ disk["dict"] \in {id, Unreadable} /\ Served(c) = id
         /\ buffer \in Seq(Nat) /\ Len(buffer) = Len(audioBuffer) + 1
         /\ \A i \in 1 .. Len(buffer) : buffer[i] = id
<1>. DEFINE id     == Head(inbox[c]).id
            buffer == Append(audioBuffer, id)
<1>1. id \in Nat \ {0} /\ After(Head(inbox[c])) = id /\ Head(inbox[c]).kind \notin StartKinds
  BY HeadOfInbox DEF Messages, After, StartKinds
<1>2. /\ langs = id /\ disk["dict"] \in {id, Unreadable}
      /\ \A i \in 1 .. Len(audioBuffer) : audioBuffer[i] = id
  BY <1>1, OwnGiven
<1>3. Served(c) = id
  BY <1>1 DEF Served
<1>4. audioBuffer \in Seq(Nat)
  <2>1. sessions \in Nat /\ audioBuffer \in Seq(1 .. sessions)
    BY BoundsAssumption DEF StepInv, Types, ClientTypes, AudioTypes
  <2>2. \A n \in 1 .. sessions : n \in Nat
    BY <2>1
  <2>. QED
    BY <2>1, <2>2, SeqMonotonic
<1>. HIDE DEF id
<1>5. /\ buffer \in Seq(Nat) /\ Len(buffer) = Len(audioBuffer) + 1
      /\ \A i \in 1 .. Len(buffer) : buffer[i] = id
  BY <1>1, <1>2, <1>4, AppendProperties
<1>. QED
  BY <1>1, <1>2, <1>3, <1>5 DEF id

\* What is sent of it is never empty: it ends with the tick just received.
LEMMA SliceIsOwn ==
  ASSUME StepInv, NEW id \in Nat, NEW buffer \in Seq(Nat), Len(buffer) = Len(audioBuffer) + 1,
         \A i \in 1 .. Len(buffer) : buffer[i] = id,
         NEW sh \in BOOLEAN, ~ sh, NEW check, check = checkAudio(Len(buffer), sh, lastSentEndSec),
         ~ checkAudio(Len(audioBuffer), sh, lastSentEndSec).sends, check.sends
  PROVE  AudioOf(SubSeq(buffer, SliceIndex(Len(buffer), check.from) + 1,
                                SliceIndex(Len(buffer), check.to)), id)
<1>1. Len(audioBuffer) \in Nat /\ lastSentEndSec \in Int /\ Len(buffer) \in Nat
  BY DEF StepInv, Types, AudioTypes
<1>2. check.to = Len(buffer) /\ check.from \in 0 .. Len(audioBuffer)
  BY <1>1, SentAtTheEnd
<1>. DEFINE i == SliceIndex(Len(buffer), check.from) + 1
            j == SliceIndex(Len(buffer), check.to)
            s == SubSeq(buffer, i, j)
<1>3. i \in 1 .. Len(buffer) /\ j = Len(buffer)
  BY <1>1, <1>2 DEF SliceIndex
<1>. HIDE DEF i, j
<1>4. i \in Int /\ j \in Int /\ \A n \in i .. j : buffer[n] \in Nat
  BY <1>1, <1>3
<1>5. /\ s \in Seq(Nat) /\ Len(s) = j - i + 1
      /\ \A n \in 1 .. j - i + 1 : s[n] = buffer[i + n - 1]
  BY <1>3, <1>4, SubSeqProperties
<1>. HIDE DEF s
<1>6. s # << >>
  BY <1>1, <1>3, <1>5, EmptySeq
<1>7. \A n \in 1 .. Len(s) : s[n] = id
  BY <1>1, <1>3, <1>5
<1>. QED
  BY <1>5, <1>6, <1>7 DEF AudioOf, s, i, j

LEMMA OwnChunk ==
  ASSUME StepInv, OwnInv, NEW c \in Connections, ReceiveChunk(c)
  PROVE  OwnInv'
<1>. DEFINE sh     == FALSE
            id     == Head(inbox[c]).id
            buffer == Append(audioBuffer, id)
            check  == checkAudio(Len(buffer), sh, lastSentEndSec)
            slice  == SubSeq(buffer, SliceIndex(Len(buffer), check.from) + 1,
                                     SliceIndex(Len(buffer), check.to))
<1>1. /\ Live(c) /\ inbox[c] # << >> /\ Head(inbox[c]).kind = "chunk" /\ server = "serving"
      /\ ~ Waiting /\ \A k \in Connections : handler[k] = "recv"
      /\ UNCHANGED <<session, langs>>
  BY DEF ReceiveChunk, Receives, Waiting, clientVars
<1>2. /\ audioBuffer' = buffer
      /\ \/ /\ Finishes(c, << >>) /\ UNCHANGED <<disk, handler>>
         \/ /\ check.sends
            /\ disk' = [disk EXCEPT !["wav"] = slice]
            /\ \/ /\ WriteToSt(Request("wav", langs, "dict"))
                  /\ handler' = [handler EXCEPT ![c] = "chunk"]
                  /\ UNCHANGED <<conn, inbox, outbox>>
               \/ /\ Dies(c)
                  /\ UNCHANGED handler
  BY DEF ReceiveChunk, CheckAndSend
<1>3. /\ id \in Nat \ {0} /\ After(Head(inbox[c])) = id
      /\ langs = id /\ disk["dict"] \in {id, Unreadable} /\ Served(c) = id
      /\ buffer \in Seq(Nat) /\ Len(buffer) = Len(audioBuffer) + 1
      /\ \A i \in 1 .. Len(buffer) : buffer[i] = id
  BY <1>1, OwnBuffer
<1>4. sh \in BOOLEAN /\ ~ sh /\ ~ checkAudio(Len(audioBuffer), sh, lastSentEndSec).sends
  BY DEF StepInv, AudioChecked
<1>5. disk'["dict"] = disk["dict"]
  BY <1>2, DiskTypes
<1>. HIDE DEF buffer, sh
<1>6. check.sends => AudioOf(slice, id)
  <2>. HIDE DEF id
  <2>. QED
    BY <1>3, <1>4, SliceIsOwn
<1>. HIDE DEF check, slice, id
<1>7. CASE UNCHANGED handler /\ (Finishes(c, << >>) \/ Dies(c))
  <2>1. ResultsAreOwn' /\ (Dies(c) \/ \E messages : Finishes(c, messages))
    BY <1>7, ResponseIsNoResult
  <2>2. /\ langs' = id /\ disk'["dict"] \in {id, Unreadable}
        /\ \A i \in 1 .. Len(audioBuffer') : audioBuffer'[i] = id
    BY <1>1, <1>2, <1>3, <1>5
  <2>3. \A k \in Connections : handler'[k] = "recv"
    BY <1>1, <1>7
  <2>. QED
    BY <1>1, <1>3, <2>1, <2>2, <2>3, OwnHandled
<1>8. CASE /\ check.sends
           /\ disk' = [disk EXCEPT !["wav"] = slice]
           /\ WriteToSt(Request("wav", langs, "dict"))
           /\ handler' = [handler EXCEPT ![c] = "chunk"]
           /\ UNCHANGED <<conn, inbox, outbox>>
  <2>1. \A k \in Connections : k # c => ~ Live(k) /\ handler'[k] = "recv"
    BY <1>1, <1>8 DEF OwnInv
  <2>2. InboxInOrder(c)' /\ Served(c)' = id
    BY <1>1, <1>3, <1>8 DEF OwnInv, InboxInOrder, Served
  <2>3. GlobalsAreOwn(c)'
    BY <1>1, <1>2, <1>3, <1>5, <2>2 DEF GlobalsAreOwn
  <2>4. RequestIsOwn(c)'
    <3>1. AudioOf(disk'["wav"], id)
      BY <1>6, <1>8, DiskTypes
    <3>2. /\ stdin' = Append(stdin, Request("wav", langs, "dict"))
          /\ UNCHANGED <<stProc, stdout, current>> /\ stProc # "exited"
      BY <1>8 DEF WriteToSt
    <3>3. stProc = "serving"
      BY <1>1, <3>2 DEF StepInv, Types, PipeTypes, BootInStep
    <3>4. Len(stdin) = 0 /\ Len(stdout) = 0 /\ current = Idle
      BY <1>1, <3>3, PipesCounted
    <3>5. stdin = << >>
      BY <3>4, EmptySeq DEF StepInv, Types, PipeTypes
    <3>6. stdin' = <<Request("wav", langs, "dict")>>
      BY <3>2, <3>5
    <3>7. \A i \in 1 .. Len(stdin') : stdin'[i].langs = id
      BY <1>3, <3>6 DEF Request
    <3>8. Head(inbox'[c]).id = id
      BY <1>8 DEF id
    <3>. QED
      BY <3>1, <3>2, <3>4, <3>7, <3>8 DEF RequestIsOwn
  <2>5. \A k \in Connections : conn'[k] = "off" => session'[k] = 0
    BY <1>1, <1>8 DEF OwnInv
  <2>6. ResultsAreOwn'
    BY <1>8, ResultsKept
  <2>7. \A k \in Connections : Live(k)' <=> Live(k)
    BY <1>8
  <2>. QED
    BY <2>1, <2>2, <2>3, <2>4, <2>5, <2>6, <2>7 DEF OwnInv
<1>. QED
  BY <1>2, <1>7, <1>8

\* The result read is that of the session whose handler waits.
LEMMA OwnReadReply ==
  ASSUME StepInv, OwnInv, NEW c \in Connections, ReadReply(c)
  PROVE  OwnInv'
<1>. DEFINE id     == Head(inbox[c]).id
            result == Result(Head(stdout), id)
<1>1. /\ server = "serving" /\ handler[c] = "chunk" /\ inbox[c] # << >>
      /\ Head(inbox[c]).kind = "chunk" /\ Live(c)
      /\ handler' = [handler EXCEPT ![c] = "recv"]
      /\ UNCHANGED <<session, langs, audioBuffer, disk>>
      /\ \/ /\ HasLine /\ Head(stdout).kind = "ok" /\ Finishes(c, <<result>>)
         \/ Finishes(c, << >>)
         \/ Dies(c)
  BY ReadReplyCases DEF audioVars, clientVars
<1>2. \A k \in Connections : handler'[k] = "recv"
  <2>1. handler \in [Connections -> {"recv", "chunk", "end"}]
    BY DEF StepInv, Types, ConnTypes
  <2>. QED
    BY <1>1, <2>1 DEF StepInv, HandlersInStep
<1>3. /\ id # 0 /\ After(Head(inbox[c])) = id /\ langs = id
      /\ disk["dict"] \in {id, Unreadable}
      /\ \A i \in 1 .. Len(audioBuffer) : audioBuffer[i] = id
  <2>1. id # 0 /\ After(Head(inbox[c])) = id /\ Head(inbox[c]).kind \notin StartKinds
    BY <1>1, HeadOfInbox DEF After, StartKinds
  <2>. QED
    BY <1>1, <2>1, OwnGiven
<1>4. ResultsAreOwn' /\ (Dies(c) \/ \E messages : Finishes(c, messages))
  <2>1. CASE HasLine /\ Head(stdout).kind = "ok" /\ Finishes(c, <<result>>)
    <3>1. result \in Sent
      BY <1>1, <2>1, ResultIsSent DEF Sent
    <3>2. Head(stdout).langs = id /\ AudioOf(Head(stdout).audio, id)
      <4>1. RequestIsOwn(c) /\ stdout \in Seq(Replies) /\ stdout # << >>
        BY <1>1, <2>1 DEF OwnInv, StepInv, Types, PipeTypes, HasLine
      <4>2. 1 \in 1 .. Len(stdout) /\ Head(stdout) = stdout[1]
        BY <4>1
      <4>. QED
        BY <2>1, <4>1, <4>2 DEF RequestIsOwn
    <3>3. result.langs = result.for /\ AudioOf(result.audio, result.for)
      BY <3>2 DEF Result
    <3>. HIDE DEF result
    <3>. DEFINE messages == <<result>>
    <3>4. messages \in Seq(Sent) /\ \A i \in 1 .. Len(messages) : messages[i] = result
      BY <3>1
    <3>5. Finishes(c, messages)
      BY <2>1
    <3>. HIDE DEF messages
    <3>. QED
      BY <3>3, <3>4, <3>5, OutboxGrows
  <2>2. CASE Finishes(c, << >>) \/ Dies(c)
    BY <2>2, ResponseIsNoResult
  <2>. QED
    BY <1>1, <2>1, <2>2
<1>. QED
  BY <1>1, <1>2, <1>3, <1>4, OwnHandled

LEMMA OwnShutdown ==
  ASSUME StepInv, OwnInv, NEW c \in Connections, ReceiveShutdown(c)
  PROVE  OwnInv'
<1>1. /\ Live(c) /\ inbox[c] # << >> /\ \A k \in Connections : handler[k] = "recv"
      /\ Head(inbox[c]).kind = "shutdown" /\ UNCHANGED <<session, langs, audioBuffer>>
  BY DEF ReceiveShutdown, Receives, Waiting, clientVars, audioVars
<1>2. CASE Exit
  BY <1>2, OwnExit DEF ReceiveShutdown
<1>3. CASE Dies(c) /\ UNCHANGED <<disk, handler>>
  <2>1. ResultsAreOwn' /\ (Dies(c) \/ \E messages : Finishes(c, messages))
    BY <1>3, ResponseIsNoResult
  <2>2. After(Head(inbox[c])) = Head(inbox[c]).id /\ Head(inbox[c]).kind \notin StartKinds
    BY <1>1 DEF After, StartKinds
  <2>. QED
    BY <1>1, <1>3, <2>1, <2>2, OwnGiven, OwnHandled
<1>. QED
  BY <1>2, <1>3 DEF ReceiveShutdown

LEMMA OwnInductive ==
  ASSUME StepInv, OwnInv, ~ Overlap, [Next]_vars
  PROVE  OwnInv'
<1>1. CASE UNCHANGED vars
  <2>1. /\ UNCHANGED <<conn, inbox, outbox, handler, session, langs, audioBuffer, disk,
                       stdin, stdout, current>>
    BY <1>1 DEF vars, stVars, connVars, audioVars, clientVars
  <2>2. \A k \in Connections : RequestIsOwn(k) => RequestIsOwn(k)'
    BY <2>1 DEF RequestIsOwn
  <2>. QED
    BY <2>1, <2>2, OwnKept, ResultsKept DEF OwnInv
<1>2. ASSUME NEW c \in Connections, externalLoop(c)
      PROVE  OwnInv'
  BY <1>2, OwnReceiveStart, OwnChunk, OwnEnd, OwnReadReply, OwnSimple, OwnShutdown, OwnLeave
     DEF externalLoop
<1>. QED
  BY <1>1, <1>2, OwnStServer, OwnStart, OwnConnect, OwnClientSend, OwnLeave DEF Next

(***************************************************************************)
(* Clients that do not overlap, whatever they send and however many there  *)
(* are, get results made from the audio and the languages of the session   *)
(* they are sent for: never of an earlier client's that left or died in    *)
(* the middle of its own.                                                  *)
(***************************************************************************)
THEOREM ResultsOfTheSession ==
  ASSUME ~ Overlap
  PROVE  Spec => []ResultsAreOwn
<1>1. StepInv /\ OwnInv /\ [Next]_vars => (StepInv /\ OwnInv)'
  BY StepInductive, OwnInductive
<1>2. OwnInv => ResultsAreOwn
  BY DEF OwnInv
<1>. QED
  BY <1>1, <1>2, InitInStep, OwnInit, PTL DEF Spec

(***************************************************************************)
(* The files a request of such a client names stay those of its session    *)
(* until it is answered, though the ST server reads them long after they   *)
(* are written.                                                            *)
(***************************************************************************)
THEOREM FilesOfTheRequest ==
  ASSUME ~ Overlap
  PROVE  Spec => []FilesAreOwn
<1>1. StepInv /\ OwnInv /\ [Next]_vars => (StepInv /\ OwnInv)'
  BY StepInductive, OwnInductive
<1>2. ASSUME StepInv, OwnInv PROVE FilesAreOwn
  <2>. SUFFICES ASSUME NEW c \in Connections, handler[c] # "recv"
                PROVE  /\ disk["dict"] \in {Head(inbox[c]).id, Unreadable}
                       /\ disk["wav"] # Absent
                       /\ \A i \in 1 .. Len(disk["wav"]) : disk["wav"][i] = Head(inbox[c]).id
    BY DEF FilesAreOwn
  <2>1. handler[c] = "chunk" /\ inbox[c] # << >> /\ Head(inbox[c]).kind = "chunk" /\ Live(c)
    BY <1>2, SeenTypes DEF StepInv, Types, ConnTypes, AudioChecked, HandlersInStep
  <2>2. disk["dict"] \in {Head(inbox[c]).id, Unreadable}
    BY <1>2, <2>1, OwnBuffer
  <2>3. AudioOf(disk["wav"], Head(inbox[c]).id)
    BY <1>2, <2>1 DEF OwnInv, RequestIsOwn
  <2>. QED
    BY <2>2, <2>3, AbsentAssumption DEF AudioOf
<1>. QED
  BY <1>1, <1>2, InitInStep, OwnInit, PTL DEF Spec
=============================================================================
