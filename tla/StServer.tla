------------------------------ MODULE StServer ------------------------------
(***************************************************************************)
(* The speech translation (ST) server, api/simple_io_server_st.py with the *)
(* st_triangle_ne processor, as the process that holds the other ends of   *)
(* its pipes sees it: it prints a banner, then answers one line of stdin   *)
(* after the other with one line of stdout.                                *)
(*                                                                         *)
(* A module that starts the server EXTENDS this one, and says what is      *)
(* written to stdin, what is read from stdout and what the files hold.     *)
(* What the model hears in the audio, the knowledge graph service and the  *)
(* extraction of names and terms are left out but for their raising.       *)
(***************************************************************************)
EXTENDS Integers, Sequences

CONSTANTS
  Paths,       \* the names of files
  Faults,      \* what can go wrong: some of "start", "raise" and "crash"
  Absent,      \* no such file, or a dictionary that is not loaded
  Unreadable   \* a dictionary with a line that load_dict cannot split

ASSUME FaultsAssumption == Faults \subseteq {"start", "raise", "crash"}

VARIABLES
  stProc,       \* the process: "starting", "serving" or "exited"
  stdin,        \* lines written to the server that it has not read
  stdinOpen,    \* whether the writing end of stdin is open
  stdout,       \* lines of the server that nobody has read
  stdoutOpen,   \* whether the reading end of stdout is open
  current,      \* the line being dealt with, and the audio read for it
  loadedDicts,  \* LOADED_DICTS: the dictionaries loaded, by path
  disk          \* what the files hold, by path

stVars == <<stProc, stdin, stdinOpen, stdout, stdoutOpen, current, loadedDicts>>

NoPath == "no path"  \* in a request: no dictionary

Request(wav, langs, dictionary) ==
  [kind |-> "request", wav_path |-> wav, langs |-> langs, dictionary |-> dictionary]
ShutdownCommand == [kind |-> "shutdown"]
OtherLine       == [kind |-> "other"]    \* no JSON, or a command it does not know

Banner     == [kind |-> "banner"]        \* "server started successfully"
Complaint  == [kind |-> "complaint"]     \* what the start script echoes
ErrorReply == [kind |-> "error"]
OkReply(audio, langs, terms) ==
  [kind |-> "ok", audio |-> audio, langs |-> langs, terms |-> terms]

\* The server waits for input: there is no line it deals with.
Idle == [line |-> [kind |-> "none"], audio |-> Absent]

StInit ==
  /\ stProc = "starting"
  /\ stdin = << >> /\ stdinOpen = TRUE
  /\ stdout = << >> /\ stdoutOpen = TRUE
  /\ current = Idle
  /\ loadedDicts = [p \in Paths |-> Absent]

-----------------------------------------------------------------------------

\* sys.stdout.write(line), and back to the top of the loop.  Nothing catches
\* the error of a pipe that nobody reads any more.
Answers(line) ==
  /\ current' = Idle
  /\ IF stdoutOpen
     THEN stdout' = Append(stdout, line) /\ stProc' = "serving"
     ELSE stProc' = "exited" /\ UNCHANGED stdout

\* The model is loaded: the banner, then the loop.
StartUp ==
  /\ stProc = "starting"
  /\ Answers(Banner)
  /\ UNCHANGED <<stdin, stdinOpen, stdoutOpen, loadedDicts, disk>>

\* The start script echoes what it misses and exits, or Python dies loading
\* the model (which it tells stderr).
FailToStart ==
  /\ "start" \in Faults
  /\ stProc = "starting"
  /\ stProc' = "exited"
  /\ stdout' \in {stdout, Append(stdout, Complaint)}
  /\ UNCHANGED <<stdin, stdinOpen, stdoutOpen, current, loadedDicts, disk>>

\* Bug: the loop looks at the line and leaves it in the pipe.
ReadLine_peeks ==
  /\ stProc = "serving" /\ current = Idle /\ stdin # << >>
  /\ current' = [line |-> Head(stdin), audio |-> Absent]
  /\ UNCHANGED <<stProc, stdin, stdinOpen, stdout, stdoutOpen, loadedDicts, disk>>

\* sys.stdin.readline().
ReadLine ==
  /\ stProc = "serving" /\ current = Idle /\ stdin # << >>
  /\ current' = [line |-> Head(stdin), audio |-> Absent]
  /\ stdin' = Tail(stdin)
  /\ UNCHANGED <<stProc, stdinOpen, stdout, stdoutOpen, loadedDicts, disk>>

\* Bug: the end of stdin is waited out.
ReadEof_waits ==
  /\ stProc = "serving" /\ current = Idle /\ stdin = << >> /\ ~ stdinOpen
  /\ UNCHANGED <<stVars, disk>>

\* At the end of stdin readline returns "", which is no JSON: the server takes
\* it for a line like another, and answers it.
ReadEof ==
  /\ stProc = "serving" /\ current = Idle /\ stdin = << >> /\ ~ stdinOpen
  /\ Answers(ErrorReply)
  /\ UNCHANGED <<stdin, stdinOpen, stdoutOpen, loadedDicts, disk>>

\* {"command": "shutdown"}: the loop ends without an answer.
ShutDown ==
  /\ current # Idle /\ current.line = ShutdownCommand
  /\ stProc' = "exited"
  /\ current' = Idle
  /\ UNCHANGED <<stdin, stdinOpen, stdout, stdoutOpen, loadedDicts, disk>>

Refuse ==
  /\ current # Idle /\ current.line = OtherLine
  /\ Answers(ErrorReply)
  /\ UNCHANGED <<stdin, stdinOpen, stdoutOpen, loadedDicts, disk>>

\* preproc_audio opens the WAV file.
ReadAudio ==
  /\ current # Idle /\ current.line.kind = "request" /\ current.audio = Absent
  /\ LET audio == disk[current.line.wav_path] IN
     IF audio = Absent
     THEN Answers(ErrorReply)
     ELSE /\ current' = [current EXCEPT !.audio = audio]
          /\ UNCHANGED <<stProc, stdout>>
  /\ UNCHANGED <<stdin, stdinOpen, stdoutOpen, loadedDicts, disk>>

\* Bug: the error is logged and no line is written.
Raise_silent ==
  /\ "raise" \in Faults
  /\ current # Idle /\ current.line.kind = "request" /\ current.audio # Absent
  /\ current' = Idle
  /\ UNCHANGED <<stProc, stdin, stdinOpen, stdout, stdoutOpen, loadedDicts, disk>>

\* The features, the inference or the knowledge graph service raise: whatever
\* it is, BaseException is caught and the error is the answer.
Raise ==
  /\ "raise" \in Faults
  /\ current # Idle /\ current.line.kind = "request" /\ current.audio # Absent
  /\ Answers(ErrorReply)
  /\ UNCHANGED <<stdin, stdinOpen, stdoutOpen, loadedDicts, disk>>

\* load_dict: the dictionary loaded under the path, else the file's.
load_dict(path) == IF loadedDicts[path] # Absent THEN loadedDicts[path] ELSE disk[path]

\* Bug: the dictionary's place in LOADED_DICTS is taken before it is read.
Process_keepsBad ==
  /\ current # Idle /\ current.line.kind = "request" /\ current.audio # Absent
  /\ LET path == current.line.dictionary
         dict == IF path = NoPath THEN Absent ELSE load_dict(path)
     IN  /\ Answers(IF path # NoPath /\ dict \in {Absent, Unreadable} THEN ErrorReply
                    ELSE OkReply(current.audio, current.line.langs, dict))
         /\ loadedDicts' = [p \in Paths |-> IF p = path THEN dict ELSE loadedDicts[p]]
  /\ UNCHANGED <<stdin, stdinOpen, stdoutOpen, disk>>

\* The names are paired, the dictionary is loaded and kept, the terms are
\* extracted, and the result, or the error some step of it raised, is written.
Process ==
  /\ current # Idle /\ current.line.kind = "request" /\ current.audio # Absent
  /\ LET path == current.line.dictionary
         dict == IF path = NoPath THEN Absent ELSE load_dict(path)
         ok   == OkReply(current.audio, current.line.langs, dict)
     IN  IF path # NoPath /\ dict \in {Absent, Unreadable}
         THEN Answers(ErrorReply) /\ UNCHANGED loadedDicts
         ELSE /\ \/ Answers(ok)
                 \/ "raise" \in Faults /\ Answers(ErrorReply)
              /\ loadedDicts' = [p \in Paths |-> IF p = path THEN dict ELSE loadedDicts[p]]
  /\ UNCHANGED <<stdin, stdinOpen, stdoutOpen, disk>>

\* The process dies (out of memory, the GPU's driver, a signal).
Crash ==
  /\ "crash" \in Faults
  /\ stProc # "exited"
  /\ stProc' = "exited"
  /\ current' = Idle
  /\ UNCHANGED <<stdin, stdinOpen, stdout, stdoutOpen, loadedDicts, disk>>

\* What the server does of itself: it reads, answers, and stops when told to.
StWork ==
  StartUp \/ ReadLine \/ ReadEof \/ ShutDown \/ Refuse \/ ReadAudio \/ Raise \/ Process
=============================================================================
