------------------------------ MODULE StClient ------------------------------
(***************************************************************************)
(* The ST server alone, with any client of its line protocol               *)
(* (api/README.md): the client writes lines without waiting for answers,   *)
(* changes the dictionary files as it likes, and stops at any time.        *)
(***************************************************************************)
EXTENDS StServer, FiniteSets

CONSTANTS
  Dictionaries,  \* the contents the dictionary files may get
  MaxLines       \* bound: the lines the client writes

ASSUME MaxLinesAssumption == MaxLines \in Nat
ASSUME PathsAssumption    == "wav" \in Paths /\ NoPath \notin Paths
ASSUME MarksAssumption    == Absent # Unreadable

VARIABLES
  written,  \* the lines the client wrote, in order
  answers   \* what it read after the banner, in order

vars == <<stVars, disk, written, answers>>

DictionaryPaths == Paths \ {"wav"}

IsAnswer(line) == line.kind \in {"ok", "error"}

\* Lines of stdout without the banner or the complaint before them.
AnswersIn(lines) ==
  IF lines # << >> /\ ~ IsAnswer(Head(lines)) THEN Tail(lines) ELSE lines

TypeOK ==
  /\ stProc \in {"starting", "serving", "exited"}
  /\ stdinOpen \in BOOLEAN /\ stdoutOpen \in BOOLEAN
  /\ Len(written) <= MaxLines
  /\ \A p \in DictionaryPaths :
       {loadedDicts[p], disk[p]} \subseteq Dictionaries \cup {Absent, Unreadable}
  /\ \A p \in Paths : loadedDicts[p] # Unreadable
  /\ \A i \in 1 .. Len(stdin) : stdin[i] \in {written[j] : j \in 1 .. Len(written)}
  /\ \A i \in 2 .. Len(stdout) : IsAnswer(stdout[i])

Init ==
  /\ StInit
  /\ disk \in [Paths -> {Absent}]
  /\ written = << >>
  /\ answers = << >>

\* The n-th line names n as its languages, so that its answer can be told.
Lines(n) ==
  {Request("wav", n, d) : d \in DictionaryPaths \cup {NoPath}}
    \cup {OtherLine, ShutdownCommand}

WriteLine ==
  /\ stdinOpen /\ stProc # "exited" /\ Len(written) < MaxLines
  /\ \E line \in Lines(Len(written) + 1) :
       /\ stdin' = Append(stdin, line)
       /\ written' = Append(written, line)
  /\ UNCHANGED <<stProc, stdinOpen, stdout, stdoutOpen, current, loadedDicts, disk, answers>>

ReadAnswer ==
  /\ stdoutOpen /\ stdout # << >>
  /\ stdout' = Tail(stdout)
  /\ answers' = IF IsAnswer(Head(stdout))
                THEN Append(answers, Head(stdout)) ELSE answers
  /\ UNCHANGED <<stProc, stdin, stdinOpen, stdoutOpen, current, loadedDicts, disk, written>>

\* The WAV file is written; a dictionary is written, replaced or removed.
ChangeFile ==
  /\ Len(written) < MaxLines
  /\ \/ disk["wav"] = Absent /\ disk' = [disk EXCEPT !["wav"] = "audio"]
     \/ \E p \in DictionaryPaths : \E d \in Dictionaries \cup {Absent, Unreadable} :
          disk[p] # d /\ disk' = [disk EXCEPT ![p] = d]
  /\ UNCHANGED <<stVars, written, answers>>

\* The client dies, and with it its ends of the pipes.
Close ==
  /\ stdinOpen
  /\ stdinOpen' = FALSE
  /\ stdoutOpen' = FALSE
  /\ UNCHANGED <<stProc, stdin, stdout, current, loadedDicts, disk, written, answers>>

\* The server's steps, which leave the client alone.
Serve == StWork /\ UNCHANGED <<written, answers>>
Fail  == (FailToStart \/ Crash) /\ UNCHANGED <<written, answers>>

Next == Serve \/ Fail \/ WriteLine \/ ReadAnswer \/ ChangeFile \/ Close

\* The process is scheduled, and the model and the knowledge graph service
\* answer; the client reads what it is sent while it lives.
Spec == Init /\ [][Next]_vars /\ WF_vars(Serve) /\ WF_vars(ReadAnswer)

-----------------------------------------------------------------------------

\* All the server has answered, read or not.
Answered == answers \o AnswersIn(stdout)

(***************************************************************************)
(* A line and its answer are told apart by their places only (the request  *)
(* id of the server is not in the answer): while the server serves, every  *)
(* line is unread, being dealt with, or answered once, and an answer that  *)
(* stands at a place is the answer to the line of that place, whatever was *)
(* raised for the lines before.  A result has terms when its line names a  *)
(* dictionary, and of a whole one: a file that was missing or broken when  *)
(* it was loaded leaves nothing in LOADED_DICTS for the lines to come.     *)
(***************************************************************************)
AnswersMatchLines ==
  /\ Len(Answered) <= Len(written)
  /\ \A i \in 1 .. Len(Answered) :
       Answered[i].kind = "ok" =>
         /\ written[i].kind = "request" /\ Answered[i].langs = written[i].langs
         /\ IF written[i].dictionary = NoPath THEN Answered[i].terms = Absent
            ELSE Answered[i].terms \in Dictionaries
  /\ (stProc = "serving" /\ stdinOpen) =>
       Len(Answered) + Len(stdin) + (IF current = Idle THEN 0 ELSE 1) = Len(written)

(***************************************************************************)
(* The n-th line is answered at last, unless the server stops.             *)
(***************************************************************************)
EveryLineAnswered ==
  \A n \in 1 .. MaxLines :
    (Len(written) >= n) ~> (Len(Answered) >= n \/ stProc = "exited")

(***************************************************************************)
(* A server whose client is gone stops, though nobody tells it to.         *)
(***************************************************************************)
NoOrphan == (~ stdinOpen /\ ~ stdoutOpen) ~> (stProc = "exited")
=============================================================================
