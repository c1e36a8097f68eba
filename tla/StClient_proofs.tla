-------------------------- MODULE StClient_proofs --------------------------
(***************************************************************************)
(* Theorems of StClient, for every client of the ST server's line          *)
(* protocol: any number of lines, any dictionary files, every fault.       *)
(***************************************************************************)
EXTENDS StClient, SequenceTheorems, TLAPS

-----------------------------------------------------------------------------
(***************************************************************************)
(* Types.                                                                  *)
(***************************************************************************)

Requests == [kind : {"request"}, wav_path : {"wav"}, langs : Nat,
             dictionary : DictionaryPaths \cup {NoPath}]
LineSet  == Requests \cup {OtherLine, ShutdownCommand}

Audios    == {Absent, "audio"}
Contents  == Dictionaries \cup {Absent, Unreadable}
OkReplies == [kind : {"ok"}, audio : Audios, langs : Nat, terms : Contents]
AnswerSet == OkReplies \cup {ErrorReply}
Replies   == AnswerSet \cup {Banner, Complaint}

LineTypes ==
  /\ stProc \in {"starting", "serving", "exited"}
  /\ stdinOpen \in BOOLEAN /\ stdoutOpen = stdinOpen
  /\ stdin \in Seq(LineSet) /\ written \in Seq(LineSet) /\ Len(written) <= MaxLines
  /\ stdout \in Seq(Replies) /\ answers \in Seq(AnswerSet)
  /\ current \in {Idle} \cup [line : LineSet, audio : Audios]
  /\ current # Idle => stProc = "serving"
  /\ stProc = "starting" => stdout = << >>
  /\ \A i \in 2 .. Len(stdout) : stdout[i] \in AnswerSet

FileTypes ==
  /\ DOMAIN disk = Paths /\ DOMAIN loadedDicts = Paths
  /\ disk["wav"] \in Audios /\ loadedDicts["wav"] = Absent
  /\ \A p \in DictionaryPaths :
       disk[p] \in Contents /\ loadedDicts[p] \in Contents \ {Unreadable}

\* Nothing is read that was not written.
NothingInvented ==
  \A i \in 1 .. Len(stdin) : \E j \in 1 .. Len(written) : stdin[i] = written[j]

-----------------------------------------------------------------------------
(***************************************************************************)
(* Lines and answers.                                                      *)
(***************************************************************************)

Busy == IF current = Idle THEN 0 ELSE 1

\* The lines not answered are the last ones written, in order, the first of
\* them being dealt with; a server that has stopped answered no more than these.
LinesInOrder ==
  /\ Len(Answered) <= Len(written)
  /\ stProc # "exited" =>
       /\ Len(written) = Len(Answered) + Busy + Len(stdin)
       /\ current # Idle => current.line = written[Len(Answered) + 1]
       /\ \A i \in 1 .. Len(stdin) : stdin[i] = written[Len(Answered) + Busy + i]

\* A result is about its line, and was made with the dictionary that is loaded
\* under the path that line names.
AnswerFits(answer, line, dicts) ==
  answer.kind = "ok" =>
    /\ line \in Requests /\ answer.langs = line.langs
    /\ line.dictionary = NoPath => answer.terms = Absent
    /\ line.dictionary # NoPath =>
         dicts[line.dictionary] # Absent /\ answer.terms = dicts[line.dictionary]

AnswersFit == \A i \in 1 .. Len(Answered) : AnswerFits(Answered[i], written[i], loadedDicts)

LineInv == LineTypes /\ FileTypes /\ NothingInvented /\ LinesInOrder /\ AnswersFit

USE DEF NoPath, Banner, Complaint, ErrorReply, ShutdownCommand, OtherLine

-----------------------------------------------------------------------------
(***************************************************************************)
(* What has been answered.                                                 *)
(***************************************************************************)

LEMMA AnswersAreAnswers ==
  /\ \A r \in Replies : IsAnswer(r) <=> r \in AnswerSet
  /\ AnswerSet \subseteq Replies
<1>1. ASSUME NEW r \in Replies PROVE IsAnswer(r) <=> r \in AnswerSet
  <2>1. CASE r \in OkReplies
    BY <2>1 DEF IsAnswer, AnswerSet, OkReplies
  <2>2. CASE r = ErrorReply
    BY <2>2 DEF IsAnswer, AnswerSet
  <2>3. CASE r \in {Banner, Complaint}
    BY <2>3 DEF IsAnswer, AnswerSet, OkReplies
  <2>. QED
    BY <2>1, <2>2, <2>3 DEF Replies, AnswerSet
<1>. QED
  BY <1>1 DEF Replies

\* The answers of a stdout on which only the first line may be another.
LEMMA AnswersInTypes ==
  ASSUME NEW lines \in Seq(Replies), \A i \in 2 .. Len(lines) : lines[i] \in AnswerSet
  PROVE  AnswersIn(lines) \in Seq(AnswerSet)
<1>1. CASE lines = << >>
  BY <1>1 DEF AnswersIn
<1>2. CASE lines # << >> /\ ~ IsAnswer(Head(lines))
  <2>. DEFINE rest == Tail(lines)
  <2>1. /\ rest \in Seq(Replies) /\ Len(rest) = Len(lines) - 1
        /\ \A i \in 1 .. Len(rest) : rest[i] = lines[i + 1]
    BY <1>2
  <2>. HIDE DEF rest
  <2>2. \A i \in 1 .. Len(rest) : rest[i] \in AnswerSet
    <3>1. ASSUME NEW i \in 1 .. Len(rest) PROVE rest[i] \in AnswerSet
      <4>1. i + 1 \in 2 .. Len(lines)
        BY <2>1
      <4>. QED
        BY <2>1, <4>1
    <3>. QED
      BY <3>1
  <2>3. rest \in Seq(AnswerSet)
    BY <2>1, <2>2
  <2>. QED
    BY <1>2, <2>3 DEF AnswersIn, rest
<1>3. CASE lines # << >> /\ IsAnswer(Head(lines))
  <2>1. lines[1] \in AnswerSet /\ Len(lines) \in Nat
    BY <1>3, AnswersAreAnswers
  <2>2. \A i \in 1 .. Len(lines) : lines[i] \in AnswerSet
    <3>1. ASSUME NEW i \in 1 .. Len(lines) PROVE lines[i] \in AnswerSet
      <4>1. i = 1 \/ i \in 2 .. Len(lines)
        BY <2>1
      <4>. QED
        BY <2>1, <4>1
    <3>. QED
      BY <3>1
  <2>3. lines \in Seq(AnswerSet)
    BY <2>2
  <2>. QED
    BY <1>3, <2>3 DEF AnswersIn
<1>. QED
  BY <1>1, <1>2, <1>3

LEMMA AnsweredTypes ==
  ASSUME LineTypes
  PROVE  Answered \in Seq(AnswerSet) /\ AnswersIn(stdout) \in Seq(AnswerSet)
  BY AnswersInTypes, ConcatProperties DEF LineTypes, Answered

\* An answer more.
LEMMA AnsweredMore ==
  ASSUME LineTypes, NEW line \in AnswerSet, stdout' = Append(stdout, line), answers' = answers
  PROVE  /\ Answered' = Append(Answered, line)
         /\ stdout' \in Seq(Replies)
         /\ \A i \in 2 .. Len(stdout') : stdout'[i] \in AnswerSet
<1>1. /\ stdout \in Seq(Replies) /\ line \in Replies /\ answers \in Seq(AnswerSet)
      /\ \A i \in 2 .. Len(stdout) : stdout[i] \in AnswerSet
  BY AnswersAreAnswers DEF LineTypes
<1>2. AnswersIn(Append(stdout, line)) = Append(AnswersIn(stdout), line)
  <2>1. CASE stdout = << >>
    <3>1. Append(stdout, line) = <<line>> /\ Head(<<line>>) = line
      BY <2>1
    <3>2. IsAnswer(line)
      BY <1>1, AnswersAreAnswers
    <3>. QED
      BY <2>1, <3>1, <3>2 DEF AnswersIn
  <2>2. CASE stdout # << >>
    <3>1. /\ Append(stdout, line) # << >> /\ Head(Append(stdout, line)) = Head(stdout)
          /\ Tail(Append(stdout, line)) = Append(Tail(stdout), line)
      BY <1>1, <2>2, AppendProperties, HeadTailAppend
    <3>. QED
      BY <2>2, <3>1 DEF AnswersIn
  <2>. QED
    BY <2>1, <2>2
<1>3. Answered' = answers \o Append(AnswersIn(stdout), line)
  BY <1>2 DEF Answered
<1>4. answers \o Append(AnswersIn(stdout), line) = Append(Answered, line)
  <2>. DEFINE x == AnswersIn(stdout)
  <2>1. x \in Seq(AnswerSet) /\ <<line>> \in Seq(AnswerSet)
    BY AnsweredTypes
  <2>. HIDE DEF x
  <2>2. Append(x, line) = x \o <<line>>
    BY <2>1, AppendIsConcat
  <2>3. answers \o (x \o <<line>>) = (answers \o x) \o <<line>>
    BY <1>1, <2>1, ConcatAssociative
  <2>4. answers \o x \in Seq(AnswerSet)
    BY <1>1, <2>1, ConcatProperties
  <2>5. Append(answers \o x, line) = (answers \o x) \o <<line>>
    BY <2>4, AppendIsConcat
  <2>. QED
    BY <2>2, <2>3, <2>5 DEF x, Answered
<1>5. stdout' \in Seq(Replies) /\ \A i \in 2 .. Len(stdout') : stdout'[i] \in AnswerSet
  <2>1. /\ stdout' \in Seq(Replies) /\ Len(stdout') = Len(stdout) + 1 /\ Len(stdout) \in Nat
        /\ \A i \in 1 .. Len(stdout) : stdout'[i] = stdout[i]
        /\ stdout'[Len(stdout) + 1] = line
    BY <1>1, AppendProperties
  <2>2. ASSUME NEW i \in 2 .. Len(stdout') PROVE stdout'[i] \in AnswerSet
    <3>1. i = Len(stdout) + 1 \/ (i \in 2 .. Len(stdout) /\ i \in 1 .. Len(stdout))
      BY <2>1
    <3>. QED
      BY <1>1, <2>1, <3>1
  <2>. QED
    BY <2>1, <2>2
<1>. QED
  BY <1>3, <1>4, <1>5

\* An answer read counts as before.
LEMMA AnsweredRead ==
  ASSUME LineTypes, ReadAnswer
  PROVE  /\ Answered' = Answered
         /\ stdout' \in Seq(Replies) /\ answers' \in Seq(AnswerSet)
         /\ \A i \in 2 .. Len(stdout') : stdout'[i] \in AnswerSet
<1>. DEFINE head == Head(stdout)
            tail == Tail(stdout)
<1>1. /\ stdout \in Seq(Replies) /\ stdout # << >> /\ answers \in Seq(AnswerSet) /\ stdout' = tail
      /\ answers' = IF IsAnswer(head) THEN Append(answers, head) ELSE answers
      /\ \A i \in 2 .. Len(stdout) : stdout[i] \in AnswerSet
  BY DEF LineTypes, ReadAnswer
<1>2. /\ head \in Replies /\ head = stdout[1] /\ tail \in Seq(Replies)
      /\ Len(tail) = Len(stdout) - 1 /\ Len(stdout) \in Nat \ {0}
      /\ \A i \in 1 .. Len(tail) : tail[i] = stdout[i + 1]
  BY <1>1
<1>3. stdout = <<head>> \o tail
  BY <1>1
<1>. HIDE DEF head, tail
<1>4. \A i \in 1 .. Len(tail) : tail[i] \in AnswerSet
  <2>1. ASSUME NEW i \in 1 .. Len(tail) PROVE tail[i] \in AnswerSet
    <3>1. i + 1 \in 2 .. Len(stdout)
      BY <1>2
    <3>. QED
      BY <1>1, <1>2, <3>1
  <2>. QED
    BY <2>1
<1>5. tail \in Seq(AnswerSet)
  BY <1>2, <1>4
<1>6. AnswersIn(tail) = tail
  <2>1. CASE tail = << >>
    BY <2>1 DEF AnswersIn
  <2>2. CASE tail # << >>
    <3>1. Head(tail) \in AnswerSet
      BY <1>5, <2>2
    <3>2. IsAnswer(Head(tail))
      BY <3>1, AnswersAreAnswers
    <3>. QED
      BY <3>2 DEF AnswersIn
  <2>. QED
    BY <2>1, <2>2
<1>7. CASE IsAnswer(head)
  <2>1. head \in AnswerSet /\ answers' = Append(answers, head)
    BY <1>1, <1>2, <1>7, AnswersAreAnswers
  <2>2. <<head>> \in Seq(AnswerSet) /\ Append(answers, head) = answers \o <<head>>
    BY <1>1, <2>1, AppendIsConcat
  <2>3. (answers \o <<head>>) \o tail = answers \o (<<head>> \o tail)
    BY <1>1, <1>5, <2>2, ConcatAssociative
  <2>4. Answered' = (answers \o <<head>>) \o tail
    BY <1>1, <1>6, <2>1, <2>2 DEF Answered
  <2>5. AnswersIn(stdout) = stdout
    BY <1>7 DEF AnswersIn, head
  <2>6. Answered = answers \o (<<head>> \o tail)
    BY <1>3, <2>5 DEF Answered
  <2>7. answers' \in Seq(AnswerSet)
    BY <1>1, <2>1, AppendProperties
  <2>. QED
    BY <1>1, <1>2, <1>4, <2>3, <2>4, <2>6, <2>7
<1>8. CASE ~ IsAnswer(head)
  <2>1. AnswersIn(stdout) = tail
    BY <1>1, <1>8 DEF AnswersIn, head, tail
  <2>2. answers' = answers
    BY <1>1, <1>8
  <2>3. Answered' = answers \o tail /\ Answered = answers \o tail
    <3>1. Answered' = answers' \o AnswersIn(stdout')
      BY DEF Answered
    <3>2. AnswersIn(stdout') = tail
      BY <1>1, <1>6
    <3>. QED
      BY <2>1, <2>2, <3>1, <3>2 DEF Answered
  <2>4. Answered' = Answered /\ answers' \in Seq(AnswerSet)
    BY <1>1, <2>2, <2>3
  <2>. QED
    BY <1>1, <1>2, <1>4, <2>4
<1>. QED
  BY <1>7, <1>8

\* The line that is dealt with is answered, or its answer is written to a pipe
\* that nobody reads.
LEMMA AnswerInOrder ==
  ASSUME LineInv, current # Idle, NEW line \in AnswerSet, Answers(line),
         UNCHANGED <<stdin, stdinOpen, stdoutOpen, disk, written, answers>>,
         FileTypes', AnswerFits(line, current.line, loadedDicts'),
         \A p \in DictionaryPaths :
           loadedDicts[p] # Absent => loadedDicts'[p] = loadedDicts[p]
  PROVE  LineInv'
<1>1. /\ stdin \in Seq(LineSet) /\ written \in Seq(LineSet) /\ Len(written) <= MaxLines
      /\ stdinOpen \in BOOLEAN /\ stdoutOpen = stdinOpen /\ stdout \in Seq(Replies)
      /\ answers \in Seq(AnswerSet) /\ stProc = "serving"
      /\ \A i \in 2 .. Len(stdout) : stdout[i] \in AnswerSet
  BY DEF LineInv, LineTypes
<1>2. Answered \in Seq(AnswerSet) /\ Len(Answered) \in Nat /\ Len(stdin) \in Nat /\ Len(written) \in Nat
  BY <1>1, AnsweredTypes DEF LineInv
<1>3. /\ Len(written) = Len(Answered) + 1 + Len(stdin)
      /\ current.line = written[Len(Answered) + 1]
      /\ \A i \in 1 .. Len(stdin) : stdin[i] = written[Len(Answered) + 1 + i]
  BY <1>1 DEF LineInv, LinesInOrder, Busy
<1>4. current' = Idle /\ Busy' = 0
  BY DEF Answers, Busy
<1>5. NothingInvented'
  BY DEF LineInv, NothingInvented
<1>6. \A i \in 1 .. Len(Answered) : AnswerFits(Answered[i], written[i], loadedDicts')
  <2>1. ASSUME NEW i \in 1 .. Len(Answered), AnswerFits(Answered[i], written[i], loadedDicts)
        PROVE  AnswerFits(Answered[i], written[i], loadedDicts')
    <3>. DEFINE other == written[i]
                old   == Answered[i]
    <3>. HIDE DEF other, old
    <3>1. ASSUME AnswerFits(old, other, loadedDicts) PROVE AnswerFits(old, other, loadedDicts')
      <4>1. other \in Requests /\ other.dictionary # NoPath => other.dictionary \in DictionaryPaths
        BY DEF Requests
      <4>. QED
        BY <3>1, <4>1 DEF AnswerFits
    <3>. QED
      BY <2>1, <3>1 DEF other, old
  <2>. QED
    BY <2>1 DEF LineInv, AnswersFit
<1>7. CASE stdoutOpen
  <2>1. stdout' = Append(stdout, line) /\ stProc' = "serving"
    BY <1>7 DEF Answers
  <2>2. /\ Answered' = Append(Answered, line)
        /\ stdout' \in Seq(Replies)
        /\ \A i \in 2 .. Len(stdout') : stdout'[i] \in AnswerSet
    BY <2>1, AnsweredMore DEF LineInv
  <2>3. /\ Answered' \in Seq(AnswerSet) /\ Len(Answered') = Len(Answered) + 1
        /\ \A i \in 1 .. Len(Answered) : Answered'[i] = Answered[i]
        /\ Answered'[Len(Answered) + 1] = line
    BY <1>2, <2>2, AppendProperties
  <2>. HIDE DEF Answered
  <2>4. LineTypes'
    BY <1>1, <1>4, <2>1, <2>2 DEF LineTypes
  <2>5. LinesInOrder'
    <3>1. Len(Answered') <= Len(written') /\ Len(written') = Len(Answered') + Busy' + Len(stdin')
      BY <1>2, <1>3, <1>4, <2>3
    <3>2. ASSUME NEW i \in 1 .. Len(stdin') PROVE stdin'[i] = written'[Len(Answered') + Busy' + i]
      BY <1>2, <1>3, <1>4, <2>3
    <3>. QED
      BY <1>4, <3>1, <3>2 DEF LinesInOrder
  <2>6. AnswersFit'
    <3>1. ASSUME NEW i \in 1 .. Len(Answered') PROVE AnswerFits(Answered'[i], written'[i], loadedDicts')
      <4>1. CASE i \in 1 .. Len(Answered)
        BY <1>6, <2>3, <4>1
      <4>2. CASE i = Len(Answered) + 1
        BY <1>3, <2>3, <4>2
      <4>. QED
        BY <1>2, <2>3, <4>1, <4>2
    <3>. QED
      BY <3>1 DEF AnswersFit
  <2>. QED
    BY <1>5, <2>4, <2>5, <2>6 DEF LineInv
<1>8. CASE ~ stdoutOpen
  <2>1. stProc' = "exited" /\ stdout' = stdout
    BY <1>8 DEF Answers
  <2>2. Answered' = Answered
    BY <2>1 DEF Answered
  <2>. HIDE DEF Answered
  <2>3. LineTypes'
    BY <1>1, <1>4, <2>1 DEF LineTypes
  <2>4. LinesInOrder'
    BY <1>2, <1>3, <2>1, <2>2 DEF LinesInOrder
  <2>5. AnswersFit'
    BY <1>6, <2>2 DEF AnswersFit
  <2>. QED
    BY <1>5, <2>3, <2>4, <2>5 DEF LineInv
<1>. QED
  BY <1>7, <1>8

-----------------------------------------------------------------------------
(***************************************************************************)
(* The steps of the server.                                                *)
(***************************************************************************)

\* What a step of the server that answers a line leaves as it was.
LEMMA FilesUnchanged ==
  ASSUME FileTypes, UNCHANGED <<loadedDicts, disk>>
  PROVE  FileTypes'
  BY DEF FileTypes

LEMMA LineInvInit ==
  ASSUME Init
  PROVE  LineInv
<1>. USE DEF Init, StInit
<1>1. Answered = << >> /\ Len(Answered) = 0 /\ Busy = 0
  BY DEF Answered, AnswersIn, Busy
<1>2. LineTypes
  BY MaxLinesAssumption DEF LineTypes
<1>3. FileTypes
  BY PathsAssumption, MarksAssumption DEF FileTypes, Audios, Contents, DictionaryPaths
<1>4. NothingInvented
  BY DEF NothingInvented
<1>5. LinesInOrder
  BY <1>1 DEF LinesInOrder
<1>6. AnswersFit
  BY <1>1 DEF AnswersFit
<1>. QED
  BY <1>2, <1>3, <1>4, <1>5, <1>6 DEF LineInv

\* The server stops and writes nothing.
LEMMA StopsInOrder ==
  ASSUME LineInv, stProc' = "exited", current' = Idle,
         UNCHANGED <<stdin, stdinOpen, stdout, stdoutOpen, loadedDicts, disk, written, answers>>
  PROVE  LineInv'
<1>1. Answered' = Answered
  BY DEF Answered
<1>. HIDE DEF Answered
<1>2. LineTypes'
  BY DEF LineInv, LineTypes
<1>3. FileTypes' /\ NothingInvented'
  BY DEF LineInv, FileTypes, NothingInvented
<1>4. LinesInOrder'
  BY <1>1 DEF LineInv, LinesInOrder
<1>5. AnswersFit'
  BY <1>1 DEF LineInv, AnswersFit, AnswerFits
<1>. QED
  BY <1>2, <1>3, <1>4, <1>5 DEF LineInv

LEMMA StartUpInOrder ==
  ASSUME LineInv, StartUp, UNCHANGED <<written, answers>>
  PROVE  LineInv'
<1>1. /\ stProc = "starting" /\ stdout = << >> /\ current = Idle /\ current' = Idle
      /\ UNCHANGED <<stdin, stdinOpen, stdoutOpen, loadedDicts, disk, written, answers>>
  BY DEF LineInv, LineTypes, StartUp, Answers
<1>2. AnswersIn(stdout) = << >>
  BY <1>1 DEF AnswersIn
<1>3. CASE stdoutOpen
  <2>1. stdout' = <<Banner>> /\ stProc' = "serving"
    BY <1>1, <1>3 DEF StartUp, Answers
  <2>2. AnswersIn(stdout') = << >>
    BY <2>1 DEF AnswersIn, IsAnswer
  <2>3. Answered' = Answered
    BY <1>1, <1>2, <2>2 DEF Answered
  <2>4. stdout' \in Seq(Replies) /\ Len(stdout') = 1
    <3>1. Banner \in Replies
      BY DEF Replies
    <3>. QED
      BY <2>1, <3>1
  <2>. HIDE DEF Answered
  <2>5. LineTypes'
    BY <1>1, <2>1, <2>4 DEF LineInv, LineTypes
  <2>6. FileTypes' /\ NothingInvented' /\ AnswersFit'
    BY <1>1, <2>3 DEF LineInv, FileTypes, NothingInvented, AnswersFit, AnswerFits
  <2>7. Busy' = Busy
    BY <1>1 DEF Busy
  <2>8. LinesInOrder'
    BY <1>1, <2>1, <2>3, <2>7 DEF LineInv, LinesInOrder
  <2>. QED
    BY <2>5, <2>6, <2>8 DEF LineInv
<1>4. CASE ~ stdoutOpen
  <2>1. stdout' = stdout /\ stProc' = "exited"
    BY <1>4 DEF StartUp, Answers
  <2>. QED
    BY <1>1, <2>1, StopsInOrder
<1>. QED
  BY <1>3, <1>4

LEMMA ReadLineInOrder ==
  ASSUME LineInv, ReadLine, UNCHANGED <<written, answers>>
  PROVE  LineInv'
<1>. DEFINE head == Head(stdin)
            tail == Tail(stdin)
<1>1. /\ stdin \in Seq(LineSet) /\ stdin # << >> /\ stdin' = tail
      /\ current = Idle /\ current' = [line |-> head, audio |-> Absent] /\ stProc = "serving"
      /\ UNCHANGED <<stProc, stdinOpen, stdout, stdoutOpen, loadedDicts, disk, written, answers>>
  BY DEF LineInv, LineTypes, ReadLine
<1>2. /\ head \in LineSet /\ head = stdin[1] /\ tail \in Seq(LineSet)
      /\ Len(stdin) \in Nat \ {0} /\ Len(tail) = Len(stdin) - 1
      /\ \A i \in 1 .. Len(tail) : tail[i] = stdin[i + 1]
  BY <1>1
<1>. HIDE DEF head, tail
<1>3. head.kind # "none"
  <2>1. CASE head \in Requests
    BY <2>1 DEF Requests
  <2>2. CASE head \in {OtherLine, ShutdownCommand}
    BY <2>2
  <2>. QED
    BY <1>2, <2>1, <2>2 DEF LineSet
<1>4. current' # Idle /\ Busy = 0 /\ Busy' = 1 /\ current'.line = head
  BY <1>1, <1>3 DEF Idle, Busy
<1>5. Answered' = Answered /\ Answered \in Seq(AnswerSet) /\ Len(Answered) \in Nat
  BY <1>1, AnsweredTypes DEF LineInv, Answered
<1>. HIDE DEF Answered
<1>6. LineTypes'
  <2>1. current' \in [line : LineSet, audio : Audios]
    BY <1>1, <1>2 DEF Audios
  <2>. QED
    BY <1>1, <1>2, <1>4, <2>1 DEF LineInv, LineTypes
<1>7. NothingInvented'
  <2>1. ASSUME NEW i \in 1 .. Len(tail) PROVE \E j \in 1 .. Len(written) : tail[i] = written[j]
    <3>1. i + 1 \in 1 .. Len(stdin) /\ tail[i] = stdin[i + 1]
      BY <1>2
    <3>. QED
      BY <3>1 DEF LineInv, NothingInvented
  <2>. QED
    BY <1>1, <2>1 DEF NothingInvented
<1>8. LinesInOrder'
  <2>1. /\ Len(Answered) <= Len(written) /\ Len(written) = Len(Answered) + Len(stdin)
        /\ \A i \in 1 .. Len(stdin) : stdin[i] = written[Len(Answered) + i]
    BY <1>1, <1>4, <1>5 DEF LineInv, LinesInOrder
  <2>2. head = written[Len(Answered) + 1]
    BY <1>2, <2>1
  <2>3. ASSUME NEW i \in 1 .. Len(tail) PROVE tail[i] = written[Len(Answered) + 1 + i]
    <3>1. i + 1 \in 1 .. Len(stdin)
      BY <1>2
    <3>2. tail[i] = written[Len(Answered) + (i + 1)]
      BY <1>2, <2>1, <3>1
    <3>3. Len(Answered) + (i + 1) = Len(Answered) + 1 + i
      BY <1>5
    <3>. QED
      BY <3>2, <3>3
  <2>4. Len(written) = Len(Answered) + 1 + Len(tail)
    BY <1>2, <1>5, <2>1
  <2>. QED
    BY <1>1, <1>4, <1>5, <2>1, <2>2, <2>3, <2>4 DEF LinesInOrder
<1>9. FileTypes' /\ AnswersFit'
  BY <1>1, <1>5 DEF LineInv, FileTypes, AnswersFit, AnswerFits
<1>. QED
  BY <1>6, <1>7, <1>8, <1>9 DEF LineInv

\* The end of stdin is answered, but nobody reads stdout any more either.
LEMMA ReadEofInOrder ==
  ASSUME LineInv, ReadEof, UNCHANGED <<written, answers>>
  PROVE  LineInv'
<1>1. /\ stProc' = "exited" /\ current' = Idle
      /\ UNCHANGED <<stdin, stdinOpen, stdout, stdoutOpen, loadedDicts, disk, written, answers>>
  BY DEF LineInv, LineTypes, ReadEof, Answers
<1>. QED
  BY <1>1, StopsInOrder

LEMMA ShutDownInOrder ==
  ASSUME LineInv, ShutDown, UNCHANGED <<written, answers>>
  PROVE  LineInv'
  BY StopsInOrder DEF ShutDown

\* An error is the answer to any line.
LEMMA ErrorInOrder ==
  ASSUME LineInv, current # Idle, Answers(ErrorReply),
         UNCHANGED <<stdin, stdinOpen, stdoutOpen, loadedDicts, disk, written, answers>>
  PROVE  LineInv'
<1>1. ErrorReply \in AnswerSet /\ FileTypes'
  BY FilesUnchanged DEF AnswerSet, LineInv
<1>2. AnswerFits(ErrorReply, current.line, loadedDicts')
  BY DEF AnswerFits
<1>. QED
  BY <1>1, <1>2, AnswerInOrder

LEMMA RefuseInOrder ==
  ASSUME LineInv, Refuse, UNCHANGED <<written, answers>>
  PROVE  LineInv'
  BY ErrorInOrder DEF Refuse

LEMMA RaiseInOrder ==
  ASSUME LineInv, Raise, UNCHANGED <<written, answers>>
  PROVE  LineInv'
  BY ErrorInOrder DEF Raise

\* The line dealt with, when it is a request.
LEMMA CurrentRequest ==
  ASSUME LineInv, current # Idle, current.line.kind = "request"
  PROVE  /\ current \in [line : LineSet, audio : Audios] /\ current.line \in Requests
         /\ current.line.wav_path = "wav" /\ current.line.langs \in Nat
         /\ current.line.dictionary \in DictionaryPaths \cup {NoPath}
<1>1. current \in [line : LineSet, audio : Audios]
  BY DEF LineInv, LineTypes
<1>2. current.line \in Requests
  BY <1>1 DEF LineSet
<1>. QED
  BY <1>1, <1>2 DEF Requests

LEMMA ReadAudioInOrder ==
  ASSUME LineInv, ReadAudio, UNCHANGED <<written, answers>>
  PROVE  LineInv'
<1>1. /\ current # Idle /\ current.line.kind = "request"
      /\ UNCHANGED <<stdin, stdinOpen, stdoutOpen, loadedDicts, disk, written, answers>>
  BY DEF ReadAudio
<1>2. /\ current \in [line : LineSet, audio : Audios] /\ current.line \in Requests
      /\ current.line.wav_path = "wav"
  BY <1>1, CurrentRequest
<1>3. CASE disk["wav"] = Absent
  BY <1>1, <1>2, <1>3, ErrorInOrder DEF ReadAudio
<1>4. CASE disk["wav"] # Absent
  <2>1. /\ current' = [current EXCEPT !.audio = disk["wav"]]
        /\ UNCHANGED <<stProc, stdout>>
    BY <1>2, <1>4 DEF ReadAudio
  <2>2. disk["wav"] \in Audios
    BY DEF LineInv, FileTypes
  <2>3. current' \in [line : LineSet, audio : Audios] /\ current'.line = current.line
    BY <1>2, <2>1, <2>2
  <2>4. current' # Idle
    <3>1. current.line.kind # "none"
      BY <1>1
    <3>. QED
      BY <2>3, <3>1 DEF Idle
  <2>5. Answered' = Answered /\ Busy' = Busy
    BY <1>1, <2>1, <2>4 DEF Answered, Busy
  <2>. HIDE DEF Answered, Busy
  <2>6. LineTypes'
    BY <1>1, <2>1, <2>3 DEF LineInv, LineTypes
  <2>7. FileTypes' /\ NothingInvented' /\ AnswersFit'
    BY <1>1, <2>5 DEF LineInv, FileTypes, NothingInvented, AnswersFit, AnswerFits
  <2>8. LinesInOrder'
    BY <1>1, <2>1, <2>3, <2>5 DEF LineInv, LinesInOrder
  <2>. QED
    BY <2>6, <2>7, <2>8 DEF LineInv
<1>. QED
  BY <1>3, <1>4

\* A result is made with the dictionary that is loaded, and stays loaded.
LEMMA ProcessInOrder ==
  ASSUME LineInv, Process, UNCHANGED <<written, answers>>
  PROVE  LineInv'
<1>. DEFINE path == current.line.dictionary
            dict == IF path = NoPath THEN Absent ELSE load_dict(path)
            ok   == OkReply(current.audio, current.line.langs, dict)
<1>1. /\ current # Idle /\ current.line.kind = "request"
      /\ UNCHANGED <<stdin, stdinOpen, stdoutOpen, disk, written, answers>>
  BY DEF Process
<1>2. /\ current \in [line : LineSet, audio : Audios] /\ current.line \in Requests
      /\ current.line.langs \in Nat /\ path \in DictionaryPaths \cup {NoPath}
  BY <1>1, CurrentRequest
<1>3. CASE path # NoPath /\ dict \in {Absent, Unreadable}
  BY <1>1, <1>3, ErrorInOrder DEF Process
<1>4. CASE ~ (path # NoPath /\ dict \in {Absent, Unreadable})
  <2>1. /\ Answers(ok) \/ Answers(ErrorReply)
        /\ loadedDicts' = [p \in Paths |-> IF p = path THEN dict ELSE loadedDicts[p]]
    BY <1>4 DEF Process
  <2>2. FileTypes
    BY DEF LineInv
  <2>3. /\ path = NoPath => dict = Absent
        /\ path # NoPath => /\ dict \in Contents \ {Absent, Unreadable}
                            /\ loadedDicts[path] # Absent => dict = loadedDicts[path]
    BY <1>2, <1>4, <2>2 DEF FileTypes, load_dict
  <2>4. ok \in AnswerSet
    <3>1. dict \in Contents /\ current.audio \in Audios
      BY <1>2, <2>3 DEF Contents
    <3>. HIDE DEF dict
    <3>. QED
      BY <1>2, <3>1 DEF OkReply, AnswerSet, OkReplies
  <2>5. ok.kind = "ok" /\ ok.langs = current.line.langs /\ ok.terms = dict
    BY DEF OkReply
  <2>. HIDE DEF ok, dict
  <2>6. \A p \in DictionaryPaths :
          /\ loadedDicts'[p] = IF p = path THEN dict ELSE loadedDicts[p]
          /\ p # NoPath
    BY <2>1, PathsAssumption DEF DictionaryPaths
  <2>7. FileTypes'
    <3>1. DOMAIN loadedDicts' = Paths /\ loadedDicts'["wav"] = loadedDicts["wav"]
      BY <1>2, <2>1, PathsAssumption DEF DictionaryPaths
    <3>. QED
      BY <1>1, <2>2, <2>3, <2>6, <3>1 DEF FileTypes
  <2>8. \A p \in DictionaryPaths :
          loadedDicts[p] # Absent => loadedDicts'[p] = loadedDicts[p]
    BY <2>3, <2>6
  <2>9. AnswerFits(ok, current.line, loadedDicts')
    BY <1>2, <2>3, <2>5, <2>6 DEF AnswerFits
  <2>10. ErrorReply \in AnswerSet /\ AnswerFits(ErrorReply, current.line, loadedDicts')
    BY DEF AnswerSet, AnswerFits
  <2>. QED
    BY <1>1, <2>1, <2>4, <2>7, <2>8, <2>9, <2>10, AnswerInOrder
<1>. QED
  BY <1>3, <1>4

LEMMA FailInOrder ==
  ASSUME LineInv, Fail
  PROVE  LineInv'
<1>1. CASE Crash /\ UNCHANGED <<written, answers>>
  BY <1>1, StopsInOrder DEF Crash
<1>2. CASE FailToStart /\ UNCHANGED <<written, answers>>
  <2>1. /\ stProc = "starting" /\ stdout = << >> /\ current = Idle /\ stProc' = "exited"
        /\ UNCHANGED <<stdin, stdinOpen, stdoutOpen, current, loadedDicts, disk, written, answers>>
    BY <1>2 DEF LineInv, LineTypes, FailToStart
  <2>2. CASE stdout' = stdout
    BY <2>1, <2>2, StopsInOrder
  <2>3. CASE stdout' = <<Complaint>>
    <3>1. AnswersIn(stdout) = << >> /\ AnswersIn(stdout') = << >>
      BY <2>1, <2>3 DEF AnswersIn, IsAnswer
    <3>2. Answered' = Answered
      BY <2>1, <3>1 DEF Answered
    <3>. HIDE DEF Answered
    <3>3. stdout' \in Seq(Replies) /\ Len(stdout') = 1
      <4>1. Complaint \in Replies
        BY DEF Replies
      <4>. QED
        BY <2>3, <4>1
    <3>4. LineTypes'
      BY <2>1, <3>3 DEF LineInv, LineTypes
    <3>5. FileTypes' /\ NothingInvented' /\ AnswersFit'
      BY <2>1, <3>2 DEF LineInv, FileTypes, NothingInvented, AnswersFit, AnswerFits
    <3>6. LinesInOrder'
      BY <2>1, <3>2 DEF LineInv, LinesInOrder
    <3>. QED
      BY <3>4, <3>5, <3>6 DEF LineInv
  <2>. QED
    BY <1>2, <2>1, <2>2, <2>3 DEF FailToStart
<1>. QED
  BY <1>1, <1>2 DEF Fail

-----------------------------------------------------------------------------
(***************************************************************************)
(* The steps of the client.                                                *)
(***************************************************************************)

LEMMA WriteLineInOrder ==
  ASSUME LineInv, WriteLine
  PROVE  LineInv'
<1>1. PICK line \in Lines(Len(written) + 1) :
         stdin' = Append(stdin, line) /\ written' = Append(written, line)
  BY DEF WriteLine
<1>2. /\ stProc # "exited" /\ Len(written) < MaxLines
      /\ UNCHANGED <<stProc, stdinOpen, stdout, stdoutOpen, current, loadedDicts, disk, answers>>
  BY DEF WriteLine
<1>3. /\ stdin \in Seq(LineSet) /\ written \in Seq(LineSet)
      /\ Len(stdin) \in Nat /\ Len(written) \in Nat
  BY DEF LineInv, LineTypes
<1>. DEFINE n == Len(written) + 1
<1>3a. n \in Nat
  BY <1>3
<1>4. line \in LineSet
  <2>1. CASE line \in {OtherLine, ShutdownCommand}
    BY <2>1 DEF LineSet
  <2>2. CASE line \in {Request("wav", Len(written) + 1, d) : d \in DictionaryPaths \cup {NoPath}}
    <3>1. PICK d \in DictionaryPaths \cup {NoPath} : line = Request("wav", Len(written) + 1, d)
      BY <2>2
    <3>2. line = Request("wav", n, d)
      BY <3>1
    <3>. HIDE DEF n
    <3>3. line \in Requests
      BY <1>3a, <3>2 DEF Requests, Request
    <3>. QED
      BY <3>3 DEF LineSet
  <2>. QED
    BY <1>1, <2>1, <2>2 DEF Lines
<1>5. /\ stdin' \in Seq(LineSet) /\ Len(stdin') = Len(stdin) + 1
      /\ \A i \in 1 .. Len(stdin) : stdin'[i] = stdin[i]
      /\ stdin'[Len(stdin) + 1] = line
      /\ written' \in Seq(LineSet) /\ Len(written') = Len(written) + 1
      /\ \A i \in 1 .. Len(written) : written'[i] = written[i]
      /\ written'[Len(written) + 1] = line
  BY <1>1, <1>3, <1>4, AppendProperties
<1>6. /\ Answered' = Answered /\ Busy' = Busy /\ Len(Answered) \in Nat /\ Busy \in {0, 1}
      /\ current # Idle => Busy = 1
  BY <1>2, AnsweredTypes DEF LineInv, Answered, Busy
<1>. HIDE DEF Answered, Busy
<1>7. LineTypes'
  <2>1. Len(written') <= MaxLines
    BY <1>2, <1>3, <1>5, MaxLinesAssumption
  <2>. QED
    BY <1>2, <1>5, <2>1 DEF LineInv, LineTypes
<1>8. FileTypes'
  BY <1>2, FilesUnchanged DEF LineInv
<1>9. NothingInvented'
  <2>1. ASSUME NEW i \in 1 .. Len(stdin') PROVE \E j \in 1 .. Len(written') : stdin'[i] = written'[j]
    <3>1. CASE i = Len(stdin) + 1
      <4>1. Len(written) + 1 \in 1 .. Len(written') /\ stdin'[i] = written'[Len(written) + 1]
        BY <1>3, <1>5, <3>1
      <4>. QED
        BY <4>1
    <3>2. CASE i \in 1 .. Len(stdin)
      <4>1. PICK j \in 1 .. Len(written) : stdin[i] = written[j]
        BY <3>2 DEF LineInv, NothingInvented
      <4>2. j \in 1 .. Len(written') /\ stdin'[i] = written'[j]
        BY <1>3, <1>5, <3>2, <4>1
      <4>. QED
        BY <4>2
    <3>. QED
      BY <1>3, <1>5, <3>1, <3>2
  <2>. QED
    BY <2>1 DEF NothingInvented
<1>10. /\ Len(Answered) <= Len(written)
       /\ Len(written) = Len(Answered) + Busy + Len(stdin)
       /\ current # Idle => current.line = written[Len(Answered) + 1]
       /\ \A i \in 1 .. Len(stdin) : stdin[i] = written[Len(Answered) + Busy + i]
  BY <1>2 DEF LineInv, LinesInOrder
<1>11. LinesInOrder'
  <2>1. /\ Len(Answered') <= Len(written')
        /\ Len(written') = Len(Answered') + Busy' + Len(stdin')
    BY <1>3, <1>5, <1>6, <1>10
  <2>2. ASSUME current' # Idle PROVE current'.line = written'[Len(Answered') + 1]
    <3>1. current # Idle /\ Len(Answered) + 1 \in 1 .. Len(written)
      BY <1>2, <1>3, <1>6, <1>10, <2>2
    <3>. QED
      BY <1>2, <1>5, <1>6, <1>10, <3>1
  <2>3. ASSUME NEW i \in 1 .. Len(stdin') PROVE stdin'[i] = written'[Len(Answered') + Busy' + i]
    <3>1. CASE i = Len(stdin) + 1
      <4>1. Len(Answered') + Busy' + i = Len(written) + 1
        BY <1>3, <1>6, <1>10, <3>1
      <4>. QED
        BY <1>5, <3>1, <4>1
    <3>2. CASE i \in 1 .. Len(stdin)
      <4>1. Len(Answered) + Busy + i \in 1 .. Len(written)
        BY <1>3, <1>6, <1>10, <3>2
      <4>. QED
        BY <1>5, <1>6, <1>10, <3>2, <4>1
    <3>. QED
      BY <1>3, <1>5, <3>1, <3>2
  <2>. QED
    BY <2>1, <2>2, <2>3 DEF LinesInOrder
<1>12. AnswersFit'
  <2>1. ASSUME NEW i \in 1 .. Len(Answered') PROVE AnswerFits(Answered'[i], written'[i], loadedDicts')
    <3>1. AnswerFits(Answered[i], written[i], loadedDicts) /\ written'[i] = written[i]
      BY <1>3, <1>5, <1>6, <1>10 DEF LineInv, AnswersFit
    <3>. QED
      BY <1>2, <1>6, <3>1 DEF AnswerFits
  <2>. QED
    BY <2>1 DEF AnswersFit
<1>. QED
  BY <1>7, <1>8, <1>9, <1>11, <1>12 DEF LineInv

\* What the client reads, and what it does to the files and the pipes, leaves
\* the lines and the answers as they are.
LEMMA SameAnswers ==
  ASSUME LineInv, Answered' = Answered, LineTypes', FileTypes',
         UNCHANGED <<stProc, stdin, current, written, loadedDicts>>
  PROVE  LineInv'
<1>1. Busy' = Busy
  BY DEF Busy
<1>. HIDE DEF Answered, Busy
<1>2. NothingInvented' /\ AnswersFit'
  BY DEF LineInv, NothingInvented, AnswersFit, AnswerFits
<1>3. LinesInOrder'
  BY <1>1 DEF LineInv, LinesInOrder
<1>. QED
  BY <1>2, <1>3 DEF LineInv

LEMMA ReadAnswerInOrder ==
  ASSUME LineInv, ReadAnswer
  PROVE  LineInv'
<1>1. /\ Answered' = Answered
      /\ stdout' \in Seq(Replies) /\ answers' \in Seq(AnswerSet)
      /\ \A i \in 2 .. Len(stdout') : stdout'[i] \in AnswerSet
  BY AnsweredRead DEF LineInv
<1>2. /\ stdout # << >>
      /\ UNCHANGED <<stProc, stdin, stdinOpen, stdoutOpen, current, loadedDicts, disk, written>>
  BY DEF ReadAnswer
<1>3. stProc # "starting"
  BY <1>2 DEF LineInv, LineTypes
<1>4. LineTypes'
  BY <1>1, <1>2, <1>3 DEF LineInv, LineTypes
<1>. QED
  BY <1>1, <1>2, <1>4, FilesUnchanged, SameAnswers DEF LineInv

LEMMA ChangeFileInOrder ==
  ASSUME LineInv, ChangeFile
  PROVE  LineInv'
<1>1. UNCHANGED <<stVars, written, answers>> /\ FileTypes
  BY DEF ChangeFile, LineInv
<1>2. /\ LineTypes' /\ Answered' = Answered
      /\ UNCHANGED <<stProc, stdin, current, written, loadedDicts>>
  BY <1>1 DEF LineInv, LineTypes, Answered, stVars
<1>3. FileTypes'
  <2>1. DOMAIN disk' = Paths /\ disk'["wav"] \in Audios
    BY <1>1, PathsAssumption DEF ChangeFile, FileTypes, Audios, DictionaryPaths
  <2>2. \A p \in DictionaryPaths : disk'[p] \in Contents
    BY <1>1, PathsAssumption DEF ChangeFile, FileTypes, Contents, DictionaryPaths
  <2>. QED
    BY <1>1, <1>2, <2>1, <2>2 DEF FileTypes
<1>. QED
  BY <1>2, <1>3, SameAnswers

LEMMA CloseInOrder ==
  ASSUME LineInv, Close
  PROVE  LineInv'
<1>1. /\ stdinOpen' = FALSE /\ stdoutOpen' = FALSE
      /\ UNCHANGED <<stProc, stdin, stdout, current, loadedDicts, disk, written, answers>>
  BY DEF Close
<1>2. LineTypes' /\ Answered' = Answered
  BY <1>1 DEF LineInv, LineTypes, Answered
<1>. QED
  BY <1>1, <1>2, FilesUnchanged, SameAnswers DEF LineInv

-----------------------------------------------------------------------------
(***************************************************************************)
(* Theorems.                                                               *)
(***************************************************************************)

LEMMA LineInductive ==
  ASSUME LineInv, [Next]_vars
  PROVE  LineInv'
<1>1. CASE Serve
  BY <1>1, StartUpInOrder, ReadLineInOrder, ReadEofInOrder, ShutDownInOrder, RefuseInOrder,
     ReadAudioInOrder, RaiseInOrder, ProcessInOrder DEF Serve, StWork
<1>2. CASE Fail
  BY <1>2, FailInOrder
<1>3. CASE WriteLine
  BY <1>3, WriteLineInOrder
<1>4. CASE ReadAnswer
  BY <1>4, ReadAnswerInOrder
<1>5. CASE ChangeFile
  BY <1>5, ChangeFileInOrder
<1>6. CASE Close
  BY <1>6, CloseInOrder
<1>7. CASE UNCHANGED vars
  <2>1. LineTypes' /\ Answered' = Answered
    BY <1>7 DEF LineInv, LineTypes, Answered, vars, stVars
  <2>. QED
    BY <1>7, <2>1, FilesUnchanged, SameAnswers DEF LineInv, vars, stVars
<1>. QED
  BY <1>1, <1>2, <1>3, <1>4, <1>5, <1>6, <1>7 DEF Next

\* The lines not answered are always the last ones written, in the order they
\* were written (the loop of start_server, simple_io_server_st.py).
THEOREM LinesStayInOrder == Spec => []LineInv
<1>1. Init => LineInv
  BY LineInvInit
<1>2. LineInv /\ [Next]_vars => LineInv'
  BY LineInductive
<1>. QED
  BY <1>1, <1>2, PTL DEF Spec

\* The server's state has its types: no dictionary that cannot be read is kept,
\* nothing is read that was not written, and after the banner there are only
\* answers.
THEOREM TypeCorrect == Spec => []TypeOK
<1>1. LineInv => TypeOK
  <2>. SUFFICES ASSUME LineInv PROVE TypeOK
    OBVIOUS
  <2>1. LineTypes /\ FileTypes /\ NothingInvented
    BY DEF LineInv
  <2>2. \A p \in DictionaryPaths : {loadedDicts[p], disk[p]} \subseteq Dictionaries \cup {Absent, Unreadable}
    BY <2>1 DEF FileTypes, Contents
  <2>3. \A p \in Paths : loadedDicts[p] # Unreadable
    BY <2>1, MarksAssumption DEF FileTypes, DictionaryPaths
  <2>4. \A i \in 1 .. Len(stdin) : stdin[i] \in {written[j] : j \in 1 .. Len(written)}
    BY <2>1 DEF NothingInvented
  <2>5. \A i \in 2 .. Len(stdout) : IsAnswer(stdout[i])
    BY <2>1, AnswersAreAnswers DEF LineTypes
  <2>. QED
    BY <2>1, <2>2, <2>3, <2>4, <2>5 DEF TypeOK, LineTypes
<1>. QED
  BY <1>1, LinesStayInOrder, PTL

\* An answer that stands at a place of stdout is the answer to the line of that
\* place, and no line is lost or answered twice, whatever was raised before: the
\* loop writes one line for each line it reads.
THEOREM AnswersStayInOrder == Spec => []AnswersMatchLines
<1>1. LineInv => AnswersMatchLines
  <2>. SUFFICES ASSUME LineInv PROVE AnswersMatchLines
    OBVIOUS
  <2>1. /\ Answered \in Seq(AnswerSet) /\ Len(Answered) \in Nat
        /\ Len(stdin) \in Nat /\ Len(written) \in Nat
    BY AnsweredTypes DEF LineInv, LineTypes
  <2>. HIDE DEF Answered
  <2>2. Len(Answered) <= Len(written)
    BY DEF LineInv, LinesInOrder
  <2>3. ASSUME NEW i \in 1 .. Len(Answered), Answered[i].kind = "ok"
        PROVE  /\ written[i].kind = "request" /\ Answered[i].langs = written[i].langs
               /\ IF written[i].dictionary = NoPath THEN Answered[i].terms = Absent
                  ELSE Answered[i].terms \in Dictionaries
    <3>1. AnswerFits(Answered[i], written[i], loadedDicts)
      BY <2>3 DEF LineInv, AnswersFit
    <3>2. written[i] \in Requests
      BY <2>3, <3>1 DEF AnswerFits
    <3>3. written[i].kind = "request" /\ written[i].dictionary \in DictionaryPaths \cup {NoPath}
      BY <3>2 DEF Requests
    <3>4. \A p \in DictionaryPaths :
            loadedDicts[p] # Absent => loadedDicts[p] \in Dictionaries
      BY DEF LineInv, FileTypes, Contents
    <3>. QED
      BY <2>3, <3>1, <3>3, <3>4 DEF AnswerFits
  <2>4. stProc = "serving" =>
          Len(Answered) + Len(stdin) + (IF current = Idle THEN 0 ELSE 1) = Len(written)
    BY <2>1 DEF LineInv, LinesInOrder, Busy
  <2>. QED
    BY <2>2, <2>3, <2>4 DEF AnswersMatchLines
<1>. QED
  BY <1>1, LinesStayInOrder, PTL
=============================================================================
