------------------------------ MODULE TagSpans ------------------------------
(***************************************************************************)
(* From the tokens and tags a decoder predicts to the named entities of a  *)
(* text: _postproc_out_and_tags of api/speech_processor.py joins tokens    *)
(* and tags into a line, api/ne_postprocessing.py moves the tags that fell *)
(* into the middle of a word or before a space, and ne_from_output of      *)
(* api/st_triangle_ne_processor.py finds the tagged texts.                 *)
(*                                                                         *)
(* A line is a sequence of marks (opening and closing tags) and characters.*)
(* What matters of a token is how it begins: with a space and a letter     *)
(* (the subword starts a word), with a letter (it goes on with one), or it *)
(* is punctuation; its further letters are left out.                       *)
(***************************************************************************)
EXTENDS Integers, FiniteSets, SequencesExt

CONSTANTS
  Types,        \* the types of entities, the tags of the data's configuration
  Underscored,  \* those with an underscore in their name, like WORK_OF_ART
  NoTag,        \* the tag 0
  MaxTokens     \* bound: the tokens of a hypothesis before its end of sentence

ASSUME TypesAssumption == Underscored \subseteq Types /\ NoTag \notin Types
ASSUME BoundAssumption == MaxTokens \in Nat

VARIABLES
  tokens,  \* the hypothesis: a sequence of tokens with their tags ...
  eosTag,  \* ... and the tag of the end of sentence that follows them
  line,    \* the text as it is after the steps done
  stage    \* the last step done: "none", "joined", "moved" or "spaced"

vars == <<tokens, eosTag, line, stage>>

Tags  == Types \cup {NoTag}
Token == [kind : {"word", "piece", "punct"}, tag : Tags]

Open(t)   == [kind |-> "open",   of |-> t]
Close(t)  == [kind |-> "close",  of |-> t]
Space(i)  == [kind |-> "space",  of |-> i]
Letter(i) == [kind |-> "letter", of |-> i]
Punct(i)  == [kind |-> "punct",  of |-> i]

IsMark(item) == item.kind \in {"open", "close"}

TypeOK ==
  /\ Len(tokens) <= MaxTokens
  /\ \A i \in 1 .. Len(tokens) : tokens[i] \in Token
  /\ eosTag \in Tags
  /\ stage \in {"none", "joined", "moved", "spaced"}
  /\ \A i \in 1 .. Len(line) :
       IF IsMark(line[i]) THEN line[i].of \in Types ELSE line[i].of \in 1 .. Len(tokens)

-----------------------------------------------------------------------------
(***************************************************************************)
(* The steps.                                                              *)
(***************************************************************************)

TagAt(toks, eos, i) ==
  CASE i = 0         -> NoTag
    [] i > Len(toks) -> eos
    [] OTHER         -> toks[i].tag

CharsAt(toks, i) ==
  IF i > Len(toks) THEN << >>
  ELSE CASE toks[i].kind = "word"  -> <<Space(i), Letter(i)>>
         [] toks[i].kind = "piece" -> <<Letter(i)>>
         [] toks[i].kind = "punct" -> <<Punct(i)>>

\* Bug: a tag that follows another closes nothing.
join_tags_tokens_noClose(toks, eos) ==
  LET Marks(i) ==
        LET before == TagAt(toks, eos, i - 1)
            tag    == TagAt(toks, eos, i)
        IN  IF tag = before THEN << >>
            ELSE IF tag = NoTag THEN <<Close(before)>> ELSE <<Open(tag)>>
  IN  FlattenSeq([i \in 1 .. Len(toks) + 1 |-> Marks(i) \o CharsAt(toks, i)])

\* Bug: what is closed is the tag that begins, not the one that ends.
join_tags_tokens_closesNext(toks, eos) ==
  LET Marks(i) ==
        LET before == TagAt(toks, eos, i - 1)
            tag    == TagAt(toks, eos, i)
        IN  IF tag = before THEN << >>
            ELSE (IF before = NoTag THEN << >> ELSE <<Close(tag)>>)
                   \o (IF tag = NoTag THEN << >> ELSE <<Open(tag)>>)
  IN  FlattenSeq([i \in 1 .. Len(toks) + 1 |-> Marks(i) \o CharsAt(toks, i)])

\* Marks go where the tag changes.  The end of sentence has a tag too, but no
\* text, and nothing is closed after it.
join_tags_tokens(toks, eos) ==
  LET Marks(i) ==
        LET before == TagAt(toks, eos, i - 1)
            tag    == TagAt(toks, eos, i)
        IN  IF tag = before THEN << >>
            ELSE (IF before = NoTag THEN << >> ELSE <<Close(before)>>)
                   \o (IF tag = NoTag THEN << >> ELSE <<Open(tag)>>)
  IN  FlattenSeq([i \in 1 .. Len(toks) + 1 |-> Marks(i) \o CharsAt(toks, i)])

\* The detokenizer strips the text of the space it begins with.
strip(text) == IF text # << >> /\ text[1].kind = "space" THEN Tail(text) ELSE text

\* How many characters of this kind stand right before, and right after, i.
RunBefore(text, i, kind) ==
  Max({r \in 0 .. i - 1 : \A j \in i - r .. i - 1 : text[j].kind = kind})
RunAfter(text, i, kind) ==
  Max({r \in 0 .. Len(text) - i : \A j \in i + 1 .. i + r : text[j].kind = kind})

\* The text with its items in the order of place[i]; items stay at even places.
Rearranged(text, place) ==
  LET rank == [i \in DOMAIN text |-> Cardinality({j \in DOMAIN text : place[j] <= place[i]})]
  IN  [n \in DOMAIN text |-> text[CHOOSE i \in DOMAIN text : rank[i] = n]]

\* The patterns of move_tags_to_start_or_end have [A-Z]+ for the tag's name: it
\* moves no tag with an underscore.
Movable(item) == IsMark(item) /\ item.of \notin Underscored

\* An opening tag goes before the letters it follows ...
StartsMoved(text) ==
  Rearranged(text, [i \in DOMAIN text |->
    IF text[i].kind = "open" /\ Movable(text[i]) /\ RunBefore(text, i, "letter") > 0
    THEN 2 * (i - RunBefore(text, i, "letter")) - 1 ELSE 2 * i])

\* ... and a closing tag after the letters that follow it.
EndsMoved(text) ==
  Rearranged(text, [i \in DOMAIN text |->
    IF text[i].kind = "close" /\ Movable(text[i]) /\ RunAfter(text, i, "letter") > 0
    THEN 2 * (i + RunAfter(text, i, "letter")) + 1 ELSE 2 * i])

\* Bug: the ends of the spans are left where they are.
move_tags_to_start_or_end_noEnds(text) == StartsMoved(text)

move_tags_to_start_or_end(text) == EndsMoved(StartsMoved(text))

\* An opening tag goes behind the spaces that follow it.
move_tags_after_space(text) ==
  Rearranged(text, [i \in DOMAIN text |->
    IF text[i].kind = "open" /\ RunAfter(text, i, "space") > 0
    THEN 2 * (i + RunAfter(text, i, "space")) + 1 ELSE 2 * i])

\* NE_PATTERN: the places of an opening and a closing tag of one type that have
\* characters, and no tag, between them.
ne_from_output(text) ==
  {e \in (DOMAIN text) \X (DOMAIN text) :
     /\ text[e[1]].kind = "open" /\ text[e[2]].kind = "close"
     /\ text[e[1]].of = text[e[2]].of
     /\ e[1] + 1 < e[2]
     /\ \A i \in e[1] + 1 .. e[2] - 1 : ~ IsMark(text[i])}

-----------------------------------------------------------------------------

Init == tokens = << >> /\ eosTag = NoTag /\ line = << >> /\ stage = "none"

\* The generator's hypothesis, joined and detokenized.
Join ==
  /\ stage = "none"
  /\ \E n \in 1 .. MaxTokens : tokens' \in [1 .. n -> Token]
  /\ eosTag' \in Tags
  /\ line' = strip(join_tags_tokens(tokens', eosTag'))
  /\ stage' = "joined"

MoveToStartOrEnd ==
  /\ stage = "joined"
  /\ line' = move_tags_to_start_or_end(line)
  /\ stage' = "moved"
  /\ UNCHANGED <<tokens, eosTag>>

MoveAfterSpace ==
  /\ stage = "moved"
  /\ line' = move_tags_after_space(line)
  /\ stage' = "spaced"
  /\ UNCHANGED <<tokens, eosTag>>

\* The text is returned, and the next one asked for.
Return ==
  /\ stage = "spaced"
  /\ tokens' = << >> /\ eosTag' = NoTag /\ line' = << >> /\ stage' = "none"

Next == Join \/ MoveToStartOrEnd \/ MoveAfterSpace \/ Return

Spec == Init /\ [][Next]_vars

-----------------------------------------------------------------------------
(***************************************************************************)
(* What the tags say: the spans of tokens with one tag.                    *)
(***************************************************************************)

Span(s) ==
  LET Tag(i) == TagAt(tokens, NoTag, i) IN
  /\ s[1] <= s[2] /\ Tag(s[1]) # NoTag
  /\ \A i \in s[1] .. s[2] : Tag(i) = Tag(s[1])
  /\ Tag(s[1] - 1) # Tag(s[1]) /\ Tag(s[2] + 1) # Tag(s[1])

\* A span that reaches the end of sentence, tagged like it, is never closed.
Spans == {s \in (DOMAIN tokens) \X (DOMAIN tokens) :
            Span(s) /\ ~ (s[2] = Len(tokens) /\ eosTag = tokens[s[1]].tag)}

TypeOf(s)     == tokens[s[1]].tag
IsLetters(i)  == tokens[i].kind # "punct"
SameWord(i, j) ==
  \A k \in DOMAIN tokens :
    (i < k /\ k <= j) \/ (j < k /\ k <= i) => tokens[k].kind = "piece"

\* The words that a span has letters of.
Touched(s) ==
  {i \in DOMAIN tokens :
     IsLetters(i) /\ \E j \in s[1] .. s[2] : IsLetters(j) /\ SameWord(i, j)}

\* The letters, and all characters but spaces, of the text of an entity.
Letters(e) == {line[i].of : i \in {j \in e[1] .. e[2] : line[j].kind = "letter"}}
Text(e)    == {line[i].of : i \in {j \in e[1] .. e[2] : line[j].kind \in {"letter", "punct"}}}

Entities == ne_from_output(line)

(***************************************************************************)
(* No entity is lost or shortened on the way: each closed span is found,   *)
(* with its type and all its text, and nothing else is.  The steps move    *)
(* tags over letters and spaces, and must not move one over another.       *)
(***************************************************************************)
NoSpanIsLost ==
  stage = "spaced" =>
    /\ \A s \in Spans : \E e \in Entities :
         line[e[1]].of = TypeOf(s) /\ s[1] .. s[2] \subseteq Text(e)
    /\ \A e \in Entities : \E s \in Spans :
         line[e[1]].of = TypeOf(s) /\ s[1] .. s[2] \subseteq Text(e)
    /\ \A s, t \in Entities : s # t => Text(s) \cap Text(t) = {}

\* The span alone decides about the words it touches: it ends in one of them, no
\* other span touches one or begins right behind one, nor does the end of sentence
\* open a tag.
Alone(s) ==
  /\ IsLetters(s[2])
  /\ eosTag \in {NoTag, TagAt(tokens, NoTag, Len(tokens))}
  /\ \A t \in (DOMAIN tokens) \X (DOMAIN tokens) :
       Span(t) /\ t # s =>
         Touched(s) \cap Touched(t) = {} /\ t[1] - 1 \notin Touched(s)

EntityIsItsWords(s) ==
  \E e \in Entities : line[e[1]].of = TypeOf(s) /\ Letters(e) = Touched(s)

(***************************************************************************)
(* A span that begins inside a word, and has to do with no other, becomes  *)
(* the whole words it touches and no more, wherever in a word it ends.     *)
(***************************************************************************)
InnerSpansAreWords ==
  stage = "spaced" =>
    \A s \in Spans :
      (tokens[s[1]].kind = "piece" /\ Alone(s) /\ TypeOf(s) \notin Underscored)
        => EntityIsItsWords(s)

-----------------------------------------------------------------------------
\* api/ne_postprocessing.py:22-25, "an opening tag is often inserted before a
\* space instead of directly at the beginning of a word.  This method moves tags
\* that are affected by this problem to the beginning of the following word":
\* a span that begins with a word becomes its words.
SpansAreWords ==
  stage = "spaced" =>
    \A s \in Spans :
      (tokens[s[1]].kind = "word" /\ Alone(s)) => EntityIsItsWords(s)
=============================================================================
