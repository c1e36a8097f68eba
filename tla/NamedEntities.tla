--------------------------- MODULE NamedEntities ---------------------------
(***************************************************************************)
(* The last step of a request to the ST server: _postproc of               *)
(* api/st_triangle_ne_processor.py asks the knowledge graph for the        *)
(* entities of the transcript and of its translation, pairs them, and      *)
(* looks up the terms of the dictionary.                                   *)
(*                                                                         *)
(* A text is a sequence of units, the pieces that texts, the keys of the   *)
(* knowledge graph's answer and the stopwords consist of; case,            *)
(* punctuation and the conversion of numerals are left out.  How alike two *)
(* texts are in a fuzzy match is a choice: the cutoff of 0.6 is on a scale *)
(* of 0 to 100 and keeps nearly everything.  Whether fuzz.WRatio finds a   *)
(* term and the words around it alike, with a cutoff of 0.8 of the same    *)
(* 100, comes with the term.                                               *)
(***************************************************************************)
EXTENDS Integers, FiniteSets, SequencesExt

CONSTANTS
  Requests,   \* what the generator and the knowledge graph may return, see RequestOK
  Stopwords,  \* by supported language, a sequence of units
  None

\* k in text, and " ".join(...) in possible_matches(...)
Within(k, text) == \E n \in 0 .. Len(text) - Len(k) : SubSeq(text, n + 1, n + Len(k)) = k

\* A text is a sequence of units.
IsText(x) == x # None /\ x \in Seq(ToSet(x))

\* A text without its marks (REMOVE_NE_PATTERN) and with them: "<PERSON>Ada" is another unit
\* than "Ada".  With it the entities found in it (ne_from_output), and for each key the graph
\* knows in it the ids and the translations.
TaggedTextOK(t) ==
  /\ IsText(t.text) /\ IsText(t.tagged) /\ t.nes \in Seq(ToSet(t.nes))
  /\ \A ne \in ToSet(t.nes) : IsText(ne.text) /\ ne.text # << >> /\ Within(ne.text, t.text)
  /\ IsFiniteSet(DOMAIN t.wikidata)
  /\ \A k \in DOMAIN t.wikidata :
       LET translations == t.wikidata[k].translations
       IN  /\ IsFiniteSet(t.wikidata[k].ids)
           /\ translations \in Seq(ToSet(translations))
           /\ \A text \in ToSet(translations) : IsText(text)

RequestOK(r) ==
  /\ TaggedTextOK(r.transcript) /\ TaggedTextOK(r.translation)
  /\ r.dictionary \in Seq(ToSet(r.dictionary))
  /\ \A n \in DOMAIN r.dictionary :
       LET entry == r.dictionary[n]
       IN  /\ IsText(entry.s) /\ entry.s # << >> /\ entry.alike \in BOOLEAN
           /\ entry.ts \in Seq(ToSet(entry.ts)) /\ entry.ts # << >>
           /\ \A text \in ToSet(entry.ts) : IsText(text)

ASSUME StopwordsAssumption ==
  \A lang \in DOMAIN Stopwords : Stopwords[lang] \in Seq(ToSet(Stopwords[lang]))

ASSUME RequestsAssumption == \A r \in Requests : RequestOK(r)

VARIABLES
  request,
  phase,           \* "extract", "pair", "align", "finish", "done" or "error"
  ne_transcript,   \* the entities of the transcript not yet paired
  ne_translation,  \* the entities of the translation ...
  next,            \* ... and which one the loop is at; then the one of to_be_aligned
  to_be_aligned,
  paired,
  terms,
  pairing          \* history: what each element of paired was made of

vars == <<request, phase, ne_transcript, ne_translation, next, to_be_aligned, paired, terms,
          pairing>>

Entity(e) == {"text", "type", "ids", "trans"} = DOMAIN e

\* The variables have their types; no side of a triple or a term is empty, also when it is
\* nothing but a stopword.
TypeOK ==
  /\ RequestOK(request)
  /\ phase \in {"extract", "pair", "align", "finish", "done", "error"}
  /\ \A e \in ToSet(ne_transcript) \cup ToSet(ne_translation) : Entity(e)
  /\ ToSet(to_be_aligned) \subseteq 1 .. Len(ne_translation)
  /\ next \in 1 .. Len(ne_translation) + 1
  /\ Len(paired) = Len(pairing)
  /\ \A p \in ToSet(paired) \cup ToSet(terms) : p.src # << >> /\ p.tgt # << >>
  /\ \A p \in ToSet(pairing) :
       /\ p.how \in {"ids", "text", "exact", "type", "fuzzy", "cardinal"}
       /\ p.entity \in 1 .. Len(ne_translation)

Init ==
  /\ request \in Requests
  /\ phase = "extract"
  /\ ne_transcript = << >> /\ ne_translation = << >> /\ next = 1
  /\ to_be_aligned = << >> /\ paired = << >> /\ terms = << >> /\ pairing = << >>

-----------------------------------------------------------------------------
(***************************************************************************)
(* extract_ne.                                                             *)
(***************************************************************************)

\* Bug: a text that is a stopword is removed, too.
clean_stopwords_whole(text, lang) ==
  FoldLeft(LAMBDA t, sw : IF t # << >> /\ Head(t) = sw THEN Tail(t) ELSE t,
           text, Stopwords[lang])

\* Each stopword is tried once, in the order of its list.
clean_stopwords(text, lang) ==
  FoldLeft(LAMBDA t, sw : IF Len(t) > 1 /\ Head(t) = sw THEN Tail(t) ELSE t,
           text, Stopwords[lang])

\* An entity has the ids of every key in its text, and the translations of the key that
\* is its text, with or without stopwords.
extract_ne(tagged, lang) ==
  LET wikidata == tagged.wikidata
      Ids(text) == UNION {wikidata[k].ids : k \in {k \in DOMAIN wikidata : Within(k, text)}}
      wiki_trans(text) ==
        IF text \in DOMAIN wikidata THEN wikidata[text].translations
        ELSE IF clean_stopwords(text, lang) \in DOMAIN wikidata
        THEN wikidata[clean_stopwords(text, lang)].translations
        ELSE None
  IN  [n \in DOMAIN tagged.nes |->
         [text |-> tagged.nes[n].text, type |-> tagged.nes[n].type,
          ids  |-> Ids(tagged.nes[n].text), trans |-> wiki_trans(tagged.nes[n].text)]]

\* stopwords_by_lang returns None for a language it does not know, and the loop over it
\* raises.
Supported(tagged, lang) ==
  lang \in DOMAIN Stopwords \/ \A n \in DOMAIN tagged.nes : tagged.nes[n].text \in DOMAIN tagged.wikidata

Raise ==
  /\ phase' = "error"
  /\ UNCHANGED <<request, ne_transcript, ne_translation, next, to_be_aligned, paired, terms,
                 pairing>>

\* The graph does not answer with a list, or a language has no stopwords.
ExtractFails ==
  phase = "extract" /\ Raise

Extract ==
  /\ phase = "extract"
  /\ Supported(request.transcript, request.src_lang)
  /\ Supported(request.translation, request.tgt_lang)
  /\ ne_transcript' = extract_ne(request.transcript, request.src_lang)
  /\ ne_translation' = extract_ne(request.translation, request.tgt_lang)
  /\ phase' = "pair"
  /\ UNCHANGED <<request, next, to_be_aligned, paired, terms, pairing>>

-----------------------------------------------------------------------------
(***************************************************************************)
(* The first loop of extract_nes: by ids, by translation, by the words of  *)
(* the transcript.                                                         *)
(***************************************************************************)

etrans(e) == IF e.trans = None THEN <<e.text>> ELSE e.trans

Common(e, n) == Cardinality(e.ids \cap ne_transcript[n].ids)
First(places) == IF places = {} THEN 0 ELSE CHOOSE n \in places : \A m \in places : n <= m

\* Bug: the number of common ids is not kept.
ByIds_first(e) == First({n \in DOMAIN ne_transcript : Common(e, n) > 0})

\* The first entity of the transcript with the most ids in common.
ByIds(e) ==
  First({n \in DOMAIN ne_transcript :
           Common(e, n) > 0 /\ \A m \in DOMAIN ne_transcript : Common(e, m) <= Common(e, n)})

\* The last entity of the transcript that is a translation of e.
ByText(e) ==
  SelectLastInSeq(ne_transcript, LAMBDA se : se.text \in ToSet(etrans(e)))

\* The first translation of e that is in the transcript.
do_exact_match(e) ==
  LET n == SelectInSeq(etrans(e), LAMBDA t : Within(t, request.transcript.text))
  IN  IF n = 0 THEN None ELSE etrans(e)[n]

\* Bug: all entities like it are removed.
remove_all(entity) == SelectSeq(ne_transcript, LAMBDA x : x # entity)

\* list.remove
remove(entity) == RemoveFirst(ne_transcript, entity)

Triple(src, tgt, type) == [src |-> src, tgt |-> tgt, type |-> type]

Pair(triple, how, entity, with) ==
  /\ paired' = Append(paired, triple)
  /\ pairing' = Append(pairing, [how |-> how, entity |-> entity, with |-> with])

\* Bug: what is paired by the words of the transcript is aligned again.
Postponed_exact(found, match) == found = 0

Postponed(found, match) == found = 0 /\ match = None

PairNext ==
  /\ phase = "pair" /\ next <= Len(ne_translation)
  /\ LET e     == ne_translation[next]
         found == IF ByIds(e) # 0 THEN ByIds(e) ELSE ByText(e)
         current == ne_transcript[found]
         match == do_exact_match(e)
     IN  /\ IF found # 0
            THEN /\ ne_transcript' = remove(current)
                 /\ Pair(Triple(current.text, e.text, e.type),
                         IF ByIds(e) # 0 THEN "ids" ELSE "text", next, current)
            ELSE IF match # None
            THEN Pair(Triple(match, e.text, e.type), "exact", next, None)
                   /\ UNCHANGED ne_transcript
            ELSE UNCHANGED <<ne_transcript, paired, pairing>>
         /\ to_be_aligned' = IF Postponed(found, match) THEN Append(to_be_aligned, next)
                             ELSE to_be_aligned
  /\ next' = next + 1
  /\ UNCHANGED <<request, phase, ne_translation, terms>>

PairingEnds ==
  /\ phase = "pair" /\ next > Len(ne_translation)
  /\ phase' = "align" /\ next' = 1
  /\ UNCHANGED <<request, ne_transcript, ne_translation, to_be_aligned, paired, terms, pairing>>

-----------------------------------------------------------------------------
(***************************************************************************)
(* The second loop: what is left is aligned by its type.  Nothing is taken *)
(* from ne_transcript any more.                                            *)
(***************************************************************************)

Aligning(n) == phase = "align" /\ next <= Len(to_be_aligned) /\ n = to_be_aligned[next]

AlignedNext ==
  /\ next' = next + 1
  /\ UNCHANGED <<request, phase, ne_transcript, ne_translation, to_be_aligned, terms>>

same_type(type) == {m \in DOMAIN ne_transcript : ne_transcript[m].type = type}

Skip == AlignedNext /\ UNCHANGED <<paired, pairing>>

\* The only one of its type.
AlignByType ==
  \E n \in DOMAIN ne_translation :
    LET e == ne_translation[n]
    IN  /\ Aligning(n)
        /\ \E m \in DOMAIN ne_transcript :
             LET se == ne_transcript[m]
             IN  /\ same_type(e.type) = {m}
                 /\ Pair(Triple(se.text, e.text, e.type), "type", n, se)
        /\ AlignedNext

\* Bug: the branches are the other way round.
AlignPerson_first ==
  \E n \in DOMAIN ne_translation :
    LET e == ne_translation[n]
        l == Len(e.text)
        words == request.transcript.tagged
    IN  /\ Aligning(n)
        /\ e.type = "PERSON" /\ e.ids # {}
        /\ \/ \E i \in 0 .. Len(words) - l :
                /\ Pair(Triple(SubSeq(words, i + 1, i + l), e.text, e.type), "fuzzy", n, None)
                /\ AlignedNext
           \/ Skip

\* do_fuzzy_match: any words of the transcript, as many as e has, or none.  Unlike
\* do_exact_match it is given the transcript with its marks and leaves them there.
AlignPerson ==
  \E n \in DOMAIN ne_translation :
    LET e == ne_translation[n]
        l == Len(e.text)
        words == request.transcript.tagged
    IN  /\ Aligning(n) /\ Cardinality(same_type(e.type)) # 1
        /\ e.type = "PERSON" /\ e.ids # {}
        /\ \/ \E i \in 0 .. Len(words) - l :
                /\ Pair(Triple(SubSeq(words, i + 1, i + l), e.text, e.type), "fuzzy", n, None)
                /\ AlignedNext
           \/ Skip

\* The numbers left.  The sides of the triple are the other way round.
AlignCardinal ==
  \E n \in DOMAIN ne_translation :
    LET e == ne_translation[n]
    IN  /\ Aligning(n) /\ Cardinality(same_type(e.type)) # 1
        /\ e.type = "CARDINAL"
        /\ \/ \E m \in same_type("CARDINAL") :
                LET se == ne_transcript[m]
                IN  /\ Pair(Triple(e.text, se.text, e.type), "cardinal", n, se)
                    /\ AlignedNext
           \/ Skip

\* Only a line in the log.
AlignFails ==
  \E n \in DOMAIN ne_translation :
    LET e == ne_translation[n]
    IN  /\ Aligning(n) /\ Cardinality(same_type(e.type)) # 1
        /\ ~(e.type = "PERSON" /\ e.ids # {}) /\ e.type # "CARDINAL"
        /\ Skip

-----------------------------------------------------------------------------
(***************************************************************************)
(* The terms, and the stopwords of both.                                   *)
(***************************************************************************)

\* By the transcript only, the first translation of a term.
extract_terms_from_source ==
  FoldLeft(LAMBDA found, entry :
             IF Within(entry.s, request.transcript.text) /\ entry.alike
             THEN Append(found, [src |-> entry.s, tgt |-> entry.ts[1]]) ELSE found,
           << >>, request.dictionary)

\* By both texts, the first translation that is there.
extract_terms ==
  LET There(entry) == SelectInSeq(entry.ts, LAMBDA t : Within(t, request.translation.text))
  IN  FoldLeft(LAMBDA found, entry :
                 IF Within(entry.s, request.transcript.text) /\ entry.alike /\ There(entry) # 0
                 THEN Append(found, [src |-> entry.s, tgt |-> entry.ts[There(entry)]]) ELSE found,
               << >>, request.dictionary)

Terms == IF request.fromTranscriptOnly THEN extract_terms_from_source ELSE extract_terms

remove_stopwords(pairs) ==
  [n \in DOMAIN pairs |->
     [pairs[n] EXCEPT !.src = clean_stopwords(@, request.src_lang),
                      !.tgt = clean_stopwords(@, request.tgt_lang)]]

PairsSupported ==
  \/ paired = << >> /\ Terms = << >>
  \/ {request.src_lang, request.tgt_lang} \subseteq DOMAIN Stopwords

AlignmentEnds ==
  /\ phase = "align" /\ next > Len(to_be_aligned)
  /\ phase' = "finish"
  /\ UNCHANGED <<request, ne_transcript, ne_translation, next, to_be_aligned, paired, terms,
                 pairing>>

\* load_dict raises for a line without a tab, remove_stopwords for a language without
\* stopwords.
FinishFails == phase = "finish" /\ (~PairsSupported \/ request.dictionary # << >>) /\ Raise

Finish ==
  /\ phase = "finish" /\ PairsSupported
  /\ terms' = remove_stopwords(Terms)
  /\ paired' = remove_stopwords(paired)
  /\ phase' = "done"
  /\ UNCHANGED <<request, ne_transcript, ne_translation, next, to_be_aligned, pairing>>

Next ==
  \/ Extract \/ ExtractFails
  \/ PairNext \/ PairingEnds
  \/ AlignByType \/ AlignPerson \/ AlignCardinal \/ AlignFails \/ AlignmentEnds
  \/ Finish \/ FinishFails

Spec == Init /\ [][Next]_vars

-----------------------------------------------------------------------------
(***************************************************************************)
(* Properties.                                                             *)
(***************************************************************************)

CountIn(seq, Test(_)) == Cardinality({n \in DOMAIN seq : Test(seq[n])})

\* The entities of the transcript are those still to be paired and those paired by their
\* ids or their text, each as often as it was found: what is paired so is not paired
\* again by anybody, and nobody else's goes with it.
NothingIsLost ==
  phase \in {"pair", "align", "finish", "done"} =>
    LET all == extract_ne(request.transcript, request.src_lang)
    IN  \A e \in ToSet(all) :
          CountIn(all, LAMBDA x : x = e) =
            CountIn(ne_transcript, LAMBDA x : x = e)
              + CountIn(pairing, LAMBDA p : p.how \in {"ids", "text"} /\ p.with = e)

\* When all entities are paired that can be, the choice of each was the best one: none
\* that is left has more ids in common with it, and those not paired have none in common
\* with what is left, nor is what is left or anything in the transcript a translation of
\* theirs.
NothingOverlooked ==
  phase \in {"align", "finish", "done"} =>
    /\ \A p \in ToSet(pairing) : p.how = "ids" =>
         \A x \in ToSet(ne_transcript) :
           Cardinality(x.ids \cap ne_translation[p.entity].ids)
             <= Cardinality(p.with.ids \cap ne_translation[p.entity].ids)
    /\ \A n \in ToSet(to_be_aligned) :
         LET e == ne_translation[n]
         IN  /\ \A x \in ToSet(ne_transcript) :
                  x.ids \cap e.ids = {} /\ x.text \notin ToSet(etrans(e))
             /\ \A t \in ToSet(etrans(e)) : ~Within(t, request.transcript.text)

\* An entity of the translation is in one triple at most, by whichever of the six ways.
NoEntityTwice ==
  \A m, n \in DOMAIN pairing : m # n => pairing[m].entity # pairing[n].entity

\* An entity of the translation that has no triple in the end was looked at by both loops,
\* and its type could not tell what to pair it with: what the first loop left of the
\* transcript has none of that type, or several.
NoneIsForgotten ==
  phase \in {"finish", "done"} =>
    \A n \in DOMAIN ne_translation :
      \/ \E p \in ToSet(pairing) : p.entity = n
      \/ /\ n \in ToSet(to_be_aligned)
         /\ CountIn(ne_transcript, LAMBDA x : x.type = ne_translation[n].type) # 1
=============================================================================
