-------------------------- MODULE NamedEntitiesMC --------------------------
(***************************************************************************)
(* Up to three entities in a transcript of three words and two in its      *)
(* translation, with several answers of the knowledge graph; and a few     *)
(* requests with longer entities, stopwords, a dictionary and a language   *)
(* that is not supported.                                                  *)
(***************************************************************************)
EXTENDS NamedEntities

Answer(ids, translations) == [ids |-> ids, translations |-> translations]
NoAnswer == [k \in {} |-> Answer({}, << >>)]

NEs(texts, types, max) == UNION {[1 .. n -> [text : texts, type : types]] : n \in 0 .. max}

\* The words of an entity carry its marks.
Tagged(text, nes, wikidata) ==
  LET marked == UNION {ToSet(nes[n].text) : n \in DOMAIN nes}
  IN  [text |-> text, nes |-> nes, wikidata |-> wikidata,
       tagged |-> [n \in DOMAIN text |-> IF text[n] \in marked THEN "<" \o text[n] \o ">"
                                        ELSE text[n]]]

Transcripts ==
  {Tagged(<<"a", "b", "b">>, nes, wikidata) :
     nes \in NEs({<<"a">>, <<"b">>}, {"GPE", "CARDINAL"}, 3),
     wikidata \in {NoAnswer,
                   (<<"a">> :> Answer({1}, << >>)) @@ (<<"b">> :> Answer({1, 2}, << >>)),
                   (<<"b">> :> Answer({1}, << >>))}}

Translations ==
  {Tagged(<<"x", "y">>, nes, wikidata) :
     nes \in NEs({<<"x">>, <<"y">>}, {"GPE", "CARDINAL", "PERSON"}, 2),
     wikidata \in {NoAnswer,
                   (<<"x">> :> Answer({1, 2}, << >>)) @@ (<<"y">> :> Answer({1}, <<(<<"c">>), (<<"b">>)>>)),
                   (<<"x">> :> Answer({3}, <<(<<"a">>)>>))}}

Request(transcript, translation, src_lang, tgt_lang, dictionary, fromTranscriptOnly) ==
  [transcript |-> transcript, translation |-> translation, src_lang |-> src_lang,
   tgt_lang |-> tgt_lang, dictionary |-> dictionary, fromTranscriptOnly |-> fromTranscriptOnly]

Dictionary == << [s |-> <<"the", "b">>, ts |-> << <<"z">>, <<"el", "x">> >>, alike |-> TRUE],
                 [s |-> <<"c">>, ts |-> << <<"y">> >>, alike |-> TRUE],
                 [s |-> <<"a">>, ts |-> << <<"y">> >>, alike |-> FALSE] >>

LongTranscripts ==
  {Tagged(<<"the", "b", "a">>, << [text |-> <<"the", "b">>, type |-> type] >>,
          <<"b">> :> Answer({1}, << >>)) : type \in {"PERSON", "GPE"}}
LongTranslations ==
  {Tagged(<<"el", "x", "y">>,
          << [text |-> <<"el", "x">>, type |-> type], [text |-> <<"y">>, type |-> "GPE"] >>,
          <<"x">> :> Answer(ids, trans)) :
     type \in {"PERSON", "GPE"}, ids \in {{1}, {2}}, trans \in {<< >>, << <<"b">> >>}}

MCRequests ==
  {Request(transcript, translation, "en", "es", << >>, TRUE) :
     transcript \in Transcripts, translation \in Translations}
  \cup
  {Request(transcript, translation, "en", lang, Dictionary, only) :
     transcript \in LongTranscripts, translation \in LongTranslations, lang \in {"es", "it"}, only \in BOOLEAN}

MCStopwords == [en |-> <<"a", "the">>, es |-> <<"el">>]
=============================================================================
