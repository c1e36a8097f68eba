------------------------- MODULE TwoPhaseGenerator -------------------------
(***************************************************************************)
(* The generator of the ST server's model,                                 *)
(* examples/speech_to_text/twophase_sequence_generator.py: a beam search   *)
(* for the transcripts of a batch of sentences (_generate_aux), then one   *)
(* for their translations (_generate_tgt), each of whose hypotheses goes   *)
(* with one of the transcripts.  The generator of tagged models with one   *)
(* decoder, inference/sequence_generator_tagged.py, has one such search    *)
(* for the translations alone.                                             *)
(*                                                                         *)
(* Everything lives in tensors whose row (i - 1) * beam_size + b belongs   *)
(* to beam b of the i-th sentence that is not finished.  At every step all *)
(* of them are reordered, and when sentences are finished their rows are   *)
(* removed, but not of all tensors at the same time.                       *)
(*                                                                         *)
(* Numbers are abstracted to what they were computed from: a score, a tag  *)
(* or an output of the decoder is the set of sources (encoder outputs,     *)
(* transcripts) and the tokens that the decoder had seen.  Which           *)
(* candidates score best is a choice.  The tokens that continue a beam are *)
(* numbered in the order in which they are chosen.                         *)
(***************************************************************************)
EXTENDS Integers, FiniteSets, SequencesExt

CONSTANTS
  Sizes,    \* the sizes to check: records of two_phase, bsz, beam_size, max_len
  MinLen,   \* min_len
  Shapes    \* by beam_size: the candidate lists of a sentence, best first

Eos == 0

\* What topk may return: pairs of a beam and whether it ends there.
Lists(beam_size) ==
  {l \in [1 .. 2 * beam_size -> (1 .. beam_size) \X BOOLEAN] :
     \A i, j \in DOMAIN l : i < j /\ l[i][2] /\ l[j][2] => l[i][1] # l[j][1]}

ASSUME SizesAssumption ==
  /\ \A z \in Sizes : z.two_phase \in BOOLEAN /\ z.bsz \in Nat \ {0} /\ z.beam_size \in Nat \ {0}
  /\ MinLen \in Nat /\ \A z \in Sizes : z.max_len \in Nat /\ MinLen <= z.max_len
  /\ \A z \in Sizes : Shapes[z.beam_size] \subseteq Lists(z.beam_size)

VARIABLES
  size,         \* the sizes of this call
  phase,        \* "aux", "nbest" between the two searches, "tgt", or "single"; "done", "failed"
  step,         \* the loop's counter
  buf,          \* rows of tokens, scores and tags, which shrink at the end of a step
  net,          \* rows of what the models keep, which are reordered at the next one
  reorder_state, batch_idxs,
  ignorelist,
  finalized, finished

vars == <<size, phase, step, buf, net, reorder_state, batch_idxs, ignorelist,
          finalized, finished>>

beam_size == size.beam_size
max_len   == size.max_len
bsz       == Len(buf) \div beam_size
Sentences == 1 .. size.bsz

\* The sentence and the beam of a row.
SentOf(row) == ((row - 1) \div beam_size) + 1
BeamOf(row) == ((row - 1) % beam_size) + 1
RowOf(i, beam) == (i - 1) * beam_size + beam

AllRows == 1 .. size.bsz * beam_size

-----------------------------------------------------------------------------
(***************************************************************************)
(* The buffers at the beginning of a phase.                                *)
(***************************************************************************)

Nothing == [of |-> {}, toks |-> << >>]
Encoder(s)       == <<s, 0>>
Transcript(s, k) == <<s, k>>

EmptyBuffers ==
  [row \in AllRows |-> [tokens |-> <<Eos>>, scores |-> << >>, tags |-> << >>]]

\* The encoder's output, once for every beam, and the transcript the row goes with.
EncoderRows(aux) ==
  [row \in AllRows |->
     [enc |-> SentOf(row), aux |-> aux[BeamOf(row)], cache |-> Nothing, outs |-> << >>]]

NotIgnored     == [i \in Sentences |-> [b \in 1 .. beam_size |-> FALSE]]
NoHypotheses   == [s \in Sentences |-> << >>]
NoneIsFinished == [s \in Sentences |-> FALSE]

\* _generate begins with the search of the transcripts, or the only one.
Init ==
  /\ size \in Sizes
  /\ phase = (IF size.two_phase THEN "aux" ELSE "single") /\ step = 0
  /\ buf = EmptyBuffers /\ net = EncoderRows([b \in 1 .. beam_size |-> 0])
  /\ reorder_state = << >> /\ batch_idxs = << >> /\ ignorelist = NotIgnored
  /\ finalized = NoHypotheses /\ finished = NoneIsFinished

\* _generate_tgt gives every beam a transcript of its sentence, with the encoder's output
\* from before the first search.  It needs beam_size of each, or they do not fit.
StartTgt ==
  /\ phase = "nbest"
  /\ IF \A s \in Sentences : Len(finalized[s]) = beam_size
     THEN /\ phase' = "tgt" /\ step' = 0
          /\ buf' = EmptyBuffers /\ net' = EncoderRows([b \in 1 .. beam_size |-> b])
          /\ reorder_state' = << >> /\ batch_idxs' = << >> /\ ignorelist' = NotIgnored
          /\ finalized' = NoHypotheses /\ finished' = NoneIsFinished
     ELSE /\ phase' = "failed"
          /\ UNCHANGED <<step, buf, net, reorder_state, batch_idxs, ignorelist, finalized,
                         finished>>
  /\ UNCHANGED size

-----------------------------------------------------------------------------
(***************************************************************************)
(* The decoders.                                                           *)
(***************************************************************************)

\* Bug: removed sentences are not taken into account.
Corrected_not(row) == reorder_state[row]

\* Bug: all sentences before a row's are taken for removed.
Corrected_all(row) ==
  IF batch_idxs = << >> THEN reorder_state[row]
  ELSE reorder_state[row] + (batch_idxs[SentOf(row)] * beam_size)

\* reorder_state counts rows after sentences were removed, the models' rows are from
\* before that.
Corrected(row) ==
  IF batch_idxs = << >> THEN reorder_state[row]
  ELSE reorder_state[row] + ((batch_idxs[SentOf(row)] - SentOf(row)) * beam_size)

\* Incremental states, encoder outputs, transcripts and outputs of the first decoder.
Reordered ==
  IF reorder_state = << >> THEN net
  ELSE [row \in DOMAIN reorder_state |-> net[Corrected(row)]]

\* What a decoder knows of a row after it has read its last token and tag.
Reads(row, sources) ==
  LET cache == Reordered[row].cache
      tags  == buf[row].tags
  IN  [of   |-> cache.of \cup sources \cup (IF tags = << >> THEN {} ELSE Last(tags).of),
       toks |-> Append(cache.toks, Last(buf[row].tokens))]

forward_auxiliary_decoder(row) == Reads(row, {Encoder(Reordered[row].enc)})

forward_decoder(row) ==
  Reads(row, {Encoder(Reordered[row].enc),
              Transcript(Reordered[row].enc, Reordered[row].aux)})

forward_decoder_with_tags(row) == Reads(row, {Encoder(Reordered[row].enc)})

lprobs(row) ==
  CASE phase = "aux"    -> forward_auxiliary_decoder(row)
    [] phase = "tgt"    -> forward_decoder(row)
    [] phase = "single" -> forward_decoder_with_tags(row)

\* The models' rows after the decoder, and the tags with the one it predicts.
Decoded ==
  [row \in DOMAIN buf |->
     [enc   |-> Reordered[row].enc,
      aux   |-> Reordered[row].aux,
      cache |-> lprobs(row),
      outs  |-> Append(Reordered[row].outs, lprobs(row))]]

Tagged(row) == Append(buf[row].tags, lprobs(row))

-----------------------------------------------------------------------------
(***************************************************************************)
(* The candidates of a step.  A list is what the search returns for one    *)
(* sentence: 2 * beam_size pairs of a beam and whether it ends there.      *)
(***************************************************************************)

\* Bug: every beam counts at the first step, although all of them are equal.
FirstBeam_any(list) == TRUE

\* BeamSearch.step: at the first step all hypotheses are equally likely.  Not so for
\* HierarchicalBeamSearch, whose beams come with different transcripts.
FirstBeam(list) ==
  phase # "tgt" /\ step = 0 => \A j \in DOMAIN list : list[j][1] = 1

\* The length constraints: no end before MinLen, and only ends at max_len.
MayFind(list) ==
  /\ step < MinLen => \A j \in DOMAIN list : ~list[j][2]
  /\ step = max_len => \A j \in 1 .. beam_size : list[j][2]
  /\ FirstBeam(list)

\* cand_indices: the continuations of a beam are numbered best first.
Token(list, j) ==
  IF list[j][2] THEN Eos ELSE Cardinality({k \in 1 .. j : list[k] = list[j]})

\* Bug: the second half of the candidates is not looked at.
eos_mask_firstHalf(i, list) ==
  {j \in DOMAIN list : list[j][2] /\ j <= beam_size /\ ~ignorelist[i][j]}

eos_mask(i, list) ==
  {j \in DOMAIN list : list[j][2] /\ ~(j <= beam_size /\ ignorelist[i][j])}

-----------------------------------------------------------------------------
(***************************************************************************)
(* finalize_hypos and finalize_aux_hypos.                                  *)
(***************************************************************************)

\* The numbers of a set in ascending order, as the tensors hold them.
Ascending(S) ==
  [n \in 1 .. Cardinality(S) |-> CHOOSE i \in S : Cardinality({j \in S : j < i}) = n - 1]

Hypothesis(i, beam) ==
  LET row == RowOf(i, beam)
  IN  [toks   |-> Append(Tail(buf[row].tokens), Eos),
       tags   |-> Tagged(row),
       scores |-> Append(buf[row].scores, lprobs(row)),
       aux    |-> Reordered[row].aux,
       outs   |-> IF phase = "aux" THEN Decoded[row].outs ELSE << >>]

\* Only ends among the best beam_size candidates count.
Ended(i, list) ==
  LET found == Ascending({j \in eos_mask(i, list) : j <= beam_size})
  IN  [n \in DOMAIN found |-> Hypothesis(i, list[found[n]][1])]

\* The sentence of the i-th place of the batch: finished ones have none.
cum_unfin(i) ==
  LET unfinished == Ascending({s \in Sentences : ~finished[s]})
  IN  Cardinality({s \in 1 .. unfinished[i] : finished[s]})

sent(i) == i + cum_unfin(i)

\* Bug: more hypotheses than asked for are kept.
Kept_all(hypos) == hypos

Kept(hypos) == SubSeq(hypos, 1, IF Len(hypos) < beam_size THEN Len(hypos) ELSE beam_size)

\* What ended of a sentence that has a place.
Found(s, lists) ==
  IF \E i \in 1 .. bsz : sent(i) = s
  THEN LET i == CHOOSE i \in 1 .. bsz : sent(i) = s IN Ended(i, lists[i])
  ELSE << >>

Finalized(lists) == [s \in Sentences |-> Kept(finalized[s] \o Found(s, lists))]

\* Bug: a sentence is finished with its first hypothesis.
is_finished_first(finalized_sent_len) == finalized_sent_len > 0 \/ step = max_len

is_finished(finalized_sent_len) ==
  finalized_sent_len = beam_size \/ step = max_len

newly_finished(lists) ==
  {i \in 1 .. bsz : /\ Ended(i, lists[i]) # << >>
                    /\ is_finished(Len(Finalized(lists)[sent(i)]))}

-----------------------------------------------------------------------------
(***************************************************************************)
(* The rest of a step.                                                     *)
(***************************************************************************)

\* The candidates to go on with: those that do not end, then the others if there are
\* not enough.
masked(i, list) == eos_mask(i, list) \cup {j \in 1 .. beam_size : ignorelist[i][j]}

active_hypos(i, list) ==
  SubSeq(Ascending(DOMAIN list \ masked(i, list)) \o Ascending(masked(i, list)),
         1, beam_size)

\* The row that continues as the given candidate.
Continued(i, list, j) ==
  LET row == RowOf(i, list[j][1])
  IN  [tokens |-> Append(buf[row].tokens, Token(list, j)),
       scores |-> Append(buf[row].scores, lprobs(row)),
       tags   |-> Tagged(row)]

\* Removes the finished sentences and reorders the beams of the others.
Advance(lists, new_finished) ==
  LET keep   == Ascending(1 .. bsz \ new_finished)
      Active == [n \in DOMAIN keep |-> active_hypos(keep[n], lists[keep[n]])]
      rows   == 1 .. Len(keep) * beam_size
      Cand(row) == Active[SentOf(row)][BeamOf(row)]
      Old(row)  == keep[SentOf(row)]
  IN  /\ batch_idxs' = IF new_finished = {} THEN << >> ELSE keep
      /\ ignorelist' = [n \in DOMAIN keep |-> [b \in 1 .. beam_size |->
                          Active[n][b] \in masked(keep[n], lists[keep[n]])]]
      /\ buf' = [row \in rows |-> Continued(Old(row), lists[Old(row)], Cand(row))]
      /\ reorder_state' = [row \in rows |->
                             RowOf(SentOf(row), lists[Old(row)][Cand(row)][1])]
      /\ net' = Decoded
      /\ step' = step + 1
      /\ phase' = IF \A n \in DOMAIN keep : \E b \in 1 .. beam_size : ~ignorelist'[n][b]
                  THEN phase ELSE "failed"

\* The buffers are given up with the phase.
Drop(next) ==
  /\ phase' = next
  /\ step' = 0 /\ buf' = << >> /\ net' = << >> /\ reorder_state' = << >>
  /\ batch_idxs' = << >> /\ ignorelist' = << >>

Step(next) ==
  \E lists \in [1 .. bsz -> {list \in Shapes[beam_size] : MayFind(list)}] :
    LET new_finished == newly_finished(lists)
        remaining    == bsz - Cardinality(new_finished)
    IN  /\ finalized' = Finalized(lists)
        /\ finished' = [s \in Sentences |->
                          finished[s] \/ \E i \in new_finished : sent(i) = s]
        /\ IF \E s \in Sentences : Len(finalized'[s]) > beam_size
           THEN Drop("failed")
           ELSE IF remaining = 0 THEN Drop(next)
           ELSE IF step = max_len THEN Drop("failed")
           ELSE Advance(lists, new_finished)
        /\ UNCHANGED size

_generate_aux == phase = "aux" /\ Step("nbest")
_generate_tgt == phase = "tgt" /\ Step("done")
_generate     == phase = "single" /\ Step("done")

Next == _generate_aux \/ StartTgt \/ _generate_tgt \/ _generate

Spec == Init /\ [][Next]_vars

-----------------------------------------------------------------------------
(***************************************************************************)
(* Properties.                                                             *)
(***************************************************************************)

\* The numbers at a position of a hypothesis were computed from its own sentence, its own
\* transcript, and the tokens before that position.
Own(s, aux, toks, numbers) ==
  LET sources == {Encoder(s)} \cup (IF aux = 0 THEN {} ELSE {Transcript(s, aux)})
  IN  numbers = [n \in 1 .. Len(toks) |->
                  [of   |-> sources,
                   toks |-> <<Eos>> \o SubSeq(toks, 1, n - 1)]]

\* The variables have their types: the tensors of a search agree in their sizes, and those
\* that have not yet been reordered are the larger ones.
TypeOK ==
  /\ size \in Sizes
  /\ phase \in {"aux", "nbest", "tgt", "single", "done", "failed"}
  /\ step \in 0 .. max_len
  /\ Len(buf) = Len(ignorelist) * beam_size
  /\ reorder_state = << >> \/ Len(reorder_state) = Len(buf)
  /\ batch_idxs = << >> \/ Len(batch_idxs) = bsz
  /\ \A row \in DOMAIN reorder_state : Corrected(row) \in DOMAIN net
  /\ \A row \in DOMAIN buf :
       /\ Len(buf[row].tokens) = step + 1
       /\ Len(buf[row].scores) = step /\ Len(buf[row].tags) = step
  /\ phase \in {"aux", "tgt", "single"} => bsz = Cardinality({s \in Sentences : ~finished[s]})

\* A hypothesis of a sentence belongs to it: every score, every tag and every output of
\* the first decoder it comes with was computed from the audio of that sentence, the
\* transcript stated with it and the tokens before it.  So the rows of the tensors stay
\* in step, those that lose finished sentences at once and those that lose them later.
HypothesesAreOwn ==
  \A s \in Sentences : \A n \in DOMAIN finalized[s] :
    LET h == finalized[s][n]
    IN  /\ Own(s, h.aux, h.toks, h.tags) /\ Own(s, h.aux, h.toks, h.scores)
        /\ phase \in {"aux", "nbest"} => Own(s, 0, h.toks, h.outs)
        /\ h.aux \in IF size.two_phase /\ phase \in {"tgt", "done"} THEN 1 .. beam_size ELSE {0}

\* No sentence has the same hypothesis twice: the same transcript, or the same
\* translation of the same transcript.
HypothesesDiffer ==
  \A s \in Sentences : \A m, n \in DOMAIN finalized[s] :
    m # n => \/ finalized[s][m].toks # finalized[s][n].toks
             \/ finalized[s][m].aux # finalized[s][n].aux

\* A beam that has ended does not go on, and takes up no place among those that do, also
\* when the end was found among the worse half of the candidates.
NothingAfterEos ==
  \A row \in DOMAIN buf : \A n \in DOMAIN Tail(buf[row].tokens) : Tail(buf[row].tokens)[n] # Eos

\* A search returns beam_size hypotheses of every sentence: the second one needs as many
\* transcripts, and its tensors have a row for each.
EnoughHypotheses ==
  phase \in {"nbest", "done"} => \A s \in Sentences : Len(finalized[s]) = beam_size

\* No assertion of the generator fails, whichever candidates the searches find: there is
\* a beam to go on with in every unfinished sentence, and none is left after max_len.
NoAssertFails == phase # "failed"
=============================================================================
