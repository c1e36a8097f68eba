# SmarterP: a TLA+ verification of its speech translation service and its training

SmarterP is a fork of the fairseq toolkit with a service on top of it: an
interpreter's workstation streams audio to a WebSocket server, which hands
windows of it to a speech translation (ST) server and sends back the named
entities and the terms it recognises. The service is the part with protocols, two
processes and failures, and it is modelled whole, down to the two-phase beam search
its model decodes with. Most of the toolkit is numerical code. What has
control state of its own in it, the training loop with its checkpoints, iterators
and loss scaler, is modelled too.

## Inventory

### The parts and how they interact

```
 client(s) --WebSocket--> FBK_API_server.py --stdin/stdout--> simple_io_server_st.py
                               |                                   |         |
                               +-- /tmp/FAs.<pid>.wav ------------>+         +--> knowledge
                               +-- /tmp/FAs.<pid>.dict.tsv ------->+              graph (HTTP)
```

| part | source | state | operations |
|---|---|---|---|
| WebSocket server | `websocket_server/FBK_API_server.py` | globals: audio buffer, its length in seconds, the cursor `lastSentEndSec`, the languages; the ST server's process and pipes; two files | `stServerStart` and `doWarmUp` at start-up; `externalLoop` per connection with `start`, `chunk`, `end`, `shutdown` and the error paths |
| audio window decision | `checkAudioAndSendToProcess` in the same file | the cursor | decides after each chunk whether a request is made and which slice of the buffer it has |
| ST server loop | `api/simple_io_server_st.py`, `api/speech_processor.py` | the model, the line being processed | one line read, one line written; shutdown; any exception becomes an error line |
| terminology dictionaries | `load_dict` in `api/st_triangle_ne_processor.py` | `LOADED_DICTS`, by file name | load once, look up |
| named entity pairing, terms | `extract_nes`, `extract_terms*` in the same file | none (pure, but for the HTTP call) | pair the entities of translation and transcript |
| output and tags | `speech_processor.py`, `st_triangle_processor.py`, `ne_postprocessing.py` | none | join tokens and tags into a line, move tags to word boundaries, find the tagged texts |
| start script | `websocket_server/CMD.start_stServer.sh` | none | checks its arguments, starts Python, decides where stderr goes |
| generators of tagged models | `examples/speech_to_text/twophase_sequence_generator.py`, `.../inference/sequence_generator_tagged.py` | tensors with a row per beam of every unfinished sentence, what the models keep per row, hypotheses per sentence | search the transcripts, then the translations; per step: choose candidates, finalize hypotheses, remove finished sentences, reorder rows |
| training loop | `fairseq_cli/train.py`, `fairseq/trainer.py` | the model, the number of updates, the loss scaler, patience | launch or restore, begin an epoch, one update, validate, save, stop |
| checkpoints | `fairseq/checkpoint_utils.py` | the files of `save_dir`, the best loss | write, copy, remove old ones, load |
| iterators over batches | `fairseq/data/iterators.py` | epoch, position, order of the batches | next epoch, shares of the workers, groups of an update, save and restore |
| loss scaler | `fairseq/optim/dynamic_loss_scaler.py` | scale, counts of updates and overflows | lower the scale after overflows, raise it after a window without |
| docker launcher, the rest of fairseq, recipes | `docker/`, `fairseq/`, `fairseq_cli/`, `examples/` | - | not modelled, see below |

Everything in the WebSocket server runs on one thread. A handler gives way to
others only at an `await` (`recv`, `send`); the read of the ST server's answer
is a plain `readline` and stops the whole event loop. The pipes carry lines
without numbers. The two files are shared memory between the processes: one
writes a file, then a line that names it.

Inside the ST server one request goes through the generator, which returns
transcripts and translations with a tag for every token; through the
post-processing, which makes tagged text and then entities of them; and through
the pairing of the entities of both sides, which asks the knowledge graph.

Training is a program of its own. Its workers run in lockstep, and what
connects one run of it to the next are the files of `save_dir`.

### What is hard here

- *Globals that outlive what they belong to.* The audio, the cursor and the
  languages belong to a session but live as long as the process. `end` means to
  reset the cursor and resets a local variable instead; a client that leaves,
  or a handler that dies, resets nothing.
- *Arithmetic of sliding windows.* Steps of 1.5 s and a window of 10 s do not
  divide; the length is a float sum that may fall just short of a boundary; a
  slice bound can be negative, which Python accepts silently.
- *Two processes and three pipes.* Requests and answers are matched by order
  only; either process may die at any point; the reader of one line may have
  died before it is written.
- *Exceptions as control flow.* Some are logged, some kill the handler, some the
  process, and which depends on names that do not exist (`except Error`).
- *Files read later than written.* The glossary is cached by a file name that
  never changes.
- *Lists changed while they are searched.* The pairing takes entities from one list
  while it walks another, by three criteria in turn, and in a second loop by
  three more that take nothing.
- *Rows that move.* When a sentence of the batch is finished its rows vanish from
  some tensors at once and from others a step later, through indices that count
  the new rows and are corrected to the old ones.
- *Crashes in training.* A checkpoint is several files, overwritten in place one
  after the other, then old ones are removed; the position in the epoch is counted
  in groups by one iterator and in batches by another.

### What makes each part correct

- Audio: every instant up to the cursor is analysed, none needlessly twice,
  every request's slice is what its bounds say.
- WebSocket server: messages are answered as the API says, in order; results
  belong to the session they are sent to; whatever fails, no client waits for
  ever and the pipes stay in step.
- ST server: one answer per line, in order; it stops when it should.
- Dictionaries: the terms of a session are of its own glossary, and of a whole one.
- Tags: every span the decoder closed comes out as one entity, whole and with its
  type, whichever pass moved its tags.
- Pairing: no entity twice, none of the better partners overlooked, none left without a
  partner that its type tells.
- Generator: every number of a hypothesis comes from its own sentence, transcript and
  tokens; every sentence gets `beam_size` different hypotheses.
- Training: whatever it is restored from, no batch is lost or seen twice and
  every count is right; there is always a checkpoint to go on from, and the best is
  the best.

The hazards behind this list, line by line, are in `PROJECT.json`.

## Modules

| module | models | role |
|---|---|---|
| `AudioWindow` | `checkAudioAndSendToProcess`, Python's slice bounds | pure operators |
| `AudioSession` | the audio globals through all handlers | state machine, extends `AudioWindow` |
| `AudioWindow_proofs`, `AudioSession_proofs` | - | facts about windows, and the theorems about `AudioSession` that rest on them |
| `StServer` | the ST server as its parent process sees it: pipes, loop, dictionaries | open state machine: actions without the other end |
| `StClient` | any client of its line protocol | closes `StServer` |
| `StClient_proofs` | - | theorems about `StClient` |
| `FBKServer` | the whole of `FBK_API_server.py`, with clients | closes `StServer` too, extends `AudioWindow` |
| `ApiProtocol` | `websocket_server/README.md`, "API" | the abstract specification `FBKServer` implements |
| `FBKServer_proofs` | - | theorems about `FBKServer`, the refinement among them |
| `TagSpans` | from tokens and tags to entities | state machine over the passes, one hypothesis after the other |
| `TagSpans_proofs` | - | theorems about `TagSpans` |
| `NamedEntities_proofs` | - | theorems about `NamedEntities` |
| `NamedEntities` | `_postproc` of `st_triangle_ne_processor.py` for one request | state machine; `NamedEntitiesMC` has the requests |
| `TwoPhaseGenerator` | `twophase_sequence_generator.py`, and the generator with a single search, for one batch | state machine; `TwoPhaseGeneratorMC` has the sizes and candidates |
| `TwoPhaseGenerator_proofs` | - | theorems about `TwoPhaseGenerator` |
| `EpochIterators` | `iterators.py` | operators on iterators as records |
| `Checkpoints` | names, choice and retention of checkpoint files | operators, extends `EpochIterators` |
| `LossScaler` | `dynamic_loss_scaler.py` | operators on its record |
| `Training` | `train.py`, `trainer.py`, saving and loading, crashes | state machine that composes the three; `TrainingMC` has the configurations |
| `Training_proofs` | - | theorems about `Training` |

### AudioWindow, AudioSession

Time is counted in ticks: with a tick of half a second the defaults are
`stStepSecs = 3` and `stWindowSecs = 20`. `checkAudio(tot, short, last)` is one
call of the function: whether it sends, the new cursor, the slice. `short` says
that the float `totAudioSecs` lies just below the exact sum `tot`; it can matter
only at a multiple of the step or at the window, since the error is many orders
smaller than a tick (`IsBelow`, `WholeSteps`).

`AudioSession` has one action per handler: `Connect`, `Start`, `Chunk(d)`,
`End`, `Drop`, and `Reply(outcome)` for what comes back from the ST server:
`"result"`, `"gone"` (the client has left when the result is sent), `"error"`
(an error line, which is a `KeyError` nothing catches: the handler dies) and
`"eof"` (the ST server is dead: a `JSONDecodeError`, logged). `heard` is the only
variable the code does not have: the positions of the session's audio for which
the client has a result.

### StServer, StClient

`stdin` and `stdout` are sequences of lines not yet read; `current` is the line
in work with the audio read for it; `loadedDicts` is `LOADED_DICTS`; `disk` is
the content of the files. The WAV file and the dictionary are read in different
steps (`ReadAudio`, `Process`), because whoever writes the files may do so in
between. An answer is abstracted to what it was made from: audio, languages,
dictionary. `Faults` says what may go wrong: `"start"` (the script or the loading
of the model), `"raise"` (any exception in processing), `"crash"`.

`StClient` writes up to `MaxLines` lines of any kind without waiting, rewrites
files at any time, and dies at any time.

### FBKServer, ApiProtocol

`server` is the process: booting, warming up, serving, exited. Per connection:
`conn`, the `inbox` of messages received, the `outbox` of messages sent, and
`handler`, which is `"recv"` or the handler that is inside `readline`. While one
is, `Waiting` disables every other handler: that is the single thread. The
message a handler deals with stays at the head of the inbox until it is done.
Audio is a sequence of session numbers, one per tick, and languages and glossary
are session numbers too, so that every result says what it was made from.

| action | code |
|---|---|
| `BootRead`, `WarmUpSend`, `WarmUpReceive` | `stServerStart`, `doWarmUp` |
| `ReceiveStart`, `ReceiveBadGloss` | `start`, with `saveBilingualTerms` succeeding or failing |
| `ReceiveChunk`, `ReceiveEnd` | the handlers up to the request, if one is made |
| `ReadReply` | from the `readline` to the end of the handler |
| `ReceiveUnknown`, `ReceiveLogged`, `ReceiveMalformed` | the error paths: answered, logged, fatal to the handler |
| `ReceiveShutdown` | `shutdown`, which exits the process |
| `NoticeLeft` | `recv` raises for a client that has left |
| `Connect`, `ClientSend`, `Leave` | clients and the websockets library (external) |

`end` calls the check that may make a request, and the model has that path
(handler `"end"`), but no reachable state takes it: see `EndMakesNoRequest`. That is
why the `send` in the middle of that path is not a step of its own.

`ApiProtocol` has, per connection, a link, the messages to be dealt with and
what was said. The refinement maps `link` to `conn`, `todo` to the kinds in the
inbox and `said` to the kinds and statuses in the outbox. `Answers` has what the API
document says: a `start` without its data has a response with status 1, too, which the
code does not keep to (see below). A connection may break (`Break`) over a message that
is being dealt with, but not between messages, and the server may stop (`Stop`).

### TagSpans

A hypothesis is a sequence of tokens with tags, and the tag of the end of
sentence. `Join` chooses any and makes the line `_postproc_out_and_tags` makes;
`MoveToStartOrEnd` and `MoveAfterSpace` are the two passes of
`ne_postprocessing.py` in the order `speech_processor.py:159-160` calls them;
`ne_from_output` is `NE_PATTERN`. A token is one of three kinds by how it begins,
since the patterns look at nothing else: a space and a letter, a letter,
punctuation. `Underscored` are the types the pattern `[A-Z]+` of
`move_tags_to_start_or_end` does not match, like `WORK_OF_ART`.

### NamedEntities

One request with all it depends on (transcript, translation, what the knowledge
graph answers for each, the dictionary) is a constant record, and the state is
what `_postproc` keeps while it works on it.

| action | code |
|---|---|
| `Extract`, `ExtractFails` | `extract_ne` for both texts: ids and translations of every entity; a service that does not answer, a language without stopwords |
| `PairNext`, `PairingEnds` | one turn of the first loop of `extract_nes`: by ids, by translation, by the words of the transcript |
| `AlignByType`, `AlignPerson`, `AlignCardinal`, `AlignFails`, `AlignmentEnds` | one turn of the second loop, by its branches |
| `Finish`, `FinishFails` | terms by `extract_terms` or `extract_terms_from_source`, stopwords removed from both; `load_dict` or a missing stopword list raises |

A text is a sequence of units, so that "is contained in" means what it means in
the code. It comes without its marks (`text`), as the exact match and the terms see it, and
with them (`tagged`), as the fuzzy match does, which does not take them off. What a fuzzy
match prefers is a choice, since its cutoff (0.6 of 100) lets nearly everything through;
whether a term and the words around it pass theirs (`fuzz.WRatio`, 0.8 of 100) comes with
the entry of the dictionary (`alike`). `pairing` is history: by which way each triple came
about and from which entities.

### TwoPhaseGenerator

`buf` stands for the tensors that lose the rows of finished sentences at once
(tokens, scores, tags), `net` for those that lose them at the next reordering
(incremental states, encoder outputs, transcripts, outputs of the first decoder).
A number is abstracted to what it was computed from: the set of sources the
decoder had seen, and the tokens it had read. So a row that goes astray is
seen in the result: a score with the encoder output of another sentence in it, or with
other tokens before it. `Step` is one turn of a loop, `_generate_aux` and
`_generate_tgt` its two instances, `StartTgt` what happens between them, and
`_generate` a third instance: the single search of the models with one decoder, whose
generator (`inference/sequence_generator_tagged.py`) treats its rows in the same way. Which
candidates `topk` returns is a choice among all lists without two ends of one
beam.

`ignorelist` is the variable the code uses for beams that are already finished.
It never becomes true in a reachable state: at most half of the candidates are
ends, so there are always `beam_size` others. `NothingAfterEos` and `NoAssertFails`
rest on that.

`SizesAssumption` lets `max_len` be 0, as the code does, but with more than one beam the model
has no candidates then: the single beam of the first step cannot end more than once, and
what `topk` returns besides has the score minus infinity. The defaults (`min_len` 1, and
`min_len <= max_len` is asserted) exclude it.

### EpochIterators, Checkpoints, LossScaler, Training

Workers run in lockstep, so there is one of each variable, and what a worker reads is
`ShardOf`. The model is its `lineage`, the steps that led to it, each with the
batches of all workers, and the losses it was saved with. A checkpoint keeps the
lineage, so that after a restart it says what the restored model was trained on.

| action | code |
|---|---|
| `LaunchNew`, `LaunchFrom(file)` | `main` up to its loop; without a last checkpoint, from it, or from another file given as `--restore-file` when the last one is torn |
| `BeginEpoch`, `EndTraining` | the head of the loop over epochs and of `train` |
| `TrainStep(outcome, loss)` | `train_step`, `validate_and_save`, and `save_checkpoint` up to the first write. Outcomes: an update, an overflow, out of memory |
| `OpenFile`, `WriteFile` | a file is opened, which makes it `Torn`, then written, from memory or as a copy of the first |
| `RemoveFile` | one old checkpoint is removed |
| `EndSave` | back to the loop, or the end of training |
| `Crash` | anywhere |

The scale is counted in powers of the scale factor. File names are tuples of their
kind and numbers.

## Runs

Runs that must pass:

| run | question | instance and why it is enough |
|---|---|---|
| `session_default` | With the default step and window, does every session get all its audio analysed, whatever went on before it and however the float sum is rounded? | the tick is a quarter of a second: step 6, window 40, chunks of 1 to 3 ticks, sessions of up to 52: past the first window, and past one more step after it. The gap between 36 (the last whole step under the window) and 40 is inside. |
| `st_client` | Does the ST server answer each line once, in order, for any client? | 3 lines and file changes are enough for an answer to be queued, in work and unread together, and for a request to find a dictionary that another one loaded, or failed to load, before the file changed. |
| `fbk_sessions` | Over a faulty ST server, do clients one after the other get what the API promises, from their own session? | 2 connections, 2 sessions, 4 messages each: start, two chunks (one request), end; the first can break off at any point before the second begins. |
| `fbk_any_client` | Does the server keep its pipes in step and every handler running, for clients at the same time that send anything? | 2 connections with 2 messages each of 8 kinds: every pair of handlers in every order, over an ST server with every fault, including during start-up. |
| `tag_spans` | Does every closed span come out as one entity, and a span that begins inside a word as the whole word? | all hypotheses of up to 4 tokens over 2 types: a span, its neighbours on both sides and the end of sentence after them. |
| `named_entities` | Are entities paired one to one, with the best partner there is, and is none given up that its type could tell? | up to 3 entities in the transcript and 2 in the translation over 2 texts and 3 types, with 3 answers of the graph on each side: two entities that want the same partner, the same entity twice, and one left over; some requests with longer texts (a person and a place, with their marks), a dictionary and an unsupported language. |
| `two_phase` | Do rows and sentences stay together when sentences finish at different steps, whichever candidates are found? | 2 sentences of 2 beams with `max_len` 2, and 3 sentences of 1 beam with `max_len` 3, with two searches and with one: any of the sentences can finish first, between or last, early or at `max_len`, and the rows of two removals in a row are corrected. |
| `training` | After a crash at any step and a restart, is training where it was, and are the files there? | 5 batches, 2 epochs, 3 launches, one step without an update per launch, 2 losses; five configurations: the files of whole epochs of which one is kept, a save at every update and the removal of old files, best checkpoints under names of their own, two workers with `update_freq` 1 and then 2, and a limit on updates in the middle of an epoch with patience. A group that is short, a share that is filled up and a restart in the middle of an epoch all occur. Three launches matter: with two, no run goes on from what a restarted run left when it crashed in turn. |

Runs that show a disagreement between the code and what is written about it;
each has a finding in `PROJECT.json` with the quoted text:

| run | what happens |
|---|---|
| `session_end` | `end` sends nothing of the audio that is left. It asks the same question as `chunk`, and nothing has come since; and the reset of `lastSentEndSec` in it assigns a local, so that a session whose first chunk is a step long is measured against the last session's cursor, and all its audio is left |
| `fbk_glossary` | the second session gets the first session's terms |
| `tag_spans_order` | the pass that puts an opening tag before the letters it follows runs before the one that puts it behind a space: "love" and a span " Italy" become the entity "love Italy" |
| `training_divisor` | a worker whose last batch of an update is a dummy sets its whole sample size to zero, though the gradients of its other batches are in the sum that is divided |

Smaller disagreements and limits are in the models and have no run of their own:

- The sum of the audio can jump over the remainder of the window, from under 9 s to
  10 s; the slice then begins at a negative index and is empty, where
  `FBK_API_server.py:146,153` computes the start of a window (`GapFits`, which
  `SlicesCorrect` needs).
- An error line of the ST server closes the connection without a message
  (`ReadReply`), where `websocket_server/README.md:82` has a result with status 1.
  `ApiProtocol` lets a connection break over any message, so `ImplementsApi` does not show it.
- "Ready" is printed over an ST server that did not start (`BootRead`,
  `WarmUpReceive`), where `docker/README.md:86` takes it for the sign to go on.
- A `start` without its data is promised a response with status 1
  (`websocket_server/README.md:45-47`) and is only logged (`ReceiveLogged`,
  `FBK_API_server.py:314`). `ApiProtocol` promises the response, and with `startNoData`
  among the `Kinds` of `fbk_any_client` TLC finds `ImplementsApi` violated. The run, and the
  theorem `PromiseKept`, are about clients that do not send it.
- A gloss with an empty target makes every request of its session fail: `load_dict`
  splits a line that has lost its tab.
- The ST server answers the end of its stdin, again and again, until its stdout
  breaks (`ReadEof`).
- Numbers that are aligned by their type are appended with their sides swapped
  (`AlignCardinal`, `st_triangle_ne_processor.py:210`), where
  `websocket_server/README.md:86` has `<src, tgt, type>`.
- The fuzzy match of persons is given the transcript with its marks (`AlignPerson`,
  `st_triangle_ne_processor.py:198`), which the exact match takes off (line 132): the source
  of a triple can be `<PERSON>Ada` where the name is `Ada`.
- Alignment by type takes nothing from the list, so that two entities of the
  translation may share one of the transcript.
- An alternative of the dictionary that is empty (`a<tab>,b`) is in every text, and becomes a
  term with an empty target; so would an empty translation of the knowledge graph
  (`NothingEmpty`, which `TypeCorrect` of `NamedEntities_proofs` needs).
- There are no stopwords for Italian and German: a request with an entity or a term
  fails (`Supported`, `PairsSupported`), though `api/README.md:28` uses the language.
- `max_update` is looked at after an update only: a finished run that is started
  again makes one more (`Limited`), where `configs.py:446` has "force stop training
  at specified update".
- `torch_persistent_save` logs a failed write and returns (`Written`): with
  `WriteFails` the torn file is copied over the others, and `SomeCheckpointIsWhole` does
  not hold.
- Whether batches were fixed to their workers is not saved (`load_state_dict`): with
  `fix_batches_to_gpus` a restart in the middle of an epoch reads another order, and
  `EachBatchOnce` does not hold.
- Patience and the counters of the loss scaler begin anew at a restart.
- Files are overwritten in place (`OpenFile`), so two crashes can leave no file that can be
  read: the first file a save opens may be the one training went on from. With the files of
  epochs this cannot happen (`SavesEpochs`, `OneStaysWhole`).

That two clients at the same time mix their audio is no disagreement:
`websocket_server/README.md:110` says the server takes one request at a time. Nothing
enforces it, so `fbk_any_client` has clients that overlap, and checks of them what must hold
all the same; `fbk_sessions` states ownership for clients one after the other.

`PROJECT.json` also names, for every property of a passing run, a mutant of a
mapped definition (an operator marked "Bug:" in the module) that violates it.

### Properties that say most

- `CaughtUp`: between messages the cursor is at the last whole step of *this*
  session, although nothing ever resets it: the first short chunk does.
- `NoGap`: the sliding windows cover every instant.
- `PipesInStep`: exactly one line is under way when somebody waits and none when
  nobody does, through dying handlers, leaving clients and a failed warm-up.
- `ResultsAreOwn`, `FilesAreOwn`: shared globals and files carry nothing from one
  session into the next session's results (the glossary's content excepted).
- `MessagesAreHandled`: no handler waits for ever, whatever the ST server does.
- `ImplementsApi`: the refinement of `ApiProtocol`.
- `NoSpanIsLost`: the passes move tags over letters and spaces, and never one over
  another. `InnerSpansAreWords` leaves out types with an underscore, which the
  pass does not move, and spans that begin with a word, where the order of the
  passes matters (`tag_spans_order`).
- `NothingOverlooked`: although the list shrinks from turn to turn, the partner that was
  taken had more ids in common than any that is left, and what was not paired has no
  partner by ids, translation or words anywhere.
- `NoneIsForgotten`: the two loops share a list by places, and a branch of the second stands before
  the others: an entity without a triple was not skipped between them.
- `HypothesesAreOwn`: the correction of stale row indices, twice in a row and over
  both searches, never mixes sentences, transcripts or beams.
- `EachBatchOnce`, `EpochEndsAgree`: a position saved in batches and restored in
  groups is the same position, on every worker.
- `SomeCheckpointIsWhole`: the order of opening, copying and removing leaves a
  file to restart from at every point of a save. Its exception is that of the code: where
  files other than those of epochs are saved (`~ SavesEpochs`: within epochs, at `max_update`,
  or only the best and the last one), crashes in two saves can tear every file.
- `BestIsBest`: over restarts, early and late files, and steps without an update. It
  needs the order of the files, the best one before the last one, and so makes an
  exception for who goes on from another file: when a crash has torn the last
  checkpoint, and another one leaves an epoch's file written and the best one not yet,
  a launch from that file knows a best loss that no best checkpoint has.

### Fairness

`WF(StServe)`: the ST server is a process that runs, and the model and the
knowledge graph service return or fail. The code gives the HTTP call no timeout,
so a service that accepts and never answers is outside this assumption, and
there the property would not hold. `WF(StartServer)` and `WF(externalLoop(c))`
for each connection: the event loop gives every ready coroutine its turn. Nothing
is assumed of clients, faults or file changes. `StClient` assumes that the client
reads what it is sent as long as it lives: without that a full pipe would stop
the server.

### Deadlock

Runs of `FBKServer` and `StClient` switch TLC's deadlock check off: once the
process has exited, or the bound of messages is used up, the system really
stops. So do those of `TwoPhaseGenerator` and `NamedEntities`, which return, and of
`Training`, which ends when its launches are used up. That nothing stops too early is what `MessagesAreHandled`,
`EveryLineAnswered` and `NoOrphan` say.

## Theorems

They hold for every value of the constants, under the assumptions that the modules state
of them with `ASSUME` (TLC evaluates these on every run). Most of those give a constant its
type. Four say that a mark is not taken for the data it stands beside: no file is no
audio (`AbsentAssumption` of `FBKServer`), a broken dictionary is not a missing one
(`MarksAssumption` of `StClient`), `None` is no iterator (`NoneAssumption` of
`EpochIterators`), and the mark for no path is not the name of a file (`PathsAssumption` of
`StClient`; in `FBKServer` that is computed).
The column "assumes" has what a theorem needs besides.

| module | theorem | states | assumes |
|---|---|---|---|
| `AudioSession_proofs` | `TypeCorrect` | `TypeOK` | nothing |
| | `CursorCorrect` | `CaughtUp` | `ShortChunks` |
| | `EndMakesNoRequest` | no handler is ever inside the request of `end` | nothing |
| | `SlicesCorrect` | `RequestWellFormed` | `ShortChunks`, `GapFits` |
| | `RequestsAreNew` | `EachRequestIsNew` (an action property) | `ShortChunks`, `GapFits` |
| | `NothingIsLeftOut` | `NoGap` | also `WindowsMeet`, and an ST server that does not die (`"eof"`) |
| `StClient_proofs` | `LinesStayInOrder` | `LineInv`, the inductive invariant | nothing |
| | `TypeCorrect` | `TypeOK` | nothing |
| | `AnswersStayInOrder` | `AnswersMatchLines` | nothing |
| `FBKServer_proofs` | `AlwaysInStep` | `StepInv`, the inductive invariant | nothing |
| | `TypeCorrect` | `TypeOK` | nothing |
| | `PipesStayInStep` | `PipesInStep` | nothing |
| | `PromiseKept` | `ImplementsApi` (the refinement) | `"startNoData" \notin Kinds` |
| | `ResultsOfTheSession` | `ResultsAreOwn` | `~ Overlap` |
| | `FilesOfTheRequest` | `FilesAreOwn` | `~ Overlap` |
| `Training_proofs` | `UpdatesCorrect` | `UpdatesAreCounted` | nothing |
| | `TypeCorrect` | `TypeOK` | nothing |
| | `EndsAgree` | `EpochEndsAgree` | nothing |
| | `BatchesComeOnce` | `EachBatchOnce` | `NeverFixed` |
| | `BestStaysBest` | `BestIsBest` | nothing |
| | `EpochStaysSaved` | `EpochIsSaved` | `~ WriteFails` |
| | `OneStaysWhole` | `SomeCheckpointIsWhole` | `~ WriteFails`; `SavesEpochs` or `Validates` |
| | `GrowthIsEarned` | `GrowsAfterWindow` (an action property) | nothing |
| `NamedEntities_proofs` | `PairedOnce` | `NoEntityTwice` | nothing |
| | `NoneGoesAstray` | `NothingIsLost` | nothing |
| | `NoneIsOverlooked` | `NothingOverlooked` | nothing |
| | `NoneIsLeftOut` | `NoneIsForgotten` | nothing |
| | `TypeCorrect` | `TypeOK` | `NothingEmpty` of every request |
| `TagSpans_proofs` | `NoSpanLost` | `NoSpanIsLost` | nothing |
| | `InnerSpansBecomeWords` | `InnerSpansAreWords` | nothing |
| | `TypeCorrect` | `TypeOK` | nothing |
| `TwoPhaseGenerator_proofs` | `GeneratorInvHolds` | `GeneratorInv`, the inductive invariant | nothing |
| | `GeneratorTypeOK` | `TypeOK` | nothing |
| | `OwnHypotheses` | `HypothesesAreOwn` | nothing |
| | `DifferentHypotheses` | `HypothesesDiffer` | nothing |
| | `EosIsLast` | `NothingAfterEos` | nothing |
| | `SearchesFindEnough` | `EnoughHypotheses` | nothing |
| | `NoAssertionFails` | `NoAssertFails` | nothing |

The assumptions of this column are on what clients send, but for those of `Training` and of
`NamedEntities`. `~ WriteFails`: a file that cannot be
written is only logged by `torch_persistent_save`, and the epoch is then nowhere. `SavesEpochs`
or `Validates`: every configuration saves only at the ends of epochs, or validates at each of
them, which is the default of the options. `NeverFixed`: the data set does not prefetch, or no
configuration has `fix_batches_to_gpus`, which is off by default; a checkpoint does not say that
shares were shuffled one by one, and a restart within such an epoch reads another order. `ShortChunks`: every chunk is
shorter than a step; without it a first chunk meets the old cursor (`session_end`).
`"startNoData" \notin Kinds`: no client sends a `start` without its data; the API promises it
a response and the code has none, so the refinement does not hold with it.
`NothingEmpty`: the knowledge
graph gives no empty translation and the dictionary has no empty alternative (see the smaller
disagreements). `GapFits`: no chunk jumps over the remainder of the window; without it a slice
begins before the buffer and is empty. `WindowsMeet`: a chunk and a
step fit in a window. `~ Overlap`: clients come one after the other, as
`websocket_server/README.md:110` asks.

### The audio

`TypeOK` is strengthened to `TypeInv`, which relates the counters and bounds the
request's slice, so that it is inductive. `CaughtUp` is not inductive alone: while a handler
waits, the cursor must already be where the chunk took it, and between sessions
it may be anything; `CursorInv` says both. `SliceInv` adds the slice of the
request under way in terms of the sum and the cursor. `HeardInv` adds that what
was heard never reaches beyond the cursor (before it, while a request is under
way), from which a request's last step is new. `GapInv` is `SliceInv` with
`NoGap`: by `WindowsMeet` a new window begins no later than what was heard ends.
`EndMakesNoRequest` needs none of this: `CheckedInv` says that the decision function, asked
again about the same audio, has nothing to send, and that is true of every cursor it
leaves, short chunks or not (`AudioWindow_proofs`). So the audio after the last step
is lost whatever the client does: `session_end` shows it for one instance, the theorem says
that no choice of step and window changes it.

### The ST server's lines

`LineInv` has the types of the lines (`LineTypes`, `FileTypes`), that the cache holds nothing
no client wrote (`NothingInvented`), and two facts the property needs. `LinesInOrder`: what was
answered, what is in work and what is unread are, in this order, what was
written, so that a line's place is that of its answer. `AnswersFit`: an answer with
terms was made with what is loaded *now* under its line's path, and what is loaded is whole. It is
inductive because `load_dict` replaces nothing it has loaded, which is also why a file that
changes goes unnoticed (`fbk_glossary`).

### The WebSocket server

`StepInv` is proved first and is used by everything else. `PipesInStep` alone counts lines; that
the count stays right needs who waits (`HandlersInStep`: a handler inside `readline` has its
own message at the head of its inbox, and is alone), what was written before the banner
(`BootInStep`), that a dead ST server leaves no line to be taken for the next
answer (`NothingLeftOver`), and that `end` never makes a request (`AudioChecked`, by the same
lemma as `EndMakesNoRequest`).

`PromiseKept` maps each handler to the answer of `ApiProtocol` it gives, or to a stutter,
and both initial states. A `start` without its data has no answer to be mapped to: that is the one
message the theorem leaves out. It is the safety part of the API: `ApiProtocol` states no fairness,
that answers do come is `MessagesAreHandled`.

For ownership `OwnInv` follows a session number through everything that outlives a session: with
`~ Overlap` one connection at most is live, and its messages, the audio buffer, the languages,
the WAV file, the request on its way, the line in work and the answer all have the session's
number, or nothing was said in it yet and they are not used. A handler that dies leaves all of it
behind, and what is left is what `start` overwrites before a chunk may be sent.

### Training

A restart takes everything from one file, so each invariant says of every readable file what it
says of memory. `CountInv` does it for the number of updates; copies are why it
needs `SourceIsThere`.

`AlignInv`, for `EpochEndsAgree`: every saved position is the end of a group of the size set for its epoch
(`Resumable`), so that the groups counted from there, rounded up, end where the share
does. `FilesAligned` says it of the files, `EpochAligned` and `GroupsAligned` of the iterators
between epochs and within one. The rounding (`CeilDiv` of what is left, of a multiple, of a
remainder) is in lemmas about natural numbers.

`OnceInv`, for `EachBatchOnce`, says which batches the steps of memory and of every file have had
(`Trained`): all of the epochs before, and of this epoch those before the saved position, in the
order of all workers together. That order is a permutation for every seed
(`OrderPermutes`), and a group takes the next places of it, the fill value of a short share left
out (`GroupReads`); so what is read is disjoint from what was (`ReadOn`). The position counts batches of a worker's share, at whose end
no batch of any worker is left (`ShareIsAll`), so the end of an epoch is the beginning of the next
one, which is how it is saved.

`TypeInv` types the process, memory and every readable file (`ProcessTypes`, `MemoryTypes`,
`ContentsTyped`), with what relates the counters of the loss scaler.

`BestInv`, for `BestIsBest`: the best loss that is known bounds the model's losses, in memory and in files
(`BestKnown`); the best checkpoint is as good as what the last one knows (`LastCovered`), because
the last one is written after it (`InOrder`); memory comes from the last checkpoint if that is
whole (`FromLast`) and is covered by the best one, or the best one is still to be written and is then
better (`BestCovered`, `BestPending`); and what is copied is what is in memory, or torn (`CopiesAreOwn`).
With `WriteFails` a copy of a torn file is torn, and nothing is claimed of it.

`SavedInv`, for `EpochIsSaved`: at the end of an epoch its file is the first one of the save (`SavePending`) and,
once written, stays until the last one is. The removal that follows lists the whole directory,
in which a run that had got further may have left files of later epochs. That it never takes the
newest ones is `NewestAreKept`: the last epoch of those to be removed has `keep_last_epochs` later files,
none of which is to be removed. The removals come one by one, with a crash between any two, so the
invariant counts what stays (`OldCounted`), not what is there.

`RecoveryInv`, for `SomeCheckpointIsWhole`: what a whole file of an epoch holds is the end of that epoch
(`EpochsOwn`), so a run that goes on from it opens the next epoch's file first, and never the one it
came from. Of the files of a save under way one is whole, or one is left from before
(`OneIsLeft`, `SavingEpoch`). In a configuration that is not of this kind, but validates, the best checkpoint is there
whenever the last one is and is never removed (`BestIsThere`); so if nothing is whole, two files are torn.

`ScalerCounts`, for `GrowsAfterWindow`: the scaler's two counters differ by one more than the updates since the last
overflow, or since the launch, because they are not restored from a checkpoint. So a window
may be longer than it must be, and is never shorter.

### The pairing

`NoEntityTwice` holds for every request, every answer of the knowledge graph and every list of
stopwords. The property alone is not inductive: `PairingInv` adds that the first loop has paired or
postponed only entities before `next`, and never both (`PairedBefore`), that nothing
is postponed twice, and that the second loop has yet to pair what it has still to
align (`StillToAlign`).

`ResultInv` is for `NothingIsLost` and `NothingOverlooked`. `EntitiesFound` says what is extracted: texts that are in their text,
finite sets of ids, and no `None` among the translations. `AllThere` is `NothingIsLost`; `RemovedOnce` is the lemma on
`list.remove` it needs, that the first of its kind goes and every other stays as often as it was.
`BestChosen` and `NothingFits` say of every moment what `NothingOverlooked` says of the end, since what is left
of the transcript only shrinks; that a best one exists is `MostInCommon`.

`SeenInv` is for `NoneIsForgotten`. `FirstLoop`: an entity before `next` has a triple or is postponed.
`SecondLoop`: one that is postponed and before `next` has a triple, or its type was not that of exactly
one entity left of the transcript. That stays so because the second loop takes nothing from them, and because the branch
by type stands before those that may find nothing.

`TypeInv` is for `TypeOK`, which says more than types: no side of a triple or term is empty. It
counts what is postponed (`Counted`) and says of every entity that its text and translations have
words (`EntityTyped`). The rest are lemmas on the folds over stopwords and dictionary
(`CleanedText`, `TermsFound`). They need induction over data, which the library's theorems
do not give (they take an operator); `FoldStays` and `FoldExists` make it by hand, from the least
number of places for which a fold is not right.

### The tags

`NoSpanIsLost` is about the text that is returned; `LineOK` says of the line after every pass what
makes it true. Every closed span is enclosed by its marks, with no mark between them and all its text
(`Encloses`), every closing mark belongs to such a span, and each token's text stands once in the line. From that it
follows that the entities are the spans, because two pairs of marks with a character in common
are the same pair (`SpansAreEntities`).

- *Joined.* `Flattened` gives every token's marks and characters their places in the line, and
  `PieceOK` says what they are. A span's opening mark is the last one of its first token's, its closing mark the
  first one behind its last token (`SpanIsEnclosed`); a closing mark stands behind the least token
  from which on the tags are the same (`ClosedIsSpan`).
- *Moved.* A pass sorts the items by places (`RearrangedSorts`). It loses nothing if it is
  `Careful`: marks keep their order, no opening mark goes behind text that follows it, and no closing mark
  before text that precedes it (`LineStaysOK`). Each pass is: a mark goes over items of one kind,
  letters or spaces, so it passes no other mark; opening marks go back over letters or on over spaces, and closing ones
  only on.

`InnerSpansAreWords` needs to know where a span's words are after each step. `WordInv` says it, for
every span that begins inside a word, has its words alone and is of a type without an underscore (`Inner`);
TLC found it to hold on the sizes of `TagSpans.cfg` before it was proved.

- *Joined* (`WordAround`): the letters between the marks are of the span's words; those before the
  opening mark are if nothing but letters is between, and so are those behind the closing one; and no tag
  opens where the letters behind the closing mark end. This is where `Alone` is used: a token of a touched word that
  the span does not have is untagged (`TouchedUntagged`), or else its span would touch the word
  too, so no mark is among the letters (`JoinedAround`). The last part is the condition that no span, nor the end of
  sentence, begins right behind a word the span touches.
- *After the opening marks have moved* (`WordBehind`): no letter of the words is before the opening mark. No
  mark has come among the letters behind the closing one, because the only marks that move there
  would be those the last part of `WordAround` excludes (`WordStarts`).
- *After the closing marks have moved* (`WordWithin`): a letter is between the marks exactly if it is of the
  words (`WordEnds`). Moving opening marks over spaces changes nothing about that (`WordStays`).

Every token that has letters keeps one in the line (`LettersThere`), so the letters of the
entity are the whole words and not some of their tokens. `StripShifts` and `StripWord` are about the space the
detokenizer strips.

### The generator

`GeneratorInv` is one invariant for all properties; TLC found it to hold on the sizes of `TwoPhase.cfg`
before it was proved. It has no assumption on the candidates but that `topk` returns no end of a
beam twice.

- `RowRight`, for `HypothesesAreOwn`: with the rows as they will be once reordered (`Reordered`), row r of
  the encoder outputs, transcripts, caches and outputs, and row r of tokens, scores and
  tags, are of one sentence: the one that has the place of the row among the unfinished
  ones. The property alone says nothing of rows, and a row that had gone astray would
  show only when it ends. A step moves places twice. `batch_idxs` removes those of the
  finished sentences; that it lists the others in their order, so that the n-th of them is the n-th
  unfinished sentence afterwards, is a lemma about `Ascending`. At the next step `Corrected` undoes
  the numbering: the old row of a new one, in tensors that still have the rows of what
  was removed, is the row the candidate came from.
- `RowsDiffer` and the length of hypotheses, for `HypothesesDiffer`: two rows of a sentence differ in
  tokens or transcript, because two candidates of one beam get different tokens; and what
  ended in an earlier step is shorter than what ends now.
- `ignorelist` is never true, and at most `beam_size` of the `2 * beam_size` candidates end,
  since none of the beams ends twice. So `active_hypos` takes only candidates that do not end, which is `NothingAfterEos`,
  and there are enough of them, the first assertion of `NoAssertFails`.
- At `max_len` all of the best `beam_size` candidates end, each with a beam of its own. So every
  unfinished sentence has as many hypotheses as beams then (`EnoughHypotheses`), and the search does
  not go on: the other assertion.

## Only model-checked

- Liveness (`MessagesAreHandled`, `EveryLineAnswered`, `NoOrphan`), which this prover cannot reach.
- `SomeCheckpointIsWhole` where neither assumption of `OneStaysWhole` holds: such a
  configuration may save only the last checkpoint, which one crash tears.
- `EpochIsSaved` and `SomeCheckpointIsWhole` when writes may fail: they are then false.

## Not modelled

- Most of the toolkit, and with it most of the repository's lines: networks, losses,
  optimizers, features, data sets, dictionaries and the recipes in `examples/`. It
  computes with tensors and floating point and keeps no control state; a model of it
  would either leave out what it does or copy it. The modules cover the
  service and the control of training, not a large share of the lines.
- The buffered iterator with its background thread, and the streaming one: the
  position that is saved is counted behind the buffer.
- In training: the reset options, `no_last_checkpoints`, maximized metrics,
  `stop_time_hours`, learning rate schedules, out of memory on one of several workers,
  and the threshold of the loss scale.
- In the generator: prefix tokens, repeated n-grams and `match_source_len`.
- The condition on shuffling: `train.py:194` shuffles an epoch if it is beyond `dataset.curriculum`, whose
  default is 0; `BeginEpoch` always shuffles.
- In the pairing: the conversion of numerals, and the few texts `extract_ne` names;
  the choice a fuzzy match makes among what its cutoff lets through.
- The docker launcher: it composes one command line.
- Arguments, certificates and the audio header: no state after start-up.
- The capacity of pipes. A request and its answer fit a pipe's buffer. The log on
  stderr does not when `PRINT_STDERR` makes it a pipe nobody reads
  (`CMD.start_stServer.sh:84-95`): then both processes stop for ever once it is full.
- Sharing of two servers' files: names carry the process id.

## Plan

1. (done) `AudioWindow`, `AudioSession` and its proofs; `StServer`, `StClient`;
   `ApiProtocol`, `FBKServer`; `TagSpans`.
2. (done) `NamedEntities`, with the terms of the dictionary.
3. (done) `EpochIterators`, `Checkpoints`, `LossScaler`, `Training`.
4. (done) `TwoPhaseGenerator`.
5. Proofs. Done: all safety properties of `AudioSession`, `StClient` and `FBKServer`, the
   refinement included; all of `Training` and of `TwoPhaseGenerator`, under the assumptions named;
   all of `NamedEntities` and of `TagSpans`. What is left are the properties under
   "Only model-checked".

The runs are kept few: a later module brings one or two, and a run that
another one comes to cover is dropped.
