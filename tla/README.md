# TLA+ specifications of whisper.cpp, parakeet-cpp and tts-cpp

This directory models the stateful core of three libraries:

* speech recognition in `src/src/whisper.cpp`: how a call of `whisper_full` walks
  through the audio, decodes each window with several decoders on one shared KV
  cache, and turns the result into segments; how voice activity detection cuts
  the audio and maps times back; how threads are used inside an attempt and across
  chunks of audio;
* the live sessions of `src/parakeet-cpp`: transcription and diarization of audio
  that arrives in blocks;
* the `chatterbox` engine of `src/tts-cpp`: the process-wide model cache and
  streaming synthesis.

Every definition is translated from the source; `PROJECT.json` gives the lines
(`map`), the runs, the mutants, the hazards and the findings.

## 1. Inventory

| Component | State | Operations | What makes it correct |
|---|---|---|---|
| KV cache (`whisper_kv_cache`) | cells with position and owner sequences, `head`, `n` | `find_slot`, `seq_rm`, `seq_cp`, `clear`, `cell_max` | a slot is found whenever there is one; a row sees exactly the cells of its own history |
| Decoding attempt | decoders, sequences, batch, logits, cache | prompt, share, sample, hand-over of cells, batch, failure | the scores a decoder samples from are those of its own sequence; cells are neither leaked nor exhausted |
| Decoder threads | atomic counter, threads | spawn, draw, process, join | each unfinished decoder is processed once, by one thread |
| Logit filters, decoder update | tokens, `result_len`, `seek_delta`, `has_ts`, flags | `whisper_process_logits`, update loop | the bookkeeping agrees with the tokens; a token is always possible |
| `whisper_full_with_state` | `seek`, temperatures, prompt context, results | window, attempt, token, rank, emit, slide | progress, order of segments, every segment announced, prompts within the context |
| VAD | scan marks, segments, mapping table | scan, merge, pad, copy, map | speech is kept, the copy fits, times map back |
| `whisper_full_parallel` | worker states, results | spawn, transcribe, join, combine | nothing lost, right times, results of this call |
| Language detection | cache, logits of decoder 0 | one decode over what is left in the cache | finds a cell, sees only its own token |
| Mel, encoder, DTW, token timestamps | tensors | numeric | not modelled |
| Grammar, tokenizer, model loading | stacks, vocabulary, weights | parsing | not modelled |
| Context and state life cycle | buffers, backends | init, free | not modelled |
| Live transcription (`StreamSession`) | history, pending audio, counters, energy VAD | feed, finalize, cancel | the segments tile the audio, every frame is decoded once, also after failures |
| Live diarization (`SortformerStreamSession`) | ring, previous segments, speaker cache | feed, finalize, cancel | nothing is lost, speakers keep their names, cached rows keep their predictions |
| S3Gen model cache | entry, count, shared and thread-local caches | preload, get, release, unload | caches belong to the model in use; a model in use is not freed |
| Streaming synthesis (`chatterbox::Engine`) | tokens, boundaries, frames emitted, cancel flag | synthesize, cancel | the audio is gapless and complete; a cancel stops it |
| Other engines of `parakeet-cpp` and `tts-cpp` | | one-shot calls | not modelled |
| ggml, Core ML, OpenVINO, bindings, examples | | | vendored code, wrappers and callers: not modelled |

How they interact. The caller's thread runs `whisper_full_with_state`; for each
window it runs the encoder and then attempts at rising temperatures. An attempt
uses the shared cache through `whisper_decode_internal` (which calls `find_slot`)
and `seq_rm`/`seq_cp`; twice per token it starts a pool of threads that share the
decoders. The user's callbacks are called from it (new segment, progress, encoder
begin, abort). `whisper_full` puts VAD in front; `whisper_full_parallel` runs
several of these calls, each with a state of its own. A state outlives a call:
the prompt context, the cache and the results remain.

A `StreamSession` or a `SortformerStreamSession` belongs to one caller, who feeds
blocks and finalizes; callbacks run inside these calls, `cancel()` may come from
elsewhere. `chatterbox::Engine` objects are independent of each other except for the
S3Gen model, which all of them share through process-wide globals: a constructor
preloads it, `synthesize` runs on it, a destructor gives it back.

Hard behaviours: hand-over of cells in beam search, fragmentation of the cache,
failure in the middle of an attempt, state that survives attempts, windows and
calls, thread pools, rounding between samples and centiseconds, limits that are
enforced at two places; failures and cancels in the middle of a session; identity
of speakers that is carried from window to window; caches whose keys do not name
what they were built from. The list with lines is `hazards` in `PROJECT.json`.

## 2. Modules

| Module | Models | Notes |
|---|---|---|
| `FindSlot` | `whisper_kv_cache_find_slot` | one step per turn of the loop; actions `Reject`, `Wrap`, `Skip`, `Take` |
| `KVCache` | the cache as a record, its operations as operators | `kv[x]` is the token history that the K/V rows of cell x encode, `Garbled` if they were computed over other cells than those of one history |
| `BeamDecode` | an attempt of `whisper_full_with_state` on that cache, language detection, failures | extends `KVCache`; one action per loop body; the two loops that move cells (`Stage`, `Land`) take one step per decoder |
| `PrivateKV` | abstract: every decoder has a cache of its own; a beam step copies the caches of all running decoders at once | implemented by `BeamDecode` |
| `DecoderThreads` | the thread pools of an attempt | one step per atomic access and per decoder processed; its names are distinct from those of `FullParallel`, so that one module can extend both |
| `DecoderRules` | filters of `whisper_process_logits`, update of a decoder | operators, used by `WhisperFull` |
| `WhisperFull` | `whisper_full_with_state` over windows and calls | scores are nondeterministic |
| `VadSegments` | `whisper_vad_segments_from_probs`, `whisper_vad`, `map_processed_to_original_time` | |
| `FullParallel` | `whisper_full_parallel` | the transcription of a chunk is a thread that adds segments and ends |
| `StreamSession` | `parakeet::StreamSession`, `EnergyVad` | a sample is its position in the audio |
| `SpeakerCache` | the speaker cache of Sortformer (AOSC): `streaming_update`, `compress_speaker_cache` | operators; a prediction is the row it was made for |
| `SortformerSession` | `parakeet::SortformerStreamSession`, `compute_slot_remap_` | extends `SpeakerCache` |
| `S3genCache` | the S3Gen model cache and the caches above it, the engines that use it | a model is the number of its load, with an address that can be reused |
| `TtsStream` | `Engine::synthesize` with a callback, `cancel()` | audio is counted in mel frames |
| `MCBeamDecode`, `MCWhisperFull`, `MCStreamSession`, `MCSortformerSession`, `MCS3genCache` | symmetry and parameter sets for TLC | |
| `WhisperFullProofs`, `VadProofs`, `StreamSessionProofs`, `SortformerProofs`, `S3genCacheProofs`, `TtsStreamProofs` | theorems | each extends the module it is about |
| `BeamDecodeProofs` | theorems about `BeamDecode` and `FindSlot` | the search, and the cache that uses its result; the names of `FindSlot` begin with `Search` so that one module can extend both |
| `ForkJoinProofs` | theorems about `FullParallel` and `DecoderThreads` | the two places where threads are started and joined |

State and code.

* `FindSlot`: `occ` is the set of cells with `pos >= 0`, `n_tested`, `head` and
  `n_tokens` are the code's. The inner loop up to the first occupied cell is
  `FirstOccupied`.
* `KVCache` uses the result of the search (`SlotAt`): first free run at or after
  the head, else first from 0. That this is what the loop does is a theorem, `SearchMeetsCache`.
  The attention mask (`Visible`) decides what a row's K/V depend on; `kv_self.n` is
  `cell_max` rounded up, which only adds cells the mask hides.
* `BeamDecode`: `toks`, `done`, `from`, `logits` are functions of the decoder.
  In terms of `PrivateKV`, sampling is `Choose`; the first of the two loops changes no
  private cache, its last step is `Copy`; the second loop changes none either; a decoded
  batch is `Grow`.
  `logits[j]` is the history decoder j's scores come from. Candidates are ranked in
  any order that the sort can produce; the skip over equal sequences and the
  wrap-around of `cur_c` are in `NextPick`.
* `DecoderThreads`: `j_cur` is the counter, `st` the program counter of a thread,
  `runs` how often a decoder was processed. `fetch_add` is one step, the work on a
  decoder another.
* `WhisperFull`: `p` is the parameter record of the call. Temperatures are in
  tenths, the context is kept as token counts, `low`, `repeats` and `nosp` stand
  for the comparisons of avg_logprobs, entropy and no_speech_prob with their
  thresholds. A segment is named by the place in the tokens where it ends
  (`SegEnds`), one past the last token for the final one. After a window, variables
  nobody reads any more are reset. Scope: `tdrz_enable` is FALSE, and a call that falls
  back begins at a temperature of at most 1.0 (above it, the list of temperatures is
  empty, no attempt is made and what decoder 0 held is output: whisper.cpp:6953).
* `VadSegments`: a probability is `high`, `low` or `mid` with respect to the two
  thresholds; lengths are in samples and the rounding to centiseconds is that of
  the code.
* `FullParallel`: `Int32` and `Quot` are the wrap-around and the truncating
  division of `int`. An overflow is undefined in C++: both the folded and the
  wrapped result are possible. Scope: the offset lies within the audio, which the code
  does not check, and is below 134 s.
* `StreamSession`: `pc` says where the running call is; each turn of the loop in
  `try_emit_chunks` is a test (`EmitTest`) and a body (`EmitWindow`), so that a
  cancel can come between them. A segment records which stretch of audio its frames
  cover (`lo`, `hi`) besides the times it reports.
* `SortformerSession`: time is counted in encoder frames. Without the cache the
  model is perfect up to the names of the speakers, which it chooses anew in each
  window (`slot`), and the padding row at the end of a window is silent; with the
  cache who speaks is left out and the rows are followed instead. `committed` and
  `window` record what was processed. As in the code, the rows of a left context are cut
  off the first window too, which has none (section 5).
* `S3genCache`: `pc[e]` is what engine e is doing. `graphs`, `memo` and `mirror` stand
  for the caches keyed by shape, by time and by tensor address, `scratch` for the
  thread-local graph. `overlaps` says which calls the host makes at the same time
  (`HostMay`): a call of one kind ("manage" is a constructor or a destructor, "synth" a
  synthesis) begins beside calls of another only if the two kinds are in it. It is chosen
  from `Hosts` at the start and kept. `OneCallHost` makes one call at a time,
  `OneManagerHost` constructs and destroys one engine at a time and may synthesise
  whenever it likes. Nothing in the library enforces any of this, and no text asks a
  host to construct and destroy engines one at a time: the properties say which host
  they are about, and section 5 what happens with another one. `ref` and
  `taken` are history variables: the model each engine has a reference to, and whether
  an engine without a reference has given one back.
* `TtsStream`: T3 may stop after any token; `generated` says which tokens are in
  S3Gen's vocabulary. The error of a prefix with too few frames, which the code
  reports after the CFM loop, is taken at `Encode`: nothing observable lies between.

## 3. Runs

Passing runs (TLC, about two minutes on two cores for the longest):

| Run | Bounds | Shows |
|---|---|---|
| `find_slot` | 6 cells, batches of 1 to 7, every occupancy and head | search ends, first fit, no false "full" |
| `beam_cache` | 1 to 3 decoders, prompt 1, 2 tokens, beam of 2, vocabulary 2 (symmetric) | refinement of `PrivateKV`, logits, no leak, room |
| `decoder_threads` | 4 decoders, 3 threads, every set of finished decoders | exclusive, exactly once, ends |
| `full_windows` | two calls, window of 4 frames, 6 frames of audio; greedy with two temperatures and best of 2, beam of 2, max_tokens, prompts carried or not, text context of 14 | order, progress, return, decoder bookkeeping, a token left, prompt within the context |
| `vad_segments` | every sequence of up to 9 probabilities | order, speech kept, copy fits, mapping |
| `parallel` | 2 and 3 processors, 2 sizes, 2 offsets, 2 calls, 2 segments per chunk | coverage, nothing lost, times |
| `stream_session` | frames of 2 samples, 13 samples in blocks of 1, 3 and 5, four sets of options, one failure | buffers, tiling, frames, voice events, return |
| `diar_session` | 2 speakers, 5 frames without and 9 with the cache, cache of 4 rows, queue of 2, one failure | ring, windows, names, cached rows |
| `s3gen_cache` | 2 engines, 2 models, 2 threads, 2 loads, 2 addresses (symmetric), 2 hosts: one call at a time; syntheses at any time and one constructor or destructor at a time | caches current, the last destructor frees, references keep their models |
| `tts_stream` | 11 steps of T3, chunks of 1, 4, 7, 24, first chunks of 0, 2, 5, one token outside the vocabulary | audio gapless and complete, cancel |

Why the bounds are enough to be interesting: in `find_slot` the batch sizes
include 1, the size of the cache and more than it, so that reject, wrap, exact
fit and give-up happen. In the beam runs decoders permute, one is duplicated
while another is dropped, decoders retire at different times, and attempts
follow each other with fewer and more decoders and with language detection
between them, so leftovers are met. In the `WhisperFull` runs the audio is longer
than one window, both thresholds can go either way, and a decoder can fail, be
empty or end with a single timestamp. In `vad_segments` nine windows are enough
for a forced cut with and without a remembered silence, a merge and shared
padding; the last segment is longer than a window, so that every segment starts in the
audio, as `CopyFits` asks (section 5 for shorter ones). In `stream_session` blocks are shorter than, equal to and longer than a
chunk, contexts are and are not multiples of a chunk and of a frame, and the tail is
shorter than the look-ahead. In `diar_session` the names of two windows can be
swapped, the history forgets a speaker, and nine frames overflow the queue and the
store several times, so that a compressed store is compressed again. In
`s3gen_cache` an address is reused by another model, a preload can fail and its
engine still unload, the model can be swapped, and an engine is destroyed, or
constructed with another model, at every point of the other's synthesis. In `tts_stream` the tail is merged
and not merged, the first chunk is smaller and larger than the others and than the
utterance, and an utterance follows one that was cancelled. `CHECK_DEADLOCK FALSE` is given where the system may stop: after the last
call allowed by `MaxCalls`, or when the modelled function has returned.

Violated by the code, each with a finding that quotes the text it contradicts:

* `stale_best` (`OutputIsCurrent`): `best_decoder_id` survives from one temperature
  to the next. If every decoder of a hotter attempt fails, the sequence of a
  decoder that this attempt did not use is emitted.
* `diar_tail` (`TailDiarized`): with the speaker cache, the right context is cut off
  also from the tail chunk of `finalize()`, which has none: a tail shorter than the
  right context is not diarized at all, a longer one loses its last frames.

Section 5 lists further differences that have no run of their own, some with a
configuration that shows them.

Every property of a passing run has a mutant of a mapped definition (`mutants`)
under which TLC refutes it.

Fairness. `FindSlot`: weak fairness of the only thread. `DecoderThreads`:
weak fairness of the caller and of every started thread; the code blocks only in
`join`. `WhisperFull`: a call that was made keeps taking steps; no
fairness of a particular outcome (success, callback, failure) is assumed.
`FullParallel` assumes that each transcription ends, which is `CallReturns` of
`WhisperFull`. `StreamSession`: weak fairness of the steps of a call that was made
(`SessionStep`); the caller need not feed, finalize or cancel. The other modules are
checked for safety only.

## 4. Proofs

All for every value of the constants, under the named assumptions of the modules.

* `BeamDecodeProofs`, fourth part, about `FindSlot`: `SearchInvariant` (`SearchInv`),
  `NoFalseFull` (`FailMeansFull`), `FirstFit` (`TakesFirstFit`). The invariant says which starts have been excluded:
  `n_tested` counts every cell the head passed, so the search runs to the end of the
  cache, once from 0, and gives up only after every start has been tried; a run
  that contains an occupied cell is excluded for every start up to that cell.
  `SearchMeetsCache` joins this part to the others: on a cache record with the
  occupancy and the head of the search, a slot that is found satisfies `SlotAt` of
  `KVCache`, and a search that fails means that `HasSlot` is false. So `BeamDecode`,
  which uses these operators and does not run the loop, rests on what the loop does.
* `BeamDecodeProofs`, first and second part: `CacheInvariant` (`IInv`), `NoLeakedCells` (`CellsOwned`),
  `SlotIsFound` (`SlotAlwaysFound`). `SlotAlwaysFound` is not inductive: the argument
  needs where the cells are. `Room` says that a cell with position p lies among the
  first `kv_n_dec * (p + 1)` cells: a batch of at most `kv_n_dec` rows is put into a
  run that starts no later than one past the last cell in use. So at most
  `kv_n_dec * n_text_ctx` cells are ever touched in an attempt and the two additional
  contexts that the code allocates leave a run for any batch. Language detection
  takes one further cell. The first part of the module has the lemmas on the operators
  of `KVCache`.
* `BeamDecodeProofs`, third part: `HistoryInvariant` (`HInv`), `LogitsAreOwn`
  (`LogitsMatchSequence`), `SharedCacheIsPrivate` (`PrivateCaches`: `BeamDecode`
  implements `PrivateKV`). The refinement mapping names, besides each private history,
  what each decoder has chosen and from which one, so that the proof shows that a beam
  step copies from the right caches, all at once, and that a batch extends each by its
  own token. That the logits are right says nothing of the cells the
  next row will see, so the invariant follows the cells: a sequence `Holds` a history
  if it has exactly one cell for each of its positions and the cell encodes the prefix
  up to there. Between sampling and decoding the history of decoder j is found under
  the decoder it continues from (`Staging`, for the decoders the first loop has not
  reached), under its scratch id (`Landing`, for those the second loop has not reached)
  or under its own. The step that needs most care is the first loop: `seq_rm` of a
  scratch id must not free a cell that another decoder still needs, which holds because
  cells are freed only with their last owner. Retired decoders keep some history
  (`Settled`), whose cells the batch must not take.
* `ForkJoinProofs`, second part, about `DecoderThreads`: `ThreadsInvariant` (`PoolInv`),
  `NoSharedDecoder` (`Exclusive`), `EachDecoderOnce` (`ExactlyOnce`). The counter separates the decoders
  that were drawn from those that were not; a drawn one is held by exactly one
  thread or done.
* `ForkJoinProofs`, first part, about `whisper_full_parallel`: `ParallelInvariant`
  (`IInv`), `ParallelLosesNothing` (`NothingLost`), `ChunksAreTheAudio` (`ChunksCover`),
  `ParallelTimes` (`TimesShifted`). That nothing is lost when the call returns needs to
  know how far the combining loop is: `Results` says that it has taken all that the
  workers before `k` found, each segment once, in the order of the chunks and nothing of
  an earlier call; and that those results no longer change, because the joins are over
  (`Forked`). The last chunk takes the remainder of the division. `ParallelTimes` has
  the hypothesis `NoOverflow`: 100 times the number of samples fits into an `int`, which
  is so up to about 22 minutes; beyond that the property is false (section 5).
* `WhisperFullProofs`: `FullInvariant` (`IInv`), `DecodersAgree` (`DecoderConsistent`),
  `FiltersLeaveToken` (`TokenLeft`), `WindowAdvances` (`SeekAdvances`), `SegmentsOrdered`
  (`SegmentsInOrder`), `PromptFits` (`ContextBudget`). `DecoderConsistent` needs in
  addition that running decoders all have i tokens (a decoder that takes over another's
  sequence writes its own i into `result_len`) and that "the last timestamp" exists,
  which is carried along instead of proved by induction. The filter for increasing
  timestamps and the check in the update loop then exclude each other: the branch "failed
  due to seek_delta" cannot be reached. `SegmentsInOrder` has to hold of
  outputs that `best_decoder_id` left behind as well; `Sound` is what survives of
  consistency when a sequence is cut to its result and lies around for further
  attempts. `PromptFits` has a hypothesis, `CarriedPromptFits`: what a call keeps of its
  initial prompt is smaller than the budget of every call that carries it on. Without
  it the property is false (section 5, `ShrinkingCalls`); nothing in the code
  enforces it.
* `VadProofs`: `VadInvariant` (`IInv`), `VadTypes` (`TypeOK`), `SegmentsDisjoint`
  (`SegmentsInOrder`), `CopyFitsBuffer` (`CopyFits`), `LongSpeechFits`
  (`CopyAlwaysFits`), `SpeechIsKept` (`SpeechKept`).
  `Marks` orders what the scan remembers: `temp_end` and `prev_end` are 0 or
  lie a window or more after the start of the open segment and before the end of the
  audio read, and outside speech nothing is remembered. `Tidy` says that the segments are in order and not shorter than a
  window; merging, filtering and padding keep it, and rounding to centiseconds cannot
  empty a segment, because a centisecond is not longer than a window.
  `CopyFitsBuffer` holds for all parameters, of segments that start in the audio
  (`StartsInAudio`, part of `CopyFits`): then both loops see the same starts and the copy
  loop is ahead of the count by the silences only, which are counted afterwards.
  `LongSpeechFits` gives a condition on the parameters under which every segment does: a
  minimum of speech of at least a window and half a centisecond (`LongSpeech`; 250 ms by
  default, against 32 ms and 5 ms), since a segment that long cannot begin behind the
  audio. The minimum is the caller's, nothing enforces this, and without it
  `CopyAlwaysFits` is false (section 5). For `SpeechIsKept`
  a second invariant (`KInv`) says of every window of speech seen so far where it is
  (`Kept`): in a long enough segment, in the open one, in the gap that a forced cut left
  and merging will close (`Bridged`), or too close to a silence for the claim. The gap is
  closed because a window is shorter than the gap that is merged (200 ms), and the part
  before the cut is long enough because the maximum of speech is not below the minimum:
  these are its two hypotheses. They hold for the default parameters; a caller can set
  a maximum below the minimum, and then speech is lost.
* `StreamSessionProofs`: `StreamInvariant` (`IInv`), `AudioIsContiguous`
  (`BuffersContiguous`), `NoGapNoOverlap` (`SegmentsTile`), `FramesOnce`
  (`AlignedFramesDecodedOnce`). The buffers are stretches of the audio on both sides of
  one boundary (`Held`), the boundary is where the last segment ended (`Tiled`) unless the
  session was cancelled, and the test of the emit loop still holds at its body although
  a cancel can come between them (`Control`). For the frames a second invariant
  (`Decoded`) ties the segments' frames to their times when chunk and left context are
  whole frames.
* `SortformerProofs`: `SessionInvariant` (`IInv`), `DiarizationLosesNothing`
  (`NothingLost`), `WindowsCover` (`WindowCovers`), `CacheStaysAligned` (`CacheAligned`),
  `CommitsInOrder` (`CommittedInOrder`). The ring must begin early enough for the *next*
  window although it is trimmed for the last one: `Held` says how far behind the
  emitted audio it reaches, and `Control` that what the emit loop tested holds at its
  body, also after a cancel. The order of the committed frames depends on both: the
  window without its contexts is the chunk and one row more, so until the session is
  drained the last frame committed is the first of the next chunk (`Committing`). The
  order begins at frame `lc`, the first that is ever committed; that the ones before it
  are missing is in section 5. For `CacheAligned`
  the queue, the store and their predictions are followed through append, pop and
  compression; a store that was never compressed has no valid predictions yet.
* `TtsStreamProofs`: `StreamInvariant` (`IInv`), `FramesDelivered` (`ChunksTile`),
  `CancelIsPrompt` (`CancelStops`). The boundaries are below the total except for the
  last (`Cut`), so only the last chunk is flagged, and the frames of a longer prefix are not
  fewer, since tokens outside the vocabulary are left out of both; `skip` is where the
  last chunk ended (`Tiled`). `Stopping` says that a callback after a cancel leaves the
  loop no other way than out.
* `S3genCacheProofs`, first part: `CacheInvariant` (`IInv`), `WeightsAreKept`
  (`WeightsKept`), `SynthesisKeepsModel` (`ModelHeldLive`), about a host that constructs and
  destroys one engine at a time (`OneManagerHost`) and synthesises whenever it likes, also
  meanwhile. `Counting` relates the count to the engines that hold a reference: it is
  their number until an engine without one gives one back, and never more afterwards.
  `Keeping` says that until then their models are allocated, and that a preload that has
  its model, but has not yet counted, will still find it. That last part is where the
  host matters; section 5 says what happens with another one.
* `S3genCacheProofs`, second part: `SerialInvariant`, `CachesBelongToModel`
  (`SharedCachesCurrent`), `LastDestructorFrees` (`LastOneFrees`), about a host that makes
  one call at a time (`OneCallHost`), also when preloads failed and the count ran below
  zero. `Current` says that every cached object belongs to the loaded model, and that
  while one is being loaded there is none; `LastLoaded` that what else is allocated was
  replaced by a model with another key. That syntheses come one at a time is the
  assumption of a comment (chatterbox_tts.cpp:1925), and the opposite of what
  `engine.h:32` promises.

Assumptions used: the sizes are positive, `P + n_max <= n_text_ctx` for the prompts
of `BeamDecode` (what `PromptFits` proves of `WhisperFull`),
`1 <= n_threads <= n_decoders_cur` (the code takes the minimum), finitely many engines,
a largest number of processors among those considered, a centisecond not longer than a
window of the VAD (160 and 512 samples),
and that the markers `Garbled` and `None` are none of the values they stand beside.

Only model-checked, and why:

* liveness (`Terminates`, `Finishes`, `CallReturns`, `CallsReturn`): out of TLAPS's reach;
* `MapExact` of `VadSegments`: interpolation between the points of the table, a
  division by a length that is not constant;
* `VadTold` of `StreamSession`, `SpeakersDistinct` and `SpeakersKept` of
  `SortformerSession`: folds over data, which would need an induction principle with an
  operator as parameter. Where a loop is a recursive function on 0 .. n, induction
  over a set takes its place: the numbers up to n that lack the property have no least
  element (`LeastNat`, `UpTo` and `Recursion` of `VadProofs`).

## 5. Not modelled

Numeric code (mel, encoder, DTW, token timestamps, probabilities, scores of cached
rows), the grammar, `whisper_wrap_segment`, start times of segments, the branch for
tests without a model, printing and timings, model loading, the life cycle of
contexts and states, ggml, the one-shot calls of `parakeet-cpp` and `tts-cpp`, the
voice events of diarization sessions, bindings and examples. `PROJECT.json` gives
the reason for each.

### Differences between text and code without a run of their own

Stated as definitions that TLC refutes when they are given to it:

* `AllTold` of `WhisperFull` (`WhisperDtw.cfg`): with DTW timestamps the callback loop
  (whisper.cpp:7828) runs from the index of the first new segment to their number and
  passes the index as `n_new`; `whisper.h:461` says "Called on every newly generated text
  segment".
* `CopyAlwaysFits` of `VadSegments` (`VadOverrun.cfg`): with a minimum of speech of less
  than a window (`min_speech_duration_ms` of 31 or less) and little padding, a last
  segment of one window can be rounded to a start behind the audio. The loop that sizes
  the buffer (whisper.cpp:6776) does not clamp the start and counts a negative length,
  the loop that copies (6812) clamps it and copies nothing: the silence in front of that
  segment ends beyond the buffer. As the only segment it makes the size negative, and
  `resize` throws `std::length_error`, which the handler of `std::bad_alloc` does not catch.
* `HeadDiarized` of `SortformerSession` (`SortformerHead.cfg`): the window of the first
  chunk begins where the audio begins (parakeet_engine.cpp:1533), but the rows of a left
  context are cut off it all the same (697): the first `lc` frames of a session are
  never thresholded or committed to the speaker cache, and the segments of the first
  chunk are reported `lc` frames early. The comment at 639 says that they are relative to
  the start of the committed chunk, and parakeet_sortformer.h:125 that the window is
  "[left_context | committed_chunk | right_context] enc frames".
* `OthersWeightsKept` of `S3genCache` (`S3genStray.cfg`), with one call at a time:
  `s3gen_preload` swallows a failed load, so that its engine has no reference, and the
  destructor gives one back all the same (chatterbox_tts.cpp:2924), that of another
  engine, whose model is freed; 143 says that the count is there so that engines "don't
  have one Engine's destructor clobber the other Engine's cached weights".
* `CountedWeightsKept` of `S3genCache` (`S3genRace.cfg`), with one engine constructed while
  another is destroyed: the destructor runs between the lookup of `s3gen_preload` and its
  count (2909) and frees the model that was looked up. No load fails.
* `OwnModelUsed` of `S3genCache` (`S3genConcurrent.cfg`), with two engines that synthesise
  at the same time on different models: one finds the graphs, embeddings or mirrors of the
  other, which are keyed by shape, time and address (806), and graphs are used without a
  lock. `engine.h:32` says that "`synthesize()` on **different** `Engine` instances from
  different threads is safe".
* `ContextBudget` with `SPECIFICATION Spec` and `Calls <- ShrinkingCalls`: a prompt carried over from a call with
  a larger `n_max_text_ctx` makes the budget of the rolling context negative
  (whisper.cpp:7214).
* `SegmentsDisjoint` of `FullParallel`: clamping `t0` alone (whisper.cpp:7967) does not
  keep segments from overlapping.
* `ResultIsCurrent` of `FullParallel`: audio without speech leaves the previous call's
  segments as the result (whisper.cpp:7901).
* `FramesDecodedOnce` of `StreamSession`, also with `DefaultOptions` in mel hops of 10 ms:
  chunks that are no whole number of encoder frames (1000 ms is 12.5 of them) drop or
  repeat half a frame at their boundaries. `src/parakeet-cpp/src/main.cpp:114` says
  the value is snapped to the frame stride; the code does not (parakeet_engine.cpp:1196).
* `TornDownBeforeFree` of `S3genCache`, with one engine: the thread-local graph of the
  time embedding survives the model (chatterbox_tts.cpp:1193), although
  chatterbox_tts.cpp:154 says it must be torn down before `ggml_backend_free`.

Followed by the models or met while reading:

* With `single_segment` the limit `max_tokens` is exceeded by one; a carried prompt is
  dropped near the end of the audio and at high temperatures; merging undoes the
  split of segments that are too long; the `int` products in the times of chunks
  overflow (after about 22 minutes, or for offsets of more than 134 s).
* `finalize()` of both sessions sets `finalized` before it drains the audio: if the
  tail fails it cannot be tried again. A callback that throws after the speaker cache
  was updated would have the chunk committed twice.
* In a diarization session `is_final` is set on no callback or on several
  (`diarization.h:46` says it flags the last one); the speaker of a voice event is
  the window's slot, not the session's name; chunks with the cache commit one row
  more than the chunk has frames; the rows of a compressed cache are ordered by
  speaker, then frame (the comment says by frame).
* `cancel()` of the parakeet and chatterbox engines is lost when it comes before the
  call it is meant for, because the call clears the flag.
* A model that is replaced by one with another key is never freed (`LastOneFrees` makes
  the exception).
* A first chunk of three tokens or fewer has no frames left after the look-ahead and
  fails the call, unless the prompt's frames cover it.

## 6. Plan

1. Done: cache, attempt, threads, main loop, VAD, parallel; live sessions, model
   cache and streaming synthesis.
2. Proved: slot search and its link to the cache, cache, attempt and its refinement,
   threads, parallel, main loop, VAD, live transcription, live diarization, model cache,
   streaming synthesis. What is only model-checked is listed in section 4.
3. Candidates for more models, without which the others stand: grammar stacks,
   `whisper_wrap_segment`, the life cycle of states.
