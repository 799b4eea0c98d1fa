------------------------- MODULE SortformerSession -------------------------
(***************************************************************************)
(* parakeet::SortformerStreamSession, live diarization.  PCM is kept in a  *)
(* ring; for every chunk a window of the ring goes through the model and   *)
(* the speaker segments of the chunk go to the callback.                   *)
(*                                                                         *)
(* Without the speaker cache the window is the last history_ms of audio,   *)
(* the model names the speakers of each window anew, and                   *)
(* compute_slot_remap_ carries the names over by the overlap with the      *)
(* segments of the window before.  The model is taken to be perfect up to  *)
(* these names: voices says who speaks when.  With the cache (AOSC) the    *)
(* window is the chunk with left and right context; see SpeakerCache.      *)
(*                                                                         *)
(* Time is counted in encoder frames, and blocks, chunks and contexts are  *)
(* whole frames.  n frames of audio give n + 1 rows: compute_log_mel pads. *)
(***************************************************************************)
EXTENDS SpeakerCache

CONSTANTS
    Options,       \* [chunk, history, lc, rc, cache]: see OptionType
    Speakers,      \* the people who speak
    MinSegment,    \* min_segment_ms
    Blocks,        \* lengths of the PCM blocks the caller feeds
    MaxPlain,      \* bound: audio fed to a session without the cache
    MaxCached,     \* bound: audio fed to a session with the cache
    MaxFailures    \* bound: failures of the model

\* lc, rc: chunk_left_context, chunk_right_context.  cache: spkcache_enable
\* on a v2.1 model.
OptionType == [chunk : Nat, history : Nat, lc : Nat, rc : Nat, cache : BOOLEAN]

ASSUME SortformerSessionAssumption ==
    /\ Options \subseteq OptionType
    /\ Cardinality(Speakers) <= num_spks
    /\ Blocks \subseteq Nat \ {0}
    /\ {MinSegment, MaxPlain, MaxCached, MaxFailures} \subseteq Nat

VARIABLES
    opts,
    pc,             \* "idle": the caller's turn; "emit", "chunk", "tail"
    voices,         \* who speaks in each frame fed so far
    ring,           \* the frames kept, by position in the audio
    ring_origin,
    emitted,        \* emitted_samples
    finalized,
    cancelled,
    prev_full,      \* prev_chunk_full_segments: [spk, who, start, end]
    cache,          \* SortformerSpeakerCache
    committed,      \* the frames committed to the cache so far
    finals,         \* callbacks with is_final set
    window,         \* the last window processed: [lo, hi, from, to]
    failures        \* [count, inFinalize]

vars == <<opts, pc, voices, ring, ring_origin, emitted, finalized, cancelled, prev_full,
          cache, committed, finals, window, failures>>

Slots == 0 .. num_spks - 1

available_end == ring_origin + Len(ring)

\* What diarize_start checks.
Accepts(o) == o.chunk > 0 /\ o.history > 0 /\ o.history >= o.chunk

Init ==
    /\ opts \in {o \in Options : Accepts(o)}
    /\ pc = "idle"
    /\ voices = <<>> /\ ring = <<>> /\ ring_origin = 0
    /\ emitted = 0
    /\ finalized = FALSE /\ cancelled = FALSE
    /\ prev_full = {}
    /\ cache = EmptyCache /\ committed = <<>>
    /\ finals = 0
    /\ window = [lo |-> 0, hi |-> 0, from |-> 0, to |-> 0]
    /\ failures = [count |-> 0, inFinalize |-> FALSE]

-----------------------------------------------------------------------------
\* feed_pcm_f32, feed_pcm_i16: throws when finalized, returns when cancelled.
\* Who speaks matters only to a session without the cache.
Feed(n) ==
    /\ pc = "idle" /\ ~finalized /\ ~cancelled
    /\ Len(voices) + n <= IF opts.cache THEN MaxCached ELSE MaxPlain
    /\ \E v \in [1 .. n -> IF opts.cache THEN {{}} ELSE SUBSET Speakers] : voices' = voices \o v
    /\ ring' = ring \o [i \in 1 .. n |-> available_end + i - 1]
    /\ pc' = "emit"
    /\ UNCHANGED <<opts, ring_origin, emitted, finalized, cancelled, prev_full, cache,
                   committed, finals, window, failures>>

\* finalize(): once; finalized is set before the audio is drained.
Finalize ==
    /\ pc = "idle" /\ ~finalized
    /\ finalized' = TRUE
    /\ pc' = "emit"
    /\ UNCHANGED <<opts, voices, ring, ring_origin, emitted, cancelled, prev_full, cache,
                   committed, finals, window, failures>>

\* cancel(), at any point.
Cancel ==
    /\ ~cancelled
    /\ cancelled' = TRUE
    /\ UNCHANGED <<opts, pc, voices, ring, ring_origin, emitted, finalized, prev_full, cache,
                   committed, finals, window, failures>>

\* The tests at the head of the loop in try_emit_chunks.
EmitTest ==
    /\ pc = "emit"
    /\ LET needed == emitted + opts.chunk + (IF opts.cache THEN opts.rc ELSE 0) IN
       pc' = IF ~cancelled /\ available_end >= needed THEN "chunk"
             ELSE IF finalized THEN "tail" ELSE "idle"
    /\ UNCHANGED <<opts, voices, ring, ring_origin, emitted, finalized, cancelled, prev_full,
                   cache, committed, finals, window, failures>>

-----------------------------------------------------------------------------
\* The segments of a window [lo, hi) that are not too short, with the names
\* slot gives to the speakers: sf_threshold_segments and the length filter.
Segments(lo, hi, slot) ==
    LET speaks(s, f) == lo <= f /\ f < hi /\ s \in voices[f + 1]
        run(s, a, b) == /\ \A f \in a .. b - 1 : speaks(s, f)
                        /\ ~speaks(s, a - 1) /\ ~speaks(s, b)
    IN {c \in [spk : Slots, who : Speakers, start : lo .. hi, end : lo .. hi] :
          /\ c.spk = slot[c.who]
          /\ c.start < c.end /\ c.end - c.start >= MinSegment
          /\ run(c.who, c.start, c.end)}

Overlap(c, p) == MaxInt(0, MinInt(c.end, p.end) - MaxInt(c.start, p.start))

\* The overlap matrix of compute_slot_remap_.
OverlapMatrix(cur) ==
    [i \in Slots, j \in Slots |->
        MapThenSumSet(LAMBDA cp : Overlap(cp[1], cp[2]),
                      {c \in cur : c.spk = i} \X {p \in prev_full : p.spk = j})]

\* Mutant: a session id may be taken twice.
AssignBestTaken(O, r, i) ==
    LET best == {j \in Slots : O[i, j] > 0 /\ \A k \in Slots : O[i, k] <= O[i, j]}
    IN IF best = {} THEN r ELSE [r EXCEPT ![i] = Min(best)]

\* Slot i takes the session id of largest overlap that is not taken, the lowest
\* of them; r is the remap so far, -1 for a slot without a session id.
AssignBest(O, r, i) ==
    LET free == {j \in Slots : \A k \in Slots : r[k] # j}
        best == {j \in free : O[i, j] > 0 /\ \A k \in free : O[i, k] <= O[i, j]}
    IN IF best = {} THEN r ELSE [r EXCEPT ![i] = Min(best)]

\* A slot without one takes the lowest session id left.
AssignRest(r, i) ==
    LET free == {j \in Slots : \A k \in Slots : r[k] # j}
    IN IF r[i] # -1 THEN r
       ELSE [r EXCEPT ![i] = IF free = {} THEN i ELSE Min(free)]

\* compute_slot_remap_: the slots in descending order of their best overlap;
\* std::sort leaves the order of equals open.
SlotRemaps(cur) ==
    LET O         == OverlapMatrix(cur)
        best(i)   == Max({O[i, j] : j \in Slots})
        orders    == {o \in SetToSeqs(Slots) :
                        \A k \in 1 .. num_spks - 1 : best(o[k]) >= best(o[k + 1])}
        greedy(o) == FoldLeft(LAMBDA r, i : AssignBest(O, r, i), [i \in Slots |-> -1], o)
        rest(r)   == FoldLeft(AssignRest, r, [k \in 1 .. num_spks |-> k - 1])
    IN IF prev_full = {} THEN {[i \in Slots |-> i]}
       ELSE {rest(greedy(o)) : o \in orders}

\* Mutant: the segments are kept under the names of their own window.
KeepLocal(cur, remap) == cur

\* prev_chunk_full_segments: the segments under the session's names.
Keep(cur, remap) == {[c EXCEPT !.spk = remap[c.spk]] : c \in cur}

\* process_chunk without the cache.
ProcessPlain(lo, hi, from, to, is_final) ==
    \E slot \in Injection(Speakers, Slots) :
      LET cur  == Segments(lo, hi, slot)
          told == {c \in cur : MinInt(c.end, to) - MaxInt(c.start, from) >= MaxInt(1, MinSegment)}
      IN /\ \E remap \in SlotRemaps(cur) : prev_full' = Keep(cur, remap)
         /\ finals' = finals + IF is_final THEN Cardinality(told) ELSE 0
         /\ UNCHANGED <<cache, committed>>

\* Rows of context in a window of T rows: when both do not fit the right one
\* gives way, then the left one.
Contexts(T) ==
    LET rc == IF opts.lc + opts.rc > T THEN MaxInt(0, T - opts.lc) ELSE opts.rc
        lc == IF opts.lc + rc > T THEN MaxInt(0, T - rc) ELSE opts.lc
    IN [lc |-> lc, rc |-> rc]

\* process_chunk with the cache; how many segments the chunk has is open.  The
\* rows of the left context are cut off also when the window begins the audio.
ProcessCached(lo, hi, from, to, is_final) ==
    LET frames == [i \in 1 .. hi - lo + 1 |-> lo + i - 1]
        T      == Len(frames)
        ctx    == Contexts(T)
    IN /\ UNCHANGED prev_full
       /\ IF T - ctx.lc - ctx.rc <= 0 THEN UNCHANGED <<cache, committed, finals>>
          ELSE /\ cache' \in aosc_step(cache, frames, ctx.lc, ctx.rc)
               /\ committed' = committed \o SubSeq(frames, ctx.lc + 1, T - ctx.rc)
               /\ IF is_final THEN \E k \in 0 .. num_spks : finals' = finals + k
                  ELSE UNCHANGED finals

\* process_chunk, when nothing fails; it advances emitted_samples last.
ProcessChunk(lo, hi, from, to, is_final) ==
    /\ IF opts.cache THEN ProcessCached(lo, hi, from, to, is_final)
       ELSE ProcessPlain(lo, hi, from, to, is_final)
    /\ window' = [lo |-> lo, hi |-> hi, from |-> from, to |-> to]
    /\ emitted' = to

Skipped == UNCHANGED <<prev_full, cache, committed, finals, window, emitted>>

\* Mutant: emitted_samples is advanced before the model is run.
FailedAdvanced ==
    /\ ~cancelled /\ failures.count < MaxFailures
    /\ failures' = [count |-> failures.count + 1, inFinalize |-> finalized]
    /\ pc' = "idle"
    /\ emitted' = MinInt(emitted + opts.chunk, available_end)
    /\ UNCHANGED <<prev_full, cache, committed, finals, window, ring, ring_origin>>

\* A failing model call throws out of feed_pcm_* or finalize().
Failed ==
    /\ ~cancelled /\ failures.count < MaxFailures
    /\ failures' = [count |-> failures.count + 1, inFinalize |-> finalized]
    /\ pc' = "idle"
    /\ Skipped
    /\ UNCHANGED <<ring, ring_origin>>

\* Mutant: a session with the cache keeps no left context.
TrimAll(emit_end) ==
    LET keep == MaxInt(ring_origin, emit_end - (IF opts.cache THEN 0 ELSE opts.history)) IN
    /\ ring' = Drop(ring, keep - ring_origin)
    /\ ring_origin' = keep

\* The ring keeps what the next window needs.
Trim(emit_end) ==
    LET keep == MaxInt(ring_origin, emit_end - (IF opts.cache THEN opts.lc ELSE opts.history)) IN
    /\ ring' = Drop(ring, keep - ring_origin)
    /\ ring_origin' = keep

\* Where the window for a chunk that ends at emit_end begins.
WindowStart(emit_end) ==
    MaxInt(ring_origin, IF opts.cache THEN emitted - opts.lc ELSE emit_end - opts.history)

\* The body of the loop; after a cancel process_chunk returns at once.
EmitChunk ==
    /\ pc = "chunk"
    /\ LET to == emitted + opts.chunk
           hi == to + (IF opts.cache THEN opts.rc ELSE 0)
       IN \/ /\ IF cancelled THEN Skipped
                ELSE ProcessChunk(WindowStart(to), hi, emitted, to, FALSE)
             /\ Trim(to)
             /\ pc' = "emit"
             /\ UNCHANGED failures
          \/ Failed
    /\ UNCHANGED <<opts, voices, finalized, cancelled>>

\* The end of finalize(): the tail chunk, or else the terminator.
EmitTail ==
    /\ pc = "tail"
    /\ \/ /\ available_end > emitted /\ ~cancelled
          /\ \/ /\ ProcessChunk(WindowStart(available_end), available_end, emitted,
                                available_end, TRUE)
                /\ pc' = "idle"
                /\ UNCHANGED <<ring, ring_origin, failures>>
             \/ Failed
       \/ /\ available_end > emitted => cancelled
          /\ finals' = IF cancelled THEN finals ELSE finals + 1
          /\ pc' = "idle"
          /\ UNCHANGED <<prev_full, cache, committed, window, emitted, ring, ring_origin, failures>>
    /\ UNCHANGED <<opts, voices, finalized, cancelled>>

SessionStep == EmitTest \/ EmitChunk \/ EmitTail

Next ==
    \/ \E n \in Blocks : Feed(n)
    \/ Finalize
    \/ Cancel
    \/ SessionStep

Spec == Init /\ [][Next]_vars

-----------------------------------------------------------------------------
Finished == pc = "idle" /\ finalized /\ ~cancelled /\ ~failures.inFinalize

\* The ring is the end of the audio that was fed, and nothing leaves it before
\* it has been emitted, also when a chunk failed and is tried again; each chunk
\* begins where the last one processed ended; a finalize() that succeeds emits
\* everything.
NothingLost ==
    /\ available_end = Len(voices)
    /\ \A i \in 1 .. Len(ring) : ring[i] = ring_origin + i - 1
    /\ ~cancelled => ring_origin <= emitted
    /\ window.to = emitted
    /\ Finished => emitted = Len(voices)

\* A window is read inside the ring it was cut from and contains the audio the
\* chunk reports on; with the cache it has its left context from the second
\* chunk on.
WindowCovers ==
    /\ window.lo <= window.from /\ window.from <= window.to /\ window.to <= window.hi
    /\ window.hi <= Len(voices)
    /\ opts.cache /\ window.from >= opts.lc => window.from - window.lo >= opts.lc

\* Two speakers of a window never get the same name.
SpeakersDistinct ==
    \A p, q \in prev_full : p.who # q.who => p.spk # q.spk

\* Where P and Q overlap, s is never heard together with another speaker.
Alone(P, Q, s) ==
    \A p \in P, q \in Q : Overlap(p, q) > 0 /\ s \in {p.who, q.who} => p.who = q.who

\* A speaker who is heard in the audio two windows share, and there never at
\* the same time as another one, keeps his name.
SpeakersKept ==
    [][\A p \in prev_full, q \in prev_full' :
          p.who = q.who /\ Overlap(p, q) > 0 /\ Alone(prev_full, prev_full', p.who) =>
              p.spk = q.spk]_prev_full

\* The cache stays within its limits, and every row has the prediction that
\* was made for it, through appends, pops and compressions.
CacheAligned ==
    /\ Len(cache.fifo) <= fifo_len
    /\ Len(cache.spkcache) <= spkcache_len
    /\ cache.fifo_preds = cache.fifo
    /\ cache.valid => cache.spkcache_preds = cache.spkcache

\* The queue is the end of what has been committed, and that is the audio in
\* order from the frame after the first left context on: from there no frame is
\* skipped, and one comes twice at most, at a boundary.  The first frames
\* themselves are missing: see HeadDiarized.
CommittedInOrder ==
    /\ cache.fifo = Drop(committed, Len(committed) - Len(cache.fifo))
    /\ committed # <<>> => committed[1] = opts.lc
    /\ \A i \in 1 .. Len(committed) - 1 : committed[i + 1] - committed[i] \in {0, 1}

\* With the cache, the first frame committed is the first of the audio.  It is
\* not: the first windows begin at 0 and have no left context, but its frames
\* are cut off all the same, so a segment at the start of the first chunk that
\* is committed is reported the left context too early.
HeadDiarized == committed # <<>> => committed[1] = 0

\* With the cache, finalize() drains whatever remains.
TailDiarized ==
    Finished /\ opts.cache /\ voices # <<>> =>
        \E i \in 1 .. Len(committed) : committed[i] = Len(voices) - 1
=============================================================================
