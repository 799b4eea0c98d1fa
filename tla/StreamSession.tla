--------------------------- MODULE StreamSession ---------------------------
(***************************************************************************)
(* parakeet::StreamSession, live transcription ("Mode 3"): the caller      *)
(* feeds PCM of any length; the session cuts it into chunks, encodes each  *)
(* chunk together with left context and right look-ahead, keeps only the   *)
(* encoder frames of the chunk and hands the decoded text to a callback.   *)
(*                                                                         *)
(* A sample is the number of its position in the audio that was fed, so    *)
(* the buffers show which audio they hold.  What the models compute from a *)
(* window is left out; which encoder frames they decode is not.  cancel()  *)
(* may come at any point: from the callbacks, or from another thread.      *)
(***************************************************************************)
EXTENDS Integers, Sequences, SequencesExt

CONSTANTS
    Options,       \* the StreamingOptions considered, in samples: see OptionType
    hop_length,    \* samples per mel frame
    subsampling,   \* mel frames per encoder frame
    window_n,      \* EnergyVad: samples in the RMS window
    hangover_n,    \* EnergyVad: samples below the threshold before Silent
    Blocks,        \* lengths of the PCM blocks the caller feeds
    MaxSamples,    \* bound: samples fed in all
    MaxFailures    \* bound: failures of the encoder

\* chunk, left and right: *_samples.  eou: the EOU model, whose convolutions
\* are causal and which has no EnergyVad.  vad: enable_energy_vad with an
\* on_event callback.
OptionType == [chunk : Nat \ {0}, left : Nat, right : Nat, eou : BOOLEAN, vad : BOOLEAN]

ASSUME StreamSessionAssumption ==
    /\ Options \subseteq OptionType
    /\ {hop_length, subsampling, window_n} \subseteq Nat \ {0}
    /\ Blocks \subseteq Nat \ {0}
    /\ {hangover_n, MaxSamples, MaxFailures} \subseteq Nat

VARIABLES
    opts,
    pc,             \* "idle": the caller's turn; "emit", "window", "flush"
    left_history,   \* samples kept as left context
    pending,        \* samples fed and not yet consumed by a chunk
    chunk_index,
    emitted_samples,
    total_pcm_seen,
    finalized,
    cancelled,
    energy_vad,     \* [fill, hangover, state]: window_fill_, hangover_count_, state_
    segs,           \* segments given to on_segment, with the frames they decode
    vad_told,       \* vad_state of the last VadStateChanged event
    failures        \* failures so far; see FailureType

vars == <<opts, pc, left_history, pending, chunk_index, emitted_samples, total_pcm_seen,
          finalized, cancelled, energy_vad, segs, vad_told, failures>>

\* Whether the one finalize() of the session was cut short by a failure.
FailureType == [count : Nat, inFinalize : BOOLEAN]

frame_samples == hop_length * subsampling

\* Encoder frames of n samples: compute_log_mel gives 1 + n/hop frames, three
\* convolutions of stride 2 divide them; the causal ones round up.
T_enc(n) ==
    LET mel == n \div hop_length IN
    IF opts.eou THEN (mel + subsampling - 1) \div subsampling + 1
    ELSE mel \div subsampling + 1

Clamp(x, lo, hi) == IF x < lo THEN lo ELSE IF x > hi THEN hi ELSE x

Init ==
    /\ opts \in Options
    /\ pc = "idle"
    /\ left_history = <<>> /\ pending = <<>>
    /\ chunk_index = 0 /\ emitted_samples = 0 /\ total_pcm_seen = 0
    /\ finalized = FALSE /\ cancelled = FALSE
    /\ energy_vad = [fill |-> 0, hangover |-> 0, state |-> "Unknown"]
    /\ segs = <<>>
    /\ vad_told = "Unknown"
    /\ failures = [count |-> 0, inFinalize |-> FALSE]

-----------------------------------------------------------------------------
\* Mutant: the first transition of the block is reported, not the last.
VadSampleFirst(s, above) ==
    LET fill     == IF s.fill < window_n THEN s.fill + 1 ELSE s.fill
        hangover == IF above THEN 0 ELSE Clamp(s.hangover + 1, 0, hangover_n)
        state    == IF above THEN "Speaking"
                    ELSE IF hangover >= hangover_n THEN "Silent" ELSE s.state
    IN IF fill < window_n THEN [s EXCEPT !.fill = fill]
       ELSE [fill |-> fill, hangover |-> hangover, state |-> state,
             to |-> IF state # s.state /\ s.to = "Unknown" THEN state ELSE s.to]

\* EnergyVad::process for one sample; above: the window's mean square is above
\* the threshold.  s carries the state and to, the transition it will return.
\* hangover_count_ matters only up to hangover_n and is counted so far.
VadSample(s, above) ==
    LET fill     == IF s.fill < window_n THEN s.fill + 1 ELSE s.fill
        hangover == IF above THEN 0 ELSE Clamp(s.hangover + 1, 0, hangover_n)
        state    == IF above THEN "Speaking"
                    ELSE IF hangover >= hangover_n THEN "Silent" ELSE s.state
    IN IF fill < window_n THEN [s EXCEPT !.fill = fill]
       ELSE [fill |-> fill, hangover |-> hangover, state |-> state,
             to |-> IF state # s.state THEN state ELSE s.to]

\* stream_drive_energy_vad for a block; above[i] judges its i-th sample.
VadBlock(above) ==
    FoldLeft(VadSample, [fill |-> energy_vad.fill, hangover |-> energy_vad.hangover,
                         state |-> energy_vad.state, to |-> "Unknown"], above)

\* The caller feeds n samples (feed_pcm_f32, feed_pcm_i16): the VAD sees them
\* and may fire an event, then they are appended.  A finalized session throws,
\* a cancelled one returns; neither changes anything.
Feed(n) ==
    /\ pc = "idle" /\ ~finalized /\ ~cancelled
    /\ total_pcm_seen + n <= MaxSamples
    /\ IF opts.vad /\ ~opts.eou
       THEN \E above \in [1 .. n -> BOOLEAN] :
              LET v == VadBlock(above) IN
              /\ energy_vad' = [fill |-> v.fill, hangover |-> v.hangover, state |-> v.state]
              /\ vad_told' = IF v.to = "Unknown" THEN vad_told ELSE v.to
       ELSE UNCHANGED <<energy_vad, vad_told>>
    /\ total_pcm_seen' = total_pcm_seen + n
    /\ pending' = pending \o [i \in 1 .. n |-> total_pcm_seen + i - 1]
    /\ pc' = "emit"
    /\ UNCHANGED <<opts, left_history, chunk_index, emitted_samples, finalized, cancelled,
                   segs, failures>>

\* finalize(): once only, and finalized is set before the audio is drained.
Finalize ==
    /\ pc = "idle" /\ ~finalized
    /\ finalized' = TRUE
    /\ pc' = "emit"
    /\ UNCHANGED <<opts, left_history, pending, chunk_index, emitted_samples, total_pcm_seen,
                   cancelled, energy_vad, segs, vad_told, failures>>

\* cancel(), and the destructor of a session that was not finalized.
Cancel ==
    /\ ~cancelled
    /\ cancelled' = TRUE
    /\ UNCHANGED <<opts, pc, left_history, pending, chunk_index, emitted_samples,
                   total_pcm_seen, finalized, energy_vad, segs, vad_told, failures>>

\* Mutant: the loop waits for the look-ahead instead of returning.
EmitTestWaits ==
    /\ pc = "emit"
    /\ pc' = IF ~cancelled /\ Len(pending) >= opts.chunk THEN
                 IF Len(pending) >= opts.chunk + opts.right THEN "window" ELSE "emit"
             ELSE IF finalized THEN "flush" ELSE "idle"
    /\ UNCHANGED <<opts, left_history, pending, chunk_index, emitted_samples, total_pcm_seen,
                   finalized, cancelled, energy_vad, segs, vad_told, failures>>

\* The condition of the loop in try_emit_chunks; when it fails feed_pcm_*
\* returns and finalize() goes on to the remainder.
EmitTest ==
    /\ pc = "emit"
    /\ pc' = IF ~cancelled /\ Len(pending) >= opts.chunk + opts.right THEN "window"
             ELSE IF finalized THEN "flush" ELSE "idle"
    /\ UNCHANGED <<opts, left_history, pending, chunk_index, emitted_samples, total_pcm_seen,
                   finalized, cancelled, energy_vad, segs, vad_told, failures>>

-----------------------------------------------------------------------------
\* Mutant: the right look-ahead of the last window is dropped as usual.
FramesNoFinal(start, end, T, is_final) ==
    LET left_drop  == Clamp(start \div frame_samples, 0, T)
        right_drop == Clamp(T - left_drop - (end - start) \div frame_samples, 0, T - left_drop)
    IN [first |-> left_drop, end |-> T - right_drop]

\* The encoder frames [first, end) of a window of T frames that are decoded,
\* for the chunk that takes the samples [start, end) of the window.
Frames(start, end, T, is_final) ==
    LET left_drop  == start \div frame_samples
        right_drop == IF is_final THEN 0
                      ELSE T - left_drop - (end - start) \div frame_samples
        first      == Clamp(left_drop, 0, T)
    IN [first |-> first, end |-> T - Clamp(right_drop, 0, T - first)]

\* process_window when nothing fails: the segment's times come from
\* emitted_samples; lo and hi are where its frames lie in the audio.
ProcessWindow(window, start, end, is_final) ==
    LET f == Frames(start, end, T_enc(Len(window)), is_final)
    IN /\ segs' = Append(segs, [start |-> emitted_samples,
                                end   |-> emitted_samples + (end - start),
                                index |-> chunk_index,
                                lo    |-> window[1] + f.first * frame_samples,
                                hi    |-> window[1] + f.end * frame_samples])
       /\ emitted_samples' = emitted_samples + (end - start)
       /\ chunk_index' = chunk_index + 1

\* Mutant: the chunk is consumed although it was not processed.
FailedConsumed ==
    /\ ~cancelled /\ failures.count < MaxFailures
    /\ failures' = [count |-> failures.count + 1, inFinalize |-> finalized]
    /\ pc' = "idle"
    /\ left_history' = left_history \o SubSeq(pending, 1, opts.chunk)
    /\ pending' = SubSeq(pending, opts.chunk + 1, Len(pending))
    /\ UNCHANGED <<chunk_index, emitted_samples, segs>>

\* A failing mel, encoder or decoder call throws out of feed_pcm_* or
\* finalize() and leaves the buffers as they are.
Failed ==
    /\ ~cancelled /\ failures.count < MaxFailures
    /\ failures' = [count |-> failures.count + 1, inFinalize |-> finalized]
    /\ pc' = "idle"
    /\ UNCHANGED <<left_history, pending, chunk_index, emitted_samples, segs>>

LastN(s, n) == IF Len(s) > n THEN SubSeq(s, Len(s) - n + 1, Len(s)) ELSE s

\* Mutant: the right look-ahead is consumed with the chunk.
ShiftLookahead ==
    /\ left_history' = LastN(left_history \o SubSeq(pending, 1, opts.chunk), opts.left)
    /\ pending' = SubSeq(pending, opts.chunk + opts.right + 1, Len(pending))

\* The chunk moves from pending to left_history, of which the end is kept.
Shift ==
    /\ left_history' = LastN(left_history \o SubSeq(pending, 1, opts.chunk), opts.left)
    /\ pending' = SubSeq(pending, opts.chunk + 1, Len(pending))

\* The body of the loop.  A cancel since its test makes process_window return
\* at once; the chunk is consumed all the same.
EmitWindow ==
    /\ pc = "window"
    /\ \/ /\ IF cancelled THEN UNCHANGED <<segs, emitted_samples, chunk_index>>
             ELSE ProcessWindow(left_history \o SubSeq(pending, 1, opts.chunk + opts.right),
                                Len(left_history), Len(left_history) + opts.chunk, FALSE)
          /\ Shift
          /\ pc' = "emit"
          /\ UNCHANGED failures
       \/ Failed
    /\ UNCHANGED <<opts, total_pcm_seen, finalized, cancelled, energy_vad, vad_told>>

\* flush_remainder.
Flush ==
    /\ pc = "flush"
    /\ \/ /\ cancelled \/ pending = <<>>
          /\ pc' = "idle"
          /\ UNCHANGED <<left_history, pending, chunk_index, emitted_samples, segs, failures>>
       \/ /\ ~cancelled /\ pending # <<>>
          /\ ProcessWindow(left_history \o pending, Len(left_history),
                           Len(left_history) + Len(pending), TRUE)
          /\ left_history' = <<>> /\ pending' = <<>>
          /\ pc' = "idle"
          /\ UNCHANGED failures
       \/ /\ pending # <<>>
          /\ Failed
    /\ UNCHANGED <<opts, total_pcm_seen, finalized, cancelled, energy_vad, vad_told>>

SessionStep == EmitTest \/ EmitWindow \/ Flush

Next ==
    \/ \E n \in Blocks : Feed(n)
    \/ Finalize
    \/ Cancel
    \/ SessionStep

Spec == Init /\ [][Next]_vars

\* A call that was made runs.
FairSpec == Spec /\ WF_vars(SessionStep)

-----------------------------------------------------------------------------
\* Types.
TypeOK ==
    /\ opts \in Options
    /\ pc \in {"idle", "emit", "window", "flush"}
    /\ left_history \in Seq(Nat) /\ pending \in Seq(Nat)
    /\ chunk_index \in Nat /\ emitted_samples \in Nat /\ total_pcm_seen \in Nat
    /\ finalized \in BOOLEAN /\ cancelled \in BOOLEAN
    /\ energy_vad \in [fill : 0 .. window_n, hangover : 0 .. hangover_n,
                       state : {"Unknown", "Speaking", "Silent"}]
    /\ segs \in Seq([start : Nat, end : Nat, index : Nat, lo : Nat, hi : Nat])
    /\ vad_told \in {"Unknown", "Speaking", "Silent"}
    /\ failures \in FailureType

\* The buffers are one stretch of audio: left_history runs up to the first
\* pending sample, pending up to the last sample fed, whatever failed.  The
\* last flush empties both.
BuffersContiguous ==
    LET held == left_history \o pending IN
    /\ \A i \in 1 .. Len(held) : held[i] = total_pcm_seen - Len(held) + i - 1
    /\ Len(left_history) <= opts.left

\* The segments tile the audio in order, without a gap or an overlap, even
\* when an encoder failed and its chunk was tried again; and while the session
\* is not cancelled what they do not cover is exactly what is pending.  A
\* finalize() that neither failed nor was cancelled leaves nothing uncovered.
SegmentsTile ==
    /\ \A i \in 1 .. Len(segs) :
          /\ segs[i].index = i - 1
          /\ segs[i].start = IF i = 1 THEN 0 ELSE segs[i - 1].end
          /\ segs[i].start < segs[i].end
    /\ ~cancelled => emitted_samples + Len(pending) = total_pcm_seen
    /\ pc = "idle" /\ finalized /\ ~cancelled /\ ~failures.inFinalize =>
          emitted_samples = total_pcm_seen

\* Chunks and left context of whole encoder frames.
Aligned == opts.chunk % frame_samples = 0 /\ opts.left % frame_samples = 0

\* Every encoder frame of the audio is decoded by exactly one segment: each
\* takes up where the one before it ended, and the last one reaches the end.
FramesDecodedOnce ==
    /\ \A i \in 1 .. Len(segs) : segs[i].lo = IF i = 1 THEN 0 ELSE segs[i - 1].hi
    /\ pc = "idle" /\ finalized /\ ~cancelled /\ ~failures.inFinalize /\ segs # <<>> =>
          segs[Len(segs)].hi >= total_pcm_seen

AlignedFramesDecodedOnce == Aligned => FramesDecodedOnce

\* The consumer's picture of the voice activity is the detector's, however
\* many transitions one block holds.
VadTold == vad_told = energy_vad.state

\* Every feed or finalize returns.
CallsReturn == pc # "idle" ~> pc = "idle"
=============================================================================
