------------------------------ MODULE TtsStream ------------------------------
(***************************************************************************)
(* One chatterbox engine synthesising utterance after utterance            *)
(* (src/tts-cpp/src/chatterbox_engine.cpp): T3 decodes speech tokens, the  *)
(* streaming loop cuts them into chunks, s3gen_synthesize_to_wav           *)
(* (chatterbox_tts.cpp) renders a prefix of the tokens for each chunk and  *)
(* skips the mel frames that were emitted before, and on_chunk receives    *)
(* the rest.  cancel() may come from another thread at any moment.         *)
(*                                                                         *)
(* Audio is counted in mel frames (480 samples): a token gives two, and a  *)
(* chunk that is not the last gives up the frames of the three lookahead   *)
(* tokens at its end.                                                      *)
(***************************************************************************)
EXTENDS Integers, Sequences, SequencesExt, FiniteSets

CONSTANTS NPredict,    \* opts.n_predict
          ChunkTokens, \* values of opts.stream_chunk_tokens
          FirstTokens, \* values of opts.stream_first_chunk_tokens
          PromptSlack, \* 2 * n_prompt - mel_len1, the prompt's frames of mu
                       \* that its mel does not cover
          MaxDropped   \* bound on the tokens outside the S3Gen vocabulary

ASSUME StreamAssumption ==
    /\ NPredict \in Nat /\ MaxDropped \in Nat
    /\ ChunkTokens \subseteq Nat \ {0}
    /\ FirstTokens \subseteq Nat
    /\ PromptSlack \in Nat

VARIABLES pc,        \* "idle", "t3", "chunk", "encoder", "cfm", "hift", "decode"
          opt,       \* [chunk, first]: the engine's options
          generated, \* T3's tokens; TRUE where S3Gen knows the token
          bounds,    \* boundaries
          k,         \* the chunk being rendered
          skip,      \* prev_mels_emitted
          told,      \* on_chunk's calls in this utterance: [from, to, last]
          cancel,    \* cancel_flag
          late,      \* on_chunk's calls since a cancel of this utterance
          ok         \* how the last utterance ended

vars == <<pc, opt, generated, bounds, k, skip, told, cancel, late, ok>>

LOOKAHEAD == 3    \* kS3GenLookaheadTokens and pre_lookahead_len
MELS      == 2    \* mel frames per speech token

SmallerOf(a, b) == IF a < b THEN a ELSE b
LargerOf(a, b)  == IF a > b THEN a ELSE b

Init ==
    /\ pc = "idle"
    /\ opt \in [chunk : ChunkTokens, first : FirstTokens]
    /\ generated = <<>> /\ bounds = <<>> /\ told = <<>>
    /\ k = 0 /\ skip = 0
    /\ cancel = FALSE /\ late = 0
    /\ ok = FALSE

(***************************************************************************)
(* synthesize(): the flag is cleared, T3 runs, the boundaries are laid     *)
(* out.                                                                    *)
(***************************************************************************)
Synthesize ==
    /\ pc = "idle"
    /\ pc' = "t3"
    /\ cancel' = FALSE
    /\ generated' = <<>> /\ bounds' = <<>> /\ told' = <<>>
    /\ k' = 0 /\ skip' = 0 /\ late' = 0
    /\ ok' = FALSE
    /\ UNCHANGED opt

\* An exception leaves synthesize(): nothing else of the engine changes.
Throw == pc' = "idle" /\ UNCHANGED <<opt, generated, bounds, k, skip, told, cancel, late, ok>>

\* One token that is not the stop token; the loop looks at the flag first.
T3Token ==
    /\ pc = "t3" /\ ~cancel
    /\ Len(generated) <= NPredict
    /\ \E known \in BOOLEAN :
          /\ ~known => Cardinality({i \in DOMAIN generated : ~generated[i]}) < MaxDropped
          /\ generated' = Append(generated, known)
    /\ UNCHANGED <<pc, opt, bounds, k, skip, told, cancel, late, ok>>

\* A cancel seen at the next token, or an evaluation that fails.
T3Throws == pc = "t3" /\ Throw

(***************************************************************************)
(* The boundaries: a first chunk, chunks of chunk_n, and a short tail      *)
(* merged into the chunk before it, over the tokens and the three silences *)
(* appended to them.                                                       *)
(***************************************************************************)
Total == Len(generated) + LOOKAHEAD

FirstChunk == IF opt.first > 0 THEN opt.first ELSE opt.chunk

Laid(first, chunk, total) ==
    LET n == 1 + (LargerOf(total - first, 0) + chunk - 1) \div chunk
    IN  [i \in 1 .. n + 1 |-> IF i = 1 THEN 0 ELSE SmallerOf(first + (i - 2) * chunk, total)]

\* Mutant: a merge that drops the end instead of the boundary before it.
MergeTailEnd(b) ==
    LET n == Len(b) IN
    IF n >= 3 /\ b[n] - b[n - 1] < LargerOf(6, opt.chunk \div 3)
    THEN RemoveAt(b, n) ELSE b

MergeTail(b) ==
    LET n == Len(b) IN
    IF n >= 3 /\ b[n] - b[n - 1] < LargerOf(6, opt.chunk \div 3)
    THEN RemoveAt(b, n - 1) ELSE b

\* The stop token, the n_predict limit, a full T3 context or a token three
\* times in a row end the loop; the chunk loop starts.
T3Done ==
    /\ pc = "t3"
    /\ bounds' = MergeTail(Laid(FirstChunk, opt.chunk, Total))
    /\ pc' = "chunk" /\ k' = 1
    /\ UNCHANGED <<opt, generated, skip, told, cancel, late, ok>>

(***************************************************************************)
(* One round of the loop: the flag, then s3gen_synthesize_to_wav with its  *)
(* own checks before the encoder, at each CFM step, before STFT and HiFT.  *)
(***************************************************************************)
End    == bounds[k + 1]
IsLast == End = Total

\* Mutant: a round that clears the flag, as synthesize() does.
ChunkClears ==
    /\ pc = "chunk" /\ k < Len(bounds)
    /\ pc' = "encoder" /\ cancel' = FALSE
    /\ UNCHANGED <<opt, generated, bounds, k, skip, told, late, ok>>

Chunk ==
    /\ pc = "chunk" /\ k < Len(bounds)
    /\ IF cancel THEN Throw
       ELSE pc' = "encoder" /\ UNCHANGED <<opt, generated, bounds, k, skip, told, cancel, late, ok>>

\* The tokens among the first n that S3Gen knows: it knows the silences.
Known(n) == Cardinality({i \in 1 .. n : i <= Len(generated) => generated[i]})

\* Frames beyond the prompt: the known tokens' frames, less the lookahead
\* unless this is the end.
MelFull ==
    PromptSlack + MELS * Known(End) - IF IsLast THEN 0 ELSE MELS * LOOKAHEAD

\* A prefix with no frames beyond the prompt, or with fewer than were emitted,
\* is an error; so is a failed graph.
Encode ==
    /\ pc = "encoder"
    /\ \/ cancel /\ Throw
       \/ ~cancel /\ MelFull < skip /\ Throw
       \/ ~cancel /\ MelFull >= skip /\ pc' = "cfm"
          /\ UNCHANGED <<opt, generated, bounds, k, skip, told, cancel, late, ok>>

Solve ==
    /\ pc = "cfm"
    /\ \/ cancel /\ Throw
       \/ ~cancel /\ pc' = "hift"
          /\ UNCHANGED <<opt, generated, bounds, k, skip, told, cancel, late, ok>>

Fails ==
    /\ pc \in {"encoder", "cfm", "hift", "decode"}
    /\ Throw

\* The checks before STFT and before HiFT; the decode is not interrupted.
Decode ==
    /\ pc = "hift"
    /\ \/ cancel /\ Throw
       \/ ~cancel /\ pc' = "decode"
          /\ UNCHANGED <<opt, generated, bounds, k, skip, told, cancel, late, ok>>

\* Mutant: a hand-over that remembers the frames of this chunk only.
DeliverForgets ==
    /\ pc = "decode"
    /\ told' = Append(told, [from |-> skip, to |-> MelFull, last |-> IsLast])
    /\ late' = late + IF cancel THEN 1 ELSE 0
    /\ pc' = "chunk" /\ k' = k + 1
    /\ skip' = MelFull - skip
    /\ UNCHANGED <<opt, generated, bounds, cancel, ok>>

\* run_hift_decode returns MelFull - skip frames of 480 samples, and on_chunk
\* is called whether or not a cancel arrived during the decode.
Deliver ==
    /\ pc = "decode"
    /\ told' = Append(told, [from |-> skip, to |-> MelFull, last |-> IsLast])
    /\ late' = late + IF cancel THEN 1 ELSE 0
    /\ pc' = "chunk" /\ k' = k + 1
    /\ skip' = skip + (MelFull - skip)
    /\ UNCHANGED <<opt, generated, bounds, cancel, ok>>

\* on_chunk throws: the exception passes through synthesize().
CallbackThrows == pc = "chunk" /\ told # <<>> /\ Throw

Return ==
    /\ pc = "chunk" /\ k = Len(bounds)
    /\ pc' = "idle" /\ ok' = TRUE
    /\ UNCHANGED <<opt, generated, bounds, k, skip, told, cancel, late>>

\* Engine::cancel from any thread.
Cancel ==
    /\ ~cancel
    /\ cancel' = TRUE
    /\ UNCHANGED <<pc, opt, generated, bounds, k, skip, told, late, ok>>

Next == \/ Synthesize \/ T3Token \/ T3Throws \/ T3Done \/ Chunk \/ Encode \/ Solve
        \/ Fails \/ Decode \/ Deliver \/ CallbackThrows \/ Return \/ Cancel

Spec == Init /\ [][Next]_vars

-----------------------------------------------------------------------------
\* Types.
TypeOK ==
    /\ pc \in {"idle", "t3", "chunk", "encoder", "cfm", "hift", "decode"}
    /\ generated \in Seq(BOOLEAN) /\ bounds \in Seq(Nat)
    /\ k \in Nat /\ skip \in Nat /\ late \in Nat
    /\ cancel \in BOOLEAN /\ ok \in BOOLEAN

(***************************************************************************)
(* The chunks handed to on_chunk are consecutive frames of the utterance   *)
(* from its first frame on, only the last one is flagged, and a call that  *)
(* returns has handed over every frame: the token boundaries, the merged   *)
(* tail, the lookahead that is trimmed and the frames that are skipped fit *)
(* together for every chunk size (synthesize_streaming with                *)
(* s3gen_synthesize_to_wav).                                               *)
(***************************************************************************)
ChunksTile ==
    /\ \A i \in DOMAIN told :
          /\ told[i].from = (IF i = 1 THEN 0 ELSE told[i - 1].to)
          /\ told[i].from <= told[i].to
          /\ told[i].last <=> i = Len(bounds) - 1
    /\ ok => /\ told # <<>> /\ Last(told).last
             /\ Last(told).to = PromptSlack + MELS * LOOKAHEAD
                    + MELS * Cardinality({i \in DOMAIN generated : generated[i]})

(***************************************************************************)
(* After a cancel() that arrives during the call on_chunk runs at most     *)
(* once more, for the decode that was under way (engine.h: "the worst-case *)
(* cancel latency is one in-flight graph submission").                     *)
(***************************************************************************)
CancelStops == late <= 1
=============================================================================
