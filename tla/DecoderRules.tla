---------------------------- MODULE DecoderRules ----------------------------
(***************************************************************************)
(* The rules that govern one decoder (struct whisper_decoder) while it     *)
(* produces the tokens of a window: which tokens the logit filters leave   *)
(* (whisper_process_logits), and how a sampled token updates the decoder   *)
(* (the "update the decoder state" loop of whisper_full_with_state).       *)
(*                                                                         *)
(* Token ids keep the order of the vocabulary: text < eot < beg <= times.  *)
(* The timestamp beg + q stands for 2 * q frames from the window's start.  *)
(* The special tokens between eot and beg are masked and left out; that of  *)
(* the speaker turn is masked because tdrz_enable is FALSE here (default). *)
(***************************************************************************)
EXTENDS Integers, Sequences

CONSTANTS
    Words,        \* number of text tokens
    Chunk,        \* 100*WHISPER_CHUNK_SIZE: frames of a window (3000)
    DeltaMin,     \* delta_min: 100 ms in frames (10)
    MaxInitialTs, \* round(max_initial_ts/precision): largest first timestamp (50),
                  \* or -1 when max_initial_ts <= 0: there is no limit
    n_text_ctx    \* hparams.n_text_ctx (448)

ASSUME DecoderRulesAssumption ==
    /\ Words \in Nat \ {0}
    /\ Chunk \in Nat \ {0} /\ Chunk % 2 = 0
    /\ DeltaMin \in Nat
    /\ MaxInitialTs \in Nat \cup {-1}
    /\ n_text_ctx \in Nat /\ n_text_ctx \div 2 > 4

n_max == n_text_ctx \div 2 - 4

eot   == Words
beg   == Words + 1
Vocab == 0 .. beg + Chunk \div 2

Last(s) == s[Len(s)]

-----------------------------------------------------------------------------
\* WHISPER_DECODER_INIT.  low stands for avg_logprobs < logprob_thold, which
\* holds of the initial -INFINITY.
NewDecoder ==
    [toks |-> <<>>, result_len |-> 0, seek_delta |-> Chunk, has_ts |-> FALSE,
     failed |-> FALSE, completed |-> FALSE, low |-> TRUE]

Running(d) == ~d.completed /\ ~d.failed

-----------------------------------------------------------------------------
\* "timestamps have to appear in pairs, except directly before EOT": after a
\* pair (or a first timestamp) only text and eot, after a single one no text.
PairRule(toks, t) ==
    LET last        == Len(toks) > 0 /\ Last(toks) >= beg
        penultimate == Len(toks) < 2 \/ toks[Len(toks) - 1] >= beg
    IN  last => IF penultimate THEN t < beg ELSE t >= eot

\* Mutant: the last timestamp before the current one is still allowed.
IncreasingRuleOff(d, t) == d.has_ts => t < beg \/ t >= beg + d.seek_delta \div 2 - 1

\* "condition timestamp tokens to be increasing"
IncreasingRule(d, t) == d.has_ts => t < beg \/ t >= beg + d.seek_delta \div 2

\* Mutant: the limit only leaves the end of text.
MaxTokensRuleEot(d, p, t) ==
    (~p.no_timestamps /\ ~p.single_segment /\ p.max_tokens > 0 /\ Len(d.toks) >= p.max_tokens)
        => t > eot

\* Once max_tokens tokens are there, no more text (a timestamp or eot ends the
\* segment).  Not for a single segment, nor without timestamps.
MaxTokensRule(d, p, t) ==
    (~p.no_timestamps /\ ~p.single_segment /\ p.max_tokens > 0 /\ Len(d.toks) >= p.max_tokens)
        => t >= eot

\* The tokens with a probability left after the filters.  Boosting the
\* timestamps over the text only narrows the choice.
Allowed(d, p) ==
    {t \in Vocab :
        /\ p.suppress_blank /\ d.toks = <<>> => t # eot
        /\ p.no_timestamps => t < beg
        /\ MaxTokensRule(d, p, t)
        /\ PairRule(d.toks, t)
        /\ d.toks = <<>> /\ MaxInitialTs >= 0 => t <= beg + MaxInitialTs
        /\ IncreasingRule(d, t)}

-----------------------------------------------------------------------------
\* Mutant: a timestamp at the very start of the window counts as progress.
SlideAny(d, i) ==
    IF Last(d.toks) >= beg
    THEN [d EXCEPT !.seek_delta = 2 * (Last(d.toks) - beg), !.result_len = i + 1, !.has_ts = TRUE]
    ELSE d

\* A timestamp token moves the window and extends the result.
Slide(d, i) ==
    IF Last(d.toks) > beg
    THEN [d EXCEPT !.seek_delta = 2 * (Last(d.toks) - beg), !.result_len = i + 1, !.has_ts = TRUE]
    ELSE d

\* "do not allow to go back in time"
GoesBack(d, i) ==
    /\ Last(d.toks) > beg
    /\ d.has_ts /\ d.seek_delta > 2 * (Last(d.toks) - beg) /\ d.result_len < i

AtEnd(d, seek, seek_end) == seek + d.seek_delta + DeltaMin >= seek_end

\* End of segment: the decoder completes, or fails when it has no result.
Finish(d, i, seek, seek_end, p) ==
    IF d.result_len = 0 /\ ~p.no_timestamps /\ ~AtEnd(d, seek, seek_end)
    THEN [d EXCEPT !.failed = TRUE]
    ELSE IF p.single_segment \/ p.no_timestamps
    THEN [d EXCEPT !.completed = TRUE, !.result_len = i + 1, !.seek_delta = Chunk]
    ELSE [d EXCEPT !.completed = TRUE, !.result_len = IF @ = 0 THEN i + 1 ELSE @]

\* The body of the update loop for a running decoder that has just received
\* its token number i (from 0).
Update(d, i, seek, seek_end, p) ==
    LET d1   == Slide(d, i)
        ends == \/ Last(d.toks) = eot
                \/ p.max_tokens > 0 /\ i >= p.max_tokens
                \/ d1.has_ts /\ AtEnd(d1, seek, seek_end)
    IN  IF GoesBack(d, i) THEN [d EXCEPT !.failed = TRUE]
        ELSE IF ends THEN Finish(d1, i, seek, seek_end, p)
        \* stuck in a repetition loop
        ELSE IF i = n_max - 1 /\ (d1.result_len = 0 \/ d1.seek_delta < Chunk \div 2)
        THEN [d1 EXCEPT !.failed = TRUE]
        ELSE d1
=============================================================================
