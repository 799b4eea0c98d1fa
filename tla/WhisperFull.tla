---------------------------- MODULE WhisperFull ----------------------------
(***************************************************************************)
(* whisper_full_with_state: calls on one state, each a loop over windows   *)
(* of the audio; a window is decoded at rising temperatures until a        *)
(* decoding succeeds, its best sequence is cut into segments, reported and *)
(* remembered as context, and the window slides.                           *)
(*                                                                         *)
(* The parameters of a call are a record p, one of Calls.  Temperatures are*)
(* in tenths.  Scores are abstract: any decoder with a result may be best, *)
(* its avg_logprobs may be low, its entropy may fail it, and no_speech_prob*)
(* may be on either side of its threshold.  The selection of beam          *)
(* candidates is arbitrary here (module BeamDecode has it, with the cache).*)
(* The context is kept as the number of its tokens.                        *)
(***************************************************************************)
EXTENDS DecoderRules, FiniteSets

CONSTANTS
    Calls,       \* the parameter records of the calls considered
    MaxCalls,    \* bound: calls on the state
    MaxDec,      \* decoders of the state
    ShortTail,   \* frames from the end where the context is dropped (500)
    EntropyLen   \* the entropy test applies to longer results (32)

\* whisper_full_params, with seek_start and seek_end for offset_ms and the
\* length of the audio, and the number of prompt tokens for the prompt.
CallType ==
    [beam : BOOLEAN, best_of : Int, beam_size : Int, temperature : Nat, temperature_inc : Nat,
     max_tokens : Int, single_segment : BOOLEAN, no_timestamps : BOOLEAN, suppress_blank : BOOLEAN,
     no_context : BOOLEAN, carry : BOOLEAN, prompt_n : Nat, n_max_text_ctx : Int,
     seek_start : Nat, seek_end : Nat, dtw : BOOLEAN]

ASSUME WhisperFullAssumption ==
    /\ Calls \subseteq CallType
    \* with a temperature above 1.0 to start from, the list of temperatures is
    \* empty: no attempt is made, and what an earlier call left is output
    \* (not modelled)
    /\ \A q \in Calls : q.temperature_inc > 0 => q.temperature <= 10
    /\ MaxCalls \in Nat /\ MaxDec \in Nat \ {0}
    /\ ShortTail \in Nat /\ EntropyLen \in Nat

VARIABLES
    pc,         \* "out", "window", "attempt", "token", "rank", "emit"
    p,          \* params
    n_calls,    \* calls made so far
    seek,       \* start of the window
    it,         \* index of the temperature
    i,          \* index of the token
    best,       \* best_decoder_id
    dec,        \* state->decoders
    nosp,       \* no_speech_prob is above (TRUE) or below no_speech_thold
    past0,      \* prompt_past0.size()
    past1,      \* prompt_past1.size()
    prompt,     \* the prompt: [prev, take0, take1] (prompt_init follows)
    n_segs,     \* result_all.size()
    last_t1,    \* end of the last segment of result_all
    n_told      \* the total of n_new over the calls of new_segment_callback

vars == <<pc, p, n_calls, seek, it, i, best, dec, nosp, past0, past1, prompt,
          n_segs, last_t1, n_told>>

DecIds == 0 .. MaxDec - 1
NoPrompt == [prev |-> FALSE, take0 |-> 0, take1 |-> 0]

MinOf(a, b) == IF a <= b THEN a ELSE b
MaxOf(a, b) == IF a >= b THEN a ELSE b

-----------------------------------------------------------------------------
\* temperatures: t0, t0 + inc, ... up to 1.0
NTemps == IF p.temperature_inc > 0 THEN (10 - p.temperature) \div p.temperature_inc + 1 ELSE 1
t_cur  == p.temperature + it * p.temperature_inc

\* n_decoders_cur
n_dec == MaxOf(1, IF t_cur > 0 THEN p.best_of ELSE IF p.beam THEN p.beam_size ELSE 1)

\* n_decoders: the most decoders that an attempt of the call uses.
Decoders(q) == MaxOf(1, IF q.beam THEN MaxOf(q.best_of, q.beam_size) ELSE q.best_of)

\* max_prompt_ctx
MaxPromptCtx(q) == MinOf(q.n_max_text_ctx, n_text_ctx \div 2)

\* prompt_init: sot, language and task, and no_timestamps
NInit(q) == 3 + (IF q.no_timestamps THEN 1 ELSE 0)

PromptLen == (IF prompt.prev THEN 1 ELSE 0) + prompt.take0 + prompt.take1 + NInit(p)

Cur == 0 .. n_dec - 1
RunningDecs == {j \in Cur : Running(dec[j])}

Init ==
    /\ pc = "out" /\ p \in Calls /\ n_calls = 0
    /\ seek = 0 /\ it = 0 /\ i = 0 /\ best = 0
    /\ dec = [j \in DecIds |-> NewDecoder]
    /\ nosp = FALSE /\ past0 = 0 /\ past1 = 0 /\ prompt = NoPrompt
    /\ n_segs = 0 /\ last_t1 = 0 /\ n_told = 0

-----------------------------------------------------------------------------
\* The prompt of the call enters the context: it is kept apart when it is to
\* be carried, else it goes in front of the rolling context.
EnterPrompt(q, a, b) ==
    /\ past0' = IF q.prompt_n > 0 /\ q.carry /\ a = 0
                THEN MinOf(q.prompt_n, MaxOf(1, MaxPromptCtx(q) - 1)) ELSE a
    /\ past1' = IF q.prompt_n > 0 /\ ~q.carry THEN b + q.prompt_n ELSE b

\* A call, up to its main loop.  Old results are cleared first.  The call is
\* over at once when the audio is too short, when the spectrogram or the
\* language detection fails, when only the language was asked for, and when
\* too many decoders are.
Call(q) ==
    /\ pc = "out" /\ n_calls < MaxCalls
    /\ n_calls' = n_calls + 1
    /\ p' = q
    /\ n_segs' = 0 /\ last_t1' = q.seek_start /\ n_told' = 0
    /\ \/ UNCHANGED <<pc, seek, past0, past1>>
       \/ /\ q.seek_end >= q.seek_start + DeltaMin
          /\ Decoders(q) <= MaxDec
          /\ pc' = "window"
          /\ seek' = q.seek_start
          /\ IF q.no_context THEN EnterPrompt(q, 0, 0) ELSE EnterPrompt(q, past0, past1)
    /\ UNCHANGED <<it, i, best, dec, nosp, prompt>>

\* The loop ends with less than 100 ms left, or when the encoder callback says
\* so; a failure of the encoder ends the call with -6, and a bad audio_ctx with
\* -5 before the first window.
Return ==
    /\ pc = "window"
    /\ pc' = "out"
    /\ UNCHANGED <<p, n_calls, seek, it, i, best, dec, nosp, past0, past1, prompt,
                   n_segs, last_t1, n_told>>

Window ==
    /\ pc = "window" /\ seek + DeltaMin < p.seek_end
    /\ pc' = "attempt" /\ it' = 0 /\ best' = 0
    /\ IF seek > p.seek_start /\ seek + ShortTail >= p.seek_end
       THEN past0' = 0 /\ past1' = 0
       ELSE UNCHANGED <<past0, past1>>
    /\ UNCHANGED <<p, n_calls, seek, i, dec, nosp, prompt, n_segs, last_t1, n_told>>

-----------------------------------------------------------------------------
\* Mutant: the marker of the previous text is not part of the budget.
TakenOverBudget ==
    LET can0 == p.carry /\ past0 > 0
        can1 == past1 > 0
        n0   == IF can0 THEN past0 ELSE 0
    IN  IF /\ p.n_max_text_ctx > 0 /\ t_cur < 5
           /\ MaxPromptCtx(p) > 0 /\ (can0 \/ can1)
        THEN [prev |-> TRUE, take0 |-> n0, take1 |-> MinOf(MaxPromptCtx(p) - n0, past1)]
        ELSE NoPrompt

\* The context taken into the prompt: the carried prompt first, then as much
\* of the rolling context as the budget leaves; none at high temperatures.
Taken ==
    LET can0 == p.carry /\ past0 > 0
        can1 == past1 > 0
        n0   == IF can0 THEN past0 ELSE 0
    IN  IF /\ p.n_max_text_ctx > 0 /\ t_cur < 5
           /\ MaxPromptCtx(p) > 0 /\ (can0 \/ can1)
        THEN [prev |-> TRUE, take0 |-> n0, take1 |-> MinOf(MaxPromptCtx(p) - n0 - 1, past1)]
        ELSE NoPrompt

\* Nobody reads these before the next window or attempt initialises them.
Forget ==
    /\ dec' = [j \in DecIds |-> NewDecoder]
    /\ prompt' = NoPrompt /\ nosp' = FALSE /\ it' = 0 /\ i' = 0 /\ best' = 0

\* whisper_decode_internal fails or is aborted, on the prompt (return -8) or
\* on the next tokens (return -9): the segments so far remain.
Fail ==
    /\ pc \in {"attempt", "token"}
    /\ pc' = "out"
    /\ Forget
    /\ UNCHANGED <<p, n_calls, seek, past0, past1, n_segs, last_t1, n_told>>

\* The decoders of the attempt start afresh, the prompt is decoded.
Attempt ==
    /\ pc = "attempt"
    /\ dec' = [j \in DecIds |-> IF j \in Cur THEN NewDecoder ELSE dec[j]]
    /\ prompt' = Taken
    /\ i' = 0
    /\ nosp' \in BOOLEAN
    /\ pc' = "token"
    /\ UNCHANGED <<p, n_calls, seek, it, best, past0, past1, n_segs, last_t1, n_told>>

\* Mutant: the decoder that takes over a candidate keeps its own window.
TakeOverTokens(j, f, t) ==
    [dec[j] EXCEPT !.toks = Append(dec[f].toks, t), !.result_len = dec[f].result_len]

\* Decoder j receives the sequence of decoder f extended by t, and f's window.
TakeOver(j, f, t) ==
    [dec[j] EXCEPT !.toks = Append(dec[f].toks, t), !.result_len = dec[f].result_len,
                   !.seek_delta = dec[f].seek_delta, !.has_ts = dec[f].has_ts]

\* The decoders after sampling: greedy decoders extend their own sequence,
\* beam search hands out candidates.
Sampled(f, t) ==
    [j \in DecIds |-> IF j \in RunningDecs THEN TakeOver(j, f[j], t[j]) ELSE dec[j]]

\* One iteration of the token loop: sample, update, and decode the next batch
\* unless every decoder has finished; after n_max tokens the loop ends.
Token(f, t) ==
    LET d == [j \in DecIds |->
                IF j \in RunningDecs THEN Update(Sampled(f, t)[j], i, seek, p.seek_end, p) ELSE dec[j]]
    IN  /\ pc = "token"
        /\ \A j \in RunningDecs : t[j] \in Allowed(dec[f[j]], p)
        /\ ~p.beam => \A j \in RunningDecs : f[j] = j
        /\ dec' = d
        /\ IF \A j \in Cur : ~Running(d[j])
           THEN pc' = "rank" /\ i' = i
           ELSE /\ i' = i + 1
                /\ pc' = IF i + 1 < n_max THEN "token" ELSE "rank"
        /\ UNCHANGED <<p, n_calls, seek, it, best, nosp, past0, past1, prompt, n_segs, last_t1, n_told>>

-----------------------------------------------------------------------------
\* A decoder that has not failed is cut to its result and scored.  The scores
\* of an empty result stay at -INFINITY.
Scored(d, repeats, low) ==
    LET cut == [d EXCEPT !.toks = SubSeq(d.toks, 1, d.result_len),
                         !.low = IF d.result_len = 0 THEN @ ELSE low]
    IN  IF d.failed THEN d
        ELSE IF d.result_len > EntropyLen /\ repeats THEN [cut EXCEPT !.failed = TRUE]
        ELSE cut

\* The decoders that can have the highest score.
Contenders(ds) == {j \in Cur : ~ds[j].failed /\ ds[j].result_len > 0}

\* "was the decoding successful for the current temperature?"
FallsBack(d) == it # NTemps - 1 /\ (d.failed \/ (d.low /\ ~nosp))

\* Rank the sequences and decide whether to fall back to the next temperature.
Rank(repeats, low) ==
    LET ds == [j \in DecIds |-> IF j \in Cur THEN Scored(dec[j], j \in repeats, j \in low) ELSE dec[j]]
    IN  /\ pc = "rank"
        /\ dec' = ds
        /\ IF Contenders(ds) = {} THEN best' = best ELSE best' \in Contenders(ds)
        /\ IF FallsBack(ds[best'])
           THEN it' = it + 1 /\ pc' = "attempt"
           ELSE it' = it /\ pc' = "emit"
        /\ UNCHANGED <<p, n_calls, seek, i, nosp, past0, past1, prompt, n_segs, last_t1, n_told>>

-----------------------------------------------------------------------------
Out == dec[best]
is_no_speech == nosp /\ Out.low

\* The places in the output at which a segment may end: the first of a run of
\* timestamps.  A segment ends there if text precedes it.
Cuts == {x \in 1 .. Len(Out.toks) :
            /\ ~p.single_segment
            /\ Out.toks[x] > beg
            /\ x > 1 => Out.toks[x - 1] <= beg}

TextBefore(x) ==
    \E y \in 1 .. x - 1 : Out.toks[y] < eot /\ \A z \in y .. x - 1 : z \notin Cuts

Shown == Out.toks # <<>> /\ ~is_no_speech

\* The places at which the window's segments end, and the times.  Text after
\* the last cut makes a final segment that ends with the window.
SegEnds == IF Shown THEN {x \in Cuts \cup {Len(Out.toks) + 1} : TextBefore(x)} ELSE {}
EndTime(x) == seek + (IF x <= Len(Out.toks) THEN 2 * (Out.toks[x] - beg) ELSE Out.seek_delta)

\* The window slides by the last timestamp of the output, or by the whole
\* window when the output ends in a single timestamp.
SingleEnding ==
    LET n == Len(Out.toks)
    IN  /\ n > 1
        /\ ~(p.max_tokens > 0 /\ ~p.single_segment /\ n > p.max_tokens)
        /\ Out.toks[n - 1] < beg /\ Out.toks[n] > beg

\* Mutant: what the result covers is not skipped again.
SeekDeltaRest == IF SingleEnding THEN MinOf(p.seek_end - seek, Chunk) - Out.seek_delta ELSE Out.seek_delta

SeekDelta == IF SingleEnding THEN MinOf(p.seek_end - seek, Chunk) ELSE Out.seek_delta

\* What the segment callback is told in a window with n segments that make
\* total: one call per segment with n_new = 1; with DTW timestamps, the calls
\* of a loop over the indices total - n .. n - 1, each with n_new = the index.
Told(n, total) ==
    LET sum[x \in -1 .. n] == IF x < total - n THEN 0 ELSE x + sum[x - 1]
    IN  IF p.dtw THEN (IF n > 0 THEN sum[n - 1] ELSE 0) ELSE n

\* Output the best sequence and slide the window.
Emit ==
    LET n == Cardinality(SegEnds)
    IN  /\ pc = "emit"
        /\ pc' = "window"
        /\ past1' = (IF ~p.carry /\ prompt.prev THEN prompt.take0 + prompt.take1 ELSE 0)
                      + (IF is_no_speech THEN 0 ELSE Out.result_len)
        /\ n_segs' = n_segs + n
        /\ last_t1' = IF SegEnds = {} THEN last_t1
                      ELSE EndTime(CHOOSE x \in SegEnds : \A y \in SegEnds : y <= x)
        /\ n_told' = n_told + Told(n, n_segs + n)
        /\ seek' = seek + SeekDelta
        /\ Forget
        /\ UNCHANGED <<p, n_calls, past0>>

-----------------------------------------------------------------------------
TokenStep ==
    \E f \in [RunningDecs -> RunningDecs], t \in [RunningDecs -> Vocab] : Token(f, t)

RankStep == \E repeats, low \in SUBSET Cur : Rank(repeats, low)

Next ==
    \/ \E q \in Calls : Call(q)
    \/ Return
    \/ Window
    \/ Fail
    \/ Attempt
    \/ TokenStep
    \/ RankStep
    \/ Emit

Spec == Init /\ [][Next]_vars

\* The caller may never call again, but a call that was made runs on.
FairSpec == Spec /\ WF_vars(Return \/ Window \/ Fail \/ Attempt \/ TokenStep \/ RankStep \/ Emit)

-----------------------------------------------------------------------------
\* Types: the temperature index stays in the list, the decoders of the attempt
\* are decoders of the state, best_decoder_id is one of them.
TypeOK ==
    /\ pc \in {"out", "window", "attempt", "token", "rank", "emit"}
    /\ p \in Calls /\ n_calls \in 0 .. MaxCalls
    /\ {seek, i, past0, past1, n_segs, last_t1, n_told} \subseteq Nat
    /\ it \in 0 .. NTemps - 1 /\ best \in DecIds /\ Cur \subseteq DecIds
    /\ nosp \in BOOLEAN
    /\ \A j \in DecIds :
         /\ dec[j].toks \in Seq(Vocab)
         /\ {dec[j].has_ts, dec[j].failed, dec[j].completed, dec[j].low} \subseteq BOOLEAN

\* The time of the last timestamp of a sequence, 0 when there is none.
LastTime(toks) ==
    LET ts == {x \in 1 .. Len(toks) : toks[x] > beg}
    IN  IF ts = {} THEN 0 ELSE toks[CHOOSE x \in ts : \A y \in ts : y <= x] - beg

Consistent(d) ==
    /\ \A x, y \in 1 .. Len(d.toks) :
         x < y /\ d.toks[x] > beg /\ d.toks[y] >= beg => d.toks[x] <= d.toks[y]
    /\ d.has_ts => /\ LastTime(d.toks) > 0
                   /\ d.seek_delta = 2 * LastTime(d.toks) \/ (d.completed /\ d.seek_delta = Chunk)
    /\ ~d.has_ts => LastTime(d.toks) = 0 /\ d.seek_delta = Chunk
    /\ d.result_len <= Len(d.toks)
    /\ d.completed => d.result_len > 0

\* The bookkeeping of a decoder agrees with its tokens, also after it took
\* over another decoder's: its timestamps never go back (so the failure "due
\* to seek_delta" never happens), seek_delta is the last of them, and the
\* result does not reach past the tokens (the output loop indexes by it).
DecoderConsistent == pc \in {"token", "rank"} => \A j \in Cur : Consistent(dec[j])

\* The filters never mask every token: a running decoder can be sampled.
TokenLeft == pc = "token" => \A j \in RunningDecs : Allowed(dec[j], p) # {}

\* The output is a sequence of the attempt that was just ranked, not one that an
\* earlier temperature left in a decoder the attempt did not use.
OutputIsCurrent == pc = "emit" => best \in Cur

\* The context budget holds: what it leaves for the rolling context is not
\* negative (n_take1 counts the tokens taken from its end), and the prompt and
\* the tokens of an attempt fit into the text context (the last batch is
\* decoded at position PromptLen + n_max - 1).
ContextBudget ==
    pc = "token" => prompt.take1 >= 0 /\ PromptLen + n_max <= n_text_ctx

\* Segments come in order of their end, within a window, from one window to
\* the next and across fallbacks, and no segment ends after the place where
\* the next window starts, if there is one.
SegmentsInOrder ==
    pc = "emit" =>
        /\ \A x, y \in SegEnds : x < y => EndTime(x) <= EndTime(y)
        /\ \A x \in SegEnds :
             /\ last_t1 <= EndTime(x)
             /\ EndTime(x) <= seek + SeekDelta \/ seek + SeekDelta + DeltaMin >= p.seek_end

\* The segment callback has been told of every segment by the end of a window
\* ("Called on every newly generated text segment", with their number n_new).
\* It holds of the calls made as the segments are cut; with DTW timestamps the
\* calls are made by a loop of their own, and it does not.
AllTold == pc \in {"out", "window"} => n_told = n_segs

\* The window moves forward by what it has decoded ...
SeekAdvances == [][pc = "emit" => seek' > seek]_vars

\* ... so that every call returns.
CallReturns == pc # "out" ~> pc = "out"
=============================================================================
