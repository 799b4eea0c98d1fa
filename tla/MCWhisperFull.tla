--------------------------- MODULE MCWhisperFull ---------------------------
(***************************************************************************)
(* Parameter sets for the runs of WhisperFull.                             *)
(***************************************************************************)
EXTENDS WhisperFull

\* whisper_full_default_params, scaled: greedy, two decoders when hot.
Greedy ==
    [beam |-> FALSE, best_of |-> 2, beam_size |-> 1, temperature |-> 0, temperature_inc |-> 6,
     max_tokens |-> 0, single_segment |-> FALSE, no_timestamps |-> FALSE, suppress_blank |-> TRUE,
     no_context |-> TRUE, carry |-> FALSE, prompt_n |-> 0, n_max_text_ctx |-> 16384,
     seek_start |-> 0, seek_end |-> 6, dtw |-> FALSE]

\* Beam search with the default best_of = -1: one decoder when hot.
Beam == [Greedy EXCEPT !.beam = TRUE, !.beam_size = 2, !.best_of = -1]
BeamCalls == {Beam}

\* Calls that share a context, of one decoder, with a prompt that may exceed
\* the budget.  Calls that carry the prompt agree on n_max_text_ctx.
Single == [Greedy EXCEPT !.best_of = 1, !.no_context = FALSE, !.prompt_n = 3]
ContextCalls ==
    {[Single EXCEPT !.carry = c, !.n_max_text_ctx = IF c THEN 16384 ELSE n, !.prompt_n = m,
                    !.no_timestamps = nt] :
        c \in BOOLEAN, n \in {2, 16384}, m \in {3, 8}, nt \in BOOLEAN}

\* Two calls that carry the prompt, with different sizes of the context.
ShrinkingCalls == {[Single EXCEPT !.carry = TRUE, !.n_max_text_ctx = n] : n \in {2, 16384}}

\* A limit on the tokens of a segment.
LimitCalls == {[Greedy EXCEPT !.best_of = 1, !.max_tokens = n, !.suppress_blank = b] :
                  n \in 1 .. 2, b \in BOOLEAN}

\* Calls that differ in strategy and limits.
WindowCalls == {Greedy, [Beam EXCEPT !.temperature_inc = 0]} \cup LimitCalls

\* Token timestamps by DTW.
DtwCalls == {[Greedy EXCEPT !.best_of = 1, !.dtw = TRUE]}

\* One call with any of the WindowCalls, or two with any of the ContextCalls.
SessionCalls == WindowCalls \cup ContextCalls

Step == Return \/ Window \/ Fail \/ Attempt \/ TokenStep \/ RankStep \/ Emit

SessionNext ==
    \/ \E q \in SessionCalls : (n_calls > 0 => {p, q} \subseteq ContextCalls) /\ Call(q)
    \/ Step

SessionSpec == Init /\ [][SessionNext]_vars /\ WF_vars(Step)
=============================================================================
