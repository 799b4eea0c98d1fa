-------------------------- MODULE MCStreamSession --------------------------
EXTENDS StreamSession

\* Context of whole frames with and without look-ahead, context that is not a
\* multiple of the chunk, chunks that are no whole number of frames, the EOU
\* model, and voice events.
MCOptions == {
    [chunk |-> 2, left |-> 4, right |-> 1, eou |-> FALSE, vad |-> FALSE],
    [chunk |-> 4, left |-> 2, right |-> 0, eou |-> TRUE,  vad |-> TRUE],
    [chunk |-> 3, left |-> 4, right |-> 2, eou |-> FALSE, vad |-> FALSE],
    [chunk |-> 4, left |-> 0, right |-> 3, eou |-> FALSE, vad |-> TRUE]}

\* The defaults of StreamingOptions, counted in mel hops of 10 ms.
DefaultOptions == {[chunk |-> 100, left |-> 1000, right |-> 200, eou |-> FALSE, vad |-> FALSE]}
=============================================================================
