------------------------ MODULE MCSortformerSession ------------------------
EXTENDS SortformerSession

\* Sliding history of one and a half and of three chunks, one that has to be
\* refused, and the cache with and without context.
MCOptions == {
    [chunk |-> 2, history |-> 3, lc |-> 0, rc |-> 0, cache |-> FALSE],
    [chunk |-> 1, history |-> 3, lc |-> 0, rc |-> 0, cache |-> FALSE],
    [chunk |-> 3, history |-> 2, lc |-> 0, rc |-> 0, cache |-> FALSE],
    [chunk |-> 2, history |-> 4, lc |-> 1, rc |-> 1, cache |-> TRUE]}

\* The cache, with a frame of context on either side.
HeadOptions == {[chunk |-> 2, history |-> 4, lc |-> 1, rc |-> 1, cache |-> TRUE]}

\* The cache, with more right context than the padding of a window.
TailOptions == {[chunk |-> 2, history |-> 4, lc |-> 1, rc |-> 2, cache |-> TRUE]}
=============================================================================
