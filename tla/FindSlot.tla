------------------------------ MODULE FindSlot ------------------------------
(***************************************************************************)
(* whisper_kv_cache_find_slot: the search for a run of free cells in the   *)
(* unified self-attention KV cache, one action per iteration of its        *)
(* while (true) loop.                                                      *)
(*                                                                         *)
(* The search starts at cache.head, wraps once at the end of the cache and *)
(* gives up when n_tested reaches the size of the cache.  n_tested counts  *)
(* the start positions already ruled out, but the wrap adds the rest of    *)
(* the cache to it in one go and is followed by a `continue' that skips    *)
(* the give-up test, so neither "a free run is always found" nor "the loop *)
(* ends" is evident from the text.                                         *)
(***************************************************************************)
EXTENDS Integers

CONSTANTS
    n_ctx,      \* cache.size
    BatchSizes  \* the values of batch.n_tokens considered

ASSUME FindSlotAssumption ==
    /\ n_ctx \in Nat \ {0}
    /\ BatchSizes \subseteq Nat \ {0}

VARIABLES
    occ,        \* the cells with pos >= 0
    n_tokens,   \* batch.n_tokens
    head,       \* cache.head
    n_tested,   \* the local counter
    h0,         \* history: cache.head when the search began
    ret         \* "run" inside the loop, then "found" or "fail"

searchvars == <<occ, n_tokens, head, n_tested, h0, ret>>

Cells == 0 .. n_ctx - 1

-----------------------------------------------------------------------------
\* What the caller needs: a start position whose next k cells are all free.
FreeStart(o, k, s) == s + k <= n_ctx /\ \A c \in s .. s + k - 1 : c \notin o

\* The slot the search promises: the first free start at or after the old
\* head, and if there is none, the first free start of the cache.
IsSlot(o, k, h, s) ==
    /\ FreeStart(o, k, s)
    /\ \/ s >= h /\ \A t \in h .. s - 1 : ~FreeStart(o, k, t)
       \/ /\ s < h
          /\ \A t \in h .. n_ctx : ~FreeStart(o, k, t)
          /\ \A t \in 0 .. s - 1 : ~FreeStart(o, k, t)

-----------------------------------------------------------------------------
SearchInit ==
    /\ occ \in SUBSET Cells
    /\ n_tokens \in BatchSizes
    /\ head \in 0 .. n_ctx
    /\ n_tested = 0
    /\ h0 = head
    /\ ret = "run"

\* n_tokens > n_ctx: the early return, before the loop.
Reject ==
    /\ ret = "run" /\ n_tokens > n_ctx
    /\ ret' = "fail"
    /\ UNCHANGED <<occ, n_tokens, head, n_tested, h0>>

\* Mutant: the wrap counts the whole batch as tested and runs into the give-up
\* test instead of past it.
WrapThenTest ==
    /\ ret = "run" /\ n_tokens <= n_ctx
    /\ head + n_tokens > n_ctx
    /\ n_tested' = n_tested + (n_ctx - head) + n_tokens
    /\ head' = 0
    /\ ret' = IF n_tested' >= n_ctx THEN "fail" ELSE "run"
    /\ UNCHANGED <<occ, n_tokens, h0>>

\* The batch does not fit between head and the end: restart at cell 0.
Wrap ==
    /\ ret = "run" /\ n_tokens <= n_ctx
    /\ head + n_tokens > n_ctx
    /\ n_tested' = n_tested + (n_ctx - head)
    /\ head' = 0
    /\ UNCHANGED <<occ, n_tokens, h0, ret>>

\* i is the offset of the first occupied cell of the run that starts at head.
FirstOccupied(i) ==
    /\ i \in 0 .. n_tokens - 1
    /\ head + i \in occ
    /\ \A k \in 0 .. i - 1 : head + k \notin occ

\* Mutant: the blocked run is not counted.
SkipUncounted ==
    /\ ret = "run" /\ n_tokens <= n_ctx
    /\ head + n_tokens <= n_ctx
    /\ \E i \in 0 .. n_tokens - 1 : FirstOccupied(i) /\ head' = head + i + 1
    /\ ret' = IF n_tested >= n_ctx THEN "fail" ELSE "run"
    /\ UNCHANGED <<occ, n_tokens, n_tested, h0>>

\* The run is blocked: continue behind the blocking cell, or give up.
Skip ==
    /\ ret = "run" /\ n_tokens <= n_ctx
    /\ head + n_tokens <= n_ctx
    /\ \E i \in 0 .. n_tokens - 1 :
          /\ FirstOccupied(i)
          /\ head' = head + i + 1
          /\ n_tested' = n_tested + i + 1
    /\ ret' = IF n_tested' >= n_ctx THEN "fail" ELSE "run"
    /\ UNCHANGED <<occ, n_tokens, h0>>

\* Mutant: the scan looks at one cell too few.
TakeShort ==
    /\ ret = "run" /\ n_tokens <= n_ctx
    /\ head + n_tokens <= n_ctx
    /\ \A k \in 0 .. n_tokens - 2 : head + k \notin occ
    /\ occ' = occ \cup (head .. head + n_tokens - 1)
    /\ ret' = "found"
    /\ UNCHANGED <<n_tokens, head, n_tested, h0>>

\* The run is free: its cells get the positions of the batch.
Take ==
    /\ ret = "run" /\ n_tokens <= n_ctx
    /\ head + n_tokens <= n_ctx
    /\ \A k \in 0 .. n_tokens - 1 : head + k \notin occ
    /\ occ' = occ \cup (head .. head + n_tokens - 1)
    /\ ret' = "found"
    /\ UNCHANGED <<n_tokens, head, n_tested, h0>>

SearchNext == Reject \/ Wrap \/ Skip \/ Take

SearchSpec == SearchInit /\ [][SearchNext]_searchvars

\* The loop is straight-line code of one thread: it keeps running.
FairSearchSpec == SearchSpec /\ WF_searchvars(SearchNext)

-----------------------------------------------------------------------------
\* Types.
SearchTypeOK ==
    /\ occ \subseteq Cells
    /\ n_tokens \in BatchSizes
    /\ head \in 0 .. n_ctx
    /\ n_tested \in Nat
    /\ h0 \in 0 .. n_ctx
    /\ ret \in {"run", "found", "fail"}

\* find_slot returns false only when the cache really has no run of n_tokens
\* free cells, wherever the search began (no false "cache full").
FailMeansFull == ret = "fail" => \A s \in 0 .. n_ctx : ~FreeStart(occ, n_tokens, s)

\* What find_slot takes is the first free run after the old head, cyclically:
\* no live cell is overwritten and no earlier hole is passed over.
TakesFirstFit == [][ret' = "found" => IsSlot(occ, n_tokens, h0, head')]_searchvars

\* The while (true) loop ends from every head and every occupancy.
Terminates == <>(ret # "run")

-----------------------------------------------------------------------------
\* The inductive invariant.  The search makes up to three passes: from h0 to
\* the end, from 0 up to h0, and, when the second pass met the end of the
\* cache before it reached h0, one last probe at 0 that must fail.
NoStartIn(a, b) == \A s \in a .. b : ~FreeStart(occ, n_tokens, s)

FirstPass ==
    /\ head >= h0
    /\ n_tested = head - h0
    /\ NoStartIn(h0, head - 1)

SecondPass ==
    /\ n_tested = (n_ctx - h0) + head
    /\ n_tested < n_ctx
    /\ NoStartIn(h0, n_ctx)
    /\ NoStartIn(0, head - 1)

LastProbe ==
    /\ n_tested >= n_ctx
    /\ NoStartIn(0, n_ctx)

Progress ==
    ret = "run" =>
        \/ n_tokens > n_ctx /\ n_tested = 0 /\ head = h0
        \/ FirstPass
        \/ SecondPass
        \/ LastProbe

SearchInv == SearchTypeOK /\ Progress /\ FailMeansFull
=============================================================================
